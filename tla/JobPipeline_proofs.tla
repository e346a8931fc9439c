-------------------------- MODULE JobPipeline_proofs --------------------------
(***************************************************************************)
(* Proofs about the path from a job to a share, for every queue size,      *)
(* number of slots and list of pools: every job has one holder or was      *)
(* freed once, no work is sent twice, shares keep their job, and casts are *)
(* safe where the pools use one type of SV2 channel.  New work and safe    *)
(* casts: but for the work at hand when a protocol task ends beside it.    *)
(***************************************************************************)
EXTENDS JobPipeline, FiniteSetTheorems, TLAPS

\* The job number held by a pointer.
NumOf(x) == IF x = None THEN {} ELSE {x.num}

\* The numbers in a queue are pairwise different.
Unique(q) == \A i, j \in DOMAIN q : q[i].num = q[j].num => i = j

JobTypes == /\ queue \in Seq(Job) /\ issued \in Nat
            /\ item \in Job \cup {None} /\ work \in Job \cup {None} /\ incoming \in Job \cup {None}
            /\ pools \in Seq(Kinds) /\ pool \in DOMAIN pools

\* Who has a job in hand.
InHand == /\ pc \in {"got", "adopt"} <=> item # None
          /\ task \in {"clear", "invalidate", "add"} <=> incoming # None
          /\ pc = "adopt" => work = None
          /\ pc \in {"check", "generate"} => work # None

\* The five places of a job share none, and every job received is in one.
OnePlace(q, i, w, n, f) ==
    /\ q \cap i = {} /\ q \cap w = {} /\ q \cap n = {} /\ i \cap w = {} /\ i \cap n = {} /\ w \cap n = {}
    /\ (q \cup i \cup w \cup n) \cap f = {}

JobInv == /\ JobTypes /\ InHand /\ Unique(queue)
          /\ OnePlace(Nums(queue), NumOf(item), NumOf(work), NumOf(incoming), freed)
          /\ Nums(queue) \cup NumOf(item) \cup NumOf(work) \cup NumOf(incoming) \cup freed = 1 .. issued

LEMMA NumsEmpty == Nums(<<>>) = {} /\ Unique(<<>>) /\ <<>> \in Seq(Job)
  BY DEF Nums, Unique

LEMMA NumsAppend ==
    ASSUME NEW q \in Seq(Job), NEW j \in Job, Unique(q), j.num \notin Nums(q)
    PROVE  Append(q, j) \in Seq(Job) /\ Nums(Append(q, j)) = Nums(q) \cup {j.num} /\ Unique(Append(q, j))
  <1>1. /\ Append(q, j) \in Seq(Job) /\ DOMAIN Append(q, j) = DOMAIN q \cup {Len(q) + 1}
        /\ Append(q, j)[Len(q) + 1] = j /\ \A i \in DOMAIN q : Append(q, j)[i] = q[i]
    OBVIOUS
  <1>2. Nums(Append(q, j)) = Nums(q) \cup {j.num}
    BY <1>1 DEF Nums
  <1>3. Unique(Append(q, j))
    BY <1>1 DEF Nums, Unique
  <1> QED
    BY <1>1, <1>2, <1>3

LEMMA NumsTail ==
    ASSUME NEW q \in Seq(Job), q # <<>>, Unique(q)
    PROVE  /\ Tail(q) \in Seq(Job) /\ Head(q) \in Job /\ Unique(Tail(q))
           /\ Nums(q) = {Head(q).num} \cup Nums(Tail(q)) /\ Head(q).num \notin Nums(Tail(q))
  <1>1. /\ Tail(q) \in Seq(Job) /\ Head(q) = q[1] /\ q[1] \in Job /\ 1 \in DOMAIN q
        /\ Len(q) \in Nat /\ DOMAIN q = 1 .. Len(q) /\ DOMAIN Tail(q) = 1 .. Len(q) - 1
    OBVIOUS
  <1>2. \A i \in DOMAIN Tail(q) : i + 1 \in DOMAIN q /\ Tail(q)[i] = q[i + 1] /\ i + 1 # 1 /\ i \in Nat
    BY <1>1
  <1>3. \A i \in DOMAIN q : i = 1 \/ \E k \in DOMAIN Tail(q) : Tail(q)[k] = q[i]
    <2>1. ASSUME NEW i \in DOMAIN q, i # 1 PROVE i - 1 \in DOMAIN Tail(q) /\ (i - 1) + 1 = i
      BY <1>1, <2>1
    <2> QED
      BY <1>2, <2>1
  <1>4. Nums(q) = {q[1].num} \cup Nums(Tail(q))
    <2>1. \A i \in DOMAIN q : q[i].num \in {q[1].num} \cup Nums(Tail(q))
      BY <1>3, Zenon DEF Nums
    <2>2. \A i \in DOMAIN Tail(q) : Tail(q)[i].num \in Nums(q)
      BY <1>2, Zenon DEF Nums
    <2>3. q[1].num \in Nums(q)
      BY <1>1, Zenon DEF Nums
    <2> QED
      BY <2>1, <2>2, <2>3 DEF Nums
  <1>5. q[1].num \notin Nums(Tail(q))
    BY <1>1, <1>2 DEF Nums, Unique
  <1>6. Unique(Tail(q))
    BY <1>1, <1>2 DEF Unique
  <1> QED
    BY <1>1, <1>4, <1>5, <1>6

LEMMA InitJobInv == Init => JobInv
  <1> SUFFICES ASSUME Init PROVE JobInv
    OBVIOUS
  <1>1. JobTypes
    BY PipelineAssumption DEF Init, JobTypes
  <1> QED
    BY <1>1, NumsEmpty DEF Init, JobInv, InHand, OnePlace, NumOf

\* Steps that move no job keep the places, whatever else they do.
LEMMA NoJobMoves ==
    ASSUME JobInv, UNCHANGED <<queue, issued, item, work, incoming, freed, pools>>, pool' \in DOMAIN pools,
           InHand'
    PROVE  JobInv'
  BY DEF JobInv, JobTypes, Unique, OnePlace, NumOf, Nums

LEMMA TaskJobInv == ASSUME JobInv, TaskNext PROVE JobInv'
  <1> USE DEF createVars
  <1>0. pool \in DOMAIN pools /\ InHand /\ JobTypes
    BY DEF JobInv, JobTypes
  <1>1. CASE Connect \/ Handshake \/ OpenChannel \/ SetExtranonce \/ Disconnect \/ ExitTask
    <2>1. /\ UNCHANGED <<queue, issued, item, work, incoming, freed, pools>> /\ pool' \in DOMAIN pools
          /\ pc' = pc
      BY <1>0, <1>1 DEF Connect, Handshake, OpenChannel, SetExtranonce, Disconnect, ExitTask
    <2>2. {task, task'} \cap {"clear", "invalidate", "add"} = {}
      BY <1>1 DEF Connect, Handshake, OpenChannel, SetExtranonce, Disconnect, ExitTask
    <2> QED
      BY <1>0, <2>1, <2>2, NoJobMoves DEF InHand
  <1>2. CASE Invalidate
    <2>1. UNCHANGED <<queue, issued, item, work, incoming, freed, pools, pool, pc>>
      BY <1>2 DEF Invalidate
    <2>2. task \in {"clear", "invalidate", "add"} <=> task' \in {"clear", "invalidate", "add"}
      BY <1>2 DEF Invalidate
    <2> QED
      BY <1>0, <2>1, <2>2, NoJobMoves DEF InHand
  <1>3. CASE \E clean \in BOOLEAN : Notify(clean)
    <2>1. PICK clean \in BOOLEAN : Notify(clean)
      BY <1>3
    <2>2. MyKind \in Kinds /\ issued + 1 \in 1 .. MaxJobs /\ issued \in Nat
      BY <1>0, <2>1, PipelineAssumption DEF JobTypes, MyKind, Notify
    <2>3. /\ incoming' \in Job /\ incoming' # None /\ incoming'.num = issued + 1 /\ issued' = issued + 1
          /\ task' \in {"clear", "add"} /\ task = "up"
      BY <2>1, <2>2, NoneAssumption DEF Notify, Job
    <2>4. UNCHANGED <<queue, item, work, freed, pools, pool, pc>>
      BY <2>1 DEF Notify
    <2>5. NumOf(incoming) = {} /\ NumOf(incoming)' = {issued + 1}
      BY <1>0, <2>3 DEF InHand, NumOf
    <2>6. 1 .. issued + 1 = (1 .. issued) \cup {issued + 1} /\ issued + 1 \notin 1 .. issued
      BY <2>2
    <2>7. UNCHANGED <<Nums(queue), NumOf(item), NumOf(work), Unique(queue)>>
      BY <2>4 DEF Nums, NumOf, Unique
    <2>8. JobTypes' /\ InHand'
      BY <1>0, <2>2, <2>3, <2>4 DEF JobTypes, InHand
    <2> QED
      BY <2>3, <2>4, <2>5, <2>6, <2>7, <2>8 DEF JobInv, OnePlace
  <1>4. CASE CleanQueue \/ \E p \in DOMAIN pools : Switch(p)
    <2>1. /\ queue' = <<>> /\ freed' = freed \cup Nums(queue)
          /\ UNCHANGED <<issued, item, work, incoming, pools, pc>> /\ pool' \in DOMAIN pools
      BY <1>0, <1>4 DEF CleanQueue, Switch
    <2>2. task \in {"clear", "invalidate", "add"} <=> task' \in {"clear", "invalidate", "add"}
      BY <1>4 DEF CleanQueue, Switch
    <2>3. Nums(queue') = {} /\ Unique(queue') /\ queue' \in Seq(Job)
      BY <2>1, NumsEmpty
    <2>4. JobTypes' /\ InHand'
      BY <1>0, <2>1, <2>2, <2>3 DEF JobTypes, InHand
    <2>5. UNCHANGED <<NumOf(item), NumOf(work), NumOf(incoming)>>
      BY <2>1 DEF NumOf
    <2> QED
      BY <2>1, <2>3, <2>4, <2>5 DEF JobInv, OnePlace
  <1>5. CASE Enqueue
    <2> DEFINE rest == IF Len(queue) = QueueSize THEN Tail(queue) ELSE queue
    <2>1. /\ queue' = Append(rest, incoming) /\ incoming' = None /\ task = "add" /\ task' = "up"
          /\ UNCHANGED <<issued, item, work, pools, pool, pc>>
          /\ freed' = IF Len(queue) = QueueSize THEN freed \cup {Head(queue).num} ELSE freed
      BY <1>5 DEF Enqueue
    <2>2. incoming \in Job /\ NumOf(incoming) = {incoming.num} /\ NumOf(incoming)' = {}
      BY <1>0, <2>1 DEF InHand, JobTypes, NumOf
    <2>3. /\ rest \in Seq(Job) /\ Unique(rest) /\ Nums(rest) \subseteq Nums(queue)
          /\ freed' \cup Nums(rest) = freed \cup Nums(queue) /\ freed' \cap Nums(rest) = {}
          /\ freed' \subseteq freed \cup Nums(queue)
      <3>1. CASE Len(queue) = QueueSize
        <4>1. queue # <<>>
          BY <3>1, PipelineAssumption
        <4> QED
          BY <2>1, <3>1, <4>1, NumsTail DEF JobInv, JobTypes, OnePlace
      <3>2. CASE Len(queue) # QueueSize
        BY <2>1, <3>2 DEF JobInv, JobTypes, OnePlace
      <3> QED
        BY <3>1, <3>2
    <2>4. incoming.num \notin Nums(queue) \cup freed
      BY <2>2 DEF JobInv, OnePlace
    <2>5. queue' \in Seq(Job) /\ Nums(queue') = Nums(rest) \cup {incoming.num} /\ Unique(queue')
      BY <2>1, <2>2, <2>3, <2>4, NumsAppend
    <2>6. JobTypes' /\ InHand'
      BY <1>0, <2>1, <2>5 DEF JobTypes, InHand
    <2>7. UNCHANGED <<NumOf(item), NumOf(work)>>
      BY <2>1 DEF NumOf
    <2> HIDE DEF rest
    <2> QED
      BY <2>1, <2>2, <2>3, <2>4, <2>5, <2>6, <2>7 DEF JobInv, OnePlace
  <1> QED
    BY <1>1, <1>2, <1>3, <1>4, <1>5 DEF TaskNext

LEMMA CreateJobInv == ASSUME JobInv, Create PROVE JobInv'
  <1> USE DEF createOnly, connVars
  <1>0. pool \in DOMAIN pools /\ InHand /\ JobTypes
    BY DEF JobInv, JobTypes
  <1>1. CASE DequeueTimeout \/ GenerateV1 \/ GenerateStandard \/ GenerateExtended
    <2>1. UNCHANGED <<queue, issued, item, work, incoming, freed, pools, pool, task>>
      BY <1>1 DEF DequeueTimeout, GenerateV1, GenerateStandard, GenerateExtended
    <2>2. pc \in {"wait", "generate"} /\ pc' \in {"top", "check"} /\ (pc' = "check" => work # None)
      BY <1>1 DEF DequeueTimeout, GenerateV1, GenerateStandard, GenerateExtended
    <2> QED
      BY <1>0, <2>1, <2>2, NoJobMoves DEF InHand
  <1>2. CASE TopOfLoop \/ CheckProtocol
    <2>1. /\ UNCHANGED <<queue, issued, item, incoming, pools, pool, task>>
          /\ pc \in {"top", "check"} /\ pc' \in {"wait", "top", "generate"}
          /\ \/ FreeWork /\ pc' # "generate"
             \/ freed' = freed /\ work' = work /\ (pc' = "generate" => pc = "check")
      BY <1>2 DEF TopOfLoop, CheckProtocol
    <2>2. CASE FreeWork /\ pc' # "generate"
      <3>1. work' = None /\ freed' = freed \cup NumOf(work)
        BY <2>2 DEF FreeWork, NumOf
      <3>2. /\ UNCHANGED <<Nums(queue), NumOf(item), NumOf(incoming), Unique(queue)>> /\ NumOf(work)' = {}
        BY <2>1, <3>1 DEF Nums, NumOf, Unique
      <3>3. JobTypes' /\ InHand'
        BY <1>0, <2>1, <2>2, <3>1 DEF JobTypes, InHand
      <3> QED
        BY <2>1, <3>1, <3>2, <3>3 DEF JobInv, OnePlace
    <2>3. CASE freed' = freed /\ work' = work /\ (pc' = "generate" => pc = "check")
      <3>1. InHand'
        BY <1>0, <2>1, <2>3 DEF InHand
      <3> QED
        BY <1>0, <2>1, <2>3, <3>1, NoJobMoves
    <2> QED
      BY <2>1, <2>2, <2>3
  <1>3. CASE Dequeue
    <2>1. /\ UNCHANGED <<issued, work, incoming, freed, pools, pool, task>> /\ queue # <<>>
          /\ item' = Head(queue) /\ queue' = Tail(queue) /\ pc = "wait" /\ pc' = "got"
      BY <1>3 DEF Dequeue
    <2>2. /\ queue' \in Seq(Job) /\ item' \in Job /\ Unique(queue')
          /\ Nums(queue) = {item'.num} \cup Nums(queue') /\ item'.num \notin Nums(queue')
      BY <2>1, NumsTail DEF JobInv, JobTypes
    <2>3. NumOf(item) = {} /\ NumOf(item)' = {item'.num} /\ item' # None
      BY <1>0, <2>1, <2>2, NoneAssumption DEF InHand, NumOf
    <2>4. UNCHANGED <<NumOf(work), NumOf(incoming)>>
      BY <2>1 DEF NumOf
    <2>5. JobTypes' /\ InHand'
      BY <1>0, <2>1, <2>2, <2>3 DEF JobTypes, InHand
    <2> QED
      BY <2>1, <2>2, <2>3, <2>4, <2>5 DEF JobInv, OnePlace
  <1>4. CASE GotItem
    <2>1. /\ UNCHANGED <<queue, issued, incoming, pools, pool, task>> /\ work' = None /\ pc = "got"
          /\ \/ freed' = freed \cup NumOf(work) \cup {item.num} /\ item' = None /\ pc' = "top"
             \/ freed' = freed \cup NumOf(work) /\ item' = item /\ pc' = "adopt"
      BY <1>4 DEF GotItem, NumOf
    <2>2. NumOf(item) = {item.num} /\ NumOf(item)' = (IF item' = item THEN {item.num} ELSE {}) /\ NumOf(work)' = {}
      BY <1>0, <2>1 DEF InHand, NumOf
    <2>3. UNCHANGED <<Nums(queue), NumOf(incoming), Unique(queue)>>
      BY <2>1 DEF Nums, NumOf, Unique
    <2>4. JobTypes' /\ InHand'
      BY <1>0, <2>1 DEF JobTypes, InHand
    <2>5. item # None
      BY <1>0, <2>1 DEF InHand
    <2> QED
      BY <2>1, <2>2, <2>3, <2>4, <2>5 DEF JobInv, OnePlace
  <1>5. CASE AdoptItem
    <2>1. /\ UNCHANGED <<queue, issued, incoming, freed, pools, pool, task>> /\ pc = "adopt"
          /\ work' = item /\ item' = None /\ pc' \in {"check", "top"}
      BY <1>5 DEF AdoptItem
    <2>2. NumOf(work) = {} /\ NumOf(work)' = NumOf(item) /\ NumOf(item)' = {}
      BY <1>0, <2>1 DEF InHand, NumOf
    <2>3. UNCHANGED <<Nums(queue), NumOf(incoming), Unique(queue)>>
      BY <2>1 DEF Nums, NumOf, Unique
    <2>4. JobTypes' /\ InHand'
      BY <1>0, <2>1 DEF JobTypes, InHand
    <2> QED
      BY <2>1, <2>2, <2>3, <2>4 DEF JobInv, OnePlace
  <1> QED
    BY <1>1, <1>2, <1>3, <1>4, <1>5 DEF Create

LEMMA NextJobInv == JobInv /\ [Next]_vars => JobInv'
  <1> SUFFICES ASSUME JobInv, [Next]_vars PROVE JobInv'
    OBVIOUS
  <1>1. CASE Results \/ ChipFinds \/ Power \/ UNCHANGED vars
    <2>1. UNCHANGED <<queue, issued, item, work, incoming, freed, pools, pool, task, pc>>
      BY <1>1 DEF Results, ProcessWork, SnapshotJob, SubmitShare, Submitted, ChipFinds, Power, vars, connVars,
                  createVars
    <2>2. InHand' /\ pool' \in DOMAIN pools
      BY <2>1 DEF JobInv, JobTypes, InHand
    <2> QED
      BY <2>1, <2>2, NoJobMoves
  <1> QED
    BY <1>1, TaskJobInv, CreateJobInv DEF Next

\* Counting: a queue of different jobs has as many numbers as entries.
LEMMA CountNums ==
    ASSUME NEW q \in Seq(Job), Unique(q)
    PROVE  IsFiniteSet(Nums(q)) /\ Cardinality(Nums(q)) = Len(q)
  <1> DEFINE f == [i \in 1 .. Len(q) |-> q[i].num]
  <1>1. Len(q) \in Nat /\ DOMAIN q = 1 .. Len(q)
    OBVIOUS
  <1>2. f \in Bijection(1 .. Len(q), Nums(q))
    <2>1. f \in Injection(1 .. Len(q), Nums(q))
      BY <1>1 DEF Nums, Unique, Injection, IsInjective
    <2>2. f \in Surjection(1 .. Len(q), Nums(q))
      BY <1>1 DEF Nums, Surjection
    <2> QED
      BY <2>1, <2>2 DEF Bijection
  <1>3. IsFiniteSet(1 .. Len(q)) /\ Cardinality(1 .. Len(q)) = Len(q)
    BY <1>1, FS_Interval
  <1>4. ExistsBijection(1 .. Len(q), Nums(q))
    BY <1>2 DEF ExistsBijection
  <1> QED
    BY <1>3, <1>4, FS_Bijection

\* One more pointer that holds a job nobody else holds is one more number.
LEMMA OneMore ==
    ASSUME NEW A, NEW B, IsFiniteSet(A), IsFiniteSet(B), NEW n \in Nat,
           Cardinality(B) = n + Cardinality(A), NEW x, x \notin A, NumOf(x) \cap B = {},
           NEW AA, AA = A \cup ({x} \ {None}), NEW BB, BB = B \cup NumOf(x)
    PROVE  IsFiniteSet(AA) /\ IsFiniteSet(BB) /\ Cardinality(BB) = n + Cardinality(AA)
  <1>1. CASE x = None
    <2>1. AA = A /\ BB = B
      BY <1>1 DEF NumOf
    <2> QED
      BY <2>1
  <1>2. CASE x # None
    <2>1. AA = A \cup {x} /\ BB = B \cup {x.num} /\ x.num \notin B
      BY <1>2 DEF NumOf
    <2>2. Cardinality(A) \in Nat
      BY FS_CardinalityType
    <2>3. IsFiniteSet(A \cup {x}) /\ Cardinality(A \cup {x}) = Cardinality(A) + 1
      BY FS_AddElement
    <2>4. IsFiniteSet(B \cup {x.num}) /\ Cardinality(B \cup {x.num}) = Cardinality(B) + 1
      BY <2>1, FS_AddElement
    <2>5. /\ IsFiniteSet(AA) /\ Cardinality(AA) = Cardinality(A) + 1
          /\ IsFiniteSet(BB) /\ Cardinality(BB) = Cardinality(B) + 1
      BY <2>1, <2>3, <2>4, Zenon
    <2> QED
      BY <2>2, <2>5
  <1> QED
    BY <1>1, <1>2

LEMMA ThreeMore ==
    ASSUME NEW B, IsFiniteSet(B), NEW n \in Nat, Cardinality(B) = n, NEW x, NEW y, NEW z,
           NumOf(x) \cap B = {}, NumOf(y) \cap (B \cup NumOf(x)) = {},
           NumOf(z) \cap (B \cup NumOf(x) \cup NumOf(y)) = {}
    PROVE  Cardinality(B \cup NumOf(x) \cup NumOf(y) \cup NumOf(z)) = n + Cardinality({x, y, z} \ {None})
  <1>1. (x = y => x = None) /\ (x = z => x = None) /\ (y = z => y = None)
    BY DEF NumOf
  <1>2. IsFiniteSet({}) /\ Cardinality(B) = n + Cardinality({}) /\ x \notin {}
    BY FS_EmptySet
  <1>3. PICK A1, B1 : A1 = {} \cup ({x} \ {None}) /\ B1 = B \cup NumOf(x)
    OBVIOUS
  <1>4. PICK A2, B2 : A2 = A1 \cup ({y} \ {None}) /\ B2 = B1 \cup NumOf(y)
    OBVIOUS
  <1>5. PICK A3, B3 : A3 = A2 \cup ({z} \ {None}) /\ B3 = B2 \cup NumOf(z)
    OBVIOUS
  <1>6. y \notin A1 /\ z \notin A2 /\ A3 = {x, y, z} \ {None}
    BY <1>1, <1>3, <1>4, <1>5
  <1>7. B2 = B \cup NumOf(x) \cup NumOf(y) /\ B3 = B \cup NumOf(x) \cup NumOf(y) \cup NumOf(z)
    BY <1>3, <1>4, <1>5, Zenon
  <1>8. NumOf(y) \cap B1 = {} /\ NumOf(z) \cap B2 = {}
    BY <1>3, <1>7, Zenon
  <1>9. IsFiniteSet(A1) /\ IsFiniteSet(B1) /\ Cardinality(B1) = n + Cardinality(A1)
    BY <1>2, <1>3, OneMore
  <1>10. IsFiniteSet(A2) /\ IsFiniteSet(B2) /\ Cardinality(B2) = n + Cardinality(A2)
    BY <1>4, <1>6, <1>8, <1>9, OneMore
  <1>11. Cardinality(B3) = n + Cardinality(A3)
    BY <1>5, <1>6, <1>8, <1>10, OneMore
  <1> QED
    BY <1>6, <1>7, <1>11, Zenon

LEMMA JobInvImplies == JobInv => JobsFreedOnce
  <1> SUFFICES ASSUME JobInv PROVE JobsFreedOnce
    OBVIOUS
  <1>1. Held = Nums(queue) \cup NumOf(item) \cup NumOf(work) \cup NumOf(incoming)
    BY DEF Held, NumOf
  <1>2. Held \cap freed = {} /\ Held \cup freed = 1 .. issued
    BY <1>1 DEF JobInv, OnePlace
  <1>3. Len(queue) \in Nat /\ IsFiniteSet(Nums(queue)) /\ Cardinality(Nums(queue)) = Len(queue)
    BY CountNums DEF JobInv, JobTypes
  <1>4. /\ NumOf(item) \cap Nums(queue) = {} /\ NumOf(work) \cap (Nums(queue) \cup NumOf(item)) = {}
        /\ NumOf(incoming) \cap (Nums(queue) \cup NumOf(item) \cup NumOf(work)) = {}
    BY DEF JobInv, OnePlace
  <1>5. Cardinality(Held) = Len(queue) + Cardinality({item, work, incoming} \ {None})
    BY <1>1, <1>3, <1>4, ThreeMore
  <1> QED
    BY <1>2, <1>5 DEF JobsFreedOnce

\* No job is lost, shared or freed twice between notify, queue_clear, the
\* dequeues and the reassignments of current_work, for every QUEUE_SIZE.
THEOREM JobsHaveOneFate == Spec => []JobsFreedOnce
  BY InitJobInv, NextJobInv, JobInvImplies, PTL DEF Spec
-----------------------------------------------------------------------------
\* The share about to be sent carries the copy made under the lock.
ShareInv == ShareIntact /\ (rpc = "submit" => snapshot = result.searched)

LEMMA NextShareInv == ShareInv /\ [Next]_vars => ShareInv'
  <1> SUFFICES ASSUME ShareInv, [Next]_vars PROVE ShareInv'
    OBVIOUS
  <1> USE DEF ShareInv, ShareIntact, resultVars
  <1>1. CASE TaskNext \/ Create \/ Power \/ UNCHANGED vars
    <2>1. UNCHANGED resultVars
      BY <1>1 DEF TaskNext, Connect, Handshake, OpenChannel, SetExtranonce, Notify, CleanQueue, Invalidate, Enqueue,
                  Disconnect, ExitTask, Switch, Power, Create, TopOfLoop, Dequeue, DequeueTimeout, GotItem,
                  AdoptItem, CheckProtocol, GenerateV1, GenerateStandard, GenerateExtended, createOnly, vars
    <2> QED
      BY <2>1
  <1>2. CASE ProcessWork \/ ChipFinds
    BY <1>2 DEF ProcessWork, ChipFinds
  <1>3. CASE SnapshotJob
    BY <1>3 DEF SnapshotJob
  <1>4. CASE SubmitShare
    BY <1>4 DEF SubmitShare, Submitted
  <1> QED
    BY <1>1, <1>2, <1>3, <1>4 DEF Next, Results

\* A share carries the job its nonce was found for (active_job_snapshot in
\* ASIC_result_task), however the slots are reused meanwhile.
THEOREM SharesKeepTheirJob == Spec => []ShareIntact
  <1>1. Init => ShareInv
    BY DEF Init, ShareInv, ShareIntact
  <1>2. ShareInv => ShareIntact
    BY DEF ShareInv
  <1> QED
    BY <1>1, <1>2, NextShareInv, PTL DEF Spec
-----------------------------------------------------------------------------
\* The extended flag belongs to the pool in use, and no work leaves on a
\* standard channel but the job just adopted.
ChannelInv == /\ extended => MyKind = "ext" /\ task # "off"
              /\ conn \in {"null", "zero", "open"} /\ session \in Nat /\ roll \in Nat
              /\ conn = "open" \/ task \in {"tcp", "setup"} => session > 0

\* What was sent belongs to a freed job or to the current work, with a smaller
\* roll where it was rolled at all.
SentInv == /\ released \in BOOLEAN
           /\ \A w \in sent : w.job.num \in freed \cup NumOf(work) /\ w.roll \in Nat
           /\ \A w \in sent : w.job.num \in NumOf(work) /\ w.extranonce # 0 => w.roll < roll
           /\ pc \in {"check", "generate"} /\ workProtocol = "v2" /\ ~extended /\ ~released =>
                 \A w \in sent : w.job.num \notin NumOf(work)

RepeatInv == ChannelInv /\ SentInv /\ NoRepeatedWork

LEMMA InitRepeat == Init => RepeatInv
  <1> SUFFICES ASSUME Init PROVE RepeatInv
    OBVIOUS
  <1>1. ChannelInv
    BY DEF Init, ChannelInv
  <1>2. SentInv /\ NoRepeatedWork
    BY DEF Init, SentInv, NoRepeatedWork
  <1> QED
    BY <1>1, <1>2 DEF RepeatInv

LEMMA TaskChannel == ASSUME ChannelInv, TaskNext PROVE ChannelInv'
  <1> USE DEF createVars, ChannelInv, MyKind
  <1>1. CASE Connect
    BY <1>1 DEF Connect
  <1>2. CASE Handshake
    <2>1. extended' => MyKind = "ext"
      BY <1>2, Zenon DEF Handshake
    <2>2. task = "tcp" /\ task' = "setup" /\ UNCHANGED <<pools, pool, conn, session, roll>>
      BY <1>2 DEF Handshake
    <2> QED
      BY <2>1, <2>2
  <1>3. CASE OpenChannel
    BY <1>3 DEF OpenChannel
  <1>4. CASE SetExtranonce \/ CleanQueue \/ Invalidate \/ Enqueue \/ Disconnect \/ \E clean \in BOOLEAN : Notify(clean)
    BY <1>4 DEF SetExtranonce, CleanQueue, Invalidate, Enqueue, Disconnect, Notify
  <1>5. CASE ExitTask
    BY <1>5 DEF ExitTask
  <1>6. CASE \E p \in DOMAIN pools : Switch(p)
    BY <1>6 DEF Switch
  <1> QED
    BY <1>1, <1>2, <1>3, <1>4, <1>5, <1>6 DEF TaskNext

LEMMA TaskRepeat == ASSUME JobInv, RepeatInv, TaskNext PROVE RepeatInv'
  <1>1. ChannelInv'
    BY TaskChannel DEF RepeatInv
  <1>2. UNCHANGED <<pc, work, workProtocol, roll, sent, repeated>> /\ freed \subseteq freed'
    BY DEF TaskNext, Connect, Handshake, OpenChannel, SetExtranonce, Notify, CleanQueue, Invalidate, Enqueue,
           Disconnect, ExitTask, Switch, createVars, slotVars
  <1>3. released' \in BOOLEAN /\ (released => released')
        /\ (pc \in {"check", "generate"} /\ ~extended' => ~extended \/ released')
    <2>0. released \in BOOLEAN
      BY DEF RepeatInv, SentInv
    <2>1. CASE Handshake
      <3>1. extended' = (MyKind = "ext") /\ released' = released
        BY <2>1 DEF Handshake
      <3> QED
        BY <2>0, <3>1, Zenon DEF RepeatInv, ChannelInv
    <2>2. CASE ExitTask
      <3>1. released' = (released \/ pc \notin {"top", "wait"})
        BY <2>2 DEF ExitTask
      <3>2. released' \in BOOLEAN /\ (released => released') /\ (pc \notin {"top", "wait"} => released')
        BY <3>1, Zenon
      <3> QED
        BY <3>2
    <2>3. CASE ~Handshake /\ ~ExitTask
      BY <2>0, <2>3 DEF TaskNext, Connect, OpenChannel, SetExtranonce, Notify, CleanQueue, Invalidate, Enqueue,
                  Disconnect, Switch
    <2> QED
      BY <2>1, <2>2, <2>3
  <1>4. SentInv' /\ NoRepeatedWork'
    BY <1>2, <1>3 DEF RepeatInv, SentInv, NoRepeatedWork, NumOf
  <1> QED
    BY <1>1, <1>4 DEF RepeatInv

\* A step of create_jobs_task leaves the channel alone, and counts rolls.
LEMMA CreateChannel == ASSUME ChannelInv, Create PROVE ChannelInv'
  <1>1. UNCHANGED <<extended, pools, pool, task, conn, session>> /\ roll' \in {roll, 0, roll + 1}
    BY DEF Create, TopOfLoop, Dequeue, DequeueTimeout, GotItem, AdoptItem, CheckProtocol, GenerateV1,
           GenerateStandard, GenerateExtended, createOnly, connVars
  <1> QED
    BY <1>1 DEF ChannelInv, MyKind

\* What one send adds, and when it repeats.
LEMMA SendsNew ==
    ASSUME JobInv, RepeatInv, NEW r \in Nat, NEW x, pc = "generate", pc' = "top", work' = work, freed' = freed,
           roll' \in {roll, roll + 1}, x # 0 => r = roll /\ roll' = roll + 1,
           SendWork([job |-> work, roll |-> r, extranonce |-> x]),
           [job |-> work, roll |-> r, extranonce |-> x] \in sent => conn = "zero" \/ released,
           released' = released
    PROVE  SentInv' /\ NoRepeatedWork'
  <1> DEFINE new == [job |-> work, roll |-> r, extranonce |-> x]
  <1>0. new.job = work /\ new.roll = r /\ new.extranonce = x
    OBVIOUS
  <1>1. sent' = sent \cup {new} /\ repeated' = (repeated \/ (/\ new \in sent
                                                             /\ conn # "zero" /\ ~released))
    BY DEF SendWork
  <1>2. NoRepeatedWork'
    BY <1>1, Zenon DEF RepeatInv, NoRepeatedWork
  <1>3. work # None /\ NumOf(work)' = NumOf(work) /\ NumOf(work) = {work.num} /\ roll \in Nat
    BY DEF JobInv, InHand, NumOf, RepeatInv, ChannelInv
  <1> HIDE DEF new
  <1>4. \A w \in sent' : w.job.num \in freed \cup NumOf(work) /\ w.roll \in Nat
    BY <1>0, <1>1, <1>3 DEF RepeatInv, SentInv
  <1>5. \A w \in sent' : w.job.num \in NumOf(work) /\ w.extranonce # 0 => w.roll < roll'
    <2>1. ASSUME NEW w \in sent, w.job.num \in NumOf(work), w.extranonce # 0 PROVE w.roll < roll'
      <3>1. w.roll \in Nat /\ w.roll < roll
        BY <2>1 DEF RepeatInv, SentInv
      <3> QED
        BY <1>3, <3>1
    <2>2. x # 0 => r < roll'
      BY <1>3
    <2> QED
      BY <1>0, <1>1, <2>1, <2>2
  <1> QED
    BY <1>2, <1>3, <1>4, <1>5 DEF RepeatInv, SentInv

LEMMA CreateRepeat == ASSUME JobInv, RepeatInv, Create PROVE RepeatInv'
  <1>0. ChannelInv' /\ UNCHANGED <<extended, conn>>
    BY CreateChannel DEF RepeatInv, Create, TopOfLoop, Dequeue, DequeueTimeout, GotItem, AdoptItem, CheckProtocol,
           GenerateV1, GenerateStandard, GenerateExtended, createOnly, connVars
  <1> SUFFICES SentInv' /\ NoRepeatedWork'
    BY <1>0 DEF RepeatInv
  <1>1. CASE GenerateV1
    <2> DEFINE new == [job |-> work, roll |-> roll, extranonce |-> extranonce]
    <2>1. /\ pc = "generate" /\ pc' = "top" /\ work' = work /\ freed' = freed /\ roll' = roll + 1
          /\ released' = released /\ ((extranonce # 0 /\ SendWork(new)) \/ NoSend)
      BY <1>1 DEF GenerateV1, ReadAs
    <2>2. CASE extranonce # 0 /\ SendWork(new)
      <3>1. new \notin sent
        <4>1. new.job = work /\ new.roll = roll /\ new.extranonce # 0 /\ work.num \in NumOf(work) /\ roll \in Nat
          BY <2>1, <2>2 DEF JobInv, InHand, NumOf, RepeatInv, ChannelInv
        <4>2. ~(roll < roll)
          BY <4>1
        <4> HIDE DEF new
        <4> QED
          BY <4>1, <4>2 DEF RepeatInv, SentInv
      <3>2. roll \in Nat
        BY DEF RepeatInv, ChannelInv
      <3> QED
        BY <2>1, <2>2, <3>1, <3>2, SendsNew
    <2>3. CASE NoSend
      BY <2>1, <2>3 DEF NoSend, RepeatInv, ChannelInv, SentInv, NoRepeatedWork, NumOf
    <2> QED
      BY <2>1, <2>2, <2>3
  <1>2. CASE GenerateStandard
    <2> DEFINE new == [job |-> work, roll |-> 0, extranonce |-> 0]
    <2>1. /\ pc = "generate" /\ pc' = "top" /\ work' = work /\ freed' = freed /\ roll' = roll
          /\ workProtocol = "v2" /\ ~extended
          /\ released' = released /\ (SendWork(new) \/ NoSend)
      BY <1>2 DEF GenerateStandard, ReadAs
    <2>2. CASE SendWork(new)
      <3>1. new \notin sent \/ released
        <4>1. new.job = work /\ work.num \in NumOf(work)
          BY <2>1 DEF JobInv, InHand, NumOf
        <4> HIDE DEF new
        <4> QED
          BY <2>1, <4>1 DEF RepeatInv, SentInv
      <3> QED
        BY <2>1, <2>2, <3>1, SendsNew
    <2>3. CASE NoSend
      BY <2>1, <2>3 DEF NoSend, RepeatInv, SentInv, NoRepeatedWork, NumOf
    <2> QED
      BY <2>1, <2>2, <2>3
  <1>3. CASE GenerateExtended
    <2> DEFINE r == IF conn = "open" THEN roll ELSE 0
               x == IF conn = "open" THEN session ELSE 0
               new == [job |-> work, roll |-> r, extranonce |-> x]
    <2>1. /\ pc = "generate" /\ pc' = "top" /\ work' = work /\ freed' = freed /\ roll' = roll + 1
          /\ released' = released /\ ((conn # "null" /\ SendWork(new)) \/ NoSend)
      BY <1>3 DEF GenerateExtended, ReadAs
    <2>2. CASE conn # "null" /\ SendWork(new)
      <3>0. roll \in Nat /\ r \in Nat /\ (x # 0 => r = roll) /\ conn \in {"zero", "open"}
            /\ (conn = "open" => x # 0)
        BY <2>2 DEF RepeatInv, ChannelInv
      <3>1. new \in sent => conn = "zero"
        <4>1. new.job = work /\ new.roll = r /\ new.extranonce = x /\ work.num \in NumOf(work)
          BY <2>1 DEF JobInv, InHand, NumOf
        <4>2. ~(roll < roll)
          BY <3>0
        <4> HIDE DEF new, r, x
        <4> QED
          BY <3>0, <4>1, <4>2 DEF RepeatInv, SentInv
      <3> HIDE DEF r, x
      <3> QED
        BY <2>1, <2>2, <3>0, <3>1, SendsNew
    <2>3. CASE NoSend
      BY <2>1, <2>3 DEF NoSend, RepeatInv, ChannelInv, SentInv, NoRepeatedWork, NumOf
    <2> QED
      BY <2>1, <2>2, <2>3
  <1>4. CASE AdoptItem
    <2>1. /\ pc = "adopt" /\ work' = item /\ freed' = freed /\ UNCHANGED <<sent, repeated, released>>
      BY <1>4 DEF AdoptItem, ReadAs, createOnly, slotVars
    <2>2. NumOf(work) = {} /\ NumOf(work)' = NumOf(item) /\ NumOf(item) \cap freed = {}
      BY <2>1 DEF JobInv, InHand, OnePlace, NumOf
    <2> QED
      BY <2>1, <2>2 DEF RepeatInv, SentInv, NoRepeatedWork
  <1>5. CASE DequeueTimeout
    <2>1. /\ UNCHANGED <<sent, repeated, work, roll, workProtocol, freed, released>>
          /\ ~(pc' = "check" /\ workProtocol = "v2" /\ ~extended) /\ pc' # "generate"
      BY <1>5 DEF DequeueTimeout, createOnly, slotVars
    <2> QED
      BY <1>0, <2>1 DEF RepeatInv, SentInv, NoRepeatedWork, NumOf
  <1>6. CASE TopOfLoop \/ CheckProtocol \/ Dequeue \/ GotItem
    <2>1. /\ UNCHANGED <<sent, repeated, roll>> /\ pc' # "check" /\ (pc' = "generate" => pc = "check")
          /\ released' = released \/ (released' = FALSE /\ pc' = "got")
          /\ \/ work' = None /\ freed \cup NumOf(work) \subseteq freed'
             \/ work' = work /\ freed' = freed /\ workProtocol' = workProtocol
      BY <1>6 DEF TopOfLoop, CheckProtocol, Dequeue, GotItem, FreeWork, NumOf, createOnly, slotVars
    <2>2. released \in BOOLEAN /\ (pc' = "generate" => released' = released) /\ released' \in BOOLEAN
      BY <2>1 DEF RepeatInv, SentInv
    <2>3. NoRepeatedWork'
      BY <2>1 DEF RepeatInv, NoRepeatedWork
    <2>4. CASE work' = None /\ freed \cup NumOf(work) \subseteq freed'
      BY <2>1, <2>2, <2>3, <2>4 DEF RepeatInv, SentInv, NumOf
    <2>5. CASE work' = work /\ freed' = freed /\ workProtocol' = workProtocol
      BY <1>0, <2>1, <2>2, <2>3, <2>5 DEF RepeatInv, SentInv, NumOf
    <2> QED
      BY <2>1, <2>4, <2>5
  <1> QED
    BY <1>1, <1>2, <1>3, <1>4, <1>5, <1>6 DEF Create

LEMMA NextRepeat == JobInv /\ RepeatInv /\ [Next]_vars => RepeatInv'
  <1> SUFFICES ASSUME JobInv, RepeatInv, [Next]_vars PROVE RepeatInv'
    OBVIOUS
  <1>1. CASE Results \/ ChipFinds \/ Power \/ UNCHANGED vars
    <2>1. UNCHANGED <<connVars, createVars, slotVars, freed, released>>
      BY <1>1 DEF Results, ProcessWork, SnapshotJob, SubmitShare, Submitted, ChipFinds, Power, vars
    <2> QED
      BY <2>1 DEF RepeatInv, ChannelInv, SentInv, NoRepeatedWork, NumOf, MyKind, connVars, createVars, slotVars
  <1> QED
    BY <1>1, TaskRepeat, CreateRepeat DEF Next

\* The chip is never given the same search twice over an open channel
\* (create_jobs_task after a timeout), whatever the pools, reconnections and
\* switches do to the channel meanwhile, unless a protocol task has ended in
\* mid-iteration.
THEOREM WorkIsNew == Spec => []NoRepeatedWork
  <1>1. RepeatInv => NoRepeatedWork
    BY DEF RepeatInv
  <1> QED
    BY <1>1, InitJobInv, NextJobInv, InitRepeat, NextRepeat, PTL DEF Spec
-----------------------------------------------------------------------------
\* No list of pools has SV2 channels of both types.  Without this the cast is
\* not safe: the run PipelineCast.
OneChannelType ==
    \A l \in PoolLists : \A i, j \in DOMAIN l : ~(l[i] = "std" /\ l[j] = "ext")

\* Jobs on their way are of the pool in use; an extended one keeps the flag up.
\* The one just dequeued too, until the task ends beside it.
KindInv ==
    /\ pools \in PoolLists /\ protocol = ProtocolOf(MyKind)
    /\ task \in {"tcp", "setup"} => MyKind # "v1"
    /\ task \in {"clearOpen", "invalidateOpen"} => MyKind = "v1"
    /\ queue # <<>> => task \in Online \cup {"clearClose"}
    /\ \A i \in DOMAIN queue : queue[i].kind = MyKind
    /\ incoming # None => incoming.kind = MyKind
    /\ item # None /\ ~released => item.kind = MyKind /\ task # "off"
    /\ pc = "adopt" /\ ~released => workProtocol = protocol
    /\ MyKind = "ext" /\ (task \in Online \cup {"setup"} \/ queue # <<>> \/ (item # None /\ ~released)) => extended
    /\ released \in BOOLEAN

\* The current work is of a configured pool and of the protocol noted for it,
\* if no task has ended beside it; after a dequeue it is only there to be freed.
WorkInv == ~released /\ pc # "got" =>
    /\ work # None => ProtocolOf(work.kind) = workProtocol /\ \E i \in DOMAIN pools : pools[i] = work.kind
    /\ pc \in {"check", "generate"} /\ work.kind = "ext" => extended

CastInv == KindInv /\ WorkInv /\ CastSafe

LEMMA InitCast == Init => CastInv
  <1> SUFFICES ASSUME Init PROVE CastInv
    OBVIOUS
  <1>1. KindInv
    <2>1. /\ pools \in PoolLists /\ pool = 1 /\ protocol = ProtocolOf(pools[1]) /\ task = "down" /\ pc = "top"
          /\ incoming = None /\ item = None /\ queue = <<>>
      BY DEF Init
    <2>2. released \in BOOLEAN
      BY Zenon DEF Init
    <2> QED
      BY <2>1, <2>2 DEF KindInv, MyKind, Online
  <1>2. WorkInv
    BY DEF Init, WorkInv
  <1>3. CastSafe
    BY DEF Init, CastSafe
  <1> QED
    BY <1>1, <1>2, <1>3 DEF CastInv

LEMMA TaskKind == ASSUME JobInv, ChannelInv, KindInv, TaskNext PROVE KindInv'
  <1> USE DEF createVars, MyKind, Online
  <1>0. JobTypes /\ InHand /\ queue \in Seq(Job)
    BY DEF JobInv, JobTypes
  <1>1. CASE Connect \/ OpenChannel \/ SetExtranonce \/ Disconnect \/ Invalidate
    <2>1. CASE Connect \/ OpenChannel
      BY <2>1 DEF Connect, OpenChannel, KindInv
    <2>2. CASE SetExtranonce \/ Disconnect \/ Invalidate
      BY <2>2 DEF SetExtranonce, Disconnect, Invalidate, KindInv
    <2> QED
      BY <1>1, <2>1, <2>2
  <1>2. CASE Handshake
    <2>1. extended' = (MyKind = "ext") /\ task = "tcp" /\ task' = "setup"
          /\ UNCHANGED <<pools, pool, protocol, queue, incoming, item, pc, workProtocol, released>>
      BY <1>2 DEF Handshake
    <2>2. MyKind = "ext" => extended'
      BY <2>1, Zenon
    <2> QED
      BY <2>1, <2>2 DEF KindInv
  <1>3. CASE \E clean \in BOOLEAN : Notify(clean)
    <2>1. /\ incoming'.kind = MyKind /\ task = "up" /\ task' \in {"clear", "add"}
          /\ UNCHANGED <<pools, pool, protocol, extended, queue, item, pc, workProtocol, released>>
      BY <1>3 DEF Notify
    <2> QED
      BY <2>1 DEF KindInv
  <1>4. CASE CleanQueue
    BY <1>4 DEF CleanQueue, KindInv
  <1>5. CASE Enqueue
    <2> DEFINE rest == IF Len(queue) = QueueSize THEN Tail(queue) ELSE queue
    <2>1. /\ queue' = Append(rest, incoming) /\ incoming' = None /\ task = "add" /\ task' = "up"
          /\ UNCHANGED <<pools, pool, protocol, extended, item, pc, workProtocol, released>>
      BY <1>5 DEF Enqueue
    <2>2. incoming \in Job /\ incoming.kind = MyKind
      BY <1>0, <2>1 DEF JobTypes, InHand, KindInv
    <2>3. rest \in Seq(Job) /\ \A i \in DOMAIN rest : rest[i].kind = MyKind
      <3>1. CASE Len(queue) = QueueSize
        <4>1. queue # <<>>
          BY <3>1, PipelineAssumption
        <4>2. \A i \in DOMAIN Tail(queue) : i + 1 \in DOMAIN queue /\ Tail(queue)[i] = queue[i + 1]
          BY <1>0, <4>1
        <4> QED
          BY <1>0, <3>1, <4>1, <4>2 DEF KindInv
      <3>2. CASE Len(queue) # QueueSize
        BY <1>0, <3>2 DEF KindInv
      <3> QED
        BY <3>1, <3>2
    <2> HIDE DEF rest
    <2>4. \A i \in DOMAIN queue' : queue'[i].kind = MyKind
      BY <2>1, <2>2, <2>3
    <2> QED
      BY <2>1, <2>4 DEF KindInv
  <1>6. CASE ExitTask
    <2>1. /\ UNCHANGED <<pools, pool, protocol, queue, incoming, item, pc, workProtocol>>
          /\ task = "down" /\ task' = "off"
          /\ released' = (released \/ pc \notin {"top", "wait"})
      BY <1>6 DEF ExitTask
    <2>2. released' \in BOOLEAN /\ (released => released') /\ (pc \notin {"top", "wait"} => released')
      BY <2>1, Zenon
    <2>3. ~released' => item = None /\ pc # "adopt"
      BY <1>0, <2>2 DEF InHand
    <2>4. queue = <<>>
      BY <2>1 DEF KindInv
    <2> QED
      BY <2>1, <2>2, <2>3, <2>4 DEF KindInv
  <1>7. CASE \E p \in DOMAIN pools : Switch(p)
    <2>1. incoming = None /\ (~released => item = None /\ pc # "adopt")
      BY <1>0, <1>7 DEF Switch, KindInv, InHand
    <2> QED
      BY <1>7, <2>1 DEF Switch, KindInv
  <1> QED
    BY <1>1, <1>2, <1>3, <1>4, <1>5, <1>6, <1>7 DEF TaskNext

LEMMA TaskCast == ASSUME JobInv, ChannelInv, CastInv, TaskNext PROVE CastInv'
  <1>1. KindInv'
    BY TaskKind DEF CastInv
  <1>2. UNCHANGED <<pc, work, workProtocol, miscast, pools>>
    BY DEF TaskNext, Connect, Handshake, OpenChannel, SetExtranonce, Notify, CleanQueue, Invalidate, Enqueue,
           Disconnect, ExitTask, Switch, createVars
  <1>3. (released => released') /\ (pc \in {"check", "generate"} /\ extended => extended' \/ released')
    <2>1. CASE Handshake
      <3>1. extended' = (MyKind = "ext") /\ released' = released
        BY <2>1 DEF Handshake
      <3> QED
        BY <3>1, Zenon DEF ChannelInv
    <2>2. CASE ExitTask
      <3>1. released' = (released \/ pc \notin {"top", "wait"})
        BY <2>2 DEF ExitTask
      <3>2. (released => released') /\ (pc \notin {"top", "wait"} => released')
        BY <3>1, Zenon
      <3> QED
        BY <3>2
    <2>3. CASE ~Handshake /\ ~ExitTask
      BY <2>3 DEF TaskNext, Connect, OpenChannel, SetExtranonce, Notify, CleanQueue, Invalidate, Enqueue,
                  Disconnect, Switch
    <2> QED
      BY <2>1, <2>2, <2>3
  <1> QED
    BY <1>1, <1>2, <1>3 DEF CastInv, WorkInv, CastSafe

LEMMA CreateCast == ASSUME OneChannelType, JobInv, ChannelInv, CastInv, Create PROVE CastInv'
  <1> USE DEF createOnly, connVars, MyKind
  <1>0. /\ InHand /\ queue \in Seq(Job) /\ pool \in DOMAIN pools /\ pools \in PoolLists
        /\ KindInv /\ WorkInv /\ CastSafe
    BY DEF JobInv, JobTypes, CastInv, KindInv
  <1>1. UNCHANGED <<pools, pool, protocol, extended, task, incoming>>
    BY DEF Create, TopOfLoop, Dequeue, DequeueTimeout, GotItem, AdoptItem, CheckProtocol, GenerateV1,
           GenerateStandard, GenerateExtended
  <1>2. CASE TopOfLoop \/ CheckProtocol
    BY <1>0, <1>1, <1>2 DEF TopOfLoop, CheckProtocol, FreeWork, InHand, CastInv, KindInv, WorkInv, CastSafe
  <1>3. CASE Dequeue
    <2>1. /\ UNCHANGED <<miscast>> /\ released' = FALSE /\ queue # <<>> /\ item' = queue[1] /\ queue' = Tail(queue)
          /\ pc' = "got" /\ 1 \in DOMAIN queue
      BY <1>0, <1>3 DEF Dequeue
    <2>2. \A i \in DOMAIN Tail(queue) : i + 1 \in DOMAIN queue /\ Tail(queue)[i] = queue[i + 1]
      BY <1>0, <2>1
    <2>3. KindInv'
      BY <1>0, <1>1, <2>1, <2>2 DEF KindInv, Online
    <2> QED
      BY <1>0, <2>1, <2>3 DEF CastInv, WorkInv, CastSafe
  <1>4. CASE DequeueTimeout
    BY <1>0, <1>1, <1>4 DEF DequeueTimeout, CastInv, KindInv, WorkInv, CastSafe, ProtocolOf
  <1>5. CASE GotItem
    BY <1>0, <1>1, <1>5 DEF GotItem, InHand, CastInv, KindInv, WorkInv, CastSafe
  <1>6. CASE AdoptItem
    <2>1. /\ item # None /\ work' = item /\ item' = None /\ pc = "adopt"
          /\ UNCHANGED <<workProtocol, queue, released>> /\ pc' \in {"check", "top"}
          /\ miscast' = (miscast \/ (item.kind # CastTo(workProtocol) /\ ~released))
      BY <1>0, <1>6 DEF AdoptItem, ReadAs, InHand
    <2>2. ~released => item.kind = MyKind /\ workProtocol = ProtocolOf(MyKind)
      BY <1>0, <2>1 DEF KindInv
    <2>3. ~released => (MyKind = "ext" => extended) /\ (extended => MyKind = "ext") /\ MyKind \in Kinds
      BY <1>0, <2>1 DEF KindInv, ChannelInv, JobInv, JobTypes
    <2>4. ~released => CastTo(workProtocol) = item.kind
      BY <2>2, <2>3 DEF CastTo, ProtocolOf, Kinds
    <2>5. CastSafe'
      BY <1>0, <2>1, <2>4, Zenon DEF CastSafe
    <2>6. KindInv'
      BY <1>0, <1>1, <2>1 DEF KindInv
    <2>7. WorkInv'
      BY <1>0, <1>1, <2>1, <2>2, <2>3 DEF WorkInv
    <2> QED
      BY <2>5, <2>6, <2>7 DEF CastInv
  <1>7. CASE GenerateV1 \/ GenerateStandard \/ GenerateExtended
    <2>1. /\ pc = "generate" /\ pc' = "top" /\ UNCHANGED <<queue, item, work, workProtocol, released>>
          /\ \/ workProtocol = "v1" /\ miscast' = (miscast \/ (work.kind # "v1" /\ ~released))
             \/ workProtocol = "v2" /\ ~extended /\ miscast' = (miscast \/ (work.kind # "std" /\ ~released))
             \/ workProtocol = "v2" /\ extended /\ miscast' = (miscast \/ (work.kind # "ext" /\ ~released))
      BY <1>7 DEF GenerateV1, GenerateStandard, GenerateExtended, ReadAs
    <2>2. work # None /\ work.kind \in Kinds
      BY <1>0, <2>1 DEF InHand, JobInv, JobTypes, Job
    <2>3. ASSUME ~released
          PROVE  /\ workProtocol = "v1" => work.kind = "v1"
                 /\ workProtocol = "v2" /\ ~extended => work.kind = "std"
                 /\ workProtocol = "v2" /\ extended => work.kind = "ext"
      <3>1. extended => pools[pool] = "ext"
        BY DEF ChannelInv
      <3>2. ProtocolOf(work.kind) = workProtocol /\ (work.kind = "ext" => extended)
        BY <1>0, <2>1, <2>2, <2>3 DEF WorkInv
      <3>3. PICK i \in DOMAIN pools : pools[i] = work.kind
        BY <1>0, <2>1, <2>2, <2>3 DEF WorkInv
      <3>4. ~(work.kind = "std" /\ extended)
        BY <1>0, <3>1, <3>3 DEF OneChannelType
      <3> QED
        BY <2>2, <3>2, <3>4 DEF ProtocolOf, Kinds
    <2>4. CastSafe'
      BY <1>0, <2>1, <2>3, Zenon DEF CastSafe
    <2> QED
      BY <1>0, <1>1, <2>1, <2>4 DEF CastInv, KindInv, WorkInv
  <1> QED
    BY <1>2, <1>3, <1>4, <1>5, <1>6, <1>7 DEF Create

LEMMA NextCast == ASSUME OneChannelType PROVE JobInv /\ RepeatInv /\ CastInv /\ [Next]_vars => CastInv'
  <1> SUFFICES ASSUME JobInv, ChannelInv, CastInv, [Next]_vars PROVE CastInv'
    BY DEF RepeatInv
  <1>1. CASE Results \/ ChipFinds \/ Power \/ UNCHANGED vars
    <2>1. UNCHANGED <<connVars, createVars, queue, miscast, released>>
      BY <1>1 DEF Results, ProcessWork, SnapshotJob, SubmitShare, Submitted, ChipFinds, Power, vars
    <2> QED
      BY <2>1 DEF CastInv, KindInv, WorkInv, CastSafe, MyKind, connVars, createVars
  <1> QED
    BY <1>1, TaskCast, CreateCast DEF Next

\* "Safe to cast" (create_jobs_task.c): a job is only ever read as the type it
\* was allocated as, for every list of pools with one type of SV2 channel, but
\* for the work at hand when a protocol task ends in mid-iteration.
THEOREM CastsAreSafe == ASSUME OneChannelType PROVE Spec => []CastSafe
  <1>1. CastInv => CastSafe
    BY DEF CastInv
  <1> QED
    BY <1>1, InitJobInv, NextJobInv, InitRepeat, NextRepeat, InitCast, NextCast, PTL DEF Spec
=============================================================================
