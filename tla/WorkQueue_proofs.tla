-------------------------- MODULE WorkQueue_proofs --------------------------
(* The ring of main/work_queue.c, for every QUEUE_SIZE, every set of threads  *)
(* and of jobs: its indices agree, a job has one owner, a job is freed with   *)
(* the function captured for it, no wake-up is lost, and the ring implements  *)
(* the bounded FIFO.                                                          *)
EXTENDS WorkQueue, FiniteSetTheorems, SequenceTheorems, TLAPS

(* Indices of the ring are reduced once at most.                              *)
LEMMA ModOnce ==
    ASSUME NEW a \in 0 .. 2 * Size - 1
    PROVE  a % Size = IF a < Size THEN a ELSE a - Size
  BY SizeAssumption, SMT

LEMMA ModRange == \A a \in Nat : a % Size \in Index
  BY SizeAssumption, SMT DEF Index
LEMMA ModIdentity == \A a \in Index : a \in Nat /\ a % Size = a /\ (a + 0) % Size = a
  BY SizeAssumption, SMT DEF Index

(* Two of the first Size positions after the same head are different slots.   *)
LEMMA PositionsDiffer ==
    ASSUME NEW h \in Index, NEW i \in 0 .. Size - 1, NEW j \in 0 .. Size - 1,
           (h + i) % Size = (h + j) % Size
    PROVE  i = j
  <1>1. h + i \in 0 .. 2 * Size - 1 /\ h + j \in 0 .. 2 * Size - 1
    BY SizeAssumption DEF Index
  <1> QED
    BY <1>1, ModOnce, SizeAssumption DEF Index

(* Moving head by one shifts every position by one.                           *)
LEMMA PositionShift ==
    ASSUME NEW h \in Index, NEW i \in 0 .. Size - 1
    PROVE  (((h + 1) % Size) + i) % Size = (h + (i + 1)) % Size
  <1>1. h + 1 \in 0 .. 2 * Size - 1 /\ h + (i + 1) \in 0 .. 2 * Size - 1
    BY SizeAssumption DEF Index
  <1>2. ((h + 1) % Size) + i \in 0 .. 2 * Size - 1
    BY ModRange, SizeAssumption DEF Index
  <1> QED
    BY <1>1, <1>2, ModOnce, SizeAssumption DEF Index

(* The slot after the first n jobs, one more job: the tail index moves by one.*)
LEMMA TailShift ==
    ASSUME NEW h \in Index, NEW n \in 0 .. Size - 1
    PROVE  (((h + n) % Size) + 1) % Size = (h + (n + 1)) % Size
  <1>1. h + n \in 0 .. 2 * Size - 1 /\ h + (n + 1) \in 0 .. 2 * Size - 1
    BY SizeAssumption DEF Index
  <1>2. ((h + n) % Size) + 1 \in 0 .. 2 * Size - 1
    BY ModRange, SizeAssumption DEF Index
  <1> QED
    BY <1>1, <1>2, ModOnce, SizeAssumption DEF Index
-----------------------------------------------------------------------------
(* The inductive invariant.  RingInv says where the next job goes, so that    *)
(* queue_enqueue overwrites no queued job; ownership makes captured[j] stable *)
(* while j is queued or held.                                                 *)
IInv == TypeOK /\ RingInv /\ ExclusiveOwnership /\ FreedAsCaptured

LEMMA RetryType == \A s \in Calls \cup Waits \cup {"idle"} :
                      Retry(s) \in Calls \cup Waits \cup {"idle"}
  BY DEF Retry, Calls, Waits

(* What ReturnAndSignal does to the program counters: the caller is idle, and *)
(* any other thread is where it was or back at the lock.                      *)
LEMMA SignalEffect ==
    ASSUME TypeOK, NEW t \in Threads, NEW W \in SUBSET (NotFullWaiters \cup NotEmptyWaiters),
           ReturnAndSignal(t, W), pc[t] \notin Waits
    PROVE  /\ pc' \in [Threads -> Calls \cup Waits \cup {"idle"}]
           /\ pc'[t] = "idle"
           /\ \A u \in Threads : pc'[u] \in {"enq", "enq_wait"} => pc[u] \in {"enq", "enq_wait"}
  <1>1. CASE W = {}
    BY <1>1 DEF ReturnAndSignal, TypeOK
  <1>2. CASE W # {}
    <2>1. PICK w \in W : pc' = [pc EXCEPT ![t] = "idle", ![w] = Retry(pc[w])]
      BY <1>2 DEF ReturnAndSignal
    <2>2. w \in Threads /\ w # t
      BY DEF NotFullWaiters, NotEmptyWaiters, Waits
    <2> QED
      BY <2>1, <2>2, RetryType DEF TypeOK, Retry, Calls, Waits
  <1> QED
    BY <1>1, <1>2

LEMMA PositionType ==
    ASSUME TypeOK, NEW i \in 0 .. Size - 1
    PROVE  Position(i) \in Index
  <1>1. head + i \in Nat
    BY SizeAssumption DEF TypeOK, Index
  <1> QED
    BY <1>1, ModRange DEF Position

LEMMA InitIInv == Init => IInv
  <1> SUFFICES ASSUME Init PROVE IInv
    OBVIOUS
  <1>1. TypeOK
    BY SizeAssumption DEF Init, TypeOK, Index
  <1>2. RingInv
    BY SizeAssumption DEF Init, RingInv
  <1>3. ExclusiveOwnership
    BY SizeAssumption DEF Init, ExclusiveOwnership, Queued
  <1>4. FreedAsCaptured
    BY SizeAssumption DEF Init, FreedAsCaptured
  <1> QED
    BY <1>1, <1>2, <1>3, <1>4 DEF IInv

(* Steps that leave the ring and captured alone and give a thread at most an  *)
(* unowned job: the ring conjuncts carry over.                                *)
LEMMA RingUntouched ==
    ASSUME IInv, UNCHANGED <<ring, captured>>, TypeOK',
           \A t \in Threads : heldFn'[t] # None => heldFn'[t] = heldFn[t] /\ held'[t] = held[t],
           \A t \in Threads : held'[t] = held[t] \/ held'[t] \notin Queued,
           \A t, u \in Threads : held'[t] = held'[u] /\ held'[t] # None => t = u,
           \A t \in Threads : pc'[t] \in {"enq", "enq_wait"} => held'[t] # None /\ heldFn'[t] = None
    PROVE  IInv'
  <1>1. RingInv'
    BY DEF IInv, RingInv, ring
  <1>2. Queued' = Queued /\ \A i \in 0 .. count - 1 : Position(i)' = Position(i)
    BY DEF Queued, Position, ring
  <1>3. ExclusiveOwnership'
    BY <1>2 DEF IInv, ExclusiveOwnership, ring
  <1>4. FreedAsCaptured'
    BY <1>2 DEF IInv, FreedAsCaptured, ring
  <1> QED
    BY <1>1, <1>3, <1>4 DEF IInv
LEMMA EnqueueIInv ==
    ASSUME IInv, NEW t \in Threads, queue_enqueue(t)
    PROVE  IInv'
  <1> USE DEF IInv
  <1>1. held[t] \in Items /\ held[t] \notin Queued /\ count \in 0 .. Size - 1
    BY SizeAssumption DEF TypeOK, ExclusiveOwnership, queue_enqueue
  <1>2. /\ pc' \in [Threads -> Calls \cup Waits \cup {"idle"}]
        /\ pc'[t] = "idle"
        /\ \A u \in Threads : pc'[u] \in {"enq", "enq_wait"} => pc[u] \in {"enq", "enq_wait"}
    <2>1. pc[t] \notin Waits /\ ReturnAndSignal(t, NotEmptyWaiters)
      BY DEF queue_enqueue, Waits
    <2> QED
      BY <2>1, SignalEffect
  <1>3. TypeOK'
    <2>1. tail + 1 \in Nat /\ tail' = (tail + 1) % Size /\ count' \in 0 .. Size
      BY <1>1, SizeAssumption DEF queue_enqueue, TypeOK, Index
    <2>2. tail' \in Index
      BY <2>1, ModRange
    <2> QED
      BY <1>1, <1>2, <2>1, <2>2 DEF queue_enqueue, TypeOK
  <1>4. RingInv'
    BY <1>1, TailShift DEF queue_enqueue, RingInv, TypeOK
  <1>5. \A i \in 0 .. count : Position(i)' = Position(i)
    BY DEF Position, queue_enqueue
  <1>6. Position(count) = tail /\ \A i \in 0 .. count - 1 : Position(i) # tail
    BY <1>1, PositionsDiffer, SizeAssumption DEF Position, RingInv, TypeOK
  <1>7. \A i \in 0 .. count : Position(i) \in Index
    <2>1. \A i \in 0 .. count : i \in 0 .. Size - 1
      BY <1>1, SizeAssumption
    <2> QED
      BY <2>1, PositionType
  <1>8. /\ buffer'[Position(count)] = held[t]
        /\ item_free_fn'[Position(count)] = free_fn
        /\ \A i \in 0 .. count - 1 : /\ buffer'[Position(i)] = buffer[Position(i)]
                                     /\ item_free_fn'[Position(i)] = item_free_fn[Position(i)]
    BY <1>1, <1>6, <1>7 DEF queue_enqueue, TypeOK
  <1>9. count' = count + 1 /\ 0 .. count' - 1 = (0 .. count - 1) \cup {count}
    BY <1>1 DEF queue_enqueue
  <1>10. Queued' = Queued \cup {held[t]}
    <2>1. Queued' = {buffer'[Position(i)] : i \in 0 .. count' - 1}
      BY <1>5, <1>9 DEF Queued, Position, queue_enqueue
    <2>2. Queued' = {buffer'[Position(i)] : i \in 0 .. count - 1} \cup {buffer'[Position(count)]}
      BY <1>9, <2>1
    <2> QED
      BY <1>8, <2>2 DEF Queued
  <1>11. held' = [held EXCEPT ![t] = None] /\ heldFn' = heldFn
    BY DEF queue_enqueue
  <1>12. ExclusiveOwnership'
    <2>1. \A i, j \in 0 .. count' - 1 : (buffer[Position(i)] = buffer[Position(j)])' => i = j
      <3>1. \A i \in 0 .. count - 1 : buffer[Position(i)] # held[t]
        BY <1>1 DEF Queued
      <3> QED
        BY <1>5, <1>8, <1>9, <3>1 DEF ExclusiveOwnership
    <2>2. None \notin Queued'
      BY <1>1, <1>10, NoneAssumption DEF ExclusiveOwnership
    <2>3. \A u \in Threads : held'[u] \notin Queued'
      BY <1>1, <1>10, <1>11, <2>2 DEF ExclusiveOwnership, TypeOK
    <2>4. \A u, v \in Threads : held'[u] = held'[v] /\ held'[u] # None => u = v
      BY <1>11 DEF ExclusiveOwnership, TypeOK
    <2>5. \A u \in Threads : pc'[u] \in {"enq", "enq_wait"} => held'[u] # None /\ heldFn'[u] = None
      BY <1>2, <1>11 DEF ExclusiveOwnership, TypeOK
    <2> QED
      BY <2>1, <2>2, <2>3, <2>4, <2>5 DEF ExclusiveOwnership
  <1>13. FreedAsCaptured'
    <2>1. captured' = [captured EXCEPT ![held[t]] = free_fn]
      BY DEF queue_enqueue
    <2>2. \A i \in 0 .. count - 1 : buffer[Position(i)] \in Items /\ buffer[Position(i)] # held[t]
      <3>1. \A i \in 0 .. count - 1 : buffer[Position(i)] \in Queued
        BY DEF Queued
      <3> QED
        BY <1>1, <1>7, <3>1 DEF TypeOK, ExclusiveOwnership
    <2>3. \A i \in 0 .. count' - 1 : (item_free_fn[Position(i)] = captured[buffer[Position(i)]])'
      BY <1>1, <1>5, <1>8, <1>9, <2>1, <2>2 DEF FreedAsCaptured, TypeOK
    <2>4. \A u \in Threads : heldFn'[u] # None => held'[u] # None /\ heldFn'[u] = captured'[held'[u]]
      <3>1. heldFn[t] = None
        BY DEF ExclusiveOwnership, queue_enqueue
      <3>2. \A u \in Threads : u # t /\ held[u] # None => held[u] # held[t]
        BY <1>1 DEF ExclusiveOwnership
      <3> QED
        BY <1>1, <1>11, <2>1, <3>1, <3>2 DEF FreedAsCaptured, TypeOK
    <2> QED
      BY <2>3, <2>4 DEF FreedAsCaptured
  <1> QED
    BY <1>3, <1>4, <1>12, <1>13
(* queue_dequeue and queue_dequeue_timeout_ex: the thread gets the oldest job *)
(* with the function stored beside it, or with none.                          *)
LEMMA DequeueIInv ==
    ASSUME IInv, NEW t \in Threads, TakeOldest(t), pc[t] \in {"deq", "deqt"},
           NEW f \in {item_free_fn[head], None}, heldFn' = [heldFn EXCEPT ![t] = f]
    PROVE  IInv'
  <1> USE DEF IInv
  <1>1. count \in 1 .. Size /\ count' = count - 1 /\ head' = (head + 1) % Size
    BY SizeAssumption DEF TypeOK, TakeOldest
  <1>2. /\ pc' \in [Threads -> Calls \cup Waits \cup {"idle"}]
        /\ pc'[t] = "idle"
        /\ \A u \in Threads : pc'[u] \in {"enq", "enq_wait"} => pc[u] \in {"enq", "enq_wait"}
    <2>1. pc[t] \notin Waits /\ ReturnAndSignal(t, NotFullWaiters)
      BY DEF TakeOldest, Waits
    <2> QED
      BY <2>1, SignalEffect
  <1>3. head \in Index /\ head' \in Index
    <2>1. head + 1 \in Nat
      BY SizeAssumption DEF TypeOK, Index
    <2> QED
      BY <1>1, <2>1, ModRange DEF TypeOK
  <1>4. TypeOK'
    <2>1. count' \in 0 .. Size
      BY <1>1, SizeAssumption
    <2> QED
      BY <1>2, <1>3, <2>1 DEF TakeOldest, TypeOK
  <1>5. Position(0) = head
    BY <1>3, ModOnce, SizeAssumption DEF Position, Index
  <1>6. \A i \in 0 .. count' - 1 : /\ i \in 0 .. count - 1
                                  /\ i + 1 \in 0 .. count - 1
                                  /\ i + 1 \in 0 .. Size - 1
                                  /\ i \in 0 .. Size - 1
    BY <1>1, SizeAssumption
  <1>7. \A i \in 0 .. count' - 1 : Position(i)' = Position(i + 1)
    BY <1>1, <1>3, <1>6, PositionShift DEF Position
  <1>8. RingInv'
    <2>1. CASE count = 1
      <3>1. tail = (head + 1) % Size /\ tail' = tail /\ head' = tail /\ count' = 0
        BY <1>1, <2>1 DEF RingInv, TakeOldest
      <3>2. (tail + 0) % Size = tail
        BY ModIdentity DEF TypeOK
      <3> QED
        BY <3>1, <3>2 DEF RingInv
    <2>2. CASE count # 1
      <3>1. count - 1 \in 0 .. Size - 1
        BY <1>1, SizeAssumption
      <3>2. (((head + 1) % Size) + (count - 1)) % Size = (head + ((count - 1) + 1)) % Size
        BY <1>3, <3>1, PositionShift
      <3> QED
        BY <1>1, <3>2, SizeAssumption DEF RingInv, TakeOldest
    <2> QED
      BY <2>1, <2>2
  <1>9. /\ buffer' = buffer /\ item_free_fn' = item_free_fn /\ captured' = captured
        /\ held' = [held EXCEPT ![t] = buffer[head]]
    BY DEF TakeOldest
  <1>10. \A x \in Queued' : x \in Queued /\ x # buffer[head]
    <2> SUFFICES ASSUME NEW i \in 0 .. count' - 1
                 PROVE  buffer[Position(i + 1)] \in Queued /\ buffer[Position(i + 1)] # buffer[head]
      BY <1>7, <1>9 DEF Queued
    <2>1. i + 1 \in 0 .. count - 1 /\ 0 \in 0 .. count - 1 /\ i + 1 # 0
      BY <1>1, <1>6
    <2> QED
      BY <1>5, <2>1 DEF Queued, ExclusiveOwnership
  <1>11. buffer[head] \in Queued /\ buffer[head] \in Items
    <2>1. 0 \in 0 .. count - 1
      BY <1>1
    <2> QED
      BY <1>3, <1>5, <2>1 DEF Queued, ExclusiveOwnership, TypeOK
  <1>12. ExclusiveOwnership'
    <2>1. \A i, j \in 0 .. count' - 1 : (buffer[Position(i)] = buffer[Position(j)])' => i = j
      <3> SUFFICES ASSUME NEW i \in 0 .. count' - 1, NEW j \in 0 .. count' - 1,
                          buffer[Position(i + 1)] = buffer[Position(j + 1)]
                   PROVE  i = j
        BY <1>7, <1>9
      <3>1. i + 1 = j + 1
        BY <1>6 DEF ExclusiveOwnership
      <3> QED
        BY <1>1, <3>1
    <2>2. None \notin Queued'
      BY <1>10 DEF ExclusiveOwnership
    <2>3. \A u \in Threads : held'[u] \notin Queued'
      BY <1>9, <1>10 DEF ExclusiveOwnership, TypeOK
    <2>4. \A u, v \in Threads : held'[u] = held'[v] /\ held'[u] # None => u = v
      BY <1>9, <1>11 DEF ExclusiveOwnership, TypeOK
    <2>5. \A u \in Threads : pc'[u] \in {"enq", "enq_wait"} => held'[u] # None /\ heldFn'[u] = None
      BY <1>2, <1>9 DEF ExclusiveOwnership, TypeOK
    <2> QED
      BY <2>1, <2>2, <2>3, <2>4, <2>5 DEF ExclusiveOwnership
  <1>13. FreedAsCaptured'
    <2>1. \A i \in 0 .. count' - 1 : (item_free_fn[Position(i)] = captured[buffer[Position(i)]])'
      BY <1>6, <1>7, <1>9 DEF FreedAsCaptured
    <2>2. item_free_fn[head] = captured[buffer[head]]
      BY <1>1, <1>5 DEF FreedAsCaptured
    <2>3. \A u \in Threads : heldFn'[u] # None => held'[u] # None /\ heldFn'[u] = captured'[held'[u]]
      BY <1>9, <1>11, <2>2, NoneAssumption DEF FreedAsCaptured, TypeOK
    <2> QED
      BY <2>1, <2>3 DEF FreedAsCaptured
  <1> QED
    BY <1>4, <1>8, <1>12, <1>13

LEMMA ClearIInv ==
    ASSUME IInv, NEW t \in Threads, queue_clear(t)
    PROVE  IInv'
  <1> USE DEF IInv
  <1>1. /\ pc' \in [Threads -> Calls \cup Waits \cup {"idle"}]
        /\ \A u \in Threads : pc'[u] \in {"enq", "enq_wait"} => pc[u] \in {"enq", "enq_wait"}
    <2>1. pc[t] \notin Waits /\ ReturnAndSignal(t, NotFullWaiters)
      BY DEF queue_clear, Waits
    <2> QED
      BY <2>1, SignalEffect
  <1>2. head' = tail /\ count' = 0 /\ tail' = tail
    BY DEF queue_clear, RingInv
  <1>3. TypeOK'
    BY <1>1, <1>2, SizeAssumption DEF queue_clear, TypeOK
  <1>4. RingInv'
    <2>1. (tail + 0) % Size = tail
      BY ModIdentity DEF TypeOK
    <2> QED
      BY <1>2, <2>1 DEF RingInv
  <1>5. Queued' = {}
    BY <1>2 DEF Queued
  <1>6. ExclusiveOwnership'
    BY <1>1, <1>2, <1>5 DEF queue_clear, ExclusiveOwnership
  <1>7. FreedAsCaptured'
    BY <1>2 DEF queue_clear, FreedAsCaptured
  <1> QED
    BY <1>3, <1>4, <1>6, <1>7
-----------------------------------------------------------------------------
LEMMA NextIInv == IInv /\ [Next]_vars => IInv'
  <1> SUFFICES ASSUME IInv, [Next]_vars PROVE IInv'
    OBVIOUS
  <1> USE DEF IInv
  <1>1. CASE UNCHANGED vars
    <2>1. TypeOK'
      BY <1>1 DEF TypeOK, vars
    <2> QED
      BY <1>1, <2>1, RingUntouched DEF vars, ring, ExclusiveOwnership
  <1>2. ASSUME NEW f \in FreeFns, SetFreeFn(f) PROVE IInv'
    <2>1. TypeOK'
      BY <1>2 DEF TypeOK, SetFreeFn, ring
    <2> QED
      BY <1>2, <2>1, RingUntouched DEF SetFreeFn, ExclusiveOwnership
  <1>3. ASSUME NEW t \in Threads, CallEnqueue(t) PROVE IInv'
    <2>1. PICK j \in Items \ (Queued \cup {held[u] : u \in Threads}) :
             held' = [held EXCEPT ![t] = j]
      BY <1>3 DEF CallEnqueue
    <2>2. TypeOK'
      BY <1>3, <2>1 DEF TypeOK, CallEnqueue, ring, Calls
    <2>3. heldFn[t] = None /\ heldFn' = heldFn
      BY <1>3 DEF CallEnqueue, FreedAsCaptured
    <2>4. \A u \in Threads : held[u] # j
      BY <2>1
    <2>5. \A u \in Threads : heldFn'[u] # None => heldFn'[u] = heldFn[u] /\ held'[u] = held[u]
      BY <2>1, <2>3 DEF TypeOK
    <2>6. \A u \in Threads : held'[u] = held[u] \/ held'[u] \notin Queued
      BY <2>1 DEF TypeOK
    <2>7. \A u, v \in Threads : held'[u] = held'[v] /\ held'[u] # None => u = v
      BY <2>1, <2>4 DEF TypeOK, ExclusiveOwnership
    <2>8. \A u \in Threads : pc'[u] \in {"enq", "enq_wait"} => held'[u] # None /\ heldFn'[u] = None
      BY <1>3, <2>1, <2>3, NoneAssumption DEF TypeOK, ExclusiveOwnership, CallEnqueue
    <2>9. UNCHANGED <<ring, captured>>
      BY <1>3 DEF CallEnqueue
    <2> QED
      BY <2>2, <2>5, <2>6, <2>7, <2>8, <2>9, RingUntouched
  <1>4. ASSUME NEW t \in Threads, NEW op \in {"deq", "deqt", "clear"}, Call(t, op) PROVE IInv'
    <2>1. TypeOK'
      BY <1>4 DEF TypeOK, Call, ring, Calls
    <2> QED
      BY <1>4, <2>1, RingUntouched DEF Call, ExclusiveOwnership, TypeOK
  <1>5. ASSUME NEW t \in Threads, Release(t) PROVE IInv'
    <2>1. TypeOK'
      BY <1>5 DEF TypeOK, Release, ring
    <2>2. \A u \in Threads : pc'[u] \in {"enq", "enq_wait"} => held'[u] # None /\ heldFn'[u] = None
      BY <1>5 DEF Release, ExclusiveOwnership, TypeOK
    <2>3. \A u, v \in Threads : held'[u] = held'[v] /\ held'[u] # None => u = v
      BY <1>5 DEF Release, ExclusiveOwnership, TypeOK
    <2>4. \A u \in Threads : held'[u] = held[u] \/ held'[u] \notin Queued
      BY <1>5 DEF Release, ExclusiveOwnership, TypeOK
    <2>5. \A u \in Threads : heldFn'[u] # None => heldFn'[u] = heldFn[u] /\ held'[u] = held[u]
      BY <1>5 DEF Release, TypeOK
    <2>6. UNCHANGED <<ring, captured>>
      BY <1>5 DEF Release
    <2> QED
      BY <2>1, <2>2, <2>3, <2>4, <2>5, <2>6, RingUntouched
  <1>6. ASSUME NEW t \in Threads,
               WaitNotFull(t) \/ WaitNotEmpty(t) \/ TimedOut(t) \/ SpuriousWakeup(t)
        PROVE  IInv'
    <2>1. UNCHANGED <<ring, free_fn, held, heldFn, captured>>
      BY <1>6 DEF WaitNotFull, WaitNotEmpty, TimedOut, SpuriousWakeup
    <2>2. pc' \in [Threads -> Calls \cup Waits \cup {"idle"}]
      <3>1. \E s \in Calls \cup Waits \cup {"idle"} : pc' = [pc EXCEPT ![t] = s]
        BY <1>6, RetryType DEF WaitNotFull, WaitNotEmpty, TimedOut, SpuriousWakeup, Calls, Waits, TypeOK
      <3> QED
        BY <3>1 DEF TypeOK
    <2>3. TypeOK'
      BY <2>1, <2>2 DEF TypeOK, ring
    <2>4. \A u \in Threads : pc'[u] \in {"enq", "enq_wait"} => pc[u] \in {"enq", "enq_wait"}
      BY <1>6 DEF WaitNotFull, WaitNotEmpty, TimedOut, SpuriousWakeup, Retry, Waits, TypeOK
    <2> QED
      BY <2>1, <2>3, <2>4, RingUntouched DEF ExclusiveOwnership
  <1>7. ASSUME NEW t \in Threads, queue_dequeue(t) PROVE IInv'
    BY <1>7, DequeueIInv DEF queue_dequeue
  <1>8. ASSUME NEW t \in Threads, queue_dequeue_timeout_ex(t) PROVE IInv'
    BY <1>8, DequeueIInv DEF queue_dequeue_timeout_ex
  <1>9. CASE Next
    <2>1. Producers \subseteq Threads /\ Consumers \subseteq Threads /\ Clearers \subseteq Threads
      BY DEF Threads
    <2>2. ASSUME NEW t \in Threads, Body(t) PROVE IInv'
      BY <2>2, <1>6, <1>7, <1>8, EnqueueIInv, ClearIInv DEF Body
    <2> QED
      BY <1>2, <1>3, <1>4, <1>5, <1>6, <1>9, <2>1, <2>2
      DEF Next, Step, Producer, Consumer, Clearer
  <1> QED
    BY <1>1, <1>9

(* The state of the queue is well typed: the indices stay inside the ring and *)
(* every pointer read back is one that was put in.                            *)
THEOREM TypeCorrect == Spec => []TypeOK
  <1>1. IInv => TypeOK
    BY DEF IInv
  <1> QED
    BY <1>1, InitIInv, NextIInv, PTL DEF Spec

(* Safety of the ring for every size and every number of threads: its indices *)
(* agree, a job has exactly one owner, and it is freed with the function that *)
(* was installed when it was enqueued.                                        *)
THEOREM Safety == Spec => [](RingInv /\ ExclusiveOwnership /\ FreedAsCaptured)
  <1>1. IInv => RingInv /\ ExclusiveOwnership /\ FreedAsCaptured
    BY DEF IInv
  <1> QED
    BY <1>1, InitIInv, NextIInv, PTL DEF Spec

(* queue_dequeue hands a job out, and queue_clear frees it, with the free      *)
(* function that work_queue_set_free_fn had installed when it was enqueued.    *)
THEOREM FreedWithItsFunction == Spec => []FreedAsCaptured
  BY Safety, PTL
-----------------------------------------------------------------------------
(* No lost wake-up, in two parts: every queued job has an awake dequeuer as   *)
(* long as one sleeps, and an enqueuer is awake next to an empty ring.        *)
Awake(p) == {t \in Threads : p[t] \in {"deq", "deqt"}}
JobsNoticed == NotEmptyWaiters # {} => count <= Cardinality(Awake(pc))
SpaceNoticed == NotFullWaiters # {} /\ count = 0 => \E t \in Threads : pc[t] = "enq"

LEMMA NoticedIs == NoMissedWakeup <=> JobsNoticed /\ SpaceNoticed
  BY DEF NoMissedWakeup, JobsNoticed, SpaceNoticed, Awake

LEMMA AwakeFinite ==
    ASSUME IsFiniteSet(Threads), NEW p
    PROVE  IsFiniteSet(Awake(p)) /\ Cardinality(Awake(p)) \in Nat
  <1>1. Awake(p) \in SUBSET Threads
    BY DEF Awake
  <1> QED
    BY <1>1, FS_Subset, FS_CardinalityType

(* A step that puts nobody to sleep and no job into the ring.                 *)
LEMMA JobsStayNoticed ==
    ASSUME IsFiniteSet(Threads), TypeOK, JobsNoticed, count' = count,
           Awake(pc) \subseteq Awake(pc'), NotEmptyWaiters' \subseteq NotEmptyWaiters
    PROVE  JobsNoticed'
  <1> SUFFICES ASSUME NotEmptyWaiters' # {} PROVE count' <= Cardinality(Awake(pc'))
    BY DEF JobsNoticed
  <1>1. count <= Cardinality(Awake(pc)) /\ count \in Nat
    BY SizeAssumption DEF JobsNoticed, TypeOK
  <1>2. Cardinality(Awake(pc)) <= Cardinality(Awake(pc'))
    BY AwakeFinite, FS_Subset
  <1>3. Cardinality(Awake(pc)) \in Nat /\ Cardinality(Awake(pc')) \in Nat
    BY AwakeFinite
  <1> QED
    BY <1>1, <1>2, <1>3

(* What a return does to the program counters, with and without a sleeper.    *)
LEMMA Signalled ==
    ASSUME TypeOK, NEW t \in Threads, NEW waiters \in SUBSET Threads, t \notin waiters,
           ReturnAndSignal(t, waiters)
    PROVE  /\ pc'[t] = "idle"
           /\ waiters = {} => \A u \in Threads \ {t} : pc'[u] = pc[u]
           /\ waiters # {} => \E w \in waiters : /\ pc'[w] = Retry(pc[w])
                                                 /\ \A u \in Threads \ {t, w} : pc'[u] = pc[u]
  <1>1. CASE waiters = {}
    BY <1>1 DEF ReturnAndSignal, TypeOK
  <1>2. CASE waiters # {}
    <2>1. PICK w \in waiters : pc' = [pc EXCEPT ![t] = "idle", ![w] = Retry(pc[w])]
      BY <1>2 DEF ReturnAndSignal
    <2>2. w # t /\ w \in Threads
      OBVIOUS
    <2>3. /\ pc'[t] = "idle" /\ pc'[w] = Retry(pc[w])
          /\ \A u \in Threads \ {t, w} : pc'[u] = pc[u]
      BY <2>1, <2>2 DEF TypeOK
    <2> QED
      BY <1>2, <2>3
  <1> QED
    BY <1>1, <1>2

(* queue_enqueue wakes a sleeper, if there is one, for the job it brings.     *)
LEMMA EnqueueNotices ==
    ASSUME IsFiniteSet(Threads), TypeOK, JobsNoticed, SpaceNoticed, NEW t \in Threads, queue_enqueue(t)
    PROVE  JobsNoticed' /\ SpaceNoticed'
  <1>0. /\ pc[t] = "enq" /\ count \in Nat /\ count' = count + 1
        /\ ReturnAndSignal(t, NotEmptyWaiters) /\ t \notin NotEmptyWaiters
        /\ NotEmptyWaiters \in SUBSET Threads
    BY SizeAssumption DEF queue_enqueue, TypeOK, NotEmptyWaiters
  <1>1. SpaceNoticed'
    BY <1>0 DEF SpaceNoticed
  <1>2. CASE NotEmptyWaiters = {}
    <2>1. \A u \in Threads \ {t} : pc'[u] = pc[u]
      BY <1>0, <1>2, Signalled
    <2>2. pc'[t] = "idle"
      BY <1>0, Signalled
    <2>3. NotEmptyWaiters' = {}
      BY <1>2, <2>1, <2>2 DEF NotEmptyWaiters
    <2> QED
      BY <1>1, <2>3 DEF JobsNoticed
  <1>3. CASE NotEmptyWaiters # {}
    <2>1. PICK w \in NotEmptyWaiters : /\ pc'[w] = Retry(pc[w])
                                       /\ \A u \in Threads \ {t, w} : pc'[u] = pc[u]
      BY <1>0, <1>3, Signalled
    <2>2. pc'[t] = "idle"
      BY <1>0, Signalled
    <2>3. w \in Threads /\ pc[w] \in {"deq_wait", "deqt_wait"} /\ pc'[w] \in {"deq", "deqt"}
      BY <2>1 DEF NotEmptyWaiters, Retry
    <2>4. Awake(pc') = Awake(pc) \cup {w} /\ w \notin Awake(pc)
      BY <1>0, <2>1, <2>2, <2>3 DEF Awake
    <2>5. Cardinality(Awake(pc')) = Cardinality(Awake(pc)) + 1
      BY <2>4, AwakeFinite, FS_AddElement
    <2>6. count <= Cardinality(Awake(pc)) /\ Cardinality(Awake(pc)) \in Nat
      BY <1>3, AwakeFinite DEF JobsNoticed
    <2> QED
      BY <1>0, <1>1, <2>5, <2>6 DEF JobsNoticed
  <1> QED
    BY <1>2, <1>3

(* The two dequeues: a job less, an awake dequeuer less, an enqueuer woken.   *)
LEMMA TakeNotices ==
    ASSUME IsFiniteSet(Threads), TypeOK, JobsNoticed, SpaceNoticed, NEW t \in Threads,
           pc[t] \in {"deq", "deqt"}, TakeOldest(t)
    PROVE  JobsNoticed' /\ SpaceNoticed'
  <1>0. /\ count \in Nat /\ count > 0 /\ count' = count - 1
        /\ ReturnAndSignal(t, NotFullWaiters) /\ t \notin NotFullWaiters
        /\ NotFullWaiters \in SUBSET Threads
    BY SizeAssumption DEF TakeOldest, TypeOK, NotFullWaiters
  <1>1. /\ pc'[t] = "idle"
        /\ NotFullWaiters = {} => \A u \in Threads \ {t} : pc'[u] = pc[u]
        /\ NotFullWaiters # {} => \E w \in NotFullWaiters :
                                     /\ pc'[w] = Retry(pc[w])
                                     /\ \A u \in Threads \ {t, w} : pc'[u] = pc[u]
    BY <1>0, Signalled
  <1>2. /\ \A u \in Threads \ {t} : pc'[u] = pc[u] \/ (pc[u] = "enq_wait" /\ pc'[u] = "enq")
        /\ NotFullWaiters # {} => \E w \in Threads : pc'[w] = "enq"
        /\ NotFullWaiters = {} => NotFullWaiters' = {}
    BY <1>1 DEF NotFullWaiters, Retry
  <1>3. SpaceNoticed'
    BY <1>2 DEF SpaceNoticed
  <1>4. Awake(pc') = Awake(pc) \ {t} /\ t \in Awake(pc)
    BY <1>1, <1>2 DEF Awake
  <1>5. Cardinality(Awake(pc')) = Cardinality(Awake(pc)) - 1
    BY <1>4, AwakeFinite, FS_RemoveElement
  <1>6. NotEmptyWaiters' \subseteq NotEmptyWaiters
    BY <1>1, <1>2 DEF NotEmptyWaiters
  <1>7. Cardinality(Awake(pc)) \in Nat
    BY AwakeFinite
  <1>8. JobsNoticed'
    BY <1>0, <1>5, <1>6, <1>7 DEF JobsNoticed
  <1> QED
    BY <1>3, <1>8

(* queue_clear leaves no job to notice and wakes one enqueuer, if one sleeps. *)
LEMMA ClearNotices ==
    ASSUME IsFiniteSet(Threads), TypeOK, JobsNoticed, SpaceNoticed, NEW t \in Threads, queue_clear(t)
    PROVE  JobsNoticed' /\ SpaceNoticed'
  <1>0. /\ pc[t] = "clear" /\ count' = 0
        /\ ReturnAndSignal(t, NotFullWaiters) /\ t \notin NotFullWaiters
        /\ NotFullWaiters \in SUBSET Threads
    BY DEF queue_clear, NotFullWaiters
  <1>1. /\ pc'[t] = "idle"
        /\ NotFullWaiters = {} => \A u \in Threads \ {t} : pc'[u] = pc[u]
        /\ NotFullWaiters # {} => \E w \in NotFullWaiters : pc'[w] = Retry(pc[w])
    BY <1>0, Signalled
  <1>2. /\ NotFullWaiters # {} => \E w \in Threads : pc'[w] = "enq"
        /\ NotFullWaiters = {} => NotFullWaiters' = {}
    BY <1>1 DEF NotFullWaiters, Retry
  <1>3. SpaceNoticed'
    BY <1>2 DEF SpaceNoticed
  <1>4. Cardinality(Awake(pc')) \in Nat
    BY AwakeFinite
  <1> QED
    BY <1>0, <1>3, <1>4 DEF JobsNoticed

(* The steps that leave the ring alone.  Only WaitNotFull and WaitNotEmpty    *)
(* put anybody to sleep, the one beside a full ring and the other beside an   *)
(* empty one.                                                                 *)
LEMMA OthersNotice ==
    ASSUME IsFiniteSet(Threads), TypeOK, JobsNoticed, SpaceNoticed, NEW t \in Threads, count' = count,
           \/ pc' = pc
           \/ \E s \in Calls : pc[t] = "idle" /\ pc' = [pc EXCEPT ![t] = s]
           \/ pc[t] = "enq" /\ count = Size /\ pc' = [pc EXCEPT ![t] = "enq_wait"]
           \/ \E s \in {"deq_wait", "deqt_wait"} :
                 pc[t] \in {"deq", "deqt"} /\ count = 0 /\ pc' = [pc EXCEPT ![t] = s]
           \/ pc[t] = "deqt_wait" /\ pc' = [pc EXCEPT ![t] = "idle"]
           \/ pc[t] \in Waits /\ pc' = [pc EXCEPT ![t] = Retry(pc[t])]
    PROVE  JobsNoticed' /\ SpaceNoticed'
  <1>1. CASE pc' = pc
    BY <1>1 DEF JobsNoticed, SpaceNoticed, NotEmptyWaiters, NotFullWaiters
  <1>2. ASSUME NEW s \in Calls, pc[t] = "idle", pc' = [pc EXCEPT ![t] = s]
        PROVE  JobsNoticed' /\ SpaceNoticed'
    <2>1. Awake(pc) \subseteq Awake(pc') /\ NotEmptyWaiters' \subseteq NotEmptyWaiters
      BY <1>2 DEF Awake, NotEmptyWaiters, Calls, TypeOK
    <2>2. SpaceNoticed'
      BY <1>2 DEF SpaceNoticed, NotFullWaiters, Calls, TypeOK
    <2> QED
      BY <2>1, <2>2, JobsStayNoticed
  <1>3. CASE pc[t] = "enq" /\ count = Size /\ pc' = [pc EXCEPT ![t] = "enq_wait"]
    <2>1. Awake(pc) \subseteq Awake(pc') /\ NotEmptyWaiters' \subseteq NotEmptyWaiters
      BY <1>3 DEF Awake, NotEmptyWaiters, TypeOK
    <2>2. SpaceNoticed'
      BY <1>3, SizeAssumption DEF SpaceNoticed
    <2> QED
      BY <2>1, <2>2, JobsStayNoticed
  <1>4. ASSUME NEW s \in {"deq_wait", "deqt_wait"}, pc[t] \in {"deq", "deqt"}, count = 0,
               pc' = [pc EXCEPT ![t] = s]
        PROVE  JobsNoticed' /\ SpaceNoticed'
    <2>1. Cardinality(Awake(pc')) \in Nat
      BY AwakeFinite
    <2>2. JobsNoticed'
      BY <1>4, <2>1 DEF JobsNoticed
    <2>3. SpaceNoticed'
      BY <1>4 DEF SpaceNoticed, NotFullWaiters, TypeOK
    <2> QED
      BY <2>2, <2>3
  <1>5. CASE pc[t] = "deqt_wait" /\ pc' = [pc EXCEPT ![t] = "idle"]
    <2>1. Awake(pc) \subseteq Awake(pc') /\ NotEmptyWaiters' \subseteq NotEmptyWaiters
      BY <1>5 DEF Awake, NotEmptyWaiters, TypeOK
    <2>2. SpaceNoticed'
      BY <1>5 DEF SpaceNoticed, NotFullWaiters, TypeOK
    <2> QED
      BY <2>1, <2>2, JobsStayNoticed
  <1>6. CASE pc[t] \in Waits /\ pc' = [pc EXCEPT ![t] = Retry(pc[t])]
    <2>1. Awake(pc) \subseteq Awake(pc') /\ NotEmptyWaiters' \subseteq NotEmptyWaiters
      BY <1>6 DEF Awake, NotEmptyWaiters, Waits, Retry, TypeOK
    <2>2. SpaceNoticed'
      BY <1>6 DEF SpaceNoticed, NotFullWaiters, Waits, Retry, TypeOK
    <2> QED
      BY <2>1, <2>2, JobsStayNoticed
  <1> QED
    BY <1>1, <1>2, <1>3, <1>4, <1>5, <1>6

LEMMA NextNotices ==
    ASSUME IsFiniteSet(Threads), TypeOK, JobsNoticed, SpaceNoticed, [Next]_vars
    PROVE  JobsNoticed' /\ SpaceNoticed'
  <1>1. CASE UNCHANGED <<count, pc>>
    BY <1>1 DEF JobsNoticed, SpaceNoticed, NotEmptyWaiters, NotFullWaiters
  <1>2. ASSUME NEW t \in Threads, CallEnqueue(t) \/ \E op \in {"deq", "deqt", "clear"} : Call(t, op)
        PROVE  JobsNoticed' /\ SpaceNoticed'
    <2>1. count' = count /\ \E s \in Calls : pc[t] = "idle" /\ pc' = [pc EXCEPT ![t] = s]
      BY <1>2 DEF CallEnqueue, Call, Calls, ring
    <2> QED
      BY <2>1, OthersNotice
  <1>3. ASSUME NEW t \in Threads, WaitNotFull(t) PROVE JobsNoticed' /\ SpaceNoticed'
    <2>1. count' = count /\ pc[t] = "enq" /\ count = Size /\ pc' = [pc EXCEPT ![t] = "enq_wait"]
      BY <1>3 DEF WaitNotFull, ring
    <2> QED
      BY <2>1, OthersNotice
  <1>4. ASSUME NEW t \in Threads, WaitNotEmpty(t) PROVE JobsNoticed' /\ SpaceNoticed'
    <2>1. /\ count' = count
          /\ \E s \in {"deq_wait", "deqt_wait"} :
                pc[t] \in {"deq", "deqt"} /\ count = 0 /\ pc' = [pc EXCEPT ![t] = s]
      BY <1>4 DEF WaitNotEmpty, ring
    <2> QED
      BY <2>1, OthersNotice
  <1>5. ASSUME NEW t \in Threads, TimedOut(t) PROVE JobsNoticed' /\ SpaceNoticed'
    <2>1. count' = count /\ pc[t] = "deqt_wait" /\ pc' = [pc EXCEPT ![t] = "idle"]
      BY <1>5 DEF TimedOut, ring
    <2> QED
      BY <2>1, OthersNotice
  <1>6. ASSUME NEW t \in Threads, SpuriousWakeup(t) PROVE JobsNoticed' /\ SpaceNoticed'
    <2>1. count' = count /\ pc[t] \in Waits /\ pc' = [pc EXCEPT ![t] = Retry(pc[t])]
      BY <1>6 DEF SpuriousWakeup, ring
    <2> QED
      BY <2>1, OthersNotice
  <1>7. ASSUME NEW t \in Threads, queue_dequeue(t) \/ queue_dequeue_timeout_ex(t)
        PROVE  JobsNoticed' /\ SpaceNoticed'
    <2>1. pc[t] \in {"deq", "deqt"} /\ TakeOldest(t)
      BY <1>7 DEF queue_dequeue, queue_dequeue_timeout_ex
    <2> QED
      BY <2>1, TakeNotices
  <1>8. ASSUME NEW t \in Threads, Body(t) PROVE JobsNoticed' /\ SpaceNoticed'
    BY <1>3, <1>4, <1>5, <1>7, <1>8, EnqueueNotices, ClearNotices DEF Body
  <1>9. ASSUME NEW f \in FreeFns, SetFreeFn(f) PROVE UNCHANGED <<count, pc>>
    BY <1>9 DEF SetFreeFn, ring
  <1>10. ASSUME NEW t \in Threads, Release(t) PROVE UNCHANGED <<count, pc>>
    BY <1>10 DEF Release, ring
  <1>11. CASE Next
    <2>1. Producers \subseteq Threads /\ Consumers \subseteq Threads /\ Clearers \subseteq Threads
      BY DEF Threads
    <2>2. ASSUME NEW t \in Producers, Producer(t) PROVE JobsNoticed' /\ SpaceNoticed'
      BY <1>2, <2>1, <2>2 DEF Producer
    <2>3. ASSUME NEW t \in Consumers, Consumer(t) PROVE JobsNoticed' /\ SpaceNoticed'
      BY <1>2, <2>1, <2>3 DEF Consumer
    <2>4. ASSUME NEW t \in Clearers, Clearer(t) PROVE JobsNoticed' /\ SpaceNoticed'
      BY <1>2, <2>1, <2>4 DEF Clearer
    <2> QED
      BY <1>1, <1>6, <1>8, <1>9, <1>10, <1>11, <2>2, <2>3, <2>4 DEF Next, Step
  <1>12. CASE UNCHANGED vars
    BY <1>1, <1>12 DEF vars
  <1> QED
    BY <1>11, <1>12

(* No wake-up of work_queue.c is lost, for every capacity and any finite set  *)
(* of threads, spurious wake-ups and several blocked producers included:      *)
(* while a dequeuer sleeps, every queued job has an awake one, and beside an  *)
(* empty ring not all enqueuers sleep, although queue_clear signals once.     *)
THEOREM WakeupsAreNoticed ==
    ASSUME IsFiniteSet(Threads)
    PROVE  Spec => []NoMissedWakeup
  <1>1. Init => JobsNoticed /\ SpaceNoticed
    <2> SUFFICES ASSUME Init PROVE JobsNoticed /\ SpaceNoticed
      OBVIOUS
    <2>1. NotEmptyWaiters = {} /\ NotFullWaiters = {}
      BY DEF Init, NotEmptyWaiters, NotFullWaiters
    <2> QED
      BY <2>1 DEF JobsNoticed, SpaceNoticed
  <1> QED
    BY <1>1, TypeCorrect, NextNotices, NoticedIs, PTL DEF Spec
-----------------------------------------------------------------------------
(* Refinement.  At is the i-th oldest entry of a ring with the given fields.  *)
At(b, f, h, i) == <<b[(h + i) % Size], f[(h + i) % Size]>>

LEMMA ContentsIs ==
    /\ Contents = [i \in 1 .. count |-> At(buffer, item_free_fn, head, i - 1)]
    /\ Contents' = [i \in 1 .. count' |-> At(buffer', item_free_fn', head', i - 1)]
  BY DEF Contents, Position, At

LEMMA EntryType ==
    ASSUME IInv, NEW i \in 0 .. count - 1
    PROVE  At(buffer, item_free_fn, head, i) \in Items \X FreeFns
  <1>1. Position(i) \in Index
    <2>1. i \in 0 .. Size - 1
      BY SizeAssumption DEF IInv, TypeOK
    <2> QED
      BY <2>1, PositionType DEF IInv
  <1>2. buffer[Position(i)] \in Queued
    BY DEF Queued
  <1> QED
    BY <1>1, <1>2 DEF IInv, TypeOK, ExclusiveOwnership, At, Position

LEMMA ContentsType ==
    ASSUME IInv
    PROVE  /\ Contents \in Seq(Items \X FreeFns) /\ Len(Contents) = count
           /\ count \in Nat /\ count <= Size
           /\ \A i \in 1 .. count : Contents[i] = At(buffer, item_free_fn, head, i - 1)
  <1>1. count \in Nat /\ count <= Size /\ \A i \in 1 .. count : i - 1 \in 0 .. count - 1
    BY SizeAssumption DEF IInv, TypeOK
  <1>2. \A i \in 1 .. count : At(buffer, item_free_fn, head, i - 1) \in Items \X FreeFns
    BY <1>1, EntryType
  <1> QED
    BY <1>1, <1>2, ContentsIs

LEMMA EnqueueIsPut ==
    ASSUME IInv, NEW t \in Threads, queue_enqueue(t)
    PROVE  Abstract!Put
  <1> DEFINE e == <<held[t], free_fn>>
  <1>1. held[t] \in Items /\ free_fn \in FreeFns /\ count \in 0 .. Size - 1 /\ count' = count + 1
    BY SizeAssumption DEF IInv, TypeOK, ExclusiveOwnership, queue_enqueue
  <1>2. /\ buffer' = [buffer EXCEPT ![tail] = held[t]]
        /\ item_free_fn' = [item_free_fn EXCEPT ![tail] = free_fn]
        /\ head' = head
    BY DEF queue_enqueue
  <1>3. tail = (head + count) % Size
    BY DEF IInv, RingInv
  <1>4. At(buffer', item_free_fn', head', count) = e
    BY <1>2, <1>3 DEF At, IInv, TypeOK
  <1>5. ASSUME NEW i \in 0 .. count - 1
        PROVE  At(buffer', item_free_fn', head', i) = At(buffer, item_free_fn, head, i)
    <2>1. i \in 0 .. Size - 1 /\ i # count
      BY <1>1, SizeAssumption
    <2>2. (head + i) % Size # tail
      BY <1>1, <1>3, <2>1, PositionsDiffer DEF IInv, TypeOK
    <2>3. (head + i) % Size \in Index
      BY <2>1, PositionType DEF IInv, Position
    <2> QED
      BY <1>2, <2>2, <2>3 DEF At, IInv, TypeOK
  <1>6. Contents' = [i \in 1 .. count + 1 |-> IF i <= count THEN Contents[i] ELSE e]
    <2>1. \A i \in 1 .. count + 1 :
             At(buffer', item_free_fn', head', i - 1) = IF i <= count THEN Contents[i] ELSE e
      <3> SUFFICES ASSUME NEW i \in 1 .. count + 1
                   PROVE  At(buffer', item_free_fn', head', i - 1) = IF i <= count THEN Contents[i] ELSE e
        OBVIOUS
      <3>1. CASE i <= count
        <4>1. i \in 1 .. count /\ i - 1 \in 0 .. count - 1
          BY <1>1, <3>1
        <4> QED
          BY <3>1, <4>1, <1>5, ContentsType
      <3>2. CASE ~(i <= count)
        <4>1. i - 1 = count
          BY <1>1, <3>2
        <4> QED
          BY <1>4, <3>2, <4>1
      <3> QED
        BY <3>1, <3>2
    <2> QED
      BY <1>1, <2>1, ContentsIs
  <1>7. Contents' = Append(Contents, e)
    BY <1>6, ContentsType
  <1>8. e \in Abstract!Entry
    BY <1>1 DEF Abstract!Entry
  <1>9. Len(Contents) < Size
    BY <1>1, ContentsType, SizeAssumption
  <1> QED
    BY <1>7, <1>8, <1>9 DEF Abstract!Put

LEMMA DequeueIsTake ==
    ASSUME IInv, NEW t \in Threads, TakeOldest(t)
    PROVE  Abstract!Take
  <1>1. count \in 1 .. Size /\ count' = count - 1
    BY SizeAssumption DEF IInv, TypeOK, TakeOldest
  <1>2. buffer' = buffer /\ item_free_fn' = item_free_fn /\ head' = (head + 1) % Size
    BY DEF TakeOldest
  <1>3. ASSUME NEW i \in 1 .. count - 1
        PROVE  At(buffer', item_free_fn', head', i - 1) = Contents[i + 1]
    <2>1. i - 1 \in 0 .. Size - 1 /\ i + 1 \in 1 .. count /\ (i - 1) + 1 = (i + 1) - 1
      BY <1>1, SizeAssumption
    <2>2. (((head + 1) % Size) + (i - 1)) % Size = (head + ((i - 1) + 1)) % Size
      BY <2>1, PositionShift DEF IInv, TypeOK
    <2>3. Contents[i + 1] = At(buffer, item_free_fn, head, (i + 1) - 1)
      BY <2>1, ContentsType
    <2> QED
      BY <1>2, <2>1, <2>2, <2>3 DEF At
  <1>4. Contents' = [i \in 1 .. count - 1 |-> Contents[i + 1]]
    BY <1>1, <1>3, ContentsIs
  <1>5. Contents # << >> /\ Contents' = Tail(Contents)
    <2>1. Contents \in Seq(Items \X FreeFns) /\ Len(Contents) = count
      BY ContentsType
    <2>2. Contents # << >>
      BY <1>1, <2>1
    <2>3. Tail(Contents) = [i \in 1 .. Len(Contents) - 1 |-> Contents[i + 1]]
      <3>1. /\ Tail(Contents) \in Seq(Items \X FreeFns)
            /\ Len(Tail(Contents)) = Len(Contents) - 1
            /\ \A i \in 1 .. Len(Tail(Contents)) : Tail(Contents)[i] = Contents[i + 1]
        BY <2>1, <2>2, HeadTailProperties
      <3> DEFINE T == Tail(Contents)
      <3>2. T \in [1 .. Len(T) -> Items \X FreeFns]
        BY <3>1, LenProperties
      <3>3. T = [i \in 1 .. Len(T) |-> T[i]]
        BY <3>2
      <3> QED
        BY <3>1, <3>3
    <2> QED
      BY <1>4, <2>1, <2>2, <2>3
  <1> QED
    BY <1>5 DEF Abstract!Take

LEMMA ClearIsFlush ==
    ASSUME IInv, NEW t \in Threads, queue_clear(t)
    PROVE  Abstract!Flush
  <1>1. Contents' = [i \in 1 .. 0 |-> At(buffer', item_free_fn', head', i - 1)]
    BY ContentsIs DEF queue_clear
  <1> QED
    BY <1>1 DEF Abstract!Flush

(* The ring with its mutex and condition variables implements the bounded     *)
(* FIFO of jobs with their free functions: every step of any thread is one    *)
(* FIFO operation or none, for every QUEUE_SIZE.                              *)
THEOREM Refinement == Spec => ImplementsFifo
  <1>1. Init => Abstract!Init
    BY ContentsIs DEF Init, Abstract!Init
  <1>2. IInv /\ [Next]_vars => [Abstract!Next]_Contents
    <2> SUFFICES ASSUME IInv, [Next]_vars PROVE [Abstract!Next]_Contents
      OBVIOUS
    <2>1. CASE UNCHANGED ring
      BY <2>1, ContentsIs DEF ring
    <2>2. ASSUME NEW t \in Threads, queue_enqueue(t) PROVE Abstract!Next
      BY <2>2, EnqueueIsPut DEF Abstract!Next
    <2>3. ASSUME NEW t \in Threads, TakeOldest(t) PROVE Abstract!Next
      BY <2>3, DequeueIsTake DEF Abstract!Next
    <2>4. ASSUME NEW t \in Threads, queue_clear(t) PROVE Abstract!Next
      BY <2>4, ClearIsFlush DEF Abstract!Next
    <2>5. CASE UNCHANGED vars
      BY <2>1, <2>5 DEF vars, ring
    <2>6. CASE Next
      <3>1. ASSUME NEW t \in Threads, Body(t) PROVE UNCHANGED ring \/ Abstract!Next
        BY <3>1, <2>2, <2>3, <2>4
        DEF Body, queue_dequeue, queue_dequeue_timeout_ex, WaitNotFull, WaitNotEmpty, TimedOut
      <3> QED
        BY <2>1, <2>6, <3>1
        DEF Next, Step, Producer, Consumer, Clearer, SetFreeFn, CallEnqueue, Call, Release, SpuriousWakeup
    <2> QED
      BY <2>5, <2>6
  <1> QED
    BY <1>1, <1>2, InitIInv, NextIInv, PTL DEF Spec, ImplementsFifo, Abstract!Spec
=============================================================================
