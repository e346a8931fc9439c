--------------------------- MODULE Settings_proofs ---------------------------
(***************************************************************************)
(* Proofs about Settings: what the cache and the flash hold is what the    *)
(* settings of the boot become after a prefix of the accepted updates.     *)
(***************************************************************************)
EXTENDS Settings, TLAPS, SequenceTheorems, WellFoundedInduction

-----------------------------------------------------------------------------
(* Replay, as an operator of the sequence of updates.                         *)

LastOf(acc, n, k) == {i \in 1 .. n : acc[i].key = k}
Newest(S) == CHOOSE i \in S : \A j \in S : j <= i
ReplayOf(acc, from, n) ==
    [k \in Keys |-> IF LastOf(acc, n, k) = {} THEN from[k]
                    ELSE acc[Newest(LastOf(acc, n, k))].value]

LEMMA ReplayIs == \A from, n : Replay(from, n) = ReplayOf(accepted, from, n)
  BY DEF Replay, ReplayOf, LastOf, Newest

(* A set of positions has a newest one: the well-founded order of the natural *)
(* numbers has a minimum on the distances from n.                             *)
LEMMA NewestIn ==
    ASSUME NEW n \in Nat, NEW S \in SUBSET (1 .. n), S # {}
    PROVE  Newest(S) \in S /\ \A j \in S : j <= Newest(S)
  <1> DEFINE T == {m \in 0 .. n : n - m \in S}
  <1>1. T \subseteq Nat /\ T # {}
    <2>1. PICK i \in S : i \in 1 .. n
      OBVIOUS
    <2>2. n - i \in 0 .. n /\ n - (n - i) = i
      BY <2>1
    <2>3. n - i \in T
      BY <2>1, <2>2
    <2>4. T \subseteq Nat
      OBVIOUS
    <2> HIDE DEF T
    <2> QED
      BY <2>3, <2>4
  <1>2. PICK m \in T : \A y \in T : ~(<<y, m>> \in OpToRel(<, Nat))
    BY <1>1, NatLessThanWellFounded, WFMin
  <1>3. \A y \in T : ~(y < m)
    BY <1>1, <1>2 DEF OpToRel
  <1>4. \A j \in S : j <= n - m
    <2> SUFFICES ASSUME NEW j \in S PROVE j <= n - m
      OBVIOUS
    <2>1. j \in 1 .. n
      OBVIOUS
    <2>2. n - j \in 0 .. n /\ n - (n - j) = j
      BY <2>1
    <2>3. n - j \in T /\ m \in 0 .. n
      BY <2>2
    <2> QED
      BY <1>3, <2>1, <2>2, <2>3
  <1>5. n - m \in S
    OBVIOUS
  <1> QED
    BY <1>4, <1>5 DEF Newest

LEMMA ReplayStep ==
    ASSUME NEW acc, NEW from, NEW n \in Nat, NEW k \in Keys
    PROVE  ReplayOf(acc, from, n + 1)[k]
             = IF acc[n + 1].key = k THEN acc[n + 1].value ELSE ReplayOf(acc, from, n)[k]
  <1>1. CASE acc[n + 1].key = k
    <2> DEFINE S == LastOf(acc, n + 1, k)
    <2>1. S \in SUBSET (1 .. n + 1) /\ n + 1 \in S
      BY <1>1 DEF LastOf
    <2> HIDE DEF S
    <2>2. /\ Newest(S) \in S /\ n + 1 <= Newest(S)
          /\ Newest(S) \in 1 .. n + 1
      <3>1. n + 1 \in Nat /\ S # {}
        BY <2>1
      <3>2. Newest(S) \in S /\ \A j \in S : j <= Newest(S)
        BY <2>1, <3>1, NewestIn
      <3> QED
        BY <2>1, <3>2
    <2>3. Newest(S) = n + 1
      BY <2>1, <2>2
    <2> QED
      BY <1>1, <2>1, <2>3 DEF ReplayOf, S
  <1>2. CASE acc[n + 1].key # k
    <2>1. LastOf(acc, n + 1, k) = LastOf(acc, n, k)
      BY <1>2 DEF LastOf
    <2> QED
      BY <1>2, <2>1 DEF ReplayOf
  <1> QED
    BY <1>1, <1>2

LEMMA ReplayPrefix ==
    ASSUME NEW acc, NEW other, NEW from, NEW n \in Nat, \A i \in 1 .. n : other[i] = acc[i]
    PROVE  ReplayOf(other, from, n) = ReplayOf(acc, from, n)
  <1> SUFFICES ASSUME NEW k \in Keys
               PROVE  ReplayOf(other, from, n)[k] = ReplayOf(acc, from, n)[k]
    BY DEF ReplayOf
  <1> DEFINE S == LastOf(acc, n, k)
  <1>1. LastOf(other, n, k) = S /\ S \in SUBSET (1 .. n)
    BY DEF LastOf
  <1> HIDE DEF S
  <1>2. S # {} => Newest(S) \in 1 .. n
    BY <1>1, NewestIn
  <1> QED
    BY <1>1, <1>2 DEF ReplayOf, S

LEMMA ReplayNone ==
    ASSUME NEW acc, NEW from, NEW A, from \in [Keys -> A]
    PROVE  ReplayOf(acc, from, 0) = from
  <1>1. \A k \in Keys : LastOf(acc, 0, k) = {}
    BY DEF LastOf
  <1> QED
    BY <1>1 DEF ReplayOf

-----------------------------------------------------------------------------
(* The inductive invariant: values have the type of their key; the queue is    *)
(* the end of the accepted updates; the update in nvs_task's hands is the last *)
(* one that it took; and what the two properties say of cache and flash.       *)

AllValues == UNION {ValuesOf(k) : k \in Keys}

Typed ==
    /\ cache \in [Keys -> AllValues] /\ atBoot \in [Keys -> AllValues]
    /\ \A k \in Keys : cache[k] \in ValuesOf(k)
    /\ saveQueue \in Seq(Updates) /\ accepted \in Seq(Updates)
    /\ saver \in Updates \cup {NoUpdate}

FlashTyped ==
    /\ flash \in [Keys \cup LegacyKeys -> AllValues \cup {Absent}]
    /\ \A k \in Keys : flash[k] \in ValuesOf(k) \cup {Absent}
    /\ flash["stratumurl"] \in StoredPools \cup {Absent}
    /\ flash["fbstratumurl"] \in StoredPools \cup {Absent}
    /\ flash["asicfrequency"] \in Frequencies \cup {Absent}

\* What a handler has still to set: the pools of a body are not yet stored pools.
PoolValues == {p \in PoolBodies : ValidPool(p)} \cup {Empty}
Wanted == {e \in [key : Keys, value : AllValues \cup PoolValues] :
              e.value \in IF e.key \in Slots THEN PoolValues ELSE ValuesOf(e.key)}
RequestOK ==
    http.kind = "set" => /\ http \in [kind : {"set"}, todo : Seq(Wanted)]
                         /\ http.todo # <<>>

Taken == Len(accepted) - Len(saveQueue)
Finished == Taken - (IF saver = NoUpdate THEN 0 ELSE 1)

Order ==
    /\ boot # "up" => /\ accepted = <<>> /\ saveQueue = <<>> /\ saver = NoUpdate
                      /\ http.kind = "idle"
    /\ Len(saveQueue) <= Len(accepted)
    /\ \A i \in 1 .. Len(saveQueue) : saveQueue[i] = accepted[Taken + i]
    /\ saver # NoUpdate => Taken >= 1 /\ saver = accepted[Taken]

CachePart == boot = "up" => cache = ReplayOf(accepted, atBoot, Taken)
FlashPart ==
    boot = "up" /\ failed = {} =>
        \A k \in Keys : \/ flash[k] = Absent /\ Unset(k, Finished)
                        \/ flash[k] = ReplayOf(accepted, atBoot, Finished)[k]

SettingsInv == Typed /\ FlashTyped /\ RequestOK /\ Order /\ CachePart /\ FlashPart

LEMMA KeysDiffer ==
    /\ "pool_1" \in Keys /\ "pool_2" \in Keys /\ "prim" \in Keys /\ "sec" \in Keys
    /\ "freq" \in Keys /\ "oc" \in Keys
    /\ "prim" \notin Slots /\ "sec" \notin Slots /\ "freq" \notin Slots /\ "oc" \notin Slots
    /\ "stratumurl" \notin Keys /\ "fbstratumurl" \notin Keys /\ "asicfrequency" \notin Keys
  BY SettingsAssumption DEF Keys, LegacyKeys

LEMMA ValuesAre ==
    /\ \A k \in Slots : ValuesOf(k) = StoredPools /\ Default(k) = Empty
    /\ ValuesOf("prim") = Slots /\ ValuesOf("sec") = Slots
    /\ ValuesOf("freq") = Frequencies /\ ValuesOf("oc") = BOOLEAN
    /\ Default("prim") = "pool_1" /\ Default("sec") = "pool_2"
    /\ Default("freq") = 1 /\ Default("oc") = FALSE
    /\ \A k \in Keys : Default(k) \in ValuesOf(k)
    /\ \A k \in Keys : ValuesOf(k) \subseteq AllValues
  <1>1. \A k \in Slots : ValuesOf(k) = StoredPools /\ Default(k) = Empty
    BY KeysDiffer DEF ValuesOf, Default
  <1>2. /\ ValuesOf("prim") = Slots /\ ValuesOf("sec") = Slots
        /\ ValuesOf("freq") = Frequencies /\ ValuesOf("oc") = BOOLEAN
        /\ Default("prim") = "pool_1" /\ Default("sec") = "pool_2"
        /\ Default("freq") = 1 /\ Default("oc") = FALSE
    BY KeysDiffer DEF ValuesOf, Default
  <1>3. Empty \in StoredPools /\ 1 \in Frequencies /\ "pool_1" \in Slots /\ "pool_2" \in Slots
    BY SettingsAssumption DEF StoredPools, Frequencies
  <1>4. \A k \in Keys : Default(k) \in ValuesOf(k)
    <2>1. Default("oc") \in ValuesOf("oc")
      BY <1>2, Zenon
    <2>2. \A k \in Slots \cup {"prim", "sec", "freq"} : Default(k) \in ValuesOf(k)
      BY <1>1, <1>2, <1>3
    <2> QED
      BY <2>1, <2>2 DEF Keys
  <1> QED
    BY <1>1, <1>2, <1>4 DEF AllValues

LEMMA UpdateType ==
    /\ \A k \in Keys : \A v \in ValuesOf(k) : [key |-> k, value |-> v] \in Updates
    /\ \A u \in Updates : /\ u.key \in Keys /\ u.value \in ValuesOf(u.key) /\ u # NoUpdate
                          /\ u.value \in AllValues
  <1>1. \A k \in Keys : \A v \in ValuesOf(k) : [key |-> k, value |-> v] \in Updates
    BY DEF Updates
  <1>2. ASSUME NEW u \in Updates
        PROVE  u.key \in Keys /\ u.value \in ValuesOf(u.key) /\ u # NoUpdate /\ u.value \in AllValues
    <2>1. PICK k \in Keys : u \in {[key |-> k, value |-> v] : v \in ValuesOf(k)}
      BY DEF Updates
    <2>2. PICK v \in ValuesOf(k) : u = [key |-> k, value |-> v]
      BY <2>1
    <2>3. u.key = k /\ u.value = v
      BY <2>2
    <2>4. NoUpdate.key = Absent /\ k # Absent
      BY SettingsAssumption DEF NoUpdate
    <2> QED
      BY <2>3, <2>4, ValuesAre
  <1> QED
    BY <1>1, <1>2

-----------------------------------------------------------------------------
(* Steps that leave the store alone, and steps that queue an update. *)

LEMMA FrameKeeps ==
    ASSUME SettingsInv, RequestOK', boot # "up" => http'.kind = "idle",
           UNCHANGED <<flash, cache, saveQueue, saver, boot, accepted, atBoot, failed>>
    PROVE  SettingsInv'
  <1>1. Taken' = Taken /\ Finished' = Finished
    BY DEF Taken, Finished
  <1>2. Typed' /\ FlashTyped'
    BY DEF SettingsInv, Typed, FlashTyped
  <1>3. Order'
    BY <1>1 DEF SettingsInv, Order
  <1>4. CachePart' /\ FlashPart'
    BY <1>1 DEF SettingsInv, CachePart, FlashPart, Unset
  <1> QED
    BY <1>2, <1>3, <1>4 DEF SettingsInv

LEMMA SetKeeps ==
    ASSUME SettingsInv, boot = "up", NEW k \in Keys, NEW v \in ValuesOf(k), SetSetting(k, v),
           UNCHANGED <<flash, cache, saver, boot, atBoot, failed>>, RequestOK'
    PROVE  SettingsInv'
  <1> DEFINE u == [key |-> k, value |-> v]
  <1>1. CASE UNCHANGED <<saveQueue, accepted>>
    BY <1>1, FrameKeeps
  <1>2. CASE saveQueue' = Append(saveQueue, u) /\ accepted' = Append(accepted, u)
    <2>1. u \in Updates
      BY UpdateType
    <2> HIDE DEF u
    <2>2. /\ saveQueue \in Seq(Updates) /\ accepted \in Seq(Updates)
          /\ Len(saveQueue) \in Nat /\ Len(accepted) \in Nat /\ Len(saveQueue) <= Len(accepted)
      BY DEF SettingsInv, Typed, Order
    <2>3. /\ saveQueue' \in Seq(Updates) /\ Len(saveQueue') = Len(saveQueue) + 1
          /\ saveQueue'[Len(saveQueue) + 1] = u
          /\ \A i \in 1 .. Len(saveQueue) : saveQueue'[i] = saveQueue[i]
      BY <1>2, <2>1, <2>2, AppendProperties
    <2>4. /\ accepted' \in Seq(Updates) /\ Len(accepted') = Len(accepted) + 1
          /\ accepted'[Len(accepted) + 1] = u
          /\ \A i \in 1 .. Len(accepted) : accepted'[i] = accepted[i]
      BY <1>2, <2>1, <2>2, AppendProperties
    <2>5. /\ Taken' = Taken /\ Finished' = Finished /\ Taken \in 0 .. Len(accepted)
          /\ Taken + Len(saveQueue) = Len(accepted)
      BY <2>2, <2>3, <2>4 DEF Taken, Finished
    <2>6. Typed' /\ FlashTyped'
      BY <2>3, <2>4 DEF SettingsInv, Typed, FlashTyped
    <2>7. Order'
      <3>1. ASSUME NEW i \in 1 .. Len(saveQueue')
            PROVE  saveQueue'[i] = accepted'[Taken' + i]
        <4>1. CASE i = Len(saveQueue) + 1
          <5>1. Taken' + i = Len(accepted) + 1
            BY <2>2, <2>5, <4>1
          <5> QED
            BY <2>3, <2>4, <4>1, <5>1
        <4>2. CASE i # Len(saveQueue) + 1
          <5>1. i \in 1 .. Len(saveQueue) /\ Taken + i \in 1 .. Len(accepted)
            BY <2>2, <2>3, <2>5, <4>2
          <5>2. saveQueue[i] = accepted[Taken + i]
            BY <5>1 DEF SettingsInv, Order
          <5> QED
            BY <2>3, <2>4, <2>5, <5>1, <5>2
        <4> QED
          BY <4>1, <4>2
      <3>2. saver' # NoUpdate => Taken' >= 1 /\ saver' = accepted'[Taken']
        <4>1. saver # NoUpdate => Taken >= 1 /\ saver = accepted[Taken]
          BY DEF SettingsInv, Order
        <4>2. Taken >= 1 => Taken \in 1 .. Len(accepted)
          BY <2>5
        <4> QED
          BY <2>4, <2>5, <4>1, <4>2
      <3>3. Len(saveQueue') <= Len(accepted') /\ boot' = "up"
        BY <2>2, <2>3, <2>4
      <3> QED
        BY <3>1, <3>2, <3>3 DEF Order
    <2>8. ASSUME NEW n \in Nat, n <= Len(accepted)
          PROVE  ReplayOf(accepted', atBoot, n) = ReplayOf(accepted, atBoot, n)
      <3>1. \A i \in 1 .. n : accepted'[i] = accepted[i]
        BY <2>2, <2>4, <2>8
      <3> QED
        BY <3>1, ReplayPrefix
    <2>9. CachePart'
      BY <2>5, <2>8 DEF SettingsInv, CachePart
    <2>10. FlashPart'
      <3>1. Finished \in Nat /\ Finished <= Len(accepted)
        BY <2>2, <2>5 DEF SettingsInv, Order, Finished
      <3>2. ReplayOf(accepted', atBoot', Finished') = ReplayOf(accepted, atBoot, Finished)
        BY <2>5, <2>8, <3>1
      <3>3. \A j \in Keys : Unset(j, Finished) => Unset(j, Finished)'
        BY <2>2, <2>4, <2>5, <3>1 DEF Unset
      <3> QED
        BY <3>2, <3>3 DEF SettingsInv, FlashPart
    <2> QED
      BY <2>6, <2>7, <2>9, <2>10 DEF SettingsInv
  <1> QED
    BY <1>1, <1>2 DEF SetSetting

-----------------------------------------------------------------------------
(* nvs_task *)

LEMMA TakeKeeps ==
    ASSUME SettingsInv, TakeUpdate
    PROVE  SettingsInv'
  <1> DEFINE u == Head(saveQueue)
  <1>1. /\ boot = "up" /\ saver = NoUpdate /\ saveQueue # <<>>
        /\ saver' = u /\ saveQueue' = Tail(saveQueue)
        /\ cache' = [cache EXCEPT ![u.key] = u.value]
        /\ UNCHANGED <<flash, http, boot, accepted, atBoot, failed>>
    BY DEF TakeUpdate
  <1>2. /\ saveQueue \in Seq(Updates) /\ accepted \in Seq(Updates)
        /\ Len(saveQueue) \in Nat \ {0} /\ Len(accepted) \in Nat /\ Len(saveQueue) <= Len(accepted)
    BY <1>1, EmptySeq DEF SettingsInv, Typed, Order
  <1>3. /\ saveQueue' \in Seq(Updates) /\ Len(saveQueue') = Len(saveQueue) - 1
        /\ u = saveQueue[1] /\ u \in Updates
        /\ \A i \in 1 .. Len(saveQueue) - 1 : saveQueue'[i] = saveQueue[i + 1]
    BY <1>1, <1>2, HeadTailProperties
  <1> HIDE DEF u
  <1>4. u.key \in Keys /\ u.value \in ValuesOf(u.key) /\ u # NoUpdate /\ u.value \in AllValues
    BY <1>3, UpdateType
  <1>5. /\ Taken' = Taken + 1 /\ Taken \in Nat /\ Taken + 1 <= Len(accepted)
        /\ Finished = Taken /\ Finished' = Taken
    BY <1>1, <1>2, <1>3, <1>4 DEF Taken, Finished
  <1>6. u = accepted[Taken + 1]
    <2>1. 1 \in 1 .. Len(saveQueue)
      BY <1>2
    <2> QED
      BY <1>3, <2>1 DEF SettingsInv, Order
  <1>7. Typed' /\ FlashTyped'
    BY <1>1, <1>3, <1>4 DEF SettingsInv, Typed, FlashTyped
  <1>8. Order'
    <2>1. ASSUME NEW i \in 1 .. Len(saveQueue')
          PROVE  saveQueue'[i] = accepted'[Taken' + i]
      <3>1. /\ i \in 1 .. Len(saveQueue) - 1 /\ i + 1 \in 1 .. Len(saveQueue)
            /\ Taken' + i = Taken + (i + 1)
        BY <1>2, <1>3, <1>5
      <3> QED
        BY <1>1, <1>3, <3>1 DEF SettingsInv, Order
    <2> QED
      BY <1>1, <1>2, <1>3, <1>5, <1>6, <2>1 DEF Order
  <1>9. CachePart'
    <2>1. cache = ReplayOf(accepted, atBoot, Taken)
      BY <1>1 DEF SettingsInv, CachePart
    <2>2. \A k \in Keys : cache'[k] = ReplayOf(accepted, atBoot, Taken + 1)[k]
      BY <1>1, <1>4, <1>5, <1>6, <2>1, ReplayStep DEF SettingsInv, Typed
    <2>3. cache' \in [Keys -> AllValues]
      BY <1>7 DEF Typed
    <2>4. cache' = ReplayOf(accepted, atBoot, Taken + 1)
      BY <2>2, <2>3 DEF ReplayOf
    <2> QED
      BY <1>1, <1>5, <2>4 DEF CachePart
  <1>10. FlashPart'
    BY <1>1, <1>5 DEF SettingsInv, FlashPart, Unset
  <1>11. RequestOK'
    BY <1>1 DEF SettingsInv, RequestOK
  <1> QED
    BY <1>7, <1>8, <1>9, <1>10, <1>11 DEF SettingsInv

LEMMA WriteKeeps ==
    ASSUME SettingsInv, WriteFlash
    PROVE  SettingsInv'
  <1>1. /\ boot = "up" /\ saver # NoUpdate /\ saver' = NoUpdate
        /\ UNCHANGED <<cache, saveQueue, http, boot, accepted, atBoot>>
    BY DEF WriteFlash
  <1>2. saver \in Updates /\ saver.key \in Keys /\ saver.value \in ValuesOf(saver.key)
        /\ saver.value \in AllValues
    BY <1>1, UpdateType DEF SettingsInv, Typed
  <1>3. /\ Taken' = Taken /\ Finished' = Taken /\ Finished = Taken - 1 /\ Finished \in Nat
        /\ saver = accepted[Taken]
    BY <1>1 DEF SettingsInv, Order, Typed, Taken, Finished
  <1> DEFINE written == [flash EXCEPT ![saver.key] = saver.value]
  <1>4. \/ flash' = ApplyFallback(written, saver) /\ failed' = failed
        \/ flash' = ApplyFallback(flash, saver) /\ failed' # {}
    BY DEF WriteFlash
  <1>5. ASSUME NEW f \in {flash, written}, flash' = ApplyFallback(f, saver)
        PROVE  FlashTyped' /\ \A k \in Keys : flash'[k] = f[k]
    <2>1. /\ f \in [Keys \cup LegacyKeys -> AllValues \cup {Absent}]
          /\ \A k \in Keys : f[k] \in ValuesOf(k) \cup {Absent}
          /\ f["stratumurl"] \in StoredPools \cup {Absent}
          /\ f["fbstratumurl"] \in StoredPools \cup {Absent}
          /\ f["asicfrequency"] \in Frequencies \cup {Absent}
      BY <1>2, KeysDiffer DEF SettingsInv, FlashTyped, LegacyKeys
    <2> HIDE DEF written
    <2>2. CASE saver.key = "freq"
      <3>1. flash' = [f EXCEPT !["asicfrequency"] = saver.value]
        BY <1>5, <2>2 DEF ApplyFallback
      <3>2. saver.value \in Frequencies
        BY <1>2, <2>2, ValuesAre
      <3> QED
        BY <1>2, <2>1, <3>1, <3>2, KeysDiffer DEF FlashTyped, LegacyKeys
    <2>3. CASE saver.key # "freq"
      <3>1. flash' = f
        BY <1>5, <2>3 DEF ApplyFallback
      <3> QED
        BY <2>1, <3>1 DEF FlashTyped
    <2> QED
      BY <2>2, <2>3
  <1>6. FlashTyped'
    BY <1>4, <1>5
  <1>7. FlashPart'
    <2> SUFFICES ASSUME failed' = {}, NEW k \in Keys
                 PROVE  \/ flash'[k] = Absent /\ Unset(k, Taken)
                        \/ flash'[k] = ReplayOf(accepted, atBoot, Taken)[k]
      BY <1>1, <1>3 DEF FlashPart, Unset
    <2>1. failed = {} /\ flash' = ApplyFallback(written, saver)
      BY <1>4
    <2>2. flash'[k] = written[k]
      BY <1>5, <2>1
    <2>3. \/ flash[k] = Absent /\ Unset(k, Finished)
          \/ flash[k] = ReplayOf(accepted, atBoot, Finished)[k]
      BY <1>1, <2>1 DEF SettingsInv, FlashPart
    <2>4. /\ ReplayOf(accepted, atBoot, Finished + 1)[k]
               = IF saver.key = k THEN saver.value ELSE ReplayOf(accepted, atBoot, Finished)[k]
          /\ saver.key # k /\ Unset(k, Finished) => Unset(k, Finished + 1)
      <3>1. accepted[Finished + 1] = saver
        BY <1>3 DEF SettingsInv, Order, Typed, Taken
      <3>2. saver.key # k /\ Unset(k, Finished) => Unset(k, Finished + 1)
        BY <1>3, <3>1 DEF Unset
      <3> QED
        BY <1>3, <3>1, <3>2, ReplayStep
    <2>5. written[k] = IF saver.key = k THEN saver.value ELSE flash[k]
      BY <1>2 DEF SettingsInv, FlashTyped
    <2>6. Finished + 1 = Taken
      BY <1>3 DEF SettingsInv, Typed, Taken
    <2> HIDE DEF written
    <2> QED
      BY <2>2, <2>3, <2>4, <2>5, <2>6
  <1>8. Typed' /\ RequestOK'
    BY <1>1 DEF SettingsInv, Typed, RequestOK
  <1>9. Order' /\ CachePart'
    BY <1>1, <1>3 DEF SettingsInv, Order, CachePart
  <1> QED
    BY <1>6, <1>7, <1>8, <1>9 DEF SettingsInv

-----------------------------------------------------------------------------
(* Boot and restart *)

LEMMA NothingKept ==
    NoSettings \in [Keys -> AllValues] /\ \A k \in Keys : NoSettings[k] \in ValuesOf(k)
  BY ValuesAre DEF NoSettings

LEMMA RestartKeeps ==
    ASSUME SettingsInv, Restarted
    PROVE  SettingsInv'
  <1>1. /\ boot' = "pool1" /\ cache' = NoSettings /\ saveQueue' = <<>> /\ saver' = NoUpdate
        /\ http' = Idle /\ accepted' = <<>> /\ atBoot' = NoSettings /\ flash' = flash
    BY DEF Restarted
  <1>2. http'.kind = "idle"
    BY <1>1 DEF Idle
  <1>3. Typed'
    BY <1>1, NothingKept DEF Typed
  <1>4. FlashTyped' /\ RequestOK'
    BY <1>1, <1>2 DEF SettingsInv, FlashTyped, RequestOK
  <1>5. Order'
    BY <1>1, <1>2 DEF Order
  <1>6. CachePart' /\ FlashPart'
    BY <1>1 DEF CachePart, FlashPart
  <1> QED
    BY <1>3, <1>4, <1>5, <1>6 DEF SettingsInv

LEMMA BootKeeps ==
    ASSUME SettingsInv, boot # "up", boot' # "up", FlashTyped', BootFrame
    PROVE  SettingsInv'
  <1>1. UNCHANGED <<cache, saveQueue, saver, http, accepted, atBoot>>
    BY DEF BootFrame
  <1>2. Taken' = Taken
    BY <1>1 DEF Taken
  <1>3. Typed' /\ RequestOK'
    BY <1>1 DEF SettingsInv, Typed, RequestOK
  <1>4. Order'
    BY <1>1, <1>2 DEF SettingsInv, Order
  <1> QED
    BY <1>3, <1>4 DEF SettingsInv, CachePart, FlashPart

\* A write of a typed value to a key of the settings.
LEMMA FlashWrite ==
    ASSUME FlashTyped, NEW k \in Keys, NEW v \in ValuesOf(k), flash' = [flash EXCEPT ![k] = v]
    PROVE  FlashTyped'
  BY ValuesAre, KeysDiffer DEF FlashTyped, LegacyKeys

LEMMA LegacyPools ==
    ASSUME FlashTyped, NEW k \in {"stratumurl", "fbstratumurl"}
    PROVE  ReadLegacy(k) \in StoredPools
  <1>1. BuiltIn \in StoredPools
    BY SettingsAssumption DEF BuiltIn, Pool, StoredPools
  <1> QED
    BY <1>1 DEF ReadLegacy, FlashTyped

LEMMA MigrationKeeps ==
    ASSUME SettingsInv, MigrateFirst \/ MigrateSecond \/ MigrateSelectors \/ InitFallback
    PROVE  SettingsInv'
  <1>1. boot # "up" /\ boot' # "up" /\ BootFrame
    BY DEF MigrateFirst, MigrateSecond, MigrateSelectors, InitFallback, BootStep
  <1>2. FlashTyped
    BY DEF SettingsInv
  <1>3. CASE UNCHANGED flash
    BY <1>1, <1>2, <1>3, BootKeeps DEF FlashTyped
  <1>4. CASE flash' = [flash EXCEPT !["pool_1"] = ReadLegacy("stratumurl")]
    <2>1. ReadLegacy("stratumurl") \in ValuesOf("pool_1") /\ "pool_1" \in Keys
      BY <1>2, LegacyPools, ValuesAre, KeysDiffer, SettingsAssumption
    <2> QED
      BY <1>1, <1>2, <1>4, <2>1, FlashWrite, BootKeeps
  <1>5. CASE flash' = [flash EXCEPT !["pool_2"] = ReadLegacy("fbstratumurl")]
    <2>1. ReadLegacy("fbstratumurl") \in ValuesOf("pool_2") /\ "pool_2" \in Keys
      BY <1>2, LegacyPools, ValuesAre, KeysDiffer, SettingsAssumption
    <2> QED
      BY <1>1, <1>2, <1>5, <2>1, FlashWrite, BootKeeps
  <1>6. CASE flash' = [flash EXCEPT !["prim"] = "pool_1", !["sec"] = "pool_2"]
    <2>1. "pool_1" \in ValuesOf("prim") /\ "pool_2" \in ValuesOf("sec")
      BY ValuesAre, SettingsAssumption
    <2>2. FlashTyped'
      BY <1>2, <1>6, <2>1, ValuesAre, KeysDiffer DEF FlashTyped, LegacyKeys
    <2> QED
      BY <1>1, <2>2, BootKeeps
  <1>7. CASE flash["asicfrequency"] # Absent /\ flash' = [flash EXCEPT !["freq"] = flash["asicfrequency"]]
    <2>1. flash["asicfrequency"] \in ValuesOf("freq")
      BY <1>2, <1>7, ValuesAre DEF FlashTyped
    <2> QED
      BY <1>1, <1>2, <1>7, <2>1, KeysDiffer, FlashWrite, BootKeeps
  <1> QED
    BY <1>3, <1>4, <1>5, <1>6, <1>7 DEF MigrateFirst, MigrateSecond, MigrateSelectors, InitFallback

LEMMA LoadKeeps ==
    ASSUME SettingsInv, Load
    PROVE  SettingsInv'
  <1> DEFINE loaded == [k \in Keys |-> IF flash[k] = Absent THEN Default(k) ELSE flash[k]]
  <1>1. /\ boot # "up" /\ boot' = "up" /\ cache' = loaded /\ atBoot' = loaded
        /\ UNCHANGED <<flash, saveQueue, saver, http, accepted, failed>>
    BY DEF Load, BootStep
  <1>2. accepted = <<>> /\ saveQueue = <<>> /\ saver = NoUpdate
    BY <1>1 DEF SettingsInv, Order
  <1>3. /\ \A k \in Keys : loaded[k] \in ValuesOf(k) /\ loaded[k] \in AllValues
        /\ \A k \in Keys : flash[k] = Absent \/ flash[k] = loaded[k]
        /\ loaded \in [Keys -> AllValues]
    BY ValuesAre DEF SettingsInv, FlashTyped
  <1> HIDE DEF loaded
  <1>4. Taken' = 0 /\ Finished' = 0
    BY <1>1, <1>2 DEF Taken, Finished
  <1>5. ReplayOf(accepted', loaded, 0) = loaded
    BY <1>3, ReplayNone
  <1>6. CachePart' /\ FlashPart'
    BY <1>1, <1>3, <1>4, <1>5 DEF CachePart, FlashPart, Unset
  <1>7. Typed'
    BY <1>1, <1>3 DEF SettingsInv, Typed
  <1>8. FlashTyped' /\ RequestOK'
    BY <1>1 DEF SettingsInv, FlashTyped, RequestOK
  <1>9. Order'
    BY <1>1, <1>2, <1>4 DEF SettingsInv, Order
  <1> QED
    BY <1>6, <1>7, <1>8, <1>9 DEF SettingsInv

-----------------------------------------------------------------------------
(* The handlers *)

LEMMA BodiesWanted == \A body \in Bodies : body \in Seq(Wanted) /\ body # <<>>
  <1>1. ASSUME NEW k \in Keys \ Slots, NEW v \in ValuesOf(k)
        PROVE  [key |-> k, value |-> v] \in Wanted
    BY ValuesAre DEF Wanted
  <1>2. \A f \in Frequencies : [key |-> "freq", value |-> f] \in Wanted
    BY <1>1, ValuesAre, KeysDiffer
  <1>3. \A b \in BOOLEAN : [key |-> "oc", value |-> b] \in Wanted
    BY <1>1, ValuesAre, KeysDiffer
  <1>4. \A t \in Slots : [key |-> "prim", value |-> t] \in Wanted
    BY <1>1, ValuesAre, KeysDiffer
  <1>5. 3 \in Frequencies
    BY DEF Frequencies
  <1>6. ASSUME NEW d \in Wanted, NEW e \in Wanted
        PROVE  /\ <<d>> \in Seq(Wanted) /\ <<d>> # <<>>
               /\ <<d, e>> \in Seq(Wanted) /\ <<d, e>> # <<>>
    OBVIOUS
  <1> SUFFICES ASSUME NEW body \in Bodies
               PROVE  body \in Seq(Wanted) /\ body # <<>>
    OBVIOUS
  <1>7. CASE \E f \in Frequencies : body = <<[key |-> "freq", value |-> f]>>
    BY <1>2, <1>6, <1>7
  <1>8. CASE \E b \in BOOLEAN : body = <<[key |-> "freq", value |-> 3], [key |-> "oc", value |-> b]>>
    BY <1>2, <1>3, <1>5, <1>6, <1>8
  <1>9. CASE \E b \in BOOLEAN : body = <<[key |-> "oc", value |-> b]>>
    BY <1>3, <1>6, <1>9
  <1>10. CASE \E t \in Slots : body = <<[key |-> "prim", value |-> t]>>
    BY <1>4, <1>6, <1>10
  <1> QED
    BY <1>7, <1>8, <1>9, <1>10 DEF Bodies

LEMMA BeginKeeps ==
    ASSUME SettingsInv, PATCH_update_settings \/ PUT_system_pool \/ DELETE_system_pool \/ POST_restart
    PROVE  SettingsInv'
  <1>1. UNCHANGED <<flash, cache, saveQueue, saver, boot, accepted, atBoot, failed>>
    BY DEF PATCH_update_settings, PUT_system_pool, DELETE_system_pool, POST_restart, PoolFrame,
           HttpFrame, nvsVars, Begin
  <1>2. boot = "up"
    BY DEF PATCH_update_settings, PUT_system_pool, DELETE_system_pool, POST_restart, Begin
  <1>3. CASE http'.kind # "set"
    BY <1>1, <1>2, <1>3, FrameKeeps DEF RequestOK
  <1>4. CASE \E todo \in Seq(Wanted) : todo # <<>> /\ http' = [kind |-> "set", todo |-> todo]
    <2>1. PICK todo \in Seq(Wanted) : todo # <<>> /\ http' = [kind |-> "set", todo |-> todo]
      BY <1>4
    <2>2. RequestOK'
      BY <2>1 DEF RequestOK
    <2> QED
      BY <1>1, <1>2, <2>2, FrameKeeps
  <1>5. Idle.kind # "set" /\ [kind |-> "restart"].kind # "set"
    BY DEF Idle
  <1>6. CASE PATCH_update_settings
    BY <1>3, <1>4, <1>5, <1>6, BodiesWanted DEF PATCH_update_settings, Begin
  <1>7. ASSUME NEW t \in Slots, NEW p \in PoolValues
        PROVE  <<[key |-> t, value |-> p]>> \in Seq(Wanted)
               /\ <<[key |-> t, value |-> p]>> # <<>>
    <2>1. [key |-> t, value |-> p] \in Wanted
      BY DEF Wanted, Keys
    <2> QED
      BY <2>1
  <1>8. CASE PUT_system_pool
    <2>1. PICK t \in Slots, p \in PoolBodies :
             http' = IF ValidPool(p) THEN [kind |-> "set", todo |-> <<[key |-> t, value |-> p]>>]
                     ELSE Idle
      BY <1>8 DEF PUT_system_pool, Begin
    <2>2. ValidPool(p) => p \in PoolValues
      BY DEF PoolValues
    <2> QED
      BY <1>3, <1>4, <1>5, <1>7, <2>1, <2>2
  <1>9. CASE DELETE_system_pool
    <2>1. PICK t \in Slots : http' = [kind |-> "set", todo |-> <<[key |-> t, value |-> Empty]>>]
      BY <1>9 DEF DELETE_system_pool, Begin
    <2>2. Empty \in PoolValues
      BY DEF PoolValues
    <2> QED
      BY <1>4, <1>7, <2>1, <2>2
  <1>10. CASE POST_restart
    BY <1>3, <1>5, <1>10 DEF POST_restart, Begin
  <1> QED
    BY <1>6, <1>8, <1>9, <1>10

LEMMA NextWanted ==
    ASSUME SettingsInv, http.kind = "set"
    PROVE  /\ boot = "up" /\ Head(http.todo) \in Wanted /\ Head(http.todo).key \in Keys
           /\ Head(http.todo).value \in IF Head(http.todo).key \in Slots THEN PoolValues
                                        ELSE ValuesOf(Head(http.todo).key)
           /\ Len(http.todo) # 1 =>
                 [http EXCEPT !.todo = Tail(@)] \in [kind : {"set"}, todo : Seq(Wanted)]
                 /\ [http EXCEPT !.todo = Tail(@)].todo # <<>>
  <1>1. boot = "up"
    BY DEF SettingsInv, Order
  <1>2. http \in [kind : {"set"}, todo : Seq(Wanted)] /\ http.todo # <<>>
    BY DEF SettingsInv, RequestOK
  <1> DEFINE todo == http.todo
  <1>3. todo \in Seq(Wanted) /\ Len(todo) \in Nat \ {0}
    BY <1>2, EmptySeq
  <1>4. Head(todo) \in Wanted /\ Tail(todo) \in Seq(Wanted) /\ Len(Tail(todo)) = Len(todo) - 1
    BY <1>3, HeadTailProperties
  <1>5. Head(todo).key \in Keys
        /\ Head(todo).value \in IF Head(todo).key \in Slots THEN PoolValues
                                ELSE ValuesOf(Head(todo).key)
    BY <1>4 DEF Wanted
  <1>6. Len(todo) # 1 => Tail(todo) # <<>>
    <2>1. Len(todo) # 1 => Len(Tail(todo)) # 0
      BY <1>3, <1>4
    <2> HIDE DEF todo
    <2> QED
      BY <2>1, EmptySeq
  <1>7. [http EXCEPT !.todo = Tail(@)] \in [kind : {"set"}, todo : Seq(Wanted)]
        /\ [http EXCEPT !.todo = Tail(@)].todo = Tail(todo)
    BY <1>2, <1>4
  <1> QED
    BY <1>1, <1>4, <1>5, <1>6, <1>7

LEMMA SetNextKeeps ==
    ASSUME SettingsInv, SetNext
    PROVE  SettingsInv'
  <1>1. /\ http.kind = "set" /\ Head(http.todo).key \notin Slots
        /\ SetSetting(Head(http.todo).key, Head(http.todo).value)
        /\ http' = IF Len(http.todo) = 1 THEN Idle ELSE [http EXCEPT !.todo = Tail(@)]
        /\ UNCHANGED <<flash, cache, saver, boot, atBoot, failed>>
    BY DEF SetNext, nvsVars
  <1>2. RequestOK'
    BY <1>1, NextWanted DEF RequestOK, Idle
  <1> QED
    BY <1>1, <1>2, NextWanted, SetKeeps

LEMMA PoolKeeps ==
    ASSUME SettingsInv, update_pool_nvs
    PROVE  SettingsInv'
  <1> DEFINE k == Head(http.todo).key
             new == Head(http.todo).value
             old == cache[k]
             kept == IF old = Empty THEN DefaultPassword ELSE old.pass
             v == IF new = Empty THEN Empty
                  ELSE Pool(new.url, IF new.pass = Placeholder THEN kept ELSE new.pass)
  <1>1. /\ http.kind = "set" /\ k \in Slots /\ SetSetting(k, v)
        /\ http'.kind = "reload" /\ UNCHANGED <<flash, cache, saver, boot, atBoot, failed>>
    BY DEF update_pool_nvs, nvsVars, nvs_config_get
  <1>2. new \in PoolValues /\ k \in Keys /\ boot = "up"
    BY <1>1, NextWanted
  <1>3. old \in StoredPools
    BY <1>1, <1>2, ValuesAre DEF SettingsInv, Typed
  <1>4. kept \in Passwords \cup {DefaultPassword}
    BY <1>3 DEF StoredPools
  <1>5. v \in StoredPools
    <2>1. CASE new = Empty
      BY <2>1 DEF StoredPools
    <2>2. CASE new # Empty
      <3>1. new.url \in Urls /\ new.pass \in Passwords \cup {Placeholder}
        BY <1>2, <2>2 DEF PoolValues, PoolBodies, ValidPool
      <3> HIDE DEF kept, new
      <3> QED
        BY <1>4, <2>2, <3>1 DEF Pool, StoredPools
    <2> QED
      BY <2>1, <2>2
  <1>6. v \in ValuesOf(k)
    BY <1>1, <1>5, ValuesAre
  <1>7. RequestOK'
    BY <1>1 DEF RequestOK
  <1> HIDE DEF v, k
  <1> QED
    BY <1>1, <1>2, <1>6, <1>7, SetKeeps

LEMMA ClampKeeps ==
    ASSUME SettingsInv, ClampFrequency
    PROVE  SettingsInv'
  <1> DEFINE freq == cache["freq"]
             clamped == IF freq \in tuning_frequency_range(cache["oc"]) THEN freq ELSE 2
  <1>1. /\ boot = "up" /\ SetSetting("freq", clamped)
        /\ UNCHANGED <<flash, cache, saver, boot, atBoot, failed, http>>
    BY DEF ClampFrequency, nvsVars, nvs_config_get
  <1>2. freq \in Frequencies
    BY ValuesAre, KeysDiffer DEF SettingsInv, Typed
  <1>3. clamped \in ValuesOf("freq")
    BY <1>2, ValuesAre DEF Frequencies
  <1>4. RequestOK'
    BY <1>1 DEF SettingsInv, RequestOK
  <1> HIDE DEF clamped
  <1> QED
    BY <1>1, <1>3, <1>4, KeysDiffer, SetKeeps

-----------------------------------------------------------------------------
(* The theorems *)

LEMMA InitSettings == Init => SettingsInv
  <1> SUFFICES ASSUME Init PROVE SettingsInv
    OBVIOUS
  <1>1. /\ cache = NoSettings /\ atBoot = NoSettings /\ saveQueue = <<>> /\ accepted = <<>>
        /\ saver = NoUpdate /\ http = Idle /\ boot = "pool1"
    BY DEF Init
  <1>2. Typed /\ RequestOK
    BY <1>1, NothingKept DEF Typed, RequestOK, Idle
  <1>3. FlashTyped
    <2>1. PICK u \in Urls, legacy \in BOOLEAN :
             flash = [k \in Keys \cup LegacyKeys |->
                     CASE k = "stratumurl" /\ legacy -> Pool(u, DefaultPassword)
                       [] k = "fbstratumurl" /\ legacy -> Pool(u, DefaultPassword)
                       [] k = "asicfrequency" /\ legacy -> 2
                       [] k = "pool_1" /\ ~legacy -> Pool(u, DefaultPassword)
                       [] OTHER -> Absent]
      BY DEF Init
    <2>2. Pool(u, DefaultPassword) \in StoredPools /\ 2 \in Frequencies
      BY DEF Pool, StoredPools, Frequencies
    <2>3. StoredPools \subseteq AllValues /\ Frequencies \subseteq AllValues
      BY ValuesAre, KeysDiffer, SettingsAssumption
    <2>4. \A k \in Keys \cup LegacyKeys :
             \/ flash[k] = Absent
             \/ k \in {"stratumurl", "fbstratumurl", "pool_1"} /\ flash[k] = Pool(u, DefaultPassword)
             \/ k = "asicfrequency" /\ flash[k] = 2
      BY <2>1
    <2>5. DOMAIN flash = Keys \cup LegacyKeys /\ flash = [k \in Keys \cup LegacyKeys |-> flash[k]]
      BY <2>1
    <2>6. \A k \in Keys : flash[k] \in ValuesOf(k) \cup {Absent}
      BY <2>2, <2>4, KeysDiffer, ValuesAre, SettingsAssumption
    <2>7. \A k \in Keys \cup LegacyKeys : flash[k] \in AllValues \cup {Absent}
      BY <2>2, <2>3, <2>4
    <2>8. flash \in [Keys \cup LegacyKeys -> AllValues \cup {Absent}]
      BY <2>5, <2>7
    <2> QED
      BY <2>2, <2>4, <2>6, <2>8 DEF FlashTyped, LegacyKeys
  <1>4. Order
    BY <1>1 DEF Order, Idle
  <1> QED
    BY <1>1, <1>2, <1>3, <1>4 DEF SettingsInv, CachePart, FlashPart

LEMMA NextSettings ==
    ASSUME SettingsInv, [Next]_vars
    PROVE  SettingsInv'
  <1>1. CASE MigrateFirst \/ MigrateSecond \/ MigrateSelectors \/ InitFallback
    BY <1>1, MigrationKeeps
  <1>2. CASE Load
    BY <1>2, LoadKeeps
  <1>3. CASE TakeUpdate
    BY <1>3, TakeKeeps
  <1>4. CASE WriteFlash
    BY <1>4, WriteKeeps
  <1>5. CASE Crash \/ RestartDelayEnds
    BY <1>5, RestartKeeps DEF Crash, RestartDelayEnds
  <1>6. CASE ClampFrequency
    BY <1>6, ClampKeeps
  <1>7. CASE PATCH_update_settings \/ PUT_system_pool \/ DELETE_system_pool \/ POST_restart
    BY <1>7, BeginKeeps
  <1>8. CASE SetNext
    BY <1>8, SetNextKeeps
  <1>9. CASE update_pool_nvs
    BY <1>9, PoolKeeps
  <1>10. CASE Reload
    <2>1. /\ http' = Idle
          /\ UNCHANGED <<flash, cache, saveQueue, saver, boot, accepted, atBoot, failed>>
      BY <1>10 DEF Reload, nvsVars
    <2> QED
      BY <2>1, FrameKeeps DEF RequestOK, Idle
  <1>11. CASE UNCHANGED vars
    <2>1. UNCHANGED <<flash, cache, saveQueue, saver, boot, accepted, atBoot, failed, http>>
      BY <1>11 DEF vars
    <2> QED
      BY <2>1, FrameKeeps DEF SettingsInv, RequestOK, Order
  <1> QED
    BY <1>1, <1>2, <1>3, <1>4, <1>5, <1>6, <1>7, <1>8, <1>9, <1>10, <1>11 DEF Next

(* nvs_config.c, for every number of pool slots, every queue length and any    *)
(* number of crashes: what the getters read is the settings of the boot after  *)
(* a prefix of the accepted updates, and nvs_save_queue holds the others.      *)
THEOREM CacheHoldsPrefix == Spec => []CacheIsPrefix
  <1>1. SettingsInv => CacheIsPrefix
    <2> SUFFICES ASSUME SettingsInv, boot = "up"
                 PROVE  /\ saveQueue = SubSeq(accepted, Taken + 1, Len(accepted))
                        /\ cache = Replay(atBoot, Taken)
      BY DEF CacheIsPrefix, Taken
    <2>1. /\ saveQueue \in Seq(Updates) /\ accepted \in Seq(Updates)
          /\ Len(saveQueue) \in Nat /\ Len(accepted) \in Nat /\ Len(saveQueue) <= Len(accepted)
          /\ Taken + Len(saveQueue) = Len(accepted) /\ Taken \in Nat
      BY DEF SettingsInv, Typed, Order, Taken
    <2>2. \A i \in 1 .. Len(saveQueue) : saveQueue[i] = accepted[Taken + i]
      BY DEF SettingsInv, Order
    <2>3. saveQueue = [i \in 1 .. Len(saveQueue) |-> saveQueue[i]]
      BY <2>1
    <2>4. SubSeq(accepted, Taken + 1, Len(accepted))
            = [i \in 1 .. Len(saveQueue) |-> accepted[Taken + i]]
      <3>1. SubSeq(accepted, Taken + 1, Len(accepted))
              = [i \in 1 .. Len(accepted) - (Taken + 1) + 1 |-> accepted[i + (Taken + 1) - 1]]
        BY <2>1
      <3>2. Len(accepted) - (Taken + 1) + 1 = Len(saveQueue)
        BY <2>1
      <3>3. \A i \in 1 .. Len(saveQueue) : i + (Taken + 1) - 1 = Taken + i
        BY <2>1
      <3> QED
        BY <3>1, <3>2, <3>3
    <2>5. saveQueue = SubSeq(accepted, Taken + 1, Len(accepted))
      BY <2>2, <2>3, <2>4
    <2> QED
      BY <2>5, ReplayIs DEF SettingsInv, CachePart
  <1> QED
    BY <1>1, InitSettings, NextSettings, PTL DEF Spec

(* nvs_task writes the updates in the order in which they were accepted, so    *)
(* whenever power is lost flash holds a prefix of them, unless a write failed. *)
THEOREM FlashHoldsPrefix == Spec => []FlashIsPrefix
  <1>1. SettingsInv => FlashIsPrefix
    BY ReplayIs DEF SettingsInv, FlashPart, FlashIsPrefix, Unset, Finished, Taken
  <1> QED
    BY <1>1, InitSettings, NextSettings, PTL DEF Spec
=============================================================================
