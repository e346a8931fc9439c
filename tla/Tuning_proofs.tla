---------------------------- MODULE Tuning_proofs ----------------------------
(***************************************************************************)
(* Proofs about what tunes, tests and feeds the chip, and about what is    *)
(* recorded of its work: Autotune, SelfTest, Regulator and Records.  They  *)
(* share no state.  What a proof needs of the constants is a hypothesis of *)
(* its theorem.                                                            *)
(***************************************************************************)
EXTENDS Autotune, SelfTest, Regulator, Records, TLAPS, FiniteSetTheorems, SequenceTheorems,
        WellFoundedInduction

(* A set of numbers has a least one.                                           *)
LEMMA LeastOf ==
    ASSUME NEW S \in SUBSET Nat, S # {}
    PROVE  \E m \in S : \A q \in S : m <= q
  <1>1. PICK m \in S : \A y \in S : ~(<<y, m>> \in OpToRel(<, Nat))
    BY NatLessThanWellFounded, WFMin
  <1>2. \A y \in S : ~(y < m)
    BY <1>1 DEF OpToRel
  <1> QED
    BY <1>2

-----------------------------------------------------------------------------
(* Autotune.  The times and counts of autotune_task.c, and the table of the    *)
(* chip: a warm-up is no shorter than a cooldown, the presets ascend, and the  *)
(* user types numbers.                                                         *)

TunerConstants ==
    /\ Warmup \in Nat /\ Interval \in Nat /\ Cooldown \in Nat /\ Window \in Nat
    /\ Cooldown <= Warmup
    /\ Presets \in Seq(Nat) /\ Presets # <<>>
    /\ \A i, j \in DOMAIN Presets : i < j => Presets[i] < Presets[j]
    /\ UserValues \subseteq Nat

Age == 0 .. Longest
AtLeast(age, time) == age >= time \/ age = Longest

(* The ages of the task bound the ages of the history from below, so what the  *)
(* task waits for has really passed.                                           *)
TunerInv ==
    /\ tuner \in {"warmup", "climbing", "backoff"}
    /\ entered \in Age /\ climbed \in Age
    /\ sinceUp \in Age /\ sinceDown \in Age /\ sinceOn \in Age
    /\ stable \in 0 .. Window /\ streak \in 0 .. Window /\ stable <= streak
    /\ tuner # "climbing" => stable = 0
    /\ climbed <= sinceUp
    /\ tuner # "climbing" => entered <= sinceDown
    /\ tuner = "climbing" => AtLeast(sinceDown, climbed + Cooldown)
    /\ tuner = "warmup" => entered <= sinceOn
    /\ tuner # "warmup" => AtLeast(sinceOn, climbed + Warmup)
    /\ rash = FALSE

(* A step down is stored, or on its way: what autotune will resume from is     *)
(* below what it stepped down from.                                            *)
Queues == {<<>>, <<"frequency">>, <<"tuned">>, <<"frequency", "tuned">>, <<"tuned", "frequency">>}
TunedQueued == queued \in {<<"tuned">>, <<"frequency", "tuned">>, <<"tuned", "frequency">>}

Remembered ==
    /\ frequency \in Nat /\ tuned \in Nat /\ target \in Nat /\ unstable \in Nat
    /\ queued \in Queues
    /\ unstable > 0 /\ TunedQueued => target < unstable
    /\ unstable > 0 /\ ~TunedQueued => tuned < unstable

LEMMA OlderIs ==
    ASSUME TunerConstants, NEW a \in Age
    PROVE  /\ Older(a) \in Age /\ Longest \in Nat /\ a <= Older(a)
           /\ Older(a) = a + 1 \/ (a = Longest /\ Older(a) = a)
  BY DEF TunerConstants, Age, Longest, Older

(* A set of positions has a last one: the distances from n have a minimum.     *)
LEMMA HasLast ==
    ASSUME NEW n \in Nat, NEW S \in SUBSET (1 .. n), S # {}
    PROVE  \E i \in S : \A j \in S : j <= i
  <1> DEFINE T == {m \in 0 .. n : n - m \in S}
  <1>1. T \subseteq Nat /\ T # {}
    <2>1. PICK i \in S : i \in 1 .. n
      OBVIOUS
    <2>2. n - i \in 0 .. n /\ n - (n - i) = i
      BY <2>1
    <2>3. n - i \in T
      BY <2>1, <2>2
    <2>4. T \subseteq Nat
      OBVIOUS
    <2> HIDE DEF T
    <2> QED
      BY <2>3, <2>4
  <1>2. PICK m \in T : \A y \in T : ~(<<y, m>> \in OpToRel(<, Nat))
    BY <1>1, NatLessThanWellFounded, WFMin
  <1>3. \A y \in T : ~(y < m)
    BY <1>1, <1>2 DEF OpToRel
  <1>4. \A j \in S : j <= n - m
    <2> SUFFICES ASSUME NEW j \in S PROVE j <= n - m
      OBVIOUS
    <2>1. j \in 1 .. n
      OBVIOUS
    <2>2. n - j \in 0 .. n /\ n - (n - j) = j
      BY <2>1
    <2>3. n - j \in T /\ m \in 0 .. n
      BY <2>2
    <2> QED
      BY <1>3, <2>1, <2>2, <2>3
  <1>5. n - m \in S
    OBVIOUS
  <1> QED
    BY <1>4, <1>5

LEMMA PresetsAre ==
    ASSUME TunerConstants
    PROVE  /\ Len(Presets) \in Nat \ {0} /\ DOMAIN Presets = 1 .. Len(Presets)
           /\ \A i \in DOMAIN Presets : Presets[i] \in Nat
           /\ Ceiling \in Nat
  <1>1. /\ Len(Presets) \in Nat \ {0} /\ DOMAIN Presets = 1 .. Len(Presets)
        /\ \A i \in DOMAIN Presets : Presets[i] \in Nat
    BY DEF TunerConstants
  <1>2. Len(Presets) \in DOMAIN Presets
    BY <1>1
  <1> QED
    BY <1>1, <1>2 DEF Ceiling

(* find_frequency_floor_index *)
LEMMA FloorIs ==
    ASSUME TunerConstants, NEW f
    PROVE  /\ Floor(f) \in 0 .. Len(Presets)
           /\ Floor(f) # 0 => Presets[Floor(f)] <= f
  <1> DEFINE below == {i \in DOMAIN Presets : Presets[i] <= f}
  <1>1. Len(Presets) \in Nat /\ below \in SUBSET (1 .. Len(Presets))
    BY PresetsAre
  <1>2. CASE below = {}
    BY <1>1, <1>2 DEF Floor
  <1>3. CASE below # {}
    <2>1. Floor(f) = CHOOSE i \in below : \A j \in below : j <= i
      BY <1>3 DEF Floor
    <2>2. \A i \in below : Presets[i] <= f
      OBVIOUS
    <2> HIDE DEF below
    <2>3. \E i \in below : \A j \in below : j <= i
      BY <1>1, <1>3, HasLast
    <2>4. Floor(f) \in below
      BY <2>1, <2>3
    <2>5. Floor(f) \in 1 .. Len(Presets)
      BY <1>1, <2>4
    <2> QED
      BY <1>1, <2>2, <2>4, <2>5
  <1> QED
    BY <1>2, <1>3

(* step_frequency_up never passes the highest preset. *)
LEMMA StepStaysBelow ==
    ASSUME TunerConstants, CanStepUp
    PROVE  StepUp \in Nat /\ ~(StepUp > Ceiling)
  <1>1. Floor(frequency) \in 0 .. Len(Presets)
    BY FloorIs
  <1>2. /\ Floor(frequency) + 1 \in DOMAIN Presets /\ Len(Presets) \in DOMAIN Presets
        /\ Floor(frequency) + 1 <= Len(Presets)
    BY <1>1, PresetsAre DEF CanStepUp
  <1>3. /\ Presets[Floor(frequency) + 1] \in Nat /\ Presets[Len(Presets)] \in Nat
        /\ Floor(frequency) + 1 \in Nat /\ Len(Presets) \in Nat
    BY <1>2, PresetsAre
  <1>4. CASE Floor(frequency) + 1 = Len(Presets)
    BY <1>3, <1>4 DEF StepUp, Ceiling
  <1>5. CASE Floor(frequency) + 1 < Len(Presets)
    <2>1. Presets[Floor(frequency) + 1] < Presets[Len(Presets)]
      BY <1>2, <1>5 DEF TunerConstants
    <2> QED
      BY <1>3, <2>1 DEF StepUp, Ceiling
  <1> QED
    BY <1>2, <1>3, <1>4, <1>5

(* step_frequency_down goes below what is in force, a preset or not. *)
LEMMA StepGoesDown ==
    ASSUME TunerConstants, frequency \in Nat, CanStepDown
    PROVE  StepDown \in Nat /\ StepDown < frequency
  <1>1. Floor(frequency) \in 0 .. Len(Presets) /\ Presets[Floor(frequency)] <= frequency
    <2>1. Floor(frequency) \in 0 .. Len(Presets)
      BY FloorIs
    <2>2. Floor(frequency) # 0
      BY <2>1 DEF CanStepDown
    <2> QED
      BY <2>1, <2>2, FloorIs
  <1>2. /\ Floor(frequency) \in DOMAIN Presets /\ Floor(frequency) - 1 \in DOMAIN Presets
        /\ Floor(frequency) - 1 < Floor(frequency)
    BY <1>1, PresetsAre DEF CanStepDown
  <1>3. Presets[Floor(frequency)] \in Nat /\ Presets[Floor(frequency) - 1] \in Nat
    BY <1>2, PresetsAre
  <1>4. Presets[Floor(frequency) - 1] < Presets[Floor(frequency)]
    BY <1>2 DEF TunerConstants
  <1> QED
    BY <1>1, <1>3, <1>4 DEF StepDown

LEMMA PausesKeep ==
    ASSUME TunerConstants, TunerInv, NEW length,
           \/ tuner = "warmup" /\ length = Warmup
           \/ tuner = "backoff" /\ length = Cooldown,
           Pauses(length), streak' \in 0 .. Window, sinceOn' = Older(sinceOn)
    PROVE  TunerInv'
  <1>1. /\ Older(entered) \in Age /\ Older(climbed) \in Age /\ Older(sinceUp) \in Age
        /\ Older(sinceDown) \in Age /\ Older(sinceOn) \in Age /\ Longest \in Nat
    BY OlderIs DEF TunerInv
  <1>2. /\ entered' = Older(entered) /\ sinceUp' = Older(sinceUp) /\ sinceDown' = Older(sinceDown)
        /\ stable' = 0 /\ rash' = FALSE
        /\ \/ Older(entered) >= length /\ tuner' = "climbing" /\ climbed' = 0
           \/ tuner' = tuner /\ climbed' = Older(climbed)
    BY DEF Pauses, TunerInv
  <1>3. /\ Older(climbed) <= Older(sinceUp) /\ Older(entered) <= Older(sinceDown)
        /\ tuner = "warmup" => Older(entered) <= Older(sinceOn)
        /\ tuner # "warmup" => AtLeast(Older(sinceOn), Older(climbed) + Warmup)
    BY <1>1 DEF TunerInv, TunerConstants, Older, Age, AtLeast
  <1>4. tuner = "backoff" => AtLeast(Older(sinceOn), Warmup)
    BY <1>1, <1>3 DEF AtLeast, Age, TunerConstants
  <1>5. CASE Older(entered) >= length /\ tuner' = "climbing" /\ climbed' = 0
    <2>1. sinceDown' >= Cooldown /\ AtLeast(sinceOn', Warmup)
      BY <1>1, <1>2, <1>3, <1>4, <1>5 DEF AtLeast, Age, TunerConstants
    <2> QED
      BY <1>1, <1>2, <1>5, <2>1 DEF TunerInv, AtLeast, Age, TunerConstants
  <1>6. CASE tuner' = tuner /\ climbed' = Older(climbed)
    BY <1>1, <1>2, <1>3, <1>6 DEF TunerInv, TunerConstants
  <1> QED
    BY <1>2, <1>5, <1>6

LEMMA BackOffKeeps ==
    ASSUME TunerConstants, TunerInv, tuner = "climbing", BackOff,
           streak' \in 0 .. Window, sinceOn' = Older(sinceOn)
    PROVE  TunerInv'
  <1>1. /\ Older(climbed) \in Age /\ Older(sinceUp) \in Age
        /\ Older(sinceDown) \in Age /\ Older(sinceOn) \in Age /\ Longest \in Nat
    BY OlderIs DEF TunerInv
  <1>2. /\ tuner' = "backoff" /\ entered' = 0 /\ climbed' = Older(climbed) /\ stable' = 0
        /\ sinceUp' = Older(sinceUp) /\ sinceDown' \in {0, Older(sinceDown)} /\ rash' = FALSE
    BY DEF BackOff, TunerInv
  <1>3. /\ Older(climbed) <= Older(sinceUp)
        /\ AtLeast(Older(sinceOn), Older(climbed) + Warmup)
    BY <1>1 DEF TunerInv, TunerConstants, Older, Age, AtLeast
  <1>4. entered' \in Age /\ sinceDown' \in Age /\ entered' <= sinceDown'
    BY <1>1, <1>2 DEF Age
  <1> QED
    BY <1>1, <1>2, <1>3, <1>4 DEF TunerInv, TunerConstants

LEMMA ClimbKeeps ==
    ASSUME TunerConstants, TunerInv, tuner = "climbing", NEW good \in BOOLEAN, Climb(good),
           streak' = IF good THEN (IF streak < Window THEN streak + 1 ELSE streak) ELSE 0,
           sinceOn' = Older(sinceOn)
    PROVE  TunerInv'
  <1> DEFINE run == IF ~good THEN 0 ELSE IF stable < Window THEN stable + 1 ELSE stable
             due == run >= Window /\ Older(climbed) >= Interval
             up == due /\ CanStepUp
  <1>1. /\ Older(entered) \in Age /\ Older(climbed) \in Age /\ Older(sinceUp) \in Age
        /\ Older(sinceDown) \in Age /\ Older(sinceOn) \in Age /\ Longest \in Nat
    BY OlderIs DEF TunerInv
  <1>2. run \in 0 .. Window /\ streak' \in 0 .. Window /\ run <= streak'
    BY DEF TunerInv, TunerConstants
  <1>3. /\ Older(climbed) <= Older(sinceUp)
        /\ AtLeast(Older(sinceDown), Older(climbed) + Cooldown)
        /\ AtLeast(Older(sinceOn), Older(climbed) + Warmup)
    BY <1>1 DEF TunerInv, TunerConstants, Older, Age, AtLeast
  <1>4. /\ stable' = (IF up THEN 0 ELSE run)
        /\ climbed' = (IF due THEN 0 ELSE Older(climbed))
        /\ sinceUp' = (IF up THEN 0 ELSE Older(sinceUp))
        /\ entered' = Older(entered) /\ sinceDown' = Older(sinceDown) /\ tuner' = tuner
    BY DEF Climb
  <1>5. rash' = (rash \/ (up /\ \/ streak' < Window
                                \/ Older(sinceUp) < Interval
                                \/ Older(sinceDown) < Cooldown + Interval
                                \/ Older(sinceOn) < Warmup + Interval
                                \/ StepUp > Ceiling))
    BY DEF Climb
  <1> HIDE DEF run
  <1>6. ASSUME due
        PROVE  /\ ~(streak' < Window) /\ ~(Older(sinceUp) < Interval)
               /\ ~(Older(sinceDown) < Cooldown + Interval)
               /\ ~(Older(sinceOn) < Warmup + Interval)
    <2>1. run >= Window /\ Older(climbed) >= Interval
      BY <1>6
    <2>2. /\ Older(climbed) \in Nat /\ Older(sinceUp) \in Nat /\ Older(sinceDown) \in Nat
          /\ Older(sinceOn) \in Nat /\ Longest \in Nat
          /\ Interval \in Nat /\ Cooldown \in Nat /\ Warmup \in Nat /\ Window \in Nat
      BY <1>1 DEF TunerConstants, Age
    <2>3. streak' \in Int /\ run \in Int /\ run <= streak'
      BY <1>2, <2>2
    <2>4. ~(streak' < Window) /\ ~(Older(sinceUp) < Interval)
      BY <1>3, <2>1, <2>2, <2>3
    <2>5. Longest >= Cooldown + Interval /\ Longest >= Warmup + Interval
      BY DEF Longest, TunerConstants
    <2> QED
      BY <1>3, <2>1, <2>4, <2>5, <2>2 DEF AtLeast
  <1>7. up => ~(StepUp > Ceiling)
    BY StepStaysBelow
  <1>8. rash' = FALSE
    <2>1. rash = FALSE
      BY DEF TunerInv
    <2> HIDE DEF due
    <2> QED
      BY <1>5, <1>6, <1>7, <2>1, Zenon
  <1> HIDE DEF due, up
  <1>9. AtLeast(sinceDown', climbed' + Cooldown) /\ AtLeast(sinceOn', climbed' + Warmup)
    BY <1>1, <1>3, <1>4 DEF AtLeast, Age, TunerConstants
  <1>10. up => due
    BY DEF up
  <1>11. climbed' \in Age /\ sinceUp' \in Age /\ climbed' <= sinceUp'
    BY <1>1, <1>3, <1>4, <1>10 DEF Age
  <1>12. stable' \in 0 .. Window /\ stable' <= streak'
    BY <1>2, <1>4 DEF TunerConstants
  <1> QED
    BY <1>1, <1>2, <1>4, <1>8, <1>9, <1>11, <1>12 DEF TunerInv

(* resume_from_persisted_frequency *)
LEMMA OnResumes ==
    ASSUME TunerConstants, Remembered, On
    PROVE  Remembered' /\ (rash = FALSE => rash' = FALSE)
  <1> DEFINE clamped == IF tuned > Ceiling THEN Ceiling ELSE tuned
             raise == clamped > frequency
             keys == IF tuned > Ceiling
                     THEN IF raise THEN <<"tuned", "frequency">> ELSE <<"tuned">>
                     ELSE IF raise THEN <<"frequency">> ELSE <<>>
  <1>1. /\ queued = <<>> /\ queued' = keys /\ target' = clamped
        /\ frequency' = frequency /\ tuned' = tuned /\ unstable' = unstable
        /\ rash' = (rash \/ (raise /\ (clamped > Ceiling
                                      \/ (unstable > 0 /\ clamped >= unstable))))
    BY DEF On, Store
  <1>2. /\ frequency \in Nat /\ tuned \in Nat /\ unstable \in Nat /\ Ceiling \in Nat
        /\ clamped \in Nat /\ clamped <= tuned /\ ~(clamped > Ceiling)
    BY PresetsAre DEF Remembered
  <1>3. unstable > 0 => tuned < unstable
    <2>1. ~TunedQueued
      BY <1>1 DEF TunedQueued
    <2> QED
      BY <2>1 DEF Remembered
  <1>4. ~(unstable > 0 /\ clamped >= unstable)
    BY <1>2, <1>3
  <1>5. ASSUME tuned > Ceiling
        PROVE  Remembered'
    <2>1. queued' = <<"tuned">> \/ queued' = <<"tuned", "frequency">>
      BY <1>1, <1>5
    <2>2. queued' \in Queues /\ TunedQueued'
      BY <2>1 DEF Queues, TunedQueued
    <2>3. unstable > 0 => clamped < unstable
      BY <1>2, <1>3
    <2> HIDE DEF clamped, keys
    <2> QED
      BY <1>1, <1>2, <2>2, <2>3 DEF Remembered
  <1>6. ASSUME ~(tuned > Ceiling)
        PROVE  Remembered'
    <2>1. queued' = <<>> \/ queued' = <<"frequency">>
      BY <1>1, <1>6
    <2>2. queued' \in Queues /\ ~TunedQueued'
      BY <2>1 DEF Queues, TunedQueued
    <2> HIDE DEF clamped, keys
    <2> QED
      BY <1>1, <1>2, <1>3, <2>2 DEF Remembered
  <1>7. rash = FALSE => rash' = FALSE
    <2> HIDE DEF clamped, keys, raise
    <2> QED
      BY <1>1, <1>2, <1>4, Zenon
  <1> QED
    BY <1>5, <1>6, <1>7

LEMMA NextTuner ==
    ASSUME TunerConstants, TunerInv, Remembered, [TunerNext]_tunerVars
    PROVE  TunerInv'
  <1>1. CASE Off
    BY <1>1 DEF Off, TunerInv
  <1>2. CASE On
    <2>1. /\ tuner' = "warmup" /\ entered' = 0 /\ stable' = 0 /\ streak' = 0 /\ sinceOn' = 0
          /\ UNCHANGED <<climbed, sinceUp, sinceDown>>
      BY <1>2 DEF On
    <2>2. rash' = FALSE
      BY <1>2, OnResumes DEF TunerInv
    <2> QED
      BY <2>1, <2>2 DEF TunerInv, TunerConstants, Age, Longest
  <1>3. CASE Hold
    <2>1. /\ Older(entered) \in Age /\ Older(climbed) \in Age /\ Older(sinceUp) \in Age
          /\ Older(sinceDown) \in Age /\ Older(sinceOn) \in Age /\ Longest \in Nat
      BY OlderIs DEF TunerInv
    <2>2. /\ Older(climbed) <= Older(sinceUp)
          /\ tuner # "climbing" => Older(entered) <= Older(sinceDown)
          /\ tuner = "climbing" => AtLeast(Older(sinceDown), Older(climbed) + Cooldown)
          /\ tuner = "warmup" => Older(entered) <= Older(sinceOn)
          /\ tuner # "warmup" => AtLeast(Older(sinceOn), Older(climbed) + Warmup)
      BY <2>1 DEF TunerInv, TunerConstants, Older, Age, AtLeast
    <2> QED
      BY <1>3, <2>1, <2>2 DEF Hold, TunerInv
  <1>4. CASE Poll
    <2>1. PICK errors \in {"low", "some", "many"}, governor \in BOOLEAN :
             LET good == errors = "low" /\ ~governor
             IN  /\ streak' = IF good THEN (IF streak < Window THEN streak + 1 ELSE streak) ELSE 0
                 /\ CASE tuner = "warmup" -> Pauses(Warmup)
                      [] tuner = "backoff" -> Pauses(Cooldown)
                      [] tuner = "climbing" /\ errors = "many" -> BackOff
                      [] tuner = "climbing" /\ errors # "many" -> Climb(good)
      BY <1>4 DEF Poll
    <2> DEFINE good == errors = "low" /\ ~governor
    <2>2. /\ good \in BOOLEAN /\ sinceOn' = Older(sinceOn)
          /\ streak' = IF good THEN (IF streak < Window THEN streak + 1 ELSE streak) ELSE 0
      BY <1>4, <2>1 DEF Poll
    <2>3. /\ tuner = "warmup" => Pauses(Warmup)
          /\ tuner = "backoff" => Pauses(Cooldown)
          /\ tuner = "climbing" => BackOff \/ Climb(good)
      BY <2>1
    <2> HIDE DEF good
    <2>4. streak' \in 0 .. Window
      BY <2>2 DEF TunerInv, TunerConstants
    <2>5. CASE tuner = "warmup"
      BY <2>2, <2>3, <2>4, <2>5, PausesKeep
    <2>6. CASE tuner = "backoff"
      BY <2>2, <2>3, <2>4, <2>6, PausesKeep
    <2>7. CASE tuner = "climbing"
      BY <2>2, <2>3, <2>4, <2>7, BackOffKeeps, ClimbKeeps
    <2> QED
      BY <2>5, <2>6, <2>7 DEF TunerInv
  <1>5. CASE UserEdits
    BY <1>5 DEF UserEdits, TunerInv
  <1>6. CASE TunerReset
    <2>1. /\ tuner' = "warmup" /\ entered' = 0 /\ climbed' = 0 /\ stable' = 0 /\ streak' = 0
          /\ sinceOn' = 0 /\ UNCHANGED <<sinceUp, sinceDown, rash>>
      BY <1>6 DEF TunerReset
    <2> QED
      BY <2>1 DEF TunerInv, TunerConstants, Age, Longest
  <1>7. CASE SaveFloat \/ UNCHANGED tunerVars
    BY <1>7 DEF SaveFloat, tunerVars, TunerInv
  <1> QED
    BY <1>1, <1>2, <1>3, <1>4, <1>5, <1>6, <1>7 DEF TunerNext

LEMMA StillRemembered ==
    ASSUME TunerConstants, TunerInv, Remembered, [TunerNext]_tunerVars
    PROVE  Remembered'
  <1>1. CASE On
    BY <1>1, OnResumes
  <1>2. CASE UNCHANGED <<queueVars, unstable>>
    BY <1>2 DEF Remembered, TunedQueued, queueVars
  <1>3. CASE SaveFloat
    <2>1. /\ queued # <<>> /\ queued' = Tail(queued) /\ target' = target /\ unstable' = unstable
          /\ Head(queued) = "frequency" => frequency' = target /\ tuned' = tuned
          /\ Head(queued) # "frequency" => tuned' = target /\ frequency' = frequency
      BY <1>3 DEF SaveFloat
    <2>2. /\ frequency' \in Nat /\ tuned' \in Nat /\ target' \in Nat /\ unstable' \in Nat
      BY <2>1 DEF Remembered
    <2>3. CASE queued = <<"frequency">>
      <3>1. queued' = <<>> /\ tuned' = tuned
        BY <2>1, <2>3
      <3> QED
        BY <2>1, <2>2, <2>3, <3>1 DEF Remembered, TunedQueued, Queues
    <2>4. CASE queued = <<"tuned">>
      <3>1. queued' = <<>> /\ tuned' = target
        BY <2>1, <2>4
      <3> QED
        BY <2>1, <2>2, <2>4, <3>1 DEF Remembered, TunedQueued, Queues
    <2>5. CASE queued = <<"frequency", "tuned">>
      <3>1. queued' = <<"tuned">>
        BY <2>1, <2>5
      <3> QED
        BY <2>1, <2>2, <2>5, <3>1 DEF Remembered, TunedQueued, Queues
    <2>6. CASE queued = <<"tuned", "frequency">>
      <3>1. queued' = <<"frequency">> /\ tuned' = target
        BY <2>1, <2>6
      <3> QED
        BY <2>1, <2>2, <2>6, <3>1 DEF Remembered, TunedQueued, Queues
    <2> QED
      BY <2>1, <2>3, <2>4, <2>5, <2>6 DEF Remembered, Queues
  <1>4. CASE UserEdits
    <2>1. /\ queued' = queued /\ target' = target
          /\ \/ frequency' \in UserValues /\ tuned' = tuned /\ unstable' = unstable
             \/ tuned' \in UserValues \cup {0} /\ unstable' = 0 /\ frequency' = frequency
             \/ UNCHANGED <<frequency, tuned, unstable>>
      BY <1>4, Zenon DEF UserEdits
    <2>2. UserValues \subseteq Nat /\ 0 \in Nat
      BY DEF TunerConstants
    <2>3. TunedQueued' <=> TunedQueued
      BY <2>1 DEF TunedQueued
    <2>4. CASE frequency' \in UserValues /\ tuned' = tuned /\ unstable' = unstable
      BY <2>1, <2>2, <2>3, <2>4 DEF Remembered
    <2>5. CASE tuned' \in UserValues \cup {0} /\ unstable' = 0 /\ frequency' = frequency
      <3>1. tuned' \in Nat
        BY <2>2, <2>5
      <3> QED
        BY <2>1, <2>5, <3>1 DEF Remembered
    <2>6. CASE UNCHANGED <<frequency, tuned, unstable>>
      BY <2>1, <2>3, <2>6 DEF Remembered
    <2> QED
      BY <2>1, <2>4, <2>5, <2>6
  <1>5. CASE TunerReset
    <2>1. /\ queued' = <<>> /\ UNCHANGED <<frequency, tuned, target>>
          /\ (queued = <<>> /\ unstable' = unstable) \/ unstable' = 0
      BY <1>5 DEF TunerReset
    <2> QED
      BY <2>1 DEF Remembered, TunedQueued, Queues
  <1>6. CASE /\ queued' = <<"frequency", "tuned">> /\ UNCHANGED <<frequency, tuned>>
             /\ \/ CanStepDown /\ target' = StepDown /\ unstable' = frequency
                \/ CanStepUp /\ target' = StepUp /\ unstable' = 0
    <2>1. queued' \in Queues /\ TunedQueued'
      BY <1>6 DEF Queues, TunedQueued
    <2>2. frequency \in Nat /\ tuned \in Nat
      BY DEF Remembered
    <2>3. CASE CanStepDown /\ target' = StepDown /\ unstable' = frequency
      <3>1. StepDown \in Nat /\ StepDown < frequency
        BY <2>2, <2>3, StepGoesDown
      <3> QED
        BY <1>6, <2>1, <2>2, <2>3, <3>1 DEF Remembered
    <2>4. CASE CanStepUp /\ target' = StepUp /\ unstable' = 0
      <3>1. StepUp \in Nat
        BY <2>4, StepStaysBelow
      <3> QED
        BY <1>6, <2>1, <2>2, <2>4, <3>1 DEF Remembered
    <2> QED
      BY <1>6, <2>3, <2>4
  <1>7. CASE Poll
    <2>1. PICK errors \in {"low", "some", "many"}, governor \in BOOLEAN :
             \/ Pauses(Warmup) \/ Pauses(Cooldown) \/ BackOff
             \/ Climb(errors = "low" /\ ~governor)
      BY <1>7 DEF Poll, TunerInv
    <2>2. CASE Pauses(Warmup) \/ Pauses(Cooldown)
      BY <1>2, <2>2 DEF Pauses, StoreNothing
    <2>3. CASE BackOff
      BY <1>2, <1>6, <2>3 DEF BackOff, Store, StoreNothing
    <2>4. CASE Climb(errors = "low" /\ ~governor)
      BY <1>2, <1>6, <2>4 DEF Climb, Store, StoreNothing
    <2> QED
      BY <2>1, <2>2, <2>3, <2>4
  <1>8. CASE Off \/ Hold \/ UNCHANGED tunerVars
    BY <1>2, <1>8 DEF Off, Hold, tunerVars
  <1> QED
    BY <1>1, <1>3, <1>4, <1>5, <1>7, <1>8 DEF TunerNext

(* autotune_task.c, for every table of presets and all times and windows in    *)
(* which a warm-up is no shorter than a cooldown: the frequency climbs only    *)
(* after the full window, interval, cooldown and warm-up, and is resumed only  *)
(* below what the last step came down from, whatever the user edits and        *)
(* whenever the device resets; and neither passes the highest preset.          *)
THEOREM ClimbsAreEarned ==
    ASSUME TunerConstants
    PROVE  TunerSpec => []NeverRash
  <1>1. TunerInit => TunerInv /\ Remembered
    <2> SUFFICES ASSUME TunerInit
                 PROVE  TunerInv /\ Remembered
      OBVIOUS
    <2>1. TunerInv
      BY DEF TunerInit, TunerInv, TunerConstants, Age, Longest, AtLeast
    <2>2. Remembered
      BY DEF TunerInit, Remembered, TunedQueued, Queues, TunerConstants
    <2> QED
      BY <2>1, <2>2
  <1>2. TunerInv /\ Remembered /\ [TunerNext]_tunerVars => (TunerInv /\ Remembered)'
    BY NextTuner, StillRemembered
  <1>3. TunerInv => NeverRash
    BY DEF TunerInv, NeverRash
  <1> QED
    BY <1>1, <1>2, <1>3, PTL DEF TunerSpec

-----------------------------------------------------------------------------
(* SelfTest.  A verdict is only shown at its four steps; the steps after a     *)
(* check carry what the check found, as long as nothing writes it any more.    *)
(* A power task that has started the chip under a verdict only has the top of  *)
(* its loop before it, where it ends.                                          *)

Verdicts == {"passed", "countdown", "failed", "cancelled"}
AfterDomains == {"hashrate", "voltage", "power", "fan", "passed", "countdown"}
AfterHashrate == AfterDomains \ {"hashrate"}
Average == [sum : Nat, count : Nat, rejected : Nat, last : Nat]

TestNumbers ==
    /\ nonces \in [active : BOOLEAN, accepted : Nat, rejected : Nat]
    /\ measurements \in [Domains -> [time : Nat, rate : Nat]]
    /\ averages \in [Domains -> Average]

Judged ==
    /\ testStep \notin Verdicts => result = "none" /\ failed = {}
    /\ testStep \in {"passed", "countdown"} => result = "pass" /\ failed = {}
    /\ testStep \in {"failed", "cancelled"} => result = "fail"
    /\ nonces.active = TRUE => testStep = "loop"

Found ==
    /\ testStep \in AfterHashrate => nonces.accepted >= Expected
    /\ testStep \in AfterDomains =>
          \A d \in Domains : averages[d].count + averages[d].rejected > 0

Flags ==
    /\ flashFlag = FALSE => earned \in {"pass", "press"}
    /\ factoryFlag = FALSE => earned \in {"pass", "press"}
    /\ flashFlag \in BOOLEAN /\ factoryFlag \in BOOLEAN

Powered ==
    /\ revived \in {0, 1}
    /\ testStep \notin Verdicts => revived = 0
    /\ revived = 1 => powerTask \in {"asleep", "gone"}
    /\ testStep \in Verdicts /\ chipOn = TRUE => revived = 1

TestInv == TestNumbers /\ Judged /\ Found /\ Flags /\ Powered

(* tests_done, from a step without a verdict. *)
LEMMA DoneKeeps ==
    ASSUME TestInv, testStep \notin Verdicts, NEW ok \in BOOLEAN, NEW check, TestsDone(ok, check),
           ok => testStep = "fan"
    PROVE  /\ nonces' \in [active : BOOLEAN, accepted : Nat, rejected : Nat]
           /\ nonces'.active = FALSE /\ nonces'.accepted = nonces.accepted
           /\ Judged' /\ Powered'
           /\ testStep' \in {"passed", "failed"} /\ (testStep' = "passed" => testStep = "fan")
  <1>1. /\ nonces' = [nonces EXCEPT !.active = FALSE]
        /\ chipOn' = FALSE /\ powerTask' = powerTask /\ revived' = revived
        /\ \/ ok /\ testStep' = "passed" /\ result' = "pass" /\ failed' = failed
           \/ ~ok /\ testStep' = "failed" /\ result' = "fail"
    BY DEF TestsDone
  <1>2. /\ nonces' \in [active : BOOLEAN, accepted : Nat, rejected : Nat]
        /\ nonces'.active = FALSE /\ nonces'.accepted = nonces.accepted
    BY <1>1 DEF TestInv, TestNumbers
  <1>3. failed = {}
    BY DEF TestInv, Judged
  <1>4. Judged'
    BY <1>1, <1>2, <1>3 DEF Judged, Verdicts
  <1>5. Powered'
    BY <1>1 DEF TestInv, Powered, Verdicts
  <1> QED
    BY <1>1, <1>2, <1>4, <1>5

(* A step that ends the test, or goes on to another step without a verdict.    *)
LEMMA CheckKeeps ==
    ASSUME TestInv, testStep \notin Verdicts \cup {"loop"},
           UNCHANGED <<untouched, measurements, averages, loops>>,
           \/ /\ testStep' \notin Verdicts
              /\ UNCHANGED <<result, powerVars, nonces, failed>>
              /\ testStep' \in AfterDomains =>
                    \A d \in Domains : averages[d].count + averages[d].rejected > 0
              /\ testStep' \in AfterHashrate => nonces.accepted >= Expected
           \/ \E check : TestsDone(FALSE, check)
           \/ testStep = "fan" /\ \E check : TestsDone(TRUE, check)
    PROVE  TestInv'
  <1>1. Flags' /\ measurements' \in [Domains -> [time : Nat, rate : Nat]]
        /\ averages' \in [Domains -> Average] /\ averages' = averages
    BY DEF TestInv, Flags, TestNumbers, untouched
  <1>2. CASE testStep' \notin Verdicts /\ UNCHANGED <<result, powerVars, nonces, failed>>
             /\ (testStep' \in AfterDomains =>
                   \A d \in Domains : averages[d].count + averages[d].rejected > 0)
             /\ (testStep' \in AfterHashrate => nonces.accepted >= Expected)
    <2>1. nonces.active # TRUE
      BY DEF TestInv, Judged
    <2>2. Judged'
      BY <1>2, <2>1 DEF TestInv, Judged, Verdicts
    <2>3. Found'
      BY <1>1, <1>2 DEF Found
    <2>4. TestNumbers'
      BY <1>1, <1>2 DEF TestInv, TestNumbers
    <2>5. Powered'
      BY <1>2 DEF TestInv, Powered, powerVars
    <2> QED
      BY <1>1, <2>2, <2>3, <2>4, <2>5 DEF TestInv
  <1>3. ASSUME NEW ok \in BOOLEAN, NEW check, TestsDone(ok, check), ok => testStep = "fan"
        PROVE  TestInv'
    <2>1. /\ nonces' \in [active : BOOLEAN, accepted : Nat, rejected : Nat]
          /\ nonces'.active = FALSE /\ nonces'.accepted = nonces.accepted
          /\ Judged' /\ Powered'
          /\ testStep' \in {"passed", "failed"} /\ (testStep' = "passed" => testStep = "fan")
      BY <1>3, DoneKeeps
    <2>2. testStep' = "passed" =>
             /\ nonces.accepted >= Expected
             /\ \A d \in Domains : averages[d].count + averages[d].rejected > 0
      BY <2>1 DEF TestInv, Found, AfterDomains, AfterHashrate
    <2>3. Found'
      BY <1>1, <2>1, <2>2 DEF Found, AfterDomains, AfterHashrate
    <2>4. TestNumbers'
      BY <1>1, <2>1 DEF TestNumbers
    <2> QED
      BY <1>1, <2>1, <2>3, <2>4 DEF TestInv
  <1>4. CASE \E check : TestsDone(FALSE, check)
    BY <1>3, <1>4
  <1>5. CASE testStep = "fan" /\ \E check : TestsDone(TRUE, check)
    BY <1>3, <1>5
  <1> QED
    BY <1>2, <1>4, <1>5

(* The lists of checks lead from step to step. *)
LEMMA ListedKeeps ==
    ASSUME TestInv, CheckHardware \/ SetUpWork
    PROVE  TestInv'
  <1> DEFINE Early == {"init", "psram", "ds4432u", "vin", "vreg", "work", "fanMax", "temp",
                       "fanMin", "warmup", "memory"}
  <1>1. /\ \A i \in DOMAIN Before : Before[i] \in Early
        /\ \A i \in DOMAIN Preparation : Preparation[i] \in Early
    <2>1. DOMAIN Before = 1 .. 5 /\ DOMAIN Preparation = 1 .. 6
      BY DEF Before, Preparation
    <2>2. \A i \in 1 .. 5 : Before[i] \in Early
      BY DEF Before
    <2>3. \A i \in 1 .. 6 : Preparation[i] \in Early
      BY DEF Preparation
    <2> QED
      BY <2>1, <2>2, <2>3
  <1>2. /\ testStep \in Early
        /\ UNCHANGED <<untouched, measurements, averages, loops>>
        /\ \/ testStep' \in Early \cup {"work", "loop"} /\ UNCHANGED <<result, powerVars, nonces, failed>>
           \/ TestsDone(FALSE, testStep)
    BY <1>1 DEF CheckHardware, SetUpWork, Checks
  <1>3. (Early \cup {"work", "loop"}) \cap (AfterDomains \cup Verdicts) = {}
    BY DEF AfterDomains, Verdicts
  <1>4. AfterHashrate \subseteq AfterDomains /\ "loop" \notin Early
    BY DEF AfterHashrate
  <1> HIDE DEF Early
  <1> QED
    BY <1>2, <1>3, <1>4, CheckKeeps

LEMMA JudgingKeeps ==
    ASSUME Expected \in Nat, TestInv, CheckDomains \/ CheckHashrate \/ CheckReadings
    PROVE  TestInv'
  <1>1. CASE CheckDomains
    <2>1. /\ testStep = "domains" /\ UNCHANGED <<untouched, measurements, averages, loops>>
          /\ \/ TestsDone(FALSE, "domains")
             \/ /\ \A d \in Domains : Status(averages[d]) # "fail"
                /\ testStep' = "hashrate" /\ UNCHANGED <<result, powerVars, nonces, failed>>
      BY <1>1 DEF CheckDomains
    <2>2. ASSUME NEW d \in Domains, Status(averages[d]) # "fail"
          PROVE  averages[d].count + averages[d].rejected > 0
      <3>1. averages[d].count \in Nat /\ averages[d].rejected \in Nat
        BY DEF TestInv, TestNumbers, Average
      <3>2. averages[d].rejected > 0 \/ averages[d].count # 0
        BY <2>2, <3>1 DEF Status
      <3> QED
        BY <3>1, <3>2
    <2> QED
      BY <2>1, <2>2, CheckKeeps DEF AfterHashrate, AfterDomains, Verdicts
  <1>2. CASE CheckHashrate
    <2>1. /\ testStep = "hashrate" /\ UNCHANGED <<untouched, measurements, averages, loops>>
          /\ \/ TestsDone(FALSE, "hashrate")
             \/ /\ ~(nonces.accepted < Expected)
                /\ testStep' = "voltage" /\ UNCHANGED <<result, powerVars, nonces, failed>>
      BY <1>2 DEF CheckHashrate
    <2>2. \A d \in Domains : averages[d].count + averages[d].rejected > 0
      BY <2>1 DEF TestInv, Found, AfterDomains
    <2>3. ~(nonces.accepted < Expected) => nonces.accepted >= Expected
      <3>1. nonces.accepted \in Nat
        BY DEF TestInv, TestNumbers
      <3> QED
        BY <3>1
    <2> QED
      BY <2>1, <2>2, <2>3, CheckKeeps DEF Verdicts
  <1>3. CASE CheckReadings
    <2>1. NextIn(After, "voltage") = 3 /\ NextIn(After, "power") = 4
      <3>1. DOMAIN After = 1 .. 5 /\ \A i \in 1 .. 5 : /\ After[i] = "voltage" <=> i = 3
                                                       /\ After[i] = "power" <=> i = 4
        BY DEF After
      <3> QED
        BY <3>1 DEF NextIn
    <2>2. After[3 + 1] = "power" /\ After[4 + 1] = "fan"
      BY DEF After
    <2>3. /\ testStep \in {"voltage", "power", "fan"}
          /\ UNCHANGED <<untouched, measurements, averages, loops>>
          /\ \/ testStep' \in {"power", "fan"} /\ UNCHANGED <<result, powerVars, nonces, failed>>
             \/ testStep = "fan" /\ TestsDone(TRUE, "none")
             \/ TestsDone(FALSE, testStep)
      BY <1>3, <2>1, <2>2 DEF CheckReadings
    <2>4. /\ nonces.accepted >= Expected
          /\ \A d \in Domains : averages[d].count + averages[d].rejected > 0
      BY <2>3 DEF TestInv, Found, AfterDomains, AfterHashrate
    <2> QED
      BY <2>3, <2>4, CheckKeeps DEF Verdicts
  <1> QED
    BY <1>1, <1>2, <1>3

LEMMA BootKeeps ==
    ASSUME TestInv, NEW button, Boots(flashFlag, mined, button), UNCHANGED earned
    PROVE  TestInv'
  <1>1. /\ testStep' \in {"init", "off"} /\ result' = "none" /\ failed' = {}
        /\ factoryFlag' = flashFlag /\ flashFlag' = flashFlag /\ revived' = 0
        /\ nonces' = [active |-> FALSE, accepted |-> 0, rejected |-> 0]
        /\ measurements' = [d \in Domains |-> [time |-> 0, rate |-> 0]]
        /\ averages' = [d \in Domains |-> Fresh]
    BY DEF Boots
  <1>2. TestNumbers'
    BY <1>1 DEF TestNumbers, Average, Fresh
  <1>3. Judged' /\ Found' /\ Powered'
    BY <1>1 DEF Judged, Found, Powered, Verdicts, AfterDomains, AfterHashrate
  <1>4. Flags'
    BY <1>1 DEF TestInv, Flags
  <1> QED
    BY <1>2, <1>3, <1>4 DEF TestInv

LEMMA MeasureKeeps ==
    ASSUME TestInv, StartMeasurement \/ HashLoop
    PROVE  TestInv'
  <1>1. UNCHANGED <<untouched, measurements>>
    BY DEF StartMeasurement, HashLoop
  <1>2. Flags' /\ measurements' \in [Domains -> [time : Nat, rate : Nat]]
    BY <1>1 DEF TestInv, TestNumbers, Flags, untouched
  <1>3. ASSUME NEW a \in Average, NEW m \in [time : Nat, rate : Nat]
        PROVE  Sampled(a, m) \in Average
    <2>1. /\ m.time \in Nat /\ m.rate \in Nat
          /\ a.sum + m.rate \in Nat /\ a.count + 1 \in Nat /\ a.rejected + 1 \in Nat
      BY DEF Average
    <2>2. [a EXCEPT !.last = m.time] \in Average
      BY <2>1 DEF Average
    <2>3. [a EXCEPT !.last = m.time, !.rejected = a.rejected + 1] \in Average
      BY <2>1 DEF Average
    <2>4. [a EXCEPT !.last = m.time, !.sum = a.sum + m.rate, !.count = a.count + 1] \in Average
      BY <2>1 DEF Average
    <2>5. \/ Sampled(a, m) = a
          \/ Sampled(a, m) = [a EXCEPT !.last = m.time]
          \/ Sampled(a, m) = [a EXCEPT !.last = m.time, !.rejected = a.rejected + 1]
          \/ Sampled(a, m) = [a EXCEPT !.last = m.time, !.sum = a.sum + m.rate, !.count = a.count + 1]
      BY DEF Sampled
    <2> QED
      BY <2>2, <2>3, <2>4, <2>5
  <1>4. SampleAll => averages' \in [Domains -> Average]
    BY <1>3 DEF SampleAll, TestInv, TestNumbers
  <1>5. ASSUME testStep \notin Verdicts, NEW check, TestsDone(FALSE, check), UNCHANGED averages
        PROVE  TestInv'
    <2>1. /\ nonces' \in [active : BOOLEAN, accepted : Nat, rejected : Nat]
          /\ Judged' /\ Powered' /\ testStep' = "failed"
      BY <1>5, DoneKeeps DEF TestsDone
    <2>2. TestNumbers'
      BY <1>2, <1>5, <2>1 DEF TestInv, TestNumbers
    <2> QED
      BY <1>2, <2>1, <2>2 DEF TestInv, Found, AfterDomains, AfterHashrate
  <1>6. CASE StartMeasurement
    <2>1. CASE /\ testStep' = "loop"
               /\ averages' = [d \in Domains |-> [Fresh EXCEPT !.last = measurements[d].time]]
               /\ nonces' = [active |-> TRUE, accepted |-> 0, rejected |-> 0]
               /\ UNCHANGED <<result, powerVars, failed>>
      <3>1. averages' \in [Domains -> Average]
        BY <2>1 DEF Fresh, Average, TestInv, TestNumbers
      <3>2. nonces' \in [active : BOOLEAN, accepted : Nat, rejected : Nat]
        BY <2>1
      <3>3. testStep = "memory" /\ result = "none" /\ failed = {}
        BY <1>6 DEF StartMeasurement, TestInv, Judged, Verdicts
      <3>4. Judged' /\ Found'
        BY <2>1, <3>3 DEF Judged, Found, Verdicts, AfterDomains, AfterHashrate
      <3>5. Powered'
        BY <2>1, <3>3 DEF TestInv, Powered, Verdicts, powerVars
      <3> QED
        BY <1>2, <3>1, <3>2, <3>4, <3>5 DEF TestInv, TestNumbers
    <2>2. CASE TestsDone(FALSE, "memory") /\ UNCHANGED averages
      BY <1>5, <1>6, <2>2 DEF StartMeasurement, Verdicts
    <2> QED
      BY <1>6, <2>1, <2>2 DEF StartMeasurement
  <1>7. CASE HashLoop
    <2>1. testStep = "loop" /\ result = "none" /\ failed = {}
      BY <1>7 DEF HashLoop, TestInv, Judged, Verdicts
    <2>2. CASE SampleAll /\ UNCHANGED <<testStep, result, powerVars, nonces, failed>>
      <3>1. TestNumbers'
        BY <1>2, <1>4, <2>2 DEF TestInv, TestNumbers
      <3>2. Judged' /\ Found'
        BY <2>1, <2>2 DEF TestInv, Judged, Found, Verdicts, AfterDomains, AfterHashrate
      <3>3. Powered'
        BY <2>2 DEF TestInv, Powered, powerVars
      <3> QED
        BY <1>2, <3>1, <3>2, <3>3 DEF TestInv
    <2>3. CASE TestsDone(FALSE, "temp") /\ UNCHANGED averages
      BY <1>5, <2>1, <2>3 DEF Verdicts
    <2>4. CASE /\ SampleAll /\ testStep' = "domains" /\ nonces' = [nonces EXCEPT !.active = FALSE]
               /\ UNCHANGED <<result, powerVars, failed>>
      <3>1. /\ nonces' \in [active : BOOLEAN, accepted : Nat, rejected : Nat]
            /\ nonces'.active = FALSE
        BY <2>4 DEF TestInv, TestNumbers
      <3>2. Judged' /\ Found'
        BY <2>1, <2>4, <3>1 DEF Judged, Found, Verdicts, AfterDomains, AfterHashrate
      <3>3. Powered'
        BY <2>1, <2>4 DEF TestInv, Powered, Verdicts, powerVars
      <3> QED
        BY <1>2, <1>4, <2>4, <3>1, <3>2, <3>3 DEF TestInv, TestNumbers
    <2> QED
      BY <1>7, <2>2, <2>3, <2>4 DEF HashLoop
  <1> QED
    BY <1>6, <1>7

(* The two other tasks, which write the nonces and the measurements. *)
LEMMA TasksKeep ==
    ASSUME TestInv, RecordNonce \/ Measure
    PROVE  TestInv'
  <1>1. /\ UNCHANGED <<testStep, result, powerVars, averages, failed>>
        /\ UNCHANGED <<factoryFlag, flashFlag, earned>>
    BY DEF RecordNonce, Measure, untouched
  <1>2. Flags' /\ Powered'
    BY <1>1 DEF TestInv, Flags, Powered, powerVars
  <1>3. CASE RecordNonce
    <2>1. /\ nonces.accepted + 1 \in Nat /\ nonces.rejected + 1 \in Nat
          /\ measurements' = measurements
      BY <1>3 DEF RecordNonce, TestInv, TestNumbers
    <2>2. CASE nonces' = nonces
      BY <1>1, <1>2, <2>1, <2>2 DEF TestInv, TestNumbers, Judged, Found
    <2>3. CASE /\ nonces.active = TRUE
               /\ \/ nonces' = [nonces EXCEPT !.accepted = nonces.accepted + 1]
                  \/ nonces' = [nonces EXCEPT !.rejected = nonces.rejected + 1]
      <3>1. /\ nonces' \in [active : BOOLEAN, accepted : Nat, rejected : Nat]
            /\ nonces'.active = nonces.active
        BY <2>1, <2>3 DEF TestInv, TestNumbers
      <3>2. testStep = "loop"
        BY <2>3 DEF TestInv, Judged
      <3>3. Judged' /\ Found'
        BY <1>1, <3>1, <3>2 DEF TestInv, Judged, Found, AfterDomains, AfterHashrate
      <3> QED
        BY <1>1, <1>2, <2>1, <3>1, <3>3 DEF TestInv, TestNumbers
    <2>4. nonces.active \in BOOLEAN
      BY DEF TestInv, TestNumbers
    <2>5. \/ nonces' = nonces
          \/ nonces.active /\ \/ nonces' = [nonces EXCEPT !.accepted = nonces.accepted + 1]
                              \/ nonces' = [nonces EXCEPT !.rejected = nonces.rejected + 1]
      BY <1>3 DEF RecordNonce
    <2> QED
      BY <2>2, <2>3, <2>4, <2>5
  <1>4. CASE Measure
    <2>1. PICK d \in Domains, r \in Rates :
             measurements' = [measurements EXCEPT ![d] = [time |-> @.time + 1, rate |-> r]]
      BY <1>4 DEF Measure
    <2>2. measurements[d].time + 1 \in Nat /\ r \in Nat
      BY DEF TestInv, TestNumbers, Rates, Good
    <2>3. measurements' \in [Domains -> [time : Nat, rate : Nat]]
      BY <2>1, <2>2 DEF TestInv, TestNumbers
    <2>4. nonces' = nonces
      BY <1>4 DEF Measure
    <2> QED
      BY <1>1, <1>2, <2>3, <2>4 DEF TestInv, TestNumbers, Judged, Found
  <1> QED
    BY <1>3, <1>4

(* The steps that write the flag, the semaphore or the best difficulty. *)
LEMMA FlagKeeps ==
    ASSUME TestInv, SaveFlag \/ Mine \/ Passed \/ Failed \/ LongPress \/ UNCHANGED testVars
    PROVE  TestInv'
  <1>1. UNCHANGED <<result, powerVars, nonces, measurements, averages, failed>>
    BY DEF SaveFlag, Mine, Passed, Failed, LongPress, testVars
  <1>2. TestNumbers'
    BY <1>1 DEF TestInv, TestNumbers
  <1>3. \/ testStep' = testStep
        \/ testStep = "passed" /\ testStep' = "countdown"
        \/ testStep = "failed" /\ testStep' = "cancelled"
    BY DEF SaveFlag, Mine, Passed, Failed, LongPress, testVars
  <1>4. Judged'
    BY <1>1, <1>3 DEF TestInv, Judged, Verdicts
  <1>5. Found'
    BY <1>1, <1>3 DEF TestInv, Found, AfterDomains, AfterHashrate
  <1>6. Powered'
    BY <1>1, <1>3 DEF TestInv, Powered, Verdicts, powerVars
  <1>7. \/ factoryFlag' = factoryFlag /\ earned' = earned /\ flashFlag' \in {flashFlag, factoryFlag}
        \/ factoryFlag' = FALSE /\ flashFlag' = flashFlag /\ earned' \in {"pass", "press"}
    <2>1. CASE Passed
      <3>1. failed = {}
        BY <2>1 DEF Passed, TestInv, Judged
      <3> QED
        BY <2>1, <3>1 DEF Passed
    <2>2. CASE SaveFlag \/ Mine \/ Failed \/ LongPress \/ UNCHANGED testVars
      BY <2>2 DEF SaveFlag, Mine, Failed, LongPress, testVars
    <2> QED
      BY <2>1, <2>2
  <1>8. Flags'
    BY <1>7, Zenon DEF TestInv, Flags
  <1> QED
    BY <1>2, <1>4, <1>5, <1>6, <1>8 DEF TestInv

(* The power task, beside the test. *)
LEMMA PowerKeeps ==
    ASSUME TestInv, PowerNext
    PROVE  TestInv'
  <1>1. UNCHANGED <<steady>>
    BY DEF PowerNext, PowerWakes, PowerTurns, PowerOverheats, PowerRestarts
  <1>2. TestNumbers' /\ Judged' /\ Found'
    BY <1>1 DEF TestInv, TestNumbers, Judged, Found, steady
  <1>3. Flags'
    BY <1>1, Zenon DEF TestInv, Flags, steady, untouched
  <1>4. testStep' = testStep /\ (result = "none" <=> testStep \notin Verdicts)
    BY <1>1 DEF TestInv, Judged, Verdicts, steady
  <1>5. Powered'
    <2>1. CASE PowerWakes
      BY <1>4, <2>1 DEF PowerWakes, TestInv, Powered
    <2>2. CASE PowerTurns \/ PowerOverheats
      <3>1. /\ powerTask = "turn" /\ revived' = revived
            /\ chipOn' = chipOn \/ chipOn' = FALSE
        BY <2>2 DEF PowerTurns, PowerOverheats
      <3> QED
        BY <1>4, <3>1 DEF TestInv, Powered
    <2>3. CASE PowerRestarts
      <3>1. /\ powerTask = "cooling" /\ powerTask' = "asleep" /\ chipOn' \in BOOLEAN
            /\ revived' = IF result # "none" /\ chipOn' THEN revived + 1 ELSE revived
        BY <2>3 DEF PowerRestarts
      <3>2. revived = 0
        BY <3>1 DEF TestInv, Powered
      <3>3. CASE result # "none" /\ chipOn' = TRUE
        BY <1>4, <3>1, <3>2, <3>3 DEF Powered
      <3>4. CASE ~(result # "none" /\ chipOn' = TRUE)
        BY <1>4, <3>1, <3>2, <3>4 DEF Powered
      <3> QED
        BY <3>3, <3>4
    <2> QED
      BY <2>1, <2>2, <2>3 DEF PowerNext
  <1> QED
    BY <1>2, <1>3, <1>5 DEF TestInv

LEMMA NextTest ==
    ASSUME Expected \in Nat, TestInv, [TestNext]_testVars
    PROVE  TestInv'
  <1>1. CASE Reboot \/ Restart
    BY <1>1, BootKeeps DEF Reboot, Restart
  <1>2. CASE SaveFlag \/ Mine \/ Passed \/ Failed \/ LongPress \/ UNCHANGED testVars
    BY <1>2, FlagKeeps
  <1>3. CASE CheckHardware \/ SetUpWork
    BY <1>3, ListedKeeps
  <1>4. CASE StartMeasurement \/ HashLoop
    BY <1>4, MeasureKeeps
  <1>5. CASE CheckDomains \/ CheckHashrate \/ CheckReadings
    BY <1>5, JudgingKeeps
  <1>6. CASE RecordNonce \/ Measure
    BY <1>6, TasksKeep
  <1>7. CASE PowerNext
    BY <1>7, PowerKeeps
  <1> QED
    BY <1>1, <1>2, <1>3, <1>4, <1>5, <1>6, <1>7 DEF TestNext

(* TestEarned for any chip, length of test and number of boots: the flag in    *)
(* flash is cleared only by a whole pass or by the button, a test that failed  *)
(* a check never shows a pass, the chip is in reset under a verdict unless the *)
(* power task, in mid-turn when the test ended, has started it, once, and a    *)
(* pass had its nonces and a fresh sample of every domain.                     *)
THEOREM VerdictIsEarned ==
    ASSUME Expected \in Nat
    PROVE  TestSpec => []TestEarned
  <1>1. TestInit => TestInv
    <2> SUFFICES ASSUME TestInit
                 PROVE  TestInv
      OBVIOUS
    <2>1. TestNumbers
      BY DEF TestInit, TestNumbers, Average, Fresh
    <2>2. Judged /\ Found /\ Flags /\ Powered
      BY DEF TestInit, Judged, Found, Flags, Powered, Verdicts, AfterDomains, AfterHashrate
    <2> QED
      BY <2>1, <2>2 DEF TestInv
  <1>2. TestInv /\ [TestNext]_testVars => TestInv'
    BY NextTest
  <1>3. TestInv => TestEarned
    <2> SUFFICES ASSUME TestInv
                 PROVE  TestEarned
      OBVIOUS
    <2>1. nonces.active \in BOOLEAN
      BY DEF TestInv, TestNumbers
    <2>2. ~flashFlag => earned \in {"pass", "press"}
      BY Zenon DEF TestInv, Flags
    <2>3. failed # {} => result = "fail"
      BY DEF TestInv, Judged, Verdicts
    <2>4. result # "none" => testStep \in Verdicts /\ ~nonces.active
      BY <2>1 DEF TestInv, Judged, Verdicts
    <2>5. testStep \in Verdicts => revived <= 1 /\ (chipOn => revived = 1)
      BY DEF TestInv, Powered
    <2>6. result = "pass" => testStep \in {"passed", "countdown"}
      BY <2>4 DEF TestInv, Judged, Verdicts
    <2> QED
      BY <2>2, <2>3, <2>4, <2>5, <2>6 DEF TestEarned, TestInv, Found, AfterDomains, AfterHashrate
  <1> QED
    BY <1>1, <1>2, <1>3, PTL DEF TestSpec

-----------------------------------------------------------------------------
(* The number formats of the regulator.                                        *)

Floats == {v \in Nat : 32 <= v /\ v < 1024 * 1000}
Tens == 0 .. 1023
Times(v, i) == (v * Power(i)) \div 1000
Large(v) == {i \in 0 .. 15 : Times(v, i) >= 1024}

\* A word of an exponent, negated and in two's complement, and a mantissa.
Joined(e, m) == ((32 - e) % 32) * 2048 + m

LEMMA PowerIs ==
    /\ Power(0) = 1 /\ Power(15) = 32768
    /\ \A e \in 0 .. 15 : Power(e) \in Nat \ {0}
    /\ \A e \in 0 .. 14 : Power(e + 1) = 2 * Power(e)
  <1>1. /\ Power(0) = 1 /\ Power(1) = 2 /\ Power(2) = 4 /\ Power(3) = 8 /\ Power(4) = 16
        /\ Power(5) = 32 /\ Power(6) = 64 /\ Power(7) = 128 /\ Power(8) = 256 /\ Power(9) = 512
        /\ Power(10) = 1024 /\ Power(11) = 2048 /\ Power(12) = 4096 /\ Power(13) = 8192
        /\ Power(14) = 16384 /\ Power(15) = 32768
    BY SMT DEF Power
  <1>2. /\ 0 .. 15 = {0, 1, 2, 3, 4, 5, 6, 7, 8, 9, 10, 11, 12, 13, 14, 15}
        /\ 0 .. 14 = {0, 1, 2, 3, 4, 5, 6, 7, 8, 9, 10, 11, 12, 13, 14}
    BY SMT
  <1> QED
    BY <1>1, <1>2, SMT

LEMMA ThousandthsOf ==
    ASSUME NEW x \in Nat
    PROVE  x \div 1000 \in Nat /\ 1000 * (x \div 1000) <= x /\ x < 1000 * (x \div 1000) + 1000
  BY SMT

LEMMA QuotientOf ==
    ASSUME NEW x \in Nat, NEW p \in Nat \ {0}
    PROVE  x \div p \in Nat /\ p * (x \div p) <= x /\ x < p * (x \div p) + p
  BY SMT

(* Scaled up by a factor p to at least 512 and cut off there, a number v loses  *)
(* less than one part in 512 on the way back.                                  *)
LEMMA ScaledBack ==
    ASSUME NEW v \in Nat, NEW p \in Nat \ {0}, NEW m \in Nat, NEW b \in Nat, NEW k \in Nat,
           1000 * m <= v * p, v * p < 1000 * m + 1000, v * p >= 512 * 1000,
           p * b <= 1000 * m, 1000 * m < p * b + p, v < 512 * k + 512
    PROVE  b <= v /\ v - b <= k + 2
  <1>1. b <= v
    <2>1. p * b <= p * v
      BY SMT
    <2> QED
      BY <2>1, SMT
  <1>2. v - b <= k + 2
    <2> SUFFICES ASSUME v - b >= k + 3
                 PROVE  FALSE
      BY SMT
    <2>1. p * (v - b) >= p * (k + 3)
      BY SMT
    <2>2. p * v <= p * (512 * k + 512)
      BY SMT
    <2>3. /\ p * (v - b) = p * v - p * b /\ p * (k + 3) = p * k + 3 * p
          /\ p * (512 * k + 512) = 512 * (p * k) + 512 * p
      BY SMT
    <2> DEFINE a == p * v
               c == p * b
               d == p * k
    <2>4. a \in Nat /\ c \in Nat /\ d \in Nat /\ a = v * p
      BY SMT
    <2> HIDE DEF a, c, d
    <2> QED
      BY <2>1, <2>2, <2>3, <2>4, SMT DEF a, c, d
  <1> QED
    BY <1>1, <1>2

(* A word is taken apart into what it was joined from.                         *)
LEMMA JoinedParts ==
    ASSUME NEW e \in 0 .. 14, NEW m \in Tens
    PROVE  /\ e = 0 => Exponent(Joined(e, m)) = 0
           /\ e # 0 => Exponent(Joined(e, m)) < 0 /\ -Exponent(Joined(e, m)) = e
           /\ Mantissa(Joined(e, m)) = m
  <1> DEFINE f == (32 - e) % 32
             w == f * 2048 + m
  <1>1. f \in 0 .. 31 /\ (e = 0 => f = 0) /\ (e # 0 => f = 32 - e)
    BY SMT
  <1> HIDE DEF f
  <1>2. w \div 2048 = f /\ w % 2048 = m
    BY <1>1, SMT DEF Tens
  <1>3. Joined(e, m) = w
    BY DEF Joined, f
  <1> HIDE DEF w
  <1>4. (e = 0 => Exponent(w) = 0) /\ (e # 0 => Exponent(w) < 0 /\ -Exponent(w) = e)
    BY <1>1, <1>2, SMT DEF Exponent
  <1>5. Mantissa(w) = m
    BY <1>2, SMT DEF Mantissa, Tens
  <1> QED
    BY <1>3, <1>4, <1>5

(* float_2_slinear11 finds an exponent.                                        *)
LEMMA FloatIs ==
    ASSUME NEW v \in Floats
    PROVE  \E e \in 0 .. 14 : /\ Times(v, e) \in Tens /\ Times(v, e + 1) >= 1024
                              /\ Float2Slinear11(v) = Joined(e, Times(v, e))
  <1>1. v \in Nat /\ 32 <= v /\ v < 1024 * 1000
    BY SMT DEF Floats
  <1>2. \A i \in 0 .. 15 : Times(v, i) \in Nat
    <2> SUFFICES ASSUME NEW i \in 0 .. 15
                 PROVE  Times(v, i) \in Nat
      OBVIOUS
    <2>1. v * Power(i) \in Nat
      BY <1>1, PowerIs, SMT
    <2> QED
      BY <2>1, ThousandthsOf DEF Times
  <1>3. Times(v, 0) < 1024 /\ Times(v, 15) >= 1024
    <2>1. v * Power(0) = v /\ v * Power(15) = v * 32768
      BY <1>1, PowerIs, SMT
    <2>2. v \div 1000 < 1024 /\ (v * 32768) \div 1000 >= 1024
      BY <1>1, SMT
    <2> QED
      BY <2>1, <2>2 DEF Times
  <1> DEFINE S == Large(v)
  <1>4. 0 \notin S /\ 15 \in S /\ S \in SUBSET Nat
    BY <1>2, <1>3, SMT DEF Large
  <1>5. Min(S) \in S /\ \A q \in S : Min(S) <= q
    <2> HIDE DEF S
    <2>1. PICK m \in S : \A q \in S : m <= q
      BY <1>4, LeastOf
    <2> QED
      BY <2>1 DEF Min
  <1> DEFINE m == Min(S)
             e == m - 1
  <1>6. m \in 1 .. 15 /\ Times(v, m) >= 1024
    BY <1>4, <1>5 DEF Large
  <1>7. e \in 0 .. 14 /\ e \in 0 .. 15 /\ e + 1 = m /\ ~(m <= e)
    BY <1>6
  <1>8. e \notin S
    BY <1>5, <1>7
  <1>9. Times(v, e) \in Tens
    <2>1. Times(v, e) \in Nat
      BY <1>2, <1>7
    <2>2. ~(Times(v, e) >= 1024)
      <3> HIDE DEF e
      <3> QED
        BY <1>7, <1>8 DEF Large
    <2> HIDE DEF e
    <2> QED
      BY <2>1, <2>2, SMT DEF Tens
  <1>10. Float2Slinear11(v) = Joined(e, Times(v, e))
    <2>1. Large(v) = {i \in 0 .. 15 : (v * Power(i)) \div 1000 >= 1024}
      BY DEF Large, Times
    <2>2. ~(v <= 0) /\ S # {} /\ e # -1
      BY <1>1, <1>4, <1>7
    <2>3. Float2Slinear11(v) =
             IF v <= 0 \/ S = {} THEN 0
             ELSE IF e = -1 THEN 2048 + v \div 2000
             ELSE ((32 - e) % 32) * 2048 + (v * Power(e)) \div 1000
      BY <2>1 DEF Float2Slinear11
    <2> HIDE DEF S, m, e
    <2> QED
      BY <2>2, <2>3 DEF Joined, Times
  <1>11. Times(v, e + 1) >= 1024
    BY <1>6, <1>7
  <1> HIDE DEF e
  <1> QED
    BY <1>7, <1>9, <1>10, <1>11

(* slinear11_2_float of float_2_slinear11.                                     *)
LEMMA FloatBack ==
    ASSUME NEW v \in Floats
    PROVE  /\ Slinear2Float(Float2Slinear11(v)) <= v
           /\ v - Slinear2Float(Float2Slinear11(v)) <= v \div 512 + 2
  <1>1. PICK e \in 0 .. 14 : /\ Times(v, e) \in Tens /\ Times(v, e + 1) >= 1024
                             /\ Float2Slinear11(v) = Joined(e, Times(v, e))
    BY FloatIs
  <1> DEFINE p == Power(e)
             m == Times(v, e)
             w == Joined(e, m)
             b == (1000 * m) \div p
             k == v \div 512
  <1>2. /\ e = 0 => Exponent(w) = 0
        /\ e # 0 => Exponent(w) < 0 /\ -Exponent(w) = e
        /\ Mantissa(w) = m
    BY <1>1, JoinedParts
  <1>3. p \in Nat \ {0} /\ Power(e + 1) = 2 * p /\ Power(0) = 1
    BY PowerIs, SMT
  <1>4. m \in Nat /\ v \in Nat /\ k \in Nat /\ v < 512 * k + 512
    <2>1. m \in Nat
      BY <1>1, SMT DEF Tens
    <2>2. v \in Nat
      BY DEF Floats
    <2>3. k \in Nat /\ v < 512 * k + 512
      BY <2>2, SMT
    <2> QED
      BY <2>1, <2>2, <2>3
  <1>5. Slinear2Float(w) = b
    <2>1. CASE e = 0
      <3>1. Exponent(w) = 0 /\ p = 1
        BY <1>2, <1>3, <2>1
      <3>2. Slinear2Float(w) = 1000 * m * Power(0)
        BY <1>2, <3>1 DEF Slinear2Float
      <3>3. b = 1000 * m
        BY <3>1, <1>4, SMT
      <3> HIDE DEF m, b, w
      <3> QED
        BY <3>2, <3>3, <1>3, <1>4, SMT
    <2>2. CASE e # 0
      <3>1. ~(Exponent(w) >= 0) /\ -Exponent(w) = e
        <4>1. Exponent(w) \in Int
          <5>1. w \in Nat
            BY <1>4, SMT DEF Joined
          <5> HIDE DEF w
          <5> QED
            BY <5>1, SMT DEF Exponent
        <4> QED
          BY <1>2, <2>2, <4>1
      <3> QED
        BY <1>2, <3>1 DEF Slinear2Float
    <2> QED
      BY <2>1, <2>2
  <1>6. 1000 * m <= v * p /\ v * p < 1000 * m + 1000
    <2>1. v * p \in Nat
      BY <1>3, <1>4
    <2> QED
      BY <2>1, ThousandthsOf DEF Times
  <1>7. v * p >= 512 * 1000
    <2>1. v * Power(e + 1) = 2 * (v * p) /\ v * p \in Nat
      BY <1>3, <1>4
    <2>2. (2 * (v * p)) \div 1000 >= 1024
      BY <1>1, <2>1 DEF Times
    <2> DEFINE x == v * p
    <2> HIDE DEF x
    <2>3. x \in Nat /\ (2 * x) \div 1000 >= 1024
      BY <2>1, <2>2 DEF x
    <2>4. x >= 512 * 1000
      BY <2>3, SMT
    <2> QED
      BY <2>4 DEF x
  <1>8. b \in Nat /\ p * b <= 1000 * m /\ 1000 * m < p * b + p
    <2>1. 1000 * m \in Nat
      BY <1>4
    <2> HIDE DEF m, p
    <2> QED
      BY <2>1, <1>3, QuotientOf
  <1> HIDE DEF b, p, m, k, w
  <1>9. b <= v /\ v - b <= k + 2
    BY <1>3, <1>4, <1>6, <1>7, <1>8, ScaledBack
  <1> QED
    BY <1>1, <1>5, <1>9 DEF w, m, k

(* slinear11_2_int of int_2_slinear11: a number of ten bits is itself.          *)
LEMMA IntBack ==
    ASSUME NEW n \in Tens
    PROVE  Slinear2Float(Int2Slinear11(n)) = 1000 * n
  <1> DEFINE S == {i \in 0 .. 15 : n \div Power(i) < 1024}
  <1>1. n \in Nat /\ n < 1024 /\ Power(0) = 1
    BY PowerIs, SMT DEF Tens
  <1>2. n \div 1 = n
    BY <1>1, SMT
  <1>3. 0 \in S /\ S \in SUBSET Nat
    BY <1>1, <1>2
  <1>4. Min(S) = 0
    <2> HIDE DEF S
    <2>1. \A q \in S : 0 <= q
      BY <1>3
    <2>2. Min(S) \in S /\ \A q \in S : Min(S) <= q
      BY <1>3, <2>1 DEF Min
    <2>3. Min(S) \in Nat /\ Min(S) <= 0
      BY <1>3, <2>2
    <2> QED
      BY <2>3
  <1>5. Int2Slinear11(n) = IF S = {} THEN 0 ELSE Min(S) * 2048 + n \div Power(Min(S))
    BY DEF Int2Slinear11
  <1> HIDE DEF S
  <1>6. Int2Slinear11(n) = n
    <2>1. S # {}
      BY <1>3
    <2>2. Int2Slinear11(n) = 0 * 2048 + n \div 1
      BY <2>1, <1>1, <1>4, <1>5
    <2> QED
      BY <2>2, <1>1, <1>2, SMT
  <1>7. Exponent(n) = 0 /\ Mantissa(n) = n
    BY <1>1, SMT DEF Exponent, Mantissa
  <1>8. Slinear2Float(n) = 1000 * n * Power(0)
    BY <1>7 DEF Slinear2Float
  <1> QED
    BY <1>1, <1>6, <1>8, SMT

-----------------------------------------------------------------------------
(* Regulator.  The command that the chip holds is that of a voltage in range   *)
(* whenever the output is on or about to be turned on, and the number format   *)
(* is known before anything is written with it.                                *)

InRange(b, v) == v \in b.min .. b.max
Volts == 0 .. 4500
Stepped(v) == (v * 512) \div 1000
Known == {"turbo", "hex", "gamma"}

Commanded == \E v \in Nat : InRange(Board[family], v) /\ word["VOUT_COMMAND"] = Stepped(v)

RegInv ==
    /\ family \in Known
    /\ operation \in BOOLEAN /\ refused = FALSE
    /\ DOMAIN word = Registers /\ word = [r \in Registers |-> word[r]]
    /\ attempt \in Nat
    /\ regStep = "config" => attempt < Len(Config)
    /\ regStep \in {"config", "compensation", "ready", "command", "turnOn", "readBack"}
          => modeValid = TRUE
    /\ regStep = "command" => request \in Nat /\ InRange(Board[family], request)
    /\ operation \/ regStep = "turnOn" => Commanded

(* The configurations of the boards: the voltage of the start is in range, and *)
(* so is the least that the tuning limits hand out.                            *)
LEMMA BoardFacts ==
    ASSUME NEW f \in Known
    PROVE  /\ Board[f].min \in Nat /\ Board[f].max \in Nat /\ Board[f].max <= 4500
           /\ Board[f].command \in Nat /\ InRange(Board[f], Board[f].command)
           /\ Board[f].domains \in Nat /\ VoltageMin(Board[f]) \in Nat
           /\ InRange(Board[f], VoltageMin(Board[f]) * Board[f].domains)
  <1>1. CASE f = "turbo"
    BY <1>1 DEF Board, InRange, VoltageMin
  <1>2. CASE f = "hex"
    BY <1>2 DEF Board, InRange, VoltageMin
  <1>3. CASE f = "gamma"
    BY <1>3 DEF Board, InRange, VoltageMin
  <1> QED
    BY <1>1, <1>2, <1>3 DEF Known

LEMMA RangeFacts ==
    ASSUME NEW f \in Known, NEW v \in Nat, InRange(Board[f], v)
    PROVE  /\ v \in Volts /\ Board[f].min \in Nat /\ Board[f].max \in Nat
           /\ Board[f].min <= v /\ v <= Board[f].max
  <1> DEFINE b == Board[f]
  <1>1. b.min \in Nat /\ b.max \in Nat /\ b.max <= 4500
    BY BoardFacts
  <1>2. v \in b.min .. b.max
    BY DEF InRange
  <1> HIDE DEF b
  <1>3. b.min <= v /\ v <= b.max /\ v \in Volts
    BY <1>1, <1>2 DEF Volts
  <1> QED
    BY <1>1, <1>3 DEF b

(* The format loses less than two steps of a thousandth.                       *)
LEMMA UlinearBack ==
    ASSUME NEW v \in Volts
    PROVE  /\ modeValid = TRUE => Float2Ulinear16(v) = Stepped(v)
           /\ Ulinear2Float(Stepped(v)) \in v - 2 .. v
  <1> DEFINE w == Stepped(v)
  <1>1. w \in Nat /\ w < 65536 /\ 1000 * w <= v * 512 /\ v * 512 < 1000 * w + 1000
    BY DEF Volts, Stepped
  <1> HIDE DEF w
  <1>2. w % 65536 = w
    BY <1>1
  <1>3. (w * 1000) \div 512 \in v - 2 .. v
    BY <1>1 DEF Volts
  <1> QED
    BY <1>2, <1>3 DEF Ulinear2Float, Float2Ulinear16, w, Stepped

(* What the board asks of a register.  No register is written twice with        *)
(* different values, and every value is one its format can hold.                *)
Format(r) ==
    IF r \in {"FREQUENCY", "OT_WARN", "OT_FAULT", "TON_DELAY", "TON_RISE", "TON_MAX_FAULT",
             "TOFF_DELAY", "TOFF_FALL"} THEN "int"
    ELSE IF r \in {"VOUT_COMMAND", "VOUT_MAX", "VOUT_MIN", "VOUT_OV_FAULT", "VOUT_OV_WARN",
                   "MARGIN_HIGH", "MARGIN_LOW", "VOUT_UV_WARN", "VOUT_UV_FAULT"} THEN "volts"
    ELSE "float"

Limit(b) ==
    [FREQUENCY |-> 650, VIN_UV_WARN |-> b.uvWarn, VIN_ON |-> b.on, VIN_OFF |-> b.off,
     VIN_OV_FAULT |-> b.ov, SCALE_LOOP |-> b.scale, VOUT_COMMAND |-> b.command,
     VOUT_MAX |-> b.max, VOUT_MIN |-> b.min, VOUT_OV_FAULT |-> 1250, VOUT_OV_WARN |-> 1160,
     VOUT_UV_WARN |-> 900, VOUT_UV_FAULT |-> 750, IOUT_OC_WARN |-> b.ocWarn,
     IOUT_OC_FAULT |-> b.ocFault, OT_WARN |-> 105, OT_FAULT |-> 145, TON_RISE |-> 3,
     MARGIN_HIGH |-> 1100, MARGIN_LOW |-> 900, TON_DELAY |-> 0, TON_MAX_FAULT |-> 0,
     TOFF_DELAY |-> 0, TOFF_FALL |-> 0]

Holds(f, v) ==
    \/ f = "int" /\ v \in Tens
    \/ f = "float" /\ v \in Floats
    \/ f = "volts" /\ v \in Volts

Writes ==
    {c \in [reg : Registers, format : {"int", "float", "volts"}, value : Nat] :
        /\ c.format = Format(c.reg) /\ c.value = Limit(Board[family])[c.reg]
        /\ Holds(c.format, c.value)}

LEMMA WritesOnce ==
    ASSUME NEW c \in Writes, NEW d \in Writes, c.reg = d.reg
    PROVE  c = d
  <1>1. c.format = d.format /\ c.value = d.value
    BY DEF Writes
  <1>2. /\ c \in [reg : Registers, format : {"int", "float", "volts"}, value : Nat]
        /\ d \in [reg : Registers, format : {"int", "float", "volts"}, value : Nat]
    BY DEF Writes
  <1> QED
    BY <1>1, <1>2

LEMMA ConfigIs ==
    ASSUME family \in Known
    PROVE  Config \in Seq(Writes) /\ Len(Config) \in Nat /\ Len(Config) > 0
  <1> DEFINE b == Board[family]
             w1 == <<[reg |-> "FREQUENCY", format |-> "int", value |-> 650]>>
             w2 == IF b.uvWarn > 0
                   THEN <<[reg |-> "VIN_UV_WARN", format |-> "float", value |-> b.uvWarn]>>
                   ELSE <<>>
  <1>1. /\ b.uvWarn \in Nat /\ b.on \in Nat /\ b.off \in Nat /\ b.ov \in Nat /\ b.scale \in Nat
        /\ b.command \in Nat /\ b.max \in Nat /\ b.min \in Nat /\ b.ocWarn \in Nat
        /\ b.ocFault \in Nat
    <2>1. CASE family = "turbo"
      BY <2>1 DEF Board
    <2>2. CASE family = "hex"
      BY <2>2 DEF Board
    <2>3. CASE family = "gamma"
      BY <2>3 DEF Board
    <2> QED
      BY <2>1, <2>2, <2>3 DEF Known
  <1>8. /\ b.uvWarn > 0 => 32 <= b.uvWarn
        /\ b.uvWarn <= 55000
        /\ 32 <= b.on /\ b.on <= 55000 /\ 32 <= b.off /\ b.off <= 55000
        /\ 32 <= b.ov /\ b.ov <= 55000 /\ 32 <= b.scale /\ b.scale <= 55000
        /\ 32 <= b.ocWarn /\ b.ocWarn <= 55000 /\ 32 <= b.ocFault /\ b.ocFault <= 55000
        /\ b.command <= 4500 /\ b.max <= 4500 /\ b.min <= 4500
    <2>1. CASE family = "turbo"
      BY <2>1, SMT DEF Board
    <2>2. CASE family = "hex"
      BY <2>2, SMT DEF Board
    <2>3. CASE family = "gamma"
      BY <2>3, SMT DEF Board
    <2> QED
      BY <2>1, <2>2, <2>3 DEF Known
  <1> HIDE DEF b
  <1>0. /\ b.uvWarn > 0 => Holds("float", b.uvWarn)
        /\ Holds("float", b.on) /\ Holds("float", b.off) /\ Holds("float", b.ov)
        /\ Holds("float", b.scale) /\ Holds("float", b.ocWarn) /\ Holds("float", b.ocFault)
        /\ Holds("volts", b.command) /\ Holds("volts", b.max) /\ Holds("volts", b.min)
    <2>1. \A v \in Nat : 32 <= v /\ v <= 55000 => Holds("float", v)
      BY SMT DEF Holds, Floats
    <2>2. \A v \in Nat : v <= 4500 => Holds("volts", v)
      BY SMT DEF Holds, Volts
    <2> QED
      BY ONLY <1>1, <1>8, <2>1, <2>2, SMT
  <1> DEFINE E(r, f, v) == [reg |-> r, format |-> f, value |-> v]
  <1>6. \A r \in Registers, f \in {"int", "float", "volts"}, v \in Nat :
           f = Format(r) /\ v = Limit(b)[r] /\ Holds(f, v) => E(r, f, v) \in Writes
    BY DEF Writes, b
  <1>7. Board[family] = b
    BY DEF b
  <1>2. w1 \in Seq(Writes) /\ Len(w1) = 1
    <2>1. /\ "FREQUENCY" \in Registers /\ Format("FREQUENCY") = "int"
          /\ Limit(b)["FREQUENCY"] = 650 /\ Holds("int", 650)
      BY SMT DEF Registers, Format, Limit, Holds, Tens
    <2>2. E("FREQUENCY", "int", 650) \in Writes
      BY <2>1, <1>6, SMT
    <2> QED
      BY <2>2
  <1>3. w2 \in Seq(Writes) /\ Len(w2) \in Nat
    <2>1. /\ "VIN_UV_WARN" \in Registers /\ Format("VIN_UV_WARN") = "float"
          /\ Limit(b)["VIN_UV_WARN"] = b.uvWarn
      BY DEF Registers, Format, Limit
    <2>2. CASE b.uvWarn > 0
      <3>1. E("VIN_UV_WARN", "float", b.uvWarn) \in Writes
        BY <2>1, <2>2, <1>0, <1>1, <1>6
      <3> QED
        BY <2>2, <3>1
    <2>3. CASE ~(b.uvWarn > 0)
      BY <2>3
    <2> QED
      BY <2>2, <2>3
  <1>4. ASSUME NEW w \in Seq(Writes)
        PROVE  /\ (w1 \o w2) \o w \in Seq(Writes)
               /\ Len((w1 \o w2) \o w) = 1 + Len(w2) + Len(w)
    <2> HIDE DEF w1, w2
    <2>1. w1 \o w2 \in Seq(Writes) /\ Len(w1 \o w2) = Len(w1) + Len(w2)
      BY <1>2, <1>3, ConcatProperties, Zenon
    <2>2. /\ (w1 \o w2) \o w \in Seq(Writes)
          /\ Len((w1 \o w2) \o w) = Len(w1 \o w2) + Len(w)
      BY <2>1, ConcatProperties, Zenon
    <2> QED
      BY <1>2, <2>1, <2>2
  <1>5. PICK w \in Seq(Writes) : Config = (w1 \o w2) \o w
    <2>1. /\ Format("VIN_ON") = "float" /\ Format("VIN_OFF") = "float"
          /\ Format("VIN_OV_FAULT") = "float" /\ Format("SCALE_LOOP") = "float"
          /\ Format("VOUT_COMMAND") = "volts" /\ Format("VOUT_MAX") = "volts"
          /\ Format("VOUT_MIN") = "volts" /\ Format("VOUT_OV_FAULT") = "volts"
          /\ Format("VOUT_OV_WARN") = "volts" /\ Format("VOUT_UV_WARN") = "volts"
          /\ Format("VOUT_UV_FAULT") = "volts" /\ Format("IOUT_OC_WARN") = "float"
          /\ Format("IOUT_OC_FAULT") = "float" /\ Format("OT_WARN") = "int"
          /\ Format("OT_FAULT") = "int" /\ Format("TON_RISE") = "int"
          /\ Format("MARGIN_HIGH") = "volts" /\ Format("MARGIN_LOW") = "volts"
          /\ Format("TON_DELAY") = "int" /\ Format("TON_MAX_FAULT") = "int"
          /\ Format("TOFF_DELAY") = "int" /\ Format("TOFF_FALL") = "int"
      BY DEF Format
    <2>2. /\ Limit(b)["VIN_ON"] = b.on /\ Limit(b)["VIN_OFF"] = b.off
          /\ Limit(b)["VIN_OV_FAULT"] = b.ov /\ Limit(b)["SCALE_LOOP"] = b.scale
          /\ Limit(b)["VOUT_COMMAND"] = b.command /\ Limit(b)["VOUT_MAX"] = b.max
          /\ Limit(b)["VOUT_MIN"] = b.min /\ Limit(b)["VOUT_OV_FAULT"] = 1250
          /\ Limit(b)["VOUT_OV_WARN"] = 1160 /\ Limit(b)["VOUT_UV_WARN"] = 900
          /\ Limit(b)["VOUT_UV_FAULT"] = 750 /\ Limit(b)["IOUT_OC_WARN"] = b.ocWarn
          /\ Limit(b)["IOUT_OC_FAULT"] = b.ocFault /\ Limit(b)["OT_WARN"] = 105
          /\ Limit(b)["OT_FAULT"] = 145 /\ Limit(b)["TON_RISE"] = 3
          /\ Limit(b)["MARGIN_HIGH"] = 1100 /\ Limit(b)["MARGIN_LOW"] = 900
          /\ Limit(b)["TON_DELAY"] = 0 /\ Limit(b)["TON_MAX_FAULT"] = 0
          /\ Limit(b)["TOFF_DELAY"] = 0 /\ Limit(b)["TOFF_FALL"] = 0
      BY DEF Limit
    <2>5. /\ Holds("volts", 1250) /\ Holds("volts", 1160) /\ Holds("volts", 900)
          /\ Holds("volts", 750) /\ Holds("int", 105) /\ Holds("int", 145) /\ Holds("int", 3)
          /\ Holds("volts", 1100) /\ Holds("int", 0)
      BY SMT DEF Holds, Volts, Tens
    <2> HIDE DEF E
    <2> DEFINE w == <<E("VIN_ON", "float", b.on), E("VIN_OFF", "float", b.off),
          E("VIN_OV_FAULT", "float", b.ov), E("SCALE_LOOP", "float", b.scale),
          E("VOUT_COMMAND", "volts", b.command), E("VOUT_MAX", "volts", b.max),
          E("VOUT_MIN", "volts", b.min), E("VOUT_OV_FAULT", "volts", 1250),
          E("VOUT_OV_WARN", "volts", 1160), E("MARGIN_HIGH", "volts", 1100),
          E("MARGIN_LOW", "volts", 900), E("VOUT_UV_WARN", "volts", 900),
          E("VOUT_UV_FAULT", "volts", 750), E("IOUT_OC_WARN", "float", b.ocWarn),
          E("IOUT_OC_FAULT", "float", b.ocFault), E("OT_WARN", "int", 105),
          E("OT_FAULT", "int", 145), E("TON_DELAY", "int", 0), E("TON_RISE", "int", 3),
          E("TON_MAX_FAULT", "int", 0), E("TOFF_DELAY", "int", 0), E("TOFF_FALL", "int", 0)>>
    <2>3. w \in Seq(Writes)
      <3>1. /\ E("VIN_ON", "float", b.on) \in Writes
            /\ E("VIN_OFF", "float", b.off) \in Writes
            /\ E("VIN_OV_FAULT", "float", b.ov) \in Writes
            /\ E("SCALE_LOOP", "float", b.scale) \in Writes
            /\ E("VOUT_COMMAND", "volts", b.command) \in Writes
            /\ E("VOUT_MAX", "volts", b.max) \in Writes
            /\ E("VOUT_MIN", "volts", b.min) \in Writes
            /\ E("VOUT_OV_FAULT", "volts", 1250) \in Writes
            /\ E("VOUT_OV_WARN", "volts", 1160) \in Writes
            /\ E("VOUT_UV_WARN", "volts", 900) \in Writes
            /\ E("VOUT_UV_FAULT", "volts", 750) \in Writes
            /\ E("IOUT_OC_WARN", "float", b.ocWarn) \in Writes
            /\ E("IOUT_OC_FAULT", "float", b.ocFault) \in Writes
            /\ E("OT_WARN", "int", 105) \in Writes
            /\ E("OT_FAULT", "int", 145) \in Writes
            /\ E("TON_RISE", "int", 3) \in Writes
        BY <1>0, <1>1, <1>6, <2>1, <2>2, <2>5, SMT DEF Registers
      <3>2. /\ E("MARGIN_HIGH", "volts", 1100) \in Writes
            /\ E("MARGIN_LOW", "volts", 900) \in Writes
            /\ E("TON_DELAY", "int", 0) \in Writes
            /\ E("TON_MAX_FAULT", "int", 0) \in Writes
            /\ E("TOFF_DELAY", "int", 0) \in Writes
            /\ E("TOFF_FALL", "int", 0) \in Writes
        BY <1>6, <2>1, <2>2, <2>5, SMT DEF Registers
      <3> QED
        BY <3>1, <3>2
    <2>4. Config = (w1 \o w2) \o w
      BY Zenon DEF Config, b, E
    <2> HIDE DEF w, w1, w2
    <2> QED
      BY <2>3, <2>4
  <1> HIDE DEF w1, w2
  <1> QED
    BY <1>3, <1>4, <1>5

(* What a step leaves alone stays as it was.                                   *)
LEMMA ConfigFrame ==
    ASSUME family' = family
    PROVE  /\ Len(Config)' = Len(Config) /\ Board[family]' = Board[family]
           /\ word' = word => (Commanded' <=> Commanded)
  <1>1. Board[family]' = Board[family]
    BY DEF Board
  <1>2. Config' = Config
    BY <1>1 DEF Config
  <1>3. word' = word => (Commanded' <=> Commanded)
    BY <1>1 DEF Commanded
  <1> QED
    BY <1>1, <1>2, <1>3

LEMMA QuietReg ==
    ASSUME RegInv, family' = family, word' = word, refused' = refused,
           operation' \in BOOLEAN, operation' => operation,
           attempt' \in Nat, regStep' \notin {"config", "command", "turnOn"},
           regStep' \in {"compensation", "ready", "readBack"} => modeValid' = TRUE
    PROVE  RegInv'
  <1>1. operation' => Commanded'
    BY ConfigFrame DEF RegInv
  <1> QED
    BY <1>1 DEF RegInv

LEMMA StepReg ==
    ASSUME RegInv, Asked \subseteq Nat, RegNext
    PROVE  RegInv'
  <1>1. CASE ReadId
    <2>1. PICK ok \in BOOLEAN : Retried(ok, "off")
      BY <1>1 DEF ReadId
    <2>2. /\ regStep' \in {"id", "off", "failed"} /\ attempt' \in Nat
          /\ UNCHANGED <<family, word, operation, refused>>
      BY <1>1, <2>1 DEF ReadId, Retried, RegInv, chip, kept
    <2> QED
      BY <2>2, QuietReg DEF RegInv
  <1>2. CASE InitOff
    <2>1. operation' \in BOOLEAN /\ (operation' => operation)
      BY <1>2, Zenon DEF InitOff, RegInv
    <2> QED
      BY <1>2, <2>1, QuietReg DEF InitOff, RegInv, kept
  <1>3. CASE ReadVoutMode
    <2>1. PICK ok \in BOOLEAN : Retried(ok, "config") /\ modeValid' = ok
      BY <1>3 DEF ReadVoutMode
    <2>2. UNCHANGED <<family, word, operation, refused>>
      BY <1>3 DEF ReadVoutMode, chip, kept
    <2>3. CASE ok = TRUE
      <3>1. regStep' = "config" /\ attempt' = 0 /\ modeValid' = TRUE
        BY <2>1, <2>3 DEF Retried
      <3>2. 0 < Len(Config)'
        BY <2>2, ConfigIs, ConfigFrame DEF RegInv
      <3>3. operation' => Commanded'
        BY <2>2, ConfigFrame DEF RegInv
      <3> QED
        BY <2>2, <3>1, <3>2, <3>3 DEF RegInv
    <2>4. CASE ok = FALSE
      <3>1. regStep' \in {"mode", "failed"} /\ attempt' \in Nat
        BY <1>3, <2>1, <2>4 DEF Retried, ReadVoutMode, RegInv
      <3> QED
        BY <2>2, <3>1, QuietReg DEF RegInv
    <2> QED
      BY <2>3, <2>4
  <1>4. CASE WriteConfig
    <2> DEFINE c == Config[attempt + 1]
    <2>1. c \in Writes
      <3>1. attempt + 1 \in 1 .. Len(Config)
        BY <1>4, ConfigIs DEF WriteConfig, RegInv
      <3> QED
        BY <3>1, ConfigIs DEF RegInv
    <2> HIDE DEF c
    <2>2. /\ word' = word \/ word' = [word EXCEPT ![c.reg] = Encoded(c)]
          /\ UNCHANGED <<modeValid, operation, family, refused>> /\ modeValid = TRUE
      BY <1>4 DEF WriteConfig, RegInv, kept, c
    <2>3. Commanded => Commanded'
      <3>1. CASE word' = word
        BY <2>2, <3>1, ConfigFrame
      <3>2. CASE word' = [word EXCEPT ![c.reg] = Encoded(c)] /\ c.reg # "VOUT_COMMAND"
        <4>1. word'["VOUT_COMMAND"] = word["VOUT_COMMAND"]
          BY <3>2 DEF RegInv, Registers
        <4> QED
          BY <2>2, <4>1, ConfigFrame DEF Commanded
      <3>3. CASE word' = [word EXCEPT ![c.reg] = Encoded(c)] /\ c.reg = "VOUT_COMMAND"
        <4>1. c.format = "volts" /\ c.value = Board[family].command
          <5>1. /\ Format("VOUT_COMMAND") = "volts"
                /\ Limit(Board[family])["VOUT_COMMAND"] = Board[family].command
            BY DEF Format, Limit
          <5> QED
            BY <2>1, <3>3, <5>1 DEF Writes
        <4>2. Encoded(c) = Float2Ulinear16(Board[family].command)
          BY <4>1 DEF Encoded
        <4>3. family \in Known
          BY DEF RegInv
        <4>4. /\ Board[family].command \in Nat
              /\ InRange(Board[family], Board[family].command)
          BY <4>3, BoardFacts
        <4>5. Board[family].command \in Volts
          BY <4>3, <4>4, RangeFacts
        <4>6. Encoded(c) = Stepped(Board[family].command)
          BY <2>2, <4>2, <4>5, UlinearBack
        <4>7. word'["VOUT_COMMAND"] = Stepped(Board[family].command)
          BY <3>3, <4>6 DEF RegInv, Registers
        <4> QED
          BY <2>2, <4>4, <4>7, ConfigFrame DEF Commanded
      <3> QED
        BY <2>2, <3>1, <3>2, <3>3
    <2>4. /\ DOMAIN word' = Registers /\ word' = [r \in Registers |-> word'[r]]
      BY <2>2 DEF RegInv
    <2>5. /\ attempt' \in Nat /\ regStep' \in {"config", "compensation"}
          /\ regStep' = "config" => attempt' < Len(Config)
      BY <1>4, ConfigIs DEF WriteConfig, RegInv
    <2>6. regStep' = "config" => attempt' < Len(Config)'
      BY <2>2, <2>5, ConfigFrame
    <2>7. operation' => Commanded'
      BY <2>2, <2>3 DEF RegInv
    <2> QED
      BY <2>2, <2>4, <2>5, <2>6, <2>7 DEF RegInv
  <1>5. CASE InitEnds
    <2>1. regStep' \in {"ready", "failed"} /\ modeValid' = TRUE
      BY <1>5 DEF InitEnds, RegInv
    <2> QED
      BY <1>5, <2>1, QuietReg DEF InitEnds, RegInv, chip, kept
  <1>6. CASE SetVout
    <2>1. PICK core \in Asked \cup {0, VoltageMin(Board[family])} :
             LET volts == core * Board[family].domains
                 inRange == volts \in Board[family].min .. Board[family].max
             IN  \/ /\ core = 0
                    /\ \E ok \in BOOLEAN : Transfer(ok) /\ operation' = (operation /\ ~ok)
                    /\ UNCHANGED <<regStep, request, refused>>
                 \/ /\ core # 0 /\ ~inRange
                    /\ refused' = (refused \/ core = VoltageMin(Board[family]))
                    /\ UNCHANGED <<regStep, operation, request, glitches>>
                 \/ /\ core # 0 /\ inRange /\ regStep' = "command" /\ request' = volts
                    /\ UNCHANGED <<operation, refused, glitches>>
      BY <1>6, Zenon DEF SetVout
    <2>2. /\ UNCHANGED <<family, attempt, modeValid, word>> /\ modeValid = TRUE
          /\ regStep = "ready"
      BY <1>6 DEF SetVout, RegInv
    <2> DEFINE volts == core * Board[family].domains
    <2>3. /\ core \in Nat /\ volts \in Nat
          /\ core = VoltageMin(Board[family]) => InRange(Board[family], volts)
      <3>1. /\ Board[family].domains \in Nat /\ VoltageMin(Board[family]) \in Nat
            /\ InRange(Board[family], VoltageMin(Board[family]) * Board[family].domains)
        <4>1. family \in Known
          BY DEF RegInv
        <4> QED
          BY <4>1, BoardFacts
      <3>2. core \in Nat
        <4>1. core \in Asked \/ core = 0 \/ core = VoltageMin(Board[family])
          BY <2>1, Zenon
        <4>2. 0 \in Nat
          OBVIOUS
        <4> QED
          BY <3>1, <4>1, <4>2, Zenon
      <3> QED
        BY <3>1, <3>2
    <2> HIDE DEF volts
    <2>4. CASE core = 0 /\ (\E ok \in BOOLEAN : operation' = (operation /\ ~ok))
                 /\ UNCHANGED <<regStep, request, refused>>
      <3>1. operation' \in BOOLEAN /\ (operation' => operation)
        BY <2>4, Zenon DEF RegInv
      <3> QED
        BY <2>2, <2>4, <3>1, QuietReg DEF RegInv
    <2>5. CASE /\ ~InRange(Board[family], volts)
               /\ refused' = (refused \/ core = VoltageMin(Board[family]))
               /\ UNCHANGED <<regStep, operation>>
      <3>1. core # VoltageMin(Board[family])
        BY <2>3, <2>5
      <3>2. refused' = FALSE
        BY <2>5, <3>1 DEF RegInv
      <3> QED
        BY <2>2, <2>5, <3>2, QuietReg DEF RegInv
    <2>6. CASE /\ InRange(Board[family], volts) /\ regStep' = "command" /\ request' = volts
               /\ UNCHANGED <<operation, refused>>
      <3>1. operation' => Commanded'
        BY <2>2, <2>6, ConfigFrame DEF RegInv
      <3>2. request' \in Nat /\ InRange(Board[family], request)'
        BY <2>2, <2>3, <2>6, ConfigFrame DEF InRange
      <3> QED
        BY <2>2, <2>6, <3>1, <3>2 DEF RegInv
    <2> QED
      BY <2>1, <2>4, <2>5, <2>6 DEF volts, InRange
  <1>7. CASE SetCommand
    <2>1. /\ UNCHANGED <<attempt, modeValid, operation, family, refused>> /\ modeValid = TRUE
          /\ regStep = "command" /\ attempt \in Nat
          /\ request \in Nat /\ InRange(Board[family], request)
      BY <1>7 DEF SetCommand, RegInv, kept
    <2>2. \/ regStep' = "ready" /\ word' = word
          \/ /\ regStep' = "turnOn"
             /\ word' = [word EXCEPT !.VOUT_COMMAND = Float2Ulinear16(request)]
      BY <1>7 DEF SetCommand
    <2>3. CASE regStep' = "ready" /\ word' = word
      BY <2>1, <2>3, QuietReg DEF RegInv
    <2>4. CASE /\ regStep' = "turnOn"
               /\ word' = [word EXCEPT !.VOUT_COMMAND = Float2Ulinear16(request)]
      <3>1. family \in Known
        BY DEF RegInv
      <3>2. request \in Volts
        BY <2>1, <3>1, RangeFacts
      <3>3. Float2Ulinear16(request) = Stepped(request)
        BY <2>1, <3>2, UlinearBack
      <3>4. /\ DOMAIN word' = Registers /\ word' = [r \in Registers |-> word'[r]]
            /\ word'["VOUT_COMMAND"] = Stepped(request)
        BY <2>4, <3>3 DEF RegInv, Registers
      <3>5. Commanded'
        BY <2>1, <3>4, ConfigFrame DEF Commanded
      <3> QED
        BY <2>1, <2>4, <3>4, <3>5 DEF RegInv
    <2> QED
      BY <2>2, <2>3, <2>4
  <1>8. CASE TurnOn
    <2>1. PICK ok \in BOOLEAN : /\ operation' = (operation \/ ok)
                                /\ regStep' = IF ok THEN "readBack" ELSE "ready"
      BY <1>8 DEF TurnOn
    <2>2. operation' \in BOOLEAN /\ regStep' \in {"readBack", "ready"}
      BY <2>1, Zenon DEF RegInv
    <2>3. /\ UNCHANGED <<family, attempt, modeValid, word, refused>> /\ modeValid = TRUE
          /\ Commanded
      BY <1>8 DEF TurnOn, RegInv, kept
    <2>4. Commanded'
      BY <2>3, ConfigFrame
    <2> QED
      BY <2>2, <2>3, <2>4 DEF RegInv
  <1>9. CASE ReadBack
    BY <1>9, QuietReg DEF ReadBack, RegInv, chip, kept
  <1>10. CASE Read
    BY <1>10, QuietReg DEF Read, RegInv, chip, kept
  <1>11. CASE CheckStatus
    BY <1>11, QuietReg DEF CheckStatus, RegInv, chip, kept
  <1>12. CASE ChipTrips
    BY <1>12, QuietReg DEF ChipTrips, RegInv, chip, kept
  <1>13. CASE EspReset
    BY <1>13, QuietReg DEF EspReset, Booting, RegInv
  <1> QED
    BY <1>1, <1>2, <1>3, <1>4, <1>5, <1>6, <1>7, <1>8, <1>9, <1>10, <1>11, <1>12, <1>13
    DEF RegNext

LEMMA StutterReg ==
    ASSUME RegInv, UNCHANGED regVars
    PROVE  RegInv'
  <1>1. family' = family /\ word' = word
    BY DEF regVars
  <1>2. Len(Config)' = Len(Config) /\ Board[family]' = Board[family] /\ (Commanded' <=> Commanded)
    BY <1>1, ConfigFrame
  <1> QED
    BY <1>2 DEF RegInv, regVars, InRange

LEMMA RegInitially ==
    ASSUME Families \subseteq Known, RegInit
    PROVE  RegInv
  <1>1. DOMAIN word = Registers /\ word = [r \in Registers |-> word[r]]
    BY DEF RegInit
  <1> QED
    BY <1>1 DEF RegInit, RegInv

(* OutputAsAsked for any number of failed transfers and resets, and whatever   *)
(* voltages are asked for: an output that is on was commanded to a voltage of  *)
(* the board's range, although TPS546_write_entire_config ignores what fails,  *)
(* because VOUT_COMMAND is written before the output is turned on.             *)
THEOREM OutputIsAsAsked ==
    ASSUME Families \subseteq Known, Asked \subseteq Nat
    PROVE  RegSpec => []OutputAsAsked
  <1>1. RegInit => RegInv
    BY RegInitially
  <1>2. RegInv /\ [RegNext]_regVars => RegInv'
    BY StepReg, StutterReg
  <1>3. RegInv => OutputAsAsked
    <2> SUFFICES ASSUME RegInv PROVE OutputAsAsked
      OBVIOUS
    <2>1. CASE operation
      <3>1. PICK v \in Nat : /\ InRange(Board[family], v)
                             /\ word["VOUT_COMMAND"] = Stepped(v)
        BY <2>1 DEF RegInv, Commanded
      <3>2. /\ v \in Volts /\ Board[family].min \in Nat /\ Board[family].max \in Nat
            /\ Board[family].min <= v /\ v <= Board[family].max
        <4>1. family \in Known
          BY DEF RegInv
        <4> QED
          BY <3>1, <4>1, RangeFacts
      <3>3. Ulinear2Float(word["VOUT_COMMAND"]) \in v - 2 .. v
        BY <3>1, <3>2, UlinearBack
      <3>4. Ulinear2Float(word["VOUT_COMMAND"]) \in Board[family].min - 2 .. Board[family].max
        BY <3>2, <3>3
      <3> QED
        BY <3>4 DEF OutputAsAsked, RegInv
    <2>2. CASE ~operation
      BY <2>2 DEF OutputAsAsked, RegInv
    <2> QED
      BY <2>1, <2>2
  <1> QED
    BY <1>1, <1>2, <1>3, PTL DEF RegSpec

-----------------------------------------------------------------------------
(* The limits.  During TPS546_write_entire_config the registers written so far  *)
(* hold what was asked, unless their write failed; afterwards all of them do.   *)
(* Only TPS546_set_vout writes another one, VOUT_COMMAND.                       *)

Programmed(k) ==
    \A i \in 1 .. Len(Config) :
        i <= k => \/ Config[i].reg \in lost \cup {"VOUT_COMMAND"}
                  \/ word[Config[i].reg] = Encoded(Config[i])

Configured == {"compensation", "ready", "command", "turnOn", "readBack"}

LimitsInv ==
    /\ regStep = "config" => Programmed(attempt)
    /\ regStep \in Configured => Programmed(Len(Config))

LEMMA EncodedFrame ==
    ASSUME family' = family, modeValid' = modeValid
    PROVE  Config' = Config /\ \A c : Encoded(c)' = Encoded(c)
  <1>1. Config' = Config
    BY DEF Config, Board
  <1>2. \A c : Encoded(c)' = Encoded(c)
    BY DEF Encoded, Int2Slinear11, Float2Slinear11, Float2Ulinear16, Power
  <1> QED
    BY <1>1, <1>2

(* A step that keeps the registers, or writes VOUT_COMMAND alone.              *)
LEMMA LimitsStay ==
    ASSUME RegInv, LimitsInv, UNCHANGED <<family, modeValid>>,
           regStep \in Configured, regStep' \in Configured \cup {"failed"},
           \A r \in Registers \ {"VOUT_COMMAND"} : word'[r] = word[r] /\ (r \in lost => r \in lost')
    PROVE  LimitsInv'
  <1>1. Config' = Config /\ \A c : Encoded(c)' = Encoded(c)
    BY EncodedFrame
  <1>2. Programmed(Len(Config))
    BY DEF LimitsInv
  <1>3. Config \in Seq(Writes) /\ Len(Config) \in Nat
    BY ConfigIs DEF RegInv
  <1>4. ASSUME NEW i \in 1 .. Len(Config)
        PROVE  \/ Config[i].reg \in lost' \cup {"VOUT_COMMAND"}
               \/ word'[Config[i].reg] = Encoded(Config[i])
    <2> DEFINE r == Config[i].reg
    <2>1. r \in Registers
      <3>1. Config[i] \in Writes
        BY <1>3
      <3> QED
        BY <3>1 DEF Writes
    <2>2. r \in lost \cup {"VOUT_COMMAND"} \/ word[r] = Encoded(Config[i])
      BY <1>2, <1>3 DEF Programmed
    <2> HIDE DEF r
    <2>3. r \in lost' \cup {"VOUT_COMMAND"} \/ word'[r] = Encoded(Config[i])
      BY <2>1, <2>2
    <2> QED
      BY <2>3 DEF r
  <1>5. Programmed(Len(Config))'
    BY <1>1, <1>4 DEF Programmed
  <1>6. regStep' # "config"
    BY DEF Configured
  <1> QED
    BY <1>5, <1>6 DEF LimitsInv

(* One write of the configuration.                                             *)
LEMMA LimitWritten ==
    ASSUME RegInv, LimitsInv, WriteConfig
    PROVE  LimitsInv'
  <1> DEFINE n == Len(Config)
             c == Config[attempt + 1]
  <1>1. /\ Config \in Seq(Writes) /\ n \in Nat /\ attempt \in Nat /\ attempt < n
        /\ DOMAIN word = Registers /\ word = [r \in Registers |-> word[r]]
    BY ConfigIs DEF WriteConfig, RegInv
  <1>2. /\ Config' = Config /\ \A d : Encoded(d)' = Encoded(d)
    BY EncodedFrame DEF WriteConfig, kept
  <1>3. Programmed(attempt)
    BY DEF WriteConfig, LimitsInv
  <1>4. PICK ok \in BOOLEAN :
           /\ word' = IF ok THEN [word EXCEPT ![c.reg] = Encoded(c)] ELSE word
           /\ lost' = IF ok THEN lost \ {c.reg} ELSE lost \cup {c.reg}
    BY DEF WriteConfig
  <1>5. \A i \in 1 .. n : Config[i] \in Writes /\ Config[i].reg \in Registers
    <2>1. \A i \in 1 .. n : Config[i] \in Writes
      BY <1>1
    <2> QED
      BY <2>1 DEF Writes
  <1>6. attempt + 1 \in 1 .. n
    BY <1>1
  <1> HIDE DEF n
  <1>7. ASSUME NEW i \in 1 .. n, i <= attempt + 1
        PROVE  \/ Config[i].reg \in lost' \cup {"VOUT_COMMAND"}
               \/ word'[Config[i].reg] = Encoded(Config[i])
    <2> DEFINE d == Config[i]
    <2>1. c \in Writes /\ c.reg \in Registers /\ d \in Writes /\ d.reg \in Registers
      BY <1>5, <1>6
    <2>2. CASE d.reg = c.reg
      <3>1. d = c
        BY <2>1, <2>2, WritesOnce
      <3> HIDE DEF c, d
      <3>2. CASE ok
        <4>1. word'[c.reg] = Encoded(c)
          BY <1>1, <1>4, <2>1, <3>2
        <4> QED
          BY <3>1, <4>1 DEF d
      <3>3. CASE ~ok
        <4>1. c.reg \in lost'
          BY <1>4, <3>3
        <4> QED
          BY <3>1, <4>1 DEF d
      <3> QED
        BY <3>2, <3>3
    <2>3. CASE d.reg # c.reg
      <3>1. i # attempt + 1
        BY <2>3
      <3>2. i <= attempt
        BY <3>1, <1>1, <1>7 DEF n
      <3>3. d.reg \in lost \cup {"VOUT_COMMAND"} \/ word[d.reg] = Encoded(d)
        BY <3>2, <1>3 DEF Programmed, n
      <3> HIDE DEF c, d
      <3>4. word'[d.reg] = word[d.reg]
        BY <1>1, <1>4, <2>1, <2>3
      <3>5. d.reg \in lost => d.reg \in lost'
        BY <1>4, <2>3
      <3>6. d.reg \in lost' \cup {"VOUT_COMMAND"} \/ word'[d.reg] = Encoded(d)
        BY <3>3, <3>4, <3>5
      <3> QED
        BY <3>6 DEF d
    <2> QED
      BY <2>2, <2>3
  <1>8. CASE attempt + 1 = n
    <2>1. regStep' = "compensation"
      BY <1>8 DEF WriteConfig, n
    <2>2. \A i \in 1 .. n : i <= attempt + 1
      BY <1>1, <1>8 DEF n
    <2>3. Programmed(Len(Config))'
      BY <1>2, <1>7, <2>2 DEF Programmed, n
    <2> QED
      BY <2>1, <2>3 DEF LimitsInv
  <1>9. CASE attempt + 1 # n
    <2>1. regStep' = "config" /\ attempt' = attempt + 1
      BY <1>9 DEF WriteConfig, n
    <2>2. Programmed(attempt)'
      BY <1>2, <1>7, <2>1 DEF Programmed, n
    <2> QED
      BY <2>1, <2>2 DEF LimitsInv, Configured
  <1> QED
    BY <1>8, <1>9

LEMMA StepLimits ==
    ASSUME RegInv, LimitsInv, RegNext
    PROVE  LimitsInv'
  <1>1. ASSUME regStep' \in {"id", "off", "mode", "failed"}
        PROVE  LimitsInv'
    BY <1>1 DEF LimitsInv, Configured
  <1>2. ASSUME UNCHANGED <<family, modeValid, word, lost>>, regStep \in Configured,
               regStep' \in Configured \cup {"failed"}
        PROVE  LimitsInv'
    BY <1>2, LimitsStay
  <1>3. CASE ReadId
    <2>1. regStep' \in {"id", "off", "failed"}
      BY <1>3 DEF ReadId, Retried
    <2> QED
      BY <1>1, <2>1
  <1>4. CASE InitOff
    BY <1>1, <1>4 DEF InitOff
  <1>5. CASE ReadVoutMode
    <2>1. PICK ok \in BOOLEAN : Retried(ok, "config")
      BY <1>5 DEF ReadVoutMode
    <2>2. regStep' \in {"mode", "failed"} \/ (regStep' = "config" /\ attempt' = 0)
      BY <1>5, <2>1 DEF ReadVoutMode, Retried
    <2>3. ASSUME regStep' = "config", attempt' = 0
          PROVE  LimitsInv'
      <3>1. \A i \in 1 .. Len(Config)' : ~(i <= 0)
        <4>1. Len(Config)' = Len(Config) /\ Len(Config) \in Nat
          BY <1>5, ConfigIs, ConfigFrame DEF ReadVoutMode, RegInv, kept
        <4> QED
          BY <4>1
      <3>2. Programmed(attempt)'
        BY <2>3, <3>1 DEF Programmed
      <3> QED
        BY <2>3, <3>2 DEF LimitsInv, Configured
    <2> QED
      BY <1>1, <2>2, <2>3
  <1>6. CASE WriteConfig
    BY <1>6, LimitWritten
  <1>7. CASE InitEnds
    BY <1>2, <1>7 DEF InitEnds, chip, kept, Configured
  <1>8. CASE SetVout
    <2>1. regStep = "ready" /\ UNCHANGED <<family, modeValid, word, lost>>
      BY <1>8 DEF SetVout
    <2>2. regStep' \in {"ready", "command"}
      BY <1>8 DEF SetVout
    <2> QED
      BY <1>2, <2>1, <2>2 DEF Configured
  <1>9. CASE SetCommand
    <2>1. regStep = "command" /\ UNCHANGED <<family, modeValid>> /\ regStep' \in {"turnOn", "ready"}
      BY <1>9 DEF SetCommand, kept
    <2>2. PICK ok \in BOOLEAN :
             IF ok THEN /\ word' = [word EXCEPT !.VOUT_COMMAND = Float2Ulinear16(request)]
                        /\ lost' = lost \ {"VOUT_COMMAND"}
             ELSE UNCHANGED <<word, lost>>
      BY <1>9 DEF SetCommand
    <2>3. \A r \in Registers \ {"VOUT_COMMAND"} :
             word'[r] = word[r] /\ (r \in lost => r \in lost')
      BY <2>2 DEF RegInv
    <2> QED
      BY <2>1, <2>3, LimitsStay DEF Configured
  <1>10. CASE TurnOn
    BY <1>2, <1>10 DEF TurnOn, kept, Configured
  <1>11. CASE ReadBack
    BY <1>2, <1>11 DEF ReadBack, chip, kept, Configured
  <1>12. CASE Read
    BY <1>2, <1>12 DEF Read, chip, kept, Configured
  <1>13. CASE CheckStatus
    BY <1>2, <1>13 DEF CheckStatus, chip, kept, Configured
  <1>14. CASE ChipTrips
    BY <1>2, <1>14 DEF ChipTrips, chip, kept, Configured
  <1>15. CASE EspReset
    BY <1>1, <1>15 DEF EspReset, Booting
  <1> QED
    BY <1>3, <1>4, <1>5, <1>6, <1>7, <1>8, <1>9, <1>10, <1>11, <1>12, <1>13, <1>14, <1>15
    DEF RegNext

LEMMA StutterLimits ==
    ASSUME RegInv, LimitsInv, UNCHANGED regVars
    PROVE  LimitsInv'
  <1>1. /\ UNCHANGED <<family, modeValid, word, lost, regStep, attempt>>
    BY DEF regVars
  <1>2. Config' = Config /\ \A c : Encoded(c)' = Encoded(c)
    BY <1>1, EncodedFrame
  <1> QED
    BY <1>1, <1>2 DEF LimitsInv, Programmed

(* What was encoded for the chip reads back, whatever the format.              *)
LEMMA EncodedBack ==
    ASSUME modeValid = TRUE, NEW c \in Writes, word[c.reg] = Encoded(c)
    PROVE  ReadsBack(c)
  <1> DEFINE v == c.value
             w == word[c.reg]
             back == IF c.format = "volts" THEN Ulinear2Float(w) ELSE Slinear2Float(w)
             asked == IF c.format = "int" THEN 1000 * v ELSE v
  <1>1. Holds(c.format, v)
    BY DEF Writes
  <1> HIDE DEF v
  <1>2. CASE c.format = "int" /\ v \in Tens
    <2>1. w = Int2Slinear11(v) /\ back = Slinear2Float(w) /\ asked = 1000 * v
      BY <1>2 DEF Encoded, v
    <2>2. back = asked
      BY <1>2, <2>1, IntBack
    <2>3. asked \in Nat
      BY <1>2, <2>1, SMT DEF Tens
    <2> HIDE DEF asked, back
    <2>4. back <= asked /\ asked - back <= asked \div 512 + 2
      BY <2>2, <2>3, SMT
    <2> QED
      BY <2>4 DEF ReadsBack, back, asked, v
  <1>3. CASE c.format = "float" /\ v \in Floats
    <2>1. w = Float2Slinear11(v) /\ back = Slinear2Float(w) /\ asked = v
      BY <1>3 DEF Encoded, v
    <2>2. back <= asked /\ asked - back <= asked \div 512 + 2
      BY <1>3, <2>1, FloatBack
    <2> HIDE DEF asked, back
    <2> QED
      BY <2>2 DEF ReadsBack, back, asked, v
  <1>4. CASE c.format = "volts" /\ v \in Volts
    <2>1. w = Float2Ulinear16(v) /\ back = Ulinear2Float(w) /\ asked = v
      BY <1>4 DEF Encoded, v
    <2>2. back \in v - 2 .. v
      BY <1>4, <2>1, UlinearBack
    <2>3. v \in Nat
      <3>1. Volts \subseteq Nat
        BY SMT DEF Volts
      <3> QED
        BY <1>4, <3>1, Zenon
    <2> HIDE DEF asked, back
    <2>4. back <= asked /\ asked - back <= asked \div 512 + 2
      BY <2>1, <2>2, <2>3, SMT
    <2> QED
      BY <2>4 DEF ReadsBack, back, asked, v
  <1> QED
    BY <1>1, <1>2, <1>3, <1>4 DEF Holds

(* LimitsProgrammed for any number of failed transfers and resets: once the     *)
(* driver is ready, every limit whose write did not fail reads back from the    *)
(* chip as the board asks, to within one part in 512.                           *)
THEOREM LimitsAreProgrammed ==
    ASSUME Families \subseteq Known, Asked \subseteq Nat
    PROVE  RegSpec => []LimitsProgrammed
  <1>1. RegInit => RegInv /\ LimitsInv
    <2> SUFFICES ASSUME RegInit PROVE RegInv /\ LimitsInv
      OBVIOUS
    <2>1. RegInv
      BY RegInitially
    <2>2. LimitsInv
      BY DEF RegInit, LimitsInv, Configured
    <2> QED
      BY <2>1, <2>2
  <1>2. RegInv /\ LimitsInv /\ [RegNext]_regVars => RegInv' /\ LimitsInv'
    BY StepReg, StutterReg, StepLimits, StutterLimits
  <1>3. RegInv /\ LimitsInv => LimitsProgrammed
    <2> SUFFICES ASSUME RegInv, LimitsInv,
                        regStep \in {"ready", "command", "turnOn", "readBack"},
                        NEW i \in DOMAIN Config, Config[i].reg \notin lost \cup {"VOUT_COMMAND"}
                 PROVE  ReadsBack(Config[i])
      BY DEF LimitsProgrammed
    <2>1. Config \in Seq(Writes) /\ Len(Config) \in Nat /\ i \in 1 .. Len(Config) /\ i <= Len(Config)
      BY ConfigIs DEF RegInv
    <2>2. word[Config[i].reg] = Encoded(Config[i])
      BY <2>1 DEF LimitsInv, Programmed, Configured
    <2>3. modeValid = TRUE
      BY DEF RegInv
    <2>4. Config[i] \in Writes
      BY <2>1
    <2> QED
      BY <2>2, <2>3, <2>4, EncodedBack
  <1> QED
    BY <1>1, <1>2, <1>3, PTL DEF RegSpec

-----------------------------------------------------------------------------
(* The statistics: a buffer of at least two samples.                           *)

SampleConstants == SampleCount \in Nat /\ SampleCount >= 2

Ascending(s) ==
    /\ s \in [1 .. SampleCount -> Nat]
    /\ \A i, j \in 1 .. SampleCount : i < j => s[i] < s[j]

Span(span) ==
    /\ span = <<span[1], span[2]>>
    /\ span[1] \in Nat /\ span[2] \in Nat
    /\ 2 <= span[1] /\ span[1] <= span[2] /\ span[2] <= SampleCount

LEMMA Middle ==
    ASSUME NEW a \in Nat, NEW b \in Nat, a <= b
    PROVE  (a + b) \div 2 \in Nat /\ (a + b) \div 2 <= b
  OBVIOUS

(* One turn of the while loop stays in the buffer and makes progress.          *)
LEMMA HalvedSpan ==
    ASSUME SampleConstants, NEW s, Ascending(s), NEW span, Span(span)
    PROVE  /\ Span(Halved(s, span))
           /\ span[2] - span[1] > 1 =>
                Halved(s, span)[2] - Halved(s, span)[1] < span[2] - span[1]
           /\ span[2] - span[1] <= 1 => Halved(s, span) = span
  <1> DEFINE low == span[1]
             high == span[2]
             mid == (s[low] + s[high]) \div 2
             at == CHOOSE i \in low .. high : s[i] >= mid /\ \A j \in low .. i - 1 : s[j] < mid
             split == IF at = low THEN low + 1 ELSE at
             next == IF split - low > high - split + 1 THEN <<low, split - 1>> ELSE <<split, high>>
  <1>1. /\ low \in Nat /\ high \in Nat /\ 2 <= low /\ low <= high /\ high <= SampleCount
        /\ SampleCount \in Nat
    BY DEF Span, SampleConstants
  <1>2. Halved(s, span) = IF high - low <= 1 THEN span ELSE next
    BY DEF Halved
  <1>3. CASE high - low <= 1
    <2>1. Halved(s, span) = span
      BY <1>2, <1>3
    <2> QED
      BY <2>1, <1>1, <1>3
  <1>4. CASE high - low > 1
    <2>1. /\ low \in 1 .. SampleCount /\ high \in 1 .. SampleCount /\ low < high
          /\ low .. high \subseteq 1 .. SampleCount
      BY <1>1, <1>4
    <2>2. s[low] \in Nat /\ s[high] \in Nat /\ s[low] <= s[high]
      BY <2>1 DEF Ascending
    <2>3. mid \in Nat /\ s[high] >= mid
      <3>1. \A a, b \in Nat : a <= b => (a + b) \div 2 \in Nat /\ (a + b) \div 2 <= b
        BY Middle
      <3> QED
        BY <2>2, <3>1
    <2> HIDE DEF mid
    <2> DEFINE Late == {i \in low .. high : s[i] >= mid}
    <2>4. high \in Late /\ Late \subseteq Nat
      BY <1>1, <2>3
    <2>5. PICK m \in Late : \A q \in Late : m <= q
      <3> HIDE DEF Late
      <3>1. Late \in SUBSET Nat /\ Late # {}
        BY <2>4
      <3> QED
        BY <3>1, LeastOf
    <2>6. m \in low .. high /\ s[m] >= mid /\ \A j \in low .. m - 1 : s[j] < mid
      <3>1. m \in low .. high /\ s[m] >= mid
        BY <2>5
      <3>2. ASSUME NEW j \in low .. m - 1
            PROVE  s[j] < mid
        <4>1. j \in low .. high /\ j < m
          BY <1>1, <3>1
        <4>2. j \notin Late
          BY <2>5, <4>1, <1>1
        <4>3. s[j] \in Nat
          BY <4>1, <2>1 DEF Ascending
        <4> QED
          BY <4>1, <4>2, <4>3, <2>3
      <3> QED
        BY <3>1, <3>2
    <2>7. at \in low .. high
      BY <2>6
    <2> HIDE DEF at
    <2>8. split \in low + 1 .. high
      BY <2>7, <1>1, <1>4
    <2> HIDE DEF split
    <2>9. CASE split - low > high - split + 1
      <3>1. Halved(s, span) = <<low, split - 1>>
        BY <1>1, <1>2, <1>4, <2>9, <2>8
      <3> QED
        BY <3>1, <2>8, <1>1, <1>4 DEF Span
    <2>10. CASE ~(split - low > high - split + 1)
      <3>1. Halved(s, span) = <<split, high>>
        BY <1>1, <1>2, <1>4, <2>10, <2>8
      <3> QED
        BY <3>1, <2>8, <1>1, <1>4 DEF Span
    <2> QED
      BY <2>9, <2>10
  <1> QED
    BY <1>1, <1>3, <1>4

Turns(s, n, g) ==
    g = [k \in 0 .. n |-> IF k = 0 THEN <<2, SampleCount>> ELSE Halved(s, g[k - 1])]

(* The equations of the search have a solution of every length.                *)
LEMMA TurnsExist ==
    ASSUME NEW s, NEW n \in Nat
    PROVE  \E g : Turns(s, n, g)
  <1> DEFINE Bad == {m \in Nat : ~ \E g : Turns(s, m, g)}
  <1> SUFFICES ASSUME Bad # {}
               PROVE  FALSE
    OBVIOUS
  <1>1. PICK m \in Bad : \A q \in Bad : m <= q
    BY LeastOf
  <1>2. m # 0
    <2> SUFFICES \E g : Turns(s, 0, g)
      BY <1>1
    <2> DEFINE g == [k \in 0 .. 0 |-> <<2, SampleCount>>]
    <2>1. Turns(s, 0, g)
      BY DEF Turns
    <2> QED
      BY <2>1
  <1>3. m - 1 \in Nat /\ m - 1 \notin Bad
    BY <1>1, <1>2
  <1>4. PICK g : Turns(s, m - 1, g)
    BY <1>3
  <1> DEFINE h == [k \in 0 .. m |-> IF k = m THEN Halved(s, g[m - 1]) ELSE g[k]]
  <1>5. \A k \in 0 .. m : h[k] = IF k = 0 THEN <<2, SampleCount>> ELSE Halved(s, h[k - 1])
    <2> SUFFICES ASSUME NEW k \in 0 .. m
                 PROVE  h[k] = IF k = 0 THEN <<2, SampleCount>> ELSE Halved(s, h[k - 1])
      OBVIOUS
    <2>1. CASE k = m
      <3>1. k - 1 \in 0 .. m /\ k - 1 # m /\ k # 0
        BY <1>2, <1>3, <2>1
      <3>2. h[k - 1] = g[m - 1]
        BY <3>1, <2>1
      <3> QED
        BY <3>1, <3>2, <2>1
    <2>2. CASE k # m
      <3>1. k \in 0 .. m - 1 /\ h[k] = g[k]
        BY <2>2, <1>3
      <3>2. g[k] = IF k = 0 THEN <<2, SampleCount>> ELSE Halved(s, g[k - 1])
        BY <3>1, <1>4 DEF Turns
      <3>3. k # 0 => h[k - 1] = g[k - 1]
        BY <3>1, <1>3
      <3> QED
        BY <3>1, <3>2, <3>3
    <2> QED
      BY <2>1, <2>2
  <1>6. Turns(s, m, h)
    <2>1. h = [k \in 0 .. m |-> h[k]]
      OBVIOUS
    <2> HIDE DEF h
    <2> QED
      BY <2>1, <1>5 DEF Turns
  <1> QED
    BY <1>1, <1>6

LEMMA SearchTurns ==
    ASSUME SampleConstants, NEW s
    PROVE  Turns(s, SampleCount, Search(s))
  <1>1. \E g : Turns(s, SampleCount, g)
    BY TurnsExist DEF SampleConstants
  <1>2. \E g : g = [n \in 0 .. SampleCount |->
                       IF n = 0 THEN <<2, SampleCount>> ELSE Halved(s, g[n - 1])]
    BY <1>1 DEF Turns
  <1> QED
    BY <1>2 DEF Turns, Search

(* The search stays in the buffer, and ends: a turn leaves at most two samples *)
(* or fewer than before, so after as many turns as samples none changes it.    *)
THEOREM SearchEnds ==
    ASSUME SampleConstants, NEW s, Ascending(s)
    PROVE  /\ Densest(s) \in 2 .. SampleCount
           /\ Search(s)[SampleCount][2] - Densest(s) <= 1
  <1> DEFINE f == Search(s)
             Kept(n) == Span(f[n]) /\ (f[n][2] - f[n][1] <= 1 \/ f[n][2] - f[n][1] <= SampleCount - n)
             Bad == {n \in 0 .. SampleCount : ~Kept(n)}
  <1>0. SampleCount \in Nat /\ SampleCount >= 2
    BY DEF SampleConstants
  <1>1. \A n \in 0 .. SampleCount : f[n] = IF n = 0 THEN <<2, SampleCount>> ELSE Halved(s, f[n - 1])
    BY SearchTurns DEF Turns
  <1> HIDE DEF f
  <1>2. Bad = {}
    <2> SUFFICES ASSUME Bad # {}
                 PROVE  FALSE
      OBVIOUS
    <2>1. PICK n \in Bad : \A q \in Bad : n <= q
      <3>1. Bad \subseteq Nat
        BY <1>0
      <3> HIDE DEF Bad
      <3> QED
        BY <3>1, LeastOf
    <2>2. Kept(0)
      BY <1>0, <1>1 DEF Span
    <2>3. n # 0 /\ n \in 1 .. SampleCount /\ n - 1 \in 0 .. SampleCount
      BY <1>0, <2>1, <2>2
    <2>4. Kept(n - 1)
      BY <2>1, <2>3
    <2>5. f[n] = Halved(s, f[n - 1])
      BY <1>1, <2>3
    <2>6. Span(f[n]) /\ Span(f[n - 1])
      BY <2>4, <2>5, HalvedSpan
    <2>7. f[n - 1][2] - f[n - 1][1] > 1 => f[n][2] - f[n][1] < f[n - 1][2] - f[n - 1][1]
      BY <2>4, <2>5, HalvedSpan
    <2>8. f[n - 1][2] - f[n - 1][1] <= 1 => f[n] = f[n - 1]
      BY <2>4, <2>5, HalvedSpan
    <2>9. f[n][2] - f[n][1] <= 1 \/ f[n][2] - f[n][1] <= SampleCount - n
      <3> DEFINE a == f[n - 1][1]
                 b == f[n - 1][2]
                 c == f[n][1]
                 d == f[n][2]
      <3>1. a \in Nat /\ b \in Nat /\ c \in Nat /\ d \in Nat
        BY <2>6 DEF Span
      <3>2. (b - a > 1 => d - c < b - a) /\ (b - a <= 1 => d = b /\ c = a)
        BY <2>7, <2>8
      <3>3. b - a <= 1 \/ b - a <= SampleCount - (n - 1)
        BY <2>4
      <3> HIDE DEF a, b, c, d
      <3>4. d - c <= 1 \/ d - c <= SampleCount - n
        BY <3>1, <3>2, <3>3, <2>3, <1>0
      <3> QED
        BY <3>4 DEF c, d
    <2>10. Kept(n)
      BY <2>6, <2>9
    <2> QED
      BY <2>1, <2>10
  <1>3. Kept(SampleCount)
    BY <1>0, <1>2
  <1> QED
    BY <1>0, <1>3 DEF Densest, Span, f

-----------------------------------------------------------------------------
(* What a reader has not been sent yet is younger than what it has: the samples *)
(* only move towards the front, past the reader.                               *)
SamplesInv ==
    /\ samples \in Seq(Nat) /\ Len(samples) <= SampleCount /\ clock \in Nat
    /\ \A i, j \in DOMAIN samples : i < j => samples[i] < samples[j]
    /\ \A i \in DOMAIN samples : samples[i] <= clock
    /\ reader \in [index : Nat, last : Int] /\ reader.last <= clock
    /\ \A j \in DOMAIN samples : reader.index < j => reader.last < samples[j]
    /\ disorder = FALSE

LEMMA SamplesInitially ==
    ASSUME SampleConstants, RecordsInit
    PROVE  SamplesInv
  BY DEF SampleConstants, RecordsInit, SamplesInv, NotReading

(* addStatisticData on a full buffer: one sample is taken out, and the others   *)
(* close up behind it.                                                         *)
LEMMA ThinnedIs ==
    ASSUME SampleConstants, SamplesInv, Len(samples) = SampleCount, NEW t \in Nat, clock < t
    PROVE  /\ Thinned(t) \in Seq(Nat) /\ Len(Thinned(t)) = SampleCount
           /\ \A i, j \in DOMAIN Thinned(t) : i < j => Thinned(t)[i] < Thinned(t)[j]
           /\ \A i \in DOMAIN Thinned(t) : Thinned(t)[i] <= t
           /\ \A j \in DOMAIN Thinned(t) : reader.index < j => reader.last < Thinned(t)[j]
  <1>1. SampleCount \in Nat /\ SampleCount >= 2 /\ DOMAIN samples = 1 .. SampleCount
    BY DEF SampleConstants, SamplesInv
  <1>2. Ascending(samples)
    <2>1. samples \in Seq(Nat) /\ \A i, j \in DOMAIN samples : i < j => samples[i] < samples[j]
      BY DEF SamplesInv
    <2>2. samples \in [1 .. SampleCount -> Nat]
      BY <2>1, <1>1
    <2> QED
      BY <2>1, <2>2, <1>1 DEF Ascending
  <1> DEFINE gone == IF t - samples[1] >= SampleCount * Frequency THEN 1 ELSE Densest(samples)
             rest(i) == IF i < gone THEN samples[i] ELSE samples[i + 1]
             new == [i \in 1 .. SampleCount |-> IF i = SampleCount THEN t ELSE rest(i)]
  <1>3. gone \in 1 .. SampleCount
    <2>1. Densest(samples) \in 2 .. SampleCount
      BY <1>2, SearchEnds
    <2> QED
      BY <1>1, <2>1
  <1>4. Thinned(t) = new
    BY DEF Thinned
  <1> HIDE DEF gone
  <1>5. \A i \in 1 .. SampleCount - 1 :
            /\ rest(i) \in Nat /\ rest(i) <= clock
            /\ reader.index < i => reader.last < rest(i)
    <2> SUFFICES ASSUME NEW i \in 1 .. SampleCount - 1
                 PROVE  /\ rest(i) \in Nat /\ rest(i) <= clock
                        /\ reader.index < i => reader.last < rest(i)
      OBVIOUS
    <2>1. i \in DOMAIN samples /\ i + 1 \in DOMAIN samples
      BY <1>1
    <2>2. reader.index \in Nat
      BY DEF SamplesInv
    <2>3. reader.index < i => reader.index < i + 1
      BY <2>2, <1>1
    <2> QED
      BY <2>1, <2>3 DEF SamplesInv
  <1>6. \A i, j \in 1 .. SampleCount - 1 : i < j => rest(i) < rest(j)
    <2> SUFFICES ASSUME NEW i \in 1 .. SampleCount - 1, NEW j \in 1 .. SampleCount - 1, i < j
                 PROVE  rest(i) < rest(j)
      OBVIOUS
    <2>1. /\ i \in 1 .. SampleCount /\ j \in 1 .. SampleCount
          /\ i + 1 \in 1 .. SampleCount /\ j + 1 \in 1 .. SampleCount
          /\ i < j /\ i + 1 < j + 1 /\ i < j + 1 /\ (j < gone => i < gone)
      BY <1>1, <1>3
    <2>2. samples[i] < samples[j] /\ samples[i + 1] < samples[j + 1] /\ samples[i] < samples[j + 1]
      BY <2>1, <1>2 DEF Ascending
    <2> QED
      BY <2>1, <2>2
  <1> HIDE DEF rest
  <1>7. \A i \in 1 .. SampleCount : i = SampleCount \/ i \in 1 .. SampleCount - 1
    BY <1>1
  <1>8. /\ DOMAIN new = 1 .. SampleCount /\ new[SampleCount] = t
        /\ \A i \in 1 .. SampleCount - 1 : new[i] = rest(i)
    BY <1>1
  <1> HIDE DEF new
  <1>9. clock \in Nat /\ reader.last \in Int /\ reader.last <= clock
    BY DEF SamplesInv
  <1>10. \A i \in 1 .. SampleCount : new[i] \in Nat /\ new[i] <= t
    BY <1>5, <1>7, <1>8, <1>9
  <1>11. \A i, j \in 1 .. SampleCount : i < j => new[i] < new[j]
    <2> SUFFICES ASSUME NEW i \in 1 .. SampleCount, NEW j \in 1 .. SampleCount, i < j
                 PROVE  new[i] < new[j]
      OBVIOUS
    <2>1. i \in 1 .. SampleCount - 1 /\ (j = SampleCount \/ j \in 1 .. SampleCount - 1)
      BY <1>1
    <2>2. rest(i) \in Nat /\ rest(i) <= clock
      BY <2>1, <1>5
    <2> QED
      BY <2>1, <2>2, <1>6, <1>8, <1>9
  <1>12. \A j \in 1 .. SampleCount : reader.index < j => reader.last < new[j]
    BY <1>5, <1>7, <1>8, <1>9
  <1>13. new \in Seq(Nat) /\ Len(new) = SampleCount
    <2>1. new \in [1 .. SampleCount -> Nat]
      BY <1>8, <1>10 DEF new
    <2> QED
      BY <2>1, <1>1, SeqDef, LenProperties
  <1> QED
    BY <1>4, <1>8, <1>10, <1>11, <1>12, <1>13

LEMMA SampleAdded ==
    ASSUME SampleConstants, SamplesInv, AddSample
    PROVE  SamplesInv'
  <1>1. clock \in Nat /\ clock' \in Nat /\ clock < clock'
    <2>1. PICK late \in {1, 2} : clock' = clock + late
      BY DEF AddSample
    <2> QED
      BY <2>1 DEF SamplesInv
  <1>2. reader' = reader /\ disorder' = FALSE
    BY DEF AddSample, SamplesInv
  <1>3. reader \in [index : Nat, last : Int] /\ reader.last <= clock'
    BY <1>1 DEF SamplesInv
  <1>4. CASE Len(samples) < SampleCount
    <2>1. samples' = Append(samples, clock')
      BY <1>4 DEF AddSample
    <2>2. /\ samples \in Seq(Nat) /\ Len(samples) \in Nat /\ SampleCount \in Nat
          /\ samples' \in Seq(Nat) /\ Len(samples') = Len(samples) + 1
          /\ DOMAIN samples' = 1 .. Len(samples) + 1 /\ DOMAIN samples = 1 .. Len(samples)
          /\ samples'[Len(samples) + 1] = clock'
          /\ \A i \in 1 .. Len(samples) : samples'[i] = samples[i]
      BY <1>1, <2>1 DEF SamplesInv, SampleConstants
    <2>3. \A i \in 1 .. Len(samples) : samples'[i] \in Nat /\ samples'[i] <= clock
      <3>1. \A i \in DOMAIN samples : samples[i] \in Nat
        BY <2>2
      <3>2. \A i \in DOMAIN samples : samples[i] <= clock
        BY DEF SamplesInv
      <3> QED
        BY <2>2, <3>1, <3>2
    <2>4. \A i \in 1 .. Len(samples) + 1 : i = Len(samples) + 1 \/ i \in 1 .. Len(samples)
      BY <2>2
    <2>5. \A i, j \in DOMAIN samples' : i < j => samples'[i] < samples'[j]
      <3> SUFFICES ASSUME NEW i \in DOMAIN samples', NEW j \in DOMAIN samples', i < j
                   PROVE  samples'[i] < samples'[j]
        OBVIOUS
      <3>1. i \in 1 .. Len(samples)
        BY <2>2
      <3>2. CASE j = Len(samples) + 1
        BY <3>1, <3>2, <2>2, <2>3, <1>1
      <3>3. CASE j \in 1 .. Len(samples)
        BY <3>1, <3>3, <2>2 DEF SamplesInv
      <3> QED
        BY <2>2, <2>4, <3>2, <3>3
    <2>6. \A i \in DOMAIN samples' : samples'[i] <= clock'
      BY <2>2, <2>3, <2>4, <1>1
    <2>7. \A j \in DOMAIN samples' : reader.index < j => reader.last < samples'[j]
      <3>1. \A j \in 1 .. Len(samples) : reader.index < j => reader.last < samples'[j]
        BY <2>2 DEF SamplesInv
      <3>2. reader.last < clock'
        BY <1>1, <1>3 DEF SamplesInv
      <3> QED
        BY <3>1, <3>2, <2>2, <2>4
    <2>8. Len(samples') <= SampleCount
      BY <2>2, <1>4
    <2> QED
      BY <1>1, <1>2, <1>3, <2>2, <2>5, <2>6, <2>7, <2>8 DEF SamplesInv
  <1>5. CASE Len(samples) = SampleCount
    <2>1. samples' = Thinned(clock')
      <3>1. ~(Len(samples) < SampleCount)
        BY <1>5 DEF SampleConstants
      <3> QED
        BY <3>1 DEF AddSample
    <2>2. /\ samples' \in Seq(Nat) /\ Len(samples') = SampleCount
          /\ \A i, j \in DOMAIN samples' : i < j => samples'[i] < samples'[j]
          /\ \A i \in DOMAIN samples' : samples'[i] <= clock'
          /\ \A j \in DOMAIN samples' : reader.index < j => reader.last < samples'[j]
      BY <1>1, <1>5, <2>1, ThinnedIs
    <2>3. Len(samples') <= SampleCount
      BY <2>2 DEF SampleConstants
    <2> QED
      BY <1>1, <1>2, <1>3, <2>2, <2>3 DEF SamplesInv
  <1>6. Len(samples) \in Nat /\ Len(samples) <= SampleCount /\ SampleCount \in Nat
    BY DEF SamplesInv, SampleConstants
  <1> QED
    BY <1>4, <1>5, <1>6

(* GET_system_statistics: the next index is still a younger sample.             *)
LEMMA SampleRead ==
    ASSUME SampleConstants, SamplesInv, ReadSample
    PROVE  SamplesInv'
  <1>1. /\ samples \in Seq(Nat) /\ Len(samples) \in Nat /\ DOMAIN samples = 1 .. Len(samples)
        /\ reader.index \in Nat /\ reader.last \in Int /\ clock \in Nat
    BY DEF SamplesInv
  <1>2. samples' = samples /\ clock' = clock
    BY DEF ReadSample
  <1>3. CASE reader.index < Len(samples)
    <2> DEFINE next == samples[reader.index + 1]
    <2>1. /\ reader' = [index |-> reader.index + 1, last |-> next]
          /\ disorder' = (disorder \/ next <= reader.last)
      BY <1>3 DEF ReadSample
    <2>2. reader.index + 1 \in DOMAIN samples /\ reader.index < reader.index + 1
      BY <1>1, <1>3
    <2>3. next \in Nat /\ next <= clock /\ reader.last < next
      BY <1>1, <2>2 DEF SamplesInv
    <2>4. disorder' = FALSE
      <3>1. ~(next <= reader.last) /\ disorder = FALSE
        BY <1>1, <2>3 DEF SamplesInv
      <3> HIDE DEF next
      <3> QED
        BY <2>1, <3>1, Zenon
    <2>5. \A j \in DOMAIN samples : reader.index + 1 < j => next < samples[j]
      BY <2>2 DEF SamplesInv
    <2> HIDE DEF next
    <2>6. /\ reader' \in [index : Nat, last : Int] /\ reader'.last = next
          /\ reader'.index = reader.index + 1
      BY <1>1, <2>1, <2>3
    <2> QED
      BY <1>1, <1>2, <2>3, <2>4, <2>5, <2>6 DEF SamplesInv
  <1>4. CASE ~(reader.index < Len(samples))
    <2>1. reader' = NotReading /\ disorder' = disorder
      BY <1>4 DEF ReadSample
    <2>2. \A j \in DOMAIN samples : -1 < samples[j]
      BY <1>1
    <2> QED
      BY <1>1, <1>2, <2>1, <2>2 DEF SamplesInv, NotReading
  <1> QED
    BY <1>3, <1>4

LEMMA SamplesGone ==
    ASSUME SampleConstants, SamplesInv, samples' = <<>>, clock' = clock, disorder' = disorder,
           reader' = reader \/ reader' = NotReading
    PROVE  SamplesInv'
  <1>1. samples' \in Seq(Nat) /\ Len(samples') = 0 /\ DOMAIN samples' = {}
    OBVIOUS
  <1>2. Len(samples') <= SampleCount
    BY <1>1 DEF SampleConstants
  <1>3. reader' \in [index : Nat, last : Int] /\ reader'.last <= clock
    BY DEF SamplesInv, NotReading
  <1> QED
    BY <1>1, <1>2, <1>3 DEF SamplesInv

LEMMA SamplesStep ==
    ASSUME SampleConstants, SamplesInv, [RecordsNext]_recordVars
    PROVE  SamplesInv'
  <1>1. CASE AddSample
    BY <1>1, SampleAdded
  <1>2. CASE ReadSample
    BY <1>2, SampleRead
  <1>3. CASE RemoveSamples
    BY <1>3, SamplesGone DEF RemoveSamples
  <1>4. CASE Reset
    BY <1>4, SamplesGone DEF Reset
  <1>5. CASE ScoreboardAdd \/ SaveSlot \/ UNCHANGED recordVars
    <2>1. UNCHANGED sampleVars
      BY <1>5 DEF ScoreboardAdd, SaveSlot, recordVars, sampleVars
    <2> QED
      BY <2>1 DEF SamplesInv, sampleVars
  <1> QED
    BY <1>1, <1>2, <1>3, <1>4, <1>5 DEF RecordsNext, BoardNext, SamplesNext

(* However often the samples are thinned, the buffer is in order of time, and a *)
(* reader that shares it with the statistics task never goes back in time.      *)
THEOREM SamplesStayInOrder ==
    ASSUME SampleConstants
    PROVE  RecordsSpec => []SamplesInOrder
  <1>1. RecordsInit => SamplesInv
    BY SamplesInitially
  <1>2. SamplesInv /\ [RecordsNext]_recordVars => SamplesInv'
    BY SamplesStep
  <1>3. SamplesInv => SamplesInOrder
    <2> SUFFICES ASSUME SamplesInv
                 PROVE  SamplesInOrder
      OBVIOUS
    <2>1. Len(samples) \in Nat /\ DOMAIN samples = 1 .. Len(samples)
      BY DEF SamplesInv
    <2>2. \A i \in 1 .. Len(samples) - 1 :
              i \in DOMAIN samples /\ i + 1 \in DOMAIN samples /\ i < i + 1
      BY <2>1
    <2> QED
      BY <2>2 DEF SamplesInv, SamplesInOrder
  <1> QED
    BY <1>1, <1>2, <1>3, PTL DEF RecordsSpec

-----------------------------------------------------------------------------
(* The scoreboard, while every entry has an extranonce2.                       *)

BoardConstants == BoardSize \in Nat \ {0} /\ MaxBest \in Nat

Places == 1 .. BoardSize
Clean == [d : 1 .. MaxBest, blank : {FALSE}]
Flash == [Places -> Clean \cup {Empty}]
Save == [slot : Places, entry : Clean, new : BOOLEAN]

Wrote(p, save) == [p EXCEPT ![save.slot] = save.entry]

\* The slots that hold a board, and what makes them readable.
Padded(b) == [s \in Places |-> IF s <= Len(b) THEN b[s] ELSE Empty]
Descending(p) == \A i, j \in Places : i <= j => p[i].d >= p[j].d

(* The course of flash while the queued writes are carried out, one after the  *)
(* other: from what it is now, through states a reset can read, to the board;   *)
(* an entry is missing only before its first write.                            *)
Course(f, flash, queue, b) ==
    /\ f \in [0 .. Len(queue) -> Flash]
    /\ f[0] = flash /\ f[Len(queue)] = Padded(b)
    /\ \A k \in 1 .. Len(queue) : f[k] = Wrote(f[k - 1], queue[k])
    /\ \A k \in 0 .. Len(queue) : Descending(f[k])
    /\ \A k \in 0 .. Len(queue), i \in 1 .. Len(b) :
          \/ \E s \in Places : f[k][s] = b[i]
          \/ \E q \in 1 .. Len(queue) : k < q /\ queue[q].new /\ queue[q].entry = b[i]

BoardInv ==
    /\ blank \in BOOLEAN
    /\ ~blank => /\ board \in Seq(Clean) /\ Len(board) <= BoardSize
                 /\ saves \in Seq(Save)
                 /\ \E f : Course(f, flashBoard, saves, board)

LEMMA CleanIs ==
    ASSUME BoardConstants, NEW e \in Clean \cup {Empty}
    PROVE  /\ e.d \in Nat /\ e.blank = FALSE
           /\ e \in Clean => e.d >= 1
           /\ e = Empty => e.d = 0
           /\ e # Empty => e \in Clean
  <1>1. CASE e = Empty
    <2>1. Empty.d = 0 /\ Empty.blank = FALSE /\ Empty \notin Clean
      <3>1. Empty.d = 0 /\ Empty.blank = FALSE
        BY DEF Empty
      <3>2. \A c \in Clean : c.d # 0
        BY DEF Clean, BoardConstants
      <3> QED
        BY <3>1, <3>2
    <2> QED
      BY <1>1, <2>1
  <1>2. CASE e \in Clean
    <2>1. e.d \in 1 .. MaxBest
      BY <1>2 DEF Clean
    <2>2. e.blank = FALSE
      BY <1>2 DEF Clean
    <2>3. e # Empty
      BY <2>1 DEF Empty
    <2>4. e.d \in Nat /\ e.d >= 1
      BY <2>1 DEF BoardConstants
    <2> QED
      BY <1>2, <2>2, <2>3, <2>4
  <1> QED
    BY <1>1, <1>2

LEMMA PaddedIs ==
    ASSUME BoardConstants, NEW b \in Seq(Clean)
    PROVE  Padded(b) \in Flash
  BY DEF BoardConstants, Padded, Flash, Places

(* The settings task: the rest of the course is the course of the rest.         *)
LEMMA CourseGoesOn ==
    ASSUME BoardConstants, NEW f, NEW flash, NEW queue \in Seq(Save), NEW b \in Seq(Clean),
           Course(f, flash, queue, b), queue # <<>>
    PROVE  \E g : Course(g, Wrote(flash, Head(queue)), Tail(queue), b)
  <1> DEFINE n == Len(queue)
             g == [k \in 0 .. n - 1 |-> f[k + 1]]
             rest == Tail(queue)
             now == Wrote(flash, Head(queue))
  <1>1. /\ n \in Nat \ {0} /\ Len(rest) = n - 1 /\ rest \in Seq(Save)
        /\ \A k \in 1 .. n - 1 : rest[k] = queue[k + 1]
        /\ Head(queue) = queue[1]
    OBVIOUS
  <1>2. /\ f \in [0 .. n -> Flash] /\ f[0] = flash /\ f[n] = Padded(b)
        /\ \A k \in 1 .. n : f[k] = Wrote(f[k - 1], queue[k])
        /\ \A k \in 0 .. n : Descending(f[k])
    BY DEF Course
  <1>3. \A k \in 0 .. n, i \in 1 .. Len(b) :
          \/ \E s \in Places : f[k][s] = b[i]
          \/ \E q \in 1 .. n : k < q /\ queue[q].new /\ queue[q].entry = b[i]
    BY DEF Course
  <1> HIDE DEF n, rest
  <1>4. \A k \in 0 .. n - 1 : k + 1 \in 0 .. n /\ g[k] = f[k + 1]
    BY <1>1
  <1>5. g \in [0 .. n - 1 -> Flash] /\ g[0] = f[1] /\ g[n - 1] = f[n]
    BY <1>1, <1>2, <1>4
  <1>6. f[1] = now
    <2>1. 1 \in 1 .. n /\ 1 - 1 = 0
      BY <1>1
    <2>2. f[1] = Wrote(f[1 - 1], queue[1])
      BY <1>2, <2>1
    <2> QED
      BY <1>1, <1>2, <2>1, <2>2
  <1>7. \A k \in 1 .. n - 1 : g[k] = Wrote(g[k - 1], rest[k])
    <2> SUFFICES ASSUME NEW k \in 1 .. n - 1
                 PROVE  g[k] = Wrote(g[k - 1], rest[k])
      OBVIOUS
    <2>1. k + 1 \in 1 .. n /\ (k + 1) - 1 = k /\ k - 1 \in 0 .. n - 1 /\ (k - 1) + 1 = k
          /\ k \in 0 .. n - 1
      BY <1>1
    <2>2. f[k + 1] = Wrote(f[(k + 1) - 1], queue[k + 1])
      BY <1>2, <2>1
    <2>3. g[k] = f[k + 1] /\ g[k - 1] = f[k]
      BY <2>1, <1>4
    <2> QED
      BY <2>1, <2>2, <2>3, <1>1
  <1>8. \A k \in 0 .. n - 1 : Descending(g[k])
    BY <1>2, <1>4
  <1>9. \A k \in 0 .. n - 1, i \in 1 .. Len(b) :
          \/ \E s \in Places : g[k][s] = b[i]
          \/ \E q \in 1 .. n - 1 : k < q /\ rest[q].new /\ rest[q].entry = b[i]
    <2> SUFFICES ASSUME NEW k \in 0 .. n - 1, NEW i \in 1 .. Len(b),
                        ~ \E s \in Places : g[k][s] = b[i]
                 PROVE  \E q \in 1 .. n - 1 : k < q /\ rest[q].new /\ rest[q].entry = b[i]
      OBVIOUS
    <2>1. k + 1 \in 0 .. n /\ g[k] = f[k + 1]
      BY <1>4
    <2>2. PICK q \in 1 .. n : k + 1 < q /\ queue[q].new /\ queue[q].entry = b[i]
      BY <1>3, <2>1
    <2>3. q - 1 \in 1 .. n - 1 /\ k < q - 1 /\ (q - 1) + 1 = q
      BY <1>1, <2>2
    <2>4. rest[q - 1] = queue[q]
      BY <1>1, <2>3
    <2> QED
      BY <2>2, <2>3, <2>4
  <1> HIDE DEF g, now
  <1>10. Course(g, now, rest, b)
    BY <1>1, <1>2, <1>5, <1>6, <1>7, <1>8, <1>9 DEF Course
  <1> QED
    BY <1>10 DEF now, rest

(* scoreboard_init: flash in order is read as it is.                           *)
LEMMA NthOf ==
    ASSUME NEW n \in Nat, NEW k \in 1 .. n
    PROVE  Nth(1 .. n, k) = k
  <1>1. \A i \in 1 .. n : Cardinality({j \in 1 .. n : j <= i}) = i
    <2> SUFFICES ASSUME NEW i \in 1 .. n
                 PROVE  Cardinality({j \in 1 .. n : j <= i}) = i
      OBVIOUS
    <2>1. {j \in 1 .. n : j <= i} = 1 .. i
      OBVIOUS
    <2>2. Cardinality(1 .. i) = i
      BY FS_Interval
    <2> QED
      BY <2>1, <2>2
  <1> QED
    BY <1>1 DEF Nth

LEMMA FlashRead ==
    ASSUME BoardConstants, NEW p \in Flash, Descending(p)
    PROVE  LET read == {i \in 1 .. BoardSize : (\A j \in 1 .. i : p[j] # Empty) /\ ~p[i].blank}
               b == [k \in 1 .. Cardinality(read) |-> p[Nth(read, k)]]
           IN  b \in Seq(Clean) /\ Len(b) <= BoardSize /\ Padded(b) = p
  <1> DEFINE Gaps == {i \in Places : p[i] = Empty}
             read == {i \in 1 .. BoardSize : (\A j \in 1 .. i : p[j] # Empty) /\ ~p[i].blank}
             b == [k \in 1 .. Cardinality(read) |-> p[Nth(read, k)]]
  <1>1. BoardSize \in Nat
    BY DEF BoardConstants
  <1>2. \A i \in Places : p[i] \in Clean \cup {Empty}
    BY DEF Flash
  <1>3. \E n \in 0 .. BoardSize : \A i \in Places : p[i] # Empty <=> i <= n
    <2>1. CASE Gaps = {}
      BY <1>1, <2>1 DEF Places
    <2>2. CASE Gaps # {}
      <3>1. Gaps \in SUBSET Nat
        BY <1>1 DEF Places
      <3> HIDE DEF Gaps
      <3>2. PICK m \in Gaps : \A q \in Gaps : m <= q
        BY <2>2, <3>1, LeastOf
      <3>3. m \in Places /\ p[m] = Empty
        BY <3>2 DEF Gaps
      <3>4. \A i \in Places : p[i] # Empty <=> i <= m - 1
        <4> SUFFICES ASSUME NEW i \in Places
                     PROVE  p[i] # Empty <=> i <= m - 1
          OBVIOUS
        <4>1. i \in Nat /\ m \in Nat
          BY <3>3 DEF Places
        <4>2. CASE m <= i
          <5>1. p[m].d >= p[i].d
            BY <3>3, <4>2 DEF Descending
          <5>2. p[i].d = 0
            <6>1. p[i].d \in Nat /\ p[m].d = 0
              BY <3>3, <1>2, CleanIs
            <6> QED
              BY <5>1, <6>1
          <5>3. p[i] = Empty
            <6>1. p[i] \in Clean => p[i].d >= 1
              BY <1>2, CleanIs
            <6> QED
              BY <6>1, <5>2, <1>2
          <5> QED
            BY <5>3, <4>1, <4>2
        <4>3. CASE ~(m <= i)
          <5>1. i \notin Gaps
            BY <3>2, <4>3
          <5> QED
            BY <5>1, <4>1, <4>3 DEF Gaps
        <4> QED
          BY <4>2, <4>3
      <3>5. m - 1 \in 0 .. BoardSize
        BY <3>3, <1>1 DEF Places
      <3> QED
        BY <3>4, <3>5
    <2> QED
      BY <2>1, <2>2
  <1>4. PICK n \in 0 .. BoardSize : \A i \in Places : p[i] # Empty <=> i <= n
    BY <1>3
  <1>5. read = 1 .. n
    <2>1. \A i \in 1 .. BoardSize : i \in read <=> i <= n
      <3> SUFFICES ASSUME NEW i \in 1 .. BoardSize
                   PROVE  i \in read <=> i <= n
        OBVIOUS
      <3>1. i \in Places /\ i \in 1 .. i /\ i \in Nat /\ n \in Nat
        BY DEF Places
      <3>2. \A j \in 1 .. i : j \in Places /\ (i <= n => j <= n)
        BY <1>1, <3>1 DEF Places
      <3>3. p[i] \in Clean \cup {Empty}
        BY <1>2, <3>1
      <3>4. p[i].blank = FALSE
        BY <3>3, CleanIs
      <3>5. i \in read <=> \A j \in 1 .. i : p[j] # Empty
        BY <3>4
      <3> HIDE DEF read
      <3> QED
        BY <3>1, <3>2, <3>5, <1>4
    <2>2. read \subseteq 1 .. BoardSize /\ 1 .. n \subseteq 1 .. BoardSize
          /\ \A i \in 1 .. BoardSize : i \in 1 .. n <=> i <= n
      BY <1>1
    <2> HIDE DEF read
    <2> QED
      BY <2>1, <2>2
  <1>6. Cardinality(read) = n
    <2>1. Cardinality(1 .. n) = n
      BY FS_Interval
    <2> QED
      BY <1>5, <2>1
  <1>7. \A k \in 1 .. n : b[k] = p[k] /\ k \in Places /\ p[k] \in Clean
    <2> SUFFICES ASSUME NEW k \in 1 .. n
                 PROVE  b[k] = p[k] /\ k \in Places /\ p[k] \in Clean
      OBVIOUS
    <2>1. k \in Places /\ k <= n /\ n \in Nat
      BY <1>1 DEF Places
    <2>2. Nth(read, k) = k
      BY <1>5, <2>1, NthOf
    <2>3. k \in 1 .. Cardinality(read)
      BY <1>6
    <2> HIDE DEF read
    <2>4. b[k] = p[k]
      BY <2>2, <2>3
    <2>5. p[k] # Empty
      BY <2>1, <1>4
    <2> QED
      BY <2>1, <2>4, <2>5, <1>2
  <1>8. DOMAIN b = 1 .. n /\ b = [k \in 1 .. n |-> b[k]]
    BY <1>6
  <1> HIDE DEF b, read
  <1>9. b \in Seq(Clean) /\ Len(b) = n
    <2>1. b \in [1 .. n -> Clean]
      BY <1>7, <1>8
    <2> QED
      BY <2>1, SeqDef, LenProperties
  <1>10. Padded(b) = p
    <2>1. \A s \in Places : (IF s <= n THEN b[s] ELSE Empty) = p[s]
      <3> SUFFICES ASSUME NEW s \in Places
                   PROVE  (IF s <= n THEN b[s] ELSE Empty) = p[s]
        OBVIOUS
      <3>1. s <= n => s \in 1 .. n
        BY DEF Places
      <3> QED
        BY <3>1, <1>4, <1>7
    <2>2. p = [s \in Places |-> p[s]]
      BY DEF Flash
    <2> QED
      BY <2>1, <2>2, <1>9 DEF Padded
  <1>11. n <= BoardSize
    BY <1>1
  <1> QED
    BY <1>9, <1>10, <1>11 DEF b, read

(* scoreboard_add: what makes the lowest place first the right order.  Over the *)
(* old board P the new one N is written from its end; each entry has been       *)
(* copied down before its place is taken.                                       *)
Shifted(P, N, r, L) ==
    /\ \A s \in Places : s < r => N[s] = P[s]
    /\ \A s \in Places : r < s /\ s <= L => N[s] = P[s - 1]
    /\ \A s \in Places : L < s => N[s] = P[s]
    /\ \A s \in Places : N[s].d >= P[s].d
    /\ \A i, j \in Places : i < j => P[i].d >= N[j].d

Half(P, N, m, L) == [s \in Places |-> IF m <= s /\ s <= L THEN N[s] ELSE P[s]]

LEMMA HalfIs ==
    ASSUME BoardConstants, NEW P \in Flash, NEW N \in Flash, Descending(P),
           NEW L \in Places, NEW r \in 1 .. L, Shifted(P, N, r, L), NEW m \in r .. L + 1
    PROVE  /\ Half(P, N, m, L) \in Flash /\ Descending(Half(P, N, m, L))
           /\ m = L + 1 => Half(P, N, m, L) = P
           /\ m = r => Half(P, N, m, L) = N
           /\ \A e : e.slot = m /\ e.entry = N[m] /\ m <= L =>
                  Half(P, N, m, L) = Wrote(Half(P, N, m + 1, L), e)
  <1> DEFINE H == Half(P, N, m, L)
  <1>1. /\ BoardSize \in Nat /\ L \in Nat /\ L <= BoardSize /\ r \in Nat /\ 1 <= r /\ r <= L
        /\ m \in Nat /\ r <= m /\ m <= L + 1 /\ \A s \in Places : s \in Nat
    BY DEF BoardConstants, Places
  <1>2. \A s \in Places : H[s] = IF m <= s /\ s <= L THEN N[s] ELSE P[s]
    BY DEF Half
  <1>3. /\ P = [s \in Places |-> P[s]] /\ N = [s \in Places |-> N[s]]
        /\ \A s \in Places : P[s] \in Clean \cup {Empty} /\ N[s] \in Clean \cup {Empty}
    BY DEF Flash
  <1>4. H \in Flash
    BY <1>3 DEF Half, Flash
  <1>5. \A s \in Places : P[s].d \in Nat /\ N[s].d \in Nat
    BY <1>3, CleanIs
  <1>6. Descending(H)
    <2> SUFFICES ASSUME NEW i \in Places, NEW j \in Places, i <= j
                 PROVE  H[i].d >= H[j].d
      BY DEF Descending
    <2>1. P[i].d \in Nat /\ P[j].d \in Nat /\ N[i].d \in Nat /\ N[j].d \in Nat
      BY <1>5
    <2>2. P[i].d >= P[j].d
      BY DEF Descending
    <2>3. N[i].d >= P[i].d /\ N[j].d >= P[j].d /\ (i < j => P[i].d >= N[j].d)
      BY DEF Shifted
    <2>4. CASE i = j
      BY <2>4, <1>2, <2>1
    <2>5. CASE i < j
      <3>1. H[i].d = P[i].d \/ H[i].d = N[i].d
        BY <1>2
      <3>2. H[j].d = P[j].d \/ H[j].d = N[j].d
        BY <1>2
      <3> QED
        BY <2>1, <2>2, <2>3, <2>5, <3>1, <3>2
    <2> QED
      BY <2>4, <2>5, <1>1
  <1>7. ASSUME m = L + 1
        PROVE  H = P
    <2>1. \A s \in Places : ~(m <= s /\ s <= L)
      BY <1>1, <1>7
    <2> QED
      BY <2>1, <1>3 DEF Half
  <1>8. ASSUME m = r
        PROVE  H = N
    <2>1. \A s \in Places : (IF m <= s /\ s <= L THEN N[s] ELSE P[s]) = N[s]
      <3> SUFFICES ASSUME NEW s \in Places, ~(m <= s /\ s <= L)
                   PROVE  P[s] = N[s]
        OBVIOUS
      <3>1. s < r \/ L < s
        BY <1>1, <1>8
      <3> QED
        BY <3>1 DEF Shifted
    <2> QED
      BY <2>1, <1>3 DEF Half
  <1>9. ASSUME NEW e, e.slot = m, e.entry = N[m], m <= L
        PROVE  H = Wrote(Half(P, N, m + 1, L), e)
    <2>1. Wrote(Half(P, N, m + 1, L), e) =
              [s \in Places |-> IF s = m THEN N[m] ELSE IF m + 1 <= s /\ s <= L THEN N[s] ELSE P[s]]
      BY <1>9 DEF Wrote, Half
    <2>2. \A s \in Places :
              (IF m <= s /\ s <= L THEN N[s] ELSE P[s]) =
              (IF s = m THEN N[m] ELSE IF m + 1 <= s /\ s <= L THEN N[s] ELSE P[s])
      <3> SUFFICES ASSUME NEW s \in Places
                   PROVE  (IF m <= s /\ s <= L THEN N[s] ELSE P[s]) =
                          (IF s = m THEN N[m] ELSE IF m + 1 <= s /\ s <= L THEN N[s] ELSE P[s])
        OBVIOUS
      <3>1. CASE s = m
        BY <3>1, <1>1, <1>9
      <3>2. CASE s # m
        <4>1. m <= s <=> m + 1 <= s
          BY <3>2, <1>1
        <4> QED
          BY <3>2, <4>1
      <3> QED
        BY <3>1, <3>2
    <2> QED
      BY <2>1, <2>2 DEF Half
  <1> QED
    BY <1>4, <1>6, <1>7, <1>8, <1>9

LEMMA Concatenated ==
    ASSUME NEW S, NEW q \in Seq(S), NEW d \in Seq(S)
    PROVE  /\ q \o d \in Seq(S) /\ Len(q \o d) = Len(q) + Len(d)
           /\ \A k \in 1 .. Len(q) : (q \o d)[k] = q[k]
           /\ \A k \in 1 .. Len(d) : (q \o d)[Len(q) + k] = d[k]
  OBVIOUS

LEMMA CourseExtends ==
    ASSUME BoardConstants, NEW f, NEW flash, NEW queue \in Seq(Save), NEW b \in Seq(Clean),
           Course(f, flash, queue, b),
           NEW nb \in Seq(Clean), NEW L \in Places, NEW r \in 1 .. L, Len(nb) = L,
           Shifted(Padded(b), Padded(nb), r, L),
           NEW D \in Seq(Save), Len(D) = L - r + 1, D[L - r + 1].new,
           \A k \in 1 .. L - r + 1 : D[k].slot = L - k + 1 /\ D[k].entry = nb[L - k + 1]
    PROVE  \E g : Course(g, flash, queue \o D, nb)
  <1> DEFINE n == Len(queue)
             c == L - r + 1
             P == Padded(b)
             N == Padded(nb)
             G(m) == Half(P, N, m, L)
             g == [k \in 0 .. n + c |-> IF k <= n THEN f[k] ELSE G(L - (k - n) + 1)]
             Q == queue \o D
  <1>1. /\ BoardSize \in Nat /\ L \in Nat /\ L <= BoardSize /\ r \in Nat /\ 1 <= r /\ r <= L
        /\ n \in Nat /\ c \in Nat /\ 1 <= c
    BY DEF BoardConstants, Places
  <1>2. /\ Q \in Seq(Save) /\ Len(Q) = n + c
        /\ \A k \in 1 .. n : Q[k] = queue[k]
        /\ \A k \in 1 .. c : Q[n + k] = D[k]
    <2>1. Len(D) = c
      OBVIOUS
    <2>2. /\ Q \in Seq(Save) /\ Len(Q) = Len(queue) + Len(D)
          /\ \A k \in 1 .. Len(queue) : Q[k] = queue[k]
          /\ \A k \in 1 .. Len(D) : Q[Len(queue) + k] = D[k]
      <3>1. queue \in Seq(Save) /\ D \in Seq(Save)
        OBVIOUS
      <3> HIDE DEF n, c, P, N, G, g
      <3> QED
        BY ONLY <3>1, Concatenated DEF Q
    <2> HIDE DEF c, Q
    <2> QED
      BY <2>1, <2>2, Zenon
  <1>3. /\ f \in [0 .. n -> Flash] /\ f[0] = flash /\ f[n] = P
        /\ \A k \in 1 .. n : f[k] = Wrote(f[k - 1], queue[k])
        /\ \A k \in 0 .. n : Descending(f[k])
    BY DEF Course
  <1>4. \A k \in 0 .. n, i \in 1 .. Len(b) :
          \/ \E s \in Places : f[k][s] = b[i]
          \/ \E q \in 1 .. n : k < q /\ queue[q].new /\ queue[q].entry = b[i]
    BY DEF Course
  <1>5. P \in Flash /\ N \in Flash /\ Descending(P)
    <2>1. n \in 0 .. n
      BY <1>1
    <2> QED
      BY <1>3, <2>1, PaddedIs
  <1>6. Shifted(P, N, r, L)
    OBVIOUS
  <1>7. /\ \A s \in Places : P[s] = IF s <= Len(b) THEN b[s] ELSE Empty
        /\ \A s \in Places : N[s] = IF s <= L THEN nb[s] ELSE Empty
    BY DEF Padded
  <1>8. /\ D[c].new /\ \A k \in 1 .. c : D[k].slot = L - k + 1 /\ D[k].entry = nb[L - k + 1]
    OBVIOUS
  <1> HIDE DEF n, c, P, N, Q
  <1>9. \A m \in r .. L + 1 : G(m) \in Flash /\ Descending(G(m))
    BY <1>5, <1>6, HalfIs
  <1>10. G(L + 1) = P /\ G(r) = N
    <2>1. L + 1 \in r .. L + 1 /\ r \in r .. L + 1
      BY <1>1
    <2> QED
      BY <2>1, <1>5, <1>6, HalfIs
  <1>11. \A k \in 1 .. c : G(L - k + 1) = Wrote(G(L - k + 2), D[k])
    <2> SUFFICES ASSUME NEW k \in 1 .. c
                 PROVE  G(L - k + 1) = Wrote(G(L - k + 2), D[k])
      OBVIOUS
    <2> DEFINE m == L - k + 1
    <2>1. m \in r .. L + 1 /\ m <= L /\ m \in Places /\ L - k + 2 = m + 1
      BY <1>1 DEF c, Places
    <2>2. D[k].slot = m /\ D[k].entry = N[m]
      BY <1>7, <1>8, <2>1
    <2> HIDE DEF m
    <2>3. G(m) = Wrote(G(m + 1), D[k])
      BY <2>1, <2>2, <1>5, <1>6, HalfIs
    <2> QED
      BY <2>1, <2>3 DEF m
  <1> HIDE DEF G
  <1>12. /\ \A k \in 0 .. n : g[k] = f[k]
         /\ \A k \in 0 .. c : g[n + k] = G(L - k + 1)
    <2>1. \A k \in 0 .. n : k \in 0 .. n + c /\ k <= n
      BY <1>1
    <2>2. \A k \in 0 .. n : g[k] = f[k]
      BY <2>1
    <2>3. ASSUME NEW k \in 0 .. c
          PROVE  g[n + k] = G(L - k + 1)
      <3>1. CASE k = 0
        <4>1. n + k = n /\ L - k + 1 = L + 1 /\ n \in 0 .. n
          BY <1>1, <3>1
        <4> QED
          BY <4>1, <2>2, <1>3, <1>10
      <3>2. CASE k # 0
        <4>1. n + k \in 0 .. n + c /\ ~(n + k <= n) /\ n + k - n = k
          BY <1>1, <3>2
        <4>2. \A j \in 0 .. n + c : ~(j <= n) => g[j] = G(L - (j - n) + 1)
          OBVIOUS
        <4> HIDE DEF g
        <4>3. g[n + k] = G(L - ((n + k) - n) + 1)
          BY <4>1, <4>2
        <4>4. L - ((n + k) - n) + 1 = L - k + 1
          BY <1>1
        <4> QED
          BY <4>3, <4>4, Zenon
      <3> QED
        BY <3>1, <3>2
    <2> HIDE DEF g
    <2> QED
      BY <2>2, <2>3
  <1>13. \A k \in 0 .. n + c : k \in 0 .. n \/ \E j \in 1 .. c : k = n + j
    <2> SUFFICES ASSUME NEW k \in 0 .. n + c, ~(k \in 0 .. n)
                 PROVE  \E j \in 1 .. c : k = n + j
      OBVIOUS
    <2>1. k - n \in 1 .. c /\ k = n + (k - n)
      BY <1>1
    <2> QED
      BY <2>1
  <1>14. \A k \in 0 .. c : L - k + 1 \in r .. L + 1
    BY <1>1 DEF c
  <1>15. /\ DOMAIN g = 0 .. n + c /\ g = [k \in 0 .. n + c |-> g[k]]
    OBVIOUS
  <1> HIDE DEF g
  <1>16. \A k \in 0 .. n + c : g[k] \in Flash /\ Descending(g[k])
    <2> SUFFICES ASSUME NEW k \in 0 .. n + c
                 PROVE  g[k] \in Flash /\ Descending(g[k])
      OBVIOUS
    <2>1. CASE k \in 0 .. n
      BY <2>1, <1>3, <1>12
    <2>2. CASE \E j \in 1 .. c : k = n + j
      <3>1. PICK j \in 1 .. c : k = n + j
        BY <2>2
      <3>2. j \in 0 .. c
        OBVIOUS
      <3> QED
        BY <3>1, <3>2, <1>9, <1>12, <1>14
    <2> QED
      BY <2>1, <2>2, <1>13
  <1>17. g \in [0 .. n + c -> Flash]
    BY <1>15, <1>16
  <1>18. g[0] = flash /\ g[n + c] = N
    <2>1. 0 \in 0 .. n /\ c \in 0 .. c /\ L - c + 1 = r
      BY <1>1 DEF c
    <2> QED
      BY <2>1, <1>3, <1>10, <1>12
  <1>19. \A k \in 1 .. n + c : g[k] = Wrote(g[k - 1], Q[k])
    <2> SUFFICES ASSUME NEW k \in 1 .. n + c
                 PROVE  g[k] = Wrote(g[k - 1], Q[k])
      OBVIOUS
    <2>1. CASE k \in 0 .. n
      <3>1. k \in 1 .. n /\ k - 1 \in 0 .. n
        BY <2>1, <1>1
      <3> QED
        BY <2>1, <3>1, <1>2, <1>3, <1>12
    <2>2. CASE \E j \in 1 .. c : k = n + j
      <3>1. PICK j \in 1 .. c : k = n + j
        BY <2>2
      <3>2. j \in 0 .. c /\ j - 1 \in 0 .. c /\ k - 1 = n + (j - 1) /\ L - (j - 1) + 1 = L - j + 2
        BY <3>1, <1>1
      <3>3. g[k] = G(L - j + 1) /\ g[k - 1] = G(L - j + 2) /\ Q[k] = D[j]
        BY <3>1, <3>2, <1>2, <1>12
      <3> QED
        BY <3>3, <1>11
    <2>3. k \in 0 .. n + c
      BY <1>1
    <2> QED
      BY <2>1, <2>2, <2>3, <1>13
  <1>20. n + c \in 1 .. n + c /\ Q[n + c].new /\ Q[n + c].entry = nb[r]
    <2>1. n + c \in 1 .. n + c /\ c \in 1 .. c /\ L - c + 1 = r
      BY <1>1 DEF c
    <2> QED
      BY <2>1, <1>2, <1>8
  <1>21. \A i \in 1 .. L : i < r => nb[i] = P[i] /\ i \in Places
    BY <1>1, <1>6, <1>7 DEF Places, Shifted
  <1>22. \A i \in 1 .. L : r < i => nb[i] = P[i - 1] /\ i \in Places /\ i - 1 \in Places
    BY <1>1, <1>6, <1>7 DEF Places, Shifted
  <1>23. \A x \in Places : P[x] \in Clean => x \in 1 .. Len(b) /\ P[x] = b[x]
    <2> SUFFICES ASSUME NEW x \in Places, P[x] \in Clean
                 PROVE  x \in 1 .. Len(b) /\ P[x] = b[x]
      OBVIOUS
    <2>1. P[x] # Empty
      <3>1. P[x].d >= 1
        BY CleanIs
      <3> QED
        BY <3>1 DEF Empty
    <2>2. Len(b) \in Nat /\ x \in Nat /\ 1 <= x
      BY DEF Places
    <2> QED
      BY <2>1, <2>2, <1>7
  <1>24. \A i \in 1 .. L : nb[i] \in Clean
    OBVIOUS
  <1>25. \A k \in 0 .. n + c, i \in 1 .. L :
          \/ \E s \in Places : g[k][s] = nb[i]
          \/ \E q \in 1 .. n + c : k < q /\ Q[q].new /\ Q[q].entry = nb[i]
    <2> SUFFICES ASSUME NEW k \in 0 .. n + c, NEW i \in 1 .. L
                 PROVE  \/ \E s \in Places : g[k][s] = nb[i]
                        \/ \E q \in 1 .. n + c : k < q /\ Q[q].new /\ Q[q].entry = nb[i]
      OBVIOUS
    <2>1. i < r \/ i = r \/ r < i
      BY <1>1
    <2>2. CASE k \in 0 .. n
      <3>1. CASE i = r
        <4>1. k < n + c
          BY <2>2, <1>1
        <4> QED
          BY <3>1, <4>1, <1>20
      <3>2. CASE i # r
        <4>1. \E x \in 1 .. Len(b) : nb[i] = b[x]
          <5>1. nb[i] \in Clean
            BY <1>24
          <5>2. CASE i < r
            <6>1. i \in Places /\ P[i] = nb[i]
              BY <5>2, <1>21
            <6> QED
              BY <5>1, <6>1, <1>23
          <5>3. CASE r < i
            <6>1. i - 1 \in Places /\ P[i - 1] = nb[i]
              BY <5>3, <1>22
            <6> QED
              BY <5>1, <6>1, <1>23
          <5> QED
            BY <2>1, <3>2, <5>2, <5>3
        <4>2. PICK x \in 1 .. Len(b) : nb[i] = b[x]
          BY <4>1
        <4>3. CASE \E s \in Places : f[k][s] = b[x]
          BY <4>2, <4>3, <2>2, <1>12
        <4>4. CASE \E q \in 1 .. n : k < q /\ queue[q].new /\ queue[q].entry = b[x]
          <5>1. PICK q \in 1 .. n : k < q /\ queue[q].new /\ queue[q].entry = b[x]
            BY <4>4
          <5>2. q \in 1 .. n + c
            BY <1>1
          <5> QED
            BY <5>1, <5>2, <4>2, <1>2
        <4> QED
          BY <4>3, <4>4, <2>2, <1>4
      <3> QED
        BY <3>1, <3>2
    <2>3. CASE \E j \in 1 .. c : k = n + j
      <3>1. PICK j \in 1 .. c : k = n + j
        BY <2>3
      <3> DEFINE m == L - j + 1
      <3>2. m \in r .. L /\ j \in 0 .. c /\ i \in Places
        BY <1>1 DEF c, Places
      <3>3. g[k] = G(m)
        BY <3>1, <3>2, <1>12
      <3>4. \A s \in Places : g[k][s] = IF m <= s /\ s <= L THEN N[s] ELSE P[s]
        BY <3>3 DEF G, Half
      <3>5. m \in Nat /\ r <= m /\ m <= L
        BY <3>2, <1>1
      <3>6. m = r \/ k < n + c
        BY <3>1, <1>1 DEF c
      <3> HIDE DEF m
      <3>7. CASE m <= i
        <4>1. i <= L
          BY <1>1
        <4>2. g[k][i] = N[i] /\ N[i] = nb[i]
          BY <3>2, <3>4, <3>7, <4>1, <1>7
        <4> QED
          BY <4>2, <3>2
      <3>8. CASE i < m /\ i < r
        <4>1. ~(m <= i)
          BY <3>5, <3>8, <1>1
        <4>2. g[k][i] = P[i] /\ P[i] = nb[i]
          BY <3>2, <3>4, <3>8, <4>1, <1>21
        <4> QED
          BY <4>2, <3>2
      <3>9. CASE i < m /\ r < i
        <4>1. i - 1 \in Places /\ ~(m <= i - 1)
          <5>1. i \in Nat /\ m \in Nat
            BY <3>5, <1>1
          <5>2. ~(m <= i - 1)
            BY ONLY <5>1, <3>9
          <5> QED
            BY <5>2, <3>9, <1>22
        <4>2. g[k][i - 1] = nb[i]
          BY <4>1, <3>4, <3>9, <1>22
        <4> QED
          BY <4>1, <4>2
      <3>10. CASE i < m /\ i = r
        <4>1. k < n + c
          BY <3>6, <3>5, <3>10, <1>1
        <4> QED
          BY <4>1, <3>10, <1>20
      <3> QED
        BY <2>1, <3>5, <3>7, <3>8, <3>9, <3>10, <1>1
    <2> QED
      BY <2>2, <2>3, <1>13
  <1>26. Course(g, flash, Q, nb)
    BY <1>2, <1>16, <1>17, <1>18, <1>19, <1>25 DEF Course, N
  <1> QED
    BY <1>26 DEF Q

LEMMA RankIs ==
    ASSUME BoardConstants, board \in Seq(Clean), Len(board) <= BoardSize,
           Descending(Padded(board)), NEW d \in Nat
    PROVE  /\ Rank(d) \in 1 .. Len(board) + 1
           /\ \A j \in 1 .. Len(board) : Rank(d) <= j => d > board[j].d
           /\ \A j \in 1 .. Len(board) : j < Rank(d) => d <= board[j].d
  <1> DEFINE n == Len(board)
             Beaten(i) == \A j \in i .. n : d > board[j].d
             S == {i \in 1 .. n + 1 : Beaten(i)}
  <1>1. n \in Nat /\ n <= BoardSize /\ BoardSize \in Nat
    BY DEF BoardConstants
  <1>2. \A j \in 1 .. n : board[j].d \in Nat
    <2>1. \A j \in 1 .. n : board[j] \in Clean
      OBVIOUS
    <2> QED
      BY <2>1, CleanIs
  <1>3. \A i, j \in 1 .. n : i <= j => board[i].d >= board[j].d
    <2> SUFFICES ASSUME NEW i \in 1 .. n, NEW j \in 1 .. n, i <= j
                 PROVE  board[i].d >= board[j].d
      OBVIOUS
    <2>1. i \in Places /\ j \in Places /\ i <= n /\ j <= n
      BY <1>1 DEF Places
    <2>2. Padded(board)[i] = board[i] /\ Padded(board)[j] = board[j]
      BY <2>1 DEF Padded
    <2> QED
      BY <2>1, <2>2 DEF Descending
  <1> HIDE DEF n
  <1>4. n + 1 \in S /\ S \subseteq Nat
    BY <1>1
  <1>5. PICK m \in S : \A q \in S : m <= q
    <2> HIDE DEF S
    <2> QED
      BY <1>4, LeastOf
  <1>6. m \in 1 .. n + 1 /\ Beaten(m)
    BY <1>5
  <1>7. m > 1 => d <= board[m - 1].d
    <2> SUFFICES ASSUME m > 1
                 PROVE  d <= board[m - 1].d
      OBVIOUS
    <2>1. m - 1 \in 1 .. n /\ m - 1 \in 1 .. n + 1 /\ ~(m <= m - 1)
      BY <1>1, <1>6
    <2>2. ~Beaten(m - 1)
      BY <1>5, <2>1
    <2>3. PICK j \in m - 1 .. n : ~(d > board[j].d)
      BY <2>2
    <2>4. j = m - 1 \/ j \in m .. n
      BY <1>1, <1>6
    <2>5. j = m - 1
      BY <2>3, <2>4, <1>6
    <2> QED
      BY <2>1, <2>3, <2>5, <1>2
  <1> DEFINE r == Rank(d)
  <1>8. r \in 1 .. n + 1 /\ Beaten(r) /\ (r > 1 => d <= board[r - 1].d)
    <2>1. \E i \in 1 .. n + 1 : (\A j \in i .. n : d > board[j].d) /\ (i > 1 => d <= board[i - 1].d)
      BY <1>6, <1>7
    <2> QED
      BY <2>1 DEF Rank, n
  <1> HIDE DEF r
  <1>9. \A j \in 1 .. n : r <= j => d > board[j].d
    BY <1>1, <1>8
  <1>10. \A j \in 1 .. n : j < r => d <= board[j].d
    <2> SUFFICES ASSUME NEW j \in 1 .. n, j < r
                 PROVE  d <= board[j].d
      OBVIOUS
    <2>1. r > 1 /\ r - 1 \in 1 .. n /\ j <= r - 1
      BY <1>1, <1>8
    <2>2. board[j].d >= board[r - 1].d /\ d <= board[r - 1].d
      BY <2>1, <1>3, <1>8
    <2>3. board[j].d \in Nat /\ board[r - 1].d \in Nat
      BY <2>1, <1>2
    <2> QED
      BY <2>2, <2>3
  <1> QED
    BY <1>8, <1>9, <1>10 DEF r, n

LEMMA InsertedIs ==
    ASSUME BoardConstants, board \in Seq(Clean), Len(board) <= BoardSize,
           Descending(Padded(board)), NEW e \in Clean,
           ~(Len(board) = BoardSize /\ e.d <= board[BoardSize].d)
    PROVE  /\ Insert(e) \in Seq(Clean) /\ Len(Insert(e)) \in Places
           /\ Rank(e.d) \in 1 .. Len(Insert(e))
           /\ Shifted(Padded(board), Padded(Insert(e)), Rank(e.d), Len(Insert(e)))
  <1> DEFINE n == Len(board)
             r == Rank(e.d)
             L == IF n < BoardSize THEN n + 1 ELSE BoardSize
             new == [i \in 1 .. L |-> IF i < r THEN board[i] ELSE IF i = r THEN e ELSE board[i - 1]]
             P == Padded(board)
             N == Padded(new)
  <1>1. n \in Nat /\ n <= BoardSize /\ BoardSize \in Nat /\ 1 <= BoardSize
    BY DEF BoardConstants
  <1>2. e.d \in Nat /\ e.d >= 1 /\ \A j \in 1 .. n : board[j] \in Clean /\ board[j].d \in Nat
    <2>1. \A j \in 1 .. n : board[j] \in Clean
      OBVIOUS
    <2>2. e.d \in Nat /\ e.d >= 1
      BY CleanIs
    <2> QED
      BY <2>1, <2>2, CleanIs
  <1>3. /\ r \in 1 .. n + 1
        /\ \A j \in 1 .. n : r <= j => e.d > board[j].d
        /\ \A j \in 1 .. n : j < r => e.d <= board[j].d
    BY <1>2, RankIs
  <1>4. Insert(e) = new
    BY DEF Insert
  <1>5. n = BoardSize => ~(e.d <= board[BoardSize].d)
    OBVIOUS
  <1>6. \A i, j \in 1 .. n : i <= j => board[i].d >= board[j].d
    <2> SUFFICES ASSUME NEW i \in 1 .. n, NEW j \in 1 .. n, i <= j
                 PROVE  board[i].d >= board[j].d
      OBVIOUS
    <2>1. i \in Places /\ j \in Places /\ i <= n /\ j <= n
      BY <1>1 DEF Places
    <2>2. Padded(board)[i] = board[i] /\ Padded(board)[j] = board[j]
      BY <2>1 DEF Padded
    <2> QED
      BY <2>1, <2>2 DEF Descending
  <1>7. \A s \in Places : P[s] = IF s <= n THEN board[s] ELSE Empty
    BY DEF Padded
  <1> HIDE DEF n, r, P
  <1>8. L \in Nat /\ 1 <= L /\ L <= BoardSize /\ n <= L /\ L <= n + 1
    BY <1>1
  <1>9. r \in 1 .. L
    <2>1. CASE n < BoardSize
      BY <2>1, <1>1, <1>3
    <2>2. CASE n = BoardSize
      <3>1. BoardSize \in 1 .. n /\ ~(e.d <= board[BoardSize].d)
        BY <1>1, <1>5, <2>2
      <3>2. ~(BoardSize < r)
        BY <3>1, <1>3
      <3> QED
        BY <3>2, <2>2, <1>1, <1>3
    <2> QED
      BY <2>1, <2>2, <1>1
  <1> HIDE DEF L
  <1>10. /\ \A i \in 1 .. L : i < r => i \in 1 .. n
         /\ \A i \in 1 .. L : r < i => i - 1 \in 1 .. n /\ r <= i - 1
    BY <1>1, <1>3, <1>8
  <1>11. \A i \in 1 .. L : new[i] = IF i < r THEN board[i] ELSE IF i = r THEN e ELSE board[i - 1]
    OBVIOUS
  <1>12. /\ \A i \in 1 .. L : i < r => new[i] = board[i]
         /\ new[r] = e
         /\ \A i \in 1 .. L : r < i => new[i] = board[i - 1]
    <2>1. \A i \in 1 .. L : r < i => ~(i < r) /\ i # r
      BY <1>8, <1>9
    <2>2. ~(r < r)
      BY <1>9, <1>8
    <2> HIDE DEF new
    <2> QED
      BY <2>1, <2>2, <1>9, <1>11
  <1>13. DOMAIN new = 1 .. L /\ new = [i \in 1 .. L |-> new[i]]
    OBVIOUS
  <1> HIDE DEF new
  <1>14. \A i \in 1 .. L : new[i] \in Clean
    <2>1. \A i \in 1 .. L : i < r \/ i = r \/ r < i
      BY <1>8, <1>9
    <2> QED
      BY <2>1, <1>2, <1>10, <1>12
  <1>15. new \in Seq(Clean) /\ Len(new) = L
    <2>1. new \in [1 .. L -> Clean]
      BY <1>13, <1>14
    <2> QED
      BY <2>1, <1>8, SeqDef, LenProperties
  <1>16. \A s \in Places : N[s] = IF s <= L THEN new[s] ELSE Empty
    BY <1>15 DEF Padded
  <1> HIDE DEF N
  <1>17. \A s \in Places : s \in Nat /\ 1 <= s /\ s <= BoardSize /\ (s <= L => s \in 1 .. L) /\ (s <= n => s \in 1 .. n)
    BY <1>1, <1>8 DEF Places
  <1>18. Empty.d = 0
    BY DEF Empty
  <1>19. \A s \in Places : s < r => N[s] = P[s]
    <2> SUFFICES ASSUME NEW s \in Places, s < r
                 PROVE  N[s] = P[s]
      OBVIOUS
    <2>1. s \in 1 .. L /\ s <= L
      BY <1>8, <1>9, <1>17
    <2>2. s \in 1 .. n /\ s <= n
      BY <2>1, <1>1, <1>10
    <2> QED
      BY <2>1, <2>2, <1>7, <1>12, <1>16
  <1>20. \A s \in Places : r < s /\ s <= L => N[s] = P[s - 1] /\ s - 1 \in 1 .. n /\ N[s] = board[s - 1]
    <2> SUFFICES ASSUME NEW s \in Places, r < s, s <= L
                 PROVE  N[s] = P[s - 1] /\ s - 1 \in 1 .. n /\ N[s] = board[s - 1]
      OBVIOUS
    <2>1. s \in 1 .. L /\ s - 1 \in 1 .. n
      BY <1>10, <1>17
    <2>2. s - 1 \in Places /\ s - 1 <= n
      BY <2>1, <1>1 DEF Places
    <2> QED
      BY <2>1, <2>2, <1>7, <1>12, <1>16
  <1>21. \A s \in Places : L < s => N[s] = P[s] /\ N[s] = Empty
    <2> SUFFICES ASSUME NEW s \in Places, L < s
                 PROVE  N[s] = P[s] /\ N[s] = Empty
      OBVIOUS
    <2>1. ~(s <= L) /\ ~(s <= n)
      BY <1>1, <1>8, <1>17
    <2> QED
      BY <2>1, <1>7, <1>16
  <1>22. N[r] = e /\ r \in Places
    <2>1. r \in Places /\ r <= L
      BY <1>1, <1>8, <1>9 DEF Places
    <2> QED
      BY <2>1, <1>12, <1>16
  <1>23. \A s \in Places : P[s].d \in Nat /\ (r <= s => e.d > P[s].d) /\ (s < r => e.d <= P[s].d)
    <2> SUFFICES ASSUME NEW s \in Places
                 PROVE  P[s].d \in Nat /\ (r <= s => e.d > P[s].d) /\ (s < r => e.d <= P[s].d)
      OBVIOUS
    <2>1. CASE s <= n
      <3>1. s \in 1 .. n /\ P[s] = board[s]
        BY <2>1, <1>7, <1>17
      <3> QED
        BY <3>1, <1>2, <1>3
    <2>2. CASE ~(s <= n)
      <3>1. P[s].d = 0 /\ ~(s < r)
        BY <2>2, <1>1, <1>3, <1>7, <1>17, <1>18
      <3> QED
        BY <3>1, <1>2
    <2> QED
      BY <2>1, <2>2
  <1>24. \A i, j \in Places : i <= j => P[i].d >= P[j].d
    BY DEF Descending, P
  <1>25. \A s \in Places : N[s].d >= P[s].d
    <2> SUFFICES ASSUME NEW s \in Places
                 PROVE  N[s].d >= P[s].d
      OBVIOUS
    <2>0. s \in Nat /\ r \in Nat /\ L \in Nat /\ P[s].d \in Nat
      BY <1>8, <1>9, <1>17, <1>23
    <2>1. CASE s < r \/ L < s
      BY <2>0, <2>1, <1>19, <1>21
    <2>2. CASE s = r
      BY <2>0, <2>2, <1>2, <1>22, <1>23
    <2>3. CASE r < s /\ s <= L
      <3>1. N[s] = P[s - 1] /\ s - 1 \in 1 .. n
        BY <2>3, <1>20
      <3>2. s - 1 \in Places /\ s - 1 <= s
        BY <3>1, <1>1, <2>0 DEF Places
      <3> QED
        BY <3>1, <3>2, <1>24
    <2> QED
      BY <2>0, <2>1, <2>2, <2>3
  <1>26. \A i, j \in Places : i < j => P[i].d >= N[j].d
    <2> SUFFICES ASSUME NEW i \in Places, NEW j \in Places, i < j
                 PROVE  P[i].d >= N[j].d
      OBVIOUS
    <2>0. i \in Nat /\ j \in Nat /\ r \in Nat /\ L \in Nat /\ P[i].d \in Nat
      BY <1>8, <1>9, <1>17, <1>23
    <2>1. CASE j < r \/ L < j
      BY <2>0, <2>1, <1>19, <1>21, <1>24
    <2>2. CASE j = r
      BY <2>0, <2>2, <1>2, <1>22, <1>23
    <2>3. CASE r < j /\ j <= L
      <3>1. N[j] = P[j - 1] /\ j - 1 \in 1 .. n
        BY <2>3, <1>20
      <3>2. j - 1 \in Places /\ i <= j - 1
        BY <3>1, <1>1, <2>0 DEF Places
      <3> QED
        BY <3>1, <3>2, <1>24
    <2> QED
      BY <2>0, <2>1, <2>2, <2>3
  <1>27. Shifted(P, N, r, L)
    BY <1>19, <1>20, <1>21, <1>25, <1>26 DEF Shifted
  <1>28. L \in Places
    BY <1>1, <1>8 DEF Places
  <1> QED
    BY <1>4, <1>9, <1>15, <1>27, <1>28 DEF N, P, r

LEMMA BoardInitially ==
    ASSUME BoardConstants, RecordsInit
    PROVE  BoardInv
  <1> DEFINE all == [i \in Places |-> Empty]
             f == [k \in 0 .. 0 |-> all]
  <1>1. board = <<>> /\ flashBoard = all /\ saves = <<>> /\ blank = FALSE
    BY DEF RecordsInit, Places
  <1>2. all \in Flash /\ Descending(all)
    <2>1. \A i \in Places : all[i].d = 0
      BY DEF Empty
    <2> QED
      BY <2>1 DEF Flash, Descending
  <1>3. Padded(<<>>) = all
    BY DEF Padded, Places
  <1> HIDE DEF all
  <1>4. Course(f, all, <<>>, <<>>)
    BY <1>2, <1>3 DEF Course
  <1>5. <<>> \in Seq(Clean) /\ <<>> \in Seq(Save) /\ Len(<<>>) <= BoardSize
    BY DEF BoardConstants
  <1> QED
    BY <1>1, <1>4, <1>5 DEF BoardInv

LEMMA EntryAdded ==
    ASSUME BoardConstants, BoardInv, ScoreboardAdd
    PROVE  BoardInv'
  <1>1. PICK e \in Entries :
          /\ blank' = (blank \/ e.blank)
          /\ IF Len(board) = BoardSize /\ e.d <= board[BoardSize].d
             THEN UNCHANGED <<board, saves>>
             ELSE /\ board' = Insert(e)
                  /\ saves' = saves \o [k \in DOMAIN Dirty(e) |->
                                           [slot |-> Dirty(e)[k], entry |-> Insert(e)[Dirty(e)[k]],
                                            new |-> Dirty(e)[k] = Rank(e.d)]]
    BY DEF ScoreboardAdd
  <1>2. flashBoard' = flashBoard
    BY DEF ScoreboardAdd
  <1>3. blank \in BOOLEAN /\ e.blank \in BOOLEAN
    BY DEF BoardInv, Entries
  <1>4. blank' \in BOOLEAN
    BY <1>1, <1>3, Zenon
  <1>5. SUFFICES ASSUME ~blank'
                 PROVE  /\ board' \in Seq(Clean) /\ Len(board') <= BoardSize
                        /\ saves' \in Seq(Save)
                        /\ \E f : Course(f, flashBoard', saves', board')
    BY <1>4 DEF BoardInv
  <1>6. ~blank /\ ~e.blank
    BY <1>1, <1>5, Zenon
  <1>7. e \in Clean
    BY <1>6 DEF Clean, Entries
  <1>8. /\ board \in Seq(Clean) /\ Len(board) <= BoardSize /\ saves \in Seq(Save)
        /\ \E f : Course(f, flashBoard, saves, board)
    BY <1>6 DEF BoardInv
  <1>9. CASE Len(board) = BoardSize /\ e.d <= board[BoardSize].d
    BY <1>1, <1>2, <1>8, <1>9
  <1>10. CASE ~(Len(board) = BoardSize /\ e.d <= board[BoardSize].d)
    <2>1. PICK f : Course(f, flashBoard, saves, board)
      BY <1>8
    <2>2. Descending(Padded(board))
      <3>1. Len(saves) \in 0 .. Len(saves)
        BY <1>8
      <3> QED
        BY <2>1, <3>1 DEF Course
    <2> DEFINE nb == Insert(e)
               L == Len(nb)
               r == Rank(e.d)
               D == [k \in DOMAIN Dirty(e) |->
                        [slot |-> Dirty(e)[k], entry |-> Insert(e)[Dirty(e)[k]],
                         new |-> Dirty(e)[k] = Rank(e.d)]]
    <2>3. /\ nb \in Seq(Clean) /\ L \in Places /\ r \in 1 .. L
          /\ Shifted(Padded(board), Padded(nb), r, L)
      BY <1>7, <1>8, <1>10, <2>2, InsertedIs
    <2>4. board' = nb /\ saves' = saves \o D
      BY <1>1, <1>10
    <2>5. Dirty(e) = [k \in 1 .. L - r + 1 |-> L - k + 1]
      BY DEF Dirty
    <2>6. D = [k \in 1 .. L - r + 1 |-> [slot |-> L - k + 1, entry |-> nb[L - k + 1],
                                         new |-> L - k + 1 = r]]
      <3>1. DOMAIN Dirty(e) = 1 .. L - r + 1
        BY <2>5
      <3>2. \A k \in 1 .. L - r + 1 : Dirty(e)[k] = L - k + 1
        BY <2>5
      <3> QED
        BY <3>1, <3>2
    <2> HIDE DEF nb, L, r, D
    <2>7. L \in Nat /\ r \in Nat /\ 1 <= r /\ r <= L /\ L <= BoardSize /\ BoardSize \in Nat
      BY <2>3 DEF Places, BoardConstants
    <2>8. \A k \in 1 .. L - r + 1 : L - k + 1 \in 1 .. L /\ L - k + 1 \in Places
      BY <2>7 DEF Places
    <2>9. \A k \in 1 .. L - r + 1 : nb[L - k + 1] \in Clean
      BY <2>3, <2>8 DEF L
    <2>10. \A k \in 1 .. L - r + 1 : D[k] \in Save /\ D[k].slot = L - k + 1 /\ D[k].entry = nb[L - k + 1]
      BY <2>6, <2>8, <2>9 DEF Save
    <2>11. D[L - r + 1].new
      <3>1. L - r + 1 \in 1 .. L - r + 1 /\ L - (L - r + 1) + 1 = r
        BY <2>7
      <3>2. D[L - r + 1].new = (L - (L - r + 1) + 1 = r)
        BY <3>1, <2>6
      <3> QED
        BY <3>1, <3>2
    <2>12. D \in Seq(Save) /\ Len(D) = L - r + 1
      <3>1. L - r + 1 \in Nat
        BY <2>7
      <3>2. D \in [1 .. L - r + 1 -> Save]
        BY <2>6, <2>10
      <3> QED
        BY <3>1, <3>2, SeqDef, LenProperties
    <2>13. Len(nb) = L
      BY DEF L
    <2>14. \E g : Course(g, flashBoard, saves \o D, nb)
      BY <1>8, <2>1, <2>3, <2>10, <2>11, <2>12, <2>13, CourseExtends
    <2>15. saves \o D \in Seq(Save)
      BY <1>8, <2>12
    <2> QED
      BY <1>2, <2>3, <2>4, <2>7, <2>13, <2>14, <2>15
  <1> QED
    BY <1>9, <1>10

LEMMA SlotSaved ==
    ASSUME BoardConstants, BoardInv, SaveSlot
    PROVE  BoardInv'
  <1>1. /\ saves # <<>> /\ saves' = Tail(saves) /\ board' = board /\ blank' = blank
        /\ flashBoard' = Wrote(flashBoard, Head(saves))
    BY DEF SaveSlot, Wrote
  <1>2. blank \in BOOLEAN
    BY DEF BoardInv
  <1>3. SUFFICES ASSUME ~blank
                 PROVE  /\ board' \in Seq(Clean) /\ Len(board') <= BoardSize
                        /\ saves' \in Seq(Save)
                        /\ \E f : Course(f, flashBoard', saves', board')
    BY <1>1, <1>2 DEF BoardInv
  <1>4. /\ board \in Seq(Clean) /\ Len(board) <= BoardSize /\ saves \in Seq(Save)
    BY <1>3 DEF BoardInv
  <1>5. PICK f : Course(f, flashBoard, saves, board)
    BY <1>3 DEF BoardInv
  <1>6. \E g : Course(g, Wrote(flashBoard, Head(saves)), Tail(saves), board)
    BY <1>1, <1>4, <1>5, CourseGoesOn
  <1>7. Tail(saves) \in Seq(Save)
    BY <1>1, <1>4
  <1> QED
    BY <1>1, <1>4, <1>6, <1>7

LEMMA BoardReadBack ==
    ASSUME BoardConstants, BoardInv, Reset
    PROVE  BoardInv'
  <1> DEFINE read == {i \in 1 .. BoardSize : (\A j \in 1 .. i : flashBoard[j] # Empty) /\ ~flashBoard[i].blank}
             b == [k \in 1 .. Cardinality(read) |-> flashBoard[Nth(read, k)]]
             f == [k \in 0 .. 0 |-> flashBoard]
  <1>1. board' = b /\ saves' = <<>> /\ flashBoard' = flashBoard /\ blank' = blank
    BY DEF Reset
  <1>2. blank \in BOOLEAN
    BY DEF BoardInv
  <1> HIDE DEF b
  <1>3. SUFFICES ASSUME ~blank
                 PROVE  /\ board' \in Seq(Clean) /\ Len(board') <= BoardSize
                        /\ saves' \in Seq(Save)
                        /\ \E g : Course(g, flashBoard', saves', board')
    BY <1>1, <1>2 DEF BoardInv
  <1>4. PICK g : Course(g, flashBoard, saves, board)
    BY <1>3 DEF BoardInv
  <1>5. flashBoard \in Flash /\ Descending(flashBoard)
    <2>1. saves \in Seq(Save)
      BY <1>3 DEF BoardInv
    <2>2. 0 \in 0 .. Len(saves)
      BY <2>1
    <2> QED
      BY <1>4, <2>2 DEF Course
  <1>6. b \in Seq(Clean) /\ Len(b) <= BoardSize /\ Padded(b) = flashBoard
    BY <1>5, FlashRead DEF b
  <1>7. \A i \in 1 .. Len(b) : \E s \in Places : flashBoard[s] = b[i]
    <2> SUFFICES ASSUME NEW i \in 1 .. Len(b)
                 PROVE  \E s \in Places : flashBoard[s] = b[i]
      OBVIOUS
    <2>1. i \in Places /\ i <= Len(b)
      BY <1>6 DEF Places, BoardConstants
    <2>2. Padded(b)[i] = b[i]
      BY <2>1 DEF Padded
    <2> QED
      BY <2>1, <2>2, <1>6
  <1>8. Course(f, flashBoard, <<>>, b)
    <2>1. Len(<<>>) = 0 /\ \A k \in 0 .. 0 : k = 0
      OBVIOUS
    <2>2. f \in [0 .. 0 -> Flash] /\ f[0] = flashBoard /\ \A k \in 0 .. 0 : f[k] = flashBoard
      BY <1>5
    <2> HIDE DEF f
    <2> QED
      BY <2>1, <2>2, <1>5, <1>6, <1>7 DEF Course
  <1>9. <<>> \in Seq(Save)
    OBVIOUS
  <1> QED
    BY <1>1, <1>6, <1>8, <1>9

LEMMA BoardStep ==
    ASSUME BoardConstants, BoardInv, [RecordsNext]_recordVars
    PROVE  BoardInv'
  <1>1. CASE ScoreboardAdd
    BY <1>1, EntryAdded
  <1>2. CASE SaveSlot
    BY <1>2, SlotSaved
  <1>3. CASE Reset
    BY <1>3, BoardReadBack
  <1>4. CASE SamplesNext \/ UNCHANGED recordVars
    <2>1. UNCHANGED boardVars
      BY <1>4 DEF SamplesNext, AddSample, RemoveSamples, ReadSample, recordVars, boardVars
    <2> QED
      BY <2>1 DEF BoardInv, boardVars
  <1> QED
    BY <1>1, <1>2, <1>3, <1>4 DEF RecordsNext, BoardNext

LEMMA BoardSafe ==
    ASSUME BoardConstants, BoardInv
    PROVE  ScoreboardSurvives
  <1> SUFFICES ASSUME ~blank
               PROVE  /\ \A i \in 1 .. BoardSize - 1 : flashBoard[i].d >= flashBoard[i + 1].d
                      /\ \A i \in DOMAIN board : board[i] \in Written \cup Unwritten
                      /\ \A i \in DOMAIN board : i < Len(board) => board[i].d >= board[i + 1].d
    BY DEF ScoreboardSurvives
  <1>1. board \in Seq(Clean) /\ Len(board) <= BoardSize /\ saves \in Seq(Save)
    BY DEF BoardInv
  <1>2. PICK f : Course(f, flashBoard, saves, board)
    BY DEF BoardInv
  <1>3. /\ 0 \in 0 .. Len(saves) /\ Len(saves) \in 0 .. Len(saves) /\ Len(board) \in Nat
        /\ DOMAIN board = 1 .. Len(board) /\ DOMAIN saves = 1 .. Len(saves) /\ BoardSize \in Nat
    BY <1>1 DEF BoardConstants
  <1>4. Descending(flashBoard) /\ Descending(Padded(board))
    BY <1>2, <1>3 DEF Course
  <1>5. \A i \in 1 .. BoardSize - 1 : flashBoard[i].d >= flashBoard[i + 1].d
    <2>1. \A i \in 1 .. BoardSize - 1 : i \in Places /\ i + 1 \in Places /\ i <= i + 1
      BY <1>3 DEF Places
    <2> QED
      BY <2>1, <1>4 DEF Descending
  <1>6. ASSUME NEW i \in DOMAIN board, i < Len(board)
        PROVE  board[i].d >= board[i + 1].d
    <2>1. i \in Places /\ i + 1 \in Places /\ i <= i + 1 /\ i <= Len(board) /\ i + 1 <= Len(board)
      BY <1>1, <1>3, <1>6 DEF Places
    <2>2. Padded(board)[i] = board[i] /\ Padded(board)[i + 1] = board[i + 1]
      BY <2>1 DEF Padded
    <2>3. Padded(board)[i].d >= Padded(board)[i + 1].d
      BY <2>1, <1>4 DEF Descending
    <2> QED
      BY <2>2, <2>3
  <1>7. ASSUME NEW i \in DOMAIN board
        PROVE  board[i] \in Written \cup Unwritten
    <2>1. \/ \E s \in Places : f[0][s] = board[i]
          \/ \E q \in 1 .. Len(saves) : 0 < q /\ saves[q].new /\ saves[q].entry = board[i]
      BY <1>2, <1>3 DEF Course
    <2>2. f[0] = flashBoard
      BY <1>2 DEF Course
    <2>3. CASE \E s \in Places : f[0][s] = board[i]
      BY <2>2, <2>3 DEF Written, Places
    <2>4. CASE \E q \in 1 .. Len(saves) : 0 < q /\ saves[q].new /\ saves[q].entry = board[i]
      BY <2>4, <1>3 DEF Unwritten
    <2> QED
      BY <2>1, <2>3, <2>4
  <1> QED
    BY <1>5, <1>6, <1>7

(* A reset between any two writes costs at most entries that were never        *)
(* written: flash is in order and without a gap, and every entry of the board  *)
(* that is not new is in flash, while it moves down as well.                   *)
THEOREM ScoreboardIsSafe ==
    ASSUME BoardConstants
    PROVE  RecordsSpec => []ScoreboardSurvives
  <1>1. RecordsInit => BoardInv
    BY BoardInitially
  <1>2. BoardInv /\ [RecordsNext]_recordVars => BoardInv'
    BY BoardStep
  <1>3. BoardInv => ScoreboardSurvives
    BY BoardSafe
  <1> QED
    BY <1>1, <1>2, <1>3, PTL DEF RecordsSpec
=============================================================================
