------------------------------ MODULE Autotune ------------------------------
(***************************************************************************)
(* autotune_task.c: once a second it looks at the error rate and at the    *)
(* governors of the power task, and moves the stored frequency along the   *)
(* chip's presets.  The user edits the same settings and switches it on    *)
(* and off; a reset keeps only what is stored.  Its own updates are queued *)
(* to nvs_task, which stores them one by one before the next poll, a       *)
(* second later, unless a reset comes first.  Time is in polls and ages    *)
(* saturate.                                                               *)
(***************************************************************************)
EXTENDS Integers, Sequences

CONSTANTS
    Presets,     \* frequency_options, ascending
    UserValues,  \* frequencies that the user types, for either setting
    Warmup,      \* AUTOTUNE_WARMUP_MS
    Interval,    \* AUTOTUNE_CLIMB_INTERVAL_MS
    Cooldown,    \* AUTOTUNE_BACKOFF_COOLDOWN_MS
    Window       \* AUTOTUNE_STABLE_WINDOW_SAMPLES

VARIABLES
    tuner,      \* the state of the search
    entered,    \* age of the state
    climbed,    \* age of last_climb_at_ms
    stable,     \* stable_samples
    wasOn,      \* was_enabled
    tunerOn,    \* NVS_CONFIG_AUTOTUNE_ENABLED
    frequency,  \* NVS_CONFIG_ASIC_FREQUENCY
    tuned,      \* NVS_CONFIG_AUTOTUNE_FREQUENCY, 0 if never tuned
    queued,     \* settings that nvs_task has yet to store for autotune
    target,     \* the value that they get
    streak,     \* history: good polls in a row
    sinceUp,    \* history: polls since autotune raised the frequency
    sinceDown,  \* history: since it lowered it
    sinceOn,    \* history: since it was switched on or the device started
    unstable,   \* history: frequency that its last step came down from, or 0
    rash        \* history: it raised the frequency too early or too high

queueVars == <<frequency, tuned, queued, target>>
tunerVars == <<tuner, entered, climbed, stable, wasOn, tunerOn, queueVars, streak, sinceUp,
               sinceDown, sinceOn, unstable, rash>>

Ceiling == Presets[Len(Presets)]   \* asic_options_max
Longest == Warmup + Interval + Cooldown
Older(age) == IF age < Longest THEN age + 1 ELSE age

\* Samples never pass the window.
TunerTypeOK ==
    /\ tuner \in {"warmup", "climbing", "backoff"}
    /\ stable \in 0 .. Window
    /\ \A f \in {frequency, tuned, target} :
          f \in {0} \cup UserValues \cup {Presets[i] : i \in DOMAIN Presets}
    /\ queued \in {<<>>, <<"frequency">>, <<"tuned">>, <<"frequency", "tuned">>,
                  <<"tuned", "frequency">>}

TunerInit ==
    /\ tuner = "warmup" /\ entered = 0 /\ climbed = 0 /\ stable = 0
    /\ wasOn = FALSE /\ tunerOn \in BOOLEAN /\ frequency \in UserValues /\ tuned = 0
    /\ queued = <<>> /\ target = 0 /\ unstable = 0
    /\ streak = 0 /\ sinceUp = Longest /\ sinceDown = Longest /\ sinceOn = 0 /\ rash = FALSE

-----------------------------------------------------------------------------

\* find_frequency_floor_index: the highest preset not above f, 0 if there is none.
Floor(f) == LET below == {i \in DOMAIN Presets : Presets[i] <= f}
            IN  IF below = {} THEN 0 ELSE CHOOSE i \in below : \A j \in below : j <= i

\* step_frequency_up: from below every preset the climb starts at the lowest.
CanStepUp == Floor(frequency) < Len(Presets)
StepUp == Presets[Floor(frequency) + 1]

\* step_frequency_down
CanStepDown == Floor(frequency) > 1
StepDown == Presets[Floor(frequency) - 1]

\* nvs_config_set_float of each of the keys: queued, and stored later.
Store(keys, value) == queued' = keys /\ target' = value /\ UNCHANGED <<frequency, tuned>>
StoreNothing == UNCHANGED queueVars

\* nvs_task stores the oldest update.
SaveFloat ==
    /\ queued # <<>> /\ queued' = Tail(queued)
    /\ IF Head(queued) = "frequency" THEN frequency' = target /\ UNCHANGED tuned
       ELSE tuned' = target /\ UNCHANGED frequency
    /\ UNCHANGED <<tuner, entered, climbed, stable, wasOn, tunerOn, target, streak, sinceUp,
                   sinceDown, sinceOn, unstable, rash>>

\* Switched off: remembered for the next time it is on.
Off ==
    /\ ~tunerOn /\ wasOn /\ wasOn' = FALSE
    /\ UNCHANGED <<tuner, entered, climbed, stable, tunerOn, queueVars, streak, sinceUp,
                   sinceDown, sinceOn, unstable, rash>>

\* resume_from_persisted_frequency: what is stored, clamped to the ceiling, is put in
\* force if it is higher; and the search starts with its warm-up.
On ==
    LET clamped == IF tuned > Ceiling THEN Ceiling ELSE tuned
        raise == clamped > frequency
        keys == IF tuned > Ceiling
                THEN IF raise THEN <<"tuned", "frequency">> ELSE <<"tuned">>
                ELSE IF raise THEN <<"frequency">> ELSE <<>>
    IN  /\ tunerOn /\ ~wasOn /\ wasOn' = TRUE /\ queued = <<>>
        /\ tuner' = "warmup" /\ entered' = 0 /\ stable' = 0
        /\ Store(keys, clamped)
        /\ rash' = (rash \/ (raise /\ (clamped > Ceiling
                                      \/ (unstable > 0 /\ clamped >= unstable))))
        /\ streak' = 0 /\ sinceOn' = 0
        /\ UNCHANGED <<climbed, tunerOn, sinceUp, sinceDown, unstable>>

\* The self test owns the chip or it is not initialised: time passes.
Hold ==
    /\ tunerOn /\ wasOn /\ queued = <<>>
    /\ entered' = Older(entered) /\ climbed' = Older(climbed)
    /\ sinceUp' = Older(sinceUp) /\ sinceDown' = Older(sinceDown) /\ sinceOn' = Older(sinceOn)
    /\ UNCHANGED <<tuner, stable, wasOn, tunerOn, queueVars, streak, unstable, rash>>

\* A poll that only lets the state age, or leaves a pause when it is long enough.
Pauses(length) ==
    /\ IF Older(entered) >= length
       THEN tuner' = "climbing" /\ climbed' = 0 /\ stable' = 0
       ELSE UNCHANGED <<tuner, stable>> /\ climbed' = Older(climbed)
    /\ entered' = Older(entered)
    /\ StoreNothing /\ UNCHANGED <<unstable, rash>>
    /\ sinceUp' = Older(sinceUp) /\ sinceDown' = Older(sinceDown)

\* Mutant: an unstable chip starts no cooldown.
Mut_BackOff ==
    /\ IF CanStepDown
       THEN Store(<<"frequency", "tuned">>, StepDown) /\ unstable' = frequency
       ELSE StoreNothing /\ UNCHANGED unstable
    /\ tuner' = "climbing" /\ entered' = 0 /\ climbed' = Older(climbed) /\ stable' = 0
    /\ sinceUp' = Older(sinceUp) /\ sinceDown' = IF CanStepDown THEN 0 ELSE Older(sinceDown)
    /\ UNCHANGED rash

\* An unstable chip: one preset down, and a cooldown.
BackOff ==
    /\ IF CanStepDown
       THEN Store(<<"frequency", "tuned">>, StepDown) /\ unstable' = frequency
       ELSE StoreNothing /\ UNCHANGED unstable
    /\ tuner' = "backoff" /\ entered' = 0 /\ climbed' = Older(climbed) /\ stable' = 0
    /\ sinceUp' = Older(sinceUp) /\ sinceDown' = IF CanStepDown THEN 0 ELSE Older(sinceDown)
    /\ UNCHANGED rash

\* Good samples are counted up to the window, a bad one starts again; with the
\* window full and the interval over, one preset up, if there is one.
Climb(good) ==
    LET samples == IF ~good THEN 0 ELSE IF stable < Window THEN stable + 1 ELSE stable
        due == samples >= Window /\ Older(climbed) >= Interval
        up == due /\ CanStepUp
    IN  /\ stable' = IF up THEN 0 ELSE samples
        /\ climbed' = IF due THEN 0 ELSE Older(climbed)
        /\ IF up THEN Store(<<"frequency", "tuned">>, StepUp) /\ unstable' = 0
           ELSE StoreNothing /\ UNCHANGED unstable
        /\ sinceUp' = IF up THEN 0 ELSE Older(sinceUp)
        /\ rash' = (rash \/ (up /\ \/ streak' < Window
                                   \/ Older(sinceUp) < Interval
                                   \/ Older(sinceDown) < Cooldown + Interval
                                   \/ Older(sinceOn) < Warmup + Interval
                                   \/ StepUp > Ceiling))
        /\ entered' = Older(entered) /\ sinceDown' = Older(sinceDown)
        /\ UNCHANGED tuner

\* One pass of the task with a chip that runs: error rate and governors are read.
Poll ==
    /\ tunerOn /\ wasOn /\ queued = <<>>
    /\ \E errors \in {"low", "some", "many"}, governor \in BOOLEAN :
          LET good == errors = "low" /\ ~governor
          IN  /\ streak' = IF good THEN (IF streak < Window THEN streak + 1 ELSE streak) ELSE 0
              /\ CASE tuner = "warmup" -> Pauses(Warmup)
                   [] tuner = "backoff" -> Pauses(Cooldown)
                   [] tuner = "climbing" /\ errors = "many" -> BackOff
                   [] tuner = "climbing" /\ errors # "many" -> Climb(good)
    /\ sinceOn' = Older(sinceOn)
    /\ UNCHANGED <<wasOn, tunerOn>>

\* The user edits the frequency, or the tuned one, or switches autotune.
UserEdits ==
    /\ \/ frequency' \in UserValues \ {frequency} /\ UNCHANGED <<tunerOn, tuned, unstable>>
       \/ /\ tuned' \in (UserValues \cup {0}) \ {tuned} /\ unstable' = 0
          /\ UNCHANGED <<tunerOn, frequency>>
       \/ tunerOn' = ~tunerOn /\ UNCHANGED <<frequency, tuned, unstable>>
    /\ UNCHANGED <<tuner, entered, climbed, stable, wasOn, queued, target, streak, sinceUp,
                   sinceDown, sinceOn, rash>>

\* A reset: the task starts afresh with what is stored.  What is still queued is
\* lost, and with it what a step down knew.
TunerReset ==
    /\ tuner' = "warmup" /\ entered' = 0 /\ climbed' = 0 /\ stable' = 0 /\ wasOn' = FALSE
    /\ streak' = 0 /\ sinceOn' = 0 /\ queued' = <<>>
    /\ unstable' = IF queued = <<>> THEN unstable ELSE 0
    /\ UNCHANGED <<tunerOn, frequency, tuned, target, sinceUp, sinceDown, rash>>

TunerNext == Off \/ On \/ Hold \/ Poll \/ SaveFloat \/ UserEdits \/ TunerReset

TunerSpec == TunerInit /\ [][TunerNext]_tunerVars

-----------------------------------------------------------------------------
(* Properties *)

\* Autotune raises the frequency in two ways.  A climb comes only after a full
\* window of good polls, a whole interval after it last climbed, the cooldown and
\* an interval after it last stepped down, and the warm-up and an interval after it
\* was switched on or the device was reset, whatever the user does in between.  A
\* resumption, when it is switched on or starts, asks for none of this; but it
\* never goes back to the frequency that its last step came down from, or above,
\* unless the user stored it or a reset lost the step.  Neither passes the chip's
\* highest preset.
NeverRash == ~rash
=============================================================================
