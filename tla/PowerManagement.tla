-------------------------- MODULE PowerManagement ---------------------------
(* main/tasks/power_management_task.c: the task that alone cuts and restores  *)
(* the power of the ASIC.  It stops mining on a user pause, on a hardware     *)
(* fault and when the coordinator finds no pool, restarts it with retries,    *)
(* watches the sensors, backs off after an overheat and governs voltage and   *)
(* frequency.  Its actors: the task itself, the boot sequence in main.c that  *)
(* initialises the ASIC while the task already runs, the HTTP server, the     *)
(* protocol coordinator, the fan controller, and nvs_task, which alone puts a *)
(* stored setting in force: every setter, the task's own included, only       *)
(* queues it.                                                                 *)
(*                                                                            *)
(* Readings are classes: of the chip "none" (-1), "cold" (at most SAFE_TEMP), *)
(* "cool", "warm" (above THROTTLE_TEMP), "hot" (above MAX_TEMP); of the       *)
(* regulator "cool", "warm", "hot"; of the input "ok", "low", "absent".  A    *)
(* regulator between the end of cooling (95 C) and the start of throttling    *)
(* (105 C) is "warm" to the cooling loop and "cool" to the governor; readings *)
(* are free at every turn, so both effects are in the model.                  *)
EXTENDS Naturals, FiniteSets, Sequences

CONSTANTS
    ChipReadings, VrReadings, VinReadings,   \* what the sensors may deliver
    Faults,          \* what may fail: "vcore", "chips", "fan", "power_sensor"
    Requests,        \* what others may ask: "pause", "pools", "settings"
    ColdBoot,        \* where to begin: with the boot, with a device that has been mining
    InternalSensor,  \* DEVICE_CONFIG.emc_internal_temp
    ThrottleFloor, FMin, FMax, FDefault,     \* frequencies: 50 MHz, the envelope, 400 MHz
    VMin, VMax, VDefault, RegulatorMin,      \* core voltages; 0 is off
    Reduction,       \* ASIC_REDUCTION
    MaxFailures,     \* MINING_START_MAX_FAILURES
    SensorTimeout, SensorGrace,              \* TEMP_SENSOR_TIMEOUT_US, TEMP_SENSOR_GRACE_US
    MinCoolingCycles,
    SaveQueue        \* the length of nvs_save_queue

ASSUME SensorAssumption == /\ ChipReadings \subseteq {"none", "cold", "cool", "warm", "hot"}
                           /\ VrReadings \subseteq {"cool", "warm", "hot"}
                           /\ VinReadings \subseteq {"ok", "low", "absent"}
                           /\ "cool" \in ChipReadings \cap VrReadings /\ "ok" \in VinReadings
ASSUME RequestAssumption == /\ Faults \subseteq {"vcore", "chips", "fan", "power_sensor"}
                            /\ Requests \subseteq {"pause", "pools", "settings"}
                            /\ ColdBoot \subseteq BOOLEAN /\ InternalSensor \in BOOLEAN
ASSUME FrequencyAssumption == /\ {ThrottleFloor, FMin, FMax, FDefault} \subseteq Nat \ {0}
                              /\ ThrottleFloor <= FMin /\ FMin <= FMax
ASSUME VoltageAssumption == /\ {VMin, VMax, VDefault, RegulatorMin} \subseteq Nat \ {0}
                            /\ RegulatorMin <= VMin /\ VMin <= VMax
ASSUME LimitAssumption == /\ {Reduction, MaxFailures, MinCoolingCycles, SaveQueue} \subseteq Nat \ {0}
                          /\ {SensorTimeout, SensorGrace} \subseteq Nat
                          /\ SensorTimeout <= SensorGrace

VARIABLES
    pc,                                      \* where the task is in its loop
    isPaused, startFailures, retryDue, lastUp, tempFault, deadline,
    reading, sensorStale, filtered, lastVoltage, lastFrequency, cycles, known,
    miningPaused, poolsUnavailable, hardwareFault, asicUp,   \* GlobalState
    frequency,                               \* frequency_value, in force once the ASIC is up
    vcore,                                   \* what the regulator delivers
    nvsVoltage, nvsFrequency, nvsOverheat,   \* the settings' cache, which every getter reads
    saves,                                   \* nvs_save_queue: updates on their way to it
    overheatMode, warned,
    excursion,                               \* history: "none", or since the last overheat nobody
                                             \* ("bounded") or somebody ("raised") asked for a
                                             \* higher voltage
    boot                                     \* main.c: "wifi", "detected", "booted",
                                             \* "failed", or long since "mining"

loopVars  == <<isPaused, startFailures, retryDue>>
senseVars == <<lastUp, tempFault, deadline, reading, sensorStale>>
heatVars  == <<cycles, known, excursion>>
governVars == <<filtered, lastVoltage, lastFrequency, overheatMode>>
cacheVars == <<nvsVoltage, nvsFrequency, nvsOverheat>>
nvsVars   == <<cacheVars, saves, warned>>
requestVars == <<miningPaused, poolsUnavailable>>
chipVars  == <<asicUp, frequency, vcore>>
vars == <<pc, loopVars, senseVars, heatVars, governVars, nvsVars, requestVars, chipVars,
          hardwareFault, boot>>

Clamp(x, lo, hi) == IF x < lo THEN lo ELSE IF x > hi THEN hi ELSE x
ClampVoltage(v)   == Clamp(v, VMin, VMax)
ClampFrequency(f) == Clamp(f, FMin, FMax)
ChipClasses == {"cold", "cool", "warm", "hot"}
VrClasses   == {"cool", "warm", "hot"}
VinClasses  == {"ok", "low"}
Reading  == [chip : ChipClasses \cup {"none"}, vr : VrClasses, vin : VinClasses \cup {"absent"}]
Filtered == [chip : ChipClasses \cup {"unset"}, vr : VrClasses \cup {"unset"},
             vin : VinClasses \cup {"unset"}]
Voltages == 0 .. (IF VMax > VDefault THEN VMax ELSE VDefault)
Frequencies == 0 .. (IF FMax > FDefault THEN FMax ELSE FDefault)

TypeOK ==
    /\ pc \in {"tick", "decide", "check", "stopping", "starting", "heat_stopping", "cooling", "cooled",
               "reduced", "restarting", "govern"}
    /\ {isPaused, retryDue, lastUp, tempFault, sensorStale, miningPaused, poolsUnavailable,
        hardwareFault, asicUp, nvsOverheat, overheatMode} \subseteq BOOLEAN
    /\ startFailures \in 0 .. MaxFailures /\ deadline \in 0 .. SensorGrace
    /\ reading \in Reading
    /\ filtered \in Filtered
    /\ lastVoltage \in Voltages /\ lastFrequency \in Frequencies
    /\ cycles \in 0 .. MinCoolingCycles
    /\ known \in [voltage : Voltages, frequency : Frequencies]
    /\ vcore \in Voltages /\ frequency \in Frequencies
    /\ nvsVoltage \in Voltages /\ nvsFrequency \in Frequencies
    /\ \A i \in DOMAIN saves :
          saves[i].value \in CASE saves[i].key = "voltage"   -> Voltages
                               [] saves[i].key = "frequency" -> Frequencies
                               [] saves[i].key = "overheat"  -> BOOLEAN
    /\ Len(saves) <= SaveQueue
    /\ excursion \in {"none", "bounded", "raised"}
    /\ warned \in [voltage : Voltages, frequency : Frequencies]
    /\ boot \in {"wifi", "detected", "booted", "failed", "mining"}

(* Cold boot: the task has just started, power is off until its first turn.   *)
(* Otherwise: the device has booted and mined for a while.                    *)
Init ==
    /\ pc = "tick"
    /\ isPaused = FALSE /\ startFailures = 0 /\ retryDue = TRUE
    /\ tempFault = FALSE /\ sensorStale = FALSE
    /\ nvsVoltage = VMax /\ nvsFrequency = FMax /\ nvsOverheat = FALSE /\ overheatMode = FALSE
    /\ saves = <<>> /\ excursion = "none"
    /\ warned = [voltage |-> 0, frequency |-> 0]
    /\ lastFrequency = nvsFrequency /\ frequency = nvsFrequency
    /\ cycles = 0 /\ known = [voltage |-> 0, frequency |-> 0]
    /\ miningPaused = FALSE /\ poolsUnavailable = FALSE /\ hardwareFault = FALSE
    /\ \E cold \in ColdBoot :
          /\ reading = [chip |-> IF cold THEN "none" ELSE "cool", vr |-> "cool", vin |-> "ok"]
          /\ IF cold
             THEN /\ asicUp = FALSE /\ lastUp = FALSE /\ boot = "wifi"
                  /\ vcore = 0 /\ lastVoltage = 0 /\ deadline = SensorGrace
                  /\ filtered = [chip |-> "unset", vr |-> "unset", vin |-> "unset"]
             ELSE /\ asicUp = TRUE /\ lastUp = TRUE /\ boot = "mining"
                  /\ vcore = VMax /\ lastVoltage = VMax /\ deadline = SensorTimeout
                  /\ filtered = [chip |-> "cool", vr |-> "cool", vin |-> "ok"]
-----------------------------------------------------------------------------
(* VCORE_set_voltage.  When the regulator does not answer, it has kept its    *)
(* voltage or it has changed it before the error.                             *)
VCORE_set_voltage(v, ok) == \/ ok /\ vcore' = v
                            \/ ~ok /\ "vcore" \in Faults /\ vcore' \in {vcore, v}

(* nvs_config_set_*: an update is queued unless the cache has its value       *)
(* already.  A setter waits for room.                                         *)
Set(queue, key, cached, value) == IF value = cached THEN queue
                                  ELSE Append(queue, [key |-> key, value |-> value])
Queue(queue) == saves' = queue /\ Len(queue) <= SaveQueue

(* tuning_clamp_voltage / tuning_clamp_frequency on the setting read: for a   *)
(* value outside the envelope the correction is queued, unless it is the one  *)
(* that was corrected last.                                                   *)
Correct(queue, key, x, clamped, last) == IF x = last THEN queue ELSE Set(queue, key, x, clamped)
CorrectVoltage(queue) == Correct(queue, "voltage", nvsVoltage, ClampVoltage(nvsVoltage), warned.voltage)
CorrectFrequency(queue) ==
    Correct(queue, "frequency", nvsFrequency, ClampFrequency(nvsFrequency), warned.frequency)
Warned(x, clamped, last)    == IF clamped # x THEN x ELSE last

(* asic_initialize: the chips answer when they have power and are not stuck.  *)
ChipsAnswer(ok) == \/ ok /\ vcore > 0
                   \/ ~ok /\ ("chips" \in Faults \/ vcore = 0)
-----------------------------------------------------------------------------
(* The head of the loop: the sensors are read; with the ASIC up and no chip   *)
(* reading before the deadline the temperature sensor becomes a fault.  A     *)
(* rising edge of ASIC_initalized extends the deadline to the grace period.   *)
Deadline == IF asicUp /\ ~lastUp THEN SensorGrace
            ELSE IF deadline > 0 THEN deadline - 1 ELSE 0

SensorTimedOut(r) == r.chip = "none" /\ asicUp /\ ~isPaused /\ ~tempFault /\ Deadline = 0

Readable(r) == /\ r.chip \in (IF asicUp THEN ChipReadings ELSE {"none"})
               /\ r.vr \in VrReadings /\ r.vin \in VinReadings

Sense ==
    /\ pc = "tick" /\ pc' = "decide"
    /\ \E r \in Reading :
          /\ Readable(r) /\ reading' = r
          /\ deadline' = IF r.chip # "none" THEN SensorTimeout ELSE Deadline
          /\ tempFault' = (r.chip = "none" /\ (tempFault \/ SensorTimedOut(r)))
          /\ hardwareFault' = (hardwareFault \/ SensorTimedOut(r))
    /\ lastUp' = asicUp
    /\ sensorStale' \in (IF "power_sensor" \in Faults THEN BOOLEAN ELSE {FALSE})
    /\ filtered' = IF sensorStale' /\ ~sensorStale THEN [filtered EXCEPT !.vin = "unset"] ELSE filtered
    /\ UNCHANGED <<loopVars, heatVars, lastVoltage, lastFrequency, overheatMode, nvsVars,
                   requestVars, chipVars, boot>>

(* Mutants: a reason to stop is forgotten.                                    *)
Mut_IgnoreFault == miningPaused \/ poolsUnavailable

wants_stop == miningPaused \/ hardwareFault \/ poolsUnavailable

(* mining_stop winds the frequency down, 100 ms per 6.25 MHz, before it cuts  *)
(* the power: the time in which other tasks still see ASIC_initalized.        *)
StopMining ==
    /\ pc = "decide" /\ wants_stop /\ ~isPaused
    /\ frequency' = ThrottleFloor /\ pc' = "stopping"
    /\ UNCHANGED <<loopVars, senseVars, heatVars, governVars, nvsVars, requestVars, asicUp, vcore,
                   hardwareFault, boot>>

(* Mutant: ASIC_initalized stays set.                                         *)
Mut_CutLeavesFlag ==
    \E ok \in BOOLEAN : /\ VCORE_set_voltage(0, ok)
                        /\ hardwareFault' = (hardwareFault \/ ~ok)
                        /\ UNCHANGED <<asicUp, frequency>>

CutPower ==
    \E ok \in BOOLEAN : /\ VCORE_set_voltage(0, ok)
                        /\ hardwareFault' = (hardwareFault \/ ~ok)
                        /\ asicUp' = FALSE
                        /\ UNCHANGED frequency

PowerCut ==
    /\ pc = "stopping" /\ CutPower /\ pc' = "tick"
    /\ isPaused' = TRUE /\ startFailures' = 0 /\ retryDue' = TRUE
    /\ UNCHANGED <<senseVars, heatVars, governVars, nvsVars, requestVars, boot>>

(* Mutants: a failed start is declared running; one attempt too many.         *)
Mut_FailedIsRunning(voltageFailed) ==
    /\ startFailures' = 0 /\ retryDue' = FALSE
    /\ hardwareFault' = (hardwareFault \/ voltageFailed)
    /\ isPaused' = FALSE /\ pc' = "tick"

(* The bookkeeping of a failed mining_start on the way out of a pause.        *)
StartFailed(voltageFailed) ==
    /\ startFailures' = startFailures + 1 /\ retryDue' = FALSE
    /\ hardwareFault' = (hardwareFault \/ voltageFailed \/ startFailures + 1 >= MaxFailures)
    /\ pc' = "tick"
    /\ UNCHANGED isPaused

(* Mutant: a start that failed is not tried again.                            *)
Mut_NoSecondStart ==
    /\ pc = "decide" /\ ~wants_stop /\ isPaused /\ retryDue /\ startFailures = 0
    /\ \E ok \in BOOLEAN :
          /\ VCORE_set_voltage(ClampVoltage(nvsVoltage), ok)
          /\ \/ ok  /\ pc' = "starting" /\ UNCHANGED <<loopVars, hardwareFault>>
             \/ ~ok /\ StartFailed(TRUE)
    /\ UNCHANGED <<senseVars, heatVars, governVars, nvsVars, requestVars, asicUp, frequency, boot>>

(* mining_start up to the delay after the voltage is set.                     *)
StartMining ==
    /\ pc = "decide" /\ ~wants_stop /\ isPaused /\ retryDue
    /\ \E ok \in BOOLEAN :
          /\ VCORE_set_voltage(ClampVoltage(nvsVoltage), ok)
          /\ \/ ok  /\ pc' = "starting" /\ UNCHANGED <<loopVars, hardwareFault>>
             \/ ~ok /\ StartFailed(TRUE)
    /\ Queue(CorrectVoltage(saves))
    /\ warned' = [warned EXCEPT !.voltage = Warned(nvsVoltage, ClampVoltage(nvsVoltage), @)]
    /\ UNCHANGED <<senseVars, heatVars, governVars, cacheVars, requestVars, asicUp, frequency, boot>>

(* The rest of mining_start: POWER_MANAGEMENT_init_frequency and              *)
(* asic_initialize, which reports the chips only when they answer; the        *)
(* updates it leaves queued.                                                  *)
DetectChips(ok) ==
    /\ ChipsAnswer(ok)
    /\ frequency' = ClampFrequency(nvsFrequency)
    /\ warned' = [warned EXCEPT !.frequency = Warned(nvsFrequency, ClampFrequency(nvsFrequency), @)]
    /\ asicUp' = (asicUp \/ ok)
    /\ UNCHANGED <<vcore, cacheVars>>

Started ==
    /\ pc = "starting"
    /\ \/ /\ DetectChips(TRUE)
          /\ isPaused' = FALSE /\ startFailures' = 0 /\ UNCHANGED retryDue
          /\ pc' = "check" /\ UNCHANGED hardwareFault
       \/ DetectChips(FALSE) /\ StartFailed(FALSE)
    /\ Queue(CorrectFrequency(saves))
    /\ UNCHANGED <<senseVars, heatVars, governVars, requestVars, boot>>

(* Neither to stop nor to start: running, or paused and told to stay so, or   *)
(* paused and not yet due for the next attempt.                               *)
NoChange ==
    /\ pc = "decide" /\ (wants_stop \/ isPaused => isPaused /\ (wants_stop \/ ~retryDue))
    /\ pc' = "check"
    /\ UNCHANGED <<loopVars, senseVars, heatVars, governVars, nvsVars, requestVars, chipVars,
                   hardwareFault, boot>>

(* Paused or faulty: the rest of the turn is skipped.                         *)
SkipRest ==
    /\ pc = "check" /\ (isPaused \/ hardwareFault)
    /\ pc' = "tick"
    /\ UNCHANGED <<loopVars, senseVars, heatVars, governVars, nvsVars, requestVars, chipVars,
                   hardwareFault, boot>>
-----------------------------------------------------------------------------
(* The hard emergency stop.                                                   *)
Overheated == /\ reading.vr = "hot" \/ reading.chip = "hot"
              /\ frequency > ThrottleFloor \/ reading.vin # "absent"

Running == pc = "check" /\ ~isPaused /\ ~hardwareFault

(* A voltage that would put the core above the one kept in known.             *)
Raises(v, kept) == ClampVoltage(v) > ClampVoltage(kept)

Overheat ==
    /\ Running /\ Overheated
    /\ known' = [voltage |-> nvsVoltage, frequency |-> nvsFrequency]
    /\ Queue(Set(saves, "overheat", nvsOverheat, TRUE))
    /\ frequency' = ThrottleFloor /\ cycles' = 0 /\ pc' = "heat_stopping"
    /\ excursion' = IF \E i \in DOMAIN saves : saves[i].key = "voltage" /\ Raises(saves[i].value, nvsVoltage)
                    THEN "raised" ELSE "bounded"
    /\ UNCHANGED <<loopVars, senseVars, governVars, cacheVars, warned, requestVars, asicUp, vcore,
                   hardwareFault, boot>>

HeatPowerCut ==
    /\ pc = "heat_stopping" /\ CutPower /\ pc' = "cooling"
    /\ UNCHANGED <<loopVars, senseVars, heatVars, governVars, nvsVars, requestVars, boot>>

(* Mutant: the regulator alone ends the cooling.                              *)
Mut_NoMinimumCooling ==
    /\ pc = "cooling"
    /\ \E vr \in VrReadings :
          /\ reading' = [reading EXCEPT !.vr = vr]
          /\ cycles' = IF cycles < MinCoolingCycles THEN cycles + 1 ELSE cycles
          /\ pc' = IF vr # "cool" THEN "cooling" ELSE "cooled"
    /\ UNCHANGED <<loopVars, lastUp, tempFault, deadline, sensorStale, known, excursion,
                   governVars, nvsVars, requestVars, chipVars, hardwareFault, boot>>

(* One 5 s turn of the cooling loop.  Nothing but the temperatures ends it:   *)
(* pauses, faults and the sensor deadline are not looked at.                  *)
CoolingCycle ==
    /\ pc = "cooling"
    /\ \E vr \in VrReadings, chip \in (IF asicUp THEN ChipReadings ELSE {"none"}) :
          /\ reading' = [reading EXCEPT !.vr = vr, !.chip = IF InternalSensor THEN chip ELSE @]
          /\ cycles' = IF InternalSensor /\ chip \in {"cool", "warm", "hot"} THEN 0
                       ELSE IF cycles < MinCoolingCycles THEN cycles + 1 ELSE cycles
          /\ pc' = IF cycles' < MinCoolingCycles \/ vr # "cool" THEN "cooling" ELSE "cooled"
    /\ deadline' = IF deadline > 0 THEN deadline - 1 ELSE 0
    /\ UNCHANGED <<loopVars, lastUp, tempFault, sensorStale, known, excursion, governVars, nvsVars,
                   requestVars, chipVars, hardwareFault, boot>>

Reduced(x, default) == IF x > Reduction THEN x - Reduction ELSE default
ReducedVoltage == LET v == Reduced(known.voltage, VDefault)
                  IN  IF v < RegulatorMin THEN RegulatorMin ELSE v

(* The reduced settings are queued.                                           *)
RestartReduced ==
    /\ pc = "cooled" /\ pc' = "reduced"
    /\ Queue(Set(Set(saves, "voltage", nvsVoltage, ReducedVoltage),
                 "frequency", nvsFrequency, Reduced(known.frequency, FDefault)))
    /\ UNCHANGED <<loopVars, senseVars, heatVars, governVars, cacheVars, warned, requestVars, chipVars,
                   hardwareFault, boot>>

(* mining_start follows at once and reads whatever the cache then holds.      *)
RestartMining ==
    /\ pc = "reduced"
    /\ \E ok \in BOOLEAN : /\ VCORE_set_voltage(ClampVoltage(nvsVoltage), ok)
                           /\ hardwareFault' = (hardwareFault \/ ~ok)
                           /\ pc' = IF ok THEN "restarting" ELSE "govern"
    /\ Queue(CorrectVoltage(saves))
    /\ warned' = [warned EXCEPT !.voltage = Warned(nvsVoltage, ClampVoltage(nvsVoltage), @)]
    /\ UNCHANGED <<loopVars, senseVars, heatVars, governVars, cacheVars, requestVars, asicUp, frequency, boot>>

(* Chips that do not answer here leave the loop running as if they had.       *)
Restarted ==
    /\ pc = "restarting" /\ pc' = "govern"
    /\ \E ok \in BOOLEAN :
          /\ DetectChips(ok)
          /\ Queue(IF ok THEN Set(CorrectFrequency(saves), "overheat", nvsOverheat, FALSE)
                   ELSE CorrectFrequency(saves))
          /\ excursion' = IF ok THEN "none" ELSE excursion
    /\ UNCHANGED <<loopVars, senseVars, cycles, known, governVars, requestVars, hardwareFault, boot>>

NoOverheat ==
    /\ Running /\ ~Overheated /\ pc' = "govern"
    /\ UNCHANGED <<loopVars, senseVars, heatVars, governVars, nvsVars, requestVars, chipVars,
                   hardwareFault, boot>>
-----------------------------------------------------------------------------
(* The governors.  An EMA filter moves from its value towards the reading, by *)
(* any amount; its first reading sets it.                                     *)
Order(class) == CASE class \in {"unset", "low"} -> 0 [] class = "cold" -> 1
                  [] class \in {"cool", "ok"} -> 2 [] class = "warm" -> 3 [] class = "hot" -> 4
Smoothed(old, new, classes) ==
    IF old = "unset" THEN {new}
    ELSE {c \in classes : \/ Order(old) <= Order(c) /\ Order(c) <= Order(new)
                          \/ Order(new) <= Order(c) /\ Order(c) <= Order(old)}

(* Half way stands for every derating between none and the floor.             *)
Derated(f, class) == CASE class \in {"warm", "low"} -> ThrottleFloor + ((f - ThrottleFloor) \div 2)
                       [] class = "hot" -> ThrottleFloor
                       [] OTHER -> f
Least(S) == CHOOSE x \in S : \A y \in S : x <= y
Target(f, flt) == Least({Derated(f, flt.chip), Derated(f, flt.vr),
                         Derated(f, IF sensorStale THEN "ok" ELSE flt.vin)})

NextFiltered(flt) ==
    /\ flt.chip \in (IF reading.chip = "none" THEN {filtered.chip}
                     ELSE Smoothed(filtered.chip, reading.chip, ChipClasses))
    /\ flt.vr \in Smoothed(filtered.vr, reading.vr, VrClasses)
    /\ flt.vin \in (IF reading.vin = "absent" \/ sensorStale THEN {filtered.vin}
                    ELSE Smoothed(filtered.vin, reading.vin, VinClasses))

(* The rest of the turn: filters, voltage, frequency, overheat flag.  A       *)
(* voltage that could not be set is a fault, and the frequency follows        *)
(* nevertheless; nothing is set that equals the last value set here.          *)
Govern ==
    /\ pc = "govern" /\ pc' = "tick"
    /\ \E flt \in Filtered : NextFiltered(flt) /\ filtered' = flt
    /\ LET core   == ClampVoltage(nvsVoltage)
           target == Target(ClampFrequency(nvsFrequency), filtered')
       IN  /\ \/ /\ core = lastVoltage
                 /\ UNCHANGED <<vcore, lastVoltage, hardwareFault>>
              \/ /\ core # lastVoltage
                 /\ \E ok \in BOOLEAN :
                       /\ VCORE_set_voltage(core, ok)
                       /\ lastVoltage' = IF ok THEN core ELSE lastVoltage
                       /\ hardwareFault' = (hardwareFault \/ ~ok)
           /\ frequency' = IF target # lastFrequency THEN target ELSE frequency
           /\ lastFrequency' = target
    /\ Queue(CorrectFrequency(CorrectVoltage(saves)))
    /\ warned' = [voltage   |-> Warned(nvsVoltage, ClampVoltage(nvsVoltage), warned.voltage),
                  frequency |-> Warned(nvsFrequency, ClampFrequency(nvsFrequency), warned.frequency)]
    /\ overheatMode' = nvsOverheat
    /\ UNCHANGED <<loopVars, senseVars, heatVars, cacheVars, requestVars, asicUp, boot>>
-----------------------------------------------------------------------------
(* The rest of the system.  asic_initialize of the cold boot runs in app_main *)
(* when WiFi is connected; between its chip detection and the assignment of   *)
(* ASIC_initalized the baud rate is changed and the buffers are cleared.      *)
otherVars == <<pc, loopVars, senseVars, heatVars, governVars, nvsVars>>

BootDetects ==
    /\ boot = "wifi"
    /\ \E ok \in BOOLEAN : ChipsAnswer(ok) /\ boot' = (IF ok THEN "detected" ELSE "failed")
    /\ UNCHANGED <<otherVars, requestVars, chipVars, hardwareFault>>

BootMarks ==
    /\ boot = "detected" /\ boot' = "booted"
    /\ asicUp' = TRUE
    /\ UNCHANGED <<otherVars, requestVars, frequency, vcore, hardwareFault>>

(* POST_mining_pause and POST_mining_resume.                                  *)
UserPauses ==
    /\ "pause" \in Requests
    /\ miningPaused' = ~miningPaused
    /\ UNCHANGED <<otherVars, poolsUnavailable, chipVars, hardwareFault, boot>>

(* The protocol coordinator, which exists only after a successful boot.       *)
PoolsChange ==
    /\ "pools" \in Requests /\ boot \in {"booted", "mining"}
    /\ poolsUnavailable' = ~poolsUnavailable
    /\ UNCHANGED <<otherVars, miningPaused, chipVars, hardwareFault, boot>>

(* update_fan_speed could not reach the fan driver.                           *)
FanFails ==
    /\ "fan" \in Faults
    /\ hardwareFault' = TRUE
    /\ UNCHANGED <<otherVars, requestVars, chipVars, boot>>

(* New settings from the HTTP server, autotune or the accessory, inside the   *)
(* envelope; of overheat_mode the API accepts 0 only.                         *)
UserSets ==
    /\ "settings" \in Requests
    /\ \/ \E v \in VMin .. VMax :
             /\ Queue(Set(saves, "voltage", nvsVoltage, v))
             /\ excursion' = IF excursion = "bounded" /\ Raises(v, known.voltage) THEN "raised" ELSE excursion
       \/ \E f \in FMin .. FMax : Queue(Set(saves, "frequency", nvsFrequency, f)) /\ UNCHANGED excursion
       \/ Queue(Set(saves, "overheat", nvsOverheat, FALSE)) /\ UNCHANGED excursion
    /\ UNCHANGED <<pc, loopVars, senseVars, cycles, known, governVars, cacheVars, warned, requestVars,
                   chipVars, hardwareFault, boot>>

(* nvs_task takes the oldest update and puts it in the cache.                 *)
SaveSetting ==
    /\ saves # <<>> /\ saves' = Tail(saves)
    /\ LET update == Head(saves)
           Cached(key, old) == IF update.key = key THEN update.value ELSE old
       IN  /\ nvsVoltage' = Cached("voltage", nvsVoltage)
           /\ nvsFrequency' = Cached("frequency", nvsFrequency)
           /\ nvsOverheat' = Cached("overheat", nvsOverheat)
    /\ UNCHANGED <<pc, loopVars, senseVars, heatVars, governVars, warned, requestVars, chipVars,
                   hardwareFault, boot>>

(* The backoff of a failed start is over.                                     *)
BackoffElapses ==
    /\ ~retryDue /\ retryDue' = TRUE
    /\ UNCHANGED <<pc, isPaused, startFailures, senseVars, heatVars, governVars, nvsVars, requestVars,
                   chipVars, hardwareFault, boot>>

TaskStep == \/ Sense \/ StopMining \/ PowerCut \/ StartMining \/ Started \/ NoChange \/ SkipRest
            \/ Overheat \/ HeatPowerCut \/ CoolingCycle \/ RestartReduced \/ RestartMining
            \/ Restarted \/ NoOverheat \/ Govern
Boot  == BootDetects \/ BootMarks
Others == UserPauses \/ PoolsChange \/ FanFails \/ UserSets

Next == TaskStep \/ Boot \/ Others \/ BackoffElapses \/ SaveSetting

Spec == Init /\ [][Next]_vars

(* The task runs at priority 10, its waits are delays or wait for nvs_task,   *)
(* which drains its queue; app_main goes on and time passes.  Nobody is       *)
(* obliged to ask for anything, nor to cool down.                             *)
FairSpec == Spec /\ WF_vars(TaskStep) /\ WF_vars(Boot) /\ WF_vars(BackoffElapses)
            /\ WF_vars(SaveSetting)
-----------------------------------------------------------------------------
(* Mining stopped means stopped, on a device that has been mining: from the   *)
(* moment the task regards mining as paused until it starts the ASIC again,   *)
(* no other task sees ASIC_initalized, and the core voltage is off unless a   *)
(* failed start left it on or the regulator did not obey.  The same holds of  *)
(* the cooling pause.                                                         *)
StoppedMeansDown ==
    boot = "mining" =>
       /\ isPaused => ~asicUp
       /\ isPaused /\ pc # "starting" => vcore = 0 \/ startFailures > 0 \/ hardwareFault
       /\ pc \in {"cooling", "cooled", "reduced"} => ~asicUp /\ (vcore = 0 \/ hardwareFault)

(* Mining is never declared running without the ASIC: at the head of the loop *)
(* of a device that has been mining, an unpaused, faultless task has the chip *)
(* up.                                                                        *)
RunningMeansUp ==
    pc = "tick" /\ boot = "mining" /\ ~isPaused /\ ~hardwareFault => asicUp /\ vcore > 0

(* After an overheat the ASIC of a device that has been mining comes back     *)
(* only when the cooling loop has run its minimum and the regulator is cool,  *)
(* and, unless a higher voltage was asked for since then or was still queued, *)
(* at a core voltage not above the one it overheated at: whether nvs_task has *)
(* put the reduced settings in force by then or not.                          *)
RestartsCooled ==
    [][boot = "mining" /\ excursion # "none" /\ ~asicUp /\ asicUp' =>
          /\ cycles >= MinCoolingCycles /\ reading.vr = "cool"
          /\ excursion = "bounded" => vcore <= ClampVoltage(known.voltage)]_vars

(* A hardware fault, from whichever task, stops a device that has been mining *)
(* for good.                                                                  *)
FaultStopsForGood == hardwareFault /\ boot = "mining" ~> [](~asicUp)

(* A paused task that nobody stops any more starts mining or gives up.        *)
PauseEnds == isPaused /\ ~wants_stop ~> ~isPaused \/ wants_stop
=============================================================================
