------------------------------ MODULE SelfTest ------------------------------
(***************************************************************************)
(* self_test.c: the test that a new device runs on every boot until it has *)
(* passed, and that the boot button starts by hand.  The test task walks   *)
(* through its checks while the result task counts nonces, the hashrate    *)
(* monitor measures the chip's domains and the button gives a semaphore.   *)
(***************************************************************************)
EXTENDS Integers, FiniteSets

CONSTANTS
    Domains,    \* hash domains of the chip
    Expected,   \* nonces that make the expected hashrate
    Loops,      \* seconds of the hashrate loop
    MaxMeasure, \* bound: measurements of one domain
    MaxNonces,  \* bound: nonces while the test measures
    MaxBoots    \* bound: boots

VARIABLES
    testStep,     \* what self_test_task does next
    factoryFlag,  \* NVS_CONFIG_SELF_TEST as the settings cache holds it
    flashFlag,    \* and as flash does
    mined,        \* NVS_CONFIG_BEST_DIFF is at least 1
    isFactoryTest,
    longPress,    \* longPressSemaphore was given
    result,       \* the verdict on the screen
    chipOn,       \* the chip has its voltage and is out of reset
    powerTask,    \* where the power task is in its turn
    nonces,       \* nonce_measurement
    measurements, \* domain_measurements of the hashrate monitor
    averages,     \* SelfTestDomainAverages
    loops,        \* seconds of the loop so far
    boots,        \* history, for the bound
    revived,      \* history: times the power task started the chip under a verdict
    failed,       \* history: the checks that failed in this test
    earned        \* history: how the flag came to be cleared

powerVars == <<chipOn, powerTask, revived>>
testVars == <<testStep, factoryFlag, flashFlag, mined, isFactoryTest, longPress, result, powerVars,
              nonces, measurements, averages, loops, boots, failed, earned>>

Good == 3                          \* expected_domain_hashrate
Rates == {0, Good, 4 * Good}       \* a dead, a working and an implausible counter
Fresh == [sum |-> 0, count |-> 0, rejected |-> 0, last |-> 0]

Before == <<"init", "psram", "ds4432u", "vin", "vreg">>
Preparation == <<"work", "fanMax", "temp", "fanMin", "warmup", "memory">>
After == <<"domains", "hashrate", "voltage", "power", "fan">>

Steps == {"off", "init", "psram", "ds4432u", "vin", "vreg", "work", "fanMax", "temp", "fanMin",
          "warmup", "memory", "loop", "domains", "hashrate", "voltage", "power", "fan", "passed",
          "countdown", "failed", "cancelled"}

\* A measurement is open only in the loop.
TestTypeOK ==
    /\ testStep \in Steps
    /\ result \in {"none", "pass", "fail"}
    /\ nonces.accepted \in 0 .. MaxNonces /\ nonces.rejected \in 0 .. MaxNonces
    /\ nonces.active => testStep = "loop"
    /\ powerTask \in {"asleep", "turn", "cooling", "stopped", "gone"}
    /\ \A d \in Domains : averages[d].count + averages[d].rejected <= MaxMeasure

-----------------------------------------------------------------------------
(* Boot *)

\* self_test_should_run and self_test_init.  The test's own state is in memory.
Boots(flag, best, button) ==
    /\ isFactoryTest' = (flag /\ ~best)
    /\ testStep' = IF (flag /\ ~best) \/ button THEN "init" ELSE "off"
    /\ factoryFlag' = flag /\ flashFlag' = flag /\ mined' = best
    /\ longPress' = FALSE /\ result' = "none"
    /\ chipOn' = TRUE /\ powerTask' = "asleep" /\ revived' = 0
    /\ nonces' = [active |-> FALSE, accepted |-> 0, rejected |-> 0]
    /\ measurements' = [d \in Domains |-> [time |-> 0, rate |-> 0]]
    /\ averages' = [d \in Domains |-> Fresh] /\ loops' = 0 /\ failed' = {}

TestInit ==
    /\ testStep = "init" /\ factoryFlag = TRUE /\ flashFlag = TRUE /\ mined = FALSE
    /\ isFactoryTest = TRUE /\ longPress = FALSE /\ result = "none"
    /\ chipOn = TRUE /\ powerTask = "asleep" /\ revived = 0
    /\ nonces = [active |-> FALSE, accepted |-> 0, rejected |-> 0]
    /\ measurements = [d \in Domains |-> [time |-> 0, rate |-> 0]]
    /\ averages = [d \in Domains |-> Fresh] /\ loops = 0
    /\ boots = 1 /\ failed = {} /\ earned = "no"

\* The power fails or the reset button is pressed, at any moment.
Reboot ==
    /\ boots < MaxBoots /\ boots' = boots + 1
    /\ \E button \in BOOLEAN : Boots(flashFlag, mined, button)
    /\ UNCHANGED earned

\* The settings task writes the flag.
SaveFlag ==
    /\ flashFlag # factoryFlag /\ flashFlag' = factoryFlag
    /\ UNCHANGED <<testStep, factoryFlag, mined, isFactoryTest, longPress, result, powerVars, nonces,
                   measurements, averages, loops, boots, failed, earned>>

\* A device that mines stores its first best difficulty.
Mine ==
    /\ testStep = "off" /\ ~mined /\ mined' = TRUE
    /\ UNCHANGED <<testStep, factoryFlag, flashFlag, isFactoryTest, longPress, result, powerVars,
                   nonces, measurements, averages, loops, boots, failed, earned>>

-----------------------------------------------------------------------------
(* The verdict *)

\* tests_done: is_finished is set, the measurement is closed and the call never
\* returns.  The chip is held in reset, whether or not the regulator, whose
\* answer is ignored, took its voltage away.
TestsDone(ok, check) ==
    /\ nonces' = [nonces EXCEPT !.active = FALSE]
    /\ chipOn' = FALSE /\ UNCHANGED <<powerTask, revived>>
    /\ testStep' = IF ok THEN "passed" ELSE "failed"
    /\ result' = IF ok THEN "pass" ELSE "fail"
    /\ failed' = IF ok THEN failed ELSE failed \cup {check}

\* A pass clears the flag of a factory test, and the device restarts ten seconds
\* later.
Passed ==
    /\ testStep = "passed" /\ testStep' = "countdown"
    /\ IF isFactoryTest
       THEN factoryFlag' = FALSE /\ earned' = IF failed = {} THEN "pass" ELSE "no"
       ELSE UNCHANGED <<factoryFlag, earned>>
    /\ UNCHANGED <<flashFlag, mined, isFactoryTest, longPress, result, powerVars, nonces,
                   measurements, averages, loops, boots, failed>>

\* Mutant: a failure does not wait for the button.
Mut_Failed ==
    /\ testStep = "failed"
    /\ longPress' = FALSE /\ factoryFlag' = FALSE /\ testStep' = "cancelled"
    /\ earned' = IF longPress THEN "press" ELSE earned
    /\ UNCHANGED <<flashFlag, mined, isFactoryTest, result, powerVars, nonces, measurements,
                   averages, loops, boots, failed>>

\* A failure waits for the semaphore, for ever if it is not given.
Failed ==
    /\ testStep = "failed" /\ longPress
    /\ longPress' = FALSE /\ factoryFlag' = FALSE /\ testStep' = "cancelled"
    /\ earned' = "press"
    /\ UNCHANGED <<flashFlag, mined, isFactoryTest, result, powerVars, nonces, measurements,
                   averages, loops, boots, failed>>

\* esp_restart, after the delay that lets the settings task write the flag.
Restart ==
    /\ testStep \in {"countdown", "cancelled"} /\ boots < MaxBoots /\ boots' = boots + 1
    /\ Boots(flashFlag, mined, FALSE)
    /\ UNCHANGED earned

\* self_test_reset, from the button; the semaphore is binary.
LongPress ==
    /\ testStep # "off" /\ ~longPress /\ longPress' = TRUE
    /\ UNCHANGED <<testStep, factoryFlag, flashFlag, mined, isFactoryTest, result, powerVars, nonces,
                   measurements, averages, loops, boots, failed, earned>>

-----------------------------------------------------------------------------
(* The checks *)

untouched == <<factoryFlag, flashFlag, mined, isFactoryTest, longPress, boots, earned>>

NextIn(list, step) == CHOOSE i \in DOMAIN list : list[i] = step

\* One of a list of checks: its outcome is the hardware's.  The step after the
\* last one is given.
Checks(list, last) ==
    /\ \E i \in DOMAIN list : testStep = list[i]
    /\ LET i == NextIn(list, testStep)
       IN  \/ /\ testStep' = IF i + 1 \in DOMAIN list THEN list[i + 1] ELSE last
              /\ UNCHANGED <<result, powerVars, nonces, failed>>
           \/ TestsDone(FALSE, testStep)

\* The result of peripheral initialisation, PSRAM, DS4432U, input voltage and
\* regulator faults.
CheckHardware == Checks(Before, "work") /\ UNCHANGED <<untouched, measurements, averages, loops>>

\* The mock work is queued, the fan is tried, the chip warms up and the averages
\* are allocated; each can end the test.  (Another round of the warm-up loop
\* changes nothing.)
SetUpWork ==
    /\ testStep # "memory" /\ Checks(Preparation, "loop")
    /\ UNCHANGED <<untouched, measurements, averages, loops>>

\* self_test_domain_averages_prime and self_test_start_nonce_measurement.
StartMeasurement ==
    /\ testStep = "memory"
    /\ \/ /\ testStep' = "loop" /\ loops' = 0
          /\ averages' = [d \in Domains |-> [Fresh EXCEPT !.last = measurements[d].time]]
          /\ nonces' = [active |-> TRUE, accepted |-> 0, rejected |-> 0]
          /\ UNCHANGED <<result, powerVars, failed>>
       \/ TestsDone(FALSE, "memory") /\ UNCHANGED <<averages, loops>>
    /\ UNCHANGED <<untouched, measurements>>

\* self_test_domain_averages_sample for one domain: only a measurement that is
\* new counts, and the first one of all only sets the time.
Sampled(a, m) ==
    IF m.time = 0 \/ m.time = a.last THEN a
    ELSE IF a.last = 0 THEN [a EXCEPT !.last = m.time]
    ELSE IF m.rate > 3 * Good THEN [a EXCEPT !.last = m.time, !.rejected = @ + 1]
    ELSE [a EXCEPT !.last = m.time, !.sum = @ + m.rate, !.count = @ + 1]

SampleAll == averages' = [d \in Domains |-> Sampled(averages[d], measurements[d])]

\* One second of the loop: the temperature, the fan and the limit are checked
\* before the domains are sampled; after the last one the measurement is closed.
HashLoop ==
    /\ testStep = "loop"
    /\ \/ /\ loops < Loops /\ loops' = loops + 1 /\ SampleAll
          /\ UNCHANGED <<testStep, result, powerVars, nonces, failed>>
       \/ loops < Loops /\ TestsDone(FALSE, "temp") /\ UNCHANGED <<averages, loops>>
       \/ /\ loops = Loops /\ SampleAll
          /\ testStep' = "domains" /\ nonces' = [nonces EXCEPT !.active = FALSE]
          /\ UNCHANGED <<loops, result, powerVars, failed>>
    /\ UNCHANGED <<untouched, measurements>>

\* A domain is judged by the average of its samples, within a third of what is
\* expected, unless a quarter of its samples were implausible.
Status(a) ==
    CASE a.rejected > 0 /\ 4 * a.rejected >= a.count + a.rejected -> "unreliable"
      [] a.count = 0 \/ 100 * a.sum < 67 * Good * a.count
                     \/ 100 * a.sum > 133 * Good * a.count -> "fail"
      [] OTHER -> "ok"

CheckDomains ==
    /\ testStep = "domains"
    /\ IF \E d \in Domains : Status(averages[d]) = "fail" THEN TestsDone(FALSE, "domains")
       ELSE testStep' = "hashrate" /\ UNCHANGED <<result, powerVars, nonces, failed>>
    /\ UNCHANGED <<untouched, measurements, averages, loops>>

CheckHashrate ==
    /\ testStep = "hashrate"
    /\ IF nonces.accepted < Expected THEN TestsDone(FALSE, "hashrate")
       ELSE testStep' = "voltage" /\ UNCHANGED <<result, powerVars, nonces, failed>>
    /\ UNCHANGED <<untouched, measurements, averages, loops>>

\* Core voltage, power and fan.
CheckReadings ==
    /\ testStep \in {"voltage", "power", "fan"}
    /\ \/ testStep # "fan" /\ testStep' = After[NextIn(After, testStep) + 1]
          /\ UNCHANGED <<result, powerVars, nonces, failed>>
       \/ testStep = "fan" /\ TestsDone(TRUE, "none")
       \/ TestsDone(FALSE, testStep)
    /\ UNCHANGED <<untouched, measurements, averages, loops>>

-----------------------------------------------------------------------------
(* The other tasks *)

\* self_test_record_nonce, from the result task.
RecordNonce ==
    /\ chipOn /\ testStep # "off" /\ nonces.accepted + nonces.rejected < MaxNonces
    /\ nonces' \in IF nonces.active THEN {[nonces EXCEPT !.accepted = @ + 1],
                                          [nonces EXCEPT !.rejected = @ + 1]}
                   ELSE {nonces}
    /\ UNCHANGED <<testStep, untouched, result, powerVars, measurements, averages, loops, failed>>

\* The hashrate monitor measures a domain.
Measure ==
    /\ testStep \in {"memory", "loop"} /\ chipOn
    /\ \E d \in Domains, r \in Rates :
          /\ measurements[d].time < MaxMeasure
          /\ measurements' = [measurements EXCEPT ![d] = [time |-> @.time + 1, rate |-> r]]
    /\ UNCHANGED <<testStep, untouched, result, powerVars, nonces, averages, loops, failed>>

steady == <<testStep, untouched, result, nonces, measurements, averages, loops, failed>>

\* The power task runs beside the test.  Only at the top of its loop does it see
\* is_finished, and ends.
PowerWakes ==
    /\ testStep # "off" /\ powerTask = "asleep"
    /\ powerTask' = IF result = "none" THEN "turn" ELSE "gone"
    /\ UNCHANGED <<steady, chipOn, revived>>

\* A turn without overheating: it leaves the chip as it is, or finds a fault or no
\* pool and stops it for good.  (No API runs in a test to pause and resume it.)
PowerTurns ==
    /\ powerTask = "turn"
    /\ \/ powerTask' = "asleep" /\ UNCHANGED chipOn
       \/ powerTask' = "stopped" /\ chipOn' = FALSE
    /\ UNCHANGED <<steady, revived>>

\* Overheated: mining_stop, and half a minute of cooling at least.
PowerOverheats ==
    /\ powerTask = "turn" /\ powerTask' = "cooling" /\ chipOn' = FALSE
    /\ UNCHANGED <<steady, revived>>

\* mining_start after the cooling, which may find no chip; is_finished is not read.
PowerRestarts ==
    /\ powerTask = "cooling" /\ powerTask' = "asleep" /\ chipOn' \in BOOLEAN
    /\ revived' = IF result # "none" /\ chipOn' THEN revived + 1 ELSE revived
    /\ UNCHANGED steady

PowerNext == PowerWakes \/ PowerTurns \/ PowerOverheats \/ PowerRestarts

TestNext ==
    \/ Reboot \/ SaveFlag \/ Mine \/ Passed \/ Failed \/ Restart \/ LongPress
    \/ CheckHardware \/ SetUpWork \/ StartMeasurement \/ HashLoop
    \/ CheckDomains \/ CheckHashrate \/ CheckReadings \/ RecordNonce \/ Measure
    \/ PowerNext

TestSpec == TestInit /\ [][TestNext]_testVars

-----------------------------------------------------------------------------
(* Properties *)

\* A device stops testing itself only because it passed a whole test with no
\* check failed, or because the button was held: no failure, reset or order of the
\* two clears the flag in flash otherwise.  A verdict is final: a test that
\* failed a check never shows a pass, and its measurement is closed.  The chip is
\* in reset while a verdict is shown, unless the power task was in a turn or cooling
\* the chip when the test ended and has started it since, which it does at most
\* once.  A pass had the nonces it needs and no domain without a fresh sample.
TestEarned ==
    /\ ~flashFlag => earned \in {"pass", "press"}
    /\ failed # {} => result = "fail"
    /\ result # "none" => ~nonces.active /\ revived <= 1 /\ (chipOn => revived = 1)
    /\ result = "pass" =>
          /\ nonces.accepted >= Expected
          /\ \A d \in Domains : averages[d].count + averages[d].rejected > 0
=============================================================================
