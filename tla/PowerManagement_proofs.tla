----------------------- MODULE PowerManagement_proofs ------------------------
(* Proofs about power management: mining stopped means the ASIC is down,      *)
(* mining declared running means it is up, and after an overheat it comes     *)
(* back cooled and, unless asked for more, at no higher voltage, for every    *)
(* envelope, reduction and length of the save queue.                          *)
EXTENDS PowerManagement, TLAPS

(* The excursion of an overheat, between the emergency stop and the restart.  *)
Heat == {"heat_stopping", "cooling", "cooled", "reduced", "restarting"}

(* The updates a setter queues; every voltage of a queue is one of G.         *)
Legal  == {v \in Nat : v >= RegulatorMin}
Update == [key : {"voltage"}, value : Legal] \cup [key : {"frequency"}, value : Nat]
          \cup [key : {"overheat"}, value : BOOLEAN]
AllIn(queue, G) == \A i \in DOMAIN queue : queue[i].key = "voltage" => queue[i].value \in G

(* The quantities the argument computes with.                                 *)
Plain == /\ startFailures \in Nat /\ vcore \in Nat /\ cycles \in Nat
         /\ known.voltage \in Nat /\ (pc \in Heat => known.voltage >= RegulatorMin)
         /\ known.frequency \in Nat
         /\ reading \in Reading

Numbers == Plain /\ nvsVoltage \in Legal /\ nvsFrequency \in Nat /\ saves \in Seq(Update)

(* Only the loop's own turns move the pause flag.                             *)
Modes == /\ pc = "starting" => isPaused
         /\ pc \in Heat \cup {"stopping", "govern"} => ~isPaused

PauseInv == Numbers /\ Modes /\ StoppedMeansDown

LEMMA ClampBounds ==
    ASSUME NEW v \in Nat
    PROVE  ClampVoltage(v) \in Nat /\ VMin <= ClampVoltage(v) /\ ClampVoltage(v) <= VMax /\ ClampVoltage(v) > 0
  BY VoltageAssumption DEF ClampVoltage, Clamp

(* A voltage the regulator refused is the old one or the new one.             *)
LEMMA RegulatorObeys ==
    ASSUME NEW v \in Nat, NEW ok \in BOOLEAN, vcore \in Nat, VCORE_set_voltage(v, ok)
    PROVE  vcore' \in Nat /\ (ok => vcore' = v)
  BY DEF VCORE_set_voltage

LEMMA LegalClamp == ASSUME NEW v \in Nat PROVE ClampVoltage(v) \in Legal
  BY ClampBounds, VoltageAssumption DEF Legal

(* What a setter does to the queue.                                           *)
LEMMA SetKeeps ==
    ASSUME NEW queue \in Seq(Update), NEW key, NEW cached, NEW value,
           [key |-> key, value |-> value] \in Update
    PROVE  /\ Set(queue, key, cached, value) \in Seq(Update)
           /\ \A G : AllIn(queue, G) /\ (key = "voltage" => value \in G)
                      => AllIn(Set(queue, key, cached, value), G)
  <1> DEFINE u == [key |-> key, value |-> value]
  <1>1. Append(queue, u) \in Seq(Update)
    OBVIOUS
  <1>2. ASSUME NEW G, AllIn(queue, G), key = "voltage" => value \in G
        PROVE  AllIn(Append(queue, u), G)
    <2> SUFFICES ASSUME NEW i \in DOMAIN Append(queue, u), Append(queue, u)[i].key = "voltage"
                 PROVE  Append(queue, u)[i].value \in G
      BY DEF AllIn
    <2>1. CASE i \in DOMAIN queue
      BY <1>2, <2>1 DEF AllIn
    <2>2. CASE i \notin DOMAIN queue
      <3>1. Append(queue, u)[i] = u
        BY <2>2
      <3> QED
        BY <1>2, <3>1
    <2> QED
      BY <2>1, <2>2
  <1> QED
    BY <1>1, <1>2 DEF Set

LEMMA CorrectKeeps ==
    ASSUME Numbers, NEW queue \in Seq(Update)
    PROVE  /\ CorrectVoltage(queue) \in Seq(Update) /\ CorrectFrequency(queue) \in Seq(Update)
           /\ \A G : AllIn(queue, G) /\ ClampVoltage(nvsVoltage) \in G => AllIn(CorrectVoltage(queue), G)
           /\ \A G : AllIn(queue, G) => AllIn(CorrectFrequency(queue), G)
  <1>1. [key |-> "voltage", value |-> ClampVoltage(nvsVoltage)] \in Update
    BY LegalClamp DEF Numbers, Plain, Update, Legal
  <1>2. [key |-> "frequency", value |-> ClampFrequency(nvsFrequency)] \in Update
    BY FrequencyAssumption DEF Numbers, Plain, Update, ClampFrequency, Clamp
  <1>3. /\ CorrectVoltage(queue) \in Seq(Update)
        /\ \A G : AllIn(queue, G) /\ ClampVoltage(nvsVoltage) \in G => AllIn(CorrectVoltage(queue), G)
    BY <1>1, SetKeeps, Zenon DEF CorrectVoltage, Correct
  <1>4. "frequency" # "voltage"
    OBVIOUS
  <1>5. /\ CorrectFrequency(queue) \in Seq(Update)
        /\ \A G : AllIn(queue, G) => AllIn(CorrectFrequency(queue), G)
    BY <1>2, <1>4, SetKeeps, Zenon DEF CorrectFrequency, Correct
  <1> QED
    BY <1>3, <1>5

LEMMA SaveTakes ==
    ASSUME Numbers, SaveSetting
    PROVE  /\ saves' \in Seq(Update) /\ nvsVoltage' \in Legal /\ nvsFrequency' \in Nat
           /\ \A G : AllIn(saves, G) /\ nvsVoltage \in G => AllIn(saves', G) /\ nvsVoltage' \in G
  <1>1. saves \in Seq(Update) /\ saves # <<>> /\ saves' = Tail(saves)
    BY DEF Numbers, Plain, SaveSetting
  <1>2. Head(saves) \in Update /\ Head(saves) = saves[1] /\ 1 \in DOMAIN saves
    BY <1>1
  <1>3. /\ nvsVoltage' = IF Head(saves).key = "voltage" THEN Head(saves).value ELSE nvsVoltage
        /\ nvsFrequency' = IF Head(saves).key = "frequency" THEN Head(saves).value ELSE nvsFrequency
    BY DEF SaveSetting
  <1>4. nvsVoltage' \in Legal /\ nvsFrequency' \in Nat
    BY <1>2, <1>3 DEF Numbers, Plain, Update
  <1>5. ASSUME NEW G, AllIn(saves, G), nvsVoltage \in G PROVE AllIn(saves', G) /\ nvsVoltage' \in G
    <2>1. \A i \in DOMAIN Tail(saves) : i + 1 \in DOMAIN saves /\ Tail(saves)[i] = saves[i + 1]
      BY <1>1
    <2>2. AllIn(Tail(saves), G)
      BY <1>5, <2>1 DEF AllIn
    <2> QED
      BY <1>1, <1>2, <1>3, <1>5, <2>2 DEF AllIn
  <1> QED
    BY <1>1, <1>4, <1>5

LEMMA InitPause == Init => PauseInv
  <1> SUFFICES ASSUME Init PROVE PauseInv
    OBVIOUS
  <1>1. Numbers
    <2>1. nvsVoltage \in Legal /\ nvsFrequency \in Nat /\ vcore \in Nat
      BY VoltageAssumption, FrequencyAssumption DEF Init, Legal
    <2> QED
      BY <2>1 DEF Init, Numbers, Plain, Heat, Reading, ChipClasses, VrClasses, VinClasses
  <1> QED
    BY <1>1 DEF Init, PauseInv, Modes, Heat, StoppedMeansDown

LEMMA ReducedIsVoltage == ASSUME Numbers PROVE ReducedVoltage \in Legal
  <1>1. Reduced(known.voltage, VDefault) \in Nat
    BY VoltageAssumption, LimitAssumption DEF Numbers, Plain, Reduced
  <1> QED
    BY <1>1, VoltageAssumption DEF ReducedVoltage, Legal

(* The queue and the cached voltage over a step: whatever set the voltages of *)
(* the queue and the cache are in, they stay there when the task's own        *)
(* corrections and reductions and the user's wishes are in it.                *)
LEMMA SavesStep ==
    ASSUME Numbers, [Next]_vars
    PROVE  /\ saves' \in Seq(Update) /\ nvsVoltage' \in Legal /\ nvsFrequency' \in Nat
           /\ \A G : /\ AllIn(saves, G) /\ nvsVoltage \in G /\ ClampVoltage(nvsVoltage) \in G
                     /\ RestartReduced => ReducedVoltage \in G
                     /\ UserSets => AllIn(saves', G)
                     => AllIn(saves', G) /\ nvsVoltage' \in G
  <1>0. saves \in Seq(Update) /\ nvsVoltage \in Legal /\ nvsFrequency \in Nat
    BY DEF Numbers, Plain
  <1> USE DEF Queue
  <1>1. CASE Sense \/ StopMining \/ PowerCut \/ NoChange \/ SkipRest \/ HeatPowerCut \/ CoolingCycle
             \/ NoOverheat \/ Boot \/ UserPauses \/ PoolsChange \/ FanFails \/ BackoffElapses
             \/ UNCHANGED vars
    <2>1. saves' = saves /\ nvsVoltage' = nvsVoltage /\ nvsFrequency' = nvsFrequency
      BY <1>1 DEF Sense, StopMining, PowerCut, NoChange, SkipRest, HeatPowerCut, CoolingCycle, NoOverheat,
                  Boot, BootDetects, BootMarks, UserPauses, PoolsChange, FanFails, BackoffElapses,
                  otherVars, vars, nvsVars, cacheVars
    <2> QED
      BY <1>0, <2>1
  <1>2. CASE StartMining \/ RestartMining
    <2>1. saves' = CorrectVoltage(saves) /\ nvsVoltage' = nvsVoltage /\ nvsFrequency' = nvsFrequency
      BY <1>2, Zenon DEF StartMining, RestartMining, cacheVars
    <2> QED
      BY <1>0, <2>1, CorrectKeeps
  <1>3. CASE Started
    <2>1. saves' = CorrectFrequency(saves) /\ nvsVoltage' = nvsVoltage /\ nvsFrequency' = nvsFrequency
      BY <1>3, Zenon DEF Started, DetectChips, cacheVars
    <2> QED
      BY <1>0, <2>1, CorrectKeeps
  <1>4. CASE Govern
    <2>1. /\ saves' = CorrectFrequency(CorrectVoltage(saves))
          /\ nvsVoltage' = nvsVoltage /\ nvsFrequency' = nvsFrequency
      BY <1>4, Zenon DEF Govern, cacheVars
    <2>2. CorrectVoltage(saves) \in Seq(Update)
      BY <1>0, CorrectKeeps
    <2> QED
      BY <1>0, <2>1, <2>2, CorrectKeeps
  <1>5. CASE Overheat
    <2>1. /\ saves' = Set(saves, "overheat", nvsOverheat, TRUE)
          /\ nvsVoltage' = nvsVoltage /\ nvsFrequency' = nvsFrequency
      BY <1>5, Zenon DEF Overheat, cacheVars
    <2>2. [key |-> "overheat", value |-> TRUE] \in Update /\ "overheat" # "voltage"
      BY DEF Update
    <2> QED
      BY <1>0, <2>1, <2>2, SetKeeps
  <1>6. CASE Restarted
    <2>1. /\ saves' \in {CorrectFrequency(saves), Set(CorrectFrequency(saves), "overheat", nvsOverheat, FALSE)}
          /\ nvsVoltage' = nvsVoltage /\ nvsFrequency' = nvsFrequency
      BY <1>6, Zenon DEF Restarted, DetectChips, cacheVars
    <2>2. [key |-> "overheat", value |-> FALSE] \in Update /\ "overheat" # "voltage"
      BY DEF Update
    <2>3. CorrectFrequency(saves) \in Seq(Update) /\ \A G : AllIn(saves, G) => AllIn(CorrectFrequency(saves), G)
      BY <1>0, CorrectKeeps
    <2> DEFINE q == CorrectFrequency(saves)
    <2> HIDE DEF q
    <2>4. /\ Set(q, "overheat", nvsOverheat, FALSE) \in Seq(Update)
          /\ \A G : AllIn(q, G) => AllIn(Set(q, "overheat", nvsOverheat, FALSE), G)
      <3>1. q \in Seq(Update)
        BY <2>3 DEF q
      <3> QED
        BY <2>2, <3>1, SetKeeps, Zenon
    <2> QED
      BY <1>0, <2>1, <2>3, <2>4 DEF q
  <1>7. CASE RestartReduced
    <2> DEFINE q == Set(saves, "voltage", nvsVoltage, ReducedVoltage)
               f == Reduced(known.frequency, FDefault)
    <2>1. /\ saves' = Set(q, "frequency", nvsFrequency, f)
          /\ nvsVoltage' = nvsVoltage /\ nvsFrequency' = nvsFrequency
      BY <1>7, Zenon DEF RestartReduced, cacheVars
    <2>2. [key |-> "voltage", value |-> ReducedVoltage] \in Update
      BY ReducedIsVoltage DEF Update
    <2>3. [key |-> "frequency", value |-> f] \in Update
      BY FrequencyAssumption, LimitAssumption DEF Update, Reduced, Numbers, Plain
    <2>4. q \in Seq(Update) /\ \A G : AllIn(saves, G) /\ ReducedVoltage \in G => AllIn(q, G)
      BY <1>0, <2>2, SetKeeps
    <2> HIDE DEF q, f
    <2> QED
      BY <1>0, <1>7, <2>1, <2>3, <2>4, SetKeeps
  <1>8. CASE UserSets
    <2>1. nvsVoltage' = nvsVoltage /\ nvsFrequency' = nvsFrequency
      BY <1>8 DEF UserSets, cacheVars
    <2>2. saves' \in Seq(Update)
      <3>1. CASE \E v \in VMin .. VMax : saves' = Set(saves, "voltage", nvsVoltage, v)
        <4>1. PICK v \in VMin .. VMax : saves' = Set(saves, "voltage", nvsVoltage, v)
          BY <3>1
        <4>2. [key |-> "voltage", value |-> v] \in Update
          BY VoltageAssumption DEF Update, Legal
        <4> QED
          BY <1>0, <4>1, <4>2, SetKeeps
      <3>2. CASE \E f \in FMin .. FMax : saves' = Set(saves, "frequency", nvsFrequency, f)
        <4>1. PICK f \in FMin .. FMax : saves' = Set(saves, "frequency", nvsFrequency, f)
          BY <3>2
        <4>2. [key |-> "frequency", value |-> f] \in Update
          BY FrequencyAssumption DEF Update
        <4> QED
          BY <1>0, <4>1, <4>2, SetKeeps
      <3>3. CASE saves' = Set(saves, "overheat", nvsOverheat, FALSE)
        <4>1. [key |-> "overheat", value |-> FALSE] \in Update /\ "overheat" # "voltage"
          BY DEF Update
        <4> QED
          BY <1>0, <3>3, <4>1, SetKeeps
      <3> QED
        BY <1>8, <3>1, <3>2, <3>3, Zenon DEF UserSets
    <2> QED
      BY <1>0, <1>8, <2>1, <2>2
  <1>9. CASE SaveSetting
    BY <1>9, SaveTakes
  <1> QED
    BY <1>1, <1>2, <1>3, <1>4, <1>5, <1>6, <1>7, <1>8, <1>9, Zenon DEF Next, TaskStep, Others

LEMMA NextPlain == ASSUME PauseInv, [Next]_vars PROVE Plain'
  <1>0. Plain /\ nvsVoltage \in Nat /\ nvsVoltage >= RegulatorMin /\ nvsFrequency \in Nat
    BY DEF PauseInv, Numbers, Plain, Legal
  <1> USE DEF Plain, Heat
  <1> USE DEF loopVars, senseVars, heatVars, requestVars, chipVars, otherVars
  <1>1. CASE Sense
    BY <1>0, <1>1 DEF Sense
  <1>2. CASE StopMining \/ NoChange \/ SkipRest \/ NoOverheat
    BY <1>0, <1>2 DEF StopMining, NoChange, SkipRest, NoOverheat
  <1>3. CASE PowerCut \/ HeatPowerCut
    <2>1. vcore' \in Nat
      BY <1>0, <1>3, RegulatorObeys DEF PowerCut, HeatPowerCut, CutPower
    <2> QED
      BY <1>0, <1>3, <2>1 DEF PowerCut, HeatPowerCut
  <1>4. CASE StartMining
    <2>0. \E ok \in BOOLEAN : VCORE_set_voltage(ClampVoltage(nvsVoltage), ok)
      BY <1>4, Zenon DEF StartMining
    <2>1. vcore' \in Nat
      BY <1>0, <2>0, RegulatorObeys, ClampBounds
    <2>2. startFailures' \in Nat /\ pc' \notin Heat
      <3>1. startFailures' \in {startFailures, startFailures + 1} /\ pc' \in {"starting", "tick"}
        BY <1>4, Zenon DEF StartMining, StartFailed
      <3> QED
        BY <1>0, <3>1
    <2>3. cycles' = cycles /\ known' = known /\ reading' = reading
      BY <1>4 DEF StartMining
    <2> QED
      BY <1>0, <2>1, <2>2, <2>3, Zenon
  <1>5. CASE Started
    <2>1. startFailures' \in {0, startFailures + 1} /\ pc' \in {"check", "tick"} /\ vcore' = vcore
      BY <1>5, Zenon DEF Started, StartFailed, DetectChips
    <2>2. cycles' = cycles /\ known' = known /\ reading' = reading
      BY <1>5 DEF Started
    <2> QED
      BY <1>0, <2>1, <2>2
  <1>6. CASE Overheat
    BY <1>0, <1>6 DEF Overheat
  <1>7. CASE CoolingCycle
    <2>1. reading' \in Reading
      BY <1>0, <1>7, SensorAssumption DEF CoolingCycle, Reading, ChipClasses, VrClasses, VinClasses
    <2>2. cycles' \in Nat
      BY <1>0, <1>7 DEF CoolingCycle
    <2> QED
      BY <1>0, <1>7, <2>1, <2>2 DEF CoolingCycle
  <1>8. CASE RestartMining
    <2>1. vcore' \in Nat
      BY <1>0, <1>8, RegulatorObeys, ClampBounds DEF RestartMining
    <2> QED
      BY <1>0, <1>8, <2>1 DEF RestartMining
  <1>9. CASE Restarted \/ RestartReduced
    BY <1>0, <1>9 DEF Restarted, DetectChips, RestartReduced
  <1>10. CASE Govern
    <2>1. vcore' \in Nat
      BY <1>0, <1>10, RegulatorObeys, ClampBounds DEF Govern
    <2> QED
      BY <1>0, <1>10, <2>1 DEF Govern
  <1>11. CASE Boot \/ BackoffElapses \/ UserPauses \/ PoolsChange \/ FanFails \/ UserSets \/ SaveSetting
    BY <1>0, <1>11 DEF Boot, BootDetects, BootMarks, BackoffElapses, UserPauses, PoolsChange, FanFails,
                       UserSets, SaveSetting
  <1>12. CASE UNCHANGED vars
    BY <1>0, <1>12 DEF vars
  <1> QED
    BY <1>1, <1>2, <1>3, <1>4, <1>5, <1>6, <1>7, <1>8, <1>9, <1>10, <1>11, <1>12
    DEF Next, TaskStep, Others

LEMMA NextNumbers == ASSUME PauseInv, [Next]_vars PROVE Numbers'
  BY NextPlain, SavesStep DEF PauseInv, Numbers
-----------------------------------------------------------------------------
(* What the actions that touch the regulator or the chips do to the rest.     *)
kept == <<boot, cycles, known, excursion, reading>>

LEMMA CutPowerEffect ==
    ASSUME CutPower
    PROVE  ~asicUp' /\ (hardwareFault => hardwareFault') /\ (vcore' = 0 \/ hardwareFault')
  <1>1. PICK ok \in BOOLEAN : /\ VCORE_set_voltage(0, ok)
                              /\ hardwareFault' = (hardwareFault \/ ~ok) /\ asicUp' = FALSE
    BY Zenon DEF CutPower
  <1>2. ok => vcore' = 0
    BY <1>1, Zenon DEF VCORE_set_voltage
  <1> QED
    BY <1>1, <1>2, Zenon

LEMMA StartMiningEffect ==
    ASSUME Numbers, StartMining
    PROVE  /\ pc = "decide" /\ isPaused /\ ~hardwareFault /\ isPaused' = isPaused /\ asicUp' = asicUp
           /\ UNCHANGED kept
           /\ \/ pc' = "starting" /\ startFailures' = startFailures /\ vcore' > 0
              \/ pc' = "tick" /\ startFailures' > 0 /\ hardwareFault'
  <1>1. /\ pc = "decide" /\ isPaused /\ ~hardwareFault /\ isPaused' = isPaused /\ asicUp' = asicUp
       
    BY Zenon DEF StartMining, StartFailed, wants_stop, loopVars
  <1>2. UNCHANGED kept
    BY DEF StartMining, senseVars, heatVars, kept
  <1>3. PICK ok \in BOOLEAN :
           /\ VCORE_set_voltage(ClampVoltage(nvsVoltage), ok)
           /\ \/ ok /\ pc' = "starting" /\ startFailures' = startFailures
              \/ ~ok /\ pc' = "tick" /\ startFailures' = startFailures + 1
                     /\ hardwareFault' = (hardwareFault \/ TRUE \/ startFailures + 1 >= MaxFailures)
    BY Zenon DEF StartMining, StartFailed, loopVars
  <1>4. CASE ok
    <2>1. vcore' > 0
      BY <1>3, <1>4, ClampBounds DEF VCORE_set_voltage, Numbers, Plain, Legal
    <2> QED
      BY <1>1, <1>2, <1>3, <1>4, <2>1, Zenon
  <1>5. CASE ~ok
    <2>1. startFailures + 1 > 0
      BY DEF Numbers, Plain
    <2> QED
      BY <1>1, <1>2, <1>3, <1>5, <2>1, Zenon
  <1> QED
    BY <1>4, <1>5

LEMMA StartedEffect ==
    ASSUME Numbers, Started
    PROVE  /\ pc = "starting" /\ UNCHANGED kept /\ vcore' = vcore
           /\ \/ /\ pc' = "check" /\ ~isPaused' /\ asicUp' /\ vcore > 0
                 /\ hardwareFault' = hardwareFault
              \/ /\ pc' = "tick" /\ isPaused' = isPaused /\ startFailures' > 0
                 /\ (asicUp' <=> asicUp) /\ (hardwareFault => hardwareFault')
  <1>1. UNCHANGED kept
    BY DEF Started, senseVars, heatVars, kept
  <1>2. pc = "starting" /\ vcore' = vcore
    BY Zenon DEF Started, DetectChips
  <1>3. CASE DetectChips(TRUE) /\ isPaused' = FALSE /\ startFailures' = 0 /\ pc' = "check"
             /\ UNCHANGED hardwareFault
    BY <1>1, <1>2, <1>3, Zenon DEF DetectChips, ChipsAnswer
  <1>4. CASE DetectChips(FALSE) /\ StartFailed(FALSE)
    <2>1. startFailures + 1 > 0
      BY DEF Numbers, Plain
    <2> QED
      BY <1>1, <1>2, <1>4, <2>1, Zenon DEF DetectChips, StartFailed
  <1> QED
    BY <1>3, <1>4, Zenon DEF Started

LEMMA RestartReducedEffect ==
    ASSUME RestartReduced
    PROVE  /\ pc = "cooled" /\ pc' = "reduced" /\ UNCHANGED kept
           /\ isPaused' = isPaused /\ startFailures' = startFailures /\ asicUp' = asicUp
           /\ vcore' = vcore /\ hardwareFault' = hardwareFault
  BY DEF RestartReduced, senseVars, heatVars, loopVars, chipVars, kept

LEMMA RestartMiningEffect ==
    ASSUME Numbers, RestartMining
    PROVE  /\ pc = "reduced" /\ UNCHANGED kept
           /\ isPaused' = isPaused /\ startFailures' = startFailures /\ asicUp' = asicUp
           /\ (hardwareFault => hardwareFault')
           /\ \/ pc' = "restarting" /\ vcore' = ClampVoltage(nvsVoltage) /\ vcore' > 0
              \/ pc' = "govern" /\ hardwareFault'
  <1>1. UNCHANGED kept
    BY DEF RestartMining, senseVars, heatVars, kept
  <1>2. /\ pc = "reduced" /\ isPaused' = isPaused
        /\ startFailures' = startFailures /\ asicUp' = asicUp
    BY Zenon DEF RestartMining, loopVars
  <1>3. PICK ok \in BOOLEAN : /\ VCORE_set_voltage(ClampVoltage(nvsVoltage), ok)
                              /\ hardwareFault' = (hardwareFault \/ ~ok)
                              /\ pc' = IF ok THEN "restarting" ELSE "govern"
    BY Zenon DEF RestartMining
  <1>4. ok => vcore' = ClampVoltage(nvsVoltage) /\ vcore' > 0
    BY <1>3, ClampBounds DEF VCORE_set_voltage, Numbers, Plain, Legal
  <1> QED
    BY <1>1, <1>2, <1>3, <1>4, Zenon

LEMMA RestartedEffect ==
    ASSUME Restarted
    PROVE  /\ pc = "restarting" /\ pc' = "govern" /\ boot' = boot /\ reading' = reading
           /\ cycles' = cycles /\ known' = known
           /\ isPaused' = isPaused /\ startFailures' = startFailures /\ vcore' = vcore
           /\ hardwareFault' = hardwareFault
           /\ \/ asicUp' /\ excursion' = "none"
              \/ "chips" \in Faults \/ vcore = 0
  <1>1. boot' = boot /\ reading' = reading /\ cycles' = cycles /\ known' = known
    BY DEF Restarted, senseVars
  <1>2. /\ pc = "restarting" /\ pc' = "govern" /\ isPaused' = isPaused
        /\ startFailures' = startFailures /\ vcore' = vcore /\ hardwareFault' = hardwareFault
    BY Zenon DEF Restarted, DetectChips, loopVars
  <1>3. PICK ok \in BOOLEAN : DetectChips(ok) /\ excursion' = IF ok THEN "none" ELSE excursion
    BY Zenon DEF Restarted
  <1> QED
    BY <1>1, <1>2, <1>3, Zenon DEF DetectChips, ChipsAnswer

LEMMA GovernEffect ==
    ASSUME Numbers, Govern
    PROVE  /\ pc = "govern" /\ pc' = "tick" /\ UNCHANGED kept
           /\ isPaused' = isPaused /\ startFailures' = startFailures /\ asicUp' = asicUp
           /\ (hardwareFault => hardwareFault')
           /\ vcore' = vcore \/ vcore' > 0 \/ hardwareFault'
  <1>1. UNCHANGED kept
    BY DEF Govern, senseVars, heatVars, kept
  <1>2. /\ pc = "govern" /\ pc' = "tick" /\ isPaused' = isPaused
        /\ startFailures' = startFailures /\ asicUp' = asicUp
    BY Zenon DEF Govern, loopVars
  <1>3. CASE UNCHANGED <<vcore, lastVoltage, hardwareFault>>
    BY <1>1, <1>2, <1>3, Zenon
  <1>4. CASE \E ok \in BOOLEAN : /\ VCORE_set_voltage(ClampVoltage(nvsVoltage), ok)
                                 /\ hardwareFault' = (hardwareFault \/ ~ok)
    <2>1. PICK ok \in BOOLEAN : /\ VCORE_set_voltage(ClampVoltage(nvsVoltage), ok)
                                /\ hardwareFault' = (hardwareFault \/ ~ok)
      BY <1>4, Zenon
    <2>2. ok => vcore' > 0
      BY <2>1, ClampBounds DEF VCORE_set_voltage, Numbers, Plain, Legal
    <2> QED
      BY <1>1, <1>2, <2>1, <2>2, Zenon
  <1> QED
    BY <1>3, <1>4, Zenon DEF Govern

(* The steps that leave regulator, chips, pause flag and overheat flag alone  *)
(* move pc inside one of these ranges; a fault may appear, none disappears.   *)
LEMMA QuietStep ==
    ASSUME Sense \/ StopMining \/ NoChange \/ SkipRest \/ NoOverheat \/ BootDetects
           \/ UserPauses \/ PoolsChange \/ FanFails \/ UserSets \/ BackoffElapses \/ SaveSetting \/ UNCHANGED vars
    PROVE  /\ isPaused' = isPaused /\ startFailures' = startFailures /\ asicUp' = asicUp
           /\ vcore' = vcore /\ cycles' = cycles /\ known' = known
           /\ excursion' = excursion \/ (UserSets /\ excursion = "bounded" /\ excursion' = "raised")
           /\ (hardwareFault => hardwareFault') /\ (boot' = "mining" => boot = "mining")
           /\ \/ pc' = pc /\ reading' = reading
              \/ pc \in {"tick", "decide", "check"} /\ pc' \in {"tick", "decide", "check"}
              \/ pc = "decide" /\ pc' = "stopping" /\ ~isPaused
              \/ pc = "check" /\ pc' = "govern" /\ ~isPaused
  <1> USE DEF loopVars, senseVars, heatVars, governVars, nvsVars, requestVars, chipVars, otherVars
  <1>1. CASE Sense
    <2>1. PICK r : hardwareFault' = (hardwareFault \/ SensorTimedOut(r))
      BY <1>1, Zenon DEF Sense
    <2>2. /\ isPaused' = isPaused /\ startFailures' = startFailures /\ asicUp' = asicUp
          /\ vcore' = vcore /\ cycles' = cycles /\ known' = known /\ excursion' = excursion
          /\ boot' = boot /\ pc = "tick" /\ pc' = "decide"
      BY <1>1 DEF Sense
    <2> QED
      BY <2>1, <2>2, Zenon
  <1>2. CASE StopMining \/ NoChange \/ SkipRest \/ NoOverheat
    BY <1>2 DEF StopMining, NoChange, SkipRest, NoOverheat, Running
  <1>3. CASE BootDetects
    <2>1. boot' # "mining"
      BY <1>3 DEF BootDetects
    <2> QED
      BY <1>3, <2>1 DEF BootDetects
  <1>4. CASE UserPauses \/ PoolsChange \/ BackoffElapses \/ SaveSetting
    BY <1>4 DEF UserPauses, PoolsChange, BackoffElapses, SaveSetting
  <1>7. CASE UserSets
    <2>1. excursion' = excursion \/ (excursion = "bounded" /\ excursion' = "raised")
      BY <1>7, Zenon DEF UserSets
    <2> QED
      BY <1>7, <2>1 DEF UserSets
  <1>5. CASE FanFails
    BY <1>5 DEF FanFails
  <1>6. CASE UNCHANGED vars
    BY <1>6 DEF vars
  <1> QED
    BY <1>1, <1>2, <1>3, <1>4, <1>5, <1>6, <1>7

LEMMA BootMarksEffect == BootMarks => boot' # "mining" /\ pc' = pc /\ isPaused' = isPaused
  BY DEF BootMarks, otherVars, loopVars

LEMMA OverheatEffect ==
    ASSUME Overheat
    PROVE  /\ pc = "check" /\ pc' = "heat_stopping" /\ isPaused' = isPaused /\ ~isPaused
           /\ startFailures' = startFailures /\ asicUp' = asicUp /\ vcore' = vcore /\ boot' = boot
           /\ hardwareFault' = hardwareFault /\ reading' = reading
  BY DEF Overheat, Running, loopVars, senseVars

LEMMA CoolingCycleEffect ==
    ASSUME CoolingCycle
    PROVE  /\ pc = "cooling" /\ pc' \in {"cooling", "cooled"}
           /\ isPaused' = isPaused /\ startFailures' = startFailures /\ asicUp' = asicUp /\ vcore' = vcore
           /\ boot' = boot /\ hardwareFault' = hardwareFault /\ known' = known /\ excursion' = excursion
  BY DEF CoolingCycle, loopVars, nvsVars, chipVars

LEMMA PowerCutEffect ==
    ASSUME PowerCut
    PROVE  /\ pc = "stopping" /\ pc' = "tick" /\ isPaused' /\ CutPower /\ startFailures' = 0
           /\ UNCHANGED kept
  <1>1. pc = "stopping" /\ pc' = "tick" /\ isPaused' /\ CutPower /\ startFailures' = 0
    BY Zenon DEF PowerCut
  <1> QED
    BY <1>1 DEF PowerCut, kept, senseVars, heatVars, nvsVars

LEMMA HeatPowerCutEffect ==
    ASSUME HeatPowerCut
    PROVE  /\ pc = "heat_stopping" /\ pc' = "cooling" /\ CutPower /\ isPaused' = isPaused
           /\ UNCHANGED kept
  <1>1. pc = "heat_stopping" /\ pc' = "cooling" /\ CutPower
    BY Zenon DEF HeatPowerCut
  <1> QED
    BY <1>1 DEF HeatPowerCut, kept, loopVars, senseVars, heatVars, nvsVars

LEMMA NextModes == ASSUME PauseInv, [Next]_vars PROVE Modes'
  <1> USE DEF PauseInv, Modes, Heat
  <1>1. CASE Sense \/ StopMining \/ NoChange \/ SkipRest \/ NoOverheat \/ BootDetects
           \/ UserPauses \/ PoolsChange \/ FanFails \/ UserSets \/ BackoffElapses \/ SaveSetting \/ UNCHANGED vars
    BY <1>1, QuietStep
  <1>2. CASE StartMining \/ Started
    BY <1>2, StartMiningEffect, StartedEffect
  <1>3. CASE RestartReduced \/ RestartMining \/ Restarted \/ Govern
    BY <1>3, RestartReducedEffect, RestartMiningEffect, RestartedEffect, GovernEffect
  <1>4. CASE PowerCut \/ HeatPowerCut
    BY <1>4, PowerCutEffect, HeatPowerCutEffect
  <1>5. CASE Overheat \/ CoolingCycle \/ BootMarks
    BY <1>5, OverheatEffect, CoolingCycleEffect, BootMarksEffect
  <1> QED
    BY <1>1, <1>2, <1>3, <1>4, <1>5 DEF Next, TaskStep, Boot, Others

LEMMA NextDown == ASSUME PauseInv, [Next]_vars PROVE StoppedMeansDown'
  <1> USE DEF PauseInv, Modes, Heat, StoppedMeansDown
  <1>1. CASE Sense \/ StopMining \/ NoChange \/ SkipRest \/ NoOverheat \/ BootDetects
           \/ UserPauses \/ PoolsChange \/ FanFails \/ UserSets \/ BackoffElapses \/ SaveSetting \/ UNCHANGED vars
    BY <1>1, QuietStep
  <1>2. CASE StartMining
    BY <1>2, StartMiningEffect DEF kept
  <1>3. CASE Started
    BY <1>3, StartedEffect DEF kept
  <1>4. CASE RestartReduced \/ RestartMining \/ Restarted
    BY <1>4, RestartReducedEffect, RestartMiningEffect, RestartedEffect DEF kept
  <1>5. CASE Govern
    BY <1>5, GovernEffect DEF kept
  <1>6. CASE PowerCut \/ HeatPowerCut
    BY <1>6, PowerCutEffect, HeatPowerCutEffect, CutPowerEffect DEF kept
  <1>7. CASE Overheat \/ CoolingCycle \/ BootMarks
    BY <1>7, OverheatEffect, CoolingCycleEffect, BootMarksEffect
  <1> QED
    BY <1>1, <1>2, <1>3, <1>4, <1>5, <1>6, <1>7 DEF Next, TaskStep, Boot, Others

LEMMA NextPause == PauseInv /\ [Next]_vars => PauseInv'
  BY NextNumbers, NextModes, NextDown DEF PauseInv

(* Mining stopped means stopped (mining_stop, mining_start and the overheat   *)
(* branch), whatever fails and whoever asks, for every voltage envelope.      *)
THEOREM StopHolds == Spec => []StoppedMeansDown
  <1>1. PauseInv => StoppedMeansDown
    BY DEF PauseInv
  <1> QED
    BY InitPause, NextPause, <1>1, PTL DEF Spec
-----------------------------------------------------------------------------
(* Running means up.  Chips that stay silent in the restart after an overheat *)
(* leave the loop running without them (line 354 ignores asic_initialize), so *)
(* this is a theorem of devices whose chips answer or that never overheat.    *)
NoSilentRestart == "chips" \notin Faults \/ "hot" \notin ChipReadings \cup VrReadings

NeverHot == "hot" \notin ChipReadings \cup VrReadings =>
               pc \notin Heat /\ reading.chip # "hot" /\ reading.vr # "hot"

Up == boot = "mining" =>
         /\ pc \in {"tick", "decide", "check", "govern"} /\ ~isPaused /\ ~hardwareFault => asicUp /\ vcore > 0
         /\ pc = "restarting" => vcore > 0

LEMMA InitUp == Init => NeverHot /\ Up
  <1> SUFFICES ASSUME Init PROVE NeverHot /\ Up
    OBVIOUS
  <1>1. NeverHot
    BY DEF Init, NeverHot, Heat
  <1>2. Up
    BY VoltageAssumption DEF Init, Up
  <1> QED
    BY <1>1, <1>2

LEMMA NextNeverHot == ASSUME PauseInv, NeverHot, [Next]_vars PROVE NeverHot'
  <1> SUFFICES ASSUME "hot" \notin ChipReadings \cup VrReadings
               PROVE  pc' \notin Heat /\ reading'.chip # "hot" /\ reading'.vr # "hot"
    BY DEF NeverHot
  <1>0. pc \notin Heat /\ reading.chip # "hot" /\ reading.vr # "hot"
    BY DEF NeverHot
  <1> USE DEF Heat
  <1>1. CASE Sense
    BY <1>1 DEF Sense, Readable
  <1>2. CASE StopMining \/ NoChange \/ SkipRest \/ NoOverheat
    BY <1>0, <1>2 DEF StopMining, NoChange, SkipRest, NoOverheat, senseVars
  <1>3. CASE BootDetects \/ BootMarks \/ UserPauses \/ PoolsChange \/ FanFails \/ UserSets \/ BackoffElapses
             \/ SaveSetting \/ UNCHANGED vars
    BY <1>0, <1>3 DEF BootDetects, BootMarks, UserPauses, PoolsChange, FanFails, UserSets, BackoffElapses,
                      SaveSetting, otherVars, senseVars, vars
  <1>4. CASE StartMining \/ Started
    BY <1>0, <1>4, StartMiningEffect, StartedEffect DEF kept, PauseInv
  <1>5. CASE RestartReduced \/ RestartMining \/ Restarted \/ HeatPowerCut \/ CoolingCycle
    BY <1>0, <1>5, RestartReducedEffect, RestartMiningEffect, RestartedEffect, HeatPowerCutEffect, CoolingCycleEffect DEF PauseInv
  <1>6. CASE Govern \/ PowerCut
    BY <1>0, <1>6, GovernEffect, PowerCutEffect DEF kept, PauseInv
  <1>7. CASE Overheat
    BY <1>0, <1>7 DEF Overheat, Overheated
  <1> QED
    BY <1>1, <1>2, <1>3, <1>4, <1>5, <1>6, <1>7 DEF Next, TaskStep, Boot, Others

LEMMA NextUp == ASSUME NoSilentRestart, PauseInv, NeverHot, Up, [Next]_vars PROVE Up'
  <1> USE DEF PauseInv, Up
  <1>1. CASE Sense \/ StopMining \/ NoChange \/ SkipRest \/ NoOverheat \/ BootDetects
           \/ UserPauses \/ PoolsChange \/ FanFails \/ UserSets \/ BackoffElapses \/ SaveSetting \/ UNCHANGED vars
    BY <1>1, QuietStep
  <1>2. CASE StartMining
    BY <1>2, StartMiningEffect DEF kept
  <1>3. CASE Started
    BY <1>3, StartedEffect DEF kept, Modes
  <1>4. CASE RestartReduced \/ RestartMining
    BY <1>4, RestartReducedEffect, RestartMiningEffect DEF kept
  <1>5. CASE Restarted
    <2>1. "chips" \notin Faults
      BY <1>5, RestartedEffect DEF NeverHot, Heat, NoSilentRestart
    <2>2. boot = "mining" => vcore > 0 /\ vcore # 0
      BY <1>5, RestartedEffect DEF Numbers, Plain
    <2> QED
      BY <1>5, <2>1, <2>2, RestartedEffect DEF kept
  <1>6. CASE Govern
    BY <1>6, GovernEffect DEF kept
  <1>7. CASE PowerCut \/ HeatPowerCut
    BY <1>7, PowerCutEffect, HeatPowerCutEffect
  <1>8. CASE Overheat \/ CoolingCycle \/ BootMarks
    BY <1>8, OverheatEffect, CoolingCycleEffect, BootMarksEffect
  <1> QED
    BY <1>1, <1>2, <1>3, <1>4, <1>5, <1>6, <1>7, <1>8 DEF Next, TaskStep, Boot, Others

(* Mining is never declared running without the ASIC, for every envelope and  *)
(* every fault, where no overheat meets chips that stay silent afterwards.    *)
THEOREM RunningHolds == ASSUME NoSilentRestart PROVE Spec => []RunningMeansUp
  <1> DEFINE Inv == PauseInv /\ NeverHot /\ Up
  <1>1. Init => Inv
    BY InitPause, InitUp
  <1>2. Inv /\ [Next]_vars => Inv'
    BY NextPause, NextNeverHot, NextUp
  <1>3. Inv => RunningMeansUp
    BY DEF Up, RunningMeansUp
  <1> QED
    BY <1>1, <1>2, <1>3, PTL DEF Spec
-----------------------------------------------------------------------------
(* An excursion outlives the overheat branch only with a fault, which keeps   *)
(* the loop from starting anything; the restart finds the device cooled; and  *)
(* while nobody asked for more, neither the cache nor the queue holds a       *)
(* voltage above the one the device overheated at.                            *)
Bounded(v) == {x \in Nat : ClampVoltage(x) <= ClampVoltage(v)}

Cooled == boot = "mining" =>
             /\ excursion # "none" => pc \in Heat \/ (hardwareFault /\ pc # "starting")
             /\ pc \in {"cooled", "reduced", "restarting"} => cycles >= MinCoolingCycles /\ reading.vr = "cool"
             /\ pc = "restarting" /\ excursion = "bounded" => vcore <= ClampVoltage(known.voltage)

Within == pc \in Heat /\ excursion = "bounded" =>
             nvsVoltage \in Bounded(known.voltage) /\ AllIn(saves, Bounded(known.voltage))

(* ASIC_REDUCTION never underflows to the default voltage above the old one.  *)
ReductionReduces == Reduction < RegulatorMin \/ VDefault <= VMin

LEMMA ReducedIsLower ==
    ASSUME ReductionReduces, Numbers, pc \in Heat
    PROVE  ClampVoltage(ReducedVoltage) <= ClampVoltage(known.voltage)
  <1> DEFINE x == known.voltage
  <1>0. x \in Nat /\ x >= RegulatorMin /\ {VMin, VMax, VDefault, RegulatorMin, Reduction} \subseteq Nat
        /\ VMin <= VMax /\ RegulatorMin <= VMin
    BY VoltageAssumption, LimitAssumption DEF Numbers, Plain
  <1>1. CASE x > Reduction
    <2>1. ReducedVoltage \in Nat /\ ReducedVoltage <= x
      BY <1>0, <1>1 DEF ReducedVoltage, Reduced
    <2> QED
      BY <1>0, <2>1 DEF ClampVoltage, Clamp
  <1>2. CASE ~(x > Reduction)
    <2>1. ReducedVoltage \in Nat /\ ReducedVoltage <= VMin
      BY <1>0, <1>2 DEF ReducedVoltage, Reduced, ReductionReduces
    <2> QED
      BY <1>0, <2>1 DEF ClampVoltage, Clamp
  <1> QED
    BY <1>1, <1>2

LEMMA ClampAgain == ASSUME NEW v \in Nat PROVE ClampVoltage(ClampVoltage(v)) = ClampVoltage(v)
  BY VoltageAssumption DEF ClampVoltage, Clamp

LEMMA NextWithin == ASSUME ReductionReduces, PauseInv, Within, [Next]_vars PROVE Within'
  <1> SUFFICES ASSUME pc' \in Heat, excursion' = "bounded"
               PROVE  nvsVoltage' \in Bounded(known'.voltage) /\ AllIn(saves', Bounded(known'.voltage))
    BY DEF Within
  <1>0. Numbers /\ nvsVoltage \in Nat /\ known.voltage \in Nat
    BY DEF PauseInv, Numbers, Plain, Legal
  <1>1. CASE Overheat
    <2> DEFINE B == Bounded(nvsVoltage)
    <2>1. /\ known'.voltage = nvsVoltage /\ nvsVoltage' = nvsVoltage
          /\ saves' = Set(saves, "overheat", nvsOverheat, TRUE)
      BY <1>1 DEF Overheat, cacheVars, Queue
    <2>2. nvsVoltage \in B
      BY <1>0, ClampBounds DEF Bounded
    <2>3. AllIn(saves, B)
      <3> SUFFICES ASSUME NEW i \in DOMAIN saves, saves[i].key = "voltage" PROVE saves[i].value \in B
        BY DEF AllIn
      <3>1. ~Raises(saves[i].value, nvsVoltage)
        BY <1>1, Zenon DEF Overheat
      <3>2. saves[i] \in Update
        BY <1>0 DEF Numbers, Plain
      <3>3. saves[i].value \in Nat
        BY <3>2 DEF Update, Legal
      <3> QED
        BY <1>0, <3>1, <3>3, ClampBounds DEF Raises, Bounded
    <2>4. [key |-> "overheat", value |-> TRUE] \in Update /\ "overheat" # "voltage"
      BY DEF Update
    <2> HIDE DEF B
    <2>5. AllIn(saves', B)
      BY <1>0, <2>1, <2>3, <2>4, SetKeeps DEF Numbers, Plain
    <2> QED
      BY <2>1, <2>2, <2>5 DEF B
  <1>2. CASE ~Overheat
    <2> DEFINE B == Bounded(known.voltage)
    <2>1. pc \in Heat /\ known' = known /\ excursion = "bounded"
      <3>1. CASE Sense \/ StopMining \/ NoChange \/ SkipRest \/ NoOverheat \/ BootDetects
               \/ UserPauses \/ PoolsChange \/ FanFails \/ UserSets \/ BackoffElapses \/ SaveSetting
               \/ UNCHANGED vars
        BY <3>1, QuietStep DEF Heat
      <3>2. CASE StartMining \/ Started
        BY <1>0, <3>2, StartMiningEffect, StartedEffect DEF kept, Heat
      <3>3. CASE RestartReduced \/ RestartMining \/ Restarted \/ Govern
        BY <1>0, <3>3, RestartReducedEffect, RestartMiningEffect, RestartedEffect, GovernEffect DEF kept, Heat
      <3>4. CASE PowerCut \/ HeatPowerCut \/ CoolingCycle
        BY <3>4, PowerCutEffect, HeatPowerCutEffect, CoolingCycleEffect DEF kept, Heat
      <3>5. CASE BootMarks
        BY <3>5 DEF BootMarks, otherVars, heatVars
      <3> QED
        BY <1>2, <3>1, <3>2, <3>3, <3>4, <3>5 DEF Next, TaskStep, Boot, Others
    <2>2. nvsVoltage \in B /\ AllIn(saves, B)
      BY <2>1 DEF Within
    <2>3. ClampVoltage(nvsVoltage) \in B
      BY <1>0, <2>2, ClampAgain, ClampBounds DEF Bounded
    <2>4. ReducedVoltage \in B
      <3>1. ClampVoltage(ReducedVoltage) <= ClampVoltage(known.voltage)
        BY <1>0, <2>1, ReducedIsLower, Zenon
      <3>2. ReducedVoltage \in Nat
        BY <1>0, ReducedIsVoltage DEF Legal
      <3> QED
        BY <3>1, <3>2 DEF Bounded
    <2>5. UserSets => AllIn(saves', B)
      <3> SUFFICES ASSUME UserSets PROVE AllIn(saves', B)
        OBVIOUS
      <3>1. CASE \E v \in VMin .. VMax : /\ saves' = Set(saves, "voltage", nvsVoltage, v)
                                         /\ ~Raises(v, known.voltage)
        <4>1. PICK v \in VMin .. VMax : /\ saves' = Set(saves, "voltage", nvsVoltage, v)
                                        /\ ~Raises(v, known.voltage)
          BY <3>1
        <4>2. v \in Legal /\ v \in Nat
          BY VoltageAssumption DEF Legal
        <4>3. [key |-> "voltage", value |-> v] \in Update
          BY <4>2 DEF Update
        <4>4. v \in B
          BY <1>0, <4>1, <4>2, ClampBounds DEF Raises, Bounded
        <4> HIDE DEF B
        <4> QED
          BY <1>0, <2>2, <4>1, <4>3, <4>4, SetKeeps DEF Numbers, Plain
      <3>2. CASE \E f \in FMin .. FMax : saves' = Set(saves, "frequency", nvsFrequency, f)
        <4>1. PICK f \in FMin .. FMax : saves' = Set(saves, "frequency", nvsFrequency, f)
          BY <3>2
        <4>2. [key |-> "frequency", value |-> f] \in Update
          BY FrequencyAssumption DEF Update
        <4> HIDE DEF B
        <4> QED
          BY <1>0, <2>2, <4>1, <4>2, SetKeeps DEF Numbers, Plain
      <3>3. CASE saves' = Set(saves, "overheat", nvsOverheat, FALSE)
        <4>1. [key |-> "overheat", value |-> FALSE] \in Update /\ "overheat" # "voltage"
          BY DEF Update
        <4> HIDE DEF B
        <4> QED
          BY <1>0, <2>2, <3>3, <4>1, SetKeeps DEF Numbers, Plain
      <3>4. "raised" # "bounded"
        OBVIOUS
      <3> QED
        BY <2>1, <3>1, <3>2, <3>3, <3>4, Zenon DEF UserSets, Queue
    <2> HIDE DEF B
    <2>6. AllIn(saves', B) /\ nvsVoltage' \in B
      BY <1>0, <2>2, <2>3, <2>4, <2>5, SavesStep
    <2> QED
      BY <2>1, <2>6 DEF B
  <1> QED
    BY <1>1, <1>2

LEMMA NextCooled ==
    ASSUME "chips" \notin Faults, PauseInv, Up, Cooled, Within, [Next]_vars
    PROVE  Cooled'
  <1> USE DEF PauseInv, Cooled, Heat
  <1>1. CASE Sense \/ StopMining \/ NoChange \/ SkipRest \/ NoOverheat \/ BootDetects
           \/ UserPauses \/ PoolsChange \/ FanFails \/ UserSets \/ BackoffElapses \/ SaveSetting \/ UNCHANGED vars
    BY <1>1, QuietStep
  <1>2. CASE StartMining
    BY <1>2, StartMiningEffect DEF kept
  <1>3. CASE Started
    BY <1>3, StartedEffect DEF kept
  <1>4. CASE RestartReduced \/ RestartMining
    <2>1. RestartMining /\ excursion = "bounded" => ClampVoltage(nvsVoltage) <= ClampVoltage(known.voltage)
      BY RestartMiningEffect DEF Within, Bounded
    <2> QED
      BY <1>4, <2>1, RestartReducedEffect, RestartMiningEffect DEF kept
  <1>5. CASE Restarted
    <2>1. boot = "mining" => vcore # 0
      BY <1>5, RestartedEffect DEF Numbers, Plain, Up
    <2> QED
      BY <1>5, <2>1, RestartedEffect DEF kept
  <1>6. CASE Govern
    BY <1>6, GovernEffect DEF kept
  <1>7. CASE PowerCut \/ HeatPowerCut
    BY <1>7, PowerCutEffect, HeatPowerCutEffect, CutPowerEffect DEF kept
  <1>8. CASE Overheat \/ BootMarks
    BY <1>8, OverheatEffect, BootMarksEffect
  <1>9. CASE CoolingCycle
    <2>1. pc' = "cooled" => cycles' >= MinCoolingCycles /\ reading'.vr = "cool"
      <3>1. PICK vr, chip : /\ reading' = [reading EXCEPT !.vr = vr, !.chip = IF InternalSensor THEN chip ELSE @]
                            /\ pc' = IF cycles' < MinCoolingCycles \/ vr # "cool" THEN "cooling" ELSE "cooled"
        BY <1>9, Zenon DEF CoolingCycle
      <3>2. cycles' \in Nat /\ MinCoolingCycles \in Nat
        BY NextNumbers, LimitAssumption DEF Numbers, Plain
      <3>3. reading'.vr = vr
        BY <3>1 DEF Numbers, Plain, Reading
      <3> QED
        BY <3>1, <3>2, <3>3
    <2> QED
      BY <1>9, <2>1, CoolingCycleEffect
  <1> QED
    BY <1>1, <1>2, <1>3, <1>4, <1>5, <1>6, <1>7, <1>8, <1>9 DEF Next, TaskStep, Boot, Others

LEMMA OnlyRestartRaises ==
    ASSUME PauseInv, Cooled, [Next]_vars, boot = "mining", excursion # "none", ~asicUp, asicUp'
    PROVE  pc = "restarting"
  <1>1. ~(Sense \/ StopMining \/ NoChange \/ SkipRest \/ NoOverheat \/ BootDetects
          \/ UserPauses \/ PoolsChange \/ FanFails \/ UserSets \/ BackoffElapses \/ SaveSetting \/ UNCHANGED vars)
    BY QuietStep
  <1>2. ~(StartMining \/ Overheat \/ CoolingCycle \/ RestartReduced \/ RestartMining \/ Govern)
    BY StartMiningEffect, OverheatEffect, CoolingCycleEffect, RestartReducedEffect, RestartMiningEffect,
       GovernEffect DEF PauseInv
  <1>3. ~(PowerCut \/ HeatPowerCut)
    BY PowerCutEffect, HeatPowerCutEffect, CutPowerEffect
  <1>4. ~Started
    BY StartedEffect DEF PauseInv, Cooled, Heat
  <1>5. ~BootMarks
    BY DEF BootMarks
  <1> QED
    BY <1>1, <1>2, <1>3, <1>4, <1>5, RestartedEffect DEF Next, TaskStep, Boot, Others

(* After an overheat the ASIC comes back only when the cooling loop has run   *)
(* its minimum and the regulator is cool, and, unless somebody asked for a    *)
(* higher voltage, at no higher core voltage: the queue through which the     *)
(* reduced settings go may be drained at any moment.  It holds for every      *)
(* envelope in which the reduction cannot underflow.  With chips that stay    *)
(* silent in that restart, a pause and a resume start them hot instead.       *)
THEOREM CoolingHolds ==
    ASSUME "chips" \notin Faults, ReductionReduces
    PROVE  Spec => RestartsCooled
  <1> DEFINE Inv == PauseInv /\ NeverHot /\ Up /\ Cooled /\ Within
  <1>1. Init => Inv
    <2>1. Init => Cooled /\ Within
      BY DEF Init, Cooled, Within, Heat
    <2> QED
      BY <2>1, InitPause, InitUp
  <1>2. Inv /\ [Next]_vars => Inv'
    BY NextPause, NextNeverHot, NextUp, NextCooled, NextWithin DEF NoSilentRestart
  <1>3. Inv /\ [Next]_vars =>
           [boot = "mining" /\ excursion # "none" /\ ~asicUp /\ asicUp' =>
               /\ cycles >= MinCoolingCycles /\ reading.vr = "cool"
               /\ excursion = "bounded" => vcore <= ClampVoltage(known.voltage)]_vars
    BY OnlyRestartRaises DEF Cooled
  <1> QED
    BY <1>1, <1>2, <1>3, PTL DEF Spec, RestartsCooled
=============================================================================
