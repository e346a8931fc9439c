------------------------ MODULE Coordinator_proofs --------------------------
(* The protocol coordinator and the Stratum tasks, for any number of tasks    *)
(* and events, any pool configuration and any behaviour of pools and WiFi.    *)
EXTENDS Coordinator, FiniteSetTheorems, TLAPS

(* Type correctness needs to know where the two counters stop: a task that    *)
(* may count one more failed attempt has attempts left, and the coordinator   *)
(* that may count one more failed pool has not reached its threshold.         *)
RetriesLeft == \A t \in Tasks : task[t].phase \in {"connect", "setup", "recv"}
                                   => task[t].retries < MaxRetries
FailuresLeft == state # "PAUSED" => failures < Threshold
Switching == pc \in {"boot", "heartbeat_probe", "stopping"} => state # "PAUSED"

TypeInv == TypeOK /\ RetriesLeft /\ FailuresLeft /\ Switching

LEMMA InitTypeInv == Init => TypeInv
  <1> SUFFICES ASSUME Init PROVE TypeInv
    OBVIOUS
  <1>1. settings.hasFallback \in BOOLEAN /\ settings.useFallback \in BOOLEAN
    BY ConfigAssumption DEF Init
  <1>2. ActivePool \in Pools /\ isUsingFallback \in BOOLEAN
    BY <1>1 DEF Init, ActivePool, UseFallback, Pools
  <1>3. stratumProtocol \in Protocols /\ pool \in [Pools -> Health]
    BY <1>2, ConfigAssumption, EnvAssumption DEF Init
  <1>4. task \in [Tasks -> TaskRecord] /\ RetriesLeft
    <2>1. NoTask \in Phases /\ "V1" \in Protocols /\ "primary" \in Pools /\ 0 \in 0 .. MaxRetries
      BY BoundAssumption DEF Phases, Protocols, Pools
    <2>2. \A t \in Tasks : task[t] = [phase |-> NoTask, proto |-> "V1", pool |-> "primary", retries |-> 0]
      BY DEF Init
    <2> QED
      BY <2>1, <2>2, BoundAssumption DEF Init, TaskRecord, RetriesLeft
  <1>5. events \in Seq(Events) /\ Len(events) <= EventQueueSize /\ polls \in 0 .. StopPolls
    BY BoundAssumption DEF Init
  <1>6. FailuresLeft
    BY DEF Init, FailuresLeft, Threshold
  <1>7. state \in States /\ runningProtocol \in Protocols /\ shutdown \in [Protocols -> BOOLEAN]
    BY DEF Init, States, Protocols
  <1>8. /\ heartbeat \in BOOLEAN /\ poolsUnavailable \in BOOLEAN /\ wifi \in BOOLEAN
        /\ asic \in BOOLEAN /\ failureLost \in BOOLEAN /\ settings \in Settings
    BY Zenon DEF Init
  <1>9. failures \in 0 .. 2 /\ transport \in {"null", "open", "closed"} /\ backlog \in SUBSET Pools
    BY DEF Init
  <1>10. pc \in {"boot", "wait", "heartbeat_probe", "probe_primary", "probe_fallback", "stopping"}
    BY DEF Init
  <1>11. Switching
    BY DEF Init, Switching
  <1> QED
    BY <1>2, <1>3, <1>4, <1>5, <1>6, <1>7, <1>8, <1>9, <1>10, <1>11, Zenon DEF TypeInv, TypeOK

(* A task record that changes its phase, and a task that ends.                *)
LEMMA SetTaskType ==
    ASSUME TypeInv, NEW t \in Tasks, NEW ph \in Phases, NEW r \in 0 .. MaxRetries, SetTask(t, ph, r),
           ph \in {"connect", "setup", "recv"} => r < MaxRetries
    PROVE  task' \in [Tasks -> TaskRecord] /\ RetriesLeft'
  <1> DEFINE x == [task[t] EXCEPT !.phase = ph, !.retries = r]
  <1>1. task \in [Tasks -> TaskRecord] /\ task[t] \in TaskRecord
    BY DEF TypeInv, TypeOK
  <1>2. x \in TaskRecord /\ x.phase = ph /\ x.retries = r
    BY <1>1 DEF TaskRecord
  <1>3. task' = [task EXCEPT ![t] = x]
    BY <1>1 DEF SetTask
  <1> HIDE DEF x
  <1>4. task' \in [Tasks -> TaskRecord] /\ \A u \in Tasks : task'[u] = IF u = t THEN x ELSE task[u]
    BY <1>1, <1>2, <1>3
  <1> QED
    BY <1>2, <1>4 DEF TypeInv, RetriesLeft

LEMMA EndTaskType ==
    ASSUME TypeInv, NEW t \in Tasks, EndTask(t)
    PROVE  task' \in [Tasks -> TaskRecord] /\ RetriesLeft'
  <1>1. NoTask \in Phases /\ 0 \in 0 .. MaxRetries /\ NoTask \notin {"connect", "setup", "recv"}
    BY BoundAssumption, TaskAssumption DEF Phases
  <1>2. SetTask(t, NoTask, 0)
    BY DEF EndTask, SetTask
  <1> QED
    BY <1>1, <1>2, SetTaskType

LEMMA PostType ==
    ASSUME TypeInv, NEW e \in Events, Post(e)
    PROVE  events' \in Seq(Events) /\ Len(events') <= EventQueueSize /\ failureLost' \in BOOLEAN
  <1>1. CASE Len(events) < EventQueueSize
    BY <1>1, BoundAssumption DEF TypeInv, TypeOK, Post
  <1>2. CASE ~(Len(events) < EventQueueSize)
    BY <1>2, Zenon DEF TypeInv, TypeOK, Post
  <1> QED
    BY <1>1, <1>2

LEMMA RunOnType ==
    ASSUME TypeInv, NEW where \in Pools, RunOn(where)
    PROVE  /\ state' \in States /\ state' # "PAUSED" /\ runningProtocol' \in Protocols
           /\ stratumProtocol' \in Protocols /\ shutdown' \in [Protocols -> BOOLEAN]
           /\ isUsingFallback' \in BOOLEAN /\ backlog' \in SUBSET Pools
           /\ task' \in [Tasks -> TaskRecord] /\ RetriesLeft'
  <1>1. ProtocolOf[where] \in Protocols
    BY ConfigAssumption
  <1>2. task' \in [Tasks -> TaskRecord] /\ RetriesLeft'
    <2>1. CASE UNCHANGED task
      BY <2>1 DEF TypeInv, TypeOK, RetriesLeft
    <2>2. ASSUME NEW t \in Tasks,
                 task' = [task EXCEPT ![t] = [phase |-> "loop", proto |-> ProtocolOf[where],
                                              pool |-> where, retries |-> 0]]
          PROVE  task' \in [Tasks -> TaskRecord] /\ RetriesLeft'
      <3>1. "loop" \in Phases /\ 0 \in 0 .. MaxRetries
        BY BoundAssumption DEF Phases
      <3> QED
        BY <1>1, <2>2, <3>1 DEF TypeInv, TypeOK, RetriesLeft, TaskRecord
    <2> QED
      BY <2>1, <2>2 DEF RunOn, StartTask
  <1> QED
    BY <1>1, <1>2 DEF RunOn, StartTask, TypeInv, TypeOK, States, Pools

(* Facts every step of a Stratum task shares.                                 *)
LEMMA TaskStepType ==
    ASSUME TypeInv, NEW t \in Tasks,
           TaskStep(t) \/ V1ConfigureResult(t) \/ TaskGetsWork(t) \/ V1Reconnects(t)
    PROVE  TypeInv'
  <1> USE DEF taskFrame, coordVars, envVars
  <1>0. /\ task[t].phase \in Phases /\ task[t].proto \in Protocols /\ task[t].pool \in Pools
        /\ task[t].retries \in 0 .. MaxRetries /\ ActivePool \in Pools
    BY DEF TypeInv, TypeOK, TaskRecord, ActivePool, Pools
  <1>1. UNCHANGED taskFrame /\ transport' \in {"null", "open", "closed"} /\ backlog' \in SUBSET Pools
    BY <1>0 DEF TypeInv, TypeOK, TaskStep, TaskSeesShutdown, TaskGivesUp, TaskFailed, TaskExits, TaskTriesToConnect,
           ConnectFails, V1Connects, V2Connects, V1SeesShutdown, RecvFails, V1Paused, V1SetupResult,
           V1ConfigureResult, TaskGetsWork, V1Reconnects
  <1>2. events' \in Seq(Events) /\ Len(events') <= EventQueueSize /\ failureLost' \in BOOLEAN
    <2>1. {"SUCCESS", "FAILED", "V1_EXITED", "V2_EXITED"} \subseteq Events /\ ExitedEvent(task[t].proto) \in Events
      BY DEF Events, ExitedEvent
    <2>2. UNCHANGED <<events, failureLost>> \/ \E e \in Events : Post(e)
      BY <2>1 DEF TaskStep, TaskSeesShutdown, TaskGivesUp, TaskFailed, TaskExits, TaskTriesToConnect,
           ConnectFails, V1Connects, V2Connects, V1SeesShutdown, RecvFails, V1Paused, V1SetupResult,
           V1ConfigureResult, TaskGetsWork, V1Reconnects
    <2> QED
      BY <2>2, PostType DEF TypeInv, TypeOK
  <1>3. task' \in [Tasks -> TaskRecord] /\ RetriesLeft'
    <2>0. {"loop", "connect", "setup", "recv", "failing", "exiting"} \subseteq Phases
      BY DEF Phases
    <2>1. CASE UNCHANGED task
      BY <2>1 DEF TypeInv, TypeOK, RetriesLeft
    <2>2. CASE EndTask(t)
      BY <2>2, EndTaskType
    <2>3. CASE TaskTriesToConnect(t)
      <3>1. PICK p \in Pools : /\ task' = [task EXCEPT ![t].phase = "connect", ![t].pool = p]
                              /\ task[t].retries < MaxRetries
        BY <2>3, <1>0 DEF TaskTriesToConnect
      <3> DEFINE r == [task[t] EXCEPT !.phase = "connect", !.pool = p]
      <3>2. task \in [Tasks -> TaskRecord] /\ task[t] \in TaskRecord
        BY DEF TypeInv, TypeOK
      <3>3. r \in TaskRecord /\ r.retries = task[t].retries
        BY <2>0, <3>2 DEF TaskRecord
      <3>4. task' = [task EXCEPT ![t] = r]
        BY <3>1, <3>2
      <3> HIDE DEF r
      <3>5. task' \in [Tasks -> TaskRecord]
        BY <3>2, <3>3, <3>4
      <3>6. \A u \in Tasks : task'[u] = IF u = t THEN r ELSE task[u]
        BY <3>2, <3>4
      <3>7. RetriesLeft'
        BY <3>1, <3>3, <3>6 DEF TypeInv, RetriesLeft
      <3> QED
        BY <3>5, <3>7
    <2>4. ASSUME NEW ph \in {"loop", "failing", "exiting"}, SetTask(t, ph, task[t].retries)
          PROVE  task' \in [Tasks -> TaskRecord] /\ RetriesLeft'
      BY <2>4, <2>0, <1>0, SetTaskType
    <2>5. CASE SetTask(t, "loop", 0) \/ SetTask(t, "recv", 0)
      <3>1. 0 \in 0 .. MaxRetries /\ 0 < MaxRetries
        BY BoundAssumption
      <3> QED
        BY <2>5, <3>1, <2>0, SetTaskType
    <2>6. CASE V1Connects(t)
      <3>1. task[t].retries < MaxRetries
        BY <2>6 DEF V1Connects, TypeInv, RetriesLeft
      <3> QED
        BY <2>6, <3>1, <2>0, <1>0, SetTaskType DEF V1Connects
    <2>7. CASE ConnectFails(t) \/ RecvFails(t)
      <3>1. task[t].retries + 1 \in 0 .. MaxRetries
        BY <2>7, <1>0, BoundAssumption DEF ConnectFails, RecvFails, TypeInv, RetriesLeft
      <3> QED
        BY <2>7, <3>1, <2>0, SetTaskType DEF ConnectFails, RecvFails
    <2> QED
      BY <2>1, <2>2, <2>3, <2>4, <2>5, <2>6, <2>7
      DEF TaskStep, TaskSeesShutdown, TaskGivesUp, TaskFailed, TaskExits,
           V2Connects, V1SeesShutdown, V1Paused, V1SetupResult, V1ConfigureResult, TaskGetsWork, V1Reconnects
  <1> QED
    BY <1>1, <1>2, <1>3 DEF TypeInv, TypeOK, FailuresLeft, Switching, Threshold, HasFallback

(* The same for the coordinator.                                              *)
LEMMA CoordStepType ==
    ASSUME TypeInv, CoordStep
    PROVE  TypeInv'
  <1> USE DEF coordVars, envVars
  <1>0. /\ settings.hasFallback \in BOOLEAN /\ settings.useFallback \in BOOLEAN
        /\ ActivePool \in Pools /\ Threshold \in {1, 2} /\ {"primary", "fallback"} \subseteq Pools
    BY ConfigAssumption
    DEF TypeInv, TypeOK, ActivePool, Pools, Threshold, HasFallback
  <1>1. UNCHANGED <<envVars, failureLost>> /\ Threshold' = Threshold
    BY DEF CoordStep, CoordStart, HandleEvent, WaitTimesOut, RecoveryProbe, HeartbeatProbe,
           StopReceives, StopPollsInVain, StopGivesUp, Threshold, HasFallback
  <1>2. transport' \in {"null", "open", "closed"}
    BY DEF CoordStep, CoordStart, HandleEvent, WaitTimesOut, RecoveryProbe, HeartbeatProbe,
           StopReceives, StopPollsInVain, StopGivesUp, TypeInv, TypeOK
  <1>3. events' \in Seq(Events) /\ Len(events') <= EventQueueSize
    <2>1. events' = events \/ (events # << >> /\ events' = Tail(events))
      BY DEF CoordStep, CoordStart, HandleEvent, WaitTimesOut, RecoveryProbe, HeartbeatProbe,
             StopReceives, StopPollsInVain, StopGivesUp
    <2>2. events \in Seq(Events) /\ Len(events) <= EventQueueSize
      BY DEF TypeInv, TypeOK
    <2>3. ASSUME events # << >>
          PROVE  Tail(events) \in Seq(Events) /\ Len(Tail(events)) = Len(events) - 1 /\ Len(events) \in Nat
      BY <2>2, <2>3
    <2> QED
      BY <2>1, <2>2, <2>3, BoundAssumption
  <1>4. pc' \in {"boot", "wait", "heartbeat_probe", "probe_primary", "probe_fallback", "stopping"}
    BY DEF CoordStep, CoordStart, HandleEvent, WaitTimesOut, RecoveryProbe, HeartbeatProbe,
           StopReceives, StopPollsInVain, StopGivesUp, PollAgain, FinishSwitch, TypeInv, TypeOK
  <1>5. polls' \in 0 .. StopPolls
    BY BoundAssumption
    DEF CoordStep, CoordStart, HandleEvent, WaitTimesOut, RecoveryProbe, HeartbeatProbe,
           StopReceives, StopPollsInVain, StopGivesUp, PollAgain, FinishSwitch, TypeInv, TypeOK
  <1>5a. Switching'
    BY DEF CoordStep, CoordStart, HandleEvent, WaitTimesOut, RecoveryProbe, HeartbeatProbe, RunOn, resume_on_pool,
           StopReceives, StopPollsInVain, StopGivesUp, PollAgain, FinishSwitch, TypeInv, Switching
  <1>5b. heartbeat' \in BOOLEAN /\ poolsUnavailable' \in BOOLEAN
    <2>1. heartbeat \in BOOLEAN /\ poolsUnavailable \in BOOLEAN
      BY DEF TypeInv, TypeOK
    <2>2. /\ heartbeat' \in {heartbeat, TRUE, FALSE, ~UseFallback}
          /\ poolsUnavailable' \in {poolsUnavailable, TRUE, FALSE}
      BY DEF CoordStep, CoordStart, HandleEvent, HandleFailed, HandleSuccess, HandleExited, enter_paused_state,
           switch_to_fallback, retry_primary, WaitTimesOut, RecoveryProbe, resume_on_pool, HeartbeatProbe,
           StopReceives, StopPollsInVain, StopGivesUp, PollAgain, FinishSwitch
    <2> QED
      BY <1>0, <2>1, <2>2, Zenon DEF UseFallback
  <1>6. ASSUME NEW where \in Pools, RunOn(where), failures' \in {0, failures} \/ failures' < Threshold,
               failures' \in Nat, state # "PAUSED" \/ failures' = 0
        PROVE  TypeInv'
    <2>1. failures' \in 0 .. 2 /\ FailuresLeft'
      BY <1>0, <1>1, <1>6 DEF TypeInv, TypeOK, FailuresLeft
    <2> QED
      BY <1>1, <1>2, <1>3, <1>4, <1>5, <1>5a, <1>5b, <1>6, <2>1, RunOnType DEF TypeInv, TypeOK
  <1>7. ASSUME UNCHANGED <<runningProtocol, stratumProtocol, isUsingFallback, task, backlog>>,
               state' \in States, shutdown' \in [Protocols -> BOOLEAN], failures' \in 0 .. 2, FailuresLeft'
        PROVE  TypeInv'
    BY <1>1, <1>2, <1>3, <1>4, <1>5, <1>5a, <1>5b, <1>7 DEF TypeInv, TypeOK, RetriesLeft
  <1>8. CASE CoordStart
    <2>1. RunOn(ActivePool) /\ failures' = failures /\ failures \in Nat /\ state # "PAUSED"
      BY <1>8 DEF CoordStart, TypeInv, TypeOK, Switching
    <2> QED
      BY <2>1, <1>0, <1>6
  <1>9. CASE HandleEvent
    <2>1. CASE HandleFailed /\ state = "PAUSED"
      BY <2>1, <1>1, <1>7 DEF HandleFailed, TypeInv, TypeOK, FailuresLeft
    <2>2. CASE HandleFailed /\ state # "PAUSED"
      <3>1. failures' = failures + 1 /\ failures < Threshold /\ failures' \in 0 .. 2
        BY <2>2, <1>0 DEF HandleFailed, TypeInv, TypeOK, FailuresLeft
      <3>2. CASE enter_paused_state
        BY <3>1, <3>2, <1>7 DEF enter_paused_state, TypeInv, TypeOK, FailuresLeft, States
      <3>3. CASE failures + 1 < Threshold /\ (switch_to_fallback \/ retry_primary)
        BY <2>2, <3>1, <3>3, <1>0, <1>6
        DEF switch_to_fallback, retry_primary, UseFallback, TypeInv, TypeOK
      <3> QED
        BY <2>2, <3>2, <3>3 DEF HandleFailed
    <2>3. CASE HandleSuccess
      BY <2>3, <1>0, <1>1, <1>7 DEF HandleSuccess, TypeInv, TypeOK, FailuresLeft
    <2>4. CASE HandleExited
      BY <2>4, <1>1, <1>7 DEF HandleExited, TypeInv, TypeOK, FailuresLeft
    <2> QED
      BY <1>9, <2>1, <2>2, <2>3, <2>4 DEF HandleEvent
  <1>10. CASE WaitTimesOut
    BY <1>10, <1>0, <1>1, <1>7 DEF WaitTimesOut, UseFallback, TypeInv, TypeOK, FailuresLeft
  <1>11. CASE RecoveryProbe
    <2>1. CASE \E p \in Pools : resume_on_pool(p)
      BY <2>1, <1>0, <1>6 DEF resume_on_pool, UseFallback
    <2>2. CASE UNCHANGED <<state, failures, heartbeat, runningProtocol, poolsUnavailable,
                           isUsingFallback, stratumProtocol, shutdown, task, backlog>>
      BY <2>2, <1>1, <1>7 DEF TypeInv, TypeOK, FailuresLeft
    <2> QED
      BY <1>11, <1>0, <2>1, <2>2 DEF RecoveryProbe
  <1>12. CASE HeartbeatProbe
    BY <1>12, <1>1, <1>7 DEF HeartbeatProbe, TypeInv, TypeOK, FailuresLeft
  <1>13. CASE StopReceives \/ StopPollsInVain \/ StopGivesUp
    <2>1. CASE FinishSwitch /\ state # "PAUSED"
      BY <2>1, <1>0, <1>6 DEF FinishSwitch, TypeInv, TypeOK
    <2>2. CASE PollAgain
      BY <2>2, <1>1, <1>7 DEF PollAgain, TypeInv, TypeOK, FailuresLeft
    <2> QED
      BY <1>13, <2>1, <2>2 DEF StopReceives, StopPollsInVain, StopGivesUp, TypeInv, Switching
  <1> QED
    BY <1>8, <1>9, <1>10, <1>11, <1>12, <1>13 DEF CoordStep

LEMMA EnvironmentType ==
    ASSUME TypeInv, Environment
    PROVE  TypeInv'
  <1> USE DEF envFrame, coordVars
  <1>1. UNCHANGED <<envFrame, settings>>
    BY DEF Environment, WifiChanges, AsicChanges, PoolChanges
  <1>2. wifi' \in BOOLEAN /\ asic' \in BOOLEAN
    BY Zenon DEF Environment, WifiChanges, AsicChanges, PoolChanges, TypeInv, TypeOK
  <1>3. pool' \in [Pools -> Health]
    BY EnvAssumption DEF Environment, WifiChanges, AsicChanges, PoolChanges, TypeInv, TypeOK
  <1> QED
    BY <1>1, <1>2, <1>3
    DEF TypeInv, TypeOK, RetriesLeft, FailuresLeft, Switching, Threshold, HasFallback

LEMMA NextType == TypeInv /\ [Next]_vars => TypeInv'
  <1> SUFFICES ASSUME TypeInv, [Next]_vars PROVE TypeInv'
    OBVIOUS
  <1>1. CASE UNCHANGED vars
    BY <1>1 DEF vars, coordVars, envVars, TypeInv, TypeOK, RetriesLeft, FailuresLeft, Switching,
                Threshold, HasFallback
  <1> QED
    BY <1>1, CoordStepType, EnvironmentType, TaskStepType DEF Next

(* The coordinator's variables keep their types; in particular the counter of *)
(* failed pools and every task's counter of attempts stay within their        *)
(* thresholds (handle_event, retry_attempts), whoever is slow to exit.        *)
THEOREM TypeCorrect == Spec => []TypeOK
  <1>1. Spec => []TypeInv
    BY InitTypeInv, NextType, PTL DEF Spec
  <1>2. TypeInv => TypeOK
    BY DEF TypeInv
  <1> QED
    BY <1>1, <1>2, PTL
-----------------------------------------------------------------------------
(* The inductive invariant behind the safety properties: the coordinator acts *)
(* on a task's last word, and a task says nothing after it.                   *)

(* There is one task at most, of the protocol the coordinator believes to be  *)
(* running, and it is asked to stop only while the coordinator waits for it.  *)
Sole == /\ \A t, u \in Live : t = u
        /\ \A t \in Live : /\ task[t].proto = runningProtocol
                           /\ task[t].phase = "exiting" \/ shutdown[task[t].proto] => pc = "stopping"

(* FAILED and EXITED are the last event of the queue and of their task; an    *)
(* EXITED is the one the coordinator waits for.                               *)
LastWord == \A i \in DOMAIN events : events[i] # "SUCCESS" =>
               /\ i = Len(events) /\ Live = {}
               /\ events[i] # "FAILED" => pc = "stopping" /\ events[i] = ExitedEvent(runningProtocol)

(* Before the first task, and while paused, nobody can say anything.          *)
Silence == /\ pc = "boot" => state = "IDLE"
           /\ state \in {"IDLE", "PAUSED"} => Live = {} /\ events = << >>
           /\ state = "PAUSED" => poolsUnavailable /\ ~heartbeat
           /\ pc \in {"probe_primary", "probe_fallback"} => state = "PAUSED"

(* The stopping loop counts only when there is nothing left to wait for.      *)
NothingLeft == pc = "stopping" /\ polls > 0 => Live = {} /\ events = << >>

CoordInv == Sole /\ LastWord /\ Silence /\ NothingLeft /\ NoForeignWork

LEMMA InitCoordInv == Init => CoordInv
  <1> SUFFICES ASSUME Init PROVE CoordInv
    OBVIOUS
  <1>1. Live = {}
    BY DEF Init, Live
  <1> QED
    BY <1>1 DEF Init, CoordInv, Sole, LastWord, Silence, NothingLeft, NoForeignWork

(* A task lives on with its protocol, for its pool or the active one, and     *)
(* says at most SUCCESS; or it ends with a last word, if there is room.       *)
LivesOn(t) == /\ Live' = Live
              /\ task'[t].proto = task[t].proto /\ task'[t].pool \in {task[t].pool, ActivePool}
              /\ task'[t].phase = "exiting" => task[t].phase = "exiting" \/ shutdown[task[t].proto]
              /\ events' \in {events, Append(events, "SUCCESS")}
Ends(t) == /\ Live' = Live \ {t}
           /\ \/ events' = events \/ events' = Append(events, "FAILED")
              \/ /\ task[t].phase = "exiting" \/ shutdown[task[t].proto]
                 /\ events' = Append(events, ExitedEvent(task[t].proto))

LEMMA SetTaskLives ==
    ASSUME TypeInv, NEW t \in Tasks, NEW ph \in Phases \ {NoTask}, NEW r, SetTask(t, ph, r), t \in Live
    PROVE  Live' = Live /\ task'[t].proto = task[t].proto /\ task'[t].pool = task[t].pool /\ task'[t].phase = ph
  <1>1. /\ \A u \in Tasks : u # t => task'[u] = task[u]
        /\ task'[t].proto = task[t].proto /\ task'[t].pool = task[t].pool /\ task'[t].phase = ph
    BY DEF SetTask, TypeInv, TypeOK, TaskRecord
  <1> QED
    BY <1>1 DEF Live

LEMMA EndTaskEnds ==
    ASSUME TypeInv, NEW t \in Tasks, EndTask(t)
    PROVE  Live' = Live \ {t}
  <1>1. (\A u \in Tasks : u # t => task'[u] = task[u]) /\ task'[t].phase = NoTask
    BY DEF EndTask, TypeInv, TypeOK, TaskRecord
  <1> QED
    BY <1>1 DEF Live

LEMMA TaskEffect ==
    ASSUME TypeInv, NEW t \in Tasks,
           TaskStep(t) \/ V1ConfigureResult(t) \/ TaskGetsWork(t) \/ V1Reconnects(t)
    PROVE  /\ t \in Live /\ UNCHANGED taskFrame /\ backlog' \subseteq backlog \cup {task[t].pool}
           /\ LivesOn(t) \/ Ends(t)
  <1>0. {"loop", "connect", "setup", "recv", "failing", "exiting"} \subseteq Phases \ {NoTask}
    BY TaskAssumption DEF Phases
  <1>1. /\ t \in Live /\ UNCHANGED taskFrame /\ backlog' \subseteq backlog \cup {task[t].pool}
    BY <1>0 DEF Live, TaskStep, TaskSeesShutdown, TaskGivesUp, TaskFailed, TaskExits,
           TaskTriesToConnect, MayConnect, ConnectFails, V1Connects, V2Connects, V1SeesShutdown, RecvFails,
           V1Paused, V1SetupResult, V1ConfigureResult, TaskGetsWork, V1Reconnects, Receives
  <1>2. \A e : Post(e) => events' \in {events, Append(events, e)}
    BY DEF Post
  <1>3. CASE TaskTriesToConnect(t)
    <2>1. /\ \A u \in Tasks : u # t => task'[u] = task[u]
          /\ task'[t].proto = task[t].proto /\ task'[t].pool \in {task[t].pool, ActivePool}
          /\ task'[t].phase = "connect" /\ events' = events
      BY <1>3 DEF TaskTriesToConnect, TypeInv, TypeOK, TaskRecord
    <2> QED
      BY <1>0, <1>1, <2>1 DEF LivesOn, Live
  <1>4. CASE V1ConfigureResult(t) \/ TaskGetsWork(t)
    <2>1. events' \in {events, Append(events, "SUCCESS")} /\ task' = task
      BY <1>2, <1>4 DEF V1ConfigureResult, TaskGetsWork
    <2> QED
      BY <1>1, <2>1 DEF LivesOn, Live
  <1>5. CASE TaskFailed(t) \/ TaskExits(t)
    <2>1. Live' = Live \ {t}
      BY <1>5, EndTaskEnds DEF TaskFailed, TaskExits
    <2>2. CASE TaskFailed(t)
      <3>1. events' = events \/ events' = Append(events, "FAILED")
        BY <2>2 DEF TaskFailed, Post
      <3> QED
        BY <1>1, <2>1, <3>1, Zenon DEF Ends
    <2>3. CASE TaskExits(t)
      <3>1. /\ task[t].phase = "exiting"
            /\ events' = events \/ events' = Append(events, ExitedEvent(task[t].proto))
        BY <2>3 DEF TaskExits, Post
      <3> QED
        BY <1>1, <2>1, <3>1, Zenon DEF Ends
    <2> QED
      BY <1>5, <2>2, <2>3
  <1>6. CASE TaskSeesShutdown(t)
    <2>1. CASE task[t].proto = "V1"
      <3>1. /\ EndTask(t) /\ shutdown[task[t].proto]
            /\ events' = events \/ events' = Append(events, "V1_EXITED")
        BY <1>6, <2>1 DEF TaskSeesShutdown, Post
      <3>2. ExitedEvent(task[t].proto) = "V1_EXITED"
        BY <2>1 DEF ExitedEvent
      <3> QED
        BY <1>1, <3>1, <3>2, EndTaskEnds, Zenon DEF Ends
    <2>2. CASE task[t].proto # "V1"
      BY <1>0, <1>1, <1>6, <2>2, SetTaskLives DEF TaskSeesShutdown, LivesOn
    <2> QED
      BY <2>1, <2>2
  <1>7. CASE V1SeesShutdown(t)
    BY <1>0, <1>1, <1>7, SetTaskLives DEF V1SeesShutdown, LivesOn
  <1>8. CASE V2Connects(t) \/ V1SetupResult(t)
    <2>1. SetTask(t, "recv", 0) /\ events' \in {events, Append(events, "SUCCESS")}
      BY <1>2, <1>8 DEF V2Connects, V1SetupResult
    <2> QED
      BY <1>0, <1>1, <2>1, SetTaskLives DEF LivesOn
  <1>9. CASE TaskGivesUp(t) \/ ConnectFails(t) \/ V1Connects(t) \/ RecvFails(t) \/ V1Paused(t) \/ V1Reconnects(t)
    <2>1. /\ \E ph \in {"loop", "setup", "failing"}, r \in {0, task[t].retries, task[t].retries + 1} : SetTask(t, ph, r)
          /\ events' = events
      BY <1>9 DEF TaskGivesUp, ConnectFails, V1Connects, RecvFails, V1Paused, V1Reconnects
    <2> QED
      BY <1>0, <1>1, <2>1, SetTaskLives DEF LivesOn
  <1> QED
    BY <1>1, <1>3, <1>4, <1>5, <1>6, <1>7, <1>8, <1>9 DEF TaskStep

LEMMA TaskStepInv ==
    ASSUME TypeInv, CoordInv, NEW t \in Tasks,
           TaskStep(t) \/ V1ConfigureResult(t) \/ TaskGetsWork(t) \/ V1Reconnects(t)
    PROVE  CoordInv'
  <1> USE DEF taskFrame, coordVars
  <1>1. /\ t \in Live /\ UNCHANGED taskFrame /\ backlog' \subseteq backlog \cup {task[t].pool}
        /\ LivesOn(t) \/ Ends(t)
    BY TaskEffect
  <1>2. Live = {t} /\ state \notin {"IDLE", "PAUSED"} /\ pc \notin {"boot", "probe_primary", "probe_fallback"}
    BY <1>1 DEF CoordInv, Sole, Silence
  <1>3. \A i \in DOMAIN events : events[i] = "SUCCESS"
    BY <1>2 DEF CoordInv, LastWord
  <1>4. ~(pc = "stopping" /\ polls > 0)
    BY <1>2 DEF CoordInv, NothingLeft
  <1>5. Live' \subseteq {t} /\ (t \in Live' => LivesOn(t))
    BY <1>1, <1>2 DEF LivesOn, Ends
  <1>6. Sole'
    BY <1>1, <1>2, <1>5 DEF LivesOn, CoordInv, Sole
  <1>7. NoForeignWork'
    BY <1>1, <1>2, <1>5 DEF LivesOn, CoordInv, NoForeignWork, ActivePool
  <1>8. Silence' /\ NothingLeft'
    BY <1>1, <1>2, <1>4 DEF CoordInv, Silence, NothingLeft
  <1>9. LastWord'
    <2>0. events \in Seq(Events)
      BY DEF TypeInv, TypeOK
    <2>1. CASE LivesOn(t)
      BY <2>0, <2>1, <1>3 DEF LivesOn, LastWord
    <2>2. CASE Ends(t)
      <3>1. Live' = {}
        BY <2>2, <1>2 DEF Ends
      <3>2. ASSUME NEW e, events' = Append(events, e),
                   e = "FAILED" \/ (pc = "stopping" /\ e = ExitedEvent(runningProtocol))
            PROVE  LastWord'
        BY <2>0, <3>1, <3>2, <1>1, <1>3 DEF LastWord, ExitedEvent
      <3>3. task[t].phase = "exiting" \/ shutdown[task[t].proto] => pc = "stopping" /\ task[t].proto = runningProtocol
        BY <1>1 DEF CoordInv, Sole
      <3>4. CASE events' = events
        BY <3>4, <1>3 DEF LastWord
      <3> QED
        BY <2>2, <3>2, <3>3, <3>4 DEF Ends
    <2> QED
      BY <1>1, <2>1, <2>2
  <1> QED
    BY <1>6, <1>7, <1>8, <1>9 DEF CoordInv

(* A move to a pool starts the only task there is.                            *)
LEMMA RunOnInv ==
    ASSUME TypeInv, NEW where \in Pools, RunOn(where), Live = {}, events' = << >>, pc' = "wait"
    PROVE  CoordInv'
  <1>1. /\ shutdown'[ProtocolOf[where]] = FALSE /\ runningProtocol' = ProtocolOf[where]
        /\ backlog' = {} /\ state' \in {"RUNNING_FALLBACK", "RUNNING_PRIMARY"} /\ ActivePool' = where
    BY ConfigAssumption DEF RunOn, StartTask, TypeInv, TypeOK, ActivePool, Pools
  <1>2. /\ \A t, u \in Live' : t = u
        /\ \A t \in Live' : /\ task'[t].proto = ProtocolOf[where] /\ task'[t].pool = where
                            /\ task'[t].phase = "loop"
    BY DEF RunOn, StartTask, TypeInv, TypeOK, Live
  <1> QED
    BY <1>1, <1>2 DEF CoordInv, Sole, LastWord, Silence, NothingLeft, NoForeignWork

LEMMA CoordStepInv ==
    ASSUME TypeInv, CoordInv, CoordStep, PromptExit = TRUE
    PROVE  CoordInv'
  <1> USE DEF coordVars, envVars
  <1>0. ActivePool \in Pools /\ {"primary", "fallback"} \subseteq Pools /\ events \in Seq(Events)
    BY DEF TypeInv, TypeOK, ActivePool, Pools
  <1>1. CASE CoordStart
    <2>1. Live = {} /\ events' = << >> /\ RunOn(ActivePool) /\ pc' = "wait"
      BY <1>1 DEF CoordStart, CoordInv, Silence
    <2> QED
      BY <2>1, <1>0, RunOnInv
  <1>2. CASE HandleEvent
    <2>1. CASE Head(events) = "FAILED"
      <3>1. Live = {} /\ events' = << >> /\ pc' = "wait" /\ state # "PAUSED" /\ HandleFailed
        <4>1. events # << >> /\ events[1] = "FAILED" /\ events' = Tail(events) /\ HandleFailed /\ pc' = pc /\ pc = "wait"
          BY <1>0, <1>2, <2>1 DEF HandleEvent
        <4>2. 1 \in DOMAIN events
          BY <1>0, <4>1
        <4>3. Len(events) = 1 /\ Live = {}
          BY <4>1, <4>2 DEF CoordInv, LastWord
        <4>4. state # "PAUSED"
          BY <4>1 DEF CoordInv, Silence
        <4> QED
          BY <1>0, <4>1, <4>3, <4>4
      <3>2. CASE switch_to_fallback \/ retry_primary
        BY <1>0, <3>1, <3>2, RunOnInv DEF switch_to_fallback, retry_primary
      <3>3. CASE enter_paused_state
        BY <3>1, <3>3 DEF enter_paused_state, Live, CoordInv, Sole, LastWord, Silence, NothingLeft, NoForeignWork
      <3> QED
        BY <3>1, <3>2, <3>3 DEF HandleFailed
    <2>2. CASE Head(events) # "FAILED"
      <3>1. /\ UNCHANGED <<pc, polls, state, heartbeat, runningProtocol, isUsingFallback, shutdown, task, backlog>>
            /\ pc = "wait" /\ events # << >> /\ events' = Tail(events)
        BY <1>2, <2>2 DEF HandleEvent, HandleSuccess, HandleExited
      <3>2. state # "PAUSED" /\ state # "IDLE" /\ Live' = Live /\ ActivePool' = ActivePool
        BY <3>1 DEF CoordInv, Silence, Live, ActivePool
      <3>3. LastWord'
        <4>1. \A i \in DOMAIN Tail(events) : /\ i + 1 \in DOMAIN events /\ Tail(events)[i] = events[i + 1]
                                              /\ Len(Tail(events)) = Len(events) - 1 /\ i \in Nat
          BY <1>0, <3>1
        <4> QED
          BY <1>0, <3>1, <3>2, <4>1 DEF CoordInv, LastWord
      <3> QED
        BY <3>1, <3>2, <3>3 DEF CoordInv, Sole, Silence, NothingLeft, NoForeignWork
    <2> QED
      BY <2>1, <2>2
  <1>3. CASE WaitTimesOut
    <2>1. UNCHANGED <<state, runningProtocol, isUsingFallback, poolsUnavailable, shutdown, task, backlog, events>> /\ events = << >> /\ pc = "wait"
          /\ Live' = Live /\ ActivePool' = ActivePool
      BY <1>3 DEF WaitTimesOut, Live, ActivePool
    <2>2. Silence'
      BY <1>3, <2>1 DEF WaitTimesOut, CoordInv, Silence
    <2>3. pc' \notin {"boot", "stopping"} /\ polls' = polls
      BY <1>3 DEF WaitTimesOut
    <2> QED
      BY <2>1, <2>2, <2>3 DEF CoordInv, Sole, LastWord, NothingLeft, NoForeignWork
  <1>4. CASE RecoveryProbe
    <2>1. state = "PAUSED" /\ Live = {} /\ events = << >> /\ events' = << >>
      BY <1>4 DEF RecoveryProbe, CoordInv, Silence
    <2>2. CASE \E p \in Pools : resume_on_pool(p) /\ pc' = "wait"
      BY <2>1, <2>2, RunOnInv DEF resume_on_pool
    <2>3. CASE UNCHANGED <<state, failures, heartbeat, runningProtocol, poolsUnavailable,
                           isUsingFallback, stratumProtocol, shutdown, task, backlog>>
               /\ pc' \in {"probe_primary", "probe_fallback", "wait"}
      BY <2>1, <2>3 DEF Live, CoordInv, Sole, LastWord, Silence, NothingLeft, NoForeignWork
    <2> QED
      BY <1>0, <1>4, <2>2, <2>3 DEF RecoveryProbe
  <1>5. CASE HeartbeatProbe
    <2>1. UNCHANGED <<state, runningProtocol, isUsingFallback, poolsUnavailable, heartbeat, task, backlog, events>>
          /\ Live' = Live /\ ActivePool' = ActivePool /\ pc = "heartbeat_probe" /\ state # "PAUSED"
      BY <1>5 DEF HeartbeatProbe, Live, ActivePool, TypeInv, Switching
    <2>2. (pc' = "wait" /\ shutdown' = shutdown) \/ (pc' = "stopping" /\ polls' = 0)
      BY <1>5 DEF HeartbeatProbe
    <2> QED
      BY <2>1, <2>2 DEF CoordInv, Sole, LastWord, Silence, NothingLeft, NoForeignWork
  <1>6. CASE StopReceives
    <2>1. pc = "stopping" /\ events # << >> /\ events' = Tail(events) /\ Head(events) = events[1] /\ 1 \in DOMAIN events
      BY <1>0, <1>6 DEF StopReceives
    <2>2. CASE Head(events) = "SUCCESS"
      <3>1. PollAgain
        BY <1>6, <2>2 DEF StopReceives, ExitedEvent
      <3>2. UNCHANGED <<state, heartbeat, runningProtocol, poolsUnavailable, isUsingFallback, pc, polls, shutdown, task, backlog>>
        BY <2>1, <3>1 DEF PollAgain
      <3>3. Live' = Live /\ ActivePool' = ActivePool /\ state \notin {"PAUSED", "IDLE"} /\ ~(polls > 0)
        BY <2>1, <3>2 DEF Live, ActivePool, CoordInv, Silence, NothingLeft
      <3>4. LastWord'
        <4>1. \A i \in DOMAIN Tail(events) : /\ i + 1 \in DOMAIN events /\ Tail(events)[i] = events[i + 1]
                                              /\ Len(Tail(events)) = Len(events) - 1 /\ i \in Nat
          BY <1>0, <2>1
        <4> QED
          BY <1>0, <2>1, <3>2, <3>3, <4>1 DEF CoordInv, LastWord, ExitedEvent
      <3> QED
        BY <3>2, <3>3, <3>4 DEF CoordInv, Sole, Silence, NothingLeft, NoForeignWork
    <2>3. CASE Head(events) # "SUCCESS"
      <3>1. Live = {} /\ Len(events) = 1 /\ Head(events) \in {ExitedEvent(runningProtocol), "FAILED"}
        BY <2>1, <2>3 DEF CoordInv, LastWord
      <3>2. FinishSwitch /\ events' = << >>
        BY <1>0, <1>6, <2>1, <3>1 DEF StopReceives
      <3> QED
        BY <1>0, <3>1, <3>2, RunOnInv DEF FinishSwitch
    <2> QED
      BY <2>2, <2>3
  <1>7. CASE StopPollsInVain
    <2>1. UNCHANGED <<state, heartbeat, runningProtocol, poolsUnavailable, isUsingFallback, pc, shutdown, task, backlog, events>>
          /\ Live' = Live /\ ActivePool' = ActivePool /\ events = << >> /\ pc = "stopping"
      BY <1>7 DEF StopPollsInVain, PollAgain, Live, ActivePool
    <2>2. polls' = polls \/ Live = {}
      <3>1. ASSUME NEW t \in Live PROVE task[t].proto = runningProtocol
        BY DEF CoordInv, Sole
      <3> QED
        BY <1>7, <3>1 DEF StopPollsInVain, PollAgain
    <2> QED
      BY <2>1, <2>2 DEF CoordInv, Sole, LastWord, Silence, NothingLeft, NoForeignWork
  <1>8. CASE StopGivesUp
    <2>1. Live = {} /\ events' = << >> /\ FinishSwitch
      BY <1>8, BoundAssumption DEF StopGivesUp, CoordInv, NothingLeft
    <2> QED
      BY <1>0, <2>1, RunOnInv DEF FinishSwitch
  <1> QED
    BY <1>1, <1>2, <1>3, <1>4, <1>5, <1>6, <1>7, <1>8 DEF CoordStep

LEMMA NextCoordInv == ASSUME PromptExit = TRUE PROVE TypeInv /\ CoordInv /\ [Next]_vars => CoordInv'
  <1> SUFFICES ASSUME TypeInv, CoordInv, [Next]_vars PROVE CoordInv'
    OBVIOUS
  <1>1. CASE Environment \/ UNCHANGED vars
    <2>1. UNCHANGED <<coordVars, shutdown, events, task, backlog>>
      BY <1>1 DEF Environment, WifiChanges, AsicChanges, PoolChanges, envFrame, vars
    <2>2. Live' = Live /\ ActivePool' = ActivePool
      BY <2>1 DEF coordVars, Live, ActivePool
    <2> QED
      BY <2>1, <2>2 DEF coordVars, CoordInv, Sole, LastWord, Silence, NothingLeft, NoForeignWork
  <1> QED
    BY <1>1, CoordStepInv, TaskStepInv DEF Next

(* Cardinality enters only here: two members that are equal are one.          *)
LEMMA AtMostOne ==
    ASSUME NEW S, \A x, y \in S : x = y
    PROVE  Cardinality(S) <= 1
  <1>1. CASE S = {}
    BY <1>1, FS_EmptySet
  <1>2. CASE S # {}
    <2>1. PICK x \in S : TRUE
      BY <1>2
    <2>2. S = {x}
      BY <2>1
    <2> QED
      BY <2>2, FS_Singleton
  <1> QED
    BY <1>1, <1>2

LEMMA CoordInvImplies == CoordInv => OneTask /\ PausedMeansIdle /\ NoForeignWork
  <1>1. CoordInv => OneTask
    BY AtMostOne DEF CoordInv, Sole, OneTask
  <1>2. CoordInv => PausedMeansIdle
    BY DEF CoordInv, Silence, PausedMeansIdle
  <1> QED
    BY <1>1, <1>2 DEF CoordInv

(* While a stopped task exits within the polls of stop_v1_task/stop_v2_task,  *)
(* whatever the pools, WiFi and the ASIC do and whichever events a full queue *)
(* loses: one Stratum task at most, no task while paused with mining known to *)
(* be unavailable, and no work of the pool that was left.                     *)
THEOREM CoordinatorSafety ==
    ASSUME PromptExit = TRUE
    PROVE  Spec => [](OneTask /\ PausedMeansIdle /\ NoForeignWork)
  <1>1. Init => TypeInv /\ CoordInv
    BY InitTypeInv, InitCoordInv
  <1>2. TypeInv /\ CoordInv /\ [Next]_vars => (TypeInv /\ CoordInv)'
    BY NextType, NextCoordInv
  <1>3. TypeInv /\ CoordInv => OneTask /\ PausedMeansIdle /\ NoForeignWork
    BY CoordInvImplies
  <1> QED
    BY <1>1, <1>2, <1>3, PTL DEF Spec

(* start_v1_task and start_v2_task never run beside a task that has not ended. *)
THEOREM OneTaskAtMost ==
    ASSUME PromptExit = TRUE
    PROVE  Spec => []OneTask
  BY CoordinatorSafety, PTL

(* While the coordinator is paused no Stratum task and no heartbeat runs, and  *)
(* power management has been told that the pools are unavailable.              *)
THEOREM PauseIsIdle ==
    ASSUME PromptExit = TRUE
    PROVE  Spec => []PausedMeansIdle
  BY CoordinatorSafety, PTL

(* stop_current_protocol and clean_queue leave no task, job or share of the    *)
(* pool that was left.                                                         *)
THEOREM NothingForeign ==
    ASSUME PromptExit = TRUE
    PROVE  Spec => []NoForeignWork
  BY CoordinatorSafety, PTL
=============================================================================
