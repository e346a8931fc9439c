---------------------------- MODULE Coordinator -----------------------------
(* main/tasks/protocol_coordinator.c together with the life cycle of the      *)
(* Stratum tasks it starts and stops (main/tasks/stratum_v1_task.c and        *)
(* stratum_v2_task.c): which pool is mined on, how a failed pool is replaced, *)
(* when mining is paused and how it is resumed.                               *)
(*                                                                            *)
(* The coordinator and every Stratum task are FreeRTOS tasks; they share the  *)
(* variables below and an event queue of bounded length whose senders never   *)
(* wait (xQueueSend with timeout 0), so an event sent to a full queue is lost.*)
EXTENDS Naturals, Sequences, FiniteSets

CONSTANTS
    Tasks,             \* identities of Stratum task instances (a bound)
    NoTask,            \* phase of an identity that is not a live task
    ProtocolOf,        \* [Pools -> Protocols]: the configured protocols
    Settings,          \* which pool settings the device may be booted with
    EventQueueSize,    \* length of s_event_queue (8)
    MaxRetries,        \* MAX_RETRY_ATTEMPTS
    StopPolls,         \* polls of the event queue while stopping a task (100)
    PoolHealth,        \* what a pool may do (a subset of Health)
    EnvChanges,        \* which of "wifi" and "asic" may change
    PromptExit,        \* assume that a stopped task exits within these polls
    CreateMayFail      \* xTaskCreate may fail for want of memory

Pools == {"primary", "fallback"}
Protocols == {"V1", "V2"}
Health == {"down", "rejecting", "good"}   \* rejecting: answers, but refuses the setup
Events == {"FAILED", "SUCCESS", "V1_EXITED", "V2_EXITED"}
ExitedEvent(p) == IF p = "V1" THEN "V1_EXITED" ELSE "V2_EXITED"

ASSUME ConfigAssumption == /\ ProtocolOf \in [Pools -> Protocols]
                           /\ Settings \subseteq [hasFallback : BOOLEAN, useFallback : BOOLEAN]
                           /\ {PromptExit, CreateMayFail} \subseteq BOOLEAN
ASSUME EnvAssumption == PoolHealth \subseteq Health /\ PoolHealth # {} /\ EnvChanges \subseteq {"wifi", "asic"}
ASSUME BoundAssumption == /\ EventQueueSize \in Nat \ {0} /\ MaxRetries \in Nat \ {0}
                          /\ StopPolls \in Nat \ {0}
ASSUME TaskAssumption == NoTask \notin {"loop", "connect", "setup", "recv", "failing", "exiting"}

VARIABLES
    state, failures, heartbeat, runningProtocol,       \* coordinator statics
    shutdown,                                          \* s_v1/v2_should_shutdown
    poolsUnavailable, isUsingFallback, stratumProtocol,   \* GlobalState
    transport,         \* GlobalState.transport: "null", "open" or "closed"
    events,            \* s_event_queue
    pc, polls,         \* where the coordinator task is
    task,              \* the Stratum tasks
    backlog,           \* pools with jobs in stratum_queue or shares in the statistics
    settings,          \* the pool settings read at boot
    wifi, asic, pool,  \* environment: link up, ASIC_initalized, health of each pool
    failureLost        \* history: a FAILED was sent to a full event queue

coordVars == <<state, failures, heartbeat, runningProtocol, poolsUnavailable,
               isUsingFallback, stratumProtocol, pc, polls>>
envVars   == <<settings, wifi, asic, pool>>
vars == <<coordVars, shutdown, transport, events, task, backlog, envVars, failureLost>>

Phases == {NoTask, "loop", "connect", "setup", "recv", "failing", "exiting"}
TaskRecord == [phase : Phases, proto : Protocols, pool : Pools, retries : 0 .. MaxRetries]
States == {"IDLE", "RUNNING_PRIMARY", "RUNNING_FALLBACK", "PAUSED"}

HasFallback == settings.hasFallback   \* has_fallback_pool(): a secondary URL is configured
UseFallback == settings.useFallback   \* use_fallback_stratum: the user chose the fallback pool
Live == {t \in Tasks : task[t].phase # NoTask}
ActivePool == IF isUsingFallback THEN "fallback" ELSE "primary"

TypeOK == /\ state \in States /\ failures \in 0 .. 2 /\ heartbeat \in BOOLEAN
          /\ runningProtocol \in Protocols /\ stratumProtocol \in Protocols
          /\ shutdown \in [Protocols -> BOOLEAN]
          /\ poolsUnavailable \in BOOLEAN /\ isUsingFallback \in BOOLEAN
          /\ transport \in {"null", "open", "closed"}
          /\ events \in Seq(Events) /\ Len(events) <= EventQueueSize
          /\ pc \in {"boot", "wait", "heartbeat_probe", "probe_primary", "probe_fallback", "stopping"}
          /\ polls \in 0 .. StopPolls
          /\ task \in [Tasks -> TaskRecord]
          /\ backlog \in SUBSET Pools
          /\ settings \in Settings
          /\ wifi \in BOOLEAN /\ asic \in BOOLEAN /\ pool \in [Pools -> Health]
          /\ failureLost \in BOOLEAN

(* protocol_coordinator_init and the configuration read by SYSTEM_init.       *)
Init == /\ state = "IDLE" /\ failures = 0 /\ heartbeat = FALSE
        /\ settings \in Settings /\ isUsingFallback = UseFallback
        /\ stratumProtocol = ProtocolOf[ActivePool]
        /\ runningProtocol = "V1"
        /\ shutdown = [p \in Protocols |-> FALSE]
        /\ poolsUnavailable = FALSE
        /\ transport = "null" /\ events = << >>
        /\ pc = "boot" /\ polls = 0
        /\ task = [t \in Tasks |-> [phase |-> NoTask, proto |-> "V1", pool |-> "primary", retries |-> 0]]
        /\ backlog = {}
        /\ wifi = TRUE /\ asic = TRUE /\ pool \in [Pools -> PoolHealth]
        /\ failureLost = FALSE
-----------------------------------------------------------------------------

(* xQueueSend(s_event_queue, e, 0).                                           *)
Post(e) == IF Len(events) < EventQueueSize
           THEN events' = Append(events, e) /\ UNCHANGED failureLost
           ELSE failureLost' = (failureLost \/ e = "FAILED") /\ UNCHANGED events

(* start_protocol_task: the shutdown flag of the protocol is cleared, for     *)
(* every task of that protocol, before the new one is created.                *)
StartTask(p, where) ==
    /\ shutdown' = [shutdown EXCEPT ![p] = FALSE]
    /\ \/ \E t \in Tasks \ Live :
             task' = [task EXCEPT ![t] = [phase |-> "loop", proto |-> p, pool |-> where, retries |-> 0]]
       \/ CreateMayFail /\ UNCHANGED task

(* Mutants: the fallback flag is not written; the old work is kept.           *)
Mut_RunOnOldWork(where) ==
    /\ isUsingFallback' = (where = "fallback")
    /\ stratumProtocol' = ProtocolOf[where] /\ runningProtocol' = ProtocolOf[where]
    /\ state' = IF where = "fallback" THEN "RUNNING_FALLBACK" ELSE "RUNNING_PRIMARY"
    /\ StartTask(ProtocolOf[where], where)
    /\ UNCHANGED backlog

(* The common part of every move to a pool: queue_clear, reset_share_stats,   *)
(* the new protocol, the new task.                                            *)
RunOn(where) ==
    /\ backlog' = {}
    /\ isUsingFallback' = (where = "fallback")
    /\ stratumProtocol' = ProtocolOf[where]
    /\ runningProtocol' = ProtocolOf[where]
    /\ state' = IF where = "fallback" THEN "RUNNING_FALLBACK" ELSE "RUNNING_PRIMARY"
    /\ StartTask(ProtocolOf[where], where)

(* protocol_coordinator_task up to its loop.                                  *)
CoordStart ==
    /\ pc = "boot" /\ pc' = "wait"
    /\ RunOn(ActivePool)
    /\ UNCHANGED <<failures, heartbeat, poolsUnavailable, polls, transport, events, envVars, failureLost>>

Threshold == IF HasFallback THEN 2 ELSE 1

(* Mutant: power management is not told.                                      *)
Mut_PauseSilently ==
    /\ state' = "PAUSED" /\ heartbeat' = FALSE
    /\ UNCHANGED <<poolsUnavailable, runningProtocol, stratumProtocol, isUsingFallback, shutdown, task, backlog>>

enter_paused_state ==
    /\ state' = "PAUSED" /\ poolsUnavailable' = TRUE /\ heartbeat' = FALSE
    /\ UNCHANGED <<runningProtocol, stratumProtocol, isUsingFallback, shutdown, task, backlog>>

switch_to_fallback == /\ RunOn("fallback")
                      /\ heartbeat' = ~UseFallback
                      /\ UNCHANGED poolsUnavailable

retry_primary == /\ RunOn("primary")
                 /\ heartbeat' = FALSE
                 /\ UNCHANGED poolsUnavailable

(* handle_event(PROTOCOL_FAILED); a stray failure is ignored while paused.    *)
HandleFailed ==
    IF state = "PAUSED"
    THEN UNCHANGED <<state, failures, heartbeat, poolsUnavailable, runningProtocol, stratumProtocol,
                     isUsingFallback, shutdown, task, backlog>>
    ELSE /\ failures' = failures + 1
         /\ \/ failures + 1 >= Threshold /\ enter_paused_state
            \/ failures + 1 < Threshold /\ state = "RUNNING_PRIMARY"  /\ switch_to_fallback
            \/ failures + 1 < Threshold /\ state = "RUNNING_FALLBACK" /\ retry_primary

HandleSuccess ==
    /\ failures' = 0 /\ poolsUnavailable' = FALSE
    /\ UNCHANGED <<state, heartbeat, runningProtocol, stratumProtocol, isUsingFallback, shutdown, task, backlog>>

HandleExited ==
    UNCHANGED <<state, failures, heartbeat, poolsUnavailable, runningProtocol, stratumProtocol,
                isUsingFallback, shutdown, task, backlog>>

(* One turn of the main loop that received an event.                          *)
HandleEvent ==
    /\ pc = "wait" /\ events # << >>
    /\ events' = Tail(events)
    /\ CASE Head(events) = "FAILED"  -> HandleFailed
         [] Head(events) = "SUCCESS" -> HandleSuccess
         [] OTHER -> HandleExited
    /\ UNCHANGED <<pc, polls, transport, envVars, failureLost>>

(* The receive timed out: 30 s while paused, 60 s with the heartbeat on, and  *)
(* for ever otherwise.  The initial heartbeat delay of 10 s is always over    *)
(* when the 60 s wait ends, so it has no state here.  A user who chose the    *)
(* fallback has the heartbeat switched off.                                   *)
preferFallback == UseFallback /\ HasFallback

WaitTimesOut ==
    /\ pc = "wait" /\ events = << >>
    /\ \/ /\ state = "PAUSED" /\ wifi
          /\ pc' = IF preferFallback THEN "probe_fallback" ELSE "probe_primary"
          /\ UNCHANGED heartbeat
       \/ /\ state # "PAUSED" /\ heartbeat /\ (UseFallback \/ wifi)
          /\ heartbeat' = ~UseFallback
          /\ pc' = IF UseFallback THEN "wait" ELSE "heartbeat_probe"
    /\ UNCHANGED <<state, failures, runningProtocol, poolsUnavailable, isUsingFallback, stratumProtocol,
                   polls, shutdown, transport, events, task, backlog, envVars, failureLost>>

(* probe_pool: an SV2 pool that accepts a TCP connection is taken as          *)
(* reachable; a V1 pool must send mining.notify within 5 s.                   *)
Reachable(p) == wifi /\ IF ProtocolOf[p] = "V2" THEN pool[p] # "down" ELSE pool[p] = "good"

resume_on_pool(p) ==
    /\ failures' = 0 /\ poolsUnavailable' = FALSE
    /\ RunOn(p)
    /\ heartbeat' = (p = "fallback" /\ ~UseFallback)

(* Mutant: only the first pool is ever probed.                                *)
Mut_ProbeOnePool ==
    /\ \/ pc = "probe_primary"  /\ Reachable("primary")  /\ resume_on_pool("primary")
       \/ pc = "probe_fallback" /\ Reachable("fallback") /\ resume_on_pool("fallback")
       \/ /\ \/ pc = "probe_primary"  /\ ~Reachable("primary")
             \/ pc = "probe_fallback" /\ ~Reachable("fallback")
          /\ UNCHANGED <<state, failures, heartbeat, runningProtocol, poolsUnavailable,
                         isUsingFallback, stratumProtocol, shutdown, task, backlog>>
    /\ pc' = "wait"
    /\ UNCHANGED <<polls, transport, events, envVars, failureLost>>

(* The probes of try_resume_from_paused: the preferred pool, then the other.  *)
RecoveryProbe ==
    /\ \/ pc = "probe_primary"  /\ Reachable("primary")  /\ resume_on_pool("primary")  /\ pc' = "wait"
       \/ pc = "probe_fallback" /\ Reachable("fallback") /\ resume_on_pool("fallback") /\ pc' = "wait"
       \/ /\ \/ pc = "probe_primary" /\ ~Reachable("primary")
                /\ pc' = IF HasFallback /\ ~preferFallback THEN "probe_fallback" ELSE "wait"
             \/ pc = "probe_fallback" /\ ~Reachable("fallback")
                /\ pc' = IF preferFallback THEN "probe_primary" ELSE "wait"
          /\ UNCHANGED <<state, failures, heartbeat, runningProtocol, poolsUnavailable,
                         isUsingFallback, stratumProtocol, shutdown, task, backlog>>
    /\ UNCHANGED <<polls, transport, events, envVars, failureLost>>

(* do_heartbeat_probe, and stop_v1_task / stop_v2_task up to its polling loop *)
(* when the primary pool is back.                                             *)
HeartbeatProbe ==
    /\ pc = "heartbeat_probe"
    /\ \/ /\ ~Reachable("primary") /\ pc' = "wait"
          /\ UNCHANGED <<shutdown, transport, polls>>
       \/ /\ Reachable("primary") /\ pc' = "stopping"
          /\ shutdown' = [shutdown EXCEPT ![runningProtocol] = TRUE]
          /\ transport' = IF transport = "null" THEN "null" ELSE "closed"
          /\ polls' = 0
    /\ UNCHANGED <<state, failures, heartbeat, runningProtocol, poolsUnavailable, isUsingFallback,
                   stratumProtocol, events, task, backlog, envVars, failureLost>>

(* The rest of switch_to_primary, once the wait for the fallback task ended.  *)
FinishSwitch ==
    /\ pc' = "wait" /\ polls' = 0
    /\ RunOn("primary")
    /\ heartbeat' = FALSE
    /\ UNCHANGED <<failures, poolsUnavailable>>

(* One poll of the stopping loop: EXITED of this protocol or FAILED ends it,  *)
(* any other event is dropped; the loop gives up after StopPolls polls.       *)
PollAgain == /\ polls' = IF PromptExit /\ (events # << >> \/ \E t \in Live : task[t].proto = runningProtocol)
                         THEN polls ELSE polls + 1
             /\ UNCHANGED <<state, failures, heartbeat, runningProtocol, poolsUnavailable, isUsingFallback,
                            stratumProtocol, pc, shutdown, task, backlog>>

(* Mutant: any event is taken for the end of the stopped task.                *)
Mut_StopAtAnyEvent ==
    /\ pc = "stopping" /\ polls < StopPolls /\ events # << >>
    /\ events' = Tail(events)
    /\ FinishSwitch
    /\ UNCHANGED <<transport, envVars, failureLost>>

StopReceives ==
    /\ pc = "stopping" /\ polls < StopPolls /\ events # << >>
    /\ events' = Tail(events)
    /\ IF Head(events) \in {ExitedEvent(runningProtocol), "FAILED"} THEN FinishSwitch ELSE PollAgain
    /\ UNCHANGED <<transport, envVars, failureLost>>

StopPollsInVain ==
    /\ pc = "stopping" /\ polls < StopPolls /\ events = << >>
    /\ PollAgain
    /\ UNCHANGED <<transport, events, envVars, failureLost>>

StopGivesUp ==
    /\ pc = "stopping" /\ polls = StopPolls
    /\ FinishSwitch
    /\ UNCHANGED <<transport, events, envVars, failureLost>>
-----------------------------------------------------------------------------
(* The Stratum tasks.  A task at "loop" is at the top of its connection loop, *)
(* at "connect" it is past the shutdown check and resolving, connecting or    *)
(* (SV2) shaking hands; "setup" and "recv" are the receive loop before and    *)
(* after the pool answered the setup; "failing" and "exiting" are the one     *)
(* second in which the connection is closed before the last event is sent.    *)
SetTask(t, ph, r) == task' = [task EXCEPT ![t].phase = ph, ![t].retries = r]
EndTask(t)        == task' = [task EXCEPT ![t].phase = NoTask, ![t].retries = 0]

taskFrame == <<coordVars, shutdown, envVars>>

(* should_shutdown at the top of the loop: V1 leaves at once, V2 closes first.*)
TaskSeesShutdown(t) ==
    /\ task[t].phase = "loop" /\ shutdown[task[t].proto]
    /\ IF task[t].proto = "V1"
       THEN EndTask(t) /\ Post("V1_EXITED") /\ UNCHANGED transport
       ELSE SetTask(t, "exiting", task[t].retries) /\ transport' = "null" /\ UNCHANGED <<events, failureLost>>
    /\ UNCHANGED <<taskFrame, backlog>>

(* A V1 task waits for the ASIC, both wait for WiFi.                          *)
MayConnect(t) == /\ task[t].phase = "loop" /\ ~shutdown[task[t].proto]
                 /\ wifi /\ (task[t].proto = "V1" => asic)

TaskGivesUp(t) ==
    /\ MayConnect(t) /\ task[t].retries >= MaxRetries
    /\ SetTask(t, "failing", task[t].retries)
    /\ transport' = "null"
    /\ UNCHANGED <<taskFrame, events, backlog, failureLost>>

TaskFailed(t) ==
    /\ task[t].phase = "failing"
    /\ EndTask(t) /\ Post("FAILED")
    /\ UNCHANGED <<taskFrame, transport, backlog>>

TaskExits(t) ==
    /\ task[t].phase = "exiting"
    /\ EndTask(t) /\ Post(ExitedEvent(task[t].proto))
    /\ UNCHANGED <<taskFrame, transport, backlog>>

(* V1 looks the active pool up for every attempt, V2 once when it starts.     *)
TaskTriesToConnect(t) ==
    /\ MayConnect(t) /\ task[t].retries < MaxRetries
    /\ task' = [task EXCEPT ![t].phase = "connect",
                            ![t].pool = IF task[t].proto = "V1" THEN ActivePool ELSE @]
    /\ UNCHANGED <<taskFrame, transport, events, backlog, failureLost>>

(* Resolution, transport, connection or (SV2) handshake and channel failed.   *)
ConnectFails(t) ==
    /\ task[t].phase = "connect"
    /\ \/ ~wifi \/ pool[task[t].pool] = "down"
       \/ task[t].proto = "V2" /\ pool[task[t].pool] # "good"
    /\ SetTask(t, "loop", task[t].retries + 1)
    /\ transport' = "null"
    /\ UNCHANGED <<taskFrame, events, backlog, failureLost>>

V1Connects(t) ==
    /\ task[t].phase = "connect" /\ task[t].proto = "V1"
    /\ wifi /\ pool[task[t].pool] # "down"
    /\ SetTask(t, "setup", task[t].retries)
    /\ transport' = "open"
    /\ UNCHANGED <<taskFrame, events, backlog, failureLost>>

V2Connects(t) ==
    /\ task[t].phase = "connect" /\ task[t].proto = "V2"
    /\ wifi /\ pool[task[t].pool] = "good"
    /\ SetTask(t, "recv", 0)
    /\ transport' = "open"
    /\ Post("SUCCESS")
    /\ UNCHANGED <<taskFrame, backlog>>

(* The receive loop of V1 looks at the shutdown flag before every line.       *)
V1SeesShutdown(t) ==
    /\ task[t].phase \in {"setup", "recv"} /\ task[t].proto = "V1" /\ shutdown["V1"]
    /\ SetTask(t, "exiting", task[t].retries)
    /\ transport' = "null"
    /\ UNCHANGED <<taskFrame, events, backlog, failureLost>>

(* A line can be read while the transport is open and the pool talks.         *)
Receives(t) == /\ task[t].phase \in {"setup", "recv"} /\ transport = "open" /\ wifi
               /\ pool[task[t].pool] # "down"
               /\ task[t].proto = "V1" => ~shutdown["V1"]

RecvFails(t) ==
    /\ task[t].phase \in {"setup", "recv"}
    /\ transport # "open" \/ ~wifi \/ pool[task[t].pool] # "good"
    /\ SetTask(t, "loop", task[t].retries + 1)
    /\ transport' = "null"
    /\ UNCHANGED <<taskFrame, events, backlog, failureLost>>

(* A line arrives after power management has taken the ASIC down.             *)
V1Paused(t) ==
    /\ Receives(t) /\ task[t].proto = "V1" /\ ~asic
    /\ SetTask(t, "loop", 0)
    /\ transport' = "null"
    /\ UNCHANGED <<taskFrame, events, backlog, failureLost>>

(* STRATUM_RESULT of a setup message: the retry count is reset and success is *)
(* reported whether the pool accepted the message or not.                     *)
V1SetupResult(t) ==
    /\ Receives(t) /\ task[t].proto = "V1" /\ asic
    /\ SetTask(t, "recv", 0)
    /\ Post("SUCCESS")
    /\ UNCHANGED <<taskFrame, transport, backlog>>

(* STRATUM_RESULT_CONFIGURE, accepted: success, but the retries stay.         *)
V1ConfigureResult(t) ==
    /\ Receives(t) /\ task[t].proto = "V1" /\ asic /\ pool[task[t].pool] = "good"
    /\ Post("SUCCESS")
    /\ UNCHANGED <<taskFrame, transport, task, backlog>>

(* mining.notify, or a share result: work is queued, statistics grow.         *)
TaskGetsWork(t) ==
    /\ Receives(t) /\ task[t].phase = "recv" /\ pool[task[t].pool] = "good"
    /\ task[t].proto = "V1" => asic
    /\ backlog' = backlog \cup {task[t].pool}
    /\ UNCHANGED <<taskFrame, transport, events, task, failureLost>>

(* client.reconnect: the connection is closed, the attempts are not counted.  *)
V1Reconnects(t) ==
    /\ Receives(t) /\ task[t].proto = "V1" /\ asic
    /\ SetTask(t, "loop", task[t].retries)
    /\ transport' = "null"
    /\ UNCHANGED <<taskFrame, events, backlog, failureLost>>

TaskStep(t) == \/ TaskSeesShutdown(t) \/ TaskGivesUp(t) \/ TaskFailed(t) \/ TaskExits(t)
               \/ TaskTriesToConnect(t) \/ ConnectFails(t) \/ V1Connects(t) \/ V2Connects(t)
               \/ V1SeesShutdown(t) \/ RecvFails(t) \/ V1Paused(t) \/ V1SetupResult(t)
-----------------------------------------------------------------------------
(* The environment: the WiFi link, the ASIC (power management), the pools.    *)
envFrame == <<coordVars, shutdown, transport, events, task, backlog, failureLost>>
WifiChanges == "wifi" \in EnvChanges /\ wifi' = ~wifi /\ UNCHANGED <<envFrame, settings, asic, pool>>
AsicChanges == "asic" \in EnvChanges /\ asic' = ~asic /\ UNCHANGED <<envFrame, settings, wifi, pool>>
PoolChanges(p) == /\ \E h \in PoolHealth \ {pool[p]} : pool' = [pool EXCEPT ![p] = h]
                  /\ UNCHANGED <<envFrame, settings, wifi, asic>>
Environment == WifiChanges \/ AsicChanges \/ \E p \in Pools : PoolChanges(p)

CoordStep == \/ CoordStart \/ HandleEvent \/ WaitTimesOut \/ RecoveryProbe \/ HeartbeatProbe
             \/ StopReceives \/ StopPollsInVain \/ StopGivesUp

Next == \/ CoordStep \/ Environment
        \/ \E t \in Tasks : TaskStep(t) \/ V1ConfigureResult(t) \/ TaskGetsWork(t) \/ V1Reconnects(t)

Spec == Init /\ [][Next]_vars

(* Every FreeRTOS task is scheduled, its waits and connection attempts have   *)
(* timeouts; a pool that keeps a connection open answers the setup messages.  *)
FairSpec == /\ Spec /\ WF_vars(CoordStep)
            /\ \A t \in Tasks : WF_vars(TaskStep(t)) /\ SF_vars(V1SetupResult(t))
-----------------------------------------------------------------------------
(* While a stopped task exits in time there is never more than one Stratum    *)
(* task alive: the two share GlobalState.transport, the queue's free function *)
(* and the work statistics.                                                   *)
OneTask == Cardinality(Live) <= 1

(* The comment on COORD_STATE_PAUSED: no Stratum task is running, and         *)
(* pools_unavailable tells power management to cut the ASIC's power.          *)
PausedMeansIdle == state = "PAUSED" => poolsUnavailable /\ Live = {} /\ ~heartbeat

(* Switching pools takes everything along: after it no task works for the     *)
(* other pool, and no job or share of the other pool is left.                 *)
NoForeignWork ==
    pc # "boot" /\ state # "PAUSED" =>
        /\ \A t \in Live : task[t].pool = ActivePool
        /\ backlog \subseteq {ActivePool}

(* Mining comes back: once WiFi and the ASIC stay up and the primary pool     *)
(* stays good (the fallback may come and go), or the primary stays down and   *)
(* the fallback good, some task receives from a good pool again and again,    *)
(* whatever failed before, provided no FAILED was lost to a full event queue. *)
Mining == \E t \in Live : task[t].phase = "recv" /\ pool[task[t].pool] = "good"
PrimaryStaysGood == <>[](wifi /\ asic /\ pool["primary"] = "good" /\ pool["fallback"] # "rejecting")
OnlyFallbackGood == <>[](wifi /\ asic /\ pool["primary"] = "down" /\ pool["fallback"] = "good")
MiningComesBack ==
    [](~failureLost) /\ (PrimaryStaysGood \/ (HasFallback /\ OnlyFallbackGood)) => []<>Mining
=============================================================================
