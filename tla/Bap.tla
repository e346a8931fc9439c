--------------------------------- MODULE Bap ---------------------------------
(***************************************************************************)
(* main/bap: the accessory protocol.  The receive task handles the         *)
(* commands (BapLine has how it cuts them out of the bytes on the serial   *)
(* line); the update task looks through the subscriptions once a second    *)
(* and queues what has changed; the send task writes the queue to the      *)
(* line.  Handlers and update task share the subscriptions under a mutex   *)
(* which each waits for no longer than 100 ms.                             *)
(*                                                                         *)
(* A value is a version number, a time a tick on a clock of ClockSize      *)
(* ticks (uint32_t milliseconds in the code).                              *)
(***************************************************************************)
EXTENDS Integers, Sequences

CONSTANTS
    NumTopics,    \* parameters that can be subscribed to
    Expiry,       \* SUBSCRIPTION_TIMEOUT_MS
    ClockSize,    \* 2^32
    SendQueue,    \* the length of bap_uart_send_queue
    MaxTicks,     \* bound: time
    MaxValue,     \* bound: changes of a value
    MaxCommands   \* bound: commands that change something

Topics == 1 .. NumTopics
NoValue == -1

VARIABLES
    bapTime,      \* esp_timer_get_time, in ticks
    online,       \* SYSTEM_MODULE.is_connected
    wasOnline,    \* was_connected of mode_management_task
    updater,      \* the update task: not started, or where it is in its loop
    subs,         \* subscriptions
    lastSent,     \* last_values, NoValue where not valid
    current,      \* what the system would report
    sendQueue,    \* bap_uart_send_queue
    restart,      \* a handler has called esp_restart
    \* history
    commands,     \* for the bound
    shown,        \* what the accessory shows
    lostSince,    \* topics of which a message was lost since they were subscribed
    early         \* a subscription expired before its time

bapVars == <<bapTime, online, wasOnline, updater, subs, lastSent, current, sendQueue,
             restart, commands, shown, lostSince, early>>
worldVars == <<bapTime, online, current>>

Off == [active |-> FALSE, since |-> 0, last |-> 0, interval |-> 1]
Asleep == [at |-> "sleep", time |-> 0, topic |-> 0]

\* The queue holds no more than it was made for, and before the update task
\* runs, with the first network, nothing has been sent.
BapTypeOK ==
    /\ updater.at \in {"off", "sleep", "read", "loop"} /\ updater.topic \in 0 .. NumTopics
    /\ lastSent \in [Topics -> NoValue .. MaxValue] /\ shown \in [Topics -> NoValue .. MaxValue]
    /\ Len(sendQueue) <= SendQueue
    /\ updater.at = "off" => ~wasOnline /\ sendQueue = <<>>

\* BAP_init
BapInit ==
    /\ bapTime = 0 /\ online \in BOOLEAN /\ wasOnline = FALSE
    /\ updater = [Asleep EXCEPT !.at = "off"]
    /\ subs = [t \in Topics |-> Off] /\ lastSent = [t \in Topics |-> NoValue]
    /\ current = [t \in Topics |-> 0] /\ sendQueue = <<>>
    /\ restart = FALSE /\ commands = 0 /\ shown = [t \in Topics |-> NoValue]
    /\ lostSince = {} /\ early = FALSE

-----------------------------------------------------------------------------
(* The surroundings *)

Tick ==
    /\ bapTime < MaxTicks /\ bapTime' = bapTime + 1
    /\ UNCHANGED <<online, wasOnline, updater, subs, lastSent, current, sendQueue, commands,
                   restart, shown, lostSince, early>>

Changes ==
    /\ \/ \E t \in Topics : /\ current[t] < MaxValue /\ UNCHANGED online
                            /\ current' = [current EXCEPT ![t] = @ + 1]
       \/ online' = ~online /\ UNCHANGED current
    /\ UNCHANGED <<bapTime, wasOnline, updater, subs, lastSent, sendQueue, commands, restart,
                   shown, lostSince, early>>

\* mode_management_task starts the update task when the network is there for the
\* first time; without it the accessory is told again and again.
ManageMode ==
    /\ ~restart /\ online # wasOnline /\ wasOnline' = online
    /\ updater' = IF online /\ updater.at = "off" THEN Asleep ELSE updater
    /\ UNCHANGED <<worldVars, subs, lastSent, sendQueue, commands, restart, shown, lostSince,
                   early>>

-----------------------------------------------------------------------------
(* The update task *)

\* BAP_send_subscription_update reads the time before it asks for the mutex.
ReadTime ==
    /\ ~restart /\ updater.at = "sleep"
    /\ updater' = [at |-> "read", time |-> bapTime, topic |-> 0]
    /\ UNCHANGED <<worldVars, wasOnline, subs, lastSent, sendQueue, commands, restart, shown,
                   lostSince, early>>

TakeMutex ==
    /\ ~restart /\ updater.at = "read" /\ updater' = [updater EXCEPT !.at = "loop", !.topic = 1]
    /\ UNCHANGED <<worldVars, wasOnline, subs, lastSent, sendQueue, commands, restart, shown,
                   lostSince, early>>

\* uint32_t subtraction
Since(then) == (updater.time - then) % ClockSize

\* BAP_send_message_with_queue: a queue that stays full loses the message.
Queue(m) ==
    IF Len(sendQueue) < SendQueue
    THEN sendQueue' = Append(sendQueue, m) /\ UNCHANGED lostSince
    ELSE lostSince' = lostSince \cup {m.topic} /\ UNCHANGED sendQueue

\* Mutant: only the first value of a topic is sent.
Mut_SendIfChanged(t) ==
    /\ lastSent' = [lastSent EXCEPT ![t] = current[t]]
    /\ IF lastSent[t] # NoValue THEN UNCHANGED <<sendQueue, lostSince>>
       ELSE Queue([topic |-> t, value |-> current[t]])

\* BAP_send_if_changed remembers the value as sent before it is queued.
SendIfChanged(t) ==
    /\ lastSent' = [lastSent EXCEPT ![t] = current[t]]
    /\ IF lastSent[t] = current[t] THEN UNCHANGED <<sendQueue, lostSince>>
       ELSE Queue([topic |-> t, value |-> current[t]])

\* One turn of the loop: the subscription expires, is served, or waits.
UpdateTopic ==
    /\ ~restart /\ updater.at = "loop"
    /\ LET t == updater.topic
           expired == subs[t].active /\ Since(subs[t].since) > Expiry
           due == subs[t].active /\ ~expired /\ Since(subs[t].last) >= subs[t].interval
       IN  /\ updater' = IF t = NumTopics THEN Asleep ELSE [updater EXCEPT !.topic = t + 1]
           /\ \/ /\ expired /\ subs' = [subs EXCEPT ![t].active = FALSE]
                 /\ Queue([topic |-> t, value |-> NoValue])
                 /\ early' = (early \/ bapTime - subs[t].since <= Expiry)
                 /\ UNCHANGED lastSent
              \/ /\ due /\ subs' = [subs EXCEPT ![t].last = updater.time]
                 /\ SendIfChanged(t) /\ UNCHANGED early
              \/ /\ ~expired /\ ~due
                 /\ UNCHANGED <<subs, lastSent, sendQueue, lostSince, early>>
    /\ UNCHANGED <<worldVars, wasOnline, commands, restart, shown>>

\* uart_send_task writes the message or, when the line is busy, drops it.
SendTask ==
    /\ ~restart /\ sendQueue # <<>> /\ sendQueue' = Tail(sendQueue)
    /\ LET m == Head(sendQueue)
       IN  \/ /\ shown' = [shown EXCEPT ![m.topic] = IF m.value = NoValue THEN @ ELSE m.value]
              /\ UNCHANGED lostSince
           \/ lostSince' = lostSince \cup {m.topic} /\ UNCHANGED shown
    /\ UNCHANGED <<worldVars, wasOnline, updater, subs, lastSent, commands, restart, early>>

-----------------------------------------------------------------------------
(* Commands *)

\* BAP_parse_message: a wrong checksum is forgiven a SUB, a missing one a SUB or
\* an UNSUB.
Accepts(cmd, checksum) ==
    \/ checksum = "good"
    \/ checksum = "bad" /\ cmd = "SUB"
    \/ checksum = "none" /\ cmd \in {"SUB", "UNSUB"}

\* The mutex is not to be had while the update task is in its loop.
MutexFree == updater.at # "loop"

\* BAP_handle_subscription: refused without a network, lost without the mutex;
\* otherwise the topic starts afresh and its next value will be sent.
Subscribe(t, interval) ==
    IF online /\ MutexFree
    THEN /\ subs' = [subs EXCEPT ![t] = [active |-> TRUE, since |-> bapTime, last |-> 0,
                                         interval |-> interval]]
         /\ lastSent' = [lastSent EXCEPT ![t] = NoValue]
         /\ lostSince' = lostSince \ {t}
    ELSE UNCHANGED <<subs, lastSent, lostSince>>

Unsubscribe(t) ==
    /\ subs' = IF MutexFree THEN [subs EXCEPT ![t].active = FALSE] ELSE subs
    /\ UNCHANGED <<lastSent, lostSince>>

\* BAP_handle_settings: without a network only the credentials may be set; a
\* value out of range or unknown is refused; new credentials restart the device,
\* an SSID only if there is a password.
SettingOutcome(setting, connected, inRange, isNew, hasPassword) ==
    CASE ~connected /\ setting \notin {"ssid", "password"} -> "refused"
      [] setting \in {"frequency", "asic_voltage", "fan_speed", "auto_fan"} /\ ~inRange -> "refused"
      [] setting \in {"ssid", "password"} /\ ~isNew -> "kept"
      [] setting = "ssid" /\ ~hasPassword -> "stored"
      [] setting \in {"ssid", "password"} -> "restart"
      [] setting = "other" -> "refused"
      [] OTHER -> "stored"

Settings == {"frequency", "asic_voltage", "fan_speed", "auto_fan", "ssid", "password",
             "found_block", "show_new_block", "other"}

HandleFrame == UNCHANGED <<worldVars, wasOnline, updater, sendQueue, shown, early>>
Given(cmd) ==
    /\ ~restart /\ commands < MaxCommands /\ commands' = commands + 1
    /\ \E checksum \in {"good", "bad", "none"} : Accepts(cmd, checksum)

HandleSub ==
    /\ Given("SUB") /\ \E t \in Topics, i \in {1, 2} : Subscribe(t, i)
    /\ HandleFrame /\ UNCHANGED restart

HandleUnsub ==
    /\ Given("UNSUB") /\ \E t \in Topics : Unsubscribe(t)
    /\ HandleFrame /\ UNCHANGED restart

\* REQ and CMD only answer.
HandleSet ==
    /\ Given("SET")
    /\ \E s \in Settings, inRange, isNew, hasPassword \in BOOLEAN :
          restart' = (SettingOutcome(s, online, inRange, isNew, hasPassword) = "restart")
    /\ HandleFrame /\ UNCHANGED <<subs, lastSent, lostSince>>

\* The device restarts and runs BAP_init; the accessory keeps its display.
Restarts ==
    /\ restart /\ restart' = FALSE /\ online' = FALSE /\ wasOnline' = FALSE
    /\ updater' = [Asleep EXCEPT !.at = "off"] /\ sendQueue' = <<>>
    /\ subs' = [t \in Topics |-> Off] /\ lastSent' = [t \in Topics |-> NoValue]
    /\ UNCHANGED <<bapTime, current, commands, shown, lostSince, early>>

-----------------------------------------------------------------------------
BapNext == \/ Tick \/ Changes \/ ManageMode \/ ReadTime \/ TakeMutex \/ UpdateTopic
           \/ SendTask \/ HandleSub \/ HandleUnsub \/ HandleSet \/ Restarts

BapSpec == BapInit /\ [][BapNext]_bapVars

-----------------------------------------------------------------------------
(* Properties *)

\* What the device believes the accessory shows is what it shows, once the
\* queue has been sent: for every topic of which no message was lost since it
\* was subscribed.  A subscription renewed after a loss makes up for it.
AccessoryCurrent ==
    \A t \in Topics :
        \/ t \in lostSince \/ lastSent[t] = NoValue \/ shown[t] = lastSent[t]
        \/ \E i \in DOMAIN sendQueue : sendQueue[i] = [topic |-> t, value |-> lastSent[t]]

\* "Check for subscription timeout (5 minutes without refresh)": a subscription
\* that expires has not been renewed for that time.
ExpiresInTime == ~early
=============================================================================
