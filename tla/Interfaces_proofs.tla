-------------------------- MODULE Interfaces_proofs --------------------------
(***************************************************************************)
(* Proofs about the parts that face the broker, the accessory, the user    *)
(* and the network: Mqtt, BapLine, Bap, Screen and Wifi.  They share no    *)
(* state.  What a proof needs of the constants is a hypothesis of its      *)
(* theorem.                                                                *)
(***************************************************************************)
EXTENDS Mqtt, Bap, BapLine, Screen, Wifi, TLAPS, SequenceTheorems

-----------------------------------------------------------------------------
(* Mqtt.  ClientOwned and its converse for a client that is being stopped:    *)
(* only inside mqtt_client_stop does the client stop.                         *)

MqttInv ==
    /\ mqttStep \in {"loop", "publish", "stopping", "probe"}
    /\ client \in {"none", "running", "stopping"}
    /\ publishing \in BOOLEAN /\ cert \in BOOLEAN /\ connected \in BOOLEAN
    /\ client = "stopping" <=> mqttStep = "stopping"
    /\ ClientOwned

LEMMA InitMqtt == MqttInit => MqttInv
  BY DEF MqttInit, MqttInv, ClientOwned

LEMMA NextMqtt ==
    ASSUME MqttInv, [MqttNext]_mqttVars
    PROVE  MqttInv'
  <1> USE DEF MqttInv, ClientOwned
  <1>1. CASE Disabled
    BY <1>1 DEF Disabled
  <1>2. CASE ClientStart
    <2>1. client = "none" /\ ~cert /\ ~connected /\ mqttStep = "loop" /\ ~publishing
      BY <1>2 DEF ClientStart
    <2>2. CASE client' = "running" /\ cert' = TRUE /\ publishing' = TRUE /\ mqttStep' = "publish"
      BY <1>2, <2>1, <2>2 DEF ClientStart
    <2>3. CASE client' = "none" /\ cert' = FALSE /\ UNCHANGED <<publishing, mqttStep>>
      BY <1>2, <2>1, <2>3 DEF ClientStart
    <2> QED
      BY <1>2, <2>2, <2>3 DEF ClientStart
  <1>3. CASE Continue
    BY <1>3 DEF Continue
  <1>4. CASE GiveUp
    BY <1>4 DEF GiveUp
  <1>5. CASE Publish
    BY <1>5 DEF Publish
  <1>6. CASE ClientStopped
    BY <1>6 DEF ClientStopped
  <1>7. CASE Probe
    BY <1>7 DEF Probe
  <1>8. CASE EventConnected
    BY <1>8 DEF EventConnected
  <1>9. CASE EventDisconnected
    BY <1>9 DEF EventDisconnected
  <1>10. CASE Edit
    BY <1>10 DEF Edit
  <1>11. CASE NetworkChange
    BY <1>11 DEF NetworkChange
  <1>12. CASE UNCHANGED mqttVars
    BY <1>12 DEF mqttVars
  <1> QED
    BY <1>1, <1>2, <1>3, <1>4, <1>5, <1>6, <1>7, <1>8, <1>9, <1>10, <1>11, <1>12
       DEF MqttNext, MqttTask

(* mqtt_task.c, however long it runs and however often the broker, the        *)
(* network and the settings change: certificate, flag and client live and die *)
(* together, and nothing is published through a client that is being stopped. *)
THEOREM ClientIsOwned == MqttSpec => []ClientOwned
  <1>1. MqttInv => ClientOwned
    BY DEF MqttInv
  <1> QED
    BY <1>1, InitMqtt, NextMqtt, PTL DEF MqttSpec

-----------------------------------------------------------------------------
(* BapLine.  LineFits is inductive once the message is known to be a sequence. *)

LineInv ==
    /\ message \in Seq(Bytes) /\ inMessage \in BOOLEAN /\ topByte \in Nat
    /\ LineFits

LEMMA NextLine ==
    ASSUME MaxMessage \in Nat \ {0}, LineInv, [LineNext]_lineVars
    PROVE  LineInv'
  <1> USE DEF LineInv, LineFits
  <1>1. CASE UNCHANGED lineVars
    BY <1>1 DEF lineVars
  <1>2. CASE BeginMessage
    <2>1. <<"$">> \in Seq(Bytes) /\ Len(<<"$">>) = 1 /\ <<"$">>[1] = "$"
      BY DEF Bytes
    <2> QED
      BY <1>2, <2>1 DEF BeginMessage
  <1>3. ASSUME NEW c \in Bytes
        PROVE  /\ Append(message, c) \in Seq(Bytes)
               /\ Len(Append(message, c)) = Len(message) + 1 /\ Len(message) \in Nat
               /\ message # <<>> => Append(message, c) # <<>> /\ Append(message, c)[1] = message[1]
    <2>1. message # <<>> => Len(message) >= 1
      BY EmptySeq
    <2> QED
      BY <2>1, AppendProperties
  <1>4. ASSUME NEW c \in Bytes, inMessage, EndLine(c)
        PROVE  LineInv'
    <2>1. CASE /\ Len(message) \in 2 .. MaxMessage - 1 /\ message' = Append(message, c)
               /\ inMessage' = (c = "CR")
               /\ topByte' = IF Len(message) + 1 > topByte THEN Len(message) + 1 ELSE topByte
      BY <1>3, <1>4, <2>1
    <2>2. CASE UNCHANGED <<message, topByte>> /\ inMessage' \in {FALSE, inMessage}
      BY <1>4, <2>2
    <2> QED
      BY <1>4, <2>1, <2>2 DEF EndLine
  <1>5. ASSUME NEW c \in Bytes, inMessage, AddByte(c)
        PROVE  LineInv'
    BY <1>3, <1>5 DEF AddByte
  <1>6. CASE SkipByte
    BY <1>6 DEF SkipByte
  <1> QED
    BY <1>1, <1>2, <1>4, <1>5, <1>6 DEF LineNext

(* uart_receive_task, for every buffer size and whatever bytes come: nothing   *)
(* is written past the array, the closing zero included.                       *)
THEOREM LinesFit ==
    ASSUME MaxMessage \in Nat \ {0}
    PROVE  LineSpec => []LineFits
  <1>1. LineInit => LineInv
    <2> SUFFICES ASSUME LineInit PROVE LineInv
      OBVIOUS
    <2>1. message = <<>> /\ topByte = 0 /\ inMessage = FALSE
      BY DEF LineInit
    <2>2. message \in Seq(Bytes) /\ Len(message) = 0 /\ 0 <= MaxMessage
      BY <2>1
    <2> QED
      BY <2>1, <2>2 DEF LineInv, LineFits
  <1>2. LineInv /\ [LineNext]_lineVars => LineInv'
    BY NextLine
  <1>3. LineInv => LineFits
    BY DEF LineInv
  <1> QED
    BY <1>1, <1>2, <1>3, PTL DEF LineSpec

-----------------------------------------------------------------------------
(* Screen.  Three parts: a screen that was deleted is a logo, the screen shown *)
(* exists, and one callback after the last change an alarm has its screen,     *)
(* which is covered only while the device identifies itself.                   *)

LEMMA ScreenNumbers ==
    /\ Number("overheat") = 2 /\ Number("asic") = 3 /\ Number("firmware") = 5
    /\ Number("bitaxe") = 7 /\ Number("osmu") = 8 /\ Number("urls") = 9
    /\ DOMAIN Names = 1 .. 12
    /\ Names[2] = "overheat" /\ Names[3] = "asic" /\ Names[5] = "firmware"
  <1>1. DOMAIN Names = 1 .. 12
    BY DEF Names
  <1>2. \A i \in 1 .. 12 : /\ Names[i] = "overheat" <=> i = 2
                           /\ Names[i] = "asic" <=> i = 3
                           /\ Names[i] = "firmware" <=> i = 5
                           /\ Names[i] = "bitaxe" <=> i = 7
                           /\ Names[i] = "osmu" <=> i = 8
                           /\ Names[i] = "urls" <=> i = 9
    BY DEF Names
  <1> QED
    BY <1>1, <1>2 DEF Number

Alarms == {"firmware", "asic", "overheat"}

ScreenInv ==
    /\ alive \subseteq 1 .. 12 /\ (1 .. 12) \ Logos \subseteq alive
    /\ onScreen \in alive \cup {0}
    /\ timeout \in Int /\ settled \in 0 .. 2
    /\ settled >= 1 /\ Urgent \in Alarms => onScreen = Number(Urgent)
    /\ settled = 2 /\ Urgent \in Alarms => lit
    /\ settled >= 1 /\ Urgent \in Alarms /\ covered => identify > 0

LEMMA ShowKeeps ==
    ASSUME ScreenInv, NEW s, NEW trigger, ScreenShow(s, trigger)
    PROVE  /\ alive' \subseteq 1 .. 12 /\ (1 .. 12) \ Logos \subseteq alive'
           /\ onScreen' \in alive' \cup {0}
           /\ s \in alive => onScreen' = s
  BY DEF ScreenInv, ScreenShow, IsValid

(* Which alarm is urgent depends on four of the conditions. *)
LEMMA UrgentIs ==
    /\ Urgent \in Alarms <=> "selftest" \notin cond /\ Alarms \cap cond # {}
    /\ Urgent \in Alarms =>
          Urgent = IF "firmware" \in cond THEN "firmware"
                   ELSE IF "asic" \in cond THEN "asic" ELSE "overheat"
  BY DEF Urgent, Alarms

LEMMA AlarmScreens ==
    ASSUME NEW a \in Alarms
    PROVE  Number(a) \in 1 .. 5 /\ Number(a) \notin Logos /\ Names[Number(a)] = a
  BY ScreenNumbers DEF Alarms, Logos

LEMMA UpdateScreen ==
    ASSUME ScreenInv, Update
    PROVE  ScreenInv'
  <1>1. /\ timeout' = timeout
        /\ \/ lit' = Enabled(identify' > 0) /\ settled' = (IF settled + 1 > 2 THEN 2 ELSE settled + 1)
           \/ settled' = 0
    BY DEF Update, Capped
  <1>2. /\ settled' \in 0 .. 2 /\ timeout' \in Int
        /\ settled' = 2 => settled >= 1 /\ lit' = Enabled(identify' > 0)
    BY <1>1 DEF ScreenInv
  <1>3. cond' \in {cond, cond \ {"changed"}} /\ (Urgent \in Alarms => cond' = cond)
    BY DEF Update, Alarms
  <1>4. Urgent' \in Alarms <=> Urgent \in Alarms
    <2>1. "selftest" \in cond' <=> "selftest" \in cond
      BY <1>3
    <2>2. Alarms \cap cond' = Alarms \cap cond
      BY <1>3 DEF Alarms
    <2>3. Urgent' \in Alarms <=> "selftest" \notin cond' /\ Alarms \cap cond' # {}
      BY DEF Urgent, Alarms
    <2> QED
      BY <2>1, <2>2, <2>3, UrgentIs
  <1>5. Urgent \in Alarms => Urgent' = Urgent
    BY <1>3 DEF Urgent
  <1>6. \/ \E s, trigger : ScreenShow(s, trigger)
        \/ UNCHANGED <<onScreen, alive>>
    BY DEF Update, Show, ScreenNext
  <1>7. /\ alive' \subseteq 1 .. 12 /\ (1 .. 12) \ Logos \subseteq alive'
        /\ onScreen' \in alive' \cup {0}
    BY <1>6, ShowKeeps DEF ScreenInv
  <1>8. ASSUME Urgent \in Alarms
        PROVE  onScreen' = Number(Urgent)
    <2>1. Urgent # "carousel"
      BY <1>8 DEF Alarms
    <2>2. ScreenShow(Number(Urgent), Number(Urgent) < CarouselStart)
      BY <2>1 DEF Update, Show
    <2>3. Number(Urgent) \in alive
      BY <1>8, AlarmScreens DEF ScreenInv
    <2> QED
      BY <2>2, <2>3, ShowKeeps
  <1>9. ASSUME Urgent \in Alarms, settled' = 2
        PROVE  lit'
    <2>1. onScreen = Number(Urgent)
      BY <1>2, <1>9 DEF ScreenInv
    <2>2. onScreen \in 1 .. CarouselStart - 1
      BY <1>9, <2>1, AlarmScreens, ScreenNumbers DEF CarouselStart
    <2>3. timeout < 0 \/ timeout = 0 \/ timeout > 0
      BY DEF ScreenInv
    <2>4. Enabled(identify' > 0)
      BY <2>2, <2>3 DEF Enabled
    <2>5. lit' = Enabled(identify' > 0)
      BY <1>2, <1>9
    <2> QED
      BY <2>4, <2>5
  <1>10. ASSUME Urgent \in Alarms, covered'
         PROVE  identify' > 0
    <2>1. Urgent # "selftest"
      BY <1>10 DEF Alarms
    <2>2. covered' = (identify' > 0)
      BY <2>1 DEF Update
    <2> QED
      BY <1>10, <2>2
  <1> QED
    BY <1>2, <1>4, <1>5, <1>7, <1>8, <1>9, <1>10 DEF ScreenInv

LEMMA NextScreen ==
    ASSUME ScreenInv, [ScreenStep]_screenVars
    PROVE  ScreenInv'
  <1>1. CASE Update
    BY <1>1, UpdateScreen
  <1>2. CASE UNCHANGED <<onScreen, alive, timeout, lit, covered, identify, cond, settled>>
    <2>1. Urgent' = Urgent
      BY <1>2 DEF Urgent
    <2> QED
      BY <1>2, <2>1 DEF ScreenInv
  <1>3. CASE ReadIdentify \/ UNCHANGED screenVars
    BY <1>2, <1>3 DEF ReadIdentify, screenVars
  <1>4. CASE ButtonPress
    <2>1. settled' = 0 /\ timeout' = timeout
      BY <1>4 DEF ButtonPress
    <2>2. \/ \E s, trigger : ScreenShow(s, trigger)
          \/ UNCHANGED <<onScreen, alive>>
      BY <1>4 DEF ButtonPress
    <2>3. /\ alive' \subseteq 1 .. 12 /\ (1 .. 12) \ Logos \subseteq alive'
          /\ onScreen' \in alive' \cup {0}
      BY <2>2, ShowKeeps DEF ScreenInv
    <2> QED
      BY <2>1, <2>3 DEF ScreenInv
  <1>5. CASE Change \/ PostIdentify
    <2>1. UNCHANGED <<onScreen, alive, timeout>> /\ settled' = 0
      BY <1>5 DEF Change, PostIdentify
    <2> QED
      BY <2>1 DEF ScreenInv
  <1> QED
    BY <1>1, <1>3, <1>4, <1>5 DEF ScreenStep

(* screen.c, for every delay, wake time and set of display timeouts: no        *)
(* deleted screen is shown, and two callbacks after the last change an alarm   *)
(* is on a panel that is lit, and covered only while the device identifies     *)
(* itself.                                                                     *)
THEOREM AlarmIsShown ==
    ASSUME Timeouts \subseteq Int
    PROVE  ScreenSpec => []AlarmOnDisplay
  <1>1. ScreenInit => ScreenInv
    <2> SUFFICES ASSUME ScreenInit PROVE ScreenInv
      OBVIOUS
    <2>1. /\ onScreen = 0 /\ alive = 1 .. 12 /\ timeout \in Int /\ settled = 0
      BY ScreenNumbers DEF ScreenInit
    <2> QED
      BY <2>1 DEF ScreenInv
  <1>2. ScreenInv /\ [ScreenStep]_screenVars => ScreenInv'
    BY NextScreen
  <1>3. ScreenInv => AlarmOnDisplay
    BY AlarmScreens DEF ScreenInv, AlarmOnDisplay, Alarms
  <1> QED
    BY <1>1, <1>2, <1>3, PTL DEF ScreenSpec

-----------------------------------------------------------------------------
(* Bap.  AccessoryCurrent is not inductive: an older value of the topic may be *)
(* waiting in front of what the accessory already shows.  Believed says where  *)
(* the value that counts as sent is: the newest value queued for the topic,    *)
(* or, with none queued, the one shown.                                        *)

Messages == [topic : Topics, value : Int]

\* No value for topic t waits in the queue q at the positions of S.
NoneAt(q, t, S) == \A j \in S : q[j].topic = t => q[j].value = NoValue

Believed(t, v, q, sh) ==
    \/ sh = v /\ NoneAt(q, t, 1 .. Len(q))
    \/ \E i \in 1 .. Len(q) : /\ q[i] = [topic |-> t, value |-> v]
                              /\ NoneAt(q, t, i + 1 .. Len(q))

BapTypes ==
    /\ sendQueue \in Seq(Messages) /\ bapTime \in Nat
    /\ current \in [Topics -> Nat] /\ lastSent \in [Topics -> Int] /\ shown \in [Topics -> Int]
    /\ updater \in [at : {"off", "sleep", "read", "loop"}, time : Nat, topic : 0 .. NumTopics]
    /\ updater.at = "loop" => updater.topic \in Topics

AllBelieved ==
    \A t \in Topics : \/ t \in lostSince \/ lastSent[t] = NoValue
                      \/ Believed(t, lastSent[t], sendQueue, shown[t])

BapInv == BapTypes /\ AllBelieved

LEMMA BelievedAppend ==
    ASSUME NEW q \in Seq(Messages), NEW m \in Messages, NEW t \in Topics, NEW v \in Int, NEW sh
    PROVE  /\ Append(q, m) \in Seq(Messages)
           /\ m = [topic |-> t, value |-> v] => Believed(t, v, Append(q, m), sh)
           /\ Believed(t, v, q, sh) /\ (m.topic # t \/ m.value = NoValue)
                => Believed(t, v, Append(q, m), sh)
  <1> DEFINE r == Append(q, m)
  <1>1. /\ r \in Seq(Messages) /\ Len(r) = Len(q) + 1 /\ Len(q) \in Nat /\ r[Len(q) + 1] = m
        /\ \A j \in 1 .. Len(q) : r[j] = q[j]
    BY AppendProperties
  <1> HIDE DEF r
  <1>2. m = [topic |-> t, value |-> v] => Believed(t, v, r, sh)
    <2>1. NoneAt(r, t, Len(q) + 2 .. Len(r)) /\ Len(q) + 1 \in 1 .. Len(r)
          /\ Len(q) + 2 = (Len(q) + 1) + 1
      BY <1>1 DEF NoneAt
    <2> QED
      BY <1>1, <2>1 DEF Believed
  <1>3. ASSUME m.topic # t \/ m.value = NoValue, NEW i \in 0 .. Len(q),
               NoneAt(q, t, i + 1 .. Len(q))
        PROVE  NoneAt(r, t, i + 1 .. Len(r))
    <2> SUFFICES ASSUME NEW j \in i + 1 .. Len(r), r[j].topic = t
                 PROVE  r[j].value = NoValue
      BY DEF NoneAt
    <2>1. CASE j = Len(q) + 1
      BY <1>1, <1>3, <2>1
    <2>2. CASE j # Len(q) + 1
      <3>1. j \in i + 1 .. Len(q) /\ j \in 1 .. Len(q)
        BY <1>1, <2>2
      <3> QED
        BY <1>1, <1>3, <3>1 DEF NoneAt
    <2> QED
      BY <2>1, <2>2
  <1>4. ASSUME Believed(t, v, q, sh), m.topic # t \/ m.value = NoValue
        PROVE  Believed(t, v, r, sh)
    <2>1. CASE sh = v /\ NoneAt(q, t, 1 .. Len(q))
      <3>1. NoneAt(r, t, 1 .. Len(r))
        BY <1>1, <1>3, <1>4, <2>1, 0 \in 0 .. Len(q), 0 + 1 = 1
      <3> QED
        BY <2>1, <3>1 DEF Believed
    <2>2. ASSUME NEW i \in 1 .. Len(q), q[i] = [topic |-> t, value |-> v],
                 NoneAt(q, t, i + 1 .. Len(q))
          PROVE  Believed(t, v, r, sh)
      <3>1. i \in 0 .. Len(q) /\ i \in 1 .. Len(r) /\ r[i] = q[i]
        BY <1>1
      <3>2. NoneAt(r, t, i + 1 .. Len(r))
        BY <1>3, <1>4, <2>2, <3>1
      <3> QED
        BY <2>2, <3>1, <3>2 DEF Believed
    <2> QED
      BY <1>4, <2>1, <2>2 DEF Believed
  <1> QED
    BY <1>1, <1>2, <1>4 DEF r

(* The head is written to the line: what the accessory shows catches up. *)
LEMMA BelievedTail ==
    ASSUME NEW q \in Seq(Messages), q # <<>>, NEW t \in Topics, NEW v \in Int, NEW sh,
           Believed(t, v, q, sh), NEW new,
           Head(q).topic = t /\ Head(q).value # NoValue => new = Head(q).value,
           Head(q).topic # t \/ Head(q).value = NoValue => new = sh
    PROVE  /\ Tail(q) \in Seq(Messages) /\ Head(q) \in Messages
           /\ v # NoValue => Believed(t, v, Tail(q), new)
  <1> DEFINE r == Tail(q)
  <1>1. /\ r \in Seq(Messages) /\ Len(q) \in Nat \ {0} /\ Len(r) = Len(q) - 1
        /\ Head(q) = q[1] /\ q[1] \in Messages
        /\ \A j \in 1 .. Len(q) - 1 : r[j] = q[j + 1]
    <2>1. Len(q) \in Nat \ {0}
      BY EmptySeq
    <2> QED
      BY <2>1, HeadTailProperties, ElementOfSeq
  <1> HIDE DEF r
  <1>2. ASSUME NEW i \in 1 .. Len(q), NoneAt(q, t, i + 1 .. Len(q))
        PROVE  NoneAt(r, t, i .. Len(r))
    <2> SUFFICES ASSUME NEW j \in i .. Len(r), r[j].topic = t
                 PROVE  r[j].value = NoValue
      BY DEF NoneAt
    <2>1. j \in 1 .. Len(q) - 1 /\ j + 1 \in i + 1 .. Len(q)
      BY <1>1
    <2> QED
      BY <1>1, <1>2, <2>1 DEF NoneAt
  <1>3. ASSUME v # NoValue
        PROVE  Believed(t, v, r, new)
    <2>1. CASE sh = v /\ NoneAt(q, t, 1 .. Len(q))
      <3>1. NoneAt(q, t, 1 + 1 .. Len(q)) /\ 1 \in 1 .. Len(q)
        BY <1>1, <2>1 DEF NoneAt
      <3>2. new = sh
        BY <1>1, <2>1, <3>1 DEF NoneAt
      <3> QED
        BY <1>2, <2>1, <3>1, <3>2 DEF Believed
    <2>2. ASSUME NEW i \in 1 .. Len(q), q[i] = [topic |-> t, value |-> v],
                 NoneAt(q, t, i + 1 .. Len(q))
          PROVE  Believed(t, v, r, new)
      <3>1. CASE i = 1
        <4>1. new = v
          BY <1>1, <1>3, <2>2, <3>1
        <4> QED
          BY <1>2, <2>2, <3>1, <4>1 DEF Believed
      <3>2. CASE i # 1
        <4>1. i - 1 \in 1 .. Len(r) /\ r[i - 1] = q[i] /\ (i - 1) + 1 = i
          BY <1>1, <3>2
        <4> QED
          BY <1>2, <2>2, <4>1 DEF Believed
      <3> QED
        BY <3>1, <3>2
    <2> QED
      BY <2>1, <2>2 DEF Believed
  <1> QED
    BY <1>1, <1>3 DEF r

(* BAP_send_message_with_queue for topic t: the other topics are left alone.  *)
LEMMA QueueKeeps ==
    ASSUME BapInv, NEW m \in Messages, Queue(m)
    PROVE  /\ sendQueue' \in Seq(Messages)
           /\ \A u \in Topics : u \in lostSince => u \in lostSince'
           /\ \A u \in Topics, v \in Int :
                 (\/ Believed(u, v, sendQueue, shown[u]) /\ (m.topic # u \/ m.value = NoValue)
                  \/ m = [topic |-> u, value |-> v])
                 => (m.topic = u /\ u \in lostSince') \/ Believed(u, v, sendQueue', shown[u])
  <1>1. sendQueue \in Seq(Messages)
    BY DEF BapInv, BapTypes
  <1>2. CASE sendQueue' = Append(sendQueue, m) /\ UNCHANGED lostSince
    BY <1>1, <1>2, BelievedAppend
  <1>3. CASE lostSince' = lostSince \cup {m.topic} /\ UNCHANGED sendQueue
    BY <1>1, <1>3
  <1> QED
    BY <1>2, <1>3 DEF Queue

LEMMA UpdateBelieved ==
    ASSUME NumTopics \in Nat \ {0}, BapInv, UpdateTopic
    PROVE  BapInv'
  <1> DEFINE t == updater.topic
  <1>1. t \in Topics /\ lastSent[t] \in Int /\ current[t] \in Nat /\ NoValue = -1
    BY DEF UpdateTopic, BapInv, BapTypes, NoValue
  <1>2. UNCHANGED <<bapTime, current, shown>>
    BY DEF UpdateTopic, worldVars
  <1>3. /\ updater' \in [at : {"off", "sleep", "read", "loop"}, time : Nat, topic : 0 .. NumTopics]
        /\ updater'.at = "loop" => updater'.topic \in Topics
    <2>1. CASE t = NumTopics
      BY <2>1 DEF UpdateTopic, Asleep, Topics
    <2>2. CASE t # NumTopics
      <3>1. updater' = [updater EXCEPT !.topic = t + 1]
        BY <2>2 DEF UpdateTopic
      <3>2. t + 1 \in 1 .. NumTopics
        BY <1>1, <2>2 DEF Topics
      <3>3. updater \in [at : {"off", "sleep", "read", "loop"}, time : Nat, topic : 0 .. NumTopics]
        BY DEF BapInv, BapTypes
      <3>4. updater'.topic = t + 1 /\ t + 1 \in 0 .. NumTopics
        BY <3>1, <3>2, <3>3
      <3> QED
        BY <3>1, <3>2, <3>3, <3>4 DEF Topics
    <2> QED
      BY <2>1, <2>2
  <1> HIDE DEF t
  <1>4. \/ UNCHANGED <<lastSent, sendQueue, lostSince>>
        \/ Queue([topic |-> t, value |-> NoValue]) /\ UNCHANGED lastSent
        \/ SendIfChanged(t)
    BY DEF UpdateTopic, t
  <1>5. CASE UNCHANGED <<lastSent, sendQueue, lostSince>>
    BY <1>2, <1>3, <1>5 DEF BapInv, BapTypes, AllBelieved
  <1>6. CASE Queue([topic |-> t, value |-> NoValue]) /\ UNCHANGED lastSent
    <2> DEFINE m == [topic |-> t, value |-> NoValue]
    <2>1. m \in Messages /\ m.topic = t /\ m.value = NoValue
      BY <1>1 DEF Messages
    <2> HIDE DEF m
    <2>2. Queue(m)
      BY <1>6 DEF m
    <2>3. BapTypes'
      BY <1>2, <1>3, <1>6, <2>1, <2>2, QueueKeeps DEF BapInv, BapTypes
    <2>4. AllBelieved'
      <3> SUFFICES ASSUME NEW u \in Topics, u \notin lostSince', lastSent'[u] # NoValue
                   PROVE  Believed(u, lastSent'[u], sendQueue', shown'[u])
        BY DEF AllBelieved
      <3>1. u \notin lostSince /\ lastSent'[u] = lastSent[u] /\ lastSent[u] \in Int
            /\ shown'[u] = shown[u]
        BY <1>2, <1>6, <2>1, <2>2, QueueKeeps DEF BapInv, BapTypes
      <3>2. Believed(u, lastSent[u], sendQueue, shown[u])
        BY <3>1 DEF BapInv, AllBelieved
      <3> QED
        BY <2>1, <2>2, <3>1, <3>2, QueueKeeps
    <2> QED
      BY <2>3, <2>4 DEF BapInv
  <1>7. CASE SendIfChanged(t)
    <2> DEFINE m == [topic |-> t, value |-> current[t]]
    <2>1. m \in Messages /\ m.topic = t /\ m = [topic |-> t, value |-> current[t]]
      BY <1>1 DEF Messages
    <2> HIDE DEF m
    <2>2. /\ lastSent' = [lastSent EXCEPT ![t] = current[t]]
          /\ \/ lastSent[t] = current[t] /\ UNCHANGED <<sendQueue, lostSince>>
             \/ Queue(m)
      BY <1>7 DEF SendIfChanged, m
    <2>3. BapTypes'
      <3>1. lastSent' \in [Topics -> Int]
        BY <1>1, <2>2 DEF BapInv, BapTypes
      <3>2. sendQueue' \in Seq(Messages)
        BY <2>1, <2>2, QueueKeeps DEF BapInv, BapTypes
      <3> QED
        BY <1>2, <1>3, <3>1, <3>2 DEF BapInv, BapTypes
    <2>4. AllBelieved'
      <3> SUFFICES ASSUME NEW u \in Topics, u \notin lostSince', lastSent'[u] # NoValue
                   PROVE  Believed(u, lastSent'[u], sendQueue', shown'[u])
        BY DEF AllBelieved
      <3>1. u \notin lostSince /\ shown'[u] = shown[u]
        BY <1>2, <2>1, <2>2, QueueKeeps
      <3>2. CASE u = t
        <4>1. lastSent'[u] = current[t]
          BY <2>2, <3>2 DEF BapInv, BapTypes
        <4>2. CASE lastSent[t] = current[t] /\ UNCHANGED <<sendQueue, lostSince>>
          BY <3>1, <3>2, <4>1, <4>2 DEF BapInv, AllBelieved
        <4>3. CASE Queue(m)
          BY <1>1, <2>1, <3>1, <3>2, <4>1, <4>3, QueueKeeps
        <4> QED
          BY <2>2, <4>2, <4>3
      <3>3. CASE u # t
        <4>1. lastSent'[u] = lastSent[u] /\ lastSent[u] \in Int
          BY <2>2, <3>3 DEF BapInv, BapTypes
        <4>2. Believed(u, lastSent[u], sendQueue, shown[u])
          BY <3>1, <4>1 DEF BapInv, AllBelieved
        <4>3. CASE UNCHANGED <<sendQueue, lostSince>>
          BY <3>1, <4>1, <4>2, <4>3
        <4>4. CASE Queue(m)
          BY <2>1, <3>1, <3>3, <4>1, <4>2, <4>4, QueueKeeps
        <4> QED
          BY <2>2, <4>3, <4>4
      <3> QED
        BY <3>2, <3>3
    <2> QED
      BY <2>3, <2>4 DEF BapInv
  <1> QED
    BY <1>4, <1>5, <1>6, <1>7

LEMMA SendBelieved ==
    ASSUME NumTopics \in Nat \ {0}, BapInv, SendTask
    PROVE  BapInv'
  <1> DEFINE m == Head(sendQueue)
  <1>1. sendQueue \in Seq(Messages) /\ sendQueue # <<>> /\ sendQueue' = Tail(sendQueue)
    BY DEF BapInv, BapTypes, SendTask
  <1>2. m \in Messages /\ m.topic \in Topics /\ m.value \in Int /\ sendQueue' \in Seq(Messages)
    <2>1. Len(sendQueue) \in Nat \ {0}
      BY <1>1, EmptySeq
    <2>2. m \in Messages /\ sendQueue' \in Seq(Messages)
      BY <1>1, <2>1, HeadTailProperties
    <2> QED
      BY <2>2 DEF Messages
  <1>3. UNCHANGED <<bapTime, current, updater, lastSent>>
    BY DEF SendTask, worldVars
  <1>4. \/ /\ shown' = [shown EXCEPT ![m.topic] = IF m.value = NoValue THEN @ ELSE m.value]
           /\ UNCHANGED lostSince
        \/ lostSince' = lostSince \cup {m.topic} /\ UNCHANGED shown
    BY DEF SendTask
  <1> HIDE DEF m
  <1>5. BapTypes'
    <2>1. shown' \in [Topics -> Int]
      BY <1>2, <1>4 DEF BapInv, BapTypes
    <2> QED
      BY <1>2, <1>3, <2>1 DEF BapInv, BapTypes
  <1>6. AllBelieved'
    <2> SUFFICES ASSUME NEW u \in Topics, u \notin lostSince', lastSent'[u] # NoValue
                 PROVE  Believed(u, lastSent'[u], sendQueue', shown'[u])
      BY DEF AllBelieved
    <2>1. u \notin lostSince /\ lastSent'[u] = lastSent[u] /\ lastSent[u] \in Int
      BY <1>3, <1>4 DEF BapInv, BapTypes
    <2>2. Believed(u, lastSent[u], sendQueue, shown[u])
      BY <2>1 DEF BapInv, AllBelieved
    <2>3. /\ m.topic = u /\ m.value # NoValue => shown'[u] = m.value
          /\ m.topic # u \/ m.value = NoValue => shown'[u] = shown[u]
      BY <1>2, <1>4 DEF BapInv, BapTypes
    <2> QED
      BY <1>1, <2>1, <2>2, <2>3, BelievedTail DEF m
  <1> QED
    BY <1>5, <1>6 DEF BapInv

LEMMA NextBap ==
    ASSUME NumTopics \in Nat \ {0}, BapInv, [BapNext]_bapVars
    PROVE  BapInv'
  <1> USE DEF BapInv, BapTypes
  <1>1. CASE Tick
    <2>1. AllBelieved'
      BY <1>1 DEF Tick, AllBelieved
    <2> QED
      BY <1>1, <2>1 DEF Tick
  <1>2. CASE Changes
    <2>1. AllBelieved'
      BY <1>2 DEF Changes, AllBelieved
    <2>2. current' \in [Topics -> Nat]
      <3>1. CASE UNCHANGED current
        BY <3>1
      <3>2. ASSUME NEW t \in Topics, current' = [current EXCEPT ![t] = @ + 1]
            PROVE  current' \in [Topics -> Nat]
        <4>1. current[t] + 1 \in Nat
          OBVIOUS
        <4> QED
          BY <3>2, <4>1
      <3> QED
        BY <1>2, <3>1, <3>2 DEF Changes
    <2> QED
      BY <1>2, <2>1, <2>2 DEF Changes
  <1>3. CASE ManageMode
    <2>1. AllBelieved'
      BY <1>3 DEF ManageMode, AllBelieved
    <2> QED
      BY <1>3, <2>1 DEF ManageMode, Asleep, worldVars
  <1>4. CASE ReadTime
    <2>1. AllBelieved'
      BY <1>4 DEF ReadTime, AllBelieved
    <2> QED
      BY <1>4, <2>1 DEF ReadTime, worldVars
  <1>5. CASE TakeMutex
    <2>1. AllBelieved'
      BY <1>5 DEF TakeMutex, AllBelieved
    <2>2. /\ updater' \in [at : {"off", "sleep", "read", "loop"}, time : Nat, topic : 0 .. NumTopics]
          /\ updater'.topic = 1 /\ 1 \in 1 .. NumTopics
      <3>1. updater' = [updater EXCEPT !.at = "loop", !.topic = 1]
        BY <1>5 DEF TakeMutex
      <3>2. 1 \in 0 .. NumTopics /\ 1 \in 1 .. NumTopics
        OBVIOUS
      <3> QED
        BY <3>1, <3>2
    <2> QED
      BY <1>5, <2>1, <2>2 DEF TakeMutex, worldVars, Topics
  <1>6. CASE UpdateTopic
    BY <1>6, UpdateBelieved
  <1>7. CASE SendTask
    BY <1>7, SendBelieved
  <1>8. CASE HandleSub
    <2>1. UNCHANGED <<bapTime, current, updater, sendQueue, shown>>
      BY <1>8 DEF HandleSub, HandleFrame, worldVars
    <2>2. PICK t \in Topics, i \in {1, 2} : Subscribe(t, i)
      BY <1>8 DEF HandleSub
    <2>3. \/ UNCHANGED <<lastSent, lostSince>>
          \/ lastSent' = [lastSent EXCEPT ![t] = NoValue] /\ lostSince' = lostSince \ {t}
      BY <2>2 DEF Subscribe
    <2>4. AllBelieved'
      BY <2>1, <2>3 DEF AllBelieved
    <2>5. lastSent' \in [Topics -> Int]
      BY <2>3 DEF NoValue
    <2> QED
      BY <2>1, <2>4, <2>5
  <1>9. CASE HandleUnsub \/ HandleSet
    <2>1. UNCHANGED <<bapTime, current, updater, sendQueue, shown, lastSent, lostSince>>
      BY <1>9 DEF HandleUnsub, HandleSet, Unsubscribe, HandleFrame, worldVars
    <2> QED
      BY <2>1 DEF AllBelieved
  <1>10. CASE Restarts
    <2>1. \A t \in Topics : lastSent'[t] = NoValue
      BY <1>10 DEF Restarts
    <2>2. AllBelieved'
      BY <2>1 DEF AllBelieved
    <2>3. sendQueue' \in Seq(Messages) /\ lastSent' \in [Topics -> Int]
      BY <1>10 DEF Restarts, NoValue
    <2> QED
      BY <1>10, <2>2, <2>3 DEF Restarts, Asleep
  <1>11. CASE UNCHANGED bapVars
    <2>1. AllBelieved'
      BY <1>11 DEF bapVars, AllBelieved
    <2> QED
      BY <1>11, <2>1 DEF bapVars
  <1> QED
    BY <1>1, <1>2, <1>3, <1>4, <1>5, <1>6, <1>7, <1>8, <1>9, <1>10, <1>11 DEF BapNext

(* bap_subscription.c, for every number of topics and every queue length, with *)
(* messages lost to a full queue or a busy line: a value that counts as sent   *)
(* is shown or on its way, unless one of its topic was lost since the last     *)
(* subscription.                                                               *)
THEOREM AccessoryIsCurrent ==
    ASSUME NumTopics \in Nat \ {0}
    PROVE  BapSpec => []AccessoryCurrent
  <1>1. BapInit => BapInv
    <2> SUFFICES ASSUME BapInit PROVE BapInv
      OBVIOUS
    <2>1. \A t \in Topics : lastSent[t] = NoValue
      BY DEF BapInit
    <2>2. AllBelieved
      BY <2>1 DEF AllBelieved
    <2>3. sendQueue \in Seq(Messages) /\ lastSent \in [Topics -> Int] /\ shown \in [Topics -> Int]
      BY DEF BapInit, NoValue
    <2> QED
      BY <2>2, <2>3 DEF BapInit, BapInv, BapTypes, Asleep
  <1>2. BapInv /\ [BapNext]_bapVars => BapInv'
    BY NextBap
  <1>3. BapInv => AccessoryCurrent
    <2> SUFFICES ASSUME BapInv, NEW t \in Topics, t \notin lostSince, lastSent[t] # NoValue,
                        shown[t] # lastSent[t]
                 PROVE  \E i \in DOMAIN sendQueue : sendQueue[i] = [topic |-> t, value |-> lastSent[t]]
      BY DEF AccessoryCurrent
    <2>1. Believed(t, lastSent[t], sendQueue, shown[t])
      BY DEF BapInv, AllBelieved
    <2>2. DOMAIN sendQueue = 1 .. Len(sendQueue)
      BY DEF BapInv, BapTypes
    <2> QED
      BY <2>1, <2>2 DEF Believed
  <1> QED
    BY <1>1, <1>2, <1>3, PTL DEF BapSpec

-----------------------------------------------------------------------------
(* Wifi.  What the flags will say once every event is handled is what the      *)
(* driver is in now: the last event of a pair settles it, or, without one, the *)
(* flag has it already.                                                        *)

Links == {"got_ip", "disconnected"}
Aps == {"ap_start", "ap_stop"}

Settles(q, pair, told, actual) ==
    /\ \A i \in DOMAIN q :
          q[i] \in pair /\ (\A j \in DOMAIN q : i < j => q[j] \notin pair) => q[i] = actual
    /\ (\A i \in DOMAIN q : q[i] \notin pair) => told = actual

LinkShown == IF isConnected THEN "got_ip" ELSE "disconnected"
LinkActual == IF sta = "ip" THEN "got_ip" ELSE "disconnected"
ApShown == IF apEnabled THEN "ap_start" ELSE "ap_stop"
ApActual == IF mode = "apsta" THEN "ap_start" ELSE "ap_stop"

\* Until the station has been started nothing has happened to it.
Unstarted(q, station, task) ==
    \A i \in DOMAIN q : q[i] = "sta_start" =>
        /\ station = "idle" /\ task = "idle"
        /\ \A j \in DOMAIN q : q[j] \notin Links /\ (j # i => q[j] # "sta_start")

\* Events after which the station is tried.
Leads(q) == \E i \in DOMAIN q : q[i] \in {"sta_start", "disconnected"}

\* An idle station has something ahead of it.
Ahead ==
    configured /\ sta = "idle" =>
        handler = "asleep" \/ Leads(events) \/ excused \cap {"client", "scan"} # {}

Settled ==
    excused = {} =>
        /\ Settles(events, Links, LinkShown, LinkActual)
        /\ Settles(events, Aps, ApShown, ApActual)
        /\ mode = "apsta" <=> LinkShown = "disconnected"

WifiKinds ==
    /\ events \in Seq(Events) /\ apStations \in Nat /\ mode \in {"sta", "apsta"}
    /\ isConnected \in BOOLEAN /\ apEnabled \in BOOLEAN /\ handler \in {"idle", "asleep"}

WifiInv == WifiKinds /\ Unstarted(events, sta, handler) /\ Ahead /\ Settled

(* Events that say nothing about a pair leave what it settles to.              *)
LEMMA SettlesAppend ==
    ASSUME NEW q \in Seq(Events), NEW pair, NEW told, NEW actual, NEW e \in Events \ pair,
           Settles(q, pair, told, actual)
    PROVE  Settles(Append(q, e), pair, told, actual)
  <1> DEFINE r == Append(q, e)
  <1>1. /\ DOMAIN q = 1 .. Len(q) /\ DOMAIN r = 1 .. Len(q) + 1 /\ Len(q) \in Nat
        /\ r[Len(q) + 1] = e /\ \A i \in DOMAIN q : r[i] = q[i]
    OBVIOUS
  <1> HIDE DEF r
  <1>2. ASSUME NEW i \in DOMAIN r, r[i] \in pair, \A j \in DOMAIN r : i < j => r[j] \notin pair
        PROVE  r[i] = actual
    <2>1. i \in DOMAIN q
      BY <1>1, <1>2
    <2>2. \A j \in DOMAIN q : i < j => q[j] \notin pair
      BY <1>1, <1>2
    <2> QED
      BY <1>1, <1>2, <2>1, <2>2 DEF Settles
  <1>3. ASSUME \A i \in DOMAIN r : r[i] \notin pair
        PROVE  told = actual
    <2>1. \A i \in DOMAIN q : q[i] \notin pair
      BY <1>1, <1>3
    <2> QED
      BY <2>1 DEF Settles
  <1> QED
    BY <1>2, <1>3 DEF Settles, r

(* A new event of the pair settles it.                                         *)
LEMMA SettlesNew ==
    ASSUME NEW q \in Seq(Events), NEW pair, NEW told, NEW e \in Events \cap pair
    PROVE  Settles(Append(q, e), pair, told, e)
  <1> DEFINE r == Append(q, e)
  <1>1. DOMAIN r = 1 .. Len(q) + 1 /\ Len(q) \in Nat /\ r[Len(q) + 1] = e
    OBVIOUS
  <1> HIDE DEF r
  <1>2. ASSUME NEW i \in DOMAIN r, \A j \in DOMAIN r : i < j => r[j] \notin pair
        PROVE  r[i] = e
    BY <1>1, <1>2
  <1>3. Len(q) + 1 \in DOMAIN r /\ r[Len(q) + 1] \in pair
    BY <1>1
  <1> QED
    BY <1>2, <1>3 DEF Settles, r

LEMMA TailIs ==
    ASSUME NEW q \in Seq(Events), q # <<>>
    PROVE  /\ Tail(q) \in Seq(Events) /\ Len(q) \in Nat \ {0}
           /\ DOMAIN q = 1 .. Len(q) /\ DOMAIN Tail(q) = 1 .. Len(q) - 1
           /\ q[1] = Head(q) /\ \A i \in DOMAIN Tail(q) : Tail(q)[i] = q[i + 1]
  OBVIOUS

(* Handling the first event: it either says nothing about the pair, or what it *)
(* says is shown from then on.                                                 *)
LEMMA SettlesTail ==
    ASSUME NEW q \in Seq(Events), q # <<>>, NEW pair, NEW told, NEW actual,
           Settles(q, pair, told, actual)
    PROVE  Settles(Tail(q), pair, IF Head(q) \in pair THEN Head(q) ELSE told, actual)
  <1> DEFINE r == Tail(q)
             h == Head(q)
  <1>1. /\ Len(q) \in Nat \ {0} /\ DOMAIN q = 1 .. Len(q) /\ DOMAIN r = 1 .. Len(q) - 1
        /\ q[1] = h /\ \A i \in DOMAIN r : r[i] = q[i + 1]
    BY TailIs
  <1> HIDE DEF r, h
  <1>2. ASSUME NEW i \in DOMAIN r, r[i] \in pair, \A j \in DOMAIN r : i < j => r[j] \notin pair
        PROVE  r[i] = actual
    <2>1. i + 1 \in DOMAIN q /\ q[i + 1] \in pair
      BY <1>1, <1>2
    <2>2. ASSUME NEW k \in DOMAIN q, i + 1 < k
          PROVE  q[k] \notin pair
      <3>1. k - 1 \in DOMAIN r /\ i < k - 1 /\ (k - 1) + 1 = k
        BY <1>1, <2>2
      <3> QED
        BY <1>1, <1>2, <3>1
    <2> QED
      BY <1>1, <2>1, <2>2 DEF Settles
  <1>3. ASSUME \A i \in DOMAIN r : r[i] \notin pair
        PROVE  (IF h \in pair THEN h ELSE told) = actual
    <2>1. ASSUME NEW k \in DOMAIN q, 1 < k
          PROVE  q[k] \notin pair
      <3>1. k - 1 \in DOMAIN r /\ (k - 1) + 1 = k
        BY <1>1, <2>1
      <3> QED
        BY <1>1, <1>3, <3>1
    <2>2. CASE h \in pair
      <3>1. 1 \in DOMAIN q
        BY <1>1
      <3> QED
        BY <1>1, <2>1, <2>2, <3>1 DEF Settles
    <2>3. CASE h \notin pair
      <3>1. \A k \in DOMAIN q : q[k] \notin pair
        BY <1>1, <2>1, <2>3
      <3> QED
        BY <2>3, <3>1 DEF Settles
    <2> QED
      BY <2>2, <2>3
  <1> QED
    BY <1>2, <1>3 DEF Settles, r, h

(* The stations that leave with the access point.                              *)
LEMMA LeftIs ==
    ASSUME NEW q \in Seq(Events), NEW n \in Nat
    PROVE  LET r == q \o [i \in 1 .. n |-> "ap_leave"]
           IN  /\ r \in Seq(Events) /\ DOMAIN q \subseteq DOMAIN r
               /\ \A i \in DOMAIN q : r[i] = q[i]
               /\ \A i \in DOMAIN r \ DOMAIN q : r[i] = "ap_leave"
  <1> DEFINE t == [i \in 1 .. n |-> "ap_leave"]
             r == q \o t
  <1>1. t \in Seq(Events) /\ Len(t) = n
    BY DEF Events
  <1>2. /\ r \in Seq(Events) /\ Len(r) = Len(q) + n
        /\ \A i \in 1 .. Len(r) : r[i] = IF i <= Len(q) THEN q[i] ELSE t[i - Len(q)]
    BY <1>1, ConcatProperties
  <1> QED
    BY <1>1, <1>2

LEMMA SettlesLeaves ==
    ASSUME NEW q \in Seq(Events), NEW n \in Nat, NEW told, NEW actual,
           Settles(q, Links, told, actual)
    PROVE  Settles(q \o [i \in 1 .. n |-> "ap_leave"], Links, told, actual)
  <1> DEFINE r == q \o [i \in 1 .. n |-> "ap_leave"]
  <1>2. /\ DOMAIN q \subseteq DOMAIN r /\ \A i \in DOMAIN q : r[i] = q[i]
        /\ \A i \in DOMAIN r \ DOMAIN q : r[i] = "ap_leave"
    BY LeftIs
  <1> HIDE DEF r
  <1>3. \A i \in DOMAIN r \ DOMAIN q : r[i] \notin Links
    BY <1>2 DEF Links
  <1>4. ASSUME NEW i \in DOMAIN r, r[i] \in Links, \A j \in DOMAIN r : i < j => r[j] \notin Links
        PROVE  r[i] = actual
    <2>1. i \in DOMAIN q
      BY <1>3, <1>4
    <2>2. \A j \in DOMAIN q : i < j => q[j] \notin Links
      BY <1>2, <1>4
    <2> QED
      BY <1>2, <1>4, <2>1, <2>2 DEF Settles
  <1>5. ASSUME \A i \in DOMAIN r : r[i] \notin Links
        PROVE  told = actual
    <2>1. \A i \in DOMAIN q : q[i] \notin Links
      BY <1>2, <1>5
    <2> QED
      BY <2>1 DEF Settles
  <1> QED
    BY <1>2, <1>4, <1>5 DEF Settles, r

LEMMA PostedIs ==
    ASSUME NEW q \in Seq(Events), NEW e \in Events, e # "sta_start"
    PROVE  /\ Append(q, e) \in Seq(Events)
           /\ Leads(q) => Leads(Append(q, e))
           /\ e = "disconnected" => Leads(Append(q, e))
           /\ \A s, h, s2, h2 :
                 Unstarted(q, s, h) /\
                 (s = "idle" /\ h = "idle" => s2 = "idle" /\ h2 = "idle" /\ e \notin Links) =>
                 Unstarted(Append(q, e), s2, h2)
  <1> DEFINE r == Append(q, e)
  <1>1. /\ r \in Seq(Events) /\ DOMAIN q = 1 .. Len(q) /\ DOMAIN r = 1 .. Len(q) + 1
        /\ Len(q) \in Nat /\ r[Len(q) + 1] = e /\ \A i \in DOMAIN q : r[i] = q[i]
    OBVIOUS
  <1> HIDE DEF r
  <1>2. DOMAIN q \subseteq DOMAIN r /\ Len(q) + 1 \in DOMAIN r
    BY <1>1
  <1>3. Leads(q) => Leads(r)
    BY <1>1, <1>2 DEF Leads
  <1>4. e = "disconnected" => Leads(r)
    BY <1>1, <1>2 DEF Leads
  <1>5. ASSUME NEW s, NEW h, NEW s2, NEW h2, Unstarted(q, s, h),
               s = "idle" /\ h = "idle" => s2 = "idle" /\ h2 = "idle" /\ e \notin Links
        PROVE  Unstarted(r, s2, h2)
    <2> SUFFICES ASSUME NEW i \in DOMAIN r, r[i] = "sta_start"
                 PROVE  /\ s2 = "idle" /\ h2 = "idle"
                        /\ \A j \in DOMAIN r : r[j] \notin Links /\ (j # i => r[j] # "sta_start")
      BY DEF Unstarted
    <2>1. i \in DOMAIN q /\ q[i] = "sta_start"
      BY <1>1
    <2>2. /\ s = "idle" /\ h = "idle"
          /\ \A j \in DOMAIN q : q[j] \notin Links /\ (j # i => q[j] # "sta_start")
      BY <1>5, <2>1 DEF Unstarted
    <2>3. ASSUME NEW j \in DOMAIN r
          PROVE  r[j] \notin Links /\ (j # i => r[j] # "sta_start")
      BY <1>1, <1>5, <2>2
    <2> QED
      BY <1>5, <2>2, <2>3
  <1> QED
    BY <1>1, <1>3, <1>4, <1>5 DEF r

LEMMA TakenIs ==
    ASSUME NEW q \in Seq(Events), q # <<>>
    PROVE  /\ Leads(q) /\ Head(q) \notin {"sta_start", "disconnected"} => Leads(Tail(q))
           /\ \A s, h, s2, h2 :
                 Unstarted(q, s, h) /\
                 ((s2 = s /\ h2 = h) \/ Head(q) \in Links \/ Head(q) = "sta_start") =>
                 Unstarted(Tail(q), s2, h2)
  <1> DEFINE r == Tail(q)
             f == Head(q)
  <1>1. /\ Len(q) \in Nat \ {0} /\ DOMAIN q = 1 .. Len(q) /\ DOMAIN r = 1 .. Len(q) - 1
        /\ q[1] = f /\ \A i \in DOMAIN r : r[i] = q[i + 1]
    BY TailIs
  <1> HIDE DEF r, f
  <1>2. ASSUME Leads(q), f \notin {"sta_start", "disconnected"}
        PROVE  Leads(r)
    <2>1. PICK i \in DOMAIN q : q[i] \in {"sta_start", "disconnected"}
      BY <1>2 DEF Leads
    <2>2. i # 1
      BY <1>1, <1>2, <2>1
    <2>3. i - 1 \in DOMAIN r /\ (i - 1) + 1 = i
      BY <1>1, <2>2
    <2>4. r[i - 1] \in {"sta_start", "disconnected"}
      BY <1>1, <2>1, <2>3
    <2> QED
      BY <2>3, <2>4 DEF Leads
  <1>3. ASSUME NEW s, NEW h, NEW s2, NEW h2, Unstarted(q, s, h),
               (s2 = s /\ h2 = h) \/ f \in Links \/ f = "sta_start"
        PROVE  Unstarted(r, s2, h2)
    <2> SUFFICES ASSUME NEW i \in DOMAIN r, r[i] = "sta_start"
                 PROVE  /\ s2 = "idle" /\ h2 = "idle"
                        /\ \A j \in DOMAIN r : r[j] \notin Links /\ (j # i => r[j] # "sta_start")
      BY DEF Unstarted
    <2>1. i + 1 \in DOMAIN q /\ q[i + 1] = "sta_start" /\ 1 \in DOMAIN q /\ i + 1 # 1
      BY <1>1
    <2>2. /\ s = "idle" /\ h = "idle"
          /\ \A j \in DOMAIN q : q[j] \notin Links /\ (j # i + 1 => q[j] # "sta_start")
      BY <1>3, <2>1 DEF Unstarted
    <2>3. f \notin Links /\ f # "sta_start"
      BY <1>1, <2>1, <2>2
    <2>4. ASSUME NEW j \in DOMAIN r
          PROVE  r[j] \notin Links /\ (j # i => r[j] # "sta_start")
      <3>1. j + 1 \in DOMAIN q /\ (j # i => j + 1 # i + 1) /\ r[j] = q[j + 1]
        BY <1>1
      <3> QED
        BY <2>2, <3>1
    <2> QED
      BY <1>3, <2>2, <2>3, <2>4
  <1> QED
    BY <1>2, <1>3 DEF r, f

LEMMA LeavesAre ==
    ASSUME NEW q \in Seq(Events), NEW n \in Nat
    PROVE  /\ Leads(q) => Leads(q \o [i \in 1 .. n |-> "ap_leave"])
           /\ \A s, h : Unstarted(q, s, h)
                           => Unstarted(q \o [i \in 1 .. n |-> "ap_leave"], s, h)
  <1> DEFINE r == q \o [i \in 1 .. n |-> "ap_leave"]
  <1>1. /\ DOMAIN q \subseteq DOMAIN r /\ \A i \in DOMAIN q : r[i] = q[i]
        /\ \A i \in DOMAIN r \ DOMAIN q : r[i] = "ap_leave"
    BY LeftIs
  <1> HIDE DEF r
  <1>2. Leads(q) => Leads(r)
    BY <1>1 DEF Leads
  <1>3. ASSUME NEW s, NEW h, Unstarted(q, s, h)
        PROVE  Unstarted(r, s, h)
    <2> SUFFICES ASSUME NEW i \in DOMAIN r, r[i] = "sta_start"
                 PROVE  /\ s = "idle" /\ h = "idle"
                        /\ \A j \in DOMAIN r : r[j] \notin Links /\ (j # i => r[j] # "sta_start")
      BY DEF Unstarted
    <2>1. i \in DOMAIN q /\ q[i] = "sta_start"
      BY <1>1
    <2>2. /\ s = "idle" /\ h = "idle"
          /\ \A j \in DOMAIN q : q[j] \notin Links /\ (j # i => q[j] # "sta_start")
      BY <1>3, <2>1 DEF Unstarted
    <2> QED
      BY <1>1, <2>2 DEF Links
  <1> QED
    BY <1>2, <1>3 DEF r

(* esp_wifi_set_mode, in a handler or by the button.                           *)
LEMMA SetModeIs ==
    ASSUME WifiKinds, NEW rest \in Seq(Events), NEW m \in {"sta", "apsta"}, SetMode(m, rest)
    PROVE  /\ events' \in Seq(Events) /\ apStations' \in Nat /\ mode' = m
           /\ Leads(rest) => Leads(events')
           /\ \A s, h : Unstarted(rest, s, h) => Unstarted(events', s, h)
           /\ \A a, b : Settles(rest, Links, a, b) => Settles(events', Links, a, b)
           /\ \A a : Settles(rest, Aps, a, ApActual) => Settles(events', Aps, a, ApActual')
  <1> DEFINE left == rest \o [i \in 1 .. apStations |-> "ap_leave"]
  <1>0. apStations' \in Nat /\ mode' = m /\ apStations \in Nat /\ mode \in {"sta", "apsta"}
    BY DEF SetMode, WifiKinds
  <1>1. CASE m = mode
    BY <1>0, <1>1 DEF SetMode, ApActual
  <1>2. CASE m # mode /\ m = "apsta"
    <2>1. events' = Append(rest, "ap_start") /\ ApActual' = "ap_start"
      BY <1>0, <1>2 DEF SetMode, ApActual
    <2>2. "ap_start" \in Events \ Links /\ "ap_start" \in Events \cap Aps /\ "ap_start" # "sta_start"
      BY DEF Events, Links, Aps
    <2>3. \A a, b : Settles(rest, Links, a, b) => Settles(events', Links, a, b)
      BY <2>1, <2>2, SettlesAppend, Zenon
    <2>4. \A a : Settles(events', Aps, a, ApActual')
      BY <2>1, <2>2, SettlesNew, Zenon
    <2>5. events' \in Seq(Events) /\ (Leads(rest) => Leads(events'))
      BY <2>1, <2>2, PostedIs, Zenon
    <2>6. \A s, h : Unstarted(rest, s, h) => Unstarted(events', s, h)
      BY <2>1, <2>2, PostedIs, Zenon
    <2> QED
      BY <1>0, <2>3, <2>4, <2>5, <2>6, Zenon
  <1>3. CASE m # mode /\ m = "sta"
    <2>1. events' = Append(left, "ap_stop") /\ ApActual' = "ap_stop"
      <3>1. events' = left \o <<"ap_stop">> /\ mode' = "sta"
        BY <1>0, <1>3 DEF SetMode
      <3>2. left \in Seq(Events)
        BY <1>0, LeftIs
      <3>3. Append(left, "ap_stop") = left \o <<"ap_stop">>
        <4>1. "ap_stop" \in Events
          BY DEF Events
        <4> QED
          BY <3>2, <4>1, AppendIsConcat, Zenon
      <3> QED
        BY <3>1, <3>3 DEF ApActual
    <2>2. "ap_stop" \in Events \ Links /\ "ap_stop" \in Events \cap Aps /\ "ap_stop" # "sta_start"
      BY DEF Events, Links, Aps
    <2>3. /\ left \in Seq(Events) /\ (Leads(rest) => Leads(left))
          /\ \A s, h : Unstarted(rest, s, h) => Unstarted(left, s, h)
          /\ \A a, b : Settles(rest, Links, a, b) => Settles(left, Links, a, b)
      BY <1>0, LeftIs, LeavesAre, SettlesLeaves, Zenon
    <2> HIDE DEF left
    <2>4. \A a, b : Settles(rest, Links, a, b) => Settles(events', Links, a, b)
      BY <2>1, <2>2, <2>3, SettlesAppend, Zenon
    <2>5. \A a : Settles(events', Aps, a, ApActual')
      BY <2>1, <2>2, <2>3, SettlesNew, Zenon
    <2>6. events' \in Seq(Events) /\ (Leads(rest) => Leads(events'))
      BY <2>1, <2>2, <2>3, PostedIs, Zenon
    <2>7. \A s, h : Unstarted(rest, s, h) => Unstarted(events', s, h)
      BY <2>1, <2>2, <2>3, PostedIs, Zenon
    <2> QED
      BY <1>0, <2>4, <2>5, <2>6, <2>7, Zenon
  <1> QED
    BY <1>0, <1>1, <1>2, <1>3

(* A step of the driver that posts an event.                                   *)
LEMMA PostStep ==
    ASSUME WifiInv, NEW e \in Events \ (Aps \cup {"sta_start"}), events' = Append(events, e),
           UNCHANGED <<configured, mode, handler, isConnected, apEnabled, excused>>,
           apStations' \in Nat,
           e \in Links => sta # "idle" /\ LinkActual' = e,
           e \notin Links => LinkActual' = LinkActual,
           sta = "idle" => sta' = "idle",
           sta' = "idle" => sta = "idle" \/ e = "disconnected"
    PROVE  WifiInv'
  <1>1. events \in Seq(Events) /\ e \in Events /\ e # "sta_start" /\ e \notin Aps
    BY DEF WifiInv, WifiKinds
  <1>2. /\ events' \in Seq(Events) /\ (Leads(events) => Leads(events'))
        /\ (e = "disconnected" => Leads(events'))
    BY <1>1, PostedIs, Zenon
  <1>3. Unstarted(events, sta, handler)'
    <2>1. sta = "idle" /\ handler = "idle" => sta' = "idle" /\ handler' = "idle" /\ e \notin Links
      OBVIOUS
    <2>2. Unstarted(events, sta, handler)
      BY DEF WifiInv
    <2>3. Unstarted(Append(events, e), sta', handler')
      BY <1>1, <2>1, <2>2, PostedIs, Zenon
    <2> QED
      BY <2>3
  <1>4. Ahead'
    BY <1>2 DEF WifiInv, Ahead
  <1>5. WifiKinds'
    BY <1>2 DEF WifiInv, WifiKinds
  <1>6. Settled'
    <2> SUFFICES ASSUME excused = {}
                 PROVE  /\ Settles(events', Links, LinkShown', LinkActual')
                        /\ Settles(events', Aps, ApShown', ApActual')
                        /\ mode' = "apsta" <=> LinkShown' = "disconnected"
      BY DEF Settled
    <2>1. LinkShown' = LinkShown /\ ApShown' = ApShown /\ ApActual' = ApActual
      BY DEF LinkShown, ApShown, ApActual
    <2>2. /\ Settles(events, Links, LinkShown, LinkActual)
          /\ Settles(events, Aps, ApShown, ApActual)
          /\ mode = "apsta" <=> LinkShown = "disconnected"
      BY DEF WifiInv, Settled
    <2>3. Settles(events', Links, LinkShown', LinkActual')
      <3>1. CASE e \in Links
        BY <1>1, <3>1, SettlesNew
      <3>2. CASE e \notin Links
        BY <1>1, <2>1, <2>2, <3>2, SettlesAppend
      <3> QED
        BY <3>1, <3>2
    <2>4. Settles(events', Aps, ApShown', ApActual')
      BY <1>1, <2>1, <2>2, SettlesAppend
    <2> QED
      BY <2>1, <2>2, <2>3, <2>4
  <1> QED
    BY <1>3, <1>4, <1>5, <1>6 DEF WifiInv

(* A step that leaves the events and what they say alone.                      *)
LEMMA CalmStep ==
    ASSUME WifiInv,
           UNCHANGED <<events, configured, mode, apStations, isConnected, apEnabled, excused>>,
           LinkActual' = LinkActual,
           (sta' = sta /\ handler' = handler)
           \/ (handler = "asleep" /\ handler' = "idle" /\ sta' # "idle")
    PROVE  WifiInv'
  <1>1. Unstarted(events', sta', handler')
    BY DEF WifiInv, Unstarted
  <1>2. Ahead'
    BY DEF WifiInv, Ahead
  <1>3. WifiKinds'
    BY DEF WifiInv, WifiKinds
  <1>4. LinkShown' = LinkShown /\ ApShown' = ApShown /\ ApActual' = ApActual
    BY DEF LinkShown, ApShown, ApActual
  <1>5. Settled'
    BY <1>4 DEF WifiInv, Settled
  <1> QED
    BY <1>1, <1>2, <1>3, <1>5 DEF WifiInv

(* A handler that leaves the station's link alone.                             *)
LEMMA TakeStep ==
    ASSUME WifiInv, events # <<>>, Head(events) \notin Links, events' = Tail(events),
           UNCHANGED <<configured, mode, apStations, handler, isConnected, excused>>,
           apEnabled' \in BOOLEAN,
           ApShown' = IF Head(events) \in Aps THEN Head(events) ELSE ApShown,
           \/ sta' = sta /\ Head(events) # "sta_start"
           \/ sta' = "connecting" /\ Head(events) = "sta_start"
    PROVE  WifiInv'
  <1>1. events \in Seq(Events) /\ events' \in Seq(Events)
    BY TailIs DEF WifiInv, WifiKinds
  <1>2. Unstarted(events', sta', handler')
    <2>1. Unstarted(events, sta, handler)
      BY DEF WifiInv
    <2> QED
      BY <1>1, <2>1, TakenIs
  <1>3. Ahead'
    <2>1. Leads(events) /\ Head(events) \notin {"sta_start", "disconnected"} => Leads(events')
      BY <1>1, TakenIs
    <2> QED
      BY <2>1 DEF WifiInv, Ahead, Links
  <1>4. WifiKinds'
    BY <1>1 DEF WifiInv, WifiKinds
  <1>5. Settled'
    <2> SUFFICES ASSUME excused = {}
                 PROVE  /\ Settles(events', Links, LinkShown', LinkActual')
                        /\ Settles(events', Aps, ApShown', ApActual')
                        /\ mode' = "apsta" <=> LinkShown' = "disconnected"
      BY DEF Settled
    <2>1. LinkShown' = LinkShown /\ ApActual' = ApActual
      BY DEF LinkShown, ApActual
    <2>2. LinkActual' = LinkActual
      <3>1. CASE sta' = sta
        BY <3>1 DEF LinkActual
      <3>2. CASE sta' = "connecting" /\ Head(events) = "sta_start"
        <4>1. 1 \in DOMAIN events /\ events[1] = "sta_start"
          BY <1>1, <3>2, TailIs
        <4>2. sta = "idle"
          BY <4>1 DEF WifiInv, Unstarted
        <4> QED
          BY <3>2, <4>2 DEF LinkActual
      <3> QED
        BY <3>1, <3>2
    <2>3. /\ Settles(events, Links, LinkShown, LinkActual)
          /\ Settles(events, Aps, ApShown, ApActual)
          /\ mode = "apsta" <=> LinkShown = "disconnected"
      BY DEF WifiInv, Settled
    <2>4. Settles(events', Links, LinkShown', LinkActual')
      BY <1>1, <2>1, <2>2, <2>3, SettlesTail
    <2>5. Settles(events', Aps, ApShown', ApActual')
      BY <1>1, <2>1, <2>3, SettlesTail
    <2> QED
      BY <2>1, <2>3, <2>4, <2>5
  <1> QED
    BY <1>2, <1>3, <1>4, <1>5 DEF WifiInv

(* A handler that says the station may be left alone.                          *)
LEMMA ExcusedStep ==
    ASSUME WifiInv, events # <<>>, events' = Tail(events),
           UNCHANGED <<configured, mode, apStations, sta, handler, isConnected, apEnabled>>,
           excused' \cap {"client", "scan"} # {}
    PROVE  WifiInv'
  <1>1. events \in Seq(Events) /\ events' \in Seq(Events) /\ Unstarted(events, sta, handler)
    BY TailIs DEF WifiInv, WifiKinds
  <1>2. Unstarted(events', sta', handler')
    BY <1>1, TakenIs
  <1>3. Ahead' /\ Settled'
    BY DEF Ahead, Settled
  <1> QED
    BY <1>1, <1>2, <1>3 DEF WifiInv, WifiKinds

(* The two handlers that change the mode with the flag.                        *)
LEMMA LinkStep ==
    ASSUME WifiInv, events # <<>>, Head(events) \in Links, NEW m \in {"sta", "apsta"},
           SetMode(m, Tail(events)), m = "apsta" <=> Head(events) = "disconnected",
           isConnected' = (Head(events) = "got_ip"), handler' \in {"idle", "asleep"},
           UNCHANGED <<configured, sta, apEnabled, excused>>,
           Head(events) = "disconnected" => handler' = "asleep",
           Head(events) = "got_ip" => handler' = handler
    PROVE  WifiInv'
  <1> DEFINE rest == Tail(events)
  <1>1. /\ events \in Seq(Events) /\ rest \in Seq(Events) /\ Unstarted(events, sta, handler)
        /\ WifiKinds
    BY TailIs DEF WifiInv, WifiKinds
  <1>2. /\ Unstarted(rest, sta', handler')
        /\ Leads(events) /\ Head(events) = "got_ip" => Leads(rest)
    BY <1>1, TakenIs DEF Links
  <1>3. /\ excused = {} => Settles(rest, Links, Head(events), LinkActual)
        /\ excused = {} => Settles(rest, Aps, ApShown, ApActual)
    <2>1. Head(events) \notin Aps
      BY DEF Links, Aps
    <2> QED
      BY <1>1, <2>1, SettlesTail DEF WifiInv, Settled
  <1> HIDE DEF rest
  <1>4. /\ events' \in Seq(Events) /\ apStations' \in Nat /\ mode' = m
        /\ Leads(rest) => Leads(events')
        /\ \A s, h : Unstarted(rest, s, h) => Unstarted(events', s, h)
        /\ \A a, b : Settles(rest, Links, a, b) => Settles(events', Links, a, b)
        /\ \A a : Settles(rest, Aps, a, ApActual) => Settles(events', Aps, a, ApActual')
    <2>1. SetMode(m, rest)
      BY DEF rest
    <2> QED
      BY <1>1, <2>1, SetModeIs
  <1>5. WifiKinds'
    BY <1>1, <1>4 DEF WifiKinds
  <1>6. Ahead'
    BY <1>2, <1>4 DEF WifiInv, Ahead, Links
  <1>7. Settled'
    <2> SUFFICES ASSUME excused = {}
                 PROVE  /\ Settles(events', Links, LinkShown', LinkActual')
                        /\ Settles(events', Aps, ApShown', ApActual')
                        /\ mode' = "apsta" <=> LinkShown' = "disconnected"
      BY DEF Settled
    <2>1. /\ LinkShown' = Head(events) /\ ApShown' = ApShown /\ LinkActual' = LinkActual
      BY DEF LinkShown, ApShown, LinkActual, Links
    <2> QED
      BY <1>3, <1>4, <2>1
  <1> QED
    BY <1>2, <1>4, <1>5, <1>6, <1>7 DEF WifiInv

(* The button.                                                                 *)
LEMMA ToggleStep ==
    ASSUME WifiInv, ToggleAp
    PROVE  WifiInv'
  <1>1. PICK m \in {"sta", "apsta"} : SetMode(m, events)
    BY DEF ToggleAp
  <1>2. events \in Seq(Events) /\ WifiKinds /\ Unstarted(events, sta, handler)
    BY DEF WifiInv, WifiKinds
  <1>3. /\ events' \in Seq(Events) /\ apStations' \in Nat /\ mode' = m
        /\ Leads(events) => Leads(events')
        /\ Unstarted(events', sta, handler)
    BY <1>1, <1>2, SetModeIs
  <1>4. /\ UNCHANGED <<configured, sta, handler, isConnected, apEnabled>>
        /\ excused' = excused \cup {"toggle"}
    BY DEF ToggleAp, flagVars
  <1>5. WifiKinds'
    BY <1>2, <1>3, <1>4 DEF WifiKinds
  <1>6. Ahead'
    BY <1>3, <1>4 DEF WifiInv, Ahead
  <1>7. Settled'
    BY <1>4 DEF Settled
  <1> QED
    BY <1>3, <1>4, <1>5, <1>6, <1>7 DEF WifiInv

LEMMA StepWifi ==
    ASSUME WifiInv, WifiNext
    PROVE  WifiInv'
  <1>0. /\ events \in Seq(Events) /\ apStations \in Nat /\ apEnabled \in BOOLEAN
        /\ isConnected \in BOOLEAN /\ handler \in {"idle", "asleep"}
    BY DEF WifiInv, WifiKinds
  <1>1. CASE Associate
    <2>1. "connected" \in Events \ (Aps \cup {"sta_start"}) /\ "connected" \notin Links
      BY DEF Events, Aps, Links
    <2>2. /\ events' = Append(events, "connected") /\ sta = "connecting" /\ sta' = "associated"
          /\ LinkActual' = LinkActual
          /\ UNCHANGED <<configured, mode, handler, isConnected, apEnabled, excused, apStations>>
      BY <1>1 DEF Associate, Post, flagVars, LinkActual
    <2> QED
      BY <1>0, <2>1, <2>2, PostStep
  <1>2. CASE GetAddress
    <2>1. "got_ip" \in Events \ (Aps \cup {"sta_start"}) /\ "got_ip" \in Links
      BY DEF Events, Aps, Links
    <2>2. /\ events' = Append(events, "got_ip") /\ sta = "associated" /\ sta' = "ip"
          /\ LinkActual' = "got_ip"
          /\ UNCHANGED <<configured, mode, handler, isConnected, apEnabled, excused, apStations>>
      BY <1>2 DEF GetAddress, Post, flagVars, LinkActual
    <2> QED
      BY <1>0, <2>1, <2>2, PostStep
  <1>3. ASSUME sta # "idle", sta' = "idle", Post("disconnected"), apStations' = apStations,
               UNCHANGED <<configured, mode, handler, isConnected, apEnabled, excused>>
        PROVE  WifiInv'
    <2>1. "disconnected" \in Events \ (Aps \cup {"sta_start"}) /\ "disconnected" \in Links
      BY DEF Events, Aps, Links
    <2>2. events' = Append(events, "disconnected") /\ LinkActual' = "disconnected"
      BY <1>3 DEF Post, LinkActual
    <2> QED
      BY <1>0, <1>3, <2>1, <2>2, PostStep
  <1>4. CASE Lose
    BY <1>3, <1>4 DEF Lose, flagVars
  <1>5. CASE Roam
    <2>1. "roaming" \in Events \ (Aps \cup {"sta_start"}) /\ "roaming" \notin Links
      BY DEF Events, Aps, Links
    <2>2. /\ events' = Append(events, "roaming") /\ LinkActual' = LinkActual
          /\ UNCHANGED <<configured, mode, sta, handler, isConnected, apEnabled, excused,
                         apStations>>
      BY <1>5 DEF Roam, Post, staVars, flagVars, LinkActual
    <2> QED
      BY <1>0, <2>1, <2>2, PostStep
  <1>6. CASE ApJoin \/ ApLeave
    <2>1. PICK e \in {"ap_join", "ap_leave"} : Post(e)
      BY <1>6 DEF ApJoin, ApLeave
    <2>2. e \in Events \ (Aps \cup {"sta_start"}) /\ e \notin Links
      BY DEF Events, Aps, Links
    <2>3. /\ events' = Append(events, e) /\ LinkActual' = LinkActual
          /\ UNCHANGED <<configured, mode, sta, handler, isConnected, apEnabled, excused>>
      BY <1>6, <2>1 DEF ApJoin, ApLeave, Post, flagVars, LinkActual
    <2>4. apStations' \in Nat
      BY <1>0, <1>6 DEF ApJoin, ApLeave
    <2> QED
      BY <2>2, <2>3, <2>4, PostStep
  <1>7. CASE IgnoreWhileScanning
    <2>1. /\ events # <<>> /\ events' = Tail(events) /\ excused' = excused \cup {"scan"}
          /\ UNCHANGED <<configured, mode, apStations, sta, handler, isConnected, apEnabled>>
      BY <1>7 DEF IgnoreWhileScanning, Taken, staVars, flagVars
    <2> QED
      BY <2>1, ExcusedStep
  <1>8. CASE OnScanDone \/ OnConnected \/ OnRoaming
    <2>1. /\ events # <<>> /\ Head(events) \in {"scan_done", "connected", "roaming"}
          /\ events' = Tail(events)
          /\ UNCHANGED <<configured, mode, apStations, sta, handler, isConnected, apEnabled,
                         excused>>
      BY <1>8 DEF OnScanDone, OnConnected, OnRoaming, First, Taken, staVars, flagVars
    <2>2. Head(events) \notin Links /\ Head(events) \notin Aps /\ Head(events) # "sta_start"
      BY <2>1 DEF Links, Aps
    <2>3. ApShown' = ApShown
      BY <2>1 DEF ApShown
    <2> QED
      BY <1>0, <2>1, <2>2, <2>3, TakeStep
  <1>9. CASE OnStart
    <2>1. /\ events # <<>> /\ Head(events) = "sta_start" /\ sta' = "connecting"
          /\ events' = Tail(events)
          /\ UNCHANGED <<configured, mode, apStations, handler, isConnected, apEnabled, excused>>
      BY <1>9 DEF OnStart, First, Taken, flagVars
    <2>2. Head(events) \notin Links /\ Head(events) \notin Aps
      BY <2>1 DEF Links, Aps
    <2>3. ApShown' = ApShown
      BY <2>1 DEF ApShown
    <2> QED
      BY <1>0, <2>1, <2>2, <2>3, TakeStep
  <1>10. CASE OnDisconnected
    <2>1. CASE apClients > 0
      <3>1. /\ events # <<>> /\ events' = Tail(events) /\ excused' = excused \cup {"client"}
            /\ UNCHANGED <<configured, mode, apStations, sta, handler, isConnected, apEnabled>>
        BY <1>10, <2>1 DEF OnDisconnected, Disconnected, First, Taken
      <3> QED
        BY <3>1, ExcusedStep
    <2>2. CASE ~(apClients > 0)
      <3>1. /\ events # <<>> /\ Head(events) = "disconnected" /\ SetMode("apsta", Tail(events))
            /\ isConnected' = FALSE /\ handler' = "asleep"
            /\ UNCHANGED <<configured, sta, apEnabled, excused>>
        BY <1>10, <2>2 DEF OnDisconnected, Disconnected, First, Taken
      <3>2. Head(events) \in Links /\ isConnected' = (Head(events) = "got_ip")
        BY <3>1 DEF Links
      <3> QED
        BY <3>1, <3>2, LinkStep
    <2> QED
      BY <2>1, <2>2
  <1>11. CASE Retry
    <2>1. /\ UNCHANGED <<events, configured, mode, apStations, isConnected, apEnabled, excused>>
          /\ handler = "asleep" /\ handler' = "idle" /\ sta' # "idle"
          /\ LinkActual' = LinkActual
      BY <1>11 DEF Retry, LinkActual
    <2> QED
      BY <2>1, CalmStep
  <1>12. CASE OnAccessPoint
    <2>1. /\ events # <<>> /\ events' = Tail(events)
          /\ Head(events) \in {"ap_start", "ap_stop", "ap_join", "ap_leave"}
          /\ UNCHANGED <<configured, mode, apStations, sta, handler, isConnected, excused>>
      BY <1>12 DEF OnAccessPoint, Taken, staVars
    <2>2. /\ apEnabled' \in BOOLEAN
          /\ ApShown' = IF Head(events) \in Aps THEN Head(events) ELSE ApShown
      <3>1. apEnabled' = IF Head(events) = "ap_start" THEN TRUE
                         ELSE IF Head(events) = "ap_stop" THEN FALSE ELSE apEnabled
        BY <1>12 DEF OnAccessPoint
      <3> QED
        BY <1>0, <2>1, <3>1 DEF ApShown, Aps
    <2>3. Head(events) \notin Links /\ Head(events) # "sta_start"
      BY <2>1 DEF Links
    <2> QED
      BY <2>1, <2>2, <2>3, TakeStep
  <1>13. CASE OnGotIp
    <2>1. /\ events # <<>> /\ Head(events) = "got_ip" /\ SetMode("sta", Tail(events))
          /\ isConnected' = TRUE /\ handler' = handler
          /\ UNCHANGED <<configured, sta, apEnabled, excused>>
      BY <1>13 DEF OnGotIp, First, Taken
    <2>2. Head(events) \in Links /\ isConnected' = (Head(events) = "got_ip")
      BY <2>1 DEF Links
    <2> QED
      BY <1>0, <2>1, <2>2, LinkStep
  <1>14. ASSUME UNCHANGED <<events, configured, mode, apStations, isConnected, apEnabled,
                            excused, sta, handler>>
         PROVE  WifiInv'
    <2>1. LinkActual' = LinkActual
      BY <1>14 DEF LinkActual
    <2> QED
      BY <1>14, <2>1, CalmStep
  <1>15. ASSUME NEW ok \in BOOLEAN, MdnsInit(ok)
         PROVE  WifiInv'
    BY <1>14, <1>15 DEF MdnsInit, staVars
  <1>16. ASSUME NEW ok \in BOOLEAN, ScanRuns(ok)
         PROVE  WifiInv'
    <2>1. CASE Post("scan_done")
      <3>1. "scan_done" \in Events \ (Aps \cup {"sta_start"}) /\ "scan_done" \notin Links
        BY DEF Events, Aps, Links
      <3>2. /\ events' = Append(events, "scan_done") /\ LinkActual' = LinkActual
            /\ UNCHANGED <<configured, mode, sta, handler, isConnected, apEnabled, excused,
                           apStations>>
        BY <1>16, <2>1 DEF ScanRuns, Post, staVars, flagVars, LinkActual
      <3> QED
        BY <1>0, <3>1, <3>2, PostStep
    <2>2. CASE UNCHANGED events
      BY <1>14, <1>16, <2>2 DEF ScanRuns, staVars, flagVars
    <2> QED
      BY <1>16, <2>1, <2>2 DEF ScanRuns
  <1>17. CASE IpTimeout \/ ScanStart
    <2>1. UNCHANGED <<configured, mode, apStations, handler, isConnected, apEnabled, excused>>
      BY <1>17 DEF IpTimeout, ScanStart, flagVars
    <2>2. UNCHANGED <<sta, events>> \/ (sta # "idle" /\ sta' = "idle" /\ Post("disconnected"))
      BY <1>17 DEF IpTimeout, ScanStart, Drop
    <2> QED
      BY <1>3, <1>14, <2>1, <2>2
  <1>18. CASE ScanEnds
    BY <1>14, <1>18 DEF ScanEnds, staVars, flagVars
  <1>19. CASE ToggleAp
    BY <1>19, ToggleStep
  <1> QED
    BY <1>1, <1>2, <1>4, <1>5, <1>6, <1>7, <1>8, <1>9, <1>10, <1>11, <1>12, <1>13, <1>15,
       <1>16, <1>17, <1>18, <1>19 DEF WifiNext

LEMMA StutterWifi ==
    ASSUME WifiInv, UNCHANGED wifiVars
    PROVE  WifiInv'
  <1>1. /\ UNCHANGED <<events, configured, mode, apStations, isConnected, apEnabled, excused,
                       sta, handler>>
        /\ LinkActual' = LinkActual
    BY DEF wifiVars, LinkActual
  <1> QED
    BY <1>1, CalmStep

LEMMA InitWifi ==
    ASSUME WifiInit
    PROVE  WifiInv
  <1>1. CASE configured = TRUE
    <2>1. events = <<"ap_start", "sta_start">>
      BY <1>1 DEF WifiInit
    <2>2. DOMAIN events = {1, 2} /\ events[1] = "ap_start" /\ events[2] = "sta_start"
      BY <2>1
    <2>3. events \in Seq(Events)
      BY <2>1 DEF Events
    <2>4. WifiKinds
      BY <2>3 DEF WifiInit, WifiKinds
    <2>5. Unstarted(events, sta, handler) /\ Ahead
      BY <2>2 DEF WifiInit, Unstarted, Ahead, Leads, Links
    <2>6. Settled
      BY <2>2 DEF WifiInit, Settled, Settles, Links, Aps, LinkShown, LinkActual, ApShown, ApActual
    <2> QED
      BY <2>4, <2>5, <2>6 DEF WifiInv
  <1>2. CASE configured = FALSE
    <2>1. events = <<"ap_start">>
      BY <1>2 DEF WifiInit
    <2>2. DOMAIN events = {1} /\ events[1] = "ap_start"
      BY <2>1
    <2>3. events \in Seq(Events)
      BY <2>1 DEF Events
    <2>4. WifiKinds
      BY <2>3 DEF WifiInit, WifiKinds
    <2>5. Unstarted(events, sta, handler) /\ Ahead
      BY <1>2, <2>2 DEF WifiInit, Unstarted, Ahead
    <2>6. Settled
      BY <2>2 DEF WifiInit, Settled, Settles, Links, Aps, LinkShown, LinkActual, ApShown, ApActual
    <2> QED
      BY <2>4, <2>5, <2>6 DEF WifiInv
  <1> QED
    BY <1>1, <1>2 DEF WifiInit

(* KeepsTrying for any number of stations, losses, scans and waiting events:   *)
(* event_handler never forgets a station that lost its network.                *)
THEOREM AlwaysKeepsTrying == WifiSpec => []KeepsTrying
  <1>1. WifiInit => WifiInv
    BY InitWifi
  <1>2. WifiInv /\ [WifiNext]_wifiVars => WifiInv'
    BY StepWifi, StutterWifi
  <1>3. WifiInv => KeepsTrying
    BY DEF WifiInv, Ahead, Leads, KeepsTrying, Quiet
  <1> QED
    BY <1>1, <1>2, <1>3, PTL DEF WifiSpec

(* ReachableAndTruthful for the same: once its events are handled the device   *)
(* shows the link it has, and has its access point up without one.             *)
THEOREM AlwaysReachable == WifiSpec => []ReachableAndTruthful
  <1>1. WifiInit => WifiInv
    BY InitWifi
  <1>2. WifiInv /\ [WifiNext]_wifiVars => WifiInv'
    BY StepWifi, StutterWifi
  <1>3. WifiInv => ReachableAndTruthful
    <2> SUFFICES ASSUME WifiInv, Quiet, excused = {}
                 PROVE  /\ isConnected <=> sta = "ip"
                        /\ sta # "ip" => mode = "apsta" /\ apEnabled
      BY DEF ReachableAndTruthful
    <2>1. DOMAIN events = {}
      BY DEF Quiet
    <2>2. /\ LinkShown = LinkActual /\ ApShown = ApActual
          /\ mode = "apsta" <=> LinkShown = "disconnected"
      BY <2>1 DEF WifiInv, Settled, Settles
    <2>3. isConnected \in BOOLEAN /\ apEnabled \in BOOLEAN
      BY DEF WifiInv, WifiKinds
    <2> QED
      BY <2>2, <2>3 DEF LinkShown, LinkActual, ApShown, ApActual
  <1> QED
    BY <1>1, <1>2, <1>3, PTL DEF WifiSpec
=============================================================================
