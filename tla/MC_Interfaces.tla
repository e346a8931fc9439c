---------------------------- MODULE MC_Interfaces ----------------------------
(***************************************************************************)
(* The parts that face the network, the accessory and the user, checked in *)
(* one run.  They share no state that these modules describe: a behaviour  *)
(* is a behaviour of one of them, chosen at the start, while the others    *)
(* stay as they were initialised.  The two streams of WebSocket share only *)
(* the table of clients: either the log moves on or the system's state.    *)
(***************************************************************************)
EXTENDS Wifi, WebSocket, Bap, BapLine, Mqtt, Screen

VARIABLE part

\* The display timeouts: always on, always off, and a time.
MCTimeouts == {-1, 0, 2}

Init ==
    /\ part \in {"wifi", "log", "api", "bap", "line", "mqtt", "screen"}
    /\ WifiInit /\ SocketInit /\ BapInit /\ LineInit /\ MqttInit /\ ScreenInit
    /\ part # "wifi" => configured
    /\ part # "bap" => online
    /\ part # "mqtt" => enabled
    /\ part # "screen" => timeout = -1 /\ cond = {"selftest"}

WifiStep ==
    part = "wifi" /\ WifiNext
    /\ UNCHANGED <<part, socketVars, bapVars, lineVars, mqttVars, screenVars>>
SocketStep ==
    /\ part \in {"log", "api"} /\ SocketNext
    /\ part = "log" => version' = 0
    /\ part = "api" => total' = 0
    /\ UNCHANGED <<part, wifiVars, bapVars, lineVars, mqttVars, screenVars>>
BapStep ==
    part = "bap" /\ BapNext
    /\ UNCHANGED <<part, wifiVars, socketVars, lineVars, mqttVars, screenVars>>
LineStep ==
    part = "line" /\ LineNext
    /\ UNCHANGED <<part, wifiVars, socketVars, bapVars, mqttVars, screenVars>>
MqttStep ==
    part = "mqtt" /\ MqttNext
    /\ UNCHANGED <<part, wifiVars, socketVars, bapVars, lineVars, screenVars>>
DisplayStep ==
    part = "screen" /\ ScreenStep
    /\ UNCHANGED <<part, wifiVars, socketVars, bapVars, lineVars, mqttVars>>

Next == WifiStep \/ SocketStep \/ BapStep \/ LineStep \/ MqttStep \/ DisplayStep

Spec == Init /\ [][Next]_<<part, wifiVars, socketVars, bapVars, lineVars, mqttVars, screenVars>>
=============================================================================
