-------------------------------- MODULE Wifi --------------------------------
(***************************************************************************)
(* connect.c: the station that joins the user's network and the access     *)
(* point through which the device is configured.  The WiFi driver posts    *)
(* events; event_handler takes them one at a time on the event task, and   *)
(* sleeps there for five seconds before it retries.  The HTTP task scans   *)
(* for networks, a timer watches for an address, the user's button toggles *)
(* the access point.                                                       *)
(***************************************************************************)
EXTENDS Integers, Sequences

CONSTANTS
    MaxAp,       \* bound: stations on the access point
    MaxEvents,   \* bound: events waiting
    MaxLosses,   \* bound: times the network is lost or refuses
    MaxScans     \* bound: scans and toggles

VARIABLES
    configured,  \* an SSID is stored
    mode,        \* the driver's mode: station, or station and access point
    sta,         \* what the station does
    apStations,  \* stations on the access point
    events,      \* events posted and not handled
    handler,     \* "idle", or the event task asleep before its retry
    isConnected, \* SYSTEM_MODULE.is_connected
    apEnabled,   \* SYSTEM_MODULE.ap_enabled
    apClients,   \* clients_connected_to_ap
    timer,       \* ip_acquire_timer runs
    scan,        \* what wifi_scan does: none, delay, wait
    isScanning,  \* is_scanning
    mdns,        \* mDNS: none, starting, done
    losses, scans,   \* history, for the bounds
    excused      \* history: why the station may have been left alone

wifiVars == <<configured, mode, sta, apStations, events, handler, isConnected,
          apEnabled, apClients, timer, scan, isScanning, mdns, losses, scans,
          excused>>

staVars == <<sta, mode, apStations>>
flagVars == <<isConnected, apEnabled, apClients, timer, mdns>>
userVars == <<scan, isScanning, scans>>

Events == {"sta_start", "connected", "got_ip", "disconnected", "roaming",
           "ap_start", "ap_stop", "ap_join", "ap_leave", "scan_done"}

WifiTypeOK ==
    /\ configured \in BOOLEAN /\ mode \in {"sta", "apsta"}
    /\ sta \in {"idle", "connecting", "associated", "ip"}
    /\ apStations \in 0 .. MaxAp /\ events \in Seq(Events)
    /\ handler \in {"idle", "asleep"}
    /\ isConnected \in BOOLEAN /\ apEnabled \in BOOLEAN /\ timer \in BOOLEAN
    /\ apClients \in Int /\ isScanning \in BOOLEAN
    /\ scan \in {"none", "delay", "wait"} /\ mdns \in {"none", "starting", "done"}
    /\ excused \subseteq {"client", "scan", "toggle"}

\* wifi_init: access point and station are started; without an SSID the station
\* is not set up.
WifiInit ==
    /\ configured \in BOOLEAN
    /\ mode = "apsta" /\ sta = "idle" /\ apStations = 0
    /\ events = IF configured THEN <<"ap_start", "sta_start">> ELSE <<"ap_start">>
    /\ handler = "idle" /\ isConnected = FALSE /\ apEnabled = FALSE
    /\ apClients = 0 /\ timer = FALSE /\ scan = "none" /\ isScanning = FALSE
    /\ mdns = "none" /\ losses = 0 /\ scans = 0 /\ excused = {}

-----------------------------------------------------------------------------
(* The driver *)

Post(e) == events' = Append(events, e)
Room == Len(events) < MaxEvents

Associate ==
    /\ sta = "connecting" /\ Room
    /\ sta' = "associated" /\ Post("connected")
    /\ UNCHANGED <<configured, mode, apStations, handler, flagVars, userVars,
                   losses, excused>>

GetAddress ==
    /\ sta = "associated" /\ Room
    /\ sta' = "ip" /\ Post("got_ip")
    /\ UNCHANGED <<configured, mode, apStations, handler, flagVars, userVars,
                   losses, excused>>

\* The attempt fails, or the network goes.
Lose ==
    /\ sta # "idle" /\ Room /\ losses < MaxLosses
    /\ sta' = "idle" /\ Post("disconnected") /\ losses' = losses + 1
    /\ UNCHANGED <<configured, mode, apStations, handler, flagVars, userVars,
                   excused>>

\* The driver moves to a better access point by itself.
Roam ==
    /\ sta = "ip" /\ Room /\ losses < MaxLosses
    /\ Post("roaming") /\ losses' = losses + 1
    /\ UNCHANGED <<configured, staVars, handler, flagVars, userVars, excused>>

ApJoin ==
    /\ mode = "apsta" /\ apStations < MaxAp /\ Room /\ losses < MaxLosses
    /\ apStations' = apStations + 1 /\ Post("ap_join")
    /\ UNCHANGED <<configured, mode, sta, handler, flagVars, userVars, losses,
                   excused>>

ApLeave ==
    /\ apStations > 0 /\ Room
    /\ apStations' = apStations - 1 /\ Post("ap_leave")
    /\ UNCHANGED <<configured, mode, sta, handler, flagVars, userVars, losses,
                   excused>>

\* esp_wifi_set_mode, and the events it makes the driver post after `rest`: an
\* access point that goes loses its stations.
SetMode(m, rest) ==
    /\ mode' = m
    /\ apStations' = IF m = "sta" THEN 0 ELSE apStations
    /\ events' = IF m = mode THEN rest
                 ELSE IF m = "apsta" THEN Append(rest, "ap_start")
                 ELSE rest \o [i \in 1 .. apStations |-> "ap_leave"] \o <<"ap_stop">>

-----------------------------------------------------------------------------
(* event_handler *)

First(e) == handler = "idle" /\ events # <<>> /\ Head(events) = e
Taken == Tail(events)

\* Every WiFi event but the end of a scan is ignored during a scan.
IgnoreWhileScanning ==
    /\ handler = "idle" /\ events # <<>> /\ isScanning
    /\ Head(events) \notin {"scan_done", "got_ip"}
    /\ events' = Taken /\ excused' = excused \cup {"scan"}
    /\ UNCHANGED <<configured, staVars, handler, flagVars, userVars, losses>>

OnScanDone ==
    /\ First("scan_done")
    /\ events' = Taken /\ isScanning' = FALSE
    /\ UNCHANGED <<configured, staVars, handler, flagVars, scan, scans, losses,
                   excused>>

OnStart ==
    /\ First("sta_start") /\ ~isScanning
    /\ events' = Taken /\ sta' = "connecting"
    /\ UNCHANGED <<configured, mode, apStations, handler, flagVars, userVars,
                   losses, excused>>

OnConnected ==
    /\ First("connected") /\ ~isScanning
    /\ events' = Taken /\ timer' = TRUE
    /\ UNCHANGED <<configured, staVars, handler, isConnected, apEnabled, apClients,
                   mdns, userVars, losses, excused>>

OnRoaming ==
    /\ First("roaming") /\ ~isScanning
    /\ events' = Taken
    /\ UNCHANGED <<configured, staVars, handler, flagVars, userVars, losses,
                   excused>>

Disconnected(ap, next) ==
    /\ First("disconnected") /\ ~isScanning
    /\ IF apClients > 0
       THEN /\ events' = Taken /\ excused' = excused \cup {"client"}
            /\ UNCHANGED <<mode, apStations, handler, isConnected>>
       ELSE /\ isConnected' = FALSE /\ SetMode(ap, Taken)
            /\ handler' = next /\ UNCHANGED excused
    /\ UNCHANGED <<configured, sta, apEnabled, apClients, timer, mdns, userVars,
                   losses>>

\* Mutants: the handler does not retry; it leaves the access point off.
Mut_NoRetry == Disconnected("apsta", "idle")
Mut_NoAccessPoint == Disconnected(mode, "asleep")

\* With somebody on the access point the station is left alone: not even the
\* flag is cleared.  Otherwise the access point comes up and the task sleeps.
OnDisconnected == Disconnected("apsta", "asleep")

\* After five seconds: retry, and stop the timer.
Retry ==
    /\ handler = "asleep"
    /\ handler' = "idle" /\ timer' = FALSE
    /\ sta' = IF sta = "idle" THEN "connecting" ELSE sta
    /\ UNCHANGED <<configured, mode, apStations, events, isConnected, apEnabled,
                   apClients, mdns, userVars, losses, excused>>

OnAccessPoint ==
    /\ handler = "idle" /\ events # <<>> /\ ~isScanning
    /\ LET e == Head(events)
       IN  /\ e \in {"ap_start", "ap_stop", "ap_join", "ap_leave"}
           /\ apEnabled' = IF e = "ap_start" THEN TRUE
                           ELSE IF e = "ap_stop" THEN FALSE ELSE apEnabled
           /\ apClients' = IF e = "ap_join" THEN apClients + 1
                           ELSE IF e = "ap_leave" THEN apClients - 1 ELSE apClients
    /\ events' = Taken
    /\ UNCHANGED <<configured, staVars, handler, isConnected, timer, mdns, userVars,
                   losses, excused>>

\* An address: the timer stops, the access point goes (its stations with it),
\* mDNS is started once.
OnGotIp ==
    /\ First("got_ip")
    /\ isConnected' = TRUE /\ timer' = FALSE
    /\ SetMode("sta", Taken)
    /\ mdns' = IF mdns = "none" THEN "starting" ELSE mdns
    /\ UNCHANGED <<configured, sta, handler, apEnabled, apClients, userVars, losses,
                   excused>>

\* mdns_init_task ends; without a hostname or after an error it may run again.
MdnsInit(ok) ==
    /\ mdns = "starting"
    /\ mdns' = IF ok THEN "done" ELSE "none"
    /\ UNCHANGED <<configured, staVars, events, handler, isConnected, apEnabled,
                   apClients, timer, userVars, losses, excused>>

-----------------------------------------------------------------------------
(* Timer, scan and button *)

Drop == IF sta = "idle" THEN UNCHANGED <<sta, events>>
        ELSE sta' = "idle" /\ Post("disconnected")

\* ip_timeout_callback: the association is given up when no address came.
IpTimeout ==
    /\ timer /\ Room
    /\ timer' = FALSE
    /\ IF isConnected THEN UNCHANGED <<sta, events>> ELSE Drop
    /\ UNCHANGED <<configured, mode, apStations, handler, isConnected, apEnabled,
                   apClients, mdns, userVars, losses, excused>>

\* wifi_scan: a station that is not associated is disconnected first.
ScanStart ==
    /\ ~isScanning /\ scan = "none" /\ scans < MaxScans /\ Room
    /\ isScanning' = TRUE /\ scan' = "delay" /\ scans' = scans + 1
    /\ IF sta \in {"associated", "ip"} THEN UNCHANGED <<sta, events>> ELSE Drop
    /\ UNCHANGED <<configured, mode, apStations, handler, flagVars, losses, excused>>

\* The scan is started in the driver, which may refuse.
ScanRuns(ok) ==
    /\ scan = "delay" /\ Room
    /\ IF ok THEN scan' = "wait" /\ Post("scan_done") /\ UNCHANGED isScanning
             ELSE scan' = "none" /\ isScanning' = FALSE /\ UNCHANGED events
    /\ UNCHANGED <<configured, staVars, handler, flagVars, scans, losses, excused>>

\* The result is there, or ten seconds have passed.
ScanEnds ==
    /\ scan = "wait"
    /\ scan' = "none" /\ isScanning' = FALSE
    /\ UNCHANGED <<configured, staVars, events, handler, flagVars, scans, losses,
                   excused>>

\* toggle_wifi_softap, from the button or the serial accessory port.
ToggleAp ==
    /\ scans < MaxScans /\ Room
    /\ scans' = scans + 1
    /\ SetMode(IF mode = "apsta" THEN "sta" ELSE "apsta", events)
    /\ excused' = excused \cup {"toggle"}
    /\ UNCHANGED <<configured, sta, handler, flagVars, scan, isScanning, losses>>

WifiNext ==
    \/ Associate \/ GetAddress \/ Lose \/ Roam \/ ApJoin \/ ApLeave
    \/ IgnoreWhileScanning \/ OnScanDone \/ OnStart \/ OnConnected \/ OnRoaming
    \/ OnDisconnected \/ Retry \/ OnAccessPoint \/ OnGotIp
    \/ \E ok \in BOOLEAN : MdnsInit(ok) \/ ScanRuns(ok)
    \/ IpTimeout \/ ScanStart \/ ScanEnds \/ ToggleAp

WifiSpec == WifiInit /\ [][WifiNext]_wifiVars

-----------------------------------------------------------------------------
(* Properties *)

Quiet == events = <<>> /\ handler = "idle" /\ ~isScanning

\* A configured device never stops trying to join its network, whatever order
\* losses, timeouts and addresses come in: an idle station has an event or a
\* retry ahead of it, unless somebody is on the access point or a scan swallowed
\* the event.
KeepsTrying ==
    configured /\ sta = "idle" /\ Quiet => excused \cap {"client", "scan"} # {}

\* The flag the pool tasks and the interface go by is true with an address
\* only, and the device can be reached one way or the other.
ReachableAndTruthful ==
    Quiet /\ excused = {} =>
        /\ isConnected <=> sta = "ip"
        /\ sta # "ip" => mode = "apsta" /\ apEnabled
=============================================================================
