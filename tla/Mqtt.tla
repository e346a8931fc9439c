-------------------------------- MODULE Mqtt --------------------------------
(***************************************************************************)
(* mqtt_task.c: the task that publishes telemetry, and the event handler   *)
(* that the MQTT client's own task calls.  The client and the certificate  *)
(* it points to are created and released by the first; whether it is       *)
(* connected and how often it failed is written by both.                   *)
(***************************************************************************)
EXTENDS Integers

CONSTANTS
    GiveUpAfter,  \* MQTT_FALHAS_ATE_DESISTIR
    MaxFailures,  \* bound: consecutive failures
    MaxEdits,     \* bound: changes of the settings
    MaxDrops      \* bound: failures of the network

VARIABLES
    mqttStep,    \* where mqtt_task is
    publishing,  \* was_enabled
    client,      \* s_client: "none", "running", or "stopping" inside esp_mqtt_client_stop
    cert,        \* s_ca_cert is allocated
    connected,   \* s_connected
    failures,    \* s_falhas_seguidas
    enabled,     \* NVS_CONFIG_MQTT_ENABLED
    reachable,   \* the network, and the broker behind it
    sent,        \* history: what esp_mqtt_client_publish was last called with
    edits,       \* history, for the bound
    drops        \* history, for the bound

mqttVars == <<mqttStep, publishing, client, cert, connected, failures, enabled, reachable, sent,
              edits, drops>>

\* The stop has a step of its own: the client's task still delivers events in it.
MqttTypeOK ==
    /\ mqttStep \in {"loop", "publish", "stopping", "probe"}
    /\ client \in {"none", "running", "stopping"}
    /\ failures \in 0 .. MaxFailures
    /\ reachable \in [wifi : BOOLEAN, broker : BOOLEAN]

MqttInit ==
    /\ mqttStep = "loop" /\ publishing = FALSE /\ client = "none" /\ cert = FALSE
    /\ connected = FALSE /\ failures = 0 /\ enabled \in BOOLEAN
    /\ reachable = [wifi |-> TRUE, broker |-> TRUE] /\ sent = "nothing" /\ edits = 0 /\ drops = 0

environment == <<enabled, reachable, edits, drops>>

-----------------------------------------------------------------------------
(* mqtt_task *)

\* Disabled: the connection is dropped, once.
Disabled ==
    /\ mqttStep = "loop" /\ ~enabled
    /\ IF publishing THEN client' = "stopping" /\ mqttStep' = "stopping" /\ publishing' = FALSE
       ELSE UNCHANGED <<client, mqttStep, publishing>>
    /\ UNCHANGED <<cert, connected, failures, sent, environment>>

\* mqtt_client_start, over TLS or not: the certificate stays for as long as the
\* client lives and goes when there is none.  A broker that is not configured, or a
\* client that does not start, leaves the task to try again.
ClientStart ==
    /\ mqttStep = "loop" /\ enabled /\ reachable.wifi /\ ~publishing
    /\ \/ client' = "running" /\ cert' = TRUE /\ publishing' = TRUE /\ mqttStep' = "publish"
       \/ client' = "none" /\ cert' = FALSE /\ UNCHANGED <<publishing, mqttStep>>
    /\ UNCHANGED <<connected, failures, sent, environment>>

\* A later pass; without WiFi it waits.
Continue ==
    /\ mqttStep = "loop" /\ enabled /\ reachable.wifi /\ publishing /\ mqttStep' = "publish"
    /\ UNCHANGED <<publishing, client, cert, connected, failures, sent, environment>>

\* Too many failures: the client is dropped until the broker can be reached.
GiveUp ==
    /\ mqttStep = "publish" /\ failures >= GiveUpAfter
    /\ client' = "stopping" /\ mqttStep' = "stopping"
    /\ UNCHANGED <<publishing, cert, connected, failures, sent, environment>>

\* mqtt_publish_telemetry, if connected; then the interval.
Publish ==
    /\ mqttStep = "publish" /\ failures < GiveUpAfter /\ mqttStep' = "loop"
    /\ sent' = IF connected THEN client ELSE sent
    /\ UNCHANGED <<publishing, client, cert, connected, failures, environment>>

\* Mutant: the flag of the stopped client stays.
Mut_ClientStopped ==
    /\ mqttStep = "stopping"
    /\ client' = "none" /\ cert' = FALSE /\ failures' = 0
    /\ mqttStep' = IF publishing THEN "probe" ELSE "loop"
    /\ publishing' = FALSE
    /\ UNCHANGED <<connected, sent, environment>>

\* The rest of mqtt_client_stop, once the client's task has ended: only now are the
\* flags reset and the certificate freed.  After giving up the task probes.
ClientStopped ==
    /\ mqttStep = "stopping"
    /\ client' = "none" /\ connected' = FALSE /\ failures' = 0 /\ cert' = FALSE
    /\ mqttStep' = IF publishing THEN "probe" ELSE "loop"
    /\ publishing' = FALSE
    /\ UNCHANGED <<sent, environment>>

\* The probe: a TCP connection, until it succeeds or publishing is disabled.
Probe ==
    /\ mqttStep = "probe"
    /\ (enabled => reachable.wifi /\ reachable.broker) /\ mqttStep' = "loop"
    /\ UNCHANGED <<publishing, client, cert, connected, failures, sent, environment>>

-----------------------------------------------------------------------------
(* The client's task *)

EventConnected ==
    /\ client # "none" /\ ~connected /\ reachable.wifi /\ reachable.broker
    /\ connected' = TRUE /\ failures' = 0
    /\ UNCHANGED <<mqttStep, publishing, client, cert, sent, environment>>

\* A connection that ended, or an attempt that failed.
EventDisconnected ==
    /\ client # "none" /\ failures < MaxFailures
    /\ connected \/ ~reachable.wifi \/ ~reachable.broker
    /\ connected' = FALSE /\ failures' = failures + 1
    /\ UNCHANGED <<mqttStep, publishing, client, cert, sent, environment>>

\* The settings page.
Edit ==
    /\ edits < MaxEdits /\ edits' = edits + 1 /\ enabled' = ~enabled
    /\ UNCHANGED <<mqttStep, publishing, client, cert, connected, failures, reachable, sent, drops>>

\* The network or the broker goes away, and comes back.
NetworkChange ==
    /\ \E r \in [wifi : BOOLEAN, broker : BOOLEAN] \ {reachable} :
          /\ reachable' = r
          /\ drops' = IF r.wifi /\ r.broker THEN drops ELSE drops + 1
    /\ drops' <= MaxDrops
    /\ UNCHANGED <<mqttStep, publishing, client, cert, connected, failures, enabled, sent, edits>>

MqttTask == Disabled \/ ClientStart \/ Continue \/ GiveUp \/ Publish \/ ClientStopped \/ Probe
MqttNext == MqttTask \/ EventConnected \/ EventDisconnected \/ Edit \/ NetworkChange

MqttSpec == MqttInit /\ [][MqttNext]_mqttVars

-----------------------------------------------------------------------------
(* Properties *)

\* The client never outlives the certificate it points to, a late event of a
\* client that is being stopped never makes the task publish through it, and the
\* task publishes, or gives up, only through a client that it has; no client runs
\* while the task believes that it has none.
ClientOwned ==
    /\ client # "none" <=> cert
    /\ sent \in {"nothing", "running"}
    /\ connected => client # "none"
    /\ client = "running" <=> publishing /\ mqttStep # "stopping"
    /\ mqttStep = "publish" => client = "running"
=============================================================================
