---------------------------- MODULE Streams_proofs ----------------------------
(***************************************************************************)
(* Proofs about the streams of messages: the live views of the web         *)
(* interface, which WebSocket sends of the log and of the system's state,  *)
(* the lines and answers of the V1 pool in Sv1Session, and the jobs and    *)
(* answers of the V2 pool in Sv2Session.  They share no state.  What a     *)
(* proof needs of the constants is a hypothesis of its theorem.            *)
(***************************************************************************)
EXTENDS WebSocket, Sv1Session, Sv2Session, TLAPS, FiniteSetTheorems, SequenceTheorems,
        WellFoundedInduction

(* A set of numbers has a least one, and CHOOSE finds it.                     *)
LEMMA LeastIn ==
    ASSUME NEW S \in SUBSET Nat, S # {}
    PROVE  \E m \in S : \A q \in S : m <= q
  <1>1. PICK m \in S : \A y \in S : ~(<<y, m>> \in OpToRel(<, Nat))
    BY NatLessThanWellFounded, WFMin
  <1>2. \A y \in S : ~(y < m)
    BY <1>1 DEF OpToRel
  <1> QED
    BY <1>2

LEMMA LowestIn ==
    ASSUME NEW S \in SUBSET Nat, S # {}
    PROVE  Lowest(S) \in S /\ \A q \in S : Lowest(S) <= q
  <1>1. PICK m \in S : \A q \in S : m <= q
    BY LeastIn
  <1> QED
    BY <1>1 DEF Lowest

-----------------------------------------------------------------------------
(* The table of clients: a socket has one slot, and the counts by type, which  *)
(* the two tasks go by, are those of the table.                                *)

SocketConstants == MaxClients \in Nat /\ -1 \notin Fds

Occupied(t) == {i \in Slots : clients[i].fd # -1 /\ clients[i].type = t}

TableInv ==
    /\ clients \in [Slots -> [fd : Fds \cup {-1}, type : Types]]
    /\ typeCounts \in [Types -> Nat]
    /\ \A t \in Types : typeCounts[t] = Cardinality(Occupied(t))
    /\ \A i, j \in Slots : clients[i].fd # -1 /\ clients[i].fd = clients[j].fd => i = j

LEMMA OccupiedFinite ==
    ASSUME SocketConstants, NEW S \in SUBSET Slots
    PROVE  IsFiniteSet(S) /\ Cardinality(S) \in Nat
  <1>1. IsFiniteSet(Slots)
    BY FS_Interval DEF Slots, SocketConstants
  <1> QED
    BY <1>1, FS_Subset, FS_CardinalityType

(* websocket_add_client: with fewer clients than slots there is a free slot.   *)
LEMMA FreeSlot ==
    ASSUME SocketConstants, TableInv, typeCounts["logs"] + typeCounts["api"] < MaxClients
    PROVE  \E i \in Slots : clients[i].fd = -1
  <1> SUFFICES ASSUME \A i \in Slots : clients[i].fd # -1
               PROVE  FALSE
    OBVIOUS
  <1>1. Occupied("logs") \cup Occupied("api") = Slots
    BY DEF Occupied, TableInv, Types
  <1>2. Occupied("logs") \cap Occupied("api") = {}
    BY DEF Occupied
  <1>3. /\ IsFiniteSet(Occupied("logs")) /\ Cardinality(Occupied("logs")) \in Nat
        /\ IsFiniteSet(Occupied("api")) /\ Cardinality(Occupied("api")) \in Nat
    BY OccupiedFinite DEF Occupied
  <1>4. Cardinality(Slots) = MaxClients
    BY FS_Interval DEF Slots, SocketConstants
  <1>5. Cardinality(Occupied("logs") \cup Occupied("api"))
           = Cardinality(Occupied("logs")) + Cardinality(Occupied("api"))
    <2>1. Cardinality(Occupied("logs") \cup Occupied("api"))
             = Cardinality(Occupied("logs")) + Cardinality(Occupied("api"))
                 - Cardinality(Occupied("logs") \cap Occupied("api"))
      BY <1>3, FS_Union
    <2>2. Cardinality(Occupied("logs") \cap Occupied("api")) = 0
      BY <1>2, FS_EmptySet
    <2> QED
      BY <1>3, <2>1, <2>2
  <1>6. /\ typeCounts["logs"] = Cardinality(Occupied("logs"))
        /\ typeCounts["api"] = Cardinality(Occupied("api"))
    BY DEF TableInv, Types
  <1>7. typeCounts["logs"] + typeCounts["api"] = MaxClients
    BY <1>1, <1>4, <1>5, <1>6
  <1> QED
    BY <1>3, <1>6, <1>7 DEF SocketConstants

LEMMA UpgradeTable ==
    ASSUME SocketConstants, TableInv, NEW fd \in Fds, NEW type \in Types, Upgrade(fd, type)
    PROVE  /\ TableInv'
           /\ Connected("api")' \subseteq Connected("api") \cup {f \in {fd} : type = "api"}
  <1>1. PICK i \in Slots : /\ clients[i].fd = -1
                           /\ clients' = [clients EXCEPT ![i] = [fd |-> fd, type |-> type]]
    <2>1. {j \in Slots : clients[j].fd = -1} \in SUBSET Nat
      BY DEF Slots
    <2>2. {j \in Slots : clients[j].fd = -1} # {}
      BY FreeSlot DEF Upgrade
    <2> QED
      BY <2>1, <2>2, LowestIn DEF Upgrade
  <1>2. clients' \in [Slots -> [fd : Fds \cup {-1}, type : Types]]
    BY <1>1 DEF TableInv
  <1>3. \A j \in Slots : clients'[j] = IF j = i THEN [fd |-> fd, type |-> type] ELSE clients[j]
    BY <1>1 DEF TableInv
  <1>4. \A j, k \in Slots : clients'[j].fd # -1 /\ clients'[j].fd = clients'[k].fd => j = k
    BY <1>3 DEF Upgrade, TableInv
  <1>5. ASSUME NEW t \in Types
        PROVE  typeCounts'[t] = Cardinality(Occupied(t)')
    <2>1. typeCounts'[t] = IF t = type THEN typeCounts[t] + 1 ELSE typeCounts[t]
      BY DEF Upgrade, TableInv
    <2>2. IsFiniteSet(Occupied(t)) /\ Cardinality(Occupied(t)) \in Nat
      BY OccupiedFinite DEF Occupied
    <2>3. CASE t = type
      <3>1. clients'[i].fd # -1 /\ clients'[i].type = t
        BY <1>3, <2>3 DEF SocketConstants
      <3>2. \A j \in Slots : j # i => clients'[j] = clients[j]
        BY <1>3
      <3>3. Occupied(t)' = Occupied(t) \cup {i} /\ i \notin Occupied(t)
        BY <1>1, <3>1, <3>2 DEF Occupied
      <3>4. Cardinality(Occupied(t) \cup {i}) = Cardinality(Occupied(t)) + 1
        BY <2>2, <3>3, FS_AddElement
      <3>5. typeCounts[t] = Cardinality(Occupied(t))
        BY DEF TableInv
      <3> QED
        BY <2>1, <2>3, <3>3, <3>4, <3>5
    <2>4. CASE t # type
      <3>1. Occupied(t)' = Occupied(t)
        BY <1>1, <1>3, <2>4 DEF Occupied
      <3> QED
        BY <2>1, <2>4, <3>1 DEF TableInv
    <2> QED
      BY <2>3, <2>4
  <1>6. typeCounts' \in [Types -> Nat]
    BY DEF Upgrade, TableInv
  <1>7. Connected("api")' \subseteq Connected("api") \cup {f \in {fd} : type = "api"}
    BY <1>3 DEF Connected
  <1> QED
    BY <1>2, <1>4, <1>5, <1>6, <1>7 DEF TableInv

LEMMA RemoveTable ==
    ASSUME SocketConstants, TableInv, NEW fd \in Fds, RemoveClient(fd)
    PROVE  TableInv' /\ Connected("api")' \subseteq Connected("api") \ {fd}
  <1>1. PICK i \in Slots : /\ clients[i].fd = fd
                           /\ clients' = [clients EXCEPT ![i] = Free]
                           /\ typeCounts' = [typeCounts EXCEPT ![clients[i].type] = @ - 1]
    <2>1. {j \in Slots : clients[j].fd = fd} \in SUBSET Nat
      BY DEF Slots
    <2>2. {j \in Slots : clients[j].fd = fd} # {}
      BY DEF RemoveClient
    <2> QED
      BY <2>1, <2>2, LowestIn DEF RemoveClient
  <1>2. clients' \in [Slots -> [fd : Fds \cup {-1}, type : Types]]
    BY <1>1 DEF TableInv, Free, Types
  <1>3. \A j \in Slots : clients'[j] = IF j = i THEN Free ELSE clients[j]
    BY <1>1 DEF TableInv
  <1>4. \A j, k \in Slots : clients'[j].fd # -1 /\ clients'[j].fd = clients'[k].fd => j = k
    BY <1>3 DEF TableInv, Free
  <1>5. clients[i].type \in Types /\ i \in Occupied(clients[i].type)
    BY <1>1 DEF TableInv, Occupied, SocketConstants
  <1>6. ASSUME NEW t \in Types
        PROVE  typeCounts'[t] = Cardinality(Occupied(t)') /\ typeCounts'[t] \in Nat
    <2>1. typeCounts'[t] = IF t = clients[i].type THEN typeCounts[t] - 1 ELSE typeCounts[t]
      BY <1>1, <1>5 DEF TableInv
    <2>2. IsFiniteSet(Occupied(t)) /\ Cardinality(Occupied(t)) \in Nat
      BY OccupiedFinite DEF Occupied
    <2>3. CASE t = clients[i].type
      <3>1. Occupied(t)' = Occupied(t) \ {i} /\ i \in Occupied(t)
        BY <1>3, <1>5, <2>3 DEF Occupied, Free
      <3>2. Cardinality(Occupied(t)') = Cardinality(Occupied(t)) - 1
        BY <2>2, <3>1, FS_RemoveElement
      <3>3. Cardinality(Occupied(t)') \in Nat
        BY <2>2, <3>1, FS_RemoveElement, FS_CardinalityType
      <3> QED
        BY <2>1, <2>3, <3>2, <3>3 DEF TableInv
    <2>4. CASE t # clients[i].type
      <3>1. Occupied(t)' = Occupied(t)
        BY <1>3, <2>4 DEF Occupied, Free
      <3> QED
        BY <2>1, <2>2, <2>4, <3>1 DEF TableInv
    <2> QED
      BY <2>3, <2>4
  <1>7. typeCounts' \in [Types -> Nat]
    <2>1. typeCounts' = [t \in Types |-> typeCounts'[t]]
      BY <1>1 DEF TableInv
    <2> QED
      BY <1>6, <2>1
  <1>8. Connected("api")' \subseteq Connected("api") \ {fd}
    BY <1>1, <1>3 DEF Connected, Free, TableInv, SocketConstants
  <1> QED
    BY <1>2, <1>4, <1>6, <1>7, <1>8 DEF TableInv
-----------------------------------------------------------------------------
(* The views.  While the API task hibernates everybody connected was greeted   *)
(* during hibernation, and the full state made for a client that no broadcast  *)
(* has met is no older than the baseline.  Clients that missed a frame are      *)
(* left aside.                                                                 *)

ViewInv ==
    /\ version \in Nat /\ baseline \in Nat \cup {-1} /\ baseline <= version
    /\ view \in [Fds -> Nat \cup {-1}]
    /\ handshake \in [fd : Fds \cup {-1}, full : Nat \cup {-1}]
    /\ handshake.full # -1 => handshake.fd \in Fds
    /\ handshake.full # -1 /\ handshake.fd \notin raced => handshake.full >= baseline
    /\ baseline = -1 => Connected("api") \subseteq raced
    /\ ApiClientsCurrent

LEMMA ConnectedAre ==
    ASSUME TableInv
    PROVE  Connected("api") \subseteq Fds
  BY DEF TableInv, Connected

LEMMA NobodyConnected ==
    ASSUME SocketConstants, TableInv, typeCounts["api"] = 0
    PROVE  Connected("api") = {}
  <1>1. IsFiniteSet(Occupied("api"))
    BY OccupiedFinite DEF Occupied
  <1>2. Occupied("api") = {}
    BY <1>1, FS_EmptySet DEF TableInv, Types
  <1> QED
    BY <1>2 DEF Occupied, Connected

LEMMA UpgradeView ==
    ASSUME SocketConstants, TableInv, ViewInv,
           NEW fd \in Fds, NEW type \in Types, Upgrade(fd, type)
    PROVE  ViewInv'
  <1>1. handshake = [fd |-> -1, full |-> -1] /\ UNCHANGED <<version, baseline, unsent>>
        /\ view' = [view EXCEPT ![fd] = -1]
    BY DEF Upgrade, Idle, NULL
  <1>2. /\ handshake' \in [fd : Fds \cup {-1}, full : Nat \cup {-1}]
        /\ handshake'.full = -1
        /\ type = "api" => handshake'.fd = fd
    BY DEF Upgrade, Idle, NULL
  <1>3. raced \subseteq raced' /\ (type = "api" /\ baseline = -1 => fd \in raced')
    BY DEF Upgrade, NULL
  <1>4. \A f \in Connected("api")' : f \in Connected("api") \/ (type = "api" /\ f = fd)
    BY UpgradeTable
  <1>5. ApiClientsCurrent'
    <2> SUFFICES ASSUME NEW f \in Connected("api")', f \notin raced', f \notin unsent, f # handshake'.fd
                 PROVE  view'[f] >= baseline
      BY <1>1 DEF ApiClientsCurrent
    <2>1. f \in Connected("api") /\ f \notin raced
      BY <1>2, <1>3, <1>4
    <2>3. f # fd /\ f \in Fds
      BY <2>1, ConnectedAre DEF Upgrade, Connected
    <2>4. view'[f] = view[f]
      BY <1>1, <2>3 DEF ViewInv
    <2>2. f # handshake.fd
      BY <1>1, <2>1, ConnectedAre DEF SocketConstants
    <2> QED
      BY <2>1, <2>2, <2>4 DEF ViewInv, ApiClientsCurrent
  <1>6. baseline = -1 => Connected("api")' \subseteq raced'
    BY <1>3, <1>4 DEF ViewInv
  <1>7. view' \in [Fds -> Nat \cup {-1}]
    BY <1>1 DEF ViewInv
  <1> QED
    BY <1>1, <1>2, <1>5, <1>6, <1>7 DEF ViewInv

LEMMA GreetView ==
    ASSUME SocketConstants, TableInv, ViewInv, ComposeFull \/ SendFull \/ GreetingFails
    PROVE  ViewInv'
  <1>1. UNCHANGED <<version, baseline, raced, clients>> /\ Connected("api")' = Connected("api")
    BY DEF ComposeFull, SendFull, GreetingFails, Connected
  <1>2. CASE ComposeFull
    <2>1. /\ handshake' \in [fd : Fds \cup {-1}, full : Nat \cup {-1}]
          /\ handshake'.fd = handshake.fd /\ handshake'.full = version
          /\ handshake.fd # -1
      BY <1>2 DEF ComposeFull, ViewInv
    <2>2. view' = view /\ unsent' = unsent
      BY <1>2 DEF ComposeFull
    <2>3. ApiClientsCurrent'
      BY <1>1, <2>1, <2>2 DEF ViewInv, ApiClientsCurrent
    <2>4. handshake'.fd \in Fds
      BY <2>1 DEF ViewInv
    <2> QED
      BY <1>1, <2>1, <2>2, <2>3, <2>4 DEF ViewInv
  <1>3. CASE SendFull
    <2>1. /\ handshake' = [fd |-> -1, full |-> -1]
          /\ handshake.full # -1 /\ handshake.full \in Nat /\ handshake.fd \in Fds
          /\ view' = [view EXCEPT ![handshake.fd] = handshake.full] /\ unsent' = unsent
      BY <1>3 DEF SendFull, Idle, NULL, ViewInv
    <2>2. view' \in [Fds -> Nat \cup {-1}]
      BY <2>1 DEF ViewInv
    <2>3. ApiClientsCurrent'
      <3> SUFFICES ASSUME NEW f \in Connected("api"), f \notin raced, f \notin unsent
                   PROVE  view'[f] >= baseline
        BY <1>1, <2>1 DEF ApiClientsCurrent
      <3>1. f \in Fds
        BY ConnectedAre
      <3>2. CASE f = handshake.fd
        BY <2>1, <3>1, <3>2 DEF ViewInv
      <3>3. CASE f # handshake.fd
        BY <2>1, <3>1, <3>3 DEF ViewInv, ApiClientsCurrent
      <3> QED
        BY <3>2, <3>3
    <2> QED
      BY <1>1, <2>1, <2>2, <2>3 DEF ViewInv
  <1>4. CASE GreetingFails
    <2>1. /\ handshake' = [fd |-> -1, full |-> -1] /\ view' = view
          /\ unsent \subseteq unsent' /\ handshake.fd \in unsent'
      BY <1>4 DEF GreetingFails, Idle, NULL
    <2>2. ApiClientsCurrent'
      BY <1>1, <2>1 DEF ViewInv, ApiClientsCurrent
    <2> QED
      BY <1>1, <2>1, <2>2 DEF ViewInv
  <1> QED
    BY <1>2, <1>3, <1>4

LEMMA HibernateView ==
    ASSUME SocketConstants, TableInv, ViewInv, ApiTaskHibernates
    PROVE  ViewInv'
  <1>1. /\ UNCHANGED <<version, handshake, clients, view, raced, unsent>> /\ baseline' = -1
        /\ Connected("api")' = Connected("api")
    BY DEF ApiTaskHibernates, Connected, NULL
  <1>2. Connected("api") = {}
    BY NobodyConnected DEF ApiTaskHibernates
  <1> QED
    BY <1>1, <1>2 DEF ViewInv, ApiClientsCurrent

LEMMA BroadcastView ==
    ASSUME SocketConstants, TableInv, ViewInv, ApiTaskWakes
    PROVE  ViewInv'
  <1>1. /\ UNCHANGED <<version, handshake, clients>> /\ Connected("api")' = Connected("api")
        /\ raced \subseteq raced' /\ (handshake.fd # -1 => handshake.fd \in raced')
        /\ baseline' = version
    BY DEF ApiTaskWakes, Connected
  <1>2. PICK from \in IF baseline = -1 THEN {-1, version} ELSE {baseline},
             got \in SUBSET Connected("api") : Broadcast(from, got)
    BY DEF ApiTaskWakes, NULL
  <1>3. /\ view' = [f \in Fds |-> IF f \in got /\ from # version /\ view[f] >= from
                                  THEN version ELSE view[f]]
        /\ unsent \subseteq unsent' /\ (from # version => Connected("api") \ got \subseteq unsent')
    BY <1>2 DEF Broadcast
  <1>4. view' \in [Fds -> Nat \cup {-1}]
    BY <1>3 DEF ViewInv
  <1>5. ApiClientsCurrent'
    <2> SUFFICES ASSUME NEW f \in Connected("api"), f \notin raced', f \notin unsent', f # handshake.fd
                 PROVE  view'[f] >= version
      BY <1>1 DEF ApiClientsCurrent
    <2>1. f \notin raced /\ f \notin unsent /\ baseline # -1 /\ f \in Fds /\ version \in Nat
      BY <1>1, <1>3, ConnectedAre DEF ViewInv
    <2>2. view[f] >= baseline /\ view[f] \in Nat \cup {-1}
      BY <2>1 DEF ViewInv, ApiClientsCurrent
    <2>3. from = baseline
      BY <1>2, <2>1
    <2>4. CASE baseline = version
      BY <1>3, <2>1, <2>2, <2>3, <2>4
    <2>5. CASE baseline # version
      BY <1>3, <2>1, <2>2, <2>3, <2>5
    <2> QED
      BY <2>4, <2>5
  <1>6. handshake.full # -1 => handshake.fd \in raced'
    BY <1>1 DEF ViewInv, SocketConstants
  <1> QED
    BY <1>1, <1>4, <1>5, <1>6 DEF ViewInv

LEMMA NextViews ==
    ASSUME SocketConstants, TableInv, ViewInv, [SocketNext]_socketVars
    PROVE  (TableInv /\ ViewInv)'
  <1>1. ASSUME UNCHANGED <<clients, typeCounts>>
        PROVE  TableInv' /\ Connected("api")' = Connected("api")
    BY <1>1 DEF TableInv, Connected, Occupied
  <1>2. ASSUME UNCHANGED <<clients, typeCounts, apiVars>>
        PROVE  TableInv' /\ ViewInv'
    BY <1>1, <1>2 DEF ViewInv, ApiClientsCurrent, apiVars
  <1>3. CASE UNCHANGED socketVars \/ LogTaskWakes \/ Drain \/ \E len \in 1 .. MaxLine : Log(len)
    BY <1>2, <1>3 DEF socketVars, LogTaskWakes, Drain, Log
  <1>4. CASE StateChanges
    <2>1. version' = version + 1 /\ UNCHANGED <<clients, typeCounts, baseline, handshake, view, raced, unsent>>
      BY <1>4 DEF StateChanges
    <2> QED
      BY <1>1, <2>1 DEF ViewInv, ApiClientsCurrent
  <1>5. CASE \E torn \in 0 .. MaxLine, sound \in BOOLEAN : Restart(torn, sound)
    <2>1. /\ clients' = [i \in Slots |-> Free] /\ typeCounts' = [t \in Types |-> 0]
          /\ version' = 0 /\ baseline' = 0 /\ handshake' = [fd |-> -1, full |-> -1]
          /\ view' = [f \in Fds |-> -1]
      BY <1>5 DEF Restart, Idle, NULL
    <2>2. \A i \in Slots : clients'[i].fd = -1
      BY <2>1 DEF Free
    <2>3. Connected("api")' = {} /\ \A t \in Types : Occupied(t)' = {}
      BY <2>2 DEF Connected, Occupied
    <2>4. TableInv'
      BY <2>1, <2>2, <2>3, FS_EmptySet DEF TableInv, Free, Types
    <2> QED
      BY <2>1, <2>3, <2>4 DEF ViewInv, ApiClientsCurrent
  <1>6. CASE \E fd \in Fds, type \in Types : Upgrade(fd, type)
    BY <1>6, UpgradeTable, UpgradeView
  <1>7. CASE ComposeFull \/ SendFull \/ GreetingFails
    BY <1>1, <1>7, GreetView DEF ComposeFull, SendFull, GreetingFails
  <1>8. CASE ApiTaskHibernates \/ ApiTaskWakes
    BY <1>1, <1>8, HibernateView, BroadcastView DEF ApiTaskHibernates, ApiTaskWakes
  <1>9. CASE \E fd \in Fds : RemoveClient(fd)
    <2>1. PICK fd \in Fds : RemoveClient(fd)
      BY <1>9
    <2>2. /\ handshake = [fd |-> -1, full |-> -1] /\ raced' = raced \ {fd}
          /\ unsent' = unsent \ {fd} /\ UNCHANGED <<version, baseline, handshake, view>>
      BY <2>1 DEF RemoveClient, Idle, NULL
    <2>3. TableInv' /\ Connected("api")' \subseteq Connected("api") \ {fd}
      BY <2>1, RemoveTable
    <2> QED
      BY <2>2, <2>3 DEF ViewInv, ApiClientsCurrent
  <1> QED
    BY <1>3, <1>4, <1>5, <1>6, <1>7, <1>8, <1>9 DEF SocketNext

(* websocket_api.c, for any set of sockets, any size of the table and any       *)
(* number of changes, upgrades and restarts: a client greeted while the task    *)
(* was awake and not across a broadcast, and to whom no send has failed, shows  *)
(* the baseline or something newer.                                             *)
THEOREM ClientsAreCurrent ==
    ASSUME MaxClients \in Nat, -1 \notin Fds
    PROVE  SocketSpec => []ApiClientsCurrent
  <1>1. SocketConstants
    BY DEF SocketConstants
  <1>2. SocketInit => TableInv /\ ViewInv
    <2> SUFFICES ASSUME SocketInit PROVE TableInv /\ ViewInv
      OBVIOUS
    <2>1. \A i \in Slots : clients[i].fd = -1
      BY DEF SocketInit, Free
    <2>2. Connected("api") = {} /\ \A t \in Types : Occupied(t) = {}
      BY <2>1 DEF Connected, Occupied
    <2>3. TableInv
      BY <2>1, <2>2, FS_EmptySet DEF SocketInit, TableInv, Free, Types
    <2> QED
      BY <2>2, <2>3 DEF SocketInit, ViewInv, ApiClientsCurrent, Idle, NULL
  <1>3. TableInv /\ ViewInv /\ [SocketNext]_socketVars => (TableInv /\ ViewInv)'
    BY <1>1, NextViews
  <1>4. ViewInv => ApiClientsCurrent
    BY DEF ViewInv
  <1> QED
    BY <1>2, <1>3, <1>4, PTL DEF SocketSpec
-----------------------------------------------------------------------------
(* The log.  The ring holds every byte that a client has still to be sent and  *)
(* that was not overwritten.  Bytes that were sent are not spoken of: a reset  *)
(* within ring_write spoils the oldest of them.                                *)

LogConstants ==
    /\ LogSize \in Nat \ {0} /\ ChunkSize \in Nat /\ ScanLimit \in Nat
    /\ MaxLine \in Nat /\ MaxLine <= LogSize

LogInv ==
    /\ total \in Nat /\ lastRead \in Nat /\ lastRead <= total
    /\ newlines \subseteq Nat
    /\ \A p \in Nat : lastRead <= p /\ total - LogSize <= p /\ p < total
                         => buffer[p % LogSize] = p
    /\ LogStreamIntact

(* Fewer than LogSize bytes apart, two positions are in different cells.       *)
LEMMA CellsDiffer ==
    ASSUME LogConstants, NEW p \in Nat, NEW q \in Nat, p < q, q < p + LogSize
    PROVE  p % LogSize # q % LogSize
  <1> SUFFICES ASSUME p % LogSize = q % LogSize
               PROVE  FALSE
    OBVIOUS
  <1> DEFINE x == p \div LogSize
             y == q \div LogSize
             d == y - x
             a == LogSize * x
             b == LogSize * y
             r == p % LogSize
  <1>1. /\ x \in Int /\ y \in Int /\ d \in Int /\ a \in Int /\ b \in Int /\ r \in Int
        /\ p = a + r /\ q = b + r
    BY DEF LogConstants
  <1>2. LogSize * d = b - a
    <2>1. LogSize \in Int
      BY DEF LogConstants
    <2> HIDE DEF x, y
    <2> QED
      BY <1>1, <2>1
  <1> HIDE DEF a, b, r
  <1>3. LogSize * d = q - p
    BY <1>1, <1>2
  <1> HIDE DEF d
  <1>4. 0 < LogSize * d /\ LogSize * d < LogSize
    BY <1>3 DEF LogConstants
  <1>5. CASE d <= 0
    BY <1>1, <1>4, <1>5 DEF LogConstants
  <1>6. CASE d >= 1
    BY <1>1, <1>4, <1>6 DEF LogConstants
  <1> QED
    BY <1>1, <1>5, <1>6

LEMMA CellOf ==
    ASSUME LogConstants, NEW p \in Nat
    PROVE  p % LogSize \in Cells
  BY DEF LogConstants, Cells

(* ring_write puts its bytes where they are looked for and spoils no byte less *)
(* than LogSize before its end.                                                *)
LEMMA WrittenIs ==
    ASSUME LogConstants, NEW pos \in Nat, NEW len \in 0 .. LogSize, NEW p \in Nat,
           p < pos + len, pos + len <= p + LogSize
    PROVE  Written(pos, len)[p % LogSize] = IF p < pos THEN buffer[p % LogSize] ELSE p
  <1>1. \A q \in pos .. pos + len - 1 : q # p => q % LogSize # p % LogSize
    <2> SUFFICES ASSUME NEW q \in pos .. pos + len - 1, q # p
                 PROVE  q % LogSize # p % LogSize
      OBVIOUS
    <2>1. q \in Nat /\ LogSize \in Nat /\ len \in Nat /\ len <= LogSize
      BY DEF LogConstants
    <2>2. p < q + LogSize /\ q < p + LogSize
      BY <2>1
    <2>3. CASE q < p
      BY <2>1, <2>2, <2>3, CellsDiffer
    <2>4. CASE p < q
      BY <2>1, <2>2, <2>4, CellsDiffer
    <2> QED
      BY <2>1, <2>3, <2>4
  <1>2. p % LogSize \in Cells
    BY CellOf
  <1>3. CASE p < pos
    <2>1. p \notin pos .. pos + len - 1
      BY <1>3
    <2> QED
      BY <1>1, <1>2, <1>3, <2>1 DEF Written
  <1>4. CASE ~(p < pos)
    <2>1. p \in pos .. pos + len - 1
      BY <1>4 DEF LogConstants
    <2>2. (CHOOSE q \in pos .. pos + len - 1 : q % LogSize = p % LogSize) = p
      BY <1>1, <2>1
    <2> QED
      BY <1>2, <1>4, <2>1, <2>2 DEF Written
  <1> QED
    BY <1>3, <1>4

(* log_buffer_read_absolute reads on where it stopped, or from a position that *)
(* is still kept.                                                              *)
LEMMA ReadFromIs ==
    ASSUME LogConstants, LogInv
    PROVE  /\ ReadFrom(lastRead) \in Nat /\ ReadFrom(lastRead) <= total
           /\ lastRead <= ReadFrom(lastRead) /\ total - LogSize <= ReadFrom(lastRead)
           /\ ReadFrom(lastRead) = lastRead \/ lastRead < total - LogSize
  <1> DEFINE first == total - LogSize
             ends == {p \in first .. total - 1 : p < first + ScanLimit /\ p \in newlines}
  <1>1. /\ total \in Nat /\ lastRead \in Nat /\ lastRead <= total /\ first \in Int
        /\ LogSize \in Nat /\ LogSize > 0
    BY DEF LogInv, LogConstants
  <1>2. CASE ~(total >= LogSize /\ lastRead < first)
    <2>1. ReadFrom(lastRead) = lastRead
      BY <1>1, <1>2 DEF ReadFrom
    <2> QED
      BY <1>1, <1>2, <2>1
  <1>3. CASE total >= LogSize /\ lastRead < first /\ ends = {}
    <2>1. ReadFrom(lastRead) = first
      BY <1>1, <1>3 DEF ReadFrom
    <2> QED
      BY <1>1, <1>3, <2>1
  <1>4. CASE total >= LogSize /\ lastRead < first /\ ends # {}
    <2>1. ReadFrom(lastRead) = Lowest(ends) + 1
      BY <1>1, <1>4 DEF ReadFrom
    <2>2. ends \in SUBSET Nat
      BY DEF LogInv
    <2>3. Lowest(ends) \in ends
      BY <1>4, <2>2, LowestIn
    <2>4. Lowest(ends) \in first .. total - 1
      BY <2>3
    <2> HIDE DEF ends
    <2> QED
      BY <1>1, <1>4, <2>1, <2>4
  <1> QED
    BY <1>2, <1>3, <1>4

LEMMA ReadLengthIs ==
    ASSUME LogConstants, LogInv, NEW from \in Nat, from <= total
    PROVE  ReadLength(from) \in Nat /\ from + ReadLength(from) <= total
  <1> DEFINE most == IF total - from < ChunkSize THEN total - from ELSE ChunkSize
             ends == {i \in 1 .. most : from + i - 1 \in newlines}
  <1>1. total \in Nat /\ most \in Nat /\ from + most <= total
    BY DEF LogInv, LogConstants
  <1>2. ReadLength(from) = IF ends = {} THEN most ELSE Lowest(ends)
    BY DEF ReadLength
  <1>3. ends # {} => Lowest(ends) \in 1 .. most
    <2> HIDE DEF most
    <2>1. ends \in SUBSET Nat /\ ends \subseteq 1 .. most
      BY <1>1
    <2> HIDE DEF ends
    <2> QED
      BY <2>1, LowestIn
  <1> HIDE DEF most, ends
  <1> QED
    BY <1>1, <1>2, <1>3

LEMMA DrainLog ==
    ASSUME LogConstants, LogInv, Drain
    PROVE  LogInv'
  <1> DEFINE from == ReadFrom(lastRead)
             len == ReadLength(from)
  <1>1. /\ chunk' = [after |-> lastRead, oldest |-> total - LogSize, first |-> from, len |-> len,
                     cells |-> {buffer[(from + i) % LogSize] : i \in 0 .. len - 1}]
        /\ lastRead' = from + len /\ UNCHANGED <<total, buffer, newlines>>
    BY DEF Drain, logVars
  <1>2. /\ from \in Nat /\ from <= total /\ lastRead <= from /\ total - LogSize <= from
        /\ from = lastRead \/ lastRead < total - LogSize
    BY ReadFromIs
  <1>3. len \in Nat /\ from + len <= total
    BY <1>2, ReadLengthIs
  <1> HIDE DEF from, len
  <1>4. /\ total \in Nat /\ lastRead \in Nat /\ LogSize \in Nat
        /\ \A p \in Nat : lastRead <= p /\ total - LogSize <= p /\ p < total
                             => buffer[p % LogSize] = p
    BY DEF LogInv, LogConstants
  <1>5. \A i \in 0 .. len - 1 : buffer[(from + i) % LogSize] = from + i
    <2> SUFFICES ASSUME NEW i \in 0 .. len - 1
                 PROVE  buffer[(from + i) % LogSize] = from + i
      OBVIOUS
    <2>1. from + i \in Nat /\ lastRead <= from + i /\ total - LogSize <= from + i /\ from + i < total
      BY <1>2, <1>3, <1>4
    <2> QED
      BY <1>4, <2>1
  <1>6. {buffer[(from + i) % LogSize] : i \in 0 .. len - 1} = from .. from + len - 1
    <2>1. \A p \in from .. from + len - 1 : p - from \in 0 .. len - 1 /\ from + (p - from) = p
      BY <1>2, <1>3
    <2>2. \A i \in 0 .. len - 1 : from + i \in from .. from + len - 1
      BY <1>2, <1>3
    <2> QED
      BY <1>5, <2>1, <2>2
  <1>7. LogStreamIntact'
    BY <1>1, <1>2, <1>6 DEF LogStreamIntact
  <1>8. lastRead' \in Nat /\ lastRead' <= total /\ lastRead <= lastRead'
    BY <1>1, <1>2, <1>3, <1>4
  <1>9. \A p \in Nat : lastRead' <= p /\ total - LogSize <= p /\ p < total
                          => buffer[p % LogSize] = p
    BY <1>4, <1>8
  <1> QED
    BY <1>1, <1>7, <1>8, <1>9 DEF LogInv

LEMMA NextLog ==
    ASSUME LogConstants, LogInv, [SocketNext]_socketVars
    PROVE  LogInv'
  <1>1. CASE Drain
    BY <1>1, DrainLog
  <1>2. CASE \E len \in 1 .. MaxLine : Log(len)
    <2>1. PICK len \in 1 .. MaxLine : Log(len)
      BY <1>2
    <2>2. /\ len \in 0 .. LogSize /\ len \in Nat /\ total \in Nat /\ LogSize \in Nat
          /\ total + len \in Nat /\ total + len - 1 \in Nat
      BY DEF LogConstants, LogInv
    <2>3. /\ buffer' = Written(total, len) /\ total' = total + len
          /\ newlines' = newlines \cup {total + len - 1} /\ UNCHANGED <<lastRead, chunk>>
      BY <2>1 DEF Log
    <2>4. ASSUME NEW p \in Nat, lastRead <= p, total + len - LogSize <= p, p < total + len
          PROVE  buffer'[p % LogSize] = p
      <3>1. total + len <= p + LogSize
        BY <2>2, <2>4
      <3>2. buffer'[p % LogSize] = IF p < total THEN buffer[p % LogSize] ELSE p
        BY <2>2, <2>3, <2>4, <3>1, WrittenIs
      <3>3. p < total => total - LogSize <= p
        BY <2>2, <2>4
      <3> QED
        BY <2>4, <3>2, <3>3 DEF LogInv
    <2>5. lastRead' \in Nat /\ lastRead' <= total'
      BY <2>2, <2>3 DEF LogInv
    <2> QED
      BY <2>2, <2>3, <2>4, <2>5 DEF LogInv, LogStreamIntact
  <1>3. CASE \E torn \in 0 .. MaxLine, sound \in BOOLEAN : Restart(torn, sound)
    <2>1. PICK torn \in 0 .. MaxLine, sound \in BOOLEAN : Restart(torn, sound)
      BY <1>3
    <2> DEFINE before == IF sound THEN total ELSE 0
               len == IF sound THEN 1 ELSE 0
    <2>2. /\ total' = before + len /\ lastRead' = before + len /\ chunk' = NoChunk
          /\ newlines' = {p \in newlines : sound} \cup {before : i \in 1 .. len}
      BY <2>1 DEF Restart
    <2>3. before \in Nat /\ len \in Nat
      BY DEF LogInv
    <2> HIDE DEF before, len
    <2>4. newlines' \subseteq Nat
      BY <2>2, <2>3 DEF LogInv
    <2>5. total' \in Nat /\ lastRead' = total'
      BY <2>2, <2>3
    <2>6. LogStreamIntact'
      <3>1. 0 .. 0 + 0 - 1 = {}
        OBVIOUS
      <3> QED
        BY <2>2, <3>1 DEF LogStreamIntact, NoChunk
    <2> QED
      BY <2>4, <2>5, <2>6 DEF LogInv
  <1>4. CASE LogTaskWakes
    <2>1. lastRead' \in {lastRead, total} /\ UNCHANGED <<total, buffer, newlines, chunk>>
      BY <1>4 DEF LogTaskWakes, logVars
    <2> QED
      BY <2>1 DEF LogInv, LogStreamIntact
  <1>5. CASE \/ UNCHANGED socketVars \/ ComposeFull \/ SendFull \/ GreetingFails \/ StateChanges
                \/ ApiTaskHibernates \/ ApiTaskWakes
             \/ (\E fd \in Fds, type \in Types : Upgrade(fd, type))
             \/ (\E fd \in Fds : RemoveClient(fd))
    <2>1. UNCHANGED <<total, buffer, newlines, lastRead, chunk>>
      BY <1>5 DEF socketVars, logVars, streamVars, ComposeFull, SendFull, GreetingFails, StateChanges,
                  ApiTaskHibernates, ApiTaskWakes, Upgrade, RemoveClient
    <2> QED
      BY <2>1 DEF LogInv, LogStreamIntact
  <1> QED
    BY <1>1, <1>2, <1>3, <1>4, <1>5 DEF SocketNext

(* log_buffer.c and websocket_log.c, for every ring and chunk, where no line is *)
(* longer than the ring: the log's clients are sent the bytes that were logged, *)
(* in order, once and without a gap other than overwritten bytes, although      *)
(* ring_write overwrites them and a reset may come within it.                   *)
THEOREM StreamIsIntact ==
    ASSUME LogConstants
    PROVE  SocketSpec => []LogStreamIntact
  <1>1. SocketInit => LogInv
    <2>1. 0 .. 0 + 0 - 1 = {}
      OBVIOUS
    <2> QED
      BY <2>1 DEF SocketInit, LogInv, LogStreamIntact, NoChunk
  <1>2. LogInv /\ [SocketNext]_socketVars => LogInv'
    BY NextLog
  <1>3. LogInv => LogStreamIntact
    BY DEF LogInv
  <1> QED
    BY <1>1, <1>2, <1>3, PTL DEF SocketSpec

-----------------------------------------------------------------------------
(* The lines of the V1 connection.  Between two line breaks the bytes of the   *)
(* buffer are those of one line, after the last one those of the line that the *)
(* pool is at.                                                                 *)

Byte == [session : Nat \ {0}, line : Nat, end : BOOLEAN]

Unbroken(b, i, j) == \A k \in i .. j : ~b[k].end

InOrder(b, f) ==
    /\ \A i \in DOMAIN b : b[i].session = v1session
    /\ \A i, j \in DOMAIN b : i <= j /\ Unbroken(b, i, j - 1) => b[i].line = b[j].line
    /\ \A i \in DOMAIN b : Unbroken(b, i, Len(b)) => b[i].line = f

LineInv ==
    /\ v1session \in Nat /\ fed \in Nat /\ carried \in BOOLEAN /\ v1up \in BOOLEAN
    /\ v1step \in {"top", "check", "receive", "gone"}
    /\ v1up <=> v1step \in {"check", "receive"}
    /\ v1up => v1session # 0
    /\ rpcBuffer = NoBuffer \/ rpcBuffer \in Seq(Byte)
    /\ v1up /\ rpcBuffer = NoBuffer => handled = <<>>
    /\ v1step = "top" /\ ~carried => rpcBuffer \in {NoBuffer, <<>>}
    /\ v1up /\ ~carried /\ rpcBuffer # NoBuffer => InOrder(rpcBuffer, fed)
    /\ LinesWhole

LEMMA NotNoBuffer ==
    ASSUME NEW b \in Seq(Byte)
    PROVE  b # NoBuffer
  <1> SUFFICES ASSUME b = NoBuffer PROVE FALSE
    OBVIOUS
  <1>0. Len(NoBuffer) = 1 /\ NoBuffer[1].session = 0
    BY DEF NoBuffer
  <1>1. 1 \in DOMAIN b /\ b[1].session = 0
    BY <1>0
  <1>2. b[1] \in Byte
    BY <1>1
  <1>3. b[1].session \in Nat \ {0}
    BY <1>2 DEF Byte
  <1> QED
    BY <1>1, <1>3

(* STRATUM_V1_receive_jsonrpc_line cuts at the first newline.                  *)
LEMMA LineEndIs ==
    ASSUME rpcBuffer \in Seq(Byte), HasLine
    PROVE  /\ LineEnd \in DOMAIN rpcBuffer /\ rpcBuffer[LineEnd].end
           /\ \A j \in 1 .. LineEnd - 1 : ~rpcBuffer[j].end
  <1> DEFINE S == {i \in DOMAIN rpcBuffer : rpcBuffer[i].end}
  <1>1. DOMAIN rpcBuffer = 1 .. Len(rpcBuffer) /\ Len(rpcBuffer) \in Nat
    OBVIOUS
  <1>2. S \in SUBSET Nat /\ S # {}
    BY <1>1 DEF HasLine
  <1>3. PICK m \in S : \A q \in S : m <= q
    BY <1>2, LeastIn
  <1>4. m \in DOMAIN rpcBuffer /\ rpcBuffer[m].end /\ \A j \in 1 .. m - 1 : ~rpcBuffer[j].end
    BY <1>1, <1>3
  <1> QED
    BY <1>4 DEF LineEnd

LEMMA CutIs ==
    ASSUME rpcBuffer \in Seq(Byte), HasLine
    PROVE  /\ LineEnd \in 1 .. Len(rpcBuffer) /\ Len(rpcBuffer) \in Nat
           /\ DOMAIN rpcBuffer = 1 .. Len(rpcBuffer)
           /\ \A j \in 1 .. LineEnd - 1 : ~rpcBuffer[j].end
           /\ Line \in Seq(Byte) /\ DOMAIN Line = 1 .. LineEnd
           /\ \A i \in 1 .. LineEnd : Line[i] = rpcBuffer[i]
           /\ Rest \in Seq(Byte) /\ Len(Rest) = Len(rpcBuffer) - LineEnd
           /\ DOMAIN Rest = 1 .. Len(rpcBuffer) - LineEnd
           /\ \A i \in DOMAIN Rest : Rest[i] = rpcBuffer[LineEnd + i]
  <1>1. /\ LineEnd \in 1 .. Len(rpcBuffer) /\ Len(rpcBuffer) \in Nat
        /\ DOMAIN rpcBuffer = 1 .. Len(rpcBuffer)
        /\ \A j \in 1 .. LineEnd - 1 : ~rpcBuffer[j].end
    BY LineEndIs
  <1> DEFINE e == LineEnd
             n == Len(rpcBuffer)
  <1> HIDE DEF e
  <1>2. e \in 1 .. n /\ \A i \in 1 .. n : rpcBuffer[i] \in Byte
    BY <1>1 DEF e
  <1>3. /\ SubSeq(rpcBuffer, 1, e) \in Seq(Byte) /\ Len(SubSeq(rpcBuffer, 1, e)) = e
        /\ \A i \in 1 .. e : SubSeq(rpcBuffer, 1, e)[i] = rpcBuffer[i]
    BY <1>2
  <1>4. /\ SubSeq(rpcBuffer, e + 1, n) \in Seq(Byte) /\ Len(SubSeq(rpcBuffer, e + 1, n)) = n - e
        /\ \A i \in 1 .. n - e : SubSeq(rpcBuffer, e + 1, n)[i] = rpcBuffer[e + i]
    BY <1>2
  <1>5. /\ DOMAIN SubSeq(rpcBuffer, 1, e) = 1 .. e
        /\ DOMAIN SubSeq(rpcBuffer, e + 1, n) = 1 .. n - e
    BY <1>3, <1>4
  <1> QED
    BY <1>1, <1>3, <1>4, <1>5 DEF Line, Rest, e

LEMMA LineWhole ==
    ASSUME rpcBuffer \in Seq(Byte), HasLine, InOrder(rpcBuffer, fed)
    PROVE  Whole(Line) /\ InOrder(Rest, fed)
  <1> DEFINE e == LineEnd
             n == Len(rpcBuffer)
             r == Rest
             l == Line
  <1>1. /\ e \in 1 .. n /\ n \in Nat /\ DOMAIN rpcBuffer = 1 .. n
        /\ \A j \in 1 .. e - 1 : ~rpcBuffer[j].end
        /\ DOMAIN l = 1 .. e /\ \A i \in 1 .. e : l[i] = rpcBuffer[i]
        /\ Len(r) = n - e /\ DOMAIN r = 1 .. n - e /\ \A i \in DOMAIN r : r[i] = rpcBuffer[e + i]
    BY CutIs
  <1> HIDE DEF e, n, r, l
  <1>2. Whole(l)
    <2>1. 1 \in 1 .. e /\ l[1] = rpcBuffer[1] /\ 1 \in DOMAIN rpcBuffer
      BY <1>1
    <2>2. ASSUME NEW i \in 1 .. e
          PROVE  l[i].session = l[1].session /\ l[i].line = l[1].line
      <3>1. i \in DOMAIN rpcBuffer /\ 1 <= i /\ l[i] = rpcBuffer[i]
        BY <1>1
      <3>2. Unbroken(rpcBuffer, 1, i - 1)
        BY <1>1 DEF Unbroken
      <3> QED
        BY <2>1, <3>1, <3>2 DEF InOrder
    <2>3. l[1].session = v1session
      BY <2>1 DEF InOrder
    <2> QED
      BY <1>1, <2>2, <2>3 DEF Whole
  <1>3. ASSUME NEW i \in DOMAIN r
        PROVE  e + i \in DOMAIN rpcBuffer /\ r[i] = rpcBuffer[e + i]
    BY <1>1
  <1>4. ASSUME NEW i \in DOMAIN r, NEW j \in 0 .. n - e, Unbroken(r, i, j)
        PROVE  Unbroken(rpcBuffer, e + i, e + j)
    <2> SUFFICES ASSUME NEW k \in e + i .. e + j
                 PROVE  ~rpcBuffer[k].end
      BY DEF Unbroken
    <2>1. k - e \in i .. j /\ k - e \in DOMAIN r /\ e + (k - e) = k
      BY <1>1
    <2> QED
      BY <1>3, <1>4, <2>1 DEF Unbroken
  <1>5. ASSUME NEW i \in DOMAIN r, NEW j \in DOMAIN r, i <= j, Unbroken(r, i, j - 1)
        PROVE  r[i].line = r[j].line
    <2>1. j - 1 \in 0 .. n - e /\ e + i <= e + j /\ e + (j - 1) = (e + j) - 1
      BY <1>1, <1>5
    <2>2. Unbroken(rpcBuffer, e + i, (e + j) - 1)
      BY <1>4, <1>5, <2>1
    <2> QED
      BY <1>3, <2>1, <2>2 DEF InOrder
  <1>6. ASSUME NEW i \in DOMAIN r, Unbroken(r, i, Len(r))
        PROVE  r[i].line = fed
    <2>1. Len(r) \in 0 .. n - e /\ e + Len(r) = n
      BY <1>1
    <2>2. Unbroken(rpcBuffer, e + i, n)
      BY <1>4, <1>6, <2>1
    <2> QED
      BY <1>3, <2>2 DEF InOrder, n
  <1>7. \A i \in DOMAIN r : r[i].session = v1session
    BY <1>3 DEF InOrder
  <1>8. InOrder(r, fed)
    BY <1>5, <1>6, <1>7 DEF InOrder
  <1> QED
    BY <1>2, <1>8 DEF l, r

(* The bytes of a read go on where the stream was.                             *)
LEMMA StreamIs ==
    ASSUME fed \in Nat, v1session \in Nat \ {0}, NEW n \in Nat \ {0},
           NEW breaks \in [1 .. n -> BOOLEAN]
    PROVE  LET ends == Cardinality({i \in DOMAIN breaks : breaks[i]})
           IN  /\ Stream(breaks) \in Seq(Byte) /\ Len(Stream(breaks)) = n
               /\ ends \in Nat /\ InOrder(Stream(breaks), fed + ends)
               /\ \A i \in 1 .. n : Unbroken(Stream(breaks), 1, i - 1)
                                       => Stream(breaks)[i].line = fed
               /\ Unbroken(Stream(breaks), 1, n) => ends = 0
  <1> DEFINE before(i) == {j \in 1 .. i - 1 : breaks[j]}
             all == {i \in DOMAIN breaks : breaks[i]}
             t == Stream(breaks)
             ends == Cardinality(all)
  <1>1. IsFiniteSet(1 .. n)
    BY FS_Interval
  <1>2. ASSUME NEW S \in SUBSET (1 .. n)
        PROVE  Cardinality(S) \in Nat
    BY <1>1, FS_Subset, FS_CardinalityType
  <1>3. /\ \A i \in 1 .. n : Cardinality(before(i)) \in Nat
        /\ ends \in Nat
    BY <1>2
  <1>4. /\ DOMAIN t = 1 .. n
        /\ \A i \in 1 .. n : t[i] = [session |-> v1session, end |-> breaks[i],
                                     line |-> fed + Cardinality(before(i))]
    BY DEF Stream
  <1>5. \A i \in 1 .. n : t[i] \in Byte
    <2> SUFFICES ASSUME NEW i \in 1 .. n
                 PROVE  t[i] \in Byte
      OBVIOUS
    <2> DEFINE c == Cardinality(before(i))
    <2>1. c \in Nat /\ breaks[i] \in BOOLEAN
      BY <1>3
    <2>2. t[i] = [session |-> v1session, end |-> breaks[i], line |-> fed + c]
      BY <1>4
    <2> HIDE DEF t, c
    <2> QED
      BY <2>1, <2>2 DEF Byte
  <1>6. t \in Seq(Byte) /\ Len(t) = n
    <2>1. t = [i \in 1 .. n |-> t[i]]
      BY DEF Stream
    <2> HIDE DEF t
    <2> QED
      BY <1>4, <1>5, <2>1
  <1>7. Cardinality({}) = 0
    BY FS_EmptySet
  <1> HIDE DEF t
  <1>8. \A i \in 1 .. n : (t[i].end <=> breaks[i]) /\ t[i].session = v1session
                           /\ t[i].line = fed + Cardinality(before(i))
    BY <1>4
  <1>9. ASSUME NEW i \in 1 .. n, NEW j \in 0 .. n, Unbroken(t, i, j)
         PROVE  \A k \in i .. j : ~breaks[k]
    <2> SUFFICES ASSUME NEW k \in i .. j
                 PROVE  ~breaks[k]
      OBVIOUS
    <2>1. k \in 1 .. n
      OBVIOUS
    <2>2. ~t[k].end
      BY <1>9, Zenon DEF Unbroken
    <2>3. t[k].end <=> breaks[k]
      BY <1>8, <2>1, Zenon
    <2> QED
      BY <2>2, <2>3, Zenon
  <1>10. ASSUME NEW i \in 1 .. n, NEW j \in 1 .. n, i <= j, Unbroken(t, i, j - 1)
        PROVE  t[i].line = t[j].line
    <2>1. \A k \in i .. j - 1 : ~breaks[k]
      BY <1>10, <1>9
    <2>2. before(i) = before(j)
      BY <1>10, <2>1
    <2> QED
      BY <1>8, <2>2
  <1>11. ASSUME NEW i \in 1 .. n, Unbroken(t, i, n)
         PROVE  t[i].line = fed + ends
    <2>1. \A k \in i .. n : ~breaks[k]
      BY <1>11, <1>9
    <2>2. before(i) = all
      BY <2>1
    <2> QED
      BY <1>8, <2>2
  <1>12. ASSUME NEW i \in 1 .. n, Unbroken(t, 1, i - 1)
         PROVE  t[i].line = fed
    <2>1. \A k \in 1 .. i - 1 : ~breaks[k]
      BY <1>12, <1>9
    <2>2. Cardinality(before(i)) = 0
      BY <1>7, <2>1
    <2>3. t[i].line = fed + Cardinality(before(i))
      BY <1>8, Zenon
    <2> HIDE DEF before
    <2> QED
      BY <2>2, <2>3
  <1>13. ASSUME Unbroken(t, 1, n)
         PROVE  ends = 0
    <2>1. all = {}
      BY <1>13, <1>9
    <2> QED
      BY <1>7, <2>1
  <1>14. InOrder(t, fed + ends)
    BY <1>4, <1>6, <1>8, <1>10, <1>11 DEF InOrder
  <1> QED
    BY <1>3, <1>6, <1>12, <1>13, <1>14 DEF t

(* A read after bytes without a newline.                                       *)
LEMMA ReadIs ==
    ASSUME fed \in Nat, v1session \in Nat \ {0}, rpcBuffer \in Seq(Byte), ~HasLine,
           NEW n \in Nat \ {0}, NEW breaks \in [1 .. n -> BOOLEAN]
    PROVE  LET ends == Cardinality({i \in DOMAIN breaks : breaks[i]})
               all == rpcBuffer \o Stream(breaks)
           IN  /\ all \in Seq(Byte) /\ ends \in Nat
               /\ InOrder(rpcBuffer, fed) => InOrder(all, fed + ends)
  <1> DEFINE ends == Cardinality({i \in DOMAIN breaks : breaks[i]})
             t == Stream(breaks)
             b == rpcBuffer
             m == Len(rpcBuffer)
             all == b \o t
  <1>1. /\ t \in Seq(Byte) /\ Len(t) = n /\ ends \in Nat /\ InOrder(t, fed + ends)
        /\ \A i \in 1 .. n : Unbroken(t, 1, i - 1) => t[i].line = fed
        /\ Unbroken(t, 1, n) => ends = 0
    BY StreamIs
  <1> HIDE DEF t, ends
  <1>2. /\ all \in Seq(Byte) /\ Len(all) = m + n /\ m \in Nat /\ DOMAIN all = 1 .. m + n
        /\ DOMAIN b = 1 .. m /\ DOMAIN t = 1 .. n
        /\ \A i \in 1 .. m : all[i] = b[i]
        /\ \A i \in m + 1 .. m + n : all[i] = t[i - m]
    <2>1. /\ all \in Seq(Byte) /\ Len(all) = Len(b) + Len(t)
          /\ \A i \in 1 .. Len(b) + Len(t) : all[i] = IF i <= Len(b) THEN b[i] ELSE t[i - Len(b)]
      BY <1>1, ConcatProperties
    <2>2. Len(b) \in Nat /\ DOMAIN b = 1 .. Len(b) /\ DOMAIN t = 1 .. Len(t)
      BY <1>1
    <2>3. DOMAIN all = 1 .. Len(all)
      BY <2>1
    <2> HIDE DEF all
    <2> QED
      BY <1>1, <2>1, <2>2, <2>3
  <1>0. /\ m \in Nat /\ n \in Nat
        /\ \A i \in m + 1 .. m + n : all[i] = t[i - m]
    BY <1>2
  <1>3. \A i \in 1 .. m : ~b[i].end
    BY <1>2, NotNoBuffer DEF HasLine
  <1> HIDE DEF all, b, m
  <1>4. ASSUME InOrder(b, fed)
        PROVE  InOrder(all, fed + ends)
    <2>1. \A i \in 1 .. m : b[i].line = fed /\ b[i].session = v1session
      <3>1. ASSUME NEW i \in 1 .. m
            PROVE  Unbroken(b, i, m)
        BY <1>2, <1>3 DEF Unbroken
      <3> QED
        BY <1>2, <1>4, <3>1 DEF InOrder, m, b
    <2>2. ASSUME NEW i \in m + 1 .. m + n, NEW j \in m .. m + n, Unbroken(all, i, j)
          PROVE  Unbroken(t, i - m, j - m)
      <3> SUFFICES ASSUME NEW k \in i - m .. j - m
                   PROVE  ~t[k].end
        BY DEF Unbroken
      <3>1. k + m \in i .. j /\ k + m \in m + 1 .. m + n /\ (k + m) - m = k
        BY <1>2
      <3> QED
        BY <1>2, <2>2, <3>1 DEF Unbroken
    <2>3. ASSUME NEW i \in 1 .. m + n, NEW j \in 1 .. m + n, i <= j, Unbroken(all, i, j - 1)
          PROVE  all[i].line = all[j].line
      <3>1. CASE j <= m
        BY <1>2, <2>1, <2>3, <3>1
      <3>2. CASE i <= m /\ m < j
        <4>0. j \in m + 1 .. m + n /\ j - m \in 1 .. n /\ (j - 1) - m = (j - m) - 1
          BY <1>0, <3>2
        <4>1. j - m \in 1 .. n /\ all[j] = t[j - m] /\ (j - 1) - m = (j - m) - 1
          BY <1>0, <4>0
        <4>2. Unbroken(all, m + 1, j - 1)
          BY <1>2, <2>3, <3>2 DEF Unbroken
        <4>3. Unbroken(t, 1, (j - m) - 1)
          <5>1. m + 1 \in m + 1 .. m + n /\ j - 1 \in m .. m + n /\ (m + 1) - m = 1
            BY <1>2, <3>2
          <5> QED
            BY <2>2, <4>1, <4>2, <5>1
        <4>4. t[j - m].line = fed
          BY <1>1, <4>1, <4>3
        <4> QED
          BY <1>2, <2>1, <3>2, <4>1, <4>4
      <3>3. CASE m < i
        <4>1. /\ i - m \in 1 .. n /\ j - m \in 1 .. n /\ i - m <= j - m
              /\ all[i] = t[i - m] /\ all[j] = t[j - m] /\ (j - 1) - m = (j - m) - 1
              /\ i \in m + 1 .. m + n /\ j - 1 \in m .. m + n
          <5>1. /\ i - m \in 1 .. n /\ j - m \in 1 .. n /\ i - m <= j - m
                /\ (j - 1) - m = (j - m) - 1 /\ j - 1 \in m .. m + n
                /\ i \in m + 1 .. m + n /\ j \in m + 1 .. m + n
            BY <1>0, <2>3, <3>3
          <5> QED
            BY <1>0, <5>1
        <4>2. Unbroken(t, i - m, (j - m) - 1)
          BY <2>2, <2>3, <4>1
        <4>3. \A a, c \in DOMAIN t : a <= c /\ Unbroken(t, a, c - 1) => t[a].line = t[c].line
          BY <1>1 DEF InOrder
        <4>4. t[i - m].line = t[j - m].line
          BY <1>2, <4>1, <4>2, <4>3
        <4> QED
          BY <4>1, <4>4
      <3> QED
        BY <1>2, <3>1, <3>2, <3>3
    <2>4. ASSUME NEW i \in 1 .. m + n, Unbroken(all, i, m + n)
          PROVE  all[i].line = fed + ends
      <3>1. CASE i <= m
        <4>1. Unbroken(all, m + 1, m + n)
          BY <1>2, <2>4, <3>1 DEF Unbroken
        <4>2. m + 1 \in m + 1 .. m + n /\ m + n \in m .. m + n /\ (m + 1) - m = 1 /\ (m + n) - m = n
          BY <1>2
        <4>3. Unbroken(t, 1, n)
          BY <2>2, <4>1, <4>2
        <4> QED
          BY <1>1, <1>2, <2>1, <3>1, <4>3
      <3>2. CASE m < i
        <4>1. /\ i - m \in 1 .. n /\ all[i] = t[i - m] /\ i \in m + 1 .. m + n
              /\ m + n \in m .. m + n /\ (m + n) - m = n
          BY <1>2, <2>4, <3>2
        <4>2. Unbroken(t, i - m, n)
          BY <2>2, <2>4, <4>1
        <4> QED
          BY <1>1, <1>2, <4>1, <4>2 DEF InOrder
      <3> QED
        BY <1>2, <3>1, <3>2
    <2>5. \A i \in 1 .. m + n : all[i].session = v1session
      <3>1. ASSUME NEW i \in 1 .. m + n
            PROVE  all[i].session = v1session
        <4>1. CASE i <= m
          BY <1>2, <2>1, <4>1
        <4>2. CASE m < i
          <5>1. i - m \in 1 .. n /\ all[i] = t[i - m]
            BY <1>2, <4>2
          <5> QED
            BY <1>1, <1>2, <5>1 DEF InOrder
        <4> QED
          BY <1>2, <4>1, <4>2
      <3> QED
        BY <3>1
    <2> QED
      BY <1>2, <2>3, <2>4, <2>5 DEF InOrder
  <1> QED
    BY <1>1, <1>2, <1>4 DEF all, b, t, ends

(* A step that leaves what was received alone.                                 *)
LEMMA QuietLine ==
    ASSUME LineInv, UNCHANGED <<v1session, fed, rpcBuffer, handled, v1up>>,
           carried' \in BOOLEAN, carried => carried',
           v1step' = v1step \/ (v1step = "check" /\ v1step' = "receive")
    PROVE  LineInv'
  <1>1. InOrder(rpcBuffer, fed)' <=> InOrder(rpcBuffer, fed)
    BY DEF InOrder
  <1>2. Whole(handled)' <=> Whole(handled)
    BY DEF Whole
  <1> QED
    BY <1>1, <1>2 DEF LineInv, LinesWhole

LEMMA LeftLine ==
    ASSUME LineInv, UNCHANGED <<v1session, fed, rpcBuffer, carried>>,
           v1step' = "gone", v1up' = FALSE
    PROVE  LineInv'
  BY DEF LineInv, LinesWhole

(* The buffer is freed with the connection.                                    *)
LEMMA LostLine ==
    ASSUME LineInv, fed' \in Nat, Lose
    PROVE  LineInv'
  BY DEF LineInv, LinesWhole, Lose, Close

(* A line is taken off the buffer; the task goes on or leaves by choice.       *)
LEMMA TakenLine ==
    ASSUME LineInv, v1step = "receive", HasLine, rpcBuffer' = Rest, handled' = Line,
           UNCHANGED <<v1session, fed>>,
           \/ v1step' = "check" /\ UNCHANGED <<v1up, carried>>
           \/ CloseByChoice
    PROVE  LineInv'
  <1>1. v1up = TRUE /\ v1up' \in BOOLEAN /\ carried' \in BOOLEAN
    BY DEF LineInv, CloseByChoice, Close
  <1>2. rpcBuffer \in Seq(Byte) /\ rpcBuffer # NoBuffer
    BY DEF LineInv, HasLine
  <1>3. Rest \in Seq(Byte)
    BY <1>2, CutIs
  <1>4. ASSUME ~carried
        PROVE  Whole(Line) /\ InOrder(Rest, fed)
    BY <1>1, <1>2, <1>4, LineWhole DEF LineInv
  <1>5. CASE v1step' = "check" /\ UNCHANGED <<v1up, carried>>
    <2>1. ~carried => Whole(handled)' /\ InOrder(rpcBuffer, fed)'
      BY <1>4 DEF Whole, InOrder
    <2>2. rpcBuffer' # NoBuffer
      BY <1>3, NotNoBuffer
    <2> QED
      BY <1>1, <1>3, <1>5, <2>1, <2>2 DEF LineInv, LinesWhole
  <1>6. CASE CloseByChoice
    BY <1>3, <1>6 DEF LineInv, LinesWhole, CloseByChoice, Close
  <1> QED
    BY <1>5, <1>6

LEMMA StepLine ==
    ASSUME LineInv, V1Next
    PROVE  LineInv'
  <1>0. carried \in BOOLEAN
    BY DEF LineInv
  <1>1. CASE V1Shutdown \/ PauseOrResume \/ UnreachableV1
    BY <1>0, <1>1, QuietLine DEF V1Shutdown, PauseOrResume, UnreachableV1
  <1>2. CASE LeaveV1 \/ GiveUpV1
    BY <1>2, LeftLine DEF LeaveV1, GiveUpV1, Exit
  <1>3. CASE ConnectV1
    <2>1. /\ v1step = "top" /\ v1step' = "check" /\ v1up' = TRUE /\ fed' = 0 /\ handled' = <<>>
          /\ v1session' = v1session + 1 /\ UNCHANGED <<rpcBuffer, carried>>
      BY <1>3 DEF ConnectV1
    <2>2. v1session' \in Nat /\ v1session' # 0
      BY <2>1 DEF LineInv
    <2>3. rpcBuffer' = <<>> => InOrder(rpcBuffer, fed)'
      BY DEF InOrder
    <2>4. LinesWhole'
      BY <2>1 DEF LinesWhole
    <2> QED
      BY <2>1, <2>2, <2>3, <2>4 DEF LineInv
  <1>4. CASE Receive
    BY <1>0, <1>4, QuietLine DEF Receive
  <1>5. CASE InitializeBuffer
    <2>1. /\ v1step = "receive" /\ rpcBuffer = NoBuffer /\ rpcBuffer' = <<>> /\ carried' = FALSE
          /\ UNCHANGED <<v1step, v1up, fed, v1session, handled>>
      BY <1>5 DEF InitializeBuffer
    <2>2. handled' = <<>>
      BY <2>1 DEF LineInv
    <2>3. InOrder(rpcBuffer, fed)'
      BY <2>1 DEF InOrder
    <2>4. LinesWhole'
      BY <2>2 DEF LinesWhole
    <2>5. rpcBuffer' \in Seq(Byte)
      BY <2>1
    <2> QED
      BY <2>1, <2>2, <2>3, <2>4, <2>5 DEF LineInv
  <1>6. CASE ReadFails
    BY <1>6, LostLine DEF ReadFails, LineInv
  <1>7. CASE ReadBytes
    <2>1. PICK breaks \in UNION {[1 .. n -> BOOLEAN] : n \in 1 .. MaxChunk} :
             LET ends == Cardinality({i \in DOMAIN breaks : breaks[i]})
                 all == rpcBuffer \o Stream(breaks)
             IN  /\ fed + ends <= MaxLines /\ fed' = fed + ends
                 /\ \/ Len(all) > MaxBytes /\ Lose
                    \/ /\ Len(all) <= MaxBytes /\ rpcBuffer' = all
                       /\ UNCHANGED <<v1step, v1retry, v1up, uid, timing, asked, sending, asicOn,
                                      v1stop, v1told, counted, v1session, v1shares, carried,
                                      overrun, handled, timed>>
      BY <1>7, Zenon DEF ReadBytes
    <2>2. PICK n \in 1 .. MaxChunk : breaks \in [1 .. n -> BOOLEAN]
      OBVIOUS
    <2> DEFINE ends == Cardinality({i \in DOMAIN breaks : breaks[i]})
               all == rpcBuffer \o Stream(breaks)
    <2>3. /\ v1step = "receive" /\ rpcBuffer # NoBuffer /\ ~HasLine
      BY <1>7 DEF ReadBytes, Waiting
    <2>4. /\ fed \in Nat /\ v1session \in Nat \ {0} /\ rpcBuffer \in Seq(Byte)
          /\ v1up /\ n \in Nat \ {0}
      BY <2>3 DEF LineInv
    <2>5. all \in Seq(Byte) /\ ends \in Nat /\ (InOrder(rpcBuffer, fed) => InOrder(all, fed + ends))
      BY <2>3, <2>4, <2>2, ReadIs
    <2> HIDE DEF all, ends
    <2>6. fed' = fed + ends
      BY <2>1 DEF ends
    <2>7. CASE Lose
      <3>1. fed' \in Nat
        BY <2>4, <2>5, <2>6
      <3> QED
        BY <2>7, <3>1, LostLine
    <2>8. CASE rpcBuffer' = all /\ UNCHANGED <<v1step, v1up, v1session, carried, handled>>
      <3>1. InOrder(rpcBuffer, fed) => InOrder(rpcBuffer, fed)'
        BY <2>5, <2>6, <2>8 DEF InOrder
      <3>2. Whole(handled)' <=> Whole(handled)
        BY <2>8 DEF Whole
      <3>3. rpcBuffer' \in Seq(Byte) /\ rpcBuffer' # NoBuffer /\ fed' \in Nat
        BY <2>4, <2>5, <2>6, <2>8, NotNoBuffer
      <3> QED
        BY <2>3, <2>4, <2>8, <3>1, <3>2, <3>3 DEF LineInv, LinesWhole
    <2> QED
      BY <2>1, <2>7, <2>8 DEF all
  <1>8. CASE PausedLine
    BY <1>8, TakenLine DEF PausedLine
  <1>9. CASE HandleRequest
    <2>1. \/ v1step' = "check" /\ UNCHANGED <<v1up, carried>>
          \/ CloseByChoice
      BY <1>9 DEF HandleRequest
    <2> QED
      BY <1>9, <2>1, TakenLine DEF HandleRequest, Taken, HandleFrame
  <1>10. CASE HandleResult
    BY <1>10, TakenLine DEF HandleResult, Taken, HandleFrame
  <1>11. CASE TakeUid \/ SubmitV1
    BY <1>0, <1>11, QuietLine DEF TakeUid, SubmitV1, SendFrame
  <1>12. CASE StampTx
    <2>1. carried' = (carried \/ sending.session # v1session)
      BY <1>12 DEF StampTx
    <2>2. carried' \in BOOLEAN /\ (carried => carried')
      BY <1>0, <2>1, Zenon
    <2> QED
      BY <1>12, <2>2, QuietLine DEF StampTx, SendFrame
  <1> QED
    BY <1>1, <1>2, <1>3, <1>4, <1>5, <1>6, <1>7, <1>8, <1>9, <1>10, <1>11, <1>12 DEF V1Next

LEMMA InitLine ==
    ASSUME V1Init
    PROVE  LineInv
  <1>1. rpcBuffer \in Seq(Byte)
    BY DEF V1Init
  <1>2. LinesWhole
    BY DEF V1Init, LinesWhole
  <1> QED
    BY <1>1, <1>2 DEF V1Init, LineInv

(* LinesWhole for any limits of buffer, reads and connections: however the     *)
(* pool's bytes are cut into reads, the task handles whole lines of the        *)
(* connection that it is on, unless it left the one before by choice.          *)
THEOREM LinesAreWhole == V1Spec => []LinesWhole
  <1>1. V1Init => LineInv
    BY InitLine
  <1>2. LineInv /\ [V1Next]_v1Vars => LineInv'
    <2>1. ASSUME LineInv, UNCHANGED v1Vars
          PROVE  LineInv'
      BY <2>1, QuietLine DEF v1Vars, LineInv
    <2> QED
      BY <2>1, StepLine
  <1>3. LineInv => LinesWhole
    BY DEF LineInv
  <1> QED
    BY <1>1, <1>2, <1>3, PTL DEF V1Spec

-----------------------------------------------------------------------------
(* The verdicts of the V1 connection.  A share that was sent is being sent, is *)
(* being timed, or was counted or lost; and a share that is asked about finds  *)
(* its own slot free or timed for itself or a later share.                     *)

Timings == 0 .. IdSlots - 1
TimedIn(t) == {i \in Timings : t[i] # 0}
IdSlot(id) == id % IdSlots

Answerable ==
    /\ \A r \in asked : timing[IdSlot(r.id)] = 0 \/ r.n <= timing[IdSlot(r.id)]
    /\ sending.at = "taken" => timing[IdSlot(sending.id)] = 0

VerdictInv ==
    /\ v1shares \in Nat /\ counted \in Nat /\ uid \in Nat /\ overrun \in BOOLEAN
    /\ timing \in [Timings -> 0 .. v1shares]
    /\ sending = NoSend \/ sending \in [n : {v1shares}, id : Nat, session : Nat,
                                        at : {"taken", "written"}]
    /\ \A r \in asked : r.n \in 0 .. v1shares /\ r.id \in Nat
    /\ counted + Cardinality(TimedIn(timing)) + (IF sending = NoSend THEN 0 ELSE 1) <= v1shares
    /\ v1up /\ rpcBuffer = NoBuffer => timed = <<0, 0>>
    /\ ~carried /\ ~overrun /\ rpcBuffer # NoBuffer => Answerable
    /\ ~carried /\ ~overrun => timed[1] <= timed[2]

LEMMA SlotIs ==
    ASSUME IdSlots \in Nat \ {0}, NEW id \in Nat
    PROVE  IdSlot(id) \in Timings
  BY DEF IdSlot, Timings

LEMMA TimedFinite ==
    ASSUME IdSlots \in Nat \ {0}, NEW t
    PROVE  IsFiniteSet(TimedIn(t)) /\ Cardinality(TimedIn(t)) \in Nat
  <1>1. IsFiniteSet(Timings)
    BY FS_Interval DEF Timings
  <1>2. TimedIn(t) \subseteq Timings
    BY DEF TimedIn
  <1> QED
    BY <1>1, <1>2, FS_Subset, FS_CardinalityType

(* stamp_tx times one slot more at most, an answer one less.                   *)
LEMMA StampedCount ==
    ASSUME IdSlots \in Nat \ {0}, NEW t, DOMAIN t = Timings, NEW s \in Timings, NEW n
    PROVE  Cardinality(TimedIn([t EXCEPT ![s] = n])) <= Cardinality(TimedIn(t)) + 1
  <1> DEFINE T == TimedIn(t)
             T2 == TimedIn([t EXCEPT ![s] = n])
  <1>1. T2 \subseteq T \cup {s}
    BY DEF TimedIn
  <1>2. IsFiniteSet(T) /\ Cardinality(T) \in Nat /\ Cardinality(T2) \in Nat
    BY TimedFinite
  <1> HIDE DEF T, T2
  <1>3. /\ IsFiniteSet(T \cup {s})
        /\ Cardinality(T \cup {s}) = IF s \in T THEN Cardinality(T) ELSE Cardinality(T) + 1
    BY <1>2, FS_AddElement
  <1>4. Cardinality(T2) <= Cardinality(T \cup {s})
    BY <1>1, <1>3, FS_Subset
  <1> QED
    BY <1>2, <1>3, <1>4 DEF T, T2

LEMMA AnsweredCount ==
    ASSUME IdSlots \in Nat \ {0}, NEW t, DOMAIN t = Timings, NEW s \in Timings, t[s] # 0
    PROVE  Cardinality(TimedIn([t EXCEPT ![s] = 0])) = Cardinality(TimedIn(t)) - 1
  <1> DEFINE T == TimedIn(t)
  <1>1. TimedIn([t EXCEPT ![s] = 0]) = T \ {s} /\ s \in T
    BY DEF TimedIn
  <1>2. IsFiniteSet(T)
    BY TimedFinite
  <1> HIDE DEF T
  <1>3. Cardinality(T \ {s}) = Cardinality(T) - 1
    BY <1>1, <1>2, FS_RemoveElement
  <1> QED
    BY <1>1, <1>3 DEF T

(* A step that times, sends and counts nothing.                                *)
LEMMA QuietVerdict ==
    ASSUME IdSlots \in Nat \ {0}, VerdictInv,
           UNCHANGED <<v1shares, counted, timing, sending, overrun>>,
           carried \in BOOLEAN, carried' \in BOOLEAN, carried => carried', uid' \in Nat,
           \A r \in asked' : r \in asked \/ (r.n = 0 /\ r.id \in Nat),
           timed' = timed \/ timed' = <<0, 0>>,
           rpcBuffer' # NoBuffer => rpcBuffer # NoBuffer,
           v1up' /\ rpcBuffer' = NoBuffer => (v1up /\ rpcBuffer = NoBuffer /\ timed' = timed) \/ timed' = <<0, 0>>
    PROVE  VerdictInv'
  <1>1. \A r \in asked' : r.n \in 0 .. v1shares /\ r.id \in Nat
    BY DEF VerdictInv
  <1>2. Answerable => Answerable'
    <2> SUFFICES ASSUME Answerable, NEW r \in asked'
                 PROVE  timing[IdSlot(r.id)] = 0 \/ r.n <= timing[IdSlot(r.id)]
      BY DEF Answerable, IdSlot
    <2>1. CASE r \in asked
      BY <2>1 DEF Answerable
    <2>2. CASE r.n = 0 /\ r.id \in Nat
      <3>1. timing[IdSlot(r.id)] \in 0 .. v1shares
        BY <2>2, SlotIs DEF VerdictInv
      <3> QED
        BY <2>2, <3>1 DEF VerdictInv
    <2> QED
      BY <2>1, <2>2
  <1>3. /\ v1shares' \in Nat /\ counted' \in Nat /\ overrun' \in BOOLEAN
        /\ timing' \in [Timings -> 0 .. v1shares']
        /\ sending' = NoSend \/ sending' \in [n : {v1shares'}, id : Nat, session : Nat,
                                              at : {"taken", "written"}]
    BY DEF VerdictInv
  <1>4. counted' + Cardinality(TimedIn(timing')) + (IF sending' = NoSend THEN 0 ELSE 1) <= v1shares'
    BY DEF VerdictInv
  <1>5. v1up' /\ rpcBuffer' = NoBuffer => timed' = <<0, 0>>
    BY DEF VerdictInv
  <1>6. ~carried' /\ ~overrun' /\ rpcBuffer' # NoBuffer => Answerable'
    BY <1>2 DEF VerdictInv
  <1>7. ~carried' /\ ~overrun' => timed'[1] <= timed'[2]
    BY DEF VerdictInv
  <1> QED
    BY <1>1, <1>3, <1>4, <1>5, <1>6, <1>7 DEF VerdictInv, Timings, TimedIn

LEMMA InitializeVerdict ==
    ASSUME IdSlots \in Nat \ {0}, LineInv, VerdictInv, InitializeBuffer
    PROVE  VerdictInv'
  <1>1. /\ v1step = "receive" /\ rpcBuffer = NoBuffer /\ timing' = Untimed /\ overrun' = FALSE
        /\ UNCHANGED <<v1up, v1shares, counted, uid, asked, sending, timed>>
        /\ rpcBuffer' = <<>>
    BY DEF InitializeBuffer
  <1>2. timing' \in [Timings -> 0 .. v1shares'] /\ \A i \in Timings : timing'[i] = 0
    BY <1>1 DEF Untimed, Timings, VerdictInv
  <1>3. Cardinality(TimedIn(timing')) = 0
    <2>1. TimedIn(timing') = {}
      BY <1>2 DEF TimedIn
    <2> QED
      BY <2>1, FS_EmptySet
  <1>4. Cardinality(TimedIn(timing)) \in Nat
    BY TimedFinite
  <1>5. timed' = <<0, 0>>
    BY <1>1 DEF LineInv, VerdictInv
  <1>6. Answerable'
    <2>1. \A r \in asked' : IdSlot(r.id) \in Timings
      BY <1>1, SlotIs DEF VerdictInv
    <2>2. sending'.at = "taken" => IdSlot(sending'.id) \in Timings
      <3>1. NoSend.at = "idle"
        BY DEF NoSend
      <3>2. sending = NoSend \/ sending.id \in Nat
        BY DEF VerdictInv
      <3> QED
        BY <1>1, <3>1, <3>2, SlotIs
    <2> QED
      BY <1>2, <2>1, <2>2 DEF Answerable, IdSlot
  <1>7. counted' + Cardinality(TimedIn(timing')) + (IF sending' = NoSend THEN 0 ELSE 1) <= v1shares'
    BY <1>1, <1>3, <1>4 DEF VerdictInv
  <1>8. timed'[1] <= timed'[2]
    BY <1>5
  <1>9. /\ v1shares' \in Nat /\ counted' \in Nat /\ uid' \in Nat /\ overrun' \in BOOLEAN
        /\ sending' = NoSend \/ sending' \in [n : {v1shares'}, id : Nat, session : Nat,
                                              at : {"taken", "written"}]
        /\ \A r \in asked' : r.n \in 0 .. v1shares' /\ r.id \in Nat
    BY <1>1 DEF VerdictInv
  <1> QED
    BY <1>2, <1>5, <1>6, <1>7, <1>8, <1>9 DEF VerdictInv, Timings, TimedIn, NoSend

(* The result task takes an id, sends, and times what it sent.                 *)
LEMMA TakeUidVerdict ==
    ASSUME IdSlots \in Nat \ {0}, LineInv, VerdictInv, TakeUid
    PROVE  VerdictInv'
  <1>1. /\ sending = NoSend /\ v1up /\ v1shares' = v1shares + 1 /\ uid' = uid + 1
        /\ sending' = [n |-> v1shares + 1, id |-> uid, session |-> v1session, at |-> "taken"]
        /\ overrun' = (overrun \/ (rpcBuffer # NoBuffer /\ timing[uid % IdSlots] # 0))
        /\ UNCHANGED <<v1up, rpcBuffer, timing, asked, carried, counted, timed>>
    BY DEF TakeUid, SendFrame
  <1>2. /\ v1shares \in Nat /\ uid \in Nat /\ counted \in Nat /\ v1session \in Nat
        /\ overrun \in BOOLEAN
    BY DEF VerdictInv, LineInv
  <1>3. overrun' \in BOOLEAN /\ (overrun => overrun')
        /\ (~overrun' /\ rpcBuffer # NoBuffer => timing[IdSlot(uid)] = 0)
    BY <1>1, <1>2, Zenon DEF IdSlot
  <1>4. /\ sending' \in [n : {v1shares'}, id : Nat, session : Nat, at : {"taken", "written"}]
        /\ sending' # NoSend /\ sending'.id = uid
    BY <1>1, <1>2 DEF NoSend
  <1>5. timing' \in [Timings -> 0 .. v1shares']
    <2>1. timing \in [Timings -> 0 .. v1shares] /\ 0 .. v1shares \subseteq 0 .. v1shares'
      BY <1>1, <1>2 DEF VerdictInv
    <2> QED
      BY <1>1, <2>1
  <1>6. \A r \in asked' : r.n \in 0 .. v1shares' /\ r.id \in Nat
    BY <1>1, <1>2 DEF VerdictInv
  <1>7. counted' + Cardinality(TimedIn(timing')) + 1 <= v1shares'
    <2>1. counted + Cardinality(TimedIn(timing)) <= v1shares /\ Cardinality(TimedIn(timing)) \in Nat
      BY <1>1, <1>2, TimedFinite DEF VerdictInv
    <2> QED
      BY <1>1, <1>2, <2>1
  <1>8. ~carried' /\ ~overrun' /\ rpcBuffer' # NoBuffer => Answerable'
    BY <1>1, <1>3, <1>4 DEF VerdictInv, Answerable, IdSlot
  <1>9. ~carried' /\ ~overrun' => timed'[1] <= timed'[2]
    BY <1>1, <1>3 DEF VerdictInv
  <1>10. v1up' /\ rpcBuffer' = NoBuffer => timed' = <<0, 0>>
    BY <1>1 DEF VerdictInv
  <1> QED
    BY <1>1, <1>2, <1>3, <1>4, <1>5, <1>6, <1>7, <1>8, <1>9, <1>10
    DEF VerdictInv, Timings, TimedIn, NoSend

LEMMA SubmitVerdict ==
    ASSUME IdSlots \in Nat \ {0}, LineInv, VerdictInv, SubmitV1
    PROVE  VerdictInv'
  <1> DEFINE r0 == [n |-> sending.n, id |-> sending.id, what |-> "share"]
  <1>1. /\ sending.at = "taken" /\ sending' = [sending EXCEPT !.at = "written"]
        /\ asked' \subseteq asked \cup {r0}
        /\ UNCHANGED <<v1up, rpcBuffer, carried, overrun, timing, uid, v1shares, counted, timed>>
    BY DEF SubmitV1, SendFrame
  <1>2. sending \in [n : {v1shares}, id : Nat, session : Nat, at : {"taken", "written"}]
        /\ sending # NoSend
    BY <1>1 DEF VerdictInv, NoSend
  <1>3. /\ sending' \in [n : {v1shares'}, id : Nat, session : Nat, at : {"taken", "written"}]
        /\ sending'.at = "written" /\ sending' # NoSend
    BY <1>1, <1>2 DEF NoSend
  <1>4. /\ r0.n = v1shares /\ r0.id = sending.id /\ sending.id \in Nat /\ v1shares \in Nat
    BY <1>2 DEF VerdictInv
  <1> HIDE DEF r0
  <1>5. \A r \in asked' : r.n \in 0 .. v1shares' /\ r.id \in Nat
    BY <1>1, <1>4 DEF VerdictInv
  <1>6. Answerable => Answerable'
    BY <1>1, <1>3, <1>4 DEF Answerable, IdSlot
  <1>7. counted' + Cardinality(TimedIn(timing')) + 1 <= v1shares'
    BY <1>1, <1>2 DEF VerdictInv
  <1>8. ~carried' /\ ~overrun' /\ rpcBuffer' # NoBuffer => Answerable'
    BY <1>1, <1>6 DEF VerdictInv
  <1> QED
    BY <1>1, <1>3, <1>5, <1>7, <1>8 DEF VerdictInv, Timings, TimedIn, NoSend

LEMMA StampVerdict ==
    ASSUME IdSlots \in Nat \ {0}, LineInv, VerdictInv, StampTx
    PROVE  VerdictInv'
  <1>1. /\ sending.at = "written" /\ sending' = NoSend
        /\ timing' = [timing EXCEPT ![IdSlot(sending.id)] = sending.n]
        /\ carried' = (carried \/ sending.session # v1session)
        /\ UNCHANGED <<v1up, rpcBuffer, overrun, asked, uid, v1shares, counted, timed>>
    BY DEF StampTx, SendFrame, IdSlot
  <1>2. carried => carried'
    BY <1>1, Zenon
  <1>3. /\ sending # NoSend /\ sending.n = v1shares /\ sending.id \in Nat /\ v1shares \in Nat
        /\ timing \in [Timings -> 0 .. v1shares]
    BY <1>1 DEF VerdictInv, NoSend
  <1>4. IdSlot(sending.id) \in Timings
    BY <1>3, SlotIs
  <1>5. timing' \in [Timings -> 0 .. v1shares']
    BY <1>1, <1>3, <1>4
  <1>6. counted' + Cardinality(TimedIn(timing')) + 0 <= v1shares'
    <2>1. Cardinality(TimedIn(timing')) <= Cardinality(TimedIn(timing)) + 1
      BY <1>1, <1>3, <1>4, StampedCount
    <2>2. Cardinality(TimedIn(timing)) \in Nat /\ Cardinality(TimedIn(timing')) \in Nat
      BY TimedFinite
    <2>3. counted + Cardinality(TimedIn(timing)) + 1 <= v1shares /\ counted \in Nat
      BY <1>3 DEF VerdictInv
    <2> QED
      BY <1>1, <1>3, <2>1, <2>2, <2>3
  <1>7. Answerable => Answerable'
    <2>1. NoSend.at # "taken"
      BY DEF NoSend
    <2>2. ASSUME Answerable, NEW r \in asked
          PROVE  timing'[IdSlot(r.id)] = 0 \/ r.n <= timing'[IdSlot(r.id)]
      <3>1. r.n \in 0 .. v1shares /\ IdSlot(r.id) \in Timings
        BY SlotIs DEF VerdictInv
      <3>2. CASE IdSlot(r.id) = IdSlot(sending.id)
        BY <1>1, <1>3, <1>4, <3>1, <3>2
      <3>3. CASE IdSlot(r.id) # IdSlot(sending.id)
        BY <1>1, <1>3, <2>2, <3>1, <3>3 DEF Answerable
      <3> QED
        BY <3>2, <3>3
    <2> QED
      BY <1>1, <2>1, <2>2 DEF Answerable, IdSlot
  <1>8. ~carried' /\ ~overrun' /\ rpcBuffer' # NoBuffer => Answerable'
    BY <1>1, <1>2, <1>7 DEF VerdictInv
  <1>9. ~carried' /\ ~overrun' => timed'[1] <= timed'[2]
    BY <1>1, <1>2 DEF VerdictInv
  <1> QED
    BY <1>1, <1>5, <1>6, <1>8, <1>9 DEF VerdictInv, Timings, TimedIn, NoSend

(* The answer to a share that is timed.                                        *)
LEMMA AnswerVerdict ==
    ASSUME IdSlots \in Nat \ {0}, LineInv, VerdictInv, NEW r \in asked,
           rpcBuffer # NoBuffer, rpcBuffer' # NoBuffer, timing[IdSlot(r.id)] # 0,
           timing' = [timing EXCEPT ![IdSlot(r.id)] = 0], counted' = counted + 1,
           timed' = <<r.n, timing[IdSlot(r.id)]>>, asked' \subseteq asked,
           UNCHANGED <<v1shares, uid, sending, overrun, carried>>
    PROVE  VerdictInv'
  <1> DEFINE sl == IdSlot(r.id)
  <1>1. /\ r.n \in 0 .. v1shares /\ r.id \in Nat /\ sl \in Timings /\ v1shares \in Nat
        /\ timing \in [Timings -> 0 .. v1shares] /\ counted \in Nat
    BY SlotIs DEF VerdictInv
  <1>2. ~carried /\ ~overrun => r.n <= timing[sl]
    BY DEF VerdictInv, Answerable
  <1> HIDE DEF sl
  <1>3. timing' = [timing EXCEPT ![sl] = 0] /\ timing[sl] # 0 /\ timed' = <<r.n, timing[sl]>>
    BY DEF sl
  <1>4. timing' \in [Timings -> 0 .. v1shares']
    BY <1>1, <1>3
  <1>5. counted' + Cardinality(TimedIn(timing')) + (IF sending' = NoSend THEN 0 ELSE 1) <= v1shares'
    <2>1. Cardinality(TimedIn(timing')) = Cardinality(TimedIn(timing)) - 1
      BY <1>1, <1>3, AnsweredCount
    <2>2. Cardinality(TimedIn(timing)) \in Nat
      BY TimedFinite
    <2>3. counted + Cardinality(TimedIn(timing)) + (IF sending = NoSend THEN 0 ELSE 1) <= v1shares
      BY DEF VerdictInv
    <2> QED
      BY <1>1, <2>1, <2>2, <2>3
  <1>6. \A i \in Timings : timing'[i] = timing[i] \/ timing'[i] = 0
    BY <1>1, <1>3
  <1>7. Answerable => Answerable'
    <2>1. \A x \in asked' : IdSlot(x.id) \in Timings
      BY SlotIs DEF VerdictInv
    <2>2. sending.at = "taken" => IdSlot(sending.id) \in Timings
      <3>1. NoSend.at = "idle"
        BY DEF NoSend
      <3>2. sending = NoSend \/ sending.id \in Nat
        BY DEF VerdictInv
      <3> QED
        BY <3>1, <3>2, SlotIs
    <2> QED
      BY <1>6, <2>1, <2>2 DEF Answerable, IdSlot
  <1>8. \A x \in asked' : x.n \in 0 .. v1shares' /\ x.id \in Nat
    BY DEF VerdictInv
  <1>9. timed'[1] = r.n /\ timed'[2] = timing[sl]
    BY <1>3
  <1>10. /\ ~carried' /\ ~overrun' /\ rpcBuffer' # NoBuffer => Answerable'
         /\ ~carried' /\ ~overrun' => timed'[1] <= timed'[2]
    BY <1>2, <1>7, <1>9 DEF VerdictInv
  <1>11. counted' \in Nat
    BY <1>1
  <1> QED
    BY <1>4, <1>5, <1>8, <1>10, <1>11 DEF VerdictInv, Timings, TimedIn, NoSend

LEMMA StepVerdict ==
    ASSUME IdSlots \in Nat \ {0}, LineInv, VerdictInv, V1Next
    PROVE  VerdictInv'
  <1>0. carried \in BOOLEAN /\ uid \in Nat /\ v1up \in BOOLEAN
    BY DEF LineInv, VerdictInv
  <1>1. CASE V1Shutdown \/ PauseOrResume \/ UnreachableV1 \/ Receive
    <2>1. UNCHANGED <<v1shares, counted, timing, sending, overrun, carried, uid, asked, timed,
                      rpcBuffer, v1up>>
      BY <1>1 DEF V1Shutdown, PauseOrResume, UnreachableV1, Receive
    <2> QED
      BY <1>0, <2>1, QuietVerdict
  <1>2. CASE LeaveV1 \/ GiveUpV1
    <2>1. /\ UNCHANGED <<v1shares, counted, timing, sending, overrun, carried, uid, asked, timed,
                         rpcBuffer>>
          /\ v1up' = FALSE
      BY <1>2 DEF LeaveV1, GiveUpV1, Exit
    <2> QED
      BY <1>0, <2>1, QuietVerdict
  <1>3. CASE ConnectV1
    <2>1. /\ UNCHANGED <<v1shares, counted, timing, sending, overrun, carried, rpcBuffer>>
          /\ uid' = 4 /\ timed' = <<0, 0>> /\ asked' = Setup
      BY <1>3 DEF ConnectV1
    <2>2. \A r \in asked' : r.n = 0 /\ r.id \in Nat
      BY <2>1 DEF Setup
    <2> QED
      BY <1>0, <2>1, <2>2, QuietVerdict
  <1>4. CASE InitializeBuffer
    BY <1>4, InitializeVerdict
  <1>5. ASSUME Lose, rpcBuffer # NoBuffer
        PROVE  VerdictInv'
    <2>1. /\ UNCHANGED <<v1shares, counted, timing, sending, overrun, carried, uid, asked, timed>>
          /\ v1up' = FALSE /\ rpcBuffer' = NoBuffer
      BY <1>5 DEF Lose, Close
    <2> QED
      BY <1>0, <2>1, QuietVerdict
  <1>6. CASE ReadFails
    BY <1>5, <1>6 DEF ReadFails, Waiting
  <1>7. CASE ReadBytes
    <2>1. rpcBuffer # NoBuffer
      BY <1>7 DEF ReadBytes, Waiting
    <2>2. \/ Lose
          \/ UNCHANGED <<v1up, uid, timing, asked, sending, counted, v1shares, carried, overrun,
                         timed>>
      BY <1>7 DEF ReadBytes
    <2>3. CASE /\ UNCHANGED <<v1up, uid, timing, asked, sending, counted, v1shares, carried,
                              overrun, timed>>
               /\ ~Lose
      <3>1. PICK breaks \in UNION {[1 .. n -> BOOLEAN] : n \in 1 .. MaxChunk} :
               rpcBuffer' = rpcBuffer \o Stream(breaks)
        BY <1>7, <2>3 DEF ReadBytes
      <3>2. PICK n \in 1 .. MaxChunk : breaks \in [1 .. n -> BOOLEAN]
        OBVIOUS
      <3>3. /\ fed \in Nat /\ v1session \in Nat \ {0} /\ rpcBuffer \in Seq(Byte) /\ ~HasLine
            /\ n \in Nat \ {0}
        BY <1>7 DEF ReadBytes, Waiting, LineInv
      <3>4. rpcBuffer' \in Seq(Byte)
        BY <3>1, <3>2, <3>3, ReadIs
      <3>5. rpcBuffer' # NoBuffer
        BY <3>4, NotNoBuffer
      <3> QED
        BY <1>0, <2>1, <2>3, <3>5, QuietVerdict
    <2> QED
      BY <1>5, <2>1, <2>2, <2>3
  <1>8. ASSUME HasLine, rpcBuffer' = Rest
        PROVE  rpcBuffer # NoBuffer /\ rpcBuffer' # NoBuffer
    <2>1. rpcBuffer # NoBuffer /\ rpcBuffer \in Seq(Byte)
      BY <1>8 DEF HasLine, LineInv
    <2> QED
      BY <1>8, <2>1, CutIs, NotNoBuffer
  <1>9. CASE PausedLine
    <2>1. /\ UNCHANGED <<v1shares, counted, timing, sending, overrun, uid, asked, timed>>
          /\ carried' = TRUE /\ HasLine /\ rpcBuffer' = Rest
      BY <1>9 DEF PausedLine, CloseByChoice
    <2> QED
      BY <1>0, <1>8, <2>1, QuietVerdict
  <1>10. CASE HandleRequest
    <2>1. /\ UNCHANGED <<v1shares, counted, timing, sending, overrun, uid, asked, timed>>
          /\ HasLine /\ rpcBuffer' = Rest
      BY <1>10 DEF HandleRequest, HandleFrame, Taken
    <2>2. carried' = carried \/ carried' = TRUE
      BY <1>10 DEF HandleRequest, CloseByChoice
    <2> QED
      BY <1>0, <1>8, <2>1, <2>2, QuietVerdict
  <1>11. CASE HandleResult
    <2>1. /\ UNCHANGED <<v1shares, sending, overrun, carried, v1up>>
          /\ rpcBuffer # NoBuffer /\ rpcBuffer' # NoBuffer
      BY <1>8, <1>11 DEF HandleResult, HandleFrame, Taken
    <2>2. PICK r \in asked, result \in Results, error \in Errors :
             LET verdict == parse_result(result, error)
                 share == timing[r.id % IdSlots]
                 more == verdict = "accepted" /\ r.what = "authorize"
             IN  /\ r.what \in {"subscribe", "configure"} \/ verdict \notin {"subscribe", "configure"}
                 /\ \/ /\ verdict \in {"unparsed", "subscribe"}
                       /\ UNCHANGED <<v1retry, uid, timing, v1told, counted, timed>>
                       /\ asked' = asked \ {r}
                    \/ /\ verdict = "configure" /\ v1told' = "success"
                       /\ UNCHANGED <<v1retry, uid, timing, counted, timed>>
                       /\ asked' = asked \ {r}
                    \/ /\ verdict \in {"accepted", "rejected"} /\ share # 0
                       /\ GetResponseTime(r.id)
                       /\ counted' = counted + 1 /\ timed' = <<r.n, share>>
                       /\ UNCHANGED <<v1retry, uid, v1told>> /\ asked' = asked \ {r}
                    \/ /\ verdict \in {"accepted", "rejected"} /\ share = 0
                       /\ v1retry' = 0 /\ v1told' = "success"
                       /\ uid' = IF more THEN uid + 2 ELSE uid
                       /\ asked' = (asked \ {r}) \cup
                                   IF more THEN {[n |-> 0, id |-> uid, what |-> "difficulty"],
                                                 [n |-> 0, id |-> uid + 1, what |-> "extranonce"]}
                                   ELSE {}
                       /\ UNCHANGED <<timing, counted, timed>>
      BY <1>11, Zenon DEF HandleResult
    <2>3. CASE UNCHANGED <<uid, timing, counted, timed>> /\ asked' = asked \ {r}
      BY <1>0, <2>1, <2>3, QuietVerdict
    <2>4. CASE /\ timing[IdSlot(r.id)] # 0 /\ timing' = [timing EXCEPT ![IdSlot(r.id)] = 0]
               /\ counted' = counted + 1 /\ timed' = <<r.n, timing[IdSlot(r.id)]>>
               /\ uid' = uid /\ asked' = asked \ {r}
      BY <2>1, <2>4, AnswerVerdict
    <2>5. CASE /\ uid' \in {uid, uid + 2} /\ UNCHANGED <<timing, counted, timed>>
               /\ asked' \subseteq (asked \ {r}) \cup
                     {[n |-> 0, id |-> uid, what |-> "difficulty"],
                      [n |-> 0, id |-> uid + 1, what |-> "extranonce"]}
      <3>1. \A x \in asked' : x \in asked \/ (x.n = 0 /\ x.id \in Nat)
        BY <1>0, <2>5
      <3>2. uid' \in Nat
        BY <1>0, <2>5
      <3> QED
        BY <1>0, <2>1, <2>5, <3>1, <3>2, QuietVerdict
    <2> QED
      BY <2>2, <2>3, <2>4, <2>5 DEF GetResponseTime, IdSlot
  <1>12. CASE TakeUid
    BY <1>12, TakeUidVerdict
  <1>13. CASE SubmitV1
    BY <1>13, SubmitVerdict
  <1>14. CASE StampTx
    BY <1>14, StampVerdict
  <1> QED
    BY <1>1, <1>2, <1>3, <1>4, <1>6, <1>7, <1>9, <1>10, <1>11, <1>12, <1>13, <1>14 DEF V1Next

(* VerdictsCounted for any number of shares, connections and slots: an answer  *)
(* is counted at most once for every share, and never timed with an earlier    *)
(* share than its own, unless a slot came round before it was answered or the  *)
(* timings are of an earlier connection.                                       *)
THEOREM VerdictsAreCounted ==
    ASSUME IdSlots \in Nat \ {0}
    PROVE  V1Spec => []VerdictsCounted
  <1>1. V1Init => LineInv /\ VerdictInv
    <2> SUFFICES ASSUME V1Init PROVE LineInv /\ VerdictInv
      OBVIOUS
    <2>1. LineInv
      BY InitLine
    <2>2. timing \in [Timings -> 0 .. v1shares] /\ TimedIn(timing) = {}
      BY DEF V1Init, Untimed, Timings, TimedIn
    <2>3. Cardinality(TimedIn(timing)) = 0
      BY <2>2, FS_EmptySet
    <2>4. sending = NoSend /\ asked = {} /\ NoSend.at = "idle" /\ timed[1] = 0 /\ timed[2] = 0
      BY DEF V1Init, NoSend
    <2>5. Answerable
      BY <2>4 DEF Answerable
    <2>6. v1shares = 0 /\ counted = 0 /\ uid = 1 /\ overrun = FALSE /\ v1up = FALSE
      BY DEF V1Init
    <2>7. counted + Cardinality(TimedIn(timing)) + (IF sending = NoSend THEN 0 ELSE 1) <= v1shares
      BY <2>3, <2>4, <2>6
    <2>8. timed[1] <= timed[2]
      BY <2>4
    <2>9. \A r \in asked : r.n \in 0 .. v1shares /\ r.id \in Nat
      BY <2>4
    <2>10. VerdictInv
      BY <2>2, <2>4, <2>5, <2>6, <2>7, <2>8, <2>9 DEF VerdictInv
    <2> QED
      BY <2>1, <2>10
  <1>2. LineInv /\ VerdictInv /\ [V1Next]_v1Vars => LineInv' /\ VerdictInv'
    <2>1. ASSUME LineInv, VerdictInv, UNCHANGED v1Vars
          PROVE  LineInv' /\ VerdictInv'
      <3>1. carried \in BOOLEAN /\ uid \in Nat
        BY <2>1 DEF LineInv, VerdictInv
      <3>2. UNCHANGED <<v1step, v1up, rpcBuffer, fed, uid, timing, asked, sending, counted,
                        v1session, v1shares, carried, overrun, handled, timed>>
        BY <2>1 DEF v1Vars
      <3>3. LineInv'
        BY <2>1, <3>1, <3>2, QuietLine
      <3>4. VerdictInv'
        BY <2>1, <3>1, <3>2, QuietVerdict
      <3> QED
        BY <3>3, <3>4
    <2> QED
      BY <2>1, StepLine, StepVerdict
  <1>3. VerdictInv => VerdictsCounted
    <2> SUFFICES ASSUME VerdictInv PROVE VerdictsCounted
      OBVIOUS
    <2>1. Cardinality(TimedIn(timing)) \in Nat
      BY TimedFinite
    <2>2. counted <= v1shares
      BY <2>1 DEF VerdictInv
    <2>3. ~carried /\ ~overrun => timed[1] <= timed[2]
      BY DEF VerdictInv
    <2>4. ~carried /\ ~overrun => timed[2] >= timed[1]
      BY <2>3
    <2> QED
      BY <2>2, <2>4 DEF VerdictsCounted
  <1> QED
    BY <1>1, <1>2, <1>3, PTL DEF V1Spec
-----------------------------------------------------------------------------
(* The V2 session.  Every job is clean, so the queue holds one at most, and    *)
(* none before the channel is open.                                            *)

JobsInv ==
    /\ jobQueue = <<>> \/ jobQueue = <<jobQueue[1]>>
    /\ step # "open" => jobQueue = <<>>
    /\ JobsOnNewestHash

LEMMA EnqueuedIs ==
    ASSUME QueueLength \in Nat \ {0}, NEW q, NEW j, NEW h
    PROVE  Enqueued(q, j, h) = <<[job |-> j, hash |-> h]>>
  <1> DEFINE kept == IF q # <<>> THEN <<>> ELSE q
  <1>1. kept = <<>> /\ Len(kept) # QueueLength
    OBVIOUS
  <1>2. Enqueued(q, j, h) = Append(<<>>, [job |-> j, hash |-> h])
    BY <1>1 DEF Enqueued
  <1> QED
    BY <1>2

LEMMA QueueEmptied == ASSUME jobQueue' = <<>> PROVE JobsInv'
  BY DEF JobsInv, JobsOnNewestHash

LEMMA QueueKept ==
    ASSUME JobsInv, UNCHANGED <<step, hash, jobQueue, missed>>
    PROVE  JobsInv'
  BY DEF JobsInv, JobsOnNewestHash

(* A job enqueued with the newest hash is the only one.                        *)
LEMMA QueueRenewed ==
    ASSUME NEW j, step' = "open", jobQueue' = <<[job |-> j, hash |-> hash']>>
    PROVE  JobsInv'
  <1>1. jobQueue'[1] = [job |-> j, hash |-> hash'] /\ DOMAIN jobQueue' = {1}
    OBVIOUS
  <1>2. JobsOnNewestHash'
    BY <1>1 DEF JobsOnNewestHash
  <1> QED
    BY <1>1, <1>2 DEF JobsInv

LEMMA NewJobNewest ==
    ASSUME QueueLength \in Nat \ {0}, JobsInv, NewMiningJob
    PROVE  JobsInv'
  <1>1. step' = "open" /\ UNCHANGED <<step, hash, missed>>
    BY DEF NewMiningJob
  <1>2. jobQueue' = Enqueued(jobQueue, job', hash) \/ UNCHANGED jobQueue
    BY DEF NewMiningJob
  <1>3. CASE jobQueue' = Enqueued(jobQueue, job', hash)
    BY <1>1, <1>3, EnqueuedIs, QueueRenewed
  <1>4. CASE UNCHANGED jobQueue
    BY <1>1, <1>4, QueueKept
  <1> QED
    BY <1>2, <1>3, <1>4

(* The job that the hash names, or the last of those that waited; if there is  *)
(* neither, the hash has missed its job.                                       *)
LEMMA NewHashNewest ==
    ASSUME QueueLength \in Nat \ {0}, JobsInv, SetNewPrevHash
    PROVE  JobsInv'
  <1>1. step' = "open" /\ step = "open"
    BY DEF SetNewPrevHash
  <1>2. PICK named \in 1 .. job : Resolve(named, hash')
    BY DEF SetNewPrevHash
  <1> DEFINE found == pending[Slot(named)] = named
             others == IF hash # 0 THEN <<>>
                       ELSE SelectSeq([i \in 1 .. Ring |-> pending[i - 1]],
                                      LAMBDA j : j # NoPending /\ j # named)
             first == IF found THEN Enqueued(jobQueue, named, hash') ELSE jobQueue
  <1>3. jobQueue' = EnqueueAll(first, others, hash') /\ missed' = (~found /\ others = <<>>)
    BY <1>2 DEF Resolve
  <1> HIDE DEF others
  <1>4. CASE others # <<>>
    <2>1. jobQueue' = Enqueued(first, others[Len(others)], hash')
      BY <1>3, <1>4 DEF EnqueueAll
    <2> QED
      BY <1>1, <2>1, EnqueuedIs, QueueRenewed
  <1>5. CASE others = <<>> /\ found
    <2>1. jobQueue' = Enqueued(jobQueue, named, hash')
      BY <1>3, <1>5 DEF EnqueueAll
    <2> QED
      BY <1>1, <2>1, EnqueuedIs, QueueRenewed
  <1>6. CASE others = <<>> /\ ~found
    <2>1. jobQueue' = jobQueue /\ missed' = TRUE
      BY <1>3, <1>6 DEF EnqueueAll
    <2> QED
      BY <1>1, <2>1 DEF JobsInv, JobsOnNewestHash
  <1> QED
    BY <1>4, <1>5, <1>6

LEMMA StepJobs ==
    ASSUME QueueLength \in Nat \ {0}, JobsInv, [V2Next]_v2Vars
    PROVE  JobsInv'
  <1>1. ASSUME UNCHANGED v2Vars PROVE JobsInv'
    BY <1>1, QueueKept DEF v2Vars
  <1>2. ASSUME RequestShutdown \/ SetTarget \/ SharesSuccess \/ SharesError PROVE JobsInv'
    BY <1>2, QueueKept DEF RequestShutdown, SetTarget, SharesSuccess, SharesError, connVars
  <1>3. ASSUME ClaimSequence \/ RecordSubmitTime \/ SendShare PROVE JobsInv'
    BY <1>3, QueueKept DEF ClaimSequence, RecordSubmitTime, SendShare, SubmitFrame, connVars
  <1>4. ASSUME ShutdownSeen \/ GiveUp \/ Drops PROVE JobsInv'
    BY <1>4, QueueEmptied DEF ShutdownSeen, GiveUp, Leave, Drops
  <1>5. ASSUME ConnectFails \/ Connect \/ Handshake \/ SetupConnection \/ OpenMiningChannel
        PROVE  JobsInv'
    <2>1. step # "open" /\ UNCHANGED jobQueue
      BY <1>5 DEF ConnectFails, Connect, MayConnect, Handshake, SetupConnection,
                  OpenMiningChannel, connVars
    <2> QED
      BY <2>1, QueueEmptied DEF JobsInv
  <1>6. ASSUME TakeJob PROVE JobsInv'
    <2>1. jobQueue = <<jobQueue[1]>> /\ jobQueue' = Tail(jobQueue)
      BY <1>6 DEF TakeJob, JobsInv
    <2>2. \A x : Tail(<<x>>) = <<>>
      OBVIOUS
    <2>3. jobQueue' = <<>>
      BY <2>1, <2>2
    <2> QED
      BY <2>3, QueueEmptied
  <1> QED
    BY <1>1, <1>2, <1>3, <1>4, <1>5, <1>6, NewJobNewest, NewHashNewest DEF V2Next

(* stratum_v2_task builds no work on an old block: a queued job carries the    *)
(* newest previous hash of its connection, for every size of the ring and the  *)
(* queue and any number of connections, jobs and hashes, unless a hash named a *)
(* job that the ring had lost.                                                 *)
THEOREM WorkIsOnNewestHash ==
    ASSUME QueueLength \in Nat \ {0}
    PROVE  V2Spec => []JobsOnNewestHash
  <1>1. V2Init => JobsInv
    BY DEF V2Init, JobsInv, JobsOnNewestHash
  <1>2. JobsInv => JobsOnNewestHash
    BY DEF JobsInv
  <1> QED
    BY <1>1, <1>2, StepJobs, PTL DEF V2Spec

-----------------------------------------------------------------------------
(* The stamp in the slot of an unacknowledged share is its own or a later      *)
(* one's, because the share is stamped before it is sent.                      *)

StampSlots == 0 .. TimingSlots - 1
Stamped(st, s) == st[s.seq % TimingSlots] = 0 \/ s.n <= st[s.seq % TimingSlots]

StampInv ==
    /\ shares \in Nat /\ sequence \in Nat
    /\ stamp \in [StampSlots -> 0 .. shares]
    /\ submit = NoShare \/ submit \in [n : {shares}, seq : Nat, at : {"claimed", "recorded"}]
    /\ inFlight \subseteq [n : 0 .. shares, seq : Nat]
    /\ \A s \in inFlight : Stamped(stamp, s)
    /\ submit.at = "recorded" => Stamped(stamp, submit)
    /\ measured[1] <= measured[2]

LEMMA StampSlotIs ==
    ASSUME TimingSlots \in Nat \ {0}, NEW n \in Nat
    PROVE  n % TimingSlots \in StampSlots
  BY DEF StampSlots

(* A slot that is cleared or stamped anew, by a share no older than any other. *)
LEMMA StampedAnew ==
    ASSUME TimingSlots \in Nat \ {0}, NEW top \in Nat, NEW st \in [StampSlots -> 0 .. top],
           NEW at \in StampSlots, NEW v \in {0, top},
           NEW s, s.n \in 0 .. top, s.seq \in Nat, Stamped(st, s)
    PROVE  Stamped([st EXCEPT ![at] = v], s)
  <1>1. s.seq % TimingSlots \in StampSlots
    BY StampSlotIs
  <1> QED
    BY <1>1 DEF Stamped

LEMMA StampsKept ==
    ASSUME StampInv, UNCHANGED shareVars
    PROVE  StampInv'
  BY DEF StampInv, shareVars

LEMMA SuccessStamps ==
    ASSUME TimingSlots \in Nat \ {0}, StampInv, SharesSuccess
    PROVE  StampInv'
  <1>1. PICK s \in inFlight :
           /\ inFlight' = {t \in inFlight : t.n > s.n}
           /\ measured' = IF stamp[s.seq % TimingSlots] # 0
                          THEN <<s.n, stamp[s.seq % TimingSlots]>> ELSE measured
           /\ stamp' = [stamp EXCEPT ![s.seq % TimingSlots] = 0]
    BY DEF SharesSuccess
  <1>2. UNCHANGED <<sequence, submit, shares>>
    BY DEF SharesSuccess
  <1>3. /\ s.n \in 0 .. shares /\ s.seq \in Nat /\ s.seq % TimingSlots \in StampSlots
        /\ Stamped(stamp, s) /\ shares \in Nat /\ stamp \in [StampSlots -> 0 .. shares]
    BY StampSlotIs DEF StampInv
  <1>4. stamp' \in [StampSlots -> 0 .. shares]
    BY <1>1, <1>3
  <1>5. \A t \in inFlight : Stamped(stamp', t)
    <2> SUFFICES ASSUME NEW t \in inFlight PROVE Stamped(stamp', t)
      OBVIOUS
    <2>1. t.n \in 0 .. shares /\ t.seq \in Nat /\ Stamped(stamp, t)
      BY DEF StampInv
    <2> QED
      BY <1>1, <1>3, <2>1, StampedAnew
  <1>6. submit.at = "recorded" => Stamped(stamp', submit)
    <2> SUFFICES ASSUME submit.at = "recorded" PROVE Stamped(stamp', submit)
      OBVIOUS
    <2>1. submit.n \in 0 .. shares /\ submit.seq \in Nat /\ Stamped(stamp, submit)
      BY DEF StampInv, NoShare
    <2> QED
      BY <1>1, <1>3, <2>1, StampedAnew
  <1>7. measured'[1] <= measured'[2]
    BY <1>1, <1>3 DEF Stamped, StampInv
  <1>8. inFlight' \subseteq inFlight
    BY <1>1
  <1> QED
    BY <1>2, <1>4, <1>5, <1>6, <1>7, <1>8 DEF StampInv

LEMMA RecordStamps ==
    ASSUME TimingSlots \in Nat \ {0}, StampInv, RecordSubmitTime
    PROVE  StampInv'
  <1>1. /\ submit.at = "claimed" /\ submit' = [submit EXCEPT !.at = "recorded"]
        /\ stamp' = [stamp EXCEPT ![submit.seq % TimingSlots] = submit.n]
        /\ UNCHANGED <<sequence, inFlight, shares, measured>>
    BY DEF RecordSubmitTime, SubmitFrame
  <1>2. /\ submit \in [n : {shares}, seq : Nat, at : {"claimed", "recorded"}]
        /\ shares \in Nat /\ stamp \in [StampSlots -> 0 .. shares]
    BY <1>1 DEF StampInv, NoShare
  <1>3. submit.n = shares /\ submit.seq \in Nat /\ submit.seq % TimingSlots \in StampSlots
    BY <1>2, StampSlotIs
  <1>4. stamp' \in [StampSlots -> 0 .. shares]
    BY <1>1, <1>2, <1>3
  <1>5. \A t \in inFlight : Stamped(stamp', t)
    <2> SUFFICES ASSUME NEW t \in inFlight PROVE Stamped(stamp', t)
      OBVIOUS
    <2>1. t.n \in 0 .. shares /\ t.seq \in Nat /\ Stamped(stamp, t)
      BY DEF StampInv
    <2> QED
      BY <1>1, <1>2, <1>3, <2>1, StampedAnew
  <1>6. /\ submit' \in [n : {shares}, seq : Nat, at : {"claimed", "recorded"}]
        /\ submit'.n = submit.n /\ submit'.seq = submit.seq
    BY <1>1, <1>2
  <1>7. Stamped(stamp', submit')
    BY <1>1, <1>2, <1>3, <1>6 DEF Stamped
  <1> QED
    BY <1>1, <1>4, <1>5, <1>6, <1>7 DEF StampInv

LEMMA StepStamps ==
    ASSUME TimingSlots \in Nat \ {0}, StampInv, [V2Next]_v2Vars
    PROVE  StampInv'
  <1>1. ASSUME UNCHANGED v2Vars PROVE StampInv'
    BY <1>1, StampsKept DEF v2Vars, shareVars
  <1>2. ASSUME \/ RequestShutdown \/ ShutdownSeen \/ GiveUp \/ ConnectFails \/ Handshake
               \/ SetupConnection \/ OpenMiningChannel \/ Drops \/ NewMiningJob
               \/ SetNewPrevHash \/ SetTarget \/ TakeJob
        PROVE  StampInv'
    <2>1. UNCHANGED shareVars
      BY <1>2 DEF RequestShutdown, ShutdownSeen, GiveUp, Leave, ConnectFails, Handshake,
                  SetupConnection, OpenMiningChannel, Drops, NewMiningJob, SetNewPrevHash,
                  SetTarget, TakeJob
    <2> QED
      BY <2>1, StampsKept
  <1>3. ASSUME Connect PROVE StampInv'
    <2>1. sequence' = 0 /\ inFlight' = {} /\ UNCHANGED <<submit, stamp, shares, measured>>
      BY <1>3 DEF Connect
    <2> QED
      BY <2>1 DEF StampInv
  <1>4. ASSUME SharesError PROVE StampInv'
    <2>1. inFlight' \subseteq inFlight /\ UNCHANGED <<sequence, submit, stamp, shares, measured>>
      BY <1>4 DEF SharesError
    <2> QED
      BY <2>1 DEF StampInv
  <1>5. ASSUME ClaimSequence PROVE StampInv'
    <2>1. /\ shares' = shares + 1 /\ sequence' = sequence + 1
          /\ submit' = [n |-> shares + 1, seq |-> sequence, at |-> "claimed"]
          /\ UNCHANGED <<stamp, inFlight, measured>>
      BY <1>5 DEF ClaimSequence, SubmitFrame
    <2>2. /\ shares' \in Nat /\ sequence' \in Nat /\ stamp' \in [StampSlots -> 0 .. shares']
          /\ inFlight' \subseteq [n : 0 .. shares', seq : Nat]
      BY <2>1 DEF StampInv
    <2>3. submit' \in [n : {shares'}, seq : Nat, at : {"claimed", "recorded"}] /\ submit'.at = "claimed"
      BY <2>1, <2>2 DEF StampInv
    <2>4. \A s \in inFlight' : Stamped(stamp', s)
      BY <2>1 DEF StampInv
    <2> QED
      BY <2>1, <2>2, <2>3, <2>4 DEF StampInv
  <1>6. ASSUME SendShare PROVE StampInv'
    <2>1. /\ submit.at = "recorded" /\ submit' = NoShare /\ Sent
          /\ UNCHANGED <<sequence, stamp, shares, measured>>
      BY <1>6 DEF SendShare, SubmitFrame
    <2>2. /\ submit.n \in 0 .. shares /\ submit.seq \in Nat /\ Stamped(stamp, submit)
      BY <2>1 DEF StampInv, NoShare
    <2> DEFINE new == [n |-> submit.n, seq |-> submit.seq]
    <2>3. inFlight' \subseteq inFlight \cup {new}
      BY <2>1 DEF Sent
    <2>4. new \in [n : 0 .. shares, seq : Nat] /\ Stamped(stamp, new)
      BY <2>2 DEF Stamped
    <2> HIDE DEF new
    <2>5. \A s \in inFlight' : Stamped(stamp, s)
      BY <2>3, <2>4 DEF StampInv
    <2>6. submit'.at # "recorded"
      BY <2>1 DEF NoShare
    <2> QED
      BY <2>1, <2>3, <2>4, <2>5, <2>6 DEF StampInv
  <1> QED
    BY <1>1, <1>2, <1>3, <1>4, <1>5, <1>6, SuccessStamps, RecordStamps DEF V2Next

(* The response time that SubmitShares.Success yields is never taken from an   *)
(* older share's stamp, for every number of timing slots and any number of     *)
(* shares in flight and reconnections while one is being submitted.            *)
THEOREM ResponseTimesAreFresh ==
    ASSUME TimingSlots \in Nat \ {0}
    PROVE  V2Spec => []ResponseTimeNotStale
  <1>1. V2Init => StampInv
    <2> SUFFICES ASSUME V2Init PROVE StampInv
      OBVIOUS
    <2>1. submit.at # "recorded"
      BY DEF V2Init, NoShare
    <2> QED
      BY <2>1 DEF V2Init, StampInv, StampSlots
  <1>2. StampInv => ResponseTimeNotStale
    <2> SUFFICES ASSUME measured[1] <= measured[2] PROVE measured[2] >= measured[1]
      BY DEF StampInv, ResponseTimeNotStale
    <2> QED
      OBVIOUS
  <1> QED
    BY <1>1, <1>2, StepStamps, PTL DEF V2Spec
=============================================================================
