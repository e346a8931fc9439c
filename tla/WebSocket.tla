------------------------------ MODULE WebSocket ------------------------------
(***************************************************************************)
(* The live views of the web interface.  log_buffer.c keeps the newest     *)
(* LogSize bytes of log in memory that survives a reset; websocket.c keeps *)
(* the table of clients; websocket_log.c streams the log to some of them   *)
(* and websocket_api.c the changes of the system's state to the others.    *)
(* The table is only changed by the HTTP server's task; the two streaming  *)
(* tasks read it without its lock.                                         *)
(*                                                                         *)
(* A byte of log is its absolute position; the state of the system is a    *)
(* version number, and a client's view is the version it shows in full.    *)
(***************************************************************************)
EXTENDS Integers, FiniteSets

CONSTANTS
    Fds,          \* sockets
    MaxClients,   \* MAX_WEBSOCKET_CLIENTS
    LogSize,      \* LOG_BUFFER_SIZE
    ScanLimit,    \* how far a reader looks for the next line: 4096
    ChunkSize,    \* WS_LOG_CHUNK_SIZE
    MaxLine,      \* bound: bytes of a line, newline included
    MaxWritten,   \* bound: bytes logged
    MaxVersion    \* bound: changes of the state

Types == {"logs", "api"}
Free == [fd |-> -1, type |-> "logs"]
NULL == -1

VARIABLES
    clients,      \* the table: socket and type of every slot
    typeCounts,   \* type_counts
    total,        \* s_header.total_written
    buffer,       \* s_buffer: the absolute position held by every cell
    newlines,     \* the absolute positions of newlines
    notified,     \* the log task's notification
    logPc,        \* where websocket_log_task is
    lastRead,     \* last_read_abs
    chunk,        \* the bytes read last, after which position, and the oldest kept
    version,      \* the state of the system
    baseline,     \* last_full_json, NULL while hibernating
    handshake,    \* the socket being greeted, and the full state made for it
    view,         \* what every client shows, NULL before its greeting
    \* history
    raced,        \* clients greeted while hibernating or across a broadcast
    unsent        \* clients that a greeting or a change never reached

logVars == <<total, buffer, newlines>>
streamVars == <<notified, logPc, lastRead, chunk>>
apiVars == <<version, baseline, handshake, view, raced, unsent>>
socketVars == <<clients, typeCounts, logVars, streamVars, apiVars>>

Slots == 1 .. MaxClients
Cells == 0 .. LogSize - 1
Connected(type) == {clients[i].fd : i \in {j \in Slots : /\ clients[j].fd # -1
                                                       /\ clients[j].type = type}}
NoChunk == [after |-> 0, oldest |-> 0, first |-> 0, len |-> 0, cells |-> {}]
Idle == [fd |-> -1, full |-> NULL]

SocketTypeOK ==
    /\ clients \in [Slots -> [fd : Fds \cup {-1}, type : Types]]
    /\ typeCounts \in [Types -> 0 .. MaxClients]
    /\ total \in 0 .. MaxWritten
    /\ buffer \in [Cells -> -1 .. MaxWritten + MaxLine]
    /\ lastRead \in 0 .. MaxWritten /\ notified \in BOOLEAN
    /\ logPc \in {"wait", "drain"}
    /\ version \in 0 .. MaxVersion /\ baseline \in -1 .. MaxVersion
    /\ handshake.fd \in Fds \cup {-1} /\ handshake.full \in -1 .. MaxVersion
    /\ view \in [Fds -> -1 .. MaxVersion] /\ raced \cup unsent \subseteq Fds

SocketInit ==
    /\ clients = [i \in Slots |-> Free]
    /\ typeCounts = [t \in Types |-> 0]
    /\ total = 0 /\ buffer = [c \in Cells |-> -1] /\ newlines = {}
    /\ notified = FALSE /\ logPc = "wait" /\ lastRead = 0 /\ chunk = NoChunk
    /\ version = 0 /\ baseline = 0 /\ handshake = Idle
    /\ view = [f \in Fds |-> NULL]
    /\ raced = {} /\ unsent = {}

-----------------------------------------------------------------------------
(* The log buffer *)

\* Mutant: the write does not wrap at the end of the ring.
Mut_Written(pos, len) ==
    [c \in Cells |-> IF \E p \in pos .. pos + len - 1 : p = c
                     THEN CHOOSE p \in pos .. pos + len - 1 : p = c
                     ELSE buffer[c]]

\* ring_write: len bytes from absolute position pos, in two parts at the end.
Written(pos, len) ==
    [c \in Cells |-> IF \E p \in pos .. pos + len - 1 : p % LogSize = c
                     THEN CHOOSE p \in pos .. pos + len - 1 : p % LogSize = c
                     ELSE buffer[c]]

\* log_buffer_vprintf: one line, under the log's mutex.
Log(len) ==
    /\ total + len <= MaxWritten
    /\ buffer' = Written(total, len)
    /\ total' = total + len
    /\ newlines' = newlines \cup {total + len - 1}
    /\ notified' = (notified \/ typeCounts["logs"] > 0)
    /\ UNCHANGED <<clients, typeCounts, logPc, lastRead, chunk, apiVars>>

\* The device restarts, perhaps within ring_write after some bytes were copied
\* and before the header was.  With a sound header the log goes on, after a
\* line that tells of the restart; otherwise it begins again.
Restart(torn, sound) ==
    LET before == IF sound THEN total ELSE 0
        len    == IF sound THEN 1 ELSE 0
        old    == IF sound THEN Written(total, torn) ELSE [c \in Cells |-> -1]
    IN  /\ before + len <= MaxWritten
        /\ buffer' = [old EXCEPT ![before % LogSize] =
                                     IF sound THEN before ELSE -1]
        /\ total' = before + len
        /\ newlines' = {p \in newlines : sound} \cup {before : i \in 1 .. len}
        /\ clients' = [i \in Slots |-> Free]
        /\ typeCounts' = [t \in Types |-> 0]
        /\ notified' = FALSE /\ logPc' = "wait" /\ chunk' = NoChunk
        /\ lastRead' = before + len
        /\ version' = 0 /\ baseline' = 0 /\ handshake' = Idle
        /\ view' = [f \in Fds |-> NULL] /\ raced' = {} /\ unsent' = {}

Lowest(S) == CHOOSE p \in S : \A q \in S : p <= q

\* log_buffer_read_absolute: where reading from pos begins.  A position that
\* has been overwritten moves to the line that follows the oldest byte, or to
\* that byte when no line ends near it.
ReadFrom(pos) ==
    LET req   == IF pos > total THEN total ELSE pos
        first == total - LogSize
        ends  == {p \in first .. total - 1 : p < first + ScanLimit /\ p \in newlines}
    IN  IF ~(total >= LogSize /\ req < first) THEN req
        ELSE IF ends = {} THEN first ELSE Lowest(ends) + 1

\* How much is read there: at most a chunk, at most to the end of a line.
ReadLength(from) ==
    LET available == total - from
        most      == IF available < ChunkSize THEN available ELSE ChunkSize
        ends      == {i \in 1 .. most : from + i - 1 \in newlines}
    IN  IF ends = {} THEN most ELSE Lowest(ends)

-----------------------------------------------------------------------------
(* The table of clients, changed by the HTTP server's task only *)

\* websocket_handler with an upgrade: refused with a full table; a log client
\* wakes the log task, an API client is sent the whole state next.
Upgrade(fd, type) ==
    /\ handshake = Idle
    /\ \A i \in Slots : clients[i].fd # fd
    /\ typeCounts["logs"] + typeCounts["api"] < MaxClients
    /\ LET i == Lowest({j \in Slots : clients[j].fd = -1})
       IN  clients' = [clients EXCEPT ![i] = [fd |-> fd, type |-> type]]
    /\ typeCounts' = [typeCounts EXCEPT ![type] = @ + 1]
    /\ notified' = (notified \/ type = "logs")
    /\ handshake' = IF type = "api" THEN [fd |-> fd, full |-> NULL] ELSE Idle
    /\ raced' = IF type = "api" /\ baseline = NULL THEN raced \cup {fd} ELSE raced
    /\ view' = [view EXCEPT ![fd] = NULL]
    /\ UNCHANGED <<logVars, logPc, lastRead, chunk, version, baseline, unsent>>

\* websocket_api_on_connect: the full state is composed, then sent.
ComposeFull ==
    /\ handshake.fd # -1 /\ handshake.full = NULL
    /\ handshake' = [handshake EXCEPT !.full = version]
    /\ UNCHANGED <<clients, typeCounts, logVars, streamVars, version, baseline,
                   view, raced, unsent>>

SendFull ==
    /\ handshake.full # NULL
    /\ view' = [view EXCEPT ![handshake.fd] = handshake.full]
    /\ handshake' = Idle
    /\ UNCHANGED <<clients, typeCounts, logVars, streamVars, version, baseline,
                   raced, unsent>>

\* There is no memory to compose it, or the frame cannot be sent: nothing is
\* sent in its place.
GreetingFails ==
    /\ handshake.fd # -1
    /\ unsent' = unsent \cup {handshake.fd}
    /\ handshake' = Idle
    /\ UNCHANGED <<clients, typeCounts, logVars, streamVars, version, baseline,
                   view, raced>>

\* websocket_close_fn: the slot is freed with the socket.
RemoveClient(fd) ==
    /\ handshake = Idle
    /\ \E i \in Slots : clients[i].fd = fd
    /\ LET i == Lowest({j \in Slots : clients[j].fd = fd})
       IN  /\ clients' = [clients EXCEPT ![i] = Free]
           /\ typeCounts' = [typeCounts EXCEPT ![clients[i].type] = @ - 1]
    /\ raced' = raced \ {fd} /\ unsent' = unsent \ {fd}
    /\ UNCHANGED <<logVars, streamVars, version, baseline, handshake, view>>

-----------------------------------------------------------------------------
(* The two streams *)

\* websocket_log_task wakes, notified or after half a second.  Without clients
\* it only keeps up.
LogTaskWakes ==
    /\ logPc = "wait"
    /\ notified' = FALSE
    /\ IF typeCounts["logs"] = 0
       THEN lastRead' = total /\ UNCHANGED logPc
       ELSE logPc' = "drain" /\ UNCHANGED lastRead
    /\ UNCHANGED <<clients, typeCounts, logVars, chunk, apiVars>>

\* One line or chunk is read and broadcast; without one the task waits again.
Drain ==
    /\ logPc = "drain"
    /\ LET from == ReadFrom(lastRead)
           len  == ReadLength(from)
       IN  /\ chunk' = [after |-> lastRead, oldest |-> total - LogSize,
                        first |-> from, len |-> len,
                        cells |-> {buffer[(from + i) % LogSize] : i \in 0 .. len - 1}]
           /\ lastRead' = from + len
           /\ logPc' = IF len = 0 THEN "wait" ELSE "drain"
    /\ UNCHANGED <<clients, typeCounts, logVars, notified, apiVars>>

StateChanges ==
    /\ version < MaxVersion
    /\ version' = version + 1
    /\ UNCHANGED <<clients, typeCounts, logVars, streamVars, baseline, handshake,
                   view, raced, unsent>>

\* Mutant: only the first client of the table is sent the change.
Mut_Broadcast(from, got) ==
    /\ view' = [f \in Fds |-> IF /\ f \in got /\ f = clients[1].fd
                                 /\ from # version /\ view[f] >= from
                              THEN version ELSE view[f]]
    /\ unsent' = IF from = version THEN unsent
                 ELSE unsent \cup (Connected("api") \ got)

\* What differs from a state is sent to the API clients and reaches some of
\* them: those that show that state in full then show the present one.
Broadcast(from, got) ==
    /\ view' = [f \in Fds |-> IF f \in got /\ from # version /\ view[f] >= from
                              THEN version ELSE view[f]]
    /\ unsent' = IF from = version THEN unsent
                 ELSE unsent \cup (Connected("api") \ got)

\* websocket_api_task, every half second, without clients: forget the baseline.
ApiTaskHibernates ==
    /\ typeCounts["api"] = 0
    /\ baseline' = NULL
    /\ UNCHANGED <<clients, typeCounts, logVars, streamVars, version, handshake,
                   view, raced, unsent>>

\* With clients: broadcast what differs from the baseline and rotate, whoever
\* was reached: no memory to compose the message, or a frame that cannot be
\* sent, is only logged.  After hibernation the baseline is the state as it is,
\* or, if that could not be made, none, and all of the state is broadcast.
\* (With no new state nothing is done.)
ApiTaskWakes ==
    /\ typeCounts["api"] > 0
    /\ \E from \in IF baseline = NULL THEN {NULL, version} ELSE {baseline},
          got \in SUBSET Connected("api") : Broadcast(from, got)
    /\ baseline' = version
    /\ raced' = raced \cup ({handshake.fd} \ {-1})
    /\ UNCHANGED <<clients, typeCounts, logVars, streamVars, version, handshake>>

SocketNext ==
    \/ \E len \in 1 .. MaxLine : Log(len)
    \/ \E torn \in 0 .. MaxLine, sound \in BOOLEAN : Restart(torn, sound)
    \/ \E fd \in Fds, type \in Types : Upgrade(fd, type)
    \/ ComposeFull \/ SendFull \/ GreetingFails
    \/ \E fd \in Fds : RemoveClient(fd)
    \/ LogTaskWakes \/ Drain \/ StateChanges \/ ApiTaskHibernates \/ ApiTaskWakes

SocketSpec == SocketInit /\ [][SocketNext]_socketVars

-----------------------------------------------------------------------------
(* Properties *)

\* Log clients are sent the bytes that were logged, in order and once: each
\* chunk holds exactly its positions, and follows the one before unless those
\* bytes had been overwritten.  (After a restart the stream begins at the end
\* of the log, behind whatever a write cut short has left.)
LogStreamIntact ==
    /\ chunk.cells = chunk.first .. chunk.first + chunk.len - 1
    /\ chunk.first = chunk.after \/ chunk.after < chunk.oldest

\* An API client shows the baseline or something newer, so that the next change
\* completes its view: unless it was greeted during hibernation or across a
\* broadcast, or a frame of its own was lost.  (Nothing repairs those views: the
\* baseline moves on without them.)
ApiClientsCurrent ==
    \A f \in Connected("api") \ (raced \cup unsent \cup {handshake.fd}) :
        view[f] >= baseline
=============================================================================
