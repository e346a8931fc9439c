----------------------------- MODULE Sv1Session -----------------------------
(***************************************************************************)
(* stratum_v1_task.c on stratum_api.c: one run of the V1 task.  Bytes from *)
(* the pool gather in json_rpc_buffer, which outlives the connection; a    *)
(* line is cut off at a newline, parsed and handled; the result task       *)
(* submits shares beside it.  Message ids start again with every           *)
(* connection, and the answer to a share is told from the answer to a      *)
(* setup message by whether the slot of its id is being timed.             *)
(*                                                                         *)
(* A byte is its connection, its line and whether it ends the line.  What  *)
(* the pool says is chosen when the line is handled.  What a job does to   *)
(* the queue and an extranonce to the work is in JobPipeline.              *)
(***************************************************************************)
EXTENDS Integers, Sequences, FiniteSets

CONSTANTS
    IdSlots,        \* MAX_REQUEST_IDS
    MaxBytes,       \* MAX_JSON_RPC_LINE_LEN
    MaxChunk,       \* BUFFER_SIZE - 1: bytes of one read
    V1Retries,      \* MAX_RETRY_ATTEMPTS
    MaxLines,       \* bound: lines of a connection
    MaxV1Shares,    \* bound: shares
    MaxV1Sessions   \* bound: connections

VARIABLES
    v1step,       \* where the task is
    v1retry,      \* retry_attempts
    v1up,         \* GLOBAL_STATE->transport is set
    rpcBuffer,    \* json_rpc_buffer
    fed,          \* lines begun by the pool in this connection
    uid,          \* send_uid
    timing,       \* request_timings: the share timed in every slot, 0 for none
    asked,        \* requests sent and not answered
    sending,      \* the share the result task is sending
    asicOn,       \* ASIC_initalized
    v1stop,       \* protocol_coordinator_v1_should_shutdown
    v1told,       \* what the coordinator was told last
    counted,      \* shares_accepted + shares_rejected
    v1session, v1shares,  \* history, for the bounds
    carried,      \* history: the buffer or the timings are of an earlier connection
    overrun,      \* history: a share got the slot of an earlier one not yet answered
    handled,      \* history: the bytes of the line handled last
    timed         \* history: the share answered last and the one it was timed with

v1Vars == <<v1step, v1retry, v1up, rpcBuffer, fed, uid, timing, asked, sending,
            asicOn, v1stop, v1told, counted, v1session, v1shares, carried, overrun,
            handled, timed>>

NoBuffer == <<[session |-> 0, line |-> 0, end |-> FALSE]>>
NoSend == [n |-> 0, id |-> 0, session |-> 0, at |-> "idle"]
Untimed == [i \in 0 .. IdSlots - 1 |-> 0]

\* The task is at one of its steps, with a connection exactly while it receives,
\* and what it keeps of a line stays within the limit and one read.
V1TypeOK ==
    /\ v1step \in {"top", "check", "receive", "gone"} /\ v1retry \in 0 .. V1Retries
    /\ v1up = (v1step \in {"check", "receive"})
    /\ rpcBuffer # NoBuffer => Len(rpcBuffer) <= MaxBytes
    /\ timing \in [0 .. IdSlots - 1 -> 0 .. MaxV1Shares]
    /\ v1step = "gone" => v1told \in {"failure", "exited"}

\* STRATUM_V1_initialize_buffer, at the start of the task.
V1Init ==
    /\ v1step = "top" /\ v1retry = 0 /\ v1up = FALSE /\ rpcBuffer = <<>> /\ fed = 0
    /\ uid = 1 /\ timing = Untimed /\ asked = {} /\ sending = NoSend
    /\ asicOn = TRUE /\ v1stop = FALSE /\ v1told = "nothing" /\ counted = 0
    /\ v1session = 0 /\ v1shares = 0 /\ carried = FALSE /\ overrun = FALSE /\ handled = <<>>
    /\ timed = <<0, 0>>

-----------------------------------------------------------------------------
(* The surroundings *)

V1Shutdown ==
    /\ ~v1stop /\ v1step # "gone" /\ v1stop' = TRUE
    /\ UNCHANGED <<v1step, v1retry, v1up, rpcBuffer, fed, uid, timing, asked, sending,
                   asicOn, v1told, counted, v1session, v1shares, carried, overrun, handled, timed>>

PauseOrResume ==
    /\ asicOn' = ~asicOn
    /\ UNCHANGED <<v1step, v1retry, v1up, rpcBuffer, fed, uid, timing, asked, sending,
                   v1stop, v1told, counted, v1session, v1shares, carried, overrun, handled, timed>>

-----------------------------------------------------------------------------
(* The connection *)

Exit(report) ==
    /\ v1step' = "gone" /\ v1told' = report /\ v1up' = FALSE
    /\ UNCHANGED <<v1retry, rpcBuffer, fed, uid, timing, asked, sending, asicOn, v1stop,
                   counted, v1session, v1shares, carried, overrun, handled, timed>>

\* The coordinator asks the task to leave: seen before a connection is tried
\* and before a line is received, never while the task waits for one.
LeaveV1 == v1stop /\ v1step \in {"top", "check"} /\ Exit("exited")

GiveUpV1 ==
    /\ v1step = "top" /\ ~v1stop /\ asicOn /\ v1retry >= V1Retries /\ Exit("failure")

\* stratum_socket_resolve, STRATUM_V1_transport_init or the connection fails.
UnreachableV1 ==
    /\ v1step = "top" /\ ~v1stop /\ asicOn /\ v1retry < V1Retries
    /\ v1retry' = v1retry + 1
    /\ UNCHANGED <<v1step, v1up, rpcBuffer, fed, uid, timing, asked, sending, asicOn,
                   v1stop, v1told, counted, v1session, v1shares, carried, overrun, handled, timed>>

Setup == {[n |-> 0, id |-> 1, what |-> "configure"], [n |-> 0, id |-> 2, what |-> "subscribe"],
          [n |-> 0, id |-> 3, what |-> "authorize"]}

\* Connected: ids start at 1 and the three setup messages are sent.  Requests of
\* the earlier connection are never answered on this one.
ConnectV1 ==
    /\ v1step = "top" /\ ~v1stop /\ asicOn /\ v1retry < V1Retries
    /\ v1session < MaxV1Sessions /\ v1session' = v1session + 1
    /\ v1step' = "check" /\ v1up' = TRUE /\ fed' = 0
    /\ uid' = 4 /\ asked' = Setup /\ handled' = <<>> /\ timed' = <<0, 0>>
    /\ UNCHANGED <<v1retry, rpcBuffer, timing, sending, asicOn, v1stop, v1told, counted,
                   v1shares, carried, overrun>>

\* stratum_v1_close_connection, and back to the top of the loop.
Close == v1step' = "top" /\ v1up' = FALSE

\* Left by choice, the buffer and the timings go on into the next connection.
CloseByChoice == Close /\ carried' = TRUE

-----------------------------------------------------------------------------
(* Receiving *)

Receive ==
    /\ v1step = "check" /\ ~v1stop /\ v1step' = "receive"
    /\ UNCHANGED <<v1retry, v1up, rpcBuffer, fed, uid, timing, asked, sending, asicOn,
                   v1stop, v1told, counted, v1session, v1shares, carried, overrun, handled, timed>>

\* A buffer freed after an error is made again by the next receive, and the
\* timings start over with it.
InitializeBuffer ==
    /\ v1step = "receive" /\ rpcBuffer = NoBuffer
    /\ rpcBuffer' = <<>> /\ timing' = Untimed /\ carried' = FALSE /\ overrun' = FALSE
    /\ UNCHANGED <<v1step, v1retry, v1up, fed, uid, asked, sending, asicOn, v1stop, v1told,
                   counted, v1session, v1shares, handled, timed>>

HasLine == rpcBuffer # NoBuffer /\ \E i \in DOMAIN rpcBuffer : rpcBuffer[i].end
Waiting == v1step = "receive" /\ rpcBuffer # NoBuffer /\ ~HasLine

\* A line of NULL: the buffer has been freed, the connection is closed.
Lose ==
    /\ rpcBuffer' = NoBuffer /\ v1retry' = v1retry + 1 /\ Close
    /\ UNCHANGED <<uid, timing, asked, sending, asicOn, v1stop, v1told, counted, v1session,
                   v1shares, carried, overrun, handled, timed>>

\* Mutant: an error keeps the bytes received so far.
Mut_ReadFails ==
    /\ Waiting /\ v1retry' = v1retry + 1 /\ Close
    /\ UNCHANGED <<rpcBuffer, fed, uid, timing, asked, sending, asicOn, v1stop, v1told,
                   counted, v1session, v1shares, carried, overrun, handled, timed>>

ReadFails == Waiting /\ Lose /\ UNCHANGED fed

\* The bytes that follow in this connection's stream, line breaks anywhere.
Stream(breaks) ==
    [i \in DOMAIN breaks |->
        [session |-> v1session, end |-> breaks[i],
         line |-> fed + Cardinality({j \in 1 .. i - 1 : breaks[j]})]]

\* esp_transport_read has given some bytes; what is kept may not pass the limit.
ReadBytes ==
    /\ Waiting
    /\ \E breaks \in UNION {[1 .. n -> BOOLEAN] : n \in 1 .. MaxChunk} :
          LET ends == Cardinality({i \in DOMAIN breaks : breaks[i]})
              all == rpcBuffer \o Stream(breaks)
          IN  /\ fed + ends <= MaxLines /\ fed' = fed + ends
              /\ \/ Len(all) > MaxBytes /\ Lose
                 \/ /\ Len(all) <= MaxBytes /\ rpcBuffer' = all
                    /\ UNCHANGED <<v1step, v1retry, v1up, uid, timing, asked, sending, asicOn,
                                   v1stop, v1told, counted, v1session, v1shares, carried, overrun,
                                   handled, timed>>

LineEnd == CHOOSE i \in DOMAIN rpcBuffer :
              rpcBuffer[i].end /\ \A j \in 1 .. i - 1 : ~rpcBuffer[j].end
Line == SubSeq(rpcBuffer, 1, LineEnd)
Rest == SubSeq(rpcBuffer, LineEnd + 1, Len(rpcBuffer))

\* A line is whole when it holds every byte of one line of one connection.
Whole(l) == /\ \A i \in DOMAIN l : l[i].session = l[1].session /\ l[i].line = l[1].line
            /\ l[1].session = v1session

\* The line is taken; mining may have been paused meanwhile, and then the task
\* leaves the pool with whatever the buffer still holds.
PausedLine ==
    /\ v1step = "receive" /\ HasLine /\ ~asicOn
    /\ rpcBuffer' = Rest /\ handled' = Line /\ v1retry' = 0 /\ CloseByChoice
    /\ UNCHANGED <<fed, uid, timing, asked, sending, asicOn, v1stop, v1told, counted,
                   v1session, v1shares, overrun, timed>>

-----------------------------------------------------------------------------
(* The messages: what the parser makes of what the pool says *)

Requests == {"mining.notify", "mining.set_difficulty", "mining.set_version_mask",
             "mining.set_extranonce", "client.show_message", "client.get_version",
             "mining.ping", "client.reconnect", "unknown"}

\* The parameters of a request: how many there are (none, or no list at all, is 0), whether they have the types
\* they need, and whether a list or a string in them is within its limit.
Params == [count : {0, 1, 2, 8}, typed : BOOLEAN, fits : BOOLEAN]

parse_mining_notify(p) == p.count >= 8 /\ p.typed /\ p.fits
parse_set_difficulty(p) == p.count >= 1 /\ p.typed
parse_set_version_mask(p) == p.count >= 1 /\ p.typed
parse_set_extranonce(p) == p.count >= 2 /\ p.typed /\ p.fits
parse_show_message(p) == p.count >= 1 /\ p.typed

ParsesRequest(method, p) ==
    CASE method = "mining.notify" -> parse_mining_notify(p)
      [] method = "mining.set_difficulty" -> parse_set_difficulty(p)
      [] method = "mining.set_version_mask" -> parse_set_version_mask(p)
      [] method = "mining.set_extranonce" -> parse_set_extranonce(p)
      [] method = "client.show_message" -> parse_show_message(p)
      [] method \in {"client.get_version", "mining.ping", "client.reconnect"} -> TRUE
      [] OTHER -> FALSE

Results == {"missing", "null", "true", "false", "subscribe", "configure", "other"}
Errors == {"null", "text", "mistyped"}

\* parse_result: a readable error decides; then a missing result with any error;
\* then a plain yes or no; then the two results with content.
parse_result(result, error) ==
    CASE error = "text" -> "rejected"
      [] result \in {"missing", "null"} /\ error = "mistyped" -> "rejected"
      [] result = "true" -> "accepted"
      [] result = "false" -> "rejected"
      [] result = "subscribe" -> "subscribe"
      [] result = "configure" -> "configure"
      [] OTHER -> "unparsed"

HandleFrame == UNCHANGED <<fed, sending, asicOn, v1stop, v1session, v1shares, overrun>>
Taken == v1step = "receive" /\ HasLine /\ asicOn /\ rpcBuffer' = Rest /\ handled' = Line

\* A request of the pool.  Those that change the work change nothing here;
\* client.reconnect closes the connection.
HandleRequest ==
    /\ Taken
    /\ \E method \in Requests, p \in Params :
          IF method = "client.reconnect" /\ ParsesRequest(method, p) /\ Whole(Line)
          THEN CloseByChoice
          ELSE v1step' = "check" /\ UNCHANGED <<v1up, carried>>
    /\ HandleFrame /\ UNCHANGED <<v1retry, uid, timing, asked, v1told, counted, timed>>

\* Mutant: the slot stays timed after the answer.
Mut_GetResponseTime(id) == timing' = timing

\* STRATUM_V1_get_response_time_ms ends the timing of the slot.
GetResponseTime(id) == timing' = [timing EXCEPT ![id % IdSlots] = 0]

\* The answer to one of our requests on this connection.  A timed slot makes it
\* the answer to a share; otherwise it is taken for a setup message, and the one
\* to mining.authorize is followed by two more requests.
HandleResult ==
    /\ Taken /\ Whole(Line)
    /\ \E r \in asked, result \in Results, error \in Errors :
          LET verdict == parse_result(result, error)
              share == timing[r.id % IdSlots]
              more == verdict = "accepted" /\ r.what = "authorize"
          IN  /\ r.what \in {"subscribe", "configure"} \/ verdict \notin {"subscribe", "configure"}
              /\ \/ /\ verdict \in {"unparsed", "subscribe"}
                    /\ UNCHANGED <<v1retry, uid, timing, v1told, counted, timed>>
                    /\ asked' = asked \ {r}
                 \/ /\ verdict = "configure" /\ v1told' = "success"
                    /\ UNCHANGED <<v1retry, uid, timing, counted, timed>>
                    /\ asked' = asked \ {r}
                 \/ /\ verdict \in {"accepted", "rejected"} /\ share # 0
                    /\ GetResponseTime(r.id)
                    /\ counted' = counted + 1 /\ timed' = <<r.n, share>>
                    /\ UNCHANGED <<v1retry, uid, v1told>> /\ asked' = asked \ {r}
                 \/ /\ verdict \in {"accepted", "rejected"} /\ share = 0
                    /\ v1retry' = 0 /\ v1told' = "success"
                    /\ uid' = IF more THEN uid + 2 ELSE uid
                    /\ asked' = (asked \ {r}) \cup
                                IF more THEN {[n |-> 0, id |-> uid, what |-> "difficulty"],
                                              [n |-> 0, id |-> uid + 1, what |-> "extranonce"]}
                                ELSE {}
                    /\ UNCHANGED <<timing, counted, timed>>
    /\ v1step' = "check" /\ HandleFrame /\ UNCHANGED <<v1up, carried>>

-----------------------------------------------------------------------------
(* The result task *)

SendFrame == UNCHANGED <<v1step, v1retry, v1up, rpcBuffer, fed, asicOn, v1stop, v1told,
                         counted, v1session, handled, timed>>

\* Transport and id are taken together; without a transport the share is lost.
TakeUid ==
    /\ sending = NoSend /\ v1shares < MaxV1Shares /\ v1up /\ asicOn
    /\ v1shares' = v1shares + 1 /\ uid' = uid + 1
    /\ sending' = [n |-> v1shares + 1, id |-> uid, session |-> v1session, at |-> "taken"]
    /\ overrun' = (overrun \/ (rpcBuffer # NoBuffer /\ timing[uid % IdSlots] # 0))
    /\ SendFrame /\ UNCHANGED <<timing, asked, carried>>

\* The write reaches the pool only on the connection it was meant for.
SubmitV1 ==
    /\ sending.at = "taken" /\ sending' = [sending EXCEPT !.at = "written"]
    /\ asked' = IF v1up /\ v1session = sending.session
                THEN asked \cup {[n |-> sending.n, id |-> sending.id, what |-> "share"]}
                ELSE asked
    /\ SendFrame /\ UNCHANGED <<uid, timing, v1shares, carried, overrun>>

\* stamp_tx, after the write: the answer may have come before.
StampTx ==
    /\ sending.at = "written" /\ sending' = NoSend
    /\ timing' = [timing EXCEPT ![sending.id % IdSlots] = sending.n]
    /\ carried' = (carried \/ sending.session # v1session)
    /\ SendFrame /\ UNCHANGED <<uid, asked, v1shares, overrun>>

-----------------------------------------------------------------------------

V1Next ==
    \/ V1Shutdown \/ PauseOrResume \/ LeaveV1 \/ GiveUpV1 \/ UnreachableV1 \/ ConnectV1
    \/ Receive \/ InitializeBuffer \/ ReadFails \/ ReadBytes \/ PausedLine
    \/ HandleRequest \/ HandleResult \/ TakeUid \/ SubmitV1 \/ StampTx

V1Spec == V1Init /\ [][V1Next]_v1Vars

-----------------------------------------------------------------------------
(* Properties *)

\* A line that is handled is one whole line of this connection, as long as the
\* connection before it ended with an error: an error frees the buffer.  After
\* client.reconnect or a pause the rest of the old connection's bytes is handled
\* as if the new pool had said it.
LinesWhole ==
    v1up /\ ~carried /\ handled # <<>> => Whole(handled)

\* The pool's verdicts are counted at most once for every share that was sent,
\* and on a connection that carries nothing over, an answer is never taken for
\* that of an earlier share, unless the ids went round while that one was unanswered.
VerdictsCounted ==
    /\ counted <= v1shares
    /\ ~carried /\ ~overrun => timed[2] >= timed[1]
=============================================================================
