----------------------------- MODULE Sv2Session -----------------------------
(***************************************************************************)
(* stratum_v2_task.c: one run of the SV2 task, from its start to its exit. *)
(* The task connects, shakes hands, opens a channel and then handles the   *)
(* pool's messages; the result task submits shares beside it and the job   *)
(* task takes jobs from the queue.  The pool may send, in an order of its  *)
(* own, jobs for now and jobs for later, new previous hashes and targets,  *)
(* and acknowledge shares in batches.  A message is chosen when it is      *)
(* handled: TCP keeps the order, so nothing is lost by that.               *)
(***************************************************************************)
EXTENDS Integers, Sequences

CONSTANTS
    Ring,         \* SV2_PENDING_JOBS_SIZE
    TimingSlots,  \* SV2_SUBMIT_TIMING_SLOTS
    QueueLength,  \* QUEUE_SIZE
    MaxRetries,   \* MAX_RETRY_ATTEMPTS
    MaxJob,       \* bound: job ids of a session
    MaxHash,      \* bound: previous hashes of a session
    MaxShare,     \* bound: shares
    MaxSession    \* bound: connections

VARIABLES
    step,        \* where the task is
    retry,       \* retry_attempts
    link,        \* what exists: transport, noise context, published connection
    hash,        \* conn->prev_hash, 0 before the first
    pending,     \* the ring of jobs that wait for a previous hash
    jobQueue,    \* stratum_queue: jobs of this session, with their hash
    difficulty,  \* pool_difficulty was set in this session
    sequence,    \* conn->sequence_number
    submit,      \* the share the result task is submitting
    stamp,       \* stratum_v2_submit_time_us: which share a slot was stamped for
    shutdown,    \* protocol_coordinator_v2_should_shutdown
    told,        \* what the coordinator was told last
    job,         \* history: the last job id of the session
    inFlight,    \* history: shares sent and not yet acknowledged
    shares, session, \* history, for the bounds
    missed,      \* history: a hash named a job that was not in the ring
    measured     \* history: the last response time: the share, the stamp's share

v2Vars == <<step, retry, link, hash, pending, jobQueue, difficulty, sequence,
          submit, stamp, shutdown, told, job, inFlight, shares, session, missed,
          measured>>
connVars == <<hash, pending, jobQueue, difficulty, job, missed>>
shareVars == <<sequence, submit, stamp, inFlight, shares, measured>>

NoPending == 0
NoShare == [n |-> 0, seq |-> 0, at |-> "idle"]

\* The task is at a step it has, the queue holds jobs with a hash, the
\* connection is published while the task lives and a channel has a difficulty.
V2TypeOK ==
    /\ step \in {"top", "noise", "setup", "channel", "open", "done"}
    /\ retry \in 0 .. MaxRetries
    /\ link \subseteq {"transport", "noise", "conn"}
    /\ pending \in [0 .. Ring - 1 -> 0 .. MaxJob] /\ hash \in 0 .. MaxHash
    /\ Len(jobQueue) <= QueueLength
    /\ \A i \in DOMAIN jobQueue : jobQueue[i].hash # 0
    /\ step = "open" => link = {"transport", "noise", "conn"} /\ difficulty
    /\ step = "done" => link = {} /\ told \in {"failure", "exited"}

\* The task has started: a connection is allocated and published.
V2Init ==
    /\ step = "top" /\ retry = 0 /\ link = {"conn"}
    /\ hash = 0 /\ pending = [i \in 0 .. Ring - 1 |-> NoPending] /\ jobQueue = <<>>
    /\ difficulty = FALSE /\ sequence = 0 /\ submit = NoShare
    /\ stamp = [i \in 0 .. TimingSlots - 1 |-> 0]
    /\ shutdown = FALSE /\ told = "nothing" /\ job = 0 /\ inFlight = {}
    /\ shares = 0 /\ session = 0 /\ missed = FALSE /\ measured = <<0, 0>>

-----------------------------------------------------------------------------
(* Connecting *)

RequestShutdown ==
    /\ ~shutdown /\ step # "done" /\ shutdown' = TRUE
    /\ UNCHANGED <<step, retry, link, told, session, connVars, shareVars>>

\* stratum_v2_close_connection empties the queue; sv2_conn_release unpublishes.
Leave(report) ==
    /\ step = "top" /\ step' = "done" /\ link' = {} /\ told' = report
    /\ jobQueue' = <<>>
    /\ UNCHANGED <<retry, hash, pending, difficulty, job, missed, shutdown,
                   session, shareVars>>

ShutdownSeen == shutdown /\ Leave("exited")
GiveUp == ~shutdown /\ retry >= MaxRetries /\ Leave("failure")

MayConnect == step = "top" /\ ~shutdown /\ retry < MaxRetries

\* No transport, no address or no TCP connection: try again later.
ConnectFails ==
    /\ MayConnect /\ retry' = retry + 1
    /\ UNCHANGED <<step, link, shutdown, told, session, connVars, shareVars>>

\* TCP is up: the connection is cleared in place.
Connect ==
    /\ MayConnect /\ session < MaxSession /\ session' = session + 1
    /\ step' = "noise" /\ link' = link \cup {"transport"}
    /\ hash' = 0 /\ pending' = [i \in 0 .. Ring - 1 |-> NoPending] /\ sequence' = 0
    /\ difficulty' = FALSE /\ job' = 0 /\ missed' = FALSE /\ inFlight' = {}
    /\ UNCHANGED <<retry, jobQueue, submit, stamp, shutdown, told, shares, measured>>

\* sv2_noise_handshake, the encrypted setup and the opening of the channel: each
\* succeeds, or closes the connection and counts as an attempt.
Handshake ==
    /\ step = "noise" /\ step' = "setup" /\ link' = link \cup {"noise"}
    /\ UNCHANGED <<retry, shutdown, told, session, connVars, shareVars>>

SetupConnection ==
    /\ step = "setup" /\ step' = "channel"
    /\ UNCHANGED <<retry, link, shutdown, told, session, connVars, shareVars>>

OpenMiningChannel ==
    /\ step = "channel" /\ step' = "open"
    /\ retry' = 0 /\ told' = "success" /\ difficulty' = TRUE
    /\ UNCHANGED <<link, shutdown, session, hash, pending, jobQueue, job, missed,
                   shareVars>>

\* Mutant: the queue and the hash of the lost connection stay.
Mut_Drops ==
    /\ step \in {"noise", "setup", "channel", "open"} /\ step' = "top"
    /\ retry' = retry + 1 /\ link' = link \ {"transport", "noise"}
    /\ UNCHANGED <<hash, pending, jobQueue, difficulty, job, missed, shutdown,
                   told, session, shareVars>>

\* A send or receive fails, or the pool refuses; sv2_noise_create fails too.
Drops ==
    /\ step \in {"noise", "setup", "channel", "open"} /\ step' = "top"
    /\ retry' = retry + 1 /\ link' = link \ {"transport", "noise"}
    /\ jobQueue' = <<>>
    /\ UNCHANGED <<hash, pending, difficulty, job, missed, shutdown, told, session,
                   shareVars>>

-----------------------------------------------------------------------------
(* The pool's messages *)

Slot(j) == j % Ring

\* stratum_v2_enqueue_job and _ext_job: always clean, so they empty the queue;
\* had it been kept, a full queue would lose its oldest job.
Enqueued(q, j, h) ==
    LET kept == IF q # <<>> THEN <<>> ELSE q
        room == IF Len(kept) = QueueLength THEN Tail(kept) ELSE kept
    IN  Append(room, [job |-> j, hash |-> h])

\* stratum_v2_handle_new_mining_job and its extended twin.  A job for now needs
\* the previous hash; without one it waits like a job for later.
NewMiningJob ==
    /\ step = "open" /\ job < MaxJob /\ job' = job + 1
    /\ \E later \in BOOLEAN :
          IF ~later /\ hash # 0
          THEN jobQueue' = Enqueued(jobQueue, job', hash) /\ UNCHANGED pending
          ELSE pending' = [pending EXCEPT ![Slot(job')] = job'] /\ UNCHANGED jobQueue
    /\ UNCHANGED <<step, retry, link, hash, difficulty, shutdown, told, session,
                   missed, shareVars>>

\* All jobs that wait, one after the other: each is clean and empties the queue
\* again, so the last one stays.
EnqueueAll(q, waiting, h) ==
    IF waiting = <<>> THEN q ELSE Enqueued(q, waiting[Len(waiting)], h)

Resolve(named, h) ==
    LET found == pending[Slot(named)] = named
        others == IF hash # 0 THEN <<>>
                  ELSE SelectSeq([i \in 1 .. Ring |-> pending[i - 1]],
                                 LAMBDA j : j # NoPending /\ j # named)
        first == IF found THEN Enqueued(jobQueue, named, h) ELSE jobQueue
    IN  /\ jobQueue' = EnqueueAll(first, others, h)
        /\ pending' = IF hash # 0
                      THEN [pending EXCEPT ![Slot(named)] = IF found THEN NoPending ELSE @]
                      ELSE [i \in DOMAIN pending |-> NoPending]
        /\ missed' = (~found /\ others = <<>>)

\* stratum_v2_handle_set_new_prev_hash: the named job starts; with the first
\* hash all others that wait do too.
SetNewPrevHash ==
    /\ step = "open" /\ hash < MaxHash /\ hash' = hash + 1
    /\ \E named \in 1 .. job : Resolve(named, hash')
    /\ UNCHANGED <<step, retry, link, difficulty, shutdown, told, session, job,
                   shareVars>>

\* stratum_v2_handle_set_target
SetTarget ==
    /\ step = "open" /\ difficulty' = TRUE
    /\ UNCHANGED <<step, retry, link, hash, pending, jobQueue, job, missed,
                   shutdown, told, session, shareVars>>

\* SubmitShares.Success names the last of the shares it accepts; the time is
\* taken from the stamp in that share's slot, which is then cleared.
SharesSuccess ==
    /\ step = "open"
    /\ \E s \in inFlight :
          LET at == s.seq % TimingSlots
          IN  /\ inFlight' = {t \in inFlight : t.n > s.n}
              /\ measured' = IF stamp[at] # 0 THEN <<s.n, stamp[at]>> ELSE measured
              /\ stamp' = [stamp EXCEPT ![at] = 0]
    /\ UNCHANGED <<step, retry, link, shutdown, told, session, sequence, submit,
                   shares, connVars>>

\* SubmitShares.Error only counts the rejection.
SharesError ==
    /\ step = "open" /\ \E s \in inFlight : inFlight' = inFlight \ {s}
    /\ UNCHANGED <<step, retry, link, shutdown, told, session, sequence, submit,
                   stamp, shares, measured, connVars>>

-----------------------------------------------------------------------------
(* The other tasks *)

\* create_jobs_task takes a job.
TakeJob ==
    /\ jobQueue # <<>> /\ jobQueue' = Tail(jobQueue)
    /\ UNCHANGED <<step, retry, link, hash, pending, difficulty, job, missed,
                   shutdown, told, session, shareVars>>

SubmitFrame == UNCHANGED <<step, retry, link, shutdown, told, session, connVars,
                           measured>>

\* stratum_v2_submit_share: the channel and a sequence number are taken under
\* the lock, if there is a connection.
ClaimSequence ==
    /\ submit = NoShare /\ shares < MaxShare
    /\ link = {"transport", "noise", "conn"}
    /\ shares' = shares + 1 /\ sequence' = sequence + 1
    /\ submit' = [n |-> shares + 1, seq |-> sequence, at |-> "claimed"]
    /\ SubmitFrame /\ UNCHANGED <<stamp, inFlight>>

\* stratum_v2_record_submit_time
RecordSubmitTime ==
    /\ submit.at = "claimed" /\ submit' = [submit EXCEPT !.at = "recorded"]
    /\ stamp' = [stamp EXCEPT ![submit.seq % TimingSlots] = submit.n]
    /\ SubmitFrame /\ UNCHANGED <<sequence, inFlight, shares>>

Sent ==
    inFlight' = IF {"transport", "noise"} \subseteq link
                THEN inFlight \cup {[n |-> submit.n, seq |-> submit.seq]}
                ELSE inFlight

\* Mutant: the share is sent before its time is recorded.
Mut_SendShare ==
    \/ /\ submit.at = "claimed" /\ submit' = [submit EXCEPT !.at = "sent"] /\ Sent
       /\ SubmitFrame /\ UNCHANGED <<sequence, stamp, shares>>
    \/ /\ submit.at = "sent" /\ submit' = NoShare
       /\ stamp' = [stamp EXCEPT ![submit.seq % TimingSlots] = submit.n]
       /\ SubmitFrame /\ UNCHANGED <<sequence, inFlight, shares>>

\* sv2_noise_send, outside the lock, on whatever connection there is by now.
SendShare ==
    /\ submit.at = "recorded" /\ submit' = NoShare /\ Sent
    /\ SubmitFrame /\ UNCHANGED <<sequence, stamp, shares>>

-----------------------------------------------------------------------------

V2Next ==
    \/ RequestShutdown \/ ShutdownSeen \/ GiveUp \/ ConnectFails \/ Connect
    \/ Handshake \/ SetupConnection \/ OpenMiningChannel \/ Drops
    \/ NewMiningJob \/ SetNewPrevHash \/ SetTarget \/ SharesSuccess \/ SharesError
    \/ TakeJob \/ ClaimSequence \/ RecordSubmitTime \/ SendShare

V2Spec == V2Init /\ [][V2Next]_v2Vars

-----------------------------------------------------------------------------
(* Properties *)

\* Work is never built on an old block: a job in the queue carries the newest
\* previous hash of this connection, unless the hash named a job that the ring
\* had lost.
JobsOnNewestHash ==
    step = "open" /\ ~missed =>
        \A i \in DOMAIN jobQueue : jobQueue[i].hash = hash

\* A response time is taken from the acknowledged share or, after the ring of
\* stamps wrapped, from a later one: never from an older share.
ResponseTimeNotStale == measured[2] >= measured[1]
=============================================================================
