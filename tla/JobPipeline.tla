----------------------------- MODULE JobPipeline -----------------------------
(***************************************************************************)
(* From a pool's job to a share: create_jobs_task.c takes jobs from the    *)
(* work queue and feeds the chip, the drivers keep the table of active     *)
(* jobs, asic_result_task.c matches the chip's nonces with that table and  *)
(* submits shares.  The protocol tasks and the coordinator appear with     *)
(* what they do to the state the three share: the queue, valid_jobs, the   *)
(* protocol, the extended-channel flag and the extranonce.                 *)
(*                                                                         *)
(* The work queue is the FIFO that WorkQueue implements.                   *)
(***************************************************************************)
EXTENDS Naturals, Sequences, FiniteSets

CONSTANTS
    None,        \* no job, no work, no nonce
    PoolLists,   \* possible configurations: sequences over Kinds
    QueueSize,   \* QUEUE_SIZE of work_queue.h
    Slots,       \* job ids a driver cycles through (16 or 32 in the code)
    MaxJobs,     \* bound: jobs the pools send
    MaxSessions, \* bound: connections made
    MaxRolls     \* bound: extranonce_2 values tried per job

\* A V1 session, an SV2 standard channel, an SV2 extended channel.
Kinds == {"v1", "std", "ext"}

ASSUME PipelineAssumption ==
    /\ QueueSize \in Nat \ {0} /\ Slots \in Nat \ {0}
    /\ MaxJobs \in Nat /\ MaxSessions \in Nat /\ MaxRolls \in Nat \ {0}
    /\ PoolLists \subseteq Seq(Kinds) \ {<<>>}

VARIABLES
    pools,        \* the configured pools
    pool,         \* the one in use
    protocol,     \* GLOBAL_STATE->stratum_protocol
    extended,     \* GLOBAL_STATE->sv2_extended_channel
    conn,         \* sv2_conn: NULL, zeroed, or with its channel's parameters
    extranonce,   \* the session whose extranonce_str is stored, 0 for NULL
    task,         \* where the protocol task is
    session,      \* connections made so far
    issued,       \* jobs received so far
    incoming,     \* the job being handed to the queue
    queue,        \* stratum_queue
    pc,           \* where create_jobs_task is
    item,         \* new_work
    work,         \* current_work
    workProtocol, \* current_work_protocol
    roll,         \* extranonce_2
    asicUp,       \* ASIC_initalized
    lastId,       \* the driver's static id
    slots,        \* active_jobs
    valid,        \* valid_jobs
    uart,         \* a nonce the chip has sent and nobody has read
    rpc,          \* where ASIC_result_task is
    result,       \* task_result: slot, version taken from it, work searched
    snapshot,     \* active_job_snapshot
    \* history
    freed,        \* jobs freed
    sent,         \* work sent to the chip
    repeated,     \* the same work was sent twice on an open channel
    miscast,      \* a job was read as one of another type
    released,     \* a protocol task ended in mid-iteration of create_jobs_task,
                  \* and no other job has been dequeued since
    misattributed \* a share was submitted with work it was not found for

connVars == <<pools, pool, protocol, extended, conn, extranonce, task, session,
              issued, incoming>>
createVars == <<pc, item, work, workProtocol, roll>>
slotVars == <<lastId, slots, sent, repeated>>
resultVars == <<uart, rpc, result, snapshot, misattributed>>
vars == <<connVars, queue, createVars, asicUp, slotVars, valid, resultVars,
          freed, miscast, released>>

Job == [num : 1 .. MaxJobs, kind : Kinds, clean : BOOLEAN]
\* What the chip is given: a job and what makes this search differ from others.
Work == [job : Job, roll : 0 .. MaxRolls, extranonce : 0 .. MaxSessions]

ASSUME NoneAssumption == None \notin Job \cup Work

Tasks == {"off", "down", "tcp", "setup", "up", "clear", "invalidate",
          "clearClose", "invalidateClose", "clearOpen", "invalidateOpen", "add"}

\* Where the task is while its connection is open.
Online == {"up", "add", "clear", "invalidate"}

ProtocolOf(kind) == IF kind = "v1" THEN "v1" ELSE "v2"
MyKind == pools[pool]

TypeOK ==
    /\ pools \in PoolLists /\ pool \in DOMAIN pools
    /\ protocol \in {"v1", "v2"} /\ workProtocol \in {"v1", "v2"}
    /\ extended \in BOOLEAN /\ conn \in {"null", "zero", "open"}
    /\ extranonce \in 0 .. MaxSessions /\ session \in 0 .. MaxSessions
    /\ task \in Tasks /\ issued \in 0 .. MaxJobs
    /\ incoming \in Job \cup {None} /\ item \in Job \cup {None}
    /\ work \in Job \cup {None}
    /\ queue \in Seq(Job) /\ Len(queue) <= QueueSize
    /\ pc \in {"top", "wait", "got", "adopt", "check", "generate"}
    /\ roll \in 0 .. MaxRolls /\ asicUp \in BOOLEAN
    /\ lastId \in 0 .. Slots - 1 /\ valid \subseteq 0 .. Slots - 1
    /\ slots \in [0 .. Slots - 1 -> Work \cup {None}]
    /\ uart = None \/ uart \in [slot : 0 .. Slots - 1, work : Work]
    /\ rpc \in {"read", "snapshot", "submit"}
    /\ freed \subseteq 1 .. MaxJobs /\ sent \subseteq Work
    /\ {repeated, miscast, released, misattributed} \subseteq BOOLEAN

Init ==
    /\ pools \in PoolLists /\ pool = 1
    /\ protocol = ProtocolOf(pools[1]) /\ workProtocol = ProtocolOf(pools[1])
    /\ extended = FALSE /\ conn = IF pools[1] = "v1" THEN "null" ELSE "zero"
    /\ extranonce = 0 /\ task = "down" /\ session = 0 /\ issued = 0
    /\ incoming = None /\ queue = <<>>
    /\ pc = "top" /\ item = None /\ work = None /\ roll = 0
    /\ asicUp = TRUE /\ lastId = 0
    /\ slots = [s \in 0 .. Slots - 1 |-> None] /\ valid = {}
    /\ uart = None /\ rpc = "read" /\ result = None /\ snapshot = None
    /\ freed = {} /\ sent = {} /\ repeated = FALSE /\ miscast = FALSE
    /\ misattributed = FALSE /\ released = FALSE

-----------------------------------------------------------------------------
(* The protocol tasks *)

\* TCP connects.  V1 cleans queue and active jobs; V2 zeroes its connection.
Connect ==
    /\ task = "down" /\ session < MaxSessions
    /\ session' = session + 1
    /\ IF MyKind = "v1"
       THEN task' = "clearOpen" /\ UNCHANGED conn
       ELSE task' = "tcp" /\ conn' = "zero"
    /\ UNCHANGED <<pools, pool, protocol, extended, extranonce, issued, incoming,
                   queue, createVars, asicUp, slotVars, valid, resultVars, freed,
                   miscast, released>>

\* The noise handshake is done and the channel type published, before any
\* message of the session has been exchanged.
Handshake ==
    /\ task = "tcp"
    /\ task' = "setup" /\ extended' = (MyKind = "ext")
    /\ UNCHANGED <<pools, pool, protocol, conn, extranonce, session, issued,
                   incoming, queue, createVars, asicUp, slotVars, valid,
                   resultVars, freed, miscast, released>>

\* The pool has accepted the channel: its parameters are stored.
OpenChannel ==
    /\ task = "setup"
    /\ task' = "up" /\ conn' = "open"
    /\ UNCHANGED <<pools, pool, protocol, extended, extranonce, session, issued,
                   incoming, queue, createVars, asicUp, slotVars, valid,
                   resultVars, freed, miscast, released>>

\* V1: the result of mining.subscribe, or mining.set_extranonce.
SetExtranonce ==
    /\ task = "up" /\ MyKind = "v1" /\ extranonce # session
    /\ extranonce' = session
    /\ UNCHANGED <<pools, pool, protocol, extended, conn, task, session, issued,
                   incoming, queue, createVars, asicUp, slotVars, valid,
                   resultVars, freed, miscast, released>>

\* A job arrives: mining.notify, or an SV2 job that is complete (always clean).
\* Only a clean job that finds the queue filled, as read without its lock,
\* cleans queue and active jobs first.
Notify(clean) ==
    /\ task = "up" /\ issued < MaxJobs
    /\ MyKind # "v1" => clean
    /\ issued' = issued + 1
    /\ incoming' = [num |-> issued + 1, kind |-> MyKind, clean |-> clean]
    /\ task' = IF clean /\ queue # <<>> THEN "clear" ELSE "add"
    /\ UNCHANGED <<pools, pool, protocol, extended, conn, extranonce, session,
                   queue, createVars, asicUp, slotVars, valid, resultVars, freed,
                   miscast, released>>

Nums(s) == {s[i].num : i \in DOMAIN s}

\* SYSTEM_clean_jobs_queue, first half: queue_clear.
CleanQueue ==
    /\ task \in {"clear", "clearClose", "clearOpen"}
    /\ queue' = <<>> /\ freed' = freed \cup Nums(queue)
    /\ task' = CASE task = "clear"      -> "invalidate"
                 [] task = "clearClose" -> "invalidateClose"
                 [] task = "clearOpen"  -> "invalidateOpen"
    /\ UNCHANGED <<pools, pool, protocol, extended, conn, extranonce, session,
                   issued, incoming, createVars, asicUp, slotVars, valid,
                   resultVars, miscast, released>>

\* Second half: the active jobs are invalidated under valid_jobs_lock.
Invalidate ==
    /\ task \in {"invalidate", "invalidateClose", "invalidateOpen"}
    /\ valid' = {}
    /\ task' = CASE task = "invalidate"      -> "add"
                 [] task = "invalidateClose" -> "down"
                 [] task = "invalidateOpen"  -> "up"
    /\ UNCHANGED <<pools, pool, protocol, extended, conn, extranonce, session,
                   issued, incoming, queue, createVars, asicUp, slotVars,
                   resultVars, freed, miscast, released>>

\* The oldest job makes room when the queue is full, then the new one enters.
Enqueue ==
    /\ task = "add"
    /\ LET full == Len(queue) = QueueSize
       IN  /\ queue' = Append(IF full THEN Tail(queue) ELSE queue, incoming)
           /\ freed' = IF full THEN freed \cup {Head(queue).num} ELSE freed
    /\ incoming' = None /\ task' = "up"
    /\ UNCHANGED <<pools, pool, protocol, extended, conn, extranonce, session,
                   issued, createVars, asicUp, slotVars, valid, resultVars,
                   miscast, released>>

\* The connection is lost (or the setup fails): close_connection.
Disconnect ==
    /\ task \in {"tcp", "setup", "up"}
    /\ task' = "clearClose"
    /\ UNCHANGED <<pools, pool, protocol, extended, conn, extranonce, session,
                   issued, incoming, queue, createVars, asicUp, slotVars, valid,
                   resultVars, freed, miscast, released>>

\* The task ends, wherever create_jobs_task is.  A V2 task unpublishes its
\* connection: sv2_conn_release.
ExitTask ==
    /\ task = "down"
    /\ task' = "off"
    /\ IF MyKind = "v1" THEN UNCHANGED <<extended, conn>>
                        ELSE extended' = FALSE /\ conn' = "null"
    /\ released' = (released \/ pc \notin {"top", "wait"})
    /\ UNCHANGED <<pools, pool, protocol, extranonce, session, issued, incoming,
                   queue, createVars, asicUp, slotVars, valid, resultVars, freed,
                   miscast>>

\* The coordinator: clear the queue, publish the protocol, start the task.  The
\* active jobs are not invalidated here.
Switch(p) ==
    /\ task = "off" /\ session < MaxSessions
    /\ queue' = <<>> /\ freed' = freed \cup Nums(queue)
    /\ pool' = p /\ protocol' = ProtocolOf(pools[p])
    /\ task' = "down"
    /\ conn' = IF pools[p] = "v1" THEN conn ELSE "zero"
    /\ UNCHANGED <<pools, extended, extranonce, session, issued, incoming,
                   createVars, asicUp, slotVars, valid, resultVars, miscast, released>>

\* Power management stops and restarts the chip.
Power ==
    /\ asicUp' = ~asicUp
    /\ UNCHANGED <<connVars, queue, createVars, slotVars, valid, resultVars,
                   freed, miscast, released>>

-----------------------------------------------------------------------------
(* create_jobs_task *)

createOnly == <<connVars, asicUp, slotVars, valid, resultVars>>

\* free_work and the assignment of NULL that follows it.
FreeWork ==
    /\ freed' = IF work = None THEN freed ELSE freed \cup {work.num}
    /\ work' = None

\* Head of the loop: work of another protocol is discarded.
TopOfLoop ==
    /\ pc = "top"
    /\ IF protocol # workProtocol
       THEN FreeWork /\ workProtocol' = protocol
       ELSE UNCHANGED <<freed, work, workProtocol>>
    /\ pc' = "wait"
    /\ UNCHANGED <<createOnly, queue, item, roll, miscast, released>>

Dequeue ==
    /\ pc = "wait" /\ queue # <<>>
    /\ item' = Head(queue) /\ queue' = Tail(queue)
    /\ pc' = "got" /\ released' = FALSE
    /\ UNCHANGED <<createOnly, work, workProtocol, roll, freed, miscast>>

\* Mutant: standard-channel work is fed again after the timeout.
Mut_DequeueTimeout ==
    /\ pc = "wait" /\ queue = <<>>
    /\ pc' = IF work = None \/ roll = MaxRolls THEN "top" ELSE "check"
    /\ UNCHANGED <<createOnly, queue, item, work, workProtocol, roll, freed,
                   miscast, released>>

\* No new job in time: feed the chip again, except on a standard channel.  At
\* the bound the work is no longer rolled.
DequeueTimeout ==
    /\ pc = "wait" /\ queue = <<>>
    /\ pc' = IF \/ work = None
                \/ workProtocol = "v2" /\ ~extended
                \/ roll = MaxRolls
             THEN "top" ELSE "check"
    /\ UNCHANGED <<createOnly, queue, item, work, workProtocol, roll, freed,
                   miscast, released>>

\* Mutant: a discarded item is not freed.
Mut_GotItem ==
    /\ pc = "got"
    /\ work' = None
    /\ freed' = freed \cup (IF work = None THEN {} ELSE {work.num})
    /\ item' = IF protocol # workProtocol THEN None ELSE item
    /\ workProtocol' = protocol
    /\ pc' = IF protocol # workProtocol THEN "top" ELSE "adopt"
    /\ UNCHANGED <<createOnly, queue, roll, miscast, released>>

\* The old work goes.  The new item goes too when the protocol has changed
\* since the head of the loop.
GotItem ==
    /\ pc = "got"
    /\ work' = None
    /\ LET old == IF work = None THEN {} ELSE {work.num}
       IN  IF protocol # workProtocol
           THEN /\ freed' = freed \cup old \cup {item.num}
                /\ item' = None /\ workProtocol' = protocol /\ pc' = "top"
           ELSE /\ freed' = freed \cup old
                /\ UNCHANGED <<item, workProtocol>> /\ pc' = "adopt"
    /\ UNCHANGED <<createOnly, queue, roll, miscast, released>>

\* The type a job pointer is cast to.
CastTo(p) == IF p = "v1" THEN "v1" ELSE IF extended THEN "ext" ELSE "std"

\* A job is read through a cast.  (History.)
ReadAs(job, kind) ==
    /\ miscast' = (miscast \/ (job.kind # kind /\ ~released))
    /\ UNCHANGED released

\* The item becomes the current work; its clean flag is read through a cast.
\* A job that is not clean waits for the next timeout.
AdoptItem ==
    /\ pc = "adopt"
    /\ ReadAs(item, CastTo(workProtocol))
    /\ work' = item /\ item' = None /\ roll' = 0
    /\ pc' = IF item.clean THEN "check" ELSE "top"
    /\ UNCHANGED <<createOnly, queue, workProtocol, freed>>

\* Mutant: the work is kept across a change of protocol.
Mut_CheckProtocol ==
    /\ pc = "check"
    /\ UNCHANGED <<freed, work>> /\ workProtocol' = protocol /\ pc' = "generate"
    /\ UNCHANGED <<createOnly, queue, item, roll, miscast, released>>

\* The protocol once more, before the work is used.
CheckProtocol ==
    /\ pc = "check"
    /\ IF protocol # workProtocol
       THEN FreeWork /\ workProtocol' = protocol /\ pc' = "top"
       ELSE UNCHANGED <<freed, work, workProtocol>> /\ pc' = "generate"
    /\ UNCHANGED <<createOnly, queue, item, roll, miscast, released>>

\* XX_send_work: the next slot is freed and filled under the lock.
SendWork(w) ==
    LET id == (lastId + 1) % Slots
    IN  /\ lastId' = id
        /\ slots' = [slots EXCEPT ![id] = w] /\ valid' = valid \cup {id}
        /\ sent' = sent \cup {w}
        /\ repeated' = (repeated \/ (/\ w \in sent
                                      /\ conn # "zero" /\ ~released))

NoSend == UNCHANGED <<lastId, slots, valid, sent, repeated>>

\* generate_work: nothing without an extranonce, or with the chip down.
GenerateV1 ==
    /\ pc = "generate" /\ workProtocol = "v1"
    /\ IF extranonce # 0 /\ asicUp
       THEN SendWork([job |-> work, roll |-> roll, extranonce |-> extranonce])
       ELSE NoSend
    /\ roll' = roll + 1 /\ pc' = "top"
    /\ ReadAs(work, "v1")
    /\ UNCHANGED <<connVars, queue, item, work, workProtocol, asicUp, resultVars,
                   freed>>

\* generate_work_sv2: nothing to roll, the header is complete.
GenerateStandard ==
    /\ pc = "generate" /\ workProtocol = "v2" /\ ~extended
    /\ IF asicUp THEN SendWork([job |-> work, roll |-> 0, extranonce |-> 0])
                 ELSE NoSend
    /\ pc' = "top"
    /\ ReadAs(work, "std")
    /\ UNCHANGED <<connVars, queue, item, work, workProtocol, roll, asicUp,
                   resultVars, freed>>

\* generate_work_sv2_ext: the channel's parameters are copied under
\* sv2_conn_lock; zeroed ones leave no bytes to roll.
GenerateExtended ==
    /\ pc = "generate" /\ workProtocol = "v2" /\ extended
    /\ IF conn # "null" /\ asicUp
       THEN SendWork([job |-> work,
                      roll |-> IF conn = "open" THEN roll ELSE 0,
                      extranonce |-> IF conn = "open" THEN session ELSE 0])
       ELSE NoSend
    /\ roll' = roll + 1 /\ pc' = "top"
    /\ ReadAs(work, "ext")
    /\ UNCHANGED <<connVars, queue, item, work, workProtocol, asicUp, resultVars,
                   freed>>

-----------------------------------------------------------------------------
(* The chip and ASIC_result_task *)

\* The chip searches the work it was last given and answers with its job id.
ChipFinds ==
    /\ asicUp /\ uart = None /\ slots[lastId] # None
    /\ uart' = [slot |-> lastId, work |-> slots[lastId]]
    /\ UNCHANGED <<connVars, queue, createVars, asicUp, slotVars, valid, rpc,
                   result, snapshot, misattributed, freed, miscast, released>>

\* XX_process_work: a slot that is not valid is ignored; otherwise the version
\* is taken from the slot, under the lock.
ProcessWork ==
    /\ rpc = "read" /\ asicUp /\ uart # None
    /\ uart' = None
    /\ IF uart.slot \in valid
       THEN /\ rpc' = "snapshot"
            /\ result' = [slot |-> uart.slot, version |-> slots[uart.slot],
                          searched |-> uart.work]
       ELSE UNCHANGED <<rpc, result>>
    /\ UNCHANGED <<connVars, queue, createVars, asicUp, slotVars, valid, snapshot,
                   misattributed, freed, miscast, released>>

\* The job is copied under the lock.  The nonce meets the difficulty only of
\* the header it was found for: version and job must both be the ones searched.
SnapshotJob ==
    /\ rpc = "snapshot"
    /\ \/ /\ result.slot \in valid
          /\ result.searched = slots[result.slot]
          /\ result.searched = result.version
          /\ snapshot' = slots[result.slot] /\ rpc' = "submit"
          /\ UNCHANGED result
       \/ rpc' = "read" /\ result' = None /\ UNCHANGED snapshot
    /\ UNCHANGED <<connVars, queue, createVars, asicUp, slotVars, valid, uart,
                   misattributed, freed, miscast, released>>

Submitted(w) ==
    /\ rpc = "submit" /\ rpc' = "read"
    /\ misattributed' = (misattributed \/ (/\ task \in Online
                                          /\ w # result.searched))
    /\ result' = None /\ snapshot' = None
    /\ UNCHANGED <<connVars, queue, createVars, asicUp, slotVars, valid, uart,
                   freed, miscast, released>>

\* Mutant: the job slot is read again when the share is sent.
Mut_SubmitShare == Submitted(slots[result.slot])

\* Submitted over whatever connection there is by now; dropped without one.
SubmitShare == Submitted(snapshot)

-----------------------------------------------------------------------------

TaskNext ==
    \/ Connect \/ Handshake \/ OpenChannel \/ SetExtranonce
    \/ \E clean \in BOOLEAN : Notify(clean)
    \/ CleanQueue \/ Invalidate \/ Enqueue \/ Disconnect \/ ExitTask
    \/ \E p \in DOMAIN pools : Switch(p)

Create ==
    \/ TopOfLoop \/ Dequeue \/ DequeueTimeout \/ GotItem \/ AdoptItem
    \/ CheckProtocol \/ GenerateV1 \/ GenerateStandard \/ GenerateExtended

Results == ProcessWork \/ SnapshotJob \/ SubmitShare

Next == TaskNext \/ Create \/ Results \/ ChipFinds \/ Power

Spec == Init /\ [][Next]_vars

-----------------------------------------------------------------------------
(* Properties *)

\* "Item matches current_work_protocol. Safe to cast.": a job is only ever read
\* as the type it was allocated as, until a protocol task ends between the reads
\* of protocol and flag that one iteration makes.  (From there to the next
\* dequeue the cast is not safe: the reads are separate.)
CastSafe == ~miscast

\* Jobs the firmware holds: queued, dequeued, current, or on their way in.
Held == Nums(queue) \cup {j.num : j \in {item, work, incoming} \ {None}}

\* No job is used or freed after it was freed, and none is lost: a job received
\* is held or freed, never both, and no two holders share one.
JobsFreedOnce ==
    /\ Held \cap freed = {}
    /\ Held \cup freed = 1 .. issued
    /\ Cardinality(Held) = Len(queue)
                           + Cardinality({item, work, incoming} \ {None})

\* "Re-sending the same job restarts the nonce search from 0 and produces
\* duplicate shares": no work is sent twice over an open channel, with the
\* same exception.
NoRepeatedWork == ~repeated

\* A share carries the job its nonce was found for, although the slot may have
\* been reused while the share was on its way.
ShareIntact == ~misattributed
=============================================================================
