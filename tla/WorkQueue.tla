----------------------------- MODULE WorkQueue ------------------------------
(* main/work_queue.c: the ring of QUEUE_SIZE job pointers between the Stratum *)
(* tasks (producers), create_jobs_task (consumer) and the protocol            *)
(* coordinator (queue_clear).  One mutex protects the structure, so the body  *)
(* of a call between lock and unlock (or cond_wait) is one action; a thread   *)
(* that waits on a condition variable has its state in pc and is released by  *)
(* pthread_cond_signal, which wakes one waiter if there is one.               *)
EXTENDS Naturals, Sequences, FiniteSets

CONSTANTS Size,      \* QUEUE_SIZE
          Producers, \* stratum_v1_task / stratum_v2_task instances
          Consumers, \* create_jobs_task
          Clearers,  \* the protocol coordinator
          Items,     \* the job pointers
          FreeFns,   \* the functions that can free a job
          None       \* NULL

ASSUME SizeAssumption == Size \in Nat \ {0}
ASSUME NoneAssumption == None \notin Items \cup FreeFns

VARIABLES buffer, item_free_fn, head, tail, count, free_fn,   \* work_queue
          pc,        \* what each thread is doing with the queue
          held,      \* the job pointer a thread passes in or got back
          heldFn,    \* the free function that came with it, None if none did
          captured   \* history: free_fn at the moment each job was enqueued

ring == <<buffer, item_free_fn, head, tail, count>>
vars == <<buffer, item_free_fn, head, tail, count, free_fn, pc, held, heldFn, captured>>

Threads == Producers \cup Consumers \cup Clearers

Index == 0 .. Size - 1
Position(i) == (head + i) % Size      \* slot of the i-th oldest job
Queued == {buffer[Position(i)] : i \in 0 .. count - 1}

(* "enq", "deq", "deqt", "clear": inside the call, not yet past the lock.     *)
(* "enq_wait": in cond_wait(not_full); "deq_wait", "deqt_wait": in            *)
(* cond_wait / cond_timedwait(not_empty).                                     *)
Calls == {"enq", "deq", "deqt", "clear"}
Waits == {"enq_wait", "deq_wait", "deqt_wait"}

NotFullWaiters  == {t \in Threads : pc[t] = "enq_wait"}
NotEmptyWaiters == {t \in Threads : pc[t] \in {"deq_wait", "deqt_wait"}}
Retry(s) == CASE s = "enq_wait"  -> "enq"
              [] s = "deq_wait"  -> "deq"
              [] s = "deqt_wait" -> "deqt"
              [] OTHER -> s

(* Mutant: the call returns without pthread_cond_signal.                      *)
Mut_ReturnSilently(t, waiters) == pc' = [pc EXCEPT ![t] = "idle"]

(* The calling thread t leaves the call; pthread_cond_signal moves one of the *)
(* waiters back to the lock.                                                  *)
ReturnAndSignal(t, waiters) ==
    IF waiters = {}
    THEN pc' = [pc EXCEPT ![t] = "idle"]
    ELSE \E w \in waiters : pc' = [pc EXCEPT ![t] = "idle", ![w] = Retry(pc[w])]
-----------------------------------------------------------------------------
TypeOK == /\ buffer \in [Index -> Items \cup {None}]
          /\ item_free_fn \in [Index -> FreeFns]
          /\ head \in Index /\ tail \in Index /\ count \in 0 .. Size
          /\ free_fn \in FreeFns
          /\ pc \in [Threads -> Calls \cup Waits \cup {"idle"}]
          /\ held \in [Threads -> Items \cup {None}]
          /\ heldFn \in [Threads -> FreeFns \cup {None}]
          /\ captured \in [Items -> FreeFns]

(* queue_init; the slots are uninitialised memory that is never read.         *)
Init == /\ head = 0 /\ tail = 0 /\ count = 0
        /\ free_fn \in FreeFns
        /\ buffer = [i \in Index |-> None]
        /\ item_free_fn \in [Index -> FreeFns]
        /\ pc = [t \in Threads |-> "idle"]
        /\ held = [t \in Threads |-> None]
        /\ heldFn = [t \in Threads |-> None]
        /\ captured = [j \in Items |-> free_fn]
-----------------------------------------------------------------------------
(* A protocol task that starts installs its own free function, without lock.  *)
SetFreeFn(f) == /\ free_fn' = f
                /\ UNCHANGED <<ring, pc, held, heldFn, captured>>

(* A notification handler owns a freshly allocated job and enqueues it.       *)
CallEnqueue(t) ==
    /\ pc[t] = "idle" /\ held[t] = None
    /\ \E j \in Items \ (Queued \cup {held[u] : u \in Threads}) :
          held' = [held EXCEPT ![t] = j]
    /\ pc' = [pc EXCEPT ![t] = "enq"]
    /\ UNCHANGED <<ring, free_fn, heldFn, captured>>

(* The other calls pass no job in.  A producer calls queue_dequeue, to drop   *)
(* the oldest job, only when it read count = QUEUE_SIZE without the lock.     *)
Call(t, op) == /\ pc[t] = "idle" /\ held[t] = None
               /\ op = "deq" => count = Size
               /\ pc' = [pc EXCEPT ![t] = op]
               /\ UNCHANGED <<ring, free_fn, held, heldFn, captured>>

(* A thread that got a job back frees it: the pointer may be reused.          *)
Release(t) == /\ pc[t] = "idle" /\ held[t] # None
              /\ held' = [held EXCEPT ![t] = None]
              /\ heldFn' = [heldFn EXCEPT ![t] = None]
              /\ UNCHANGED <<ring, free_fn, pc, captured>>

WaitNotFull(t) == /\ pc[t] = "enq" /\ count = Size
                  /\ pc' = [pc EXCEPT ![t] = "enq_wait"]
                  /\ UNCHANGED <<ring, free_fn, held, heldFn, captured>>

(* Mutants: the tail does not wrap; the caller keeps using the job.           *)
Mut_EnqueueNoWrap(t) ==
    /\ pc[t] = "enq" /\ count < Size
    /\ buffer' = [buffer EXCEPT ![tail] = held[t]]
    /\ tail' = tail + 1 /\ count' = count + 1
    /\ held' = [held EXCEPT ![t] = None]
    /\ ReturnAndSignal(t, NotEmptyWaiters)
    /\ UNCHANGED <<head, item_free_fn, free_fn, heldFn, captured>>
Mut_EnqueueKeepsJob(t) ==
    /\ pc[t] = "enq" /\ count < Size
    /\ buffer' = [buffer EXCEPT ![tail] = held[t]]
    /\ item_free_fn' = [item_free_fn EXCEPT ![tail] = free_fn]
    /\ tail' = (tail + 1) % Size /\ count' = count + 1
    /\ captured' = [captured EXCEPT ![held[t]] = free_fn]
    /\ ReturnAndSignal(t, NotEmptyWaiters)
    /\ UNCHANGED <<head, free_fn, held, heldFn>>

queue_enqueue(t) ==
    /\ pc[t] = "enq" /\ count < Size
    /\ buffer' = [buffer EXCEPT ![tail] = held[t]]
    /\ item_free_fn' = [item_free_fn EXCEPT ![tail] = free_fn]
    /\ tail' = (tail + 1) % Size
    /\ count' = count + 1
    /\ captured' = [captured EXCEPT ![held[t]] = free_fn]
    /\ held' = [held EXCEPT ![t] = None]
    /\ ReturnAndSignal(t, NotEmptyWaiters)
    /\ UNCHANGED <<head, free_fn, heldFn>>

WaitNotEmpty(t) == /\ pc[t] \in {"deq", "deqt"} /\ count = 0
                   /\ pc' = [pc EXCEPT ![t] = IF pc[t] = "deq" THEN "deq_wait" ELSE "deqt_wait"]
                   /\ UNCHANGED <<ring, free_fn, held, heldFn, captured>>

(* Mutant: the newest job is taken, not the oldest.                           *)
Mut_TakeNewest(t) ==
    /\ count > 0
    /\ held' = [held EXCEPT ![t] = buffer[Position(count - 1)]]
    /\ tail' = Position(count - 1) /\ count' = count - 1
    /\ ReturnAndSignal(t, NotFullWaiters)
    /\ UNCHANGED <<buffer, item_free_fn, head, free_fn, captured>>

(* The common tail of queue_dequeue and queue_dequeue_timeout_ex.             *)
TakeOldest(t) ==
    /\ count > 0
    /\ held' = [held EXCEPT ![t] = buffer[head]]
    /\ head' = (head + 1) % Size
    /\ count' = count - 1
    /\ ReturnAndSignal(t, NotFullWaiters)
    /\ UNCHANGED <<buffer, item_free_fn, tail, free_fn, captured>>

queue_dequeue(t) == /\ pc[t] = "deq"
                    /\ TakeOldest(t)
                    /\ heldFn' = [heldFn EXCEPT ![t] = None]

(* Mutant: the free function in force now is returned, not the stored one.    *)
Mut_DequeueCurrentFn(t) == /\ pc[t] = "deqt"
                           /\ TakeOldest(t)
                           /\ heldFn' = [heldFn EXCEPT ![t] = free_fn]

queue_dequeue_timeout_ex(t) ==
    /\ pc[t] = "deqt"
    /\ TakeOldest(t)
    /\ heldFn' = [heldFn EXCEPT ![t] = item_free_fn[head]]

(* ETIMEDOUT: the call returns NULL whatever the queue holds by then.         *)
TimedOut(t) == /\ pc[t] = "deqt_wait"
               /\ pc' = [pc EXCEPT ![t] = "idle"]
               /\ UNCHANGED <<ring, free_fn, held, heldFn, captured>>

(* POSIX lets cond_wait return without a signal; the loop tests count again.  *)
SpuriousWakeup(t) == /\ pc[t] \in Waits
                     /\ pc' = [pc EXCEPT ![t] = Retry(pc[t])]
                     /\ UNCHANGED <<ring, free_fn, held, heldFn, captured>>

(* Frees every queued job under the lock and signals not_full once.           *)
queue_clear(t) == /\ pc[t] = "clear"
                  /\ head' = (head + count) % Size
                  /\ count' = 0
                  /\ ReturnAndSignal(t, NotFullWaiters)
                  /\ UNCHANGED <<buffer, item_free_fn, tail, free_fn, held, heldFn, captured>>
-----------------------------------------------------------------------------
Body(t) == \/ WaitNotFull(t)  \/ queue_enqueue(t)
           \/ WaitNotEmpty(t) \/ queue_dequeue(t) \/ queue_dequeue_timeout_ex(t)
           \/ TimedOut(t)     \/ queue_clear(t)

Producer(t) == \/ CallEnqueue(t)
               \/ \E op \in {"deq", "clear"} : Call(t, op)
Consumer(t) == Call(t, "deqt")
Clearer(t)  == Call(t, "clear")

Step == \/ \E f \in FreeFns : SetFreeFn(f)
        \/ \E t \in Producers : Producer(t)
        \/ \E t \in Consumers : Consumer(t)
        \/ \E t \in Clearers : Clearer(t)
        \/ \E t \in Threads : Body(t) \/ Release(t)

Next == Step \/ \E t \in Threads : SpuriousWakeup(t)

Spec == Init /\ [][Next]_vars

(* The scheduler runs every ready thread, the timed wait has a deadline, and  *)
(* create_jobs_task calls the queue again for ever after freeing what it got. *)
(* It runs at priority 20 against the producers' 5, so it is not overtaken    *)
(* for ever between the signal and the lock: strong fairness of its dequeue.  *)
(* The liveness specification has no spurious wake-ups: every one makes       *)
(* queue_dequeue_timeout_ex start its timeout afresh, so an endless series of *)
(* them would keep it waiting (ESP-IDF's condition variables produce none).   *)
Fairness == /\ \A t \in Threads : WF_vars(Body(t)) /\ WF_vars(Release(t))
            /\ \A t \in Consumers :
                  /\ WF_vars(Consumer(t))
                  /\ SF_vars(queue_dequeue_timeout_ex(t) \/ TimedOut(t))

FairSpec == Init /\ [][Step]_vars /\ Fairness
-----------------------------------------------------------------------------
(* The three indices of the ring agree: the next free slot is count slots     *)
(* after the oldest job, over every wrap-around and every queue_clear.        *)
RingInv == tail = (head + count) % Size

(* A job has one owner: no pointer sits twice in the ring, and a pointer in   *)
(* the ring or in one thread's hands is not in another's (no double free, no  *)
(* use after free through the queue), however calls interleave; a thread      *)
(* inside queue_enqueue owns the job it passes until it is in the ring.       *)
ExclusiveOwnership ==
    /\ \A i, j \in 0 .. count - 1 :
          buffer[Position(i)] = buffer[Position(j)] => i = j
    /\ None \notin Queued
    /\ \A t \in Threads : held[t] \notin Queued
    /\ \A t, u \in Threads : held[t] = held[u] /\ held[t] # None => t = u
    /\ \A t \in Threads : pc[t] \in {"enq", "enq_wait"} => held[t] # None /\ heldFn[t] = None

(* The contract in work_queue.h: a job is handed out, and thrown away by      *)
(* queue_clear, with the free function installed when it was enqueued, even   *)
(* when free_fn was swapped in between.                                       *)
FreedAsCaptured ==
    /\ \A i \in 0 .. count - 1 :
          item_free_fn[Position(i)] = captured[buffer[Position(i)]]
    /\ \A t \in Threads :
          heldFn[t] # None => held[t] # None /\ heldFn[t] = captured[held[t]]

(* No lost wake-up: while somebody sleeps on not_empty, every queued job has  *)
(* an awake dequeuer; and nobody sleeps on not_full next to an empty ring     *)
(* unless another enqueuer is awake (queue_clear signals once, not to all).   *)
NoMissedWakeup ==
    /\ NotEmptyWaiters # {} =>
          count <= Cardinality({t \in Threads : pc[t] \in {"deq", "deqt"}})
    /\ NotFullWaiters # {} /\ count = 0 => \E t \in Threads : pc[t] = "enq"

(* The ring implements the bounded FIFO of <<job, free function>> pairs.      *)
Contents == [i \in 1 .. count |-> <<buffer[Position(i - 1)], item_free_fn[Position(i - 1)]>>]
Abstract == INSTANCE Fifo WITH fifo <- Contents, Capacity <- Size
ImplementsFifo == Abstract!Spec

(* A lone producer that blocks on a full queue gets its job in eventually     *)
(* (beside a second one that keeps refilling the ring it may starve).         *)
EnqueueReturns == \A t \in Producers : pc[t] = "enq" ~> pc[t] = "idle"
=============================================================================
