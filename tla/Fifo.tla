-------------------------------- MODULE Fifo --------------------------------
(* What main/work_queue.h promises to its users: a bounded first-in first-out *)
(* queue of jobs, each kept together with the function that frees it, whose   *)
(* contents can be thrown away as a whole.                                    *)
EXTENDS Naturals, Sequences

CONSTANTS Items,     \* the jobs (pointers) that can be queued
          FreeFns,   \* the functions that can free a job
          Capacity   \* QUEUE_SIZE

VARIABLE fifo        \* <<job, free function>> pairs, oldest first

Entry == Items \X FreeFns

TypeOK == fifo \in Seq(Entry) /\ Len(fifo) <= Capacity

Init == fifo = << >>

Put == /\ Len(fifo) < Capacity
       /\ \E e \in Entry : fifo' = Append(fifo, e)

Take == /\ fifo # << >>
        /\ fifo' = Tail(fifo)

Flush == fifo' = << >>

Next == Put \/ Take \/ Flush

Spec == Init /\ [][Next]_fifo
=============================================================================
