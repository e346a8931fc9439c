------------------------------- MODULE Records -------------------------------
(***************************************************************************)
(* What the device remembers about its own work.  scoreboard.c keeps the   *)
(* best shares in memory and, slot by slot, in flash: the slots that moved *)
(* are queued for the settings task, which writes them one at a time.      *)
(* statistics_task.c keeps samples of a fixed number, thinning them out    *)
(* when they are full; the web interface reads them one at a time.         *)
(***************************************************************************)
EXTENDS Integers, Sequences, FiniteSets

CONSTANTS
    BoardSize,    \* MAX_SCOREBOARD
    MaxBest,      \* bound: the highest difficulty
    MaxResets,    \* bound: resets of the device
    SampleCount,  \* maxDataCount
    Frequency,    \* the configured statistics frequency, in samples
    MaxClock      \* bound: time of the samples

VARIABLES
    board,       \* scoreboard->entries
    flashBoard,  \* the slots in flash
    saves,       \* writes queued for the settings task
    resets,      \* history, for the bound
    blank,       \* history: an entry without extranonce2 has been written
    added,       \* history: difficulties found
    samples,     \* statisticsBuffer: the times of the samples
    clock,       \* esp_timer_get_time, in sample intervals
    reader,      \* GET_system_statistics: its index and the last time it sent
    disorder     \* history: a reader was sent an older sample after a newer one

recordVars == <<board, flashBoard, saves, resets, blank, added, samples, clock, reader,
                disorder>>
boardVars == <<board, flashBoard, saves, resets, blank, added>>
sampleVars == <<samples, clock, reader, disorder>>

Empty == [d |-> 0, blank |-> FALSE]
Entries == [d : 1 .. MaxBest, blank : BOOLEAN]
NotReading == [index |-> 0, last |-> -1]

\* Neither table passes its size.
RecordsTypeOK ==
    /\ Len(board) <= BoardSize /\ \A i \in DOMAIN board : board[i] \in Entries
    /\ flashBoard \in [1 .. BoardSize -> Entries \cup {Empty}]
    /\ Len(samples) <= SampleCount
    /\ reader.index \in 0 .. SampleCount + 1

RecordsInit ==
    /\ board = <<>> /\ flashBoard = [i \in 1 .. BoardSize |-> Empty] /\ saves = <<>>
    /\ resets = 0 /\ blank = FALSE /\ added = {}
    /\ samples = <<>> /\ clock = 0 /\ reader = NotReading /\ disorder = FALSE

-----------------------------------------------------------------------------
(* The scoreboard *)

\* Where a difficulty belongs: from the last place up, past the entries it beats.
Rank(d) ==
    CHOOSE i \in 1 .. Len(board) + 1 :
        /\ \A j \in i .. Len(board) : d > board[j].d
        /\ i > 1 => d <= board[i - 1].d

\* The board with a new entry: those it beats move down, and a full board loses
\* its last.
Insert(e) ==
    [i \in 1 .. (IF Len(board) < BoardSize THEN Len(board) + 1 ELSE BoardSize) |->
        IF i < Rank(e.d) THEN board[i] ELSE IF i = Rank(e.d) THEN e ELSE board[i - 1]]

\* Mutant: the highest place is saved first.
Mut_Dirty(e) == [k \in 1 .. Len(Insert(e)) - Rank(e.d) + 1 |-> Rank(e.d) + k - 1]

\* The slots that changed, as they are saved: the lowest place first.
Dirty(e) == [k \in 1 .. Len(Insert(e)) - Rank(e.d) + 1 |-> Len(Insert(e)) - k + 1]

\* scoreboard_add: a full board takes only what beats its last entry.  A share of
\* a standard SV2 channel has no extranonce2.
ScoreboardAdd ==
    /\ \E e \in Entries :
          /\ e.d \notin added /\ added' = added \cup {e.d}
          /\ blank' = (blank \/ e.blank)
          /\ IF Len(board) = BoardSize /\ e.d <= board[BoardSize].d
             THEN UNCHANGED <<board, saves>>
             ELSE /\ board' = Insert(e)
                  /\ saves' = saves \o [k \in DOMAIN Dirty(e) |->
                                           [slot |-> Dirty(e)[k], entry |-> Insert(e)[Dirty(e)[k]],
                                            new |-> Dirty(e)[k] = Rank(e.d)]]
    /\ UNCHANGED <<flashBoard, resets, sampleVars>>

\* The settings task writes one slot.
SaveSlot ==
    /\ saves # <<>> /\ saves' = Tail(saves)
    /\ flashBoard' = [flashBoard EXCEPT ![Head(saves).slot] = Head(saves).entry]
    /\ UNCHANGED <<board, resets, blank, added, sampleVars>>

\* The k-th of the slots in S.
Nth(S, k) == CHOOSE i \in S : Cardinality({j \in S : j <= i}) = k

\* scoreboard_init after a reset: up to the first empty slot; an entry without
\* extranonce2 is not matched by the format it is read with, and left out.
Reset ==
    /\ resets < MaxResets /\ resets' = resets + 1 /\ saves' = <<>>
    /\ LET read == {i \in 1 .. BoardSize : /\ \A j \in 1 .. i : flashBoard[j] # Empty
                                           /\ ~flashBoard[i].blank}
       IN  board' = [k \in 1 .. Cardinality(read) |-> flashBoard[Nth(read, k)]]
    /\ UNCHANGED <<flashBoard, blank, added>>
    /\ samples' = <<>> /\ reader' = NotReading /\ UNCHANGED <<clock, disorder>>

-----------------------------------------------------------------------------
(* The statistics *)

\* One turn of the search among the samples low .. high: the half of their time
\* with more samples in it is searched on; a span of two is searched no further.
Halved(s, span) ==
    LET low == span[1]
        high == span[2]
        mid == (s[low] + s[high]) \div 2
        at == CHOOSE i \in low .. high : s[i] >= mid /\ \A j \in low .. i - 1 : s[j] < mid
        split == IF at = low THEN low + 1 ELSE at
    IN  IF high - low <= 1 THEN span
        ELSE IF split - low > high - split + 1 THEN <<low, split - 1>> ELSE <<split, high>>

\* The spans of the search after each of its turns.
Search(s) ==
    LET spans[n \in 0 .. SampleCount] ==
            IF n = 0 THEN <<2, SampleCount>> ELSE Halved(s, spans[n - 1])
    IN  spans

\* indexToRemove: one of the samples that lie closest.
Densest(s) == Search(s)[SampleCount][1]

\* Mutant: the new sample overwrites the densest one in place.
Mut_Thinned(t) == [samples EXCEPT ![Densest(samples)] = t]

\* A full buffer loses its first sample once it spans the configured time;
\* before that, one where the samples lie closest.
Thinned(t) ==
    LET gone == IF t - samples[1] >= SampleCount * Frequency THEN 1 ELSE Densest(samples)
    IN  [i \in 1 .. SampleCount |->
            IF i = SampleCount THEN t ELSE IF i < gone THEN samples[i] ELSE samples[i + 1]]

\* statistics_task with statistics on: createStatisticsBuffer, addStatisticData.
AddSample ==
    /\ \E late \in {1, 2} : clock' = clock + late
    /\ clock' <= MaxClock
    /\ samples' = IF Len(samples) < SampleCount THEN Append(samples, clock') ELSE Thinned(clock')
    /\ UNCHANGED <<reader, disorder, boardVars>>

\* With statistics off: removeStatisticsBuffer.
RemoveSamples ==
    /\ samples # <<>> /\ samples' = <<>>
    /\ UNCHANGED <<clock, reader, disorder, boardVars>>

\* GET_system_statistics asks for one index after the other, without a lock
\* between them, until there is none.
ReadSample ==
    /\ IF reader.index < Len(samples)
       THEN /\ reader' = [index |-> reader.index + 1, last |-> samples[reader.index + 1]]
            /\ disorder' = (disorder \/ samples[reader.index + 1] <= reader.last)
       ELSE reader' = NotReading /\ UNCHANGED disorder
    /\ UNCHANGED <<samples, clock, boardVars>>

BoardNext == ScoreboardAdd \/ SaveSlot \/ Reset
SamplesNext == AddSample \/ RemoveSamples \/ ReadSample
RecordsNext == BoardNext \/ SamplesNext

RecordsSpec == RecordsInit /\ [][RecordsNext]_recordVars

-----------------------------------------------------------------------------
(* Properties *)

Written == {flashBoard[i] : i \in 1 .. BoardSize}
Unwritten == {saves[i].entry : i \in {j \in DOMAIN saves : saves[j].new}}

\* A reset between any two writes costs at most entries that were never written:
\* what flash holds is in order and without a gap, and an entry of the board that
\* is not new is in flash at every moment, while it moves down as well.  (An entry
\* without extranonce2 cannot be read back; from then on the slots of the board
\* and of flash differ.)
ScoreboardSurvives ==
    ~blank =>
        /\ \A i \in 1 .. BoardSize - 1 : flashBoard[i].d >= flashBoard[i + 1].d
        /\ \A i \in DOMAIN board : board[i] \in Written \cup Unwritten
        /\ \A i \in DOMAIN board :
              i < Len(board) => board[i].d >= board[i + 1].d

\* However often the samples are thinned, the buffer is in order of time, and a
\* reader that shares it with the statistics task never goes back in time.
SamplesInOrder ==
    /\ \A i \in 1 .. Len(samples) - 1 : samples[i] < samples[i + 1]
    /\ ~disorder
=============================================================================
