------------------------------- MODULE BapLine -------------------------------
(***************************************************************************)
(* uart_receive_task of bap_uart.c and the filter at the start of          *)
(* BAP_parse_message: how commands are cut out of the bytes on the line.   *)
(***************************************************************************)
EXTENDS Integers, Sequences

CONSTANTS
    MaxMessage,  \* BAP_MAX_MESSAGE_LEN; the array has one byte more
    MaxBytesIn   \* bound: bytes on the line

VARIABLES
    message,      \* message and message_len
    inMessage,    \* in_message
    lastMessage,  \* last_processed_message
    topByte,      \* history: the highest index of message written
    bytesIn       \* history, for the bound

lineVars == <<message, inMessage, lastMessage, topByte, bytesIn>>

Bytes == {"$", "a", "CR", "LF"}

LineInit ==
    /\ message = <<>> /\ inMessage = FALSE /\ lastMessage = <<>> /\ topByte = 0
    /\ bytesIn = 0

\* BAP_parse_message leaves out what it handled less than a second ago, byte for
\* byte; last_processed_message has room for one byte less.
Parse(m, soon) ==
    lastMessage' = IF m = lastMessage /\ soon THEN lastMessage ELSE SubSeq(m, 1, MaxMessage - 1)

BeginMessage ==
    /\ message' = <<"$">> /\ inMessage' = TRUE
    /\ topByte' = topByte /\ UNCHANGED lastMessage

\* A line end completes a message of at least two bytes, if it is not too long.
\* It is added and followed by a zero.  Only a line feed leaves the message.
EndLine(c) ==
    \/ /\ Len(message) \in 2 .. MaxMessage - 1
       /\ message' = Append(message, c) /\ inMessage' = (c = "CR")
       /\ topByte' = IF Len(message) + 1 > topByte THEN Len(message) + 1 ELSE topByte
       /\ \E soon \in BOOLEAN : Parse(message', soon)
    \/ /\ Len(message) >= MaxMessage /\ inMessage' = FALSE
       /\ UNCHANGED <<message, lastMessage, topByte>>
    \/ /\ Len(message) < 2
       /\ UNCHANGED <<message, inMessage, lastMessage, topByte>>

\* Mutant: the limit counts the closing byte's room as free.
Mut_AddByte(c) ==
    /\ message' = IF Len(message) <= MaxMessage THEN Append(message, c) ELSE message
    /\ topByte' = IF Len(message') - 1 > topByte THEN Len(message') - 1 ELSE topByte
    /\ UNCHANGED <<inMessage, lastMessage>>

AddByte(c) ==
    /\ message' = IF Len(message) < MaxMessage THEN Append(message, c) ELSE message
    /\ topByte' = IF Len(message') - 1 > topByte THEN Len(message') - 1 ELSE topByte
    /\ UNCHANGED <<inMessage, lastMessage>>

SkipByte == UNCHANGED <<message, inMessage, lastMessage, topByte>>

LineNext ==
    /\ bytesIn < MaxBytesIn /\ bytesIn' = bytesIn + 1
    /\ \E c \in Bytes :
          \/ c = "$" /\ BeginMessage
          \/ c \in {"CR", "LF"} /\ inMessage /\ EndLine(c)
          \/ c = "a" /\ inMessage /\ AddByte(c)
          \/ c # "$" /\ ~inMessage /\ SkipByte

LineSpec == LineInit /\ [][LineNext]_lineVars

-----------------------------------------------------------------------------
\* No byte is written past the array, the closing zero included, and the task is
\* in a message only with a "$" at its start.
LineFits ==
    /\ topByte <= MaxMessage /\ Len(message) <= MaxMessage
    /\ inMessage => message # <<>> /\ message[1] = "$"

=============================================================================
