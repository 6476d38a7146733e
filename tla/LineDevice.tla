----------------------------- MODULE LineDevice -----------------------------
(* What the console promises (kernel/console.c, kernel/uart.c): typed      *)
(* characters can be erased until their line is ready, lines are read in   *)
(* the order typed, and what is written is sent in the order written.      *)
EXTENDS Naturals, Sequences, SequencesExt

CONSTANTS INPUT_BUF_SIZE, UART_TX_BUF_SIZE,
          Chars, LineEnds, OutChars

VARIABLES edit, ready, out

Init == edit = <<>> /\ ready = <<>> /\ out = <<>>

Type == \E c \in Chars :
    /\ Len(edit \o ready) < INPUT_BUF_SIZE
    /\ IF c \in LineEnds \/ Len(edit \o ready) + 1 = INPUT_BUF_SIZE
       THEN edit' = <<>> /\ ready' = Append(ready \o edit, c)
       ELSE edit' = Append(edit, c) /\ UNCHANGED ready
    /\ UNCHANGED out

Erase == edit # <<>> /\ edit' \in {<<>>, Front(edit)} /\ UNCHANGED <<ready, out>>
Take == ready # <<>> /\ ready' = Tail(ready) /\ UNCHANGED <<edit, out>>
Put == /\ Len(out) < UART_TX_BUF_SIZE
       /\ \E o \in OutChars : out' = Append(out, o)
       /\ UNCHANGED <<edit, ready>>
Send == out # <<>> /\ out' = Tail(out) /\ UNCHANGED <<edit, ready>>

Next == Type \/ Erase \/ Take \/ Put \/ Send

Spec == Init /\ [][Next]_<<edit, ready, out>>

=============================================================================
