------------------------------ MODULE Channel ------------------------------
(***************************************************************************)
(* What a queue between one producer and one consumer promises: values     *)
(* come out in the order in which they went in, none twice, none invented, *)
(* and the channel may be closed once its producer has no more to send.    *)
(***************************************************************************)
EXTENDS Naturals, Sequences

VARIABLES
  buffer,   \* sent, not taken yet
  taken,    \* how many values the consumer took
  last,     \* the last value it took, 0 before the first
  closed    \* the producer sends no more

vars == <<buffer, taken, last, closed>>

Init ==
  /\ buffer = << >>
  /\ taken = 0
  /\ last = 0
  /\ closed = FALSE

\* The values are numbered in the order in which they are sent.
Send ==
  /\ ~closed
  /\ buffer' = Append(buffer, taken + Len(buffer) + 1)
  /\ UNCHANGED <<taken, last, closed>>

Take ==
  /\ buffer # << >>
  /\ last' = Head(buffer)
  /\ buffer' = Tail(buffer)
  /\ taken' = taken + 1
  /\ UNCHANGED closed

Close ==
  /\ closed' = TRUE
  /\ UNCHANGED <<buffer, taken, last>>

Next == Send \/ Take \/ Close

Spec == Init /\ [][Next]_vars
=============================================================================
