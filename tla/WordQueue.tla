----------------------------- MODULE WordQueue ------------------------------
(***************************************************************************)
(* What the keyboard drivers get from a word ring: a queue of Cap words.   *)
(* A word that does not fit is dropped, or costs the reader every waiting  *)
(* word; while the reader is busy one word more may fit.                   *)
(***************************************************************************)
EXTENDS Naturals, Sequences

CONSTANTS
  Word,  \* the words queued
  Cap    \* the number of words that fit

VARIABLE queue

Put(w) ==
  \/ Len(queue) < Cap /\ queue' = Append(queue, w)
  \/ Len(queue) = Cap /\ queue' \in {queue, << >>, Append(queue, w)}
  \/ Len(queue) > Cap /\ queue' = << w >>

Get == queue # << >> /\ queue' = Tail(queue)

Init == queue = << >>

Next == (\E w \in Word : Put(w)) \/ Get

Spec == Init /\ [][Next]_queue

=============================================================================
