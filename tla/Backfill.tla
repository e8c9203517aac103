------------------------------ MODULE Backfill ------------------------------
(***************************************************************************)
(* What the forward walk of the indexer promises to whoever reads the      *)
(* database: heights are settled from the first one upwards without a gap, *)
(* and the mark is only ever put on a height below which everything is     *)
(* settled.  The mark may move back (a slot is walked again), but what is  *)
(* settled stays settled.                                                  *)
(***************************************************************************)
EXTENDS Integers

CONSTANTS First, Last  \* the first and the last height, integers

VARIABLES settled, mark

NoMark == -1

Init == settled = {} /\ mark = NoMark

\* One more height is dealt with; all those before it have been.
Settle(h) ==
  /\ First..(h - 1) \subseteq settled
  /\ settled' = settled \cup {h}
  /\ UNCHANGED mark

Promise(h) ==
  /\ First..h \subseteq settled
  /\ mark' = h
  /\ UNCHANGED settled

Next == \E h \in First..Last : Settle(h) \/ Promise(h)

Spec == Init /\ [][Next]_<<settled, mark>>
=============================================================================
