----------------------------- MODULE MCProgress -----------------------------
(***************************************************************************)
(* A small instance of Progress for TLC: half days, so that a time zone    *)
(* can move an instant into the next day, and levels that four rewards     *)
(* reach, the last one included.                                           *)
(***************************************************************************)
EXTENDS Progress, TLC

\* Half a day behind UTC and half a day ahead of it.
MCZones == {-1, 1}

MCPrice == [i \in Items |-> 1]

Symmetry == Permutations(Tasks)

=============================================================================
