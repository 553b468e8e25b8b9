----------------------------- MODULE MCRewards -----------------------------
(***************************************************************************)
(* Small instances of Rewards for TLC: the focus and task rules with the   *)
(* shop closed, and the shop with one task and one session to earn from.   *)
(***************************************************************************)
EXTENDS Rewards, TLC

\* The catalogue's prices, scaled with StartCoins (50) and the awards (5, 10).
MCPrice == [i \in Items |-> IF i \in Themes THEN 8 ELSE 6]

Symmetry == Permutations(Tasks) \cup Permutations(Sessions)

RewardSymmetry == Permutations(RewardIds)

=============================================================================
