----------------------------- MODULE MCCommands -----------------------------
(* Small instances of Commands for TLC. *)
EXTENDS Commands, TLC

Symmetry == Permutations(Requests) \cup Permutations(Commands) \cup Permutations(Keys)

=============================================================================
