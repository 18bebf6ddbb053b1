--------------------------- MODULE MCCommandStore ---------------------------
(* Model values and symmetry for the checks of CommandStore.               *)
EXTENDS CommandStore, TLC

Symmetric == Permutations(Commands)
=============================================================================
