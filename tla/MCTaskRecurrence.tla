------------------------- MODULE MCTaskRecurrence -------------------------
(* TLC instances of TaskRecurrence; the constants are in the cfg files.    *)
EXTENDS TaskRecurrence, TLC

Symmetry == Permutations(Slots)
=============================================================================
