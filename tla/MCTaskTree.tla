----------------------------- MODULE MCTaskTree -----------------------------
(* TLC instances of TaskTree; the constants are in the MCTaskTree_*.cfg.   *)
EXTENDS TaskTree, TLC

Symmetry == Permutations(Slots) \cup Permutations(Scopes)
            \cup Permutations(Existing) \cup Permutations(Tasks \ Existing)
=============================================================================
