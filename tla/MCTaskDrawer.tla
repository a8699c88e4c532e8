---------------------------- MODULE MCTaskDrawer ----------------------------
(* The TLC instance of TaskDrawer in MCTaskDrawer_stale.cfg; its passing       *)
(* properties are checked in MCPlatform.                                       *)
EXTENDS TaskDrawer

\* An accepted edit leaves alone what its user did not touch: "The optimistic
\* expectedVersion contract rejects stale drawers" (docs/decisions.md:159).
StaleRefused ==
    \A r \in wire : (r.i = "edit" /\ \E m \in log'.made \ log.made : m.k = r.k) =>
        \A f \in Fields \ r.edit.touched : task'.val[f] = task.val[f]

\* It is not refused: the form sends the version that was read last, not the one it
\* was opened with, and its selects keep what they showed first.
StaleEditsRefused == [][StaleRefused]_vars
=============================================================================
