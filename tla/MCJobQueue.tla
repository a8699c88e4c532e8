----------------------------- MODULE MCJobQueue -----------------------------
(* TLC instances of JobQueue; the constants are in the MCJobQueue_*.cfg.   *)
EXTENDS JobQueue
=============================================================================
