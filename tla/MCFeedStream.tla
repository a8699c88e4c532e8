---------------------------- MODULE MCFeedStream ----------------------------
(* TLC instances of FeedStream; the constants are in the MCFeedStream_*.cfg. *)
EXTENDS FeedStream, TLC

\* Users, tasks and request slots are interchangeable.
Symmetry == Permutations(Users) \cup Permutations(Tasks) \cup Permutations(Slots)
=============================================================================
