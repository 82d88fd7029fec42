----------------------------- MODULE MCTracker -----------------------------
(***************************************************************************)
(* The tracker with interchangeable users and connection threads: no       *)
(* action and no invariant of Tracker tells one user, or one thread, from  *)
(* another, so TLC needs to see only one of each set of permuted states.   *)
(***************************************************************************)
EXTENDS Tracker, TLC

Interchangeable == Permutations(User) \cup Permutations(Worker)
=============================================================================
