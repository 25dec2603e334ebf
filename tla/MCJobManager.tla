---------------------------- MODULE MCJobManager ----------------------------
(* JobManager for TLC.  Ids and threads are interchangeable.               *)
EXTENDS JobManager, TLC

Symmetry == Permutations(Jobs) \cup Permutations(Threads)
=============================================================================
