----------------------------- MODULE MCJobQueue -----------------------------
(* Instances of JobQueue for TLC.                                          *)
EXTENDS JobQueue, TLC

QueueSymmetry == Permutations(Jobs) \cup Permutations(Workers)
=============================================================================
