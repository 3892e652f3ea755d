--------------------------- MODULE MCPlaybookJobs ---------------------------
(* A small instance of PlaybookJobs for TLC. *)
EXTENDS PlaybookJobs, TLC

Symmetry == Permutations(Jobs) \cup Permutations(Events) \cup Permutations(Tasks)
=============================================================================
