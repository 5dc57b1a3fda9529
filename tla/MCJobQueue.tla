----------------------------- MODULE MCJobQueue -----------------------------
(* Model-checking instances of JobQueue; processes and jobs are            *)
(* interchangeable, but for the jobs no handler is registered for.         *)
EXTENDS JobQueue, TLC

Symmetry ==
  Permutations(Processes) \cup Permutations(Unhandled) \cup Permutations(Jobs \ Unhandled)
=============================================================================
