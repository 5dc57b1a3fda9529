-------------------------- MODULE MCServiceRecord --------------------------
(* Model-checking instances of ServiceRecord: the sets are given in the    *)
(* .cfg files; jobs, technicians, request slots and lines are              *)
(* interchangeable, so the safety runs use their permutations.             *)
EXTENDS ServiceRecord, TLC

Symmetry ==
  Permutations(Records) \cup Permutations(Requests)
    \cup Permutations(Techs) \cup Permutations(Lines)
=============================================================================
