---------------------------- MODULE JobDelivery ----------------------------
(***************************************************************************)
(* What the job queue promises for each accepted job: at most MaxAttempts  *)
(* runs of its handler, at most one of them successful, none after that,   *)
(* and a job is given up only when every attempt has failed.  A job whose  *)
(* type has no handler is given up without a run.                          *)
(***************************************************************************)
EXTENDS Naturals

CONSTANTS Jobs, Unhandled, MaxAttempts

VARIABLES fate, tries

Fates == {"unknown", "owed", "delivered", "abandoned"}

Init ==
  /\ fate = [j \in Jobs |-> "unknown"]
  /\ tries = [j \in Jobs |-> 0]

Accept(j) ==
  /\ fate[j] = "unknown"
  /\ fate' = [fate EXCEPT ![j] = "owed"]
  /\ UNCHANGED tries

Attempt(j) ==
  /\ fate[j] = "owed"
  /\ tries[j] < MaxAttempts
  /\ tries' = [tries EXCEPT ![j] = @ + 1]
  /\ \E f \in {"owed", "delivered"} : fate' = [fate EXCEPT ![j] = f]

Abandon(j) ==
  /\ fate[j] = "owed"
  /\ tries[j] = IF j \in Unhandled THEN 0 ELSE MaxAttempts
  /\ fate' = [fate EXCEPT ![j] = "abandoned"]
  /\ UNCHANGED tries

Next == \E j \in Jobs : Accept(j) \/ Attempt(j) \/ Abandon(j)

Spec == Init /\ [][Next]_<<fate, tries>>
=============================================================================
