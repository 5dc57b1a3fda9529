------------------------ MODULE MCSubscriptionBilling ------------------------
(* Instances of SubscriptionBilling for TLC.                               *)
EXTENDS SubscriptionBilling, TLC

Symmetry == Permutations(Requests)
=============================================================================
