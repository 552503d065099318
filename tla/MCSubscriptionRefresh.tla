------------------------- MODULE MCSubscriptionRefresh -------------------------
(* Instances of SubscriptionRefresh for TLC. *)
EXTENDS SubscriptionRefresh, TLC

CONSTANTS e1, e2, r1
=============================================================================
