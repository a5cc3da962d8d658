----------------------- MODULE MCSubscriptionBilling -----------------------
(* Instances of SubscriptionBilling for TLC. *)
EXTENDS SubscriptionBilling

CONSTANTS s1, s2, f1
=============================================================================
