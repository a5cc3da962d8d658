-------------------------- MODULE MCCreditPurchase --------------------------
(* Finite instances of CreditPurchase for TLC. *)
EXTENDS CreditPurchase

CONSTANTS s1, s2
=============================================================================
