---------------------------- MODULE MCSigningFlow ----------------------------
(* Instances of SigningFlow for TLC. *)
EXTENDS SigningFlow, TLC

CONSTANTS ana, bruno, r1, r2, r3

MCOrder == [s \in Signers |-> IF s = ana THEN 0 ELSE 1]
Slots == Permutations(Requests)
=============================================================================
