----------------------- MODULE MCIdentityVerification -----------------------
(* Finite instances of IdentityVerification for TLC. *)
EXTENDS IdentityVerification, TLC

CONSTANTS s1, s2, t1

Symmetry == Permutations(Sessions)
=============================================================================
