--------------------------- MODULE MCPublicSigning ---------------------------
(* The instances of PublicSigning that TLC checks. *)
EXTENDS PublicSigning, TLC

CONSTANTS r1, r2, r3, i1, i2, i3, l1, s1, s2, k1, k2, c1, c2

Symmetry == Permutations(Requests) \cup Permutations(Invitations)
            \cup Permutations(Contents)
=============================================================================
