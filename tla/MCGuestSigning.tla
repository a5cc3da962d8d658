--------------------------- MODULE MCGuestSigning ---------------------------
(* The instances of GuestSigning that TLC checks. *)
EXTENDS GuestSigning, TLC

CONSTANTS r1, r2, r3, g1, g2, p1

Symmetry == Permutations(Requests) \cup Permutations(Guest)
=============================================================================
