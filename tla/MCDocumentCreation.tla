------------------------- MODULE MCDocumentCreation -------------------------
(* Finite instance of DocumentCreation for TLC. *)
EXTENDS DocumentCreation

CONSTANTS r1, r2, r3, k1, c1, c2
=============================================================================
