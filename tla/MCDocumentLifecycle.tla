------------------------ MODULE MCDocumentLifecycle ------------------------
(* Finite instance of DocumentLifecycle for TLC. *)
EXTENDS DocumentLifecycle, TLC

CONSTANTS s1, s2, s3, c1, c2, c3, v1, v2, f1, f2

\* Requests of one role do the same things.
RoleSymmetry == Permutations({s1, s2, s3}) \cup Permutations({c1, c2, c3})
                \cup Permutations({v1, v2}) \cup Permutations({f1, f2})
=============================================================================
