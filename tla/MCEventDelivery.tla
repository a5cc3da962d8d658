-------------------------- MODULE MCEventDelivery --------------------------
(* Finite instance of EventDelivery for TLC. *)
EXTENDS EventDelivery, TLC

CONSTANTS j1, j2, n1, n2, a1, a2, k1, k2

\* Administrators and consumers are interchangeable.
ConsumerSymmetry == Permutations({a1, a2}) \cup Permutations({k1, k2})
=============================================================================
