------------------------ MODULE MCBiometricSignature ------------------------
(* Finite instances of BiometricSignature for TLC. *)
EXTENDS BiometricSignature, TLC

CONSTANTS c1, c2, h1, h2

Symmetry == Permutations(Clicks) \cup Permutations(Handlers)
=============================================================================
