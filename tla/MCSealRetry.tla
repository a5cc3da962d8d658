---------------------------- MODULE MCSealRetry ----------------------------
(* Instances of SealRetry for TLC. *)
EXTENDS SealRetry

CONSTANTS v1, v2
=============================================================================
