CONSTANTS
  v1 = v1
  v2 = v2
  Last = bruno
  Signers = {ana, bruno}
  Visitors = {v1, v2}
  Finalizer = finalizer
  Faults = {"sat", "provider", "mark"}
SPECIFICATION FairSpec
CHECK_DEADLOCK FALSE
INVARIANTS
  SealedAreProven
  NothingForgotten
PROPERTY Settles
