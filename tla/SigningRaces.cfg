CONSTANTS
  ana = ana
  bruno = bruno
  r1 = r1
  r2 = r2
  r3 = r3
  NoFile = NoFile
  Signers = {ana, bruno}
  Order <- MCOrder
  Requests = {r1, r2, r3}
  FaultySteps = {}
SYMMETRY Slots
SPECIFICATION Spec
CHECK_DEADLOCK FALSE
INVARIANTS
  CountNeverAhead
  OneClaimPerSigner
  AnsweredInOrder
  OneFinalizer
  RaceInvariant
