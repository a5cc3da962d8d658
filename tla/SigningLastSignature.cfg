CONSTANTS
  ana = ana
  bruno = bruno
  r1 = r1
  r2 = r2
  r3 = r3
  NoFile = NoFile
  Signers = {ana, bruno}
  Order <- MCOrder
  Requests = {r1, r2}
  FaultySteps = {}
SPECIFICATION FairSpec
CHECK_DEADLOCK FALSE
PROPERTIES
  LastSignatureCompletes
