CONSTANTS
  ana = ana
  bruno = bruno
  r1 = r1
  r2 = r2
  r3 = r3
  NoFile = NoFile
  Signers = {ana, bruno}
  Order <- MCOrder
  Requests = {r1, r2}
  FaultySteps = {"claimed", "stamping", "hashing", "attaching", "finishing", "completed", "counting", "previewing", "saving", "announcing", "watermarking", "rejecting"}
SPECIFICATION FairSpec
CHECK_DEADLOCK FALSE
INVARIANTS
  SignedIsComplete
  AnnouncedIsRecorded
  OneFinalizer
PROPERTIES
  EvidenceIsKept
  ImplementsContract
  SequentialCompletes
