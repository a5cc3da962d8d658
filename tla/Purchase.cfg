SPECIFICATION FairSpec
CONSTANTS
  s1 = s1  s2 = s2
  Sessions = {s1, s2}
  Mismatched = {s2}
  MaxSends = 2
  MaxFailures = 1
INVARIANTS
  ProcessedIsApplied
PROPERTIES
  CreditedOnce
  PaidIsCredited
CHECK_DEADLOCK FALSE
