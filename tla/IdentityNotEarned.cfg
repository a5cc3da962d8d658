SPECIFICATION Spec
SYMMETRY Symmetry
CONSTANTS
  s1 = s1  s2 = s2  t1 = t1
  Sessions = {s1,s2}
  Tabs = {t1}
  None = None
  Outcomes = {"APPROVED", "EXPIRED"}
  MaxPending = 2
  MaxAllowed = 2
  MaxAttempts = 2
  MaxTroubles = 1
INVARIANT CredentialIsEarned
CHECK_DEADLOCK FALSE
