SPECIFICATION BSSpec
SYMMETRY Symmetry
CONSTANTS
  c1 = c1  c2 = c2  h1 = h1  h2 = h2
  Clicks = {c1}
  Handlers = {h1, h2}
  MaxAttempts = 2
  Told = {"IN_PROGRESS", "APPROVED", "EXPIRED"}
  Outcomes = {"APPROVED", "EXPIRED"}
  MaxTroubles = 1
INVARIANTS
  SignedIsBacked
  ApprovedIsSigned
PROPERTY
  TerminalStands
CHECK_DEADLOCK FALSE
