CONSTANTS
  r1 = r1
  r2 = r2
  r3 = r3
  g1 = g1
  g2 = g2
  p1 = p1
  NoWrite = NoWrite
  Requests = {r1, r2}
  Guest = {g1, g2}
  Public = {p1}
  MaxCodes = 2
  Faults = {"revoke", "crash"}
SPECIFICATION Spec
CHECK_DEADLOCK FALSE
INVARIANT ConsumedBySigning
INVARIANT SignedAsHimself
INVARIANT AccessesArePaid
