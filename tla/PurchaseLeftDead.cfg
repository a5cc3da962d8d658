SPECIFICATION Spec
CONSTANTS
  s1 = s1  s2 = s2
  Sessions = {s1, s2}
  Mismatched = {s2}
  MaxSends = 2
  MaxFailures = 1
INVARIANT NeverLeftDead
CHECK_DEADLOCK FALSE
