CONSTANTS
  s1 = s1
  s2 = s2
  f1 = f1
  None = None
  Subs = {s1}
  Folios = {f1}
  MaxPeriods = 2
  MaxPending = 2
  MaxFailures = 1
SPECIFICATION SBSpec
CHECK_DEADLOCK FALSE
PROPERTIES NotResurrected
