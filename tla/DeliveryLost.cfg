SPECIFICATION Spec
CONSTANTS
  j1 = j1  j2 = j2  n1 = n1  n2 = n2  a1 = a1  a2 = a2  k1 = k1  k2 = k2
  Joins = {j1}
  Notices = {n1}
  Administrators = {a1}
  Consumers = {k1}
  Batch = 2
  MaxRedeliveries = 0
  Faults = {"kafka"}
INVARIANT NothingLost
CHECK_DEADLOCK FALSE
