CONSTANTS
  v1 = v1
  v2 = v2
  Last = bruno
  Signers = {ana, bruno}
  Visitors = {v1}
  Finalizer = finalizer
  Faults = {}
SPECIFICATION Spec
CHECK_DEADLOCK FALSE
INVARIANT SameVisitSeals
