CONSTANTS
  r1 = r1
  r2 = r2
  r3 = r3
  i1 = i1
  i2 = i2
  i3 = i3
  l1 = l1
  s1 = s1
  s2 = s2
  k1 = k1
  k2 = k2
  c1 = c1
  c2 = c2
  Requests = {r1, r2}
  Invitations = {i1, i2}
  Launches = {l1}
  Sessions = {s1}
  Keys = {k1}
  Contents = {c1, c2}
  Faults = {"insert", "finish", "redis", "crash", "slow"}
SPECIFICATION Spec
SYMMETRY Symmetry
CHECK_DEADLOCK FALSE
INVARIANT OneInvitation
INVARIANT OneRunPerKey
INVARIANT AnswerIsKept
