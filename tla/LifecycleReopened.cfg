SPECIFICATION DLSpec
CONSTANTS
  s1 = s1  s2 = s2  s3 = s3  c1 = c1  c2 = c2  c3 = c3  v1 = v1  v2 = v2  f1 = f1  f2 = f2
  Signers = {s1, s2}
  CreatorRequests = {c1, c2, c3}
  ReviewerRequests = {v1, v2}
  ConfirmerRequests = {f1, f2}
  Mishaps = {}
PROPERTY ClosedStaysClosed
CHECK_DEADLOCK FALSE
