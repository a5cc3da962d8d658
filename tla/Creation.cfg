SPECIFICATION FairSpec
CONSTANTS
  r1 = r1  r2 = r2  r3 = r3  k1 = k1  c1 = c1  c2 = c2
  NoKey = NoKey
  Requests = {r1, r2}
  Keys = {k1}
  Contents = {c1, c2}
  Lots = {1, 2}
  LotSize = 1
  MaxTries = 2
  MaxFailures = 1
  MaxLapses = 1
INVARIANTS
  AnswersAreReal
  CreditsBalance
  RefusedWithoutCredit
CHECK_DEADLOCK FALSE
PROPERTIES
  ImplementsOnceOnly
  EveryRequestEnds
