CONSTANTS
  s1 = s1
  s2 = s2
  m1 = m1
  q1 = q1
  w1 = w1
  Family <- OneGeneration
  Rollouts = {r1}
  Roots <- OneRoot
  Market = market
  Starts <- OneStart
  Trusts <- NestedTrust
  MaxRuns = 1
SPECIFICATION Spec
CHECK_DEADLOCK FALSE
INVARIANT TrustKeepsItsPath
