CONSTANTS
  s1 = s1
  s2 = s2
  m1 = m1
  q1 = q1
  w1 = w1
  Family <- TwoGenerations
  Rollouts = {r1}
  Roots <- OneRoot
  Market = market
  Starts <- TwoStarts
  Trusts <- ProjectTrust
  MaxRuns = 2
SPECIFICATION Spec
CHECK_DEADLOCK FALSE
INVARIANTS
  SuccessMovesAll
  NoStaleBaseline
  FailureRollsBack
  DiscoverableUntilMoved
  FailureHasCause
