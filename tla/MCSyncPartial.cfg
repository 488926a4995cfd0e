CONSTANTS
  Machines = {m1}
  Plain = plain
  key = key
  other = other
  Secrets = {key, other}
  N = 2
  Commands <- OnePush
  MaxRuns = 1
  None = None
SPECIFICATION Spec
CHECK_DEADLOCK FALSE
INVARIANT FailurePublishesNothing
