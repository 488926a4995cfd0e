CONSTANTS
  Machines = {m1, m2}
  Plain = plain
  key = key
  other = other
  Secrets = {key, other}
  N = 2
  Commands <- AllCommands
  MaxRuns = 2
  None = None
SPECIFICATION Spec
CHECK_DEADLOCK FALSE
INVARIANTS
  SuccessPublishes
  RefusalPublishesNothing
  PullImportsWhatItShowed
  NothingLeftOpen
PROPERTY NoBlindReplacement
