CONSTANTS
  N = 2
  Runs = {r1, r2}
  NoRun = NoRun
  Commands <- ThreeCommands
SPECIFICATION FairSpec
INVARIANTS
  MutualExclusion
  NoSessionOverlooked
  ContentionSparesOne
PROPERTIES
  LocksAreFreed
  ImplementsExclusiveRuns
