CONSTANTS
  history = history
  session = session
  transcript = transcript
  note = note
  source = source
  Home = {history, session}
  Inside = {transcript}
  Kept = {note}
  Project = {source}
  Rewrites <- SurfaceOrder
  Large = {history, transcript}
  NoDir = NoDir
  MaxRuns = 3
SPECIFICATION Spec
CHECK_DEADLOCK FALSE
INVARIANTS
  NothingLost
  FailureRollsBack
  SuccessMovesAll
  FailureHasCause
