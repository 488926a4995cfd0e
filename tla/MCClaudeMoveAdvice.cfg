CONSTANTS
  history = history
  session = session
  transcript = transcript
  note = note
  source = source
  Home = {history, session}
  Inside = {transcript}
  Kept = {note}
  Project = {source}
  Rewrites <- SurfaceOrder
  Large = {history, transcript}
  NoDir = NoDir
  MaxRuns = 2
SPECIFICATION AdvisedSpec
CHECK_DEADLOCK FALSE
INVARIANT DeletingDestinationIsSafe
