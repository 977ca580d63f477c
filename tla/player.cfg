SPECIFICATION Spec
CONSTANTS
  outer = outer
  other = other
  inner = inner
  loop = loop
  Workflow = {outer, other, inner, loop}
  Root = {outer, other}
  Unbound = Unbound
  NoWorkflow = NoWorkflow
  Steps <- MCSteps
  Old = {1, 2}
  MaxHealed = 1
  MaxAttempts = 2
  MaxPlayers = 2
  MaxRuns = 2
INVARIANT DoneWasDone
INVARIANT NothingRepeats
INVARIANT TopStepsAreSaved
CHECK_DEADLOCK FALSE
