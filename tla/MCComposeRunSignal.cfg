CONSTANTS
  Tasks <- MCTasks
  Root = Root
  NoTask = NoTask
  Commands <- MCCommands
  Options <- MCOneWait
  Primaries = {crs}
  Helpers = {exch}
  SharedTasks <- MCShared
  Stale = FALSE
  MaxInterrupts = 1
  MaxCrashes = 0
SPECIFICATION Spec
CHECK_DEADLOCK FALSE
INVARIANT SignalRunsCleanup
