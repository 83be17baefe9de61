CONSTANTS
  Tasks <- MCTasks
  Root = Root
  NoTask = NoTask
  Commands <- MCCommands
  Options <- MCOptions
  Primaries = {crs}
  Helpers = {exch}
  SharedTasks <- MCShared
  Stale = TRUE
  MaxInterrupts = 1
  MaxCrashes = 1
SPECIFICATION Spec
CHECK_DEADLOCK FALSE
INVARIANTS
  
  CleanupComplete
  NothingLeftRunning

  
