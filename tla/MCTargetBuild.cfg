CONSTANTS
  Processes = {p1, p2}
  BuildIds = {b1, b2}
  Builders <- MCBuilders
  Test = "test"
  Inputs = {none}
  MaxVersions = 2
  MaxRecipes = 1
  MaxAttempts = 2
  MaxCrashes = 1
  None = None
SPECIFICATION Spec
CHECK_DEADLOCK FALSE
INVARIANTS
  OneSnapshotPerContent
  SnapshotsAreSound
  NoBuildersLeft
PROPERTIES
  BuildsEnd
