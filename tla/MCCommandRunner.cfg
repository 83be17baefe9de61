CONSTANT Commands <- MCCommands
SPECIFICATION Spec
CHECK_DEADLOCK FALSE
INVARIANTS
  ResultsAreTrue
  NoProcessLeft
PROPERTIES
  PromiseKept
  StopsEnd
