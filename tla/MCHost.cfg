CONSTANTS
  p1 = p1 p2 = p2 p3 = p3
  a = a s1 = s1 s2 = s2
  Procs = {p1, p2, p3}
  NoProc = NoProc
  Commands <- MCCommands
  MaxVersion = 2
  MaxErrors = 2
  MaxBuild = 3
  Given = Given
  Bases = {a, p1, p2, p3}
  Scopes = {s1, s2}
  Starts <- MCStarts
SPECIFICATION Spec
CHECK_DEADLOCK FALSE
INVARIANTS
  
  
  RunsStartRight
  ArtifactsAgree
  NoOrphanImages
