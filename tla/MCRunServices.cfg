CONSTANTS
  c = c s1 = s1 s2 = s2
  Crs = {c}
  Services = {s1, s2}
  Owner <- MCOwner
  Features <- MCFeatures
  Repeated <- MCRepeated
  NoReport = NoReport
  Torn = Torn
  MaxUsage = 1
  MaxErrors = 1
  MaxFound = 1
  MaxRegister = 1
  MaxRuns = 2
  MaxInbox = 1
  MaxWebDowns = 1
SPECIFICATION FairSpec
CHECK_DEADLOCK FALSE
INVARIANTS
  
  SpendIsKept
PROPERTIES
  ExitsAreCounted
  ReadyComes
