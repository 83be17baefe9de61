\* Callers that race on the same patches, give up, restarts, failing jobs.
SPECIFICATION FairSpec
CONSTANTS
  c1 = c1 c2 = c2 k1 = k1 k2 = k2 p1 = p1 p2 = p2 p3 = p3 w1 = w1 w2 = w2
  None = None
  CRSs = {c1}
  Clients = {k1, k2}
  CrsOf <- OneCrs
  Patches = {p1}
  PatchesOf <- OnePatch
  Workers = {w1, w2}
  Explicit = {2}
  FreshOnly = FALSE
  MaxRid = 2
  MaxCalls = 4
  MaxGiveUps = 1
  MaxFaults = 1
  MaxRestarts = 1
INVARIANTS OneRunPerJob SuccessNeedsARun
PROPERTIES JobsFinish
CHECK_DEADLOCK FALSE
