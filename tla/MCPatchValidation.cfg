\* Callers that keep to themselves: one call at a time in each CRS, patches of
\* their own, no call given up, and no rebuild id asked for twice.
SPECIFICATION ValidationSpec
CONSTANTS
  c1 = c1 c2 = c2 k1 = k1 k2 = k2 p1 = p1 p2 = p2 p3 = p3 w1 = w1 w2 = w2
  None = None
  CRSs = {c1, c2}
  Clients = {k1, k2}
  CrsOf <- OwnCrs
  Patches = {p1, p2, p3}
  PatchesOf <- OwnPatches
  Workers = {w1, w2}
  Explicit = {2}
  FreshOnly = TRUE
  MaxRid = 3
  MaxCalls = 3
  MaxGiveUps = 0
  MaxFaults = 0
  MaxRestarts = 1
  Fixes = {p1, p3}
  MaxReads = 1
  MaxReadFaults = 1
INVARIANTS RebuildIdNamesBuild VerdictsAreTrue DownloadsAreWhole
CHECK_DEADLOCK FALSE
