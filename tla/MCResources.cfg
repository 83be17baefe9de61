CONSTANTS
  r1 = r1 r2 = r2
  NumCrs = 2
  NameRank <- MCNameRank
  Runs = {r1, r2}
  RunIdOf <- MCRunIdOf
  Templates <- MCTemplates
  Pools <- MCPools
  Memories <- MCMemories
  Gb16 = 6
  MaxErrors = 2
SPECIFICATION ResourceSpec
CHECK_DEADLOCK FALSE
INVARIANTS
  AllocationIsSound
  LimitsInForce
  NoGroupIsLeft
