SPECIFICATION SpecOrdinals
CONSTANTS
  Caller = {p1, p2}
  MaxRounds = 3
  MaxCalls = 3
  MaxFaults = 1
INVARIANTS OrdinalsUnique OrdinalsFollowTime ExhaustionIsContention
CHECK_DEADLOCK FALSE
