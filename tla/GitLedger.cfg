SPECIFICATION SpecLedger
CONSTANTS
  Process = {p1, p2}
  Start = {start}
  Other = {other}
  PlanRecord = plan
  MaxRecords = 3
  MaxRounds = 3
  MaxFaults = 1
INVARIANTS PlanPrecedesWork NothingLost CacheIsHistory
PROPERTIES ImplementsLedger
