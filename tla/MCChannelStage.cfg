SPECIFICATION FairSpec
CONSTANTS
  latest = latest
  next = next
  v1 = v1
  v2 = v2
  Hidden = Hidden
  Channel = {latest, next}
  Target = {v1, v2}
  Process = {p1, p2}
  Moves <- Promotion
  MaxOutside = 1
  MaxFaults = 1
  MaxFailures = 1
INVARIANTS RecordedMovesHappened CompletedMeansMoved
PROPERTIES ImplementsChannelStore DriftIsNotRepointed EveryStageEnds
CHECK_DEADLOCK FALSE
