SPECIFICATION Spec
CONSTANTS
  Line = {l1}
  Version = {v1}
  Stream = {s1}
  Sequence = {1, 2}
  Process = {p1, p2}
  Stages <- Short
  Mutating <- ShortMutating
  MaxRetries = 1
  MaxOrdinal = 2
  MaxClaims = 2
  MaxFailures = 1
  MaxBlocks = 1
SYMMETRY Symmetry
INVARIANTS WriteAheadOrder OneWorker TagFollowsWalk AbandonmentEndsTheWalk
CHECK_DEADLOCK FALSE
