SPECIFICATION SpecDoor
CONSTANTS
  Line = {l1}
  Version = {v1}
  Stream = {s1}
  Sequence = {1, 2}
  Attempt = {a1, a2}
  Process = {p1, p2}
  MaxClaims = 3
  Commit = {c1, c2}
  NoCommit = NoCommit
  MaxMints = 2
SYMMETRY Symmetry
VIEW View
INVARIANTS LineExclusion PassedLeaseIsFenced TakeoversAreReal MintedTagsStand OneMinterPerVersion
PROPERTIES NoRevival StableClaimsStand
CHECK_DEADLOCK FALSE
