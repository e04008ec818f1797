SPECIFICATION FairSpec
CONSTANTS
  Line = {l1}
  Version = {v1}
  Stream = {s1}
  Sequence = {1, 2}
  Attempt = {a1, a2}
  Process = {p1, p2}
  MaxClaims = 2
  MaxFaults = 1
PROPERTIES ImplementsClaimStore EveryCallReturns
