SPECIFICATION Spec
CONSTANTS
    Process = {p1, p2}
    plan1 = plan1
    plan2 = plan2
    Plans = {plan1, plan2}
    Supersedes <- MCSupersedes
    NoPlan = NoPlan
    Foreign = Foreign
    Malformed = Malformed
    Human = Human
    MaxCalls = 3
    MaxFaults = 2
    MaxEdits = 1
INVARIANTS RemoteIsOnRecord SuccessIsExact ClaimFollowsFiles
CHECK_DEADLOCK FALSE
