CONSTANTS
    Tags = {1, 2, 3}
    Register = 0
    Recorded <- MCRecorded
    Tips = {c1, c2}
    Older <- MCOlder
    Others <- MCOthers
    NoCommit = NoCommit
    MaxCalls = 2
    MaxEdits = 2
    MaxFaults = 1
    Publishers = {p1, p2}
    Released = 1
    PerPage = 2
    c1 = c1
    c2 = c2
    a = a
    b = b
    x = x
SPECIFICATION Spec
INVARIANTS SyncReportsTrue OkMeansPublished AbsenceIsObserved ReconcileReportsTrue
CHECK_DEADLOCK FALSE
