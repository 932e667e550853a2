CONSTANTS
    Conv = {c1, c2}
    Sender = {s1, s2}
    Reader = {r1}
    MaxLimit = 2
    DefaultLimit = 1
    Requested <- MCRequested
    MaxMessages = 3
    MaxTime = 3
SPECIFICATION FairSpec
INVARIANTS
    OnlyTiesAreSkipped
PROPERTIES
    HistoryIsKept
    AuditEnds
