SPECIFICATION Spec
CONSTANTS
    Leases = {l1, l2}
    Requests = {r1, r2, r3}
    Matching = {r1, r2}
    None = None
    MaxUpdates = 2
    MaxLeases = 2
INVARIANTS AnsweredOnce Paired
PROPERTY RequestAnswered
CHECK_DEADLOCK FALSE
