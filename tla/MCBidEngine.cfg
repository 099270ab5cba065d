SPECIFICATION Spec
CONSTANTS
    o1 = o1
    o2 = o2
    OrderSeq <- MCOrders
    GroupOf <- OneGroup
    Existing = {o1, o2}
    InDoubt = TRUE
    MaxEvents = 3
    MaxCrowded = 2
INVARIANTS ReservationsAccounted LeaseWonSound
PROPERTIES LeaseAnnounced MonitorsEnd
CHECK_DEADLOCK FALSE
