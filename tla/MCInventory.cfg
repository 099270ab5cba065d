SPECIFICATION Spec
CONSTANTS
    Dims = {"cpu", "memory"}
    Orders = {1, 2}
    Resources <- MCResources
    Capacity <- MCCapacity
    MaxEvents = 2
INVARIANTS OvercommitOnlyIfUnseen
PROPERTIES MarkedAsReported
CHECK_DEADLOCK FALSE
