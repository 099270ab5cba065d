SPECIFICATION Spec
CONSTANTS
    Dims = {"cpu", "memory"}
    MaxAvailable = 3
    MaxAsked = 2
    MaxInstances = 2
    MaxAllocatable = 2
    MaxNodes = 2
    FakeCapacity = 6
    MinUnit <- MCMin
    MaxUnit <- MCMax
    MaxGroup <- MCGroup
    MinUnitCount = 1
    MaxUnitCount = 2
    MaxGroupUnits = 2
    MaxGroupCount = 2
    NoName = 0
    None = None
    Word = 4
    Base = 2
    AddrLen = 1
    Long = 2
INVARIANTS
    FirstFit
    HalvesAgree
    ImportKeeps
    KeysFaithful
CHECK_DEADLOCK FALSE
