SPECIFICATION Spec
CONSTANTS
    l1 = l1
    l2 = l2
    None = None
    Leases <- TwoLeases
    Groups <- ThreeGroups
    MaxCalls = 3
SYMMETRY Symmetry
INVARIANTS
    DeployComplete
    ManifestFirst
    CheckExact
CHECK_DEADLOCK FALSE
