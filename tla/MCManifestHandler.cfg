SPECIFICATION Spec
CONSTANTS
    l1 = l1
    l2 = l2
    d1 = d1
    Leases <- TwoLeases
    Deployments = {d1}
    DeploymentOf <- OfTwo
    Callers = {c1}
    MaxEvents = 5
INVARIANTS HoldsActive PanicsOnlyIfTwice
CHECK_DEADLOCK FALSE
