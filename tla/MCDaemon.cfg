SPECIFICATION DaemonSpec
CONSTANTS
    l1 = l1
    d1 = d1
    Leases = {l1}
    Deployments = {d1}
    DeploymentOf <- OfOne
    Callers = {c1}
    MaxEvents = 2
    MaxStatus = 1
INVARIANTS NothingLeftBehind
PROPERTIES OneStopsAll CallsReturn
CHECK_DEADLOCK FALSE
