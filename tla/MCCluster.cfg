SPECIFICATION Spec
CONSTANTS
    Leases = {l1}
    Groups = {g1, g2}
    NoGroup = NoGroup
    MaxRetries = 1
    MaxEvents = 4
    MaxCrashes = 1
    LateManifests = TRUE
INVARIANTS DeployedIsCurrent StaysDown Monitored
PROPERTIES TeardownCompletes CloseReturns
CHECK_DEADLOCK FALSE
