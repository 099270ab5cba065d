SPECIFICATION Spec
CONSTANTS
    Tenants = {1, 2}
    Hosts = {2, 3}
    GroupSpecs <- OneSsdGroup
    Attributes = {"ssd"}
    BidPrices = {1, 2}
    OrderTTL = 1
    InitialFunds = 2
    Vesting = {2}
    Transfers = {2}
    MaxHeight = 4
    MaxDeployments = 2
INVARIANTS
    ClosedForGood GroupStateBacked CheapestWins PaidEveryBlock ProvidersEarnTheirLeases IInv
PROPERTIES ProperSteps
