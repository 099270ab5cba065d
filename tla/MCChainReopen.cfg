SPECIFICATION Spec
CONSTANTS
    Tenants = {1}
    Hosts = {2, 3}
    GroupSpecs <- OneGroup
    Attributes = {}
    BidPrices = {1, 2}
    OrderTTL = 1
    InitialFunds = 3
    Vesting = {}
    Transfers = {}
    MaxHeight = 6
    MaxDeployments = 1
PROPERTIES NoOrderWhileLeased
