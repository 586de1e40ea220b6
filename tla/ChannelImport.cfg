CONSTANTS
    n1 = n1
    n2 = n2
    n3 = n3
    NoNet = NoNet
    Nets <- MCNets
    Setups <- MCSetups
    MaxChanges = 5
SPECIFICATION MCSpec
INVARIANTS
    ReloadExact
    RefreshComplete
    ServicesRight
    DistancesKept
PROPERTY Progress
