CONSTANTS
    n1 = n1
    n2 = n2
    Nets <- MCNets
    Setups <- MCSetups
    MaxChanges = 4
SPECIFICATION MCSpec
INVARIANTS
    ExportComplete
    LimitExact
    ExportSound
PROPERTIES
    ReceiversExact
    Progress
