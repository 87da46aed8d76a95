SPECIFICATION Spec
CONSTANTS
    Party = {1, 2, 3}
    Kind <- MCKind
    Inputs = 2
    MaxStops = 1
CHECK_DEADLOCK FALSE
INVARIANTS BarriersPreventReplays EveryPeerCollected ScriptsMatch SharesAgree
