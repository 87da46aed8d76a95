SPECIFICATION Spec
CONSTANTS
    o1 = o1
    o2 = o2
    Party = {1, 2}
    MinSigners = 2
    Encrypted = {2}
    Mnemonic = {1}
    Output = {o1, o2}
    Value <- MCValue
    Amount = {1, 4, 14}
    BaseFee = 2
    GraceActions = 2
    WeightFee = 1
    InputFee = 1
    Wrap = 16
    MaxCeremonies = 2
    MaxSpends = 3
    MaxFaults = 1
    None = None
CHECK_DEADLOCK FALSE
INVARIANTS KeysOfOneCeremony LatestLoads RecordIsSpent SuccessIsBroadcast SelectionPays
PROPERTIES NeverReselects NoFalseShortage
