SPECIFICATION Spec
CONSTANTS
    Kind <- MCKind
    Amount = {0, 2, 3, 14}
    Anchor = {a1, a2}
    Height = {7}
    NU6 = 5
    NU6_1 = 9
    Half = 8
    MaxFee = 1
    MaxAdds = 5
    None = None
CHECK_DEADLOCK FALSE
INVARIANTS CompletedIsAccepted FeeBounds AlphaPerSpend
