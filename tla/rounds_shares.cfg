SPECIFICATION Spec
CONSTANTS
    Party = {1, 2, 3}
    Kind = {"froztSign"}
    Inputs = 1
    MaxStops = 0
CHECK_DEADLOCK FALSE
INVARIANTS SignersSucceed
