SPECIFICATION Spec
CONSTANTS
    N = 3
    Misconfigured = {}
    Browser = {}
    Running = {"FroztDkg"}
    Faulty = {}
    Corrupted = {}
    Misled = {}
    MaxDups = 0
    MaxDrops = 0
    MayFail = FALSE
INVARIANTS NoSpuriousFailure
