SPECIFICATION FairSpec
CONSTANTS
    N = 2
    Misconfigured = {}
    Browser = {}
    Running = {"FroztDkg"}
    Faulty = {}
    Corrupted = {}
    Misled = {}
    MaxDups = 0
    MaxDrops = 0
    MayFail = TRUE
PROPERTIES AllReturn
