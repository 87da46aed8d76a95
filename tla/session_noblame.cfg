SPECIFICATION Spec
CONSTANTS
    N = 2
    Misconfigured = {}
    Browser = {}
    Running = {"FroztDkg", "FromtDkg", "Reshare", "FroztKeyImport",
               "FromtKeyImport", "FroztSign", "FromtSign", "KeyImage"}
    Faulty = {2}
    Corrupted = {"r1", "r2", "share"}
    Misled = {1}
    MaxDups = 0
    MaxDrops = 0
    MayFail = FALSE
INVARIANTS FailureReachesBlame
