SPECIFICATION FairSpec
CONSTANTS
    N = 2
    Misconfigured = {}
    Browser = {2}
    Running = {"FroztDkg", "FromtDkg", "Reshare", "FroztKeyImport",
               "FromtKeyImport", "FroztSign", "FromtSign", "KeyImage"}
    Faulty = {}
    Corrupted = {}
    Misled = {}
    MaxDups = 1
    MaxDrops = 1
    MayFail = TRUE
INVARIANTS TypeOK NoStall NoSpuriousFailure
PROPERTIES AllSucceed
