SPECIFICATION Spec
CONSTANTS
    N = 3
    Misconfigured = {2}
    Browser = {3}
    Running = {"FromtSign", "FroztSign", "Reshare", "FroztDkg"}
    Faulty = {1}
    Corrupted = {"r1", "r2", "commit", "package", "share", "meta", "hash"}
    Misled = {3}
    MaxDups = 0
    MaxDrops = 0
    MayFail = FALSE
INVARIANTS EveryPeerHeard BlameNeedsEquivocation GroupKeyChecked MetadataAgreement NoStall
