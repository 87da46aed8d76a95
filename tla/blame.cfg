SPECIFICATION FairSpec
CONSTANTS
    N = 3
    Faulty = {3}
    Deceived = {}
    MaxMore = 1
INVARIANTS TypeOK NoFraming ReportsBeforeBarrier TallyIsMajority
PROPERTIES BlameEnds
