CONSTANTS
    Calls = {c1, c2, c3}
    Ids = {1, 2}
    Threads = 2
SPECIFICATION FairSpec
INVARIANTS TypeOK NeverEmptyAtPop
PROPERTIES EliteFirst CallsAnswered
