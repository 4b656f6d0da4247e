CONSTANTS
    w1 = w1
    w2 = w2
    a = a
    b = b
    Requests = {r1}
    Instances = {w1, w2}
    Ids = {a}
    IdOf <- SameId
    NoWorker = NoWorker
    Drainers = {d1}
    Strategies = {"least"}
    MaxActive = 1
    MaxAttempts = 1
    MaxRounds = 1
SPECIFICATION FairSpec
CONSTRAINT InOrder
INVARIANT DrainedGone
PROPERTIES  DrainEnds CrashDetected
