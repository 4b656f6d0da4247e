CONSTANTS
    w1 = w1
    w2 = w2
    a = a
    b = b
    Requests = {r1, r2}
    Instances = {w1, w2}
    Ids = {a, b}
    IdOf <- TwoIds
    NoWorker = NoWorker
    Drainers = {}
    Strategies = {"least", "roundrobin"}
    MaxActive = 1
    MaxAttempts = 2
    MaxRounds = 2
SPECIFICATION Spec
SYMMETRY RoutingSymmetry
INVARIANTS ActiveLedger InFlightLedger
 
