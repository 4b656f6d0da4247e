CONSTANTS
    Agents = {a1}
    Workers = {w1, w2}
    Loop = loop
    Callers = {c1}
    NoAgent = NoAgent
    Queues = {5}
    MinWorkers = 1
    MaxWorkers = 2
    MaxScaleUpStep = 2
    MaxScaleDownStep = 2
    PrewarmWorkers = 0
    SpawnMaxRetries = 1
SPECIFICATION FairSpec
INVARIANTS OneOperation SpawnsWithinRequest
PROPERTIES OperationEnds BootstrapRecovers 
