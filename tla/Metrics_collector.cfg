CONSTANTS
    Handlers = {h1, h2}
    Writers = {w1, w2}
    Latencies = {1, 4}
    LatencySize = 3
    RPSSize = 4
    Cap = 3
    Keep = 2
    MaxRecords = 5
SYMMETRY MCSymmetry
SPECIFICATION Spec
INVARIANTS  PercentileSplits TrendIsMeanRise HistoryKept
PROPERTY WindowSpec
