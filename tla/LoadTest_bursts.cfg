CONSTANTS
    BurstStart = 2
    RateStart = 1
    MaxRetries = 2
    MaxLogs = 2
    MaxRequests = 3
    MaxEdits = 1
SPECIFICATION FairSpec
INVARIANTS  CountedOnce
PROPERTY RequestsEnd
