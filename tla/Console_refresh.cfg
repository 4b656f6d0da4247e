CONSTANTS
    Workers = {1, 2}
    Addrs = {1}
    Loads = {0, 3}
    FloatBelow <- MCFloatBelow
    MaxHistory = 2
    ZoomWindow = 1
    ZoomShift = 1
    DialAttempts = 2
    MaxChanges = 3
    MaxFetches = 2
SPECIFICATION FairConsoleSpec
INVARIANTS CursorsInRange ViewportCurrent AddReplacesNobody 
PROPERTY FinallyCurrent
