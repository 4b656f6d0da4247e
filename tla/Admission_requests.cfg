CONSTANTS
    Requests = {r1, r2}
    PerWorker = 1
    MaxQueueSize = 1
    EliteBurstSlots = 1
    ProBurstSlots = 0
    MaxHealthy = 1
SPECIFICATION FairSpec
INVARIANTS SlotLedger QueueLedger FreeWithinLimit
PROPERTY AdmitReturns ServiceSpec
