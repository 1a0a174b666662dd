SPECIFICATION Spec
CONSTANTS
    Null = Null
    StaleCheck = StaleCheck
    Tractor = {t1}
    Worker = {w1, w2}
    Entry = 1
    Exit = 1
    Grace = 3
    MaxTime = 0
    MaxBatches = 2
    MaxEvents = 1
    MaxVisits = 2
    MaxFaults = 0
INVARIANTS
    CompletedBatchesStored
