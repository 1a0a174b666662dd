SPECIFICATION Spec
CONSTANTS
    Null = Null
    StaleCheck = StaleCheck
    Tractor = {t1}
    Worker = {w1}
    Entry = 1
    Exit = 1
    Grace = 3
    MaxTime = 4
    MaxBatches = 1
    MaxEvents = 1
    MaxVisits = 1
    MaxFaults = 0
PROPERTIES
    DetectionOpensVisit
