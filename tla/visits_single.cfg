SPECIFICATION FairSpec
CONSTANTS
    Null = Null
    StaleCheck = StaleCheck
    Tractor = {t1}
    Worker = {w1}
    Entry = 1
    Exit = 2
    Grace = 3
    MaxTime = 6
    MaxBatches = 2
    MaxEvents = 2
    MaxVisits = 2
    MaxFaults = 0
INVARIANTS
    ConfirmedBeforePresent
    MinimalStay
    StaysOrdered
PROPERTIES
    SeenNeverGoesBack
    StaleVisitsSettle
    DwellGrows
