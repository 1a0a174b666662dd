SPECIFICATION StreamSpec
CONSTANTS
    Null = Null
    StaleCheck = StaleCheck
    Tractor = {t1, t2}
    Worker = {w1, w2}
    Entry = 1
    Exit = 1
    Grace = 3
    MaxTime = 3
    MaxBatches = 2
    MaxEvents = 2
    MaxVisits = 4
    MaxFaults = 1
SYMMETRY Interchangeable
INVARIANTS
    TypeOK
    OneOpenVisit
    DepartureBackdated
    CommittedIsAnnounced
PROPERTIES
    ClosedNeverReopens
