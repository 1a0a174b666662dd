SPECIFICATION FairSpec
CONSTANTS
    Null = Null
    Station = {s1}
    MaxOpen = 2
    MaxDetections = 2
    MaxFaults = 1
    MaxRetries = 2
    MaxEvents = 1
INVARIANTS
    TypeOK
    StoredInOrder
    NothingVanishes
PROPERTIES
    KeepsPromise
    DetectionsSettle
    ConsumerMovesOn
