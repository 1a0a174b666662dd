SPECIFICATION BudgetSpec
CONSTANTS
    Background = Background
    Video = {v1}
    Sentinel = {}
    Ticker = {loop, admin}
    MaxRetry = 2
    Permits = 2
    MaxFaults = 1
SYMMETRY Interchangeable
INVARIANTS
    TypeOK
    NoOrphanedProcessing
    FileWhereRecorded
    BudgetRespected
