SPECIFICATION FairSpec
CONSTANTS
    Null = Null
    Everywhere = Everywhere
    s1 = s1
    Station = {s1}
    Recorded = {1}
    Uploaded = {3}
    Home <- Homes
    Clip <- Clips
    Roi <- Rois
    MinArea = 1
    MinSide = 2
    MaxOpen = 2
    MaxFaults = 2
    Permits = 1
INVARIANTS
    TypeOK
    RemovedOnlyWhenStored
    RecognisedWhole
PROPERTIES
    KeepsPromise
    FilesTakenOver
