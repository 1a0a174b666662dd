SPECIFICATION FairSpec
CONSTANTS
    Background = Background
    Video = {v1}
    Sentinel = {}
    Ticker = {loop}
    MaxRetry = 1
    Permits = 2
    MaxFaults = 0
PROPERTIES
    ExhaustedBecomesInvalid
