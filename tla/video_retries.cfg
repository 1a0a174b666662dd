SPECIFICATION FairSpec
CONSTANTS
    Background = Background
    Video = {v1, e1}
    Sentinel = {e1}
    Ticker = {loop}
    MaxRetry = 2
    Permits = 1
    MaxFaults = 2
PROPERTIES
    NoVideoForgotten
    PassesEnd
