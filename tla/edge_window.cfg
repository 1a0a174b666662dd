SPECIFICATION Spec
CONSTANTS
    Null = Null
    Station = {s1}
    MaxOpen = 2
    MaxDetections = 2
    MaxFaults = 0
    MaxRetries = 2
    MaxEvents = 2
PROPERTIES
    WindowNeverShrinks
