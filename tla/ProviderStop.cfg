CONSTANTS
    MaxLaunches = 1
    MaxCrashes = 0
    MaxKills = 0
    MaxStops = 1
SPECIFICATION Spec
INVARIANT StoppedMeansStopped
CHECK_DEADLOCK FALSE
