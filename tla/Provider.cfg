CONSTANTS
    MaxLaunches = 2
    MaxCrashes = 1
    MaxKills = 1
    MaxStops = 1
SPECIFICATION Spec
INVARIANT OneActivation StrangersAreSafe AcceptedIsReal ReceiptMeansEnded
PROPERTY ReceiptIsFinal ReceiptAppears
CHECK_DEADLOCK FALSE
