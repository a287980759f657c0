SPECIFICATION Spec
CONSTANTS
    MaxCalls = 2
    FullAccess = {1}
    MaxFaults = 1
INVARIANTS ToldTheTruth UncertainStopsRun
PROPERTIES CancelledRunEnds DeviceStops
CHECK_DEADLOCK FALSE
