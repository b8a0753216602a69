SPECIFICATION Spec
CONSTANTS
    MaxSockets = 2
    MaxAttempts = 2
    MaxPackets = 0
INVARIANT LoopStops
CHECK_DEADLOCK FALSE
