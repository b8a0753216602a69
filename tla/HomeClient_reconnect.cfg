SPECIFICATION Spec
CONSTANTS
    MaxSockets = 1
    MaxAttempts = 2
    MaxPackets = 1
INVARIANTS TypeOK LoopStopsInTime SslUsedWhileAlive WayBack AlertConsistent
PROPERTY LossNoticed
CHECK_DEADLOCK FALSE
