SPECIFICATION FairSpec
CONSTANTS
    Client = {c1, c2, c3}
    Nobody = nobody
    MaxTelegrams = 2
    MaxPackets = 1
CHECK_DEADLOCK FALSE
INVARIANTS TypeOK NoCallOnDestroyed ForwardedUnlessRemoved WalkOnList DataWhole
PROPERTIES ShutdownCompletes
