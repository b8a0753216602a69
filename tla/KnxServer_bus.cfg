SPECIFICATION Spec
CONSTANTS
    Client = {c1, c2}
    Nobody = nobody
    MaxTelegrams = 2
    MaxPackets = 1
CHECK_DEADLOCK FALSE
INVARIANTS SentToBus
