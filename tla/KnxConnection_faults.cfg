SPECIFICATION Spec
CONSTANTS
    Channel = {1, 2}
    StaleSessions = {}
    UninitBytes = {3}
    SeqMod = 2
    MaxTelegrams = 2
    MaxSends = 2
    MaxFaults = 1
CHECK_DEADLOCK FALSE
INVARIANTS SessionAgreement OwnChannel DisconnectReleases JoinedMeansClosed NoSequenceReuse TunnelInv
PROPERTIES NoCallAfterEnd
