SPECIFICATION FairSpec
CONSTANTS
    Channel = {1, 2}
    StaleSessions = {2}
    UninitBytes = {3}
    SeqMod = 2
    MaxTelegrams = 2
    MaxSends = 1
    MaxFaults = 0
CHECK_DEADLOCK FALSE
PROPERTIES SessionSpec ConnectReturned DisconnectCompletes
