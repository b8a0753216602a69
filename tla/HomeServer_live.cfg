SPECIFICATION FairSpec
CONSTANTS
    Client = {c1, c2}
    NoClient = nobody
    FirstFd = 3
    MaxFd = 6
    FdSetSize = 7
    MaxPackets = 2
    MaxAcceptErrors = 1
CHECK_DEADLOCK FALSE
PROPERTIES PacketsReceived LeaversRemoved
