SPECIFICATION Spec
CONSTANTS
    Client = {c1, c2, c3}
    NoClient = nobody
    FirstFd = 3
    MaxFd = 6
    FdSetSize = 6
    MaxPackets = 1
    MaxAcceptErrors = 1
SYMMETRY Symmetry
INVARIANTS SelectCoversAll HostsOwnSockets ReadsDoNotBlock WalkSkipsNobody HomeInv
PROPERTY ListSpec
CHECK_DEADLOCK FALSE
