SPECIFICATION Spec
CONSTANTS
    ServerSigned = TRUE
    AppSigned = TRUE
    Sample = {1, 2, 128, 129, 255}
    NoObject = NoObject
CHECK_DEADLOCK FALSE
INVARIANTS OnlyKnxForwarded
