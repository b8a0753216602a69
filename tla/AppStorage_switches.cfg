SPECIFICATION MCSpec
CONSTANTS
    Device = {1, 3}
    Container = {2, 3, 4}
    MaxFailures = 1
INVARIANTS TypeOK ShownIsStored OneRowEach TouchTurns TreeShown EditConsistent
CHECK_DEADLOCK FALSE
