SPECIFICATION Spec
CONSTANTS
    Coords = {"low", "high"}
    Capacity = 5
    MaxTouches = 3
    MaxStarts = 2
INVARIANTS
    TypeOK
    SeenIsReal
CHECK_DEADLOCK FALSE
