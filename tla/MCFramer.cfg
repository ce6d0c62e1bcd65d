CONSTANTS
    Lengths = {1, 2, 4, 5}
    DefaultMax = 3
    GrownMax = 4
    MaxLines = 3
SPECIFICATION Spec
INVARIANTS TypeOK BufferFits LosesOnlyBehindCaps
PROPERTY ImplementsLineStream
CHECK_DEADLOCK FALSE
