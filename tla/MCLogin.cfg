CONSTANT MaxLines = 5
SPECIFICATION Spec
INVARIANTS TypeOK RegistersOnce ProbeState
PROPERTIES NoLateUpgrade LoginIsSent ImplementsContract
CHECK_DEADLOCK FALSE
