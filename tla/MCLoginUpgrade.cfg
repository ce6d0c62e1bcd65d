CONSTANT MaxLines = 2
SPECIFICATION Spec
INVARIANT LoginWaitsForSecondCaps
CHECK_DEADLOCK FALSE
