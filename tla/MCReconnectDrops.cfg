CONSTANTS
    Rooms = {}
    Home = "home"
    MaxAttempts = 1
    MaxDrops = 2
    MayShutDown = FALSE
SPECIFICATION Spec
INVARIANTS TypeOK ReconnectingHasLoop LossIsAnswered
CHECK_DEADLOCK FALSE
