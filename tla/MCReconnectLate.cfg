CONSTANTS
    Rooms = {"home"}
    Home = "home"
    MaxAttempts = 1
    MaxDrops = 1
    MayShutDown = TRUE
SPECIFICATION Spec
PROPERTY NoAttemptAfterShutdown
CHECK_DEADLOCK FALSE
