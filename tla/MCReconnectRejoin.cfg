CONSTANTS
    Rooms = {"home", "other"}
    Home = "home"
    MaxAttempts = 2
    MaxDrops = 1
    MayShutDown = FALSE
SPECIFICATION Spec
INVARIANT RejoinsEveryRoom
CHECK_DEADLOCK FALSE
