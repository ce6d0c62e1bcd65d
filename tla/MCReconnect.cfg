CONSTANTS
    Rooms = {"home", "other"}
    Home = "home"
    MaxAttempts = 1
    MaxDrops = 1
    MayShutDown = TRUE
SPECIFICATION Spec
PROPERTIES ReconnectEnds InertWhenDown
CHECK_DEADLOCK FALSE
