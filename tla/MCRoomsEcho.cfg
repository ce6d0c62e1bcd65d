CONSTANTS
    Names = {"home", "other"}
    Home = "home"
    Tasks = {1, 2}
    Echoes = TRUE
    MaxCommands = 1
    MaxLines = 0
    MaxDrops = 0
SPECIFICATION Spec
INVARIANT EchoShownOnce
CHECK_DEADLOCK FALSE
