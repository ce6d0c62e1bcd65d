CONSTANTS
    Names = {"home", "other"}
    Home = "home"
    Tasks = {1, 2}
    Echoes = TRUE
    MaxCommands = 2
    MaxLines = 1
    MaxDrops = 1
SPECIFICATION Spec
INVARIANTS TypeOK TabsAreBoxes UnreadInBackground
PROPERTIES LiveIsReplay TranscriptOnlyGrows OwnLineAppears
CHECK_DEADLOCK FALSE
