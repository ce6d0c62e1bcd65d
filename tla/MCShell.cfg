CONSTANTS
    MaxModels = 2
    MaxTroubles = 2
    AnnouncesList = TRUE
    MaxRequests = 2
SPECIFICATION Spec
INVARIANTS ShellTypeOK CanvasNeverDangles OneStrip DownIsOffline IndicatorIsTrue AnswersAreWhole ListIsOfModel WedgedOnlyByLoss
PROPERTY RequestEnds
CHECK_DEADLOCK FALSE
