SPECIFICATION Spec
CONSTANTS
    None = None
    LastStage = 3
    Route <- Repeating
    Dynamic = FALSE
    Complexities = {"standard"}
    Intents = {"standard"}
    Subtopics = 2
    MaxRetries = 1
    MaxIterations = 1
    AutoIterate = TRUE
    Notes = {}
    Readers = {}
    Faults = {"balance", "db", "restart"}
    MaxSignals = 0
    MaxSaves = 1
    MaxRestarts = 2
INVARIANTS
    RowIsAtStage
CHECK_DEADLOCK FALSE
