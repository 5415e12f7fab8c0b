SPECIFICATION Spec
CONSTANTS
    None = None
    LastStage = 3
    Route <- Forward
    Dynamic = TRUE
    Complexities = {"standard"}
    Intents = {"standard"}
    Subtopics = 0
    MaxRetries = 0
    MaxIterations = 1
    AutoIterate = TRUE
    Notes = {}
    Readers = {}
    Faults = {}
    MaxSignals = 1
    MaxSaves = 1
    MaxRestarts = 0
PROPERTIES
    AbortIsFinal
CHECK_DEADLOCK FALSE
