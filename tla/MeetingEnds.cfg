SPECIFICATION FairSpec
CONSTANTS
    None = None
    LastStage = 3
    Route <- Forward
    Dynamic = TRUE
    Complexities = {"simple", "standard"}
    Intents = {"instant", "standard"}
    Subtopics = 2
    MaxRetries = 1
    MaxIterations = 1
    AutoIterate = TRUE
    Notes = {n1}
    Readers = {}
    Faults = {"db"}
    MaxSignals = 1
    MaxSaves = 1
    MaxRestarts = 0
PROPERTIES
    EveryRunEnds
CHECK_DEADLOCK FALSE
