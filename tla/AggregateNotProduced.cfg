SPECIFICATION Spec
CONSTANTS
    None = None
    LastStage = 3
    Route <- Forward
    Dynamic = TRUE
    Complexities = {"standard"}
    Intents = {"standard"}
    Subtopics = 2
    MaxRetries = 0
    MaxIterations = 1
    AutoIterate = FALSE
    Notes = {}
    Readers = {}
    Faults = {}
    MaxSignals = 0
    MaxSaves = 1
    MaxRestarts = 0
INVARIANTS
    AggregateIsProduced
CHECK_DEADLOCK FALSE
