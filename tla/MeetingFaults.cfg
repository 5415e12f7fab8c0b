SPECIFICATION Spec
CONSTANTS
    None = None
    LastStage = 3
    Route <- Forward
    Dynamic = TRUE
    Complexities = {"standard"}
    Intents = {"standard"}
    Subtopics = 0
    MaxRetries = 0
    MaxIterations = 0
    AutoIterate = TRUE
    Notes = {}
    Readers = {r1}
    Faults = {"evict", "restart"}
    MaxSignals = 1
    MaxSaves = 1
    MaxRestarts = 1
INVARIANTS
    TypeOK
    RunnerHasMeeting
    PausedIsResumable
CHECK_DEADLOCK FALSE
