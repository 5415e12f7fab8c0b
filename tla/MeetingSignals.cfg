SPECIFICATION Spec
CONSTANTS
    None = None
    LastStage = 3
    Route <- Forward
    Dynamic = FALSE
    Complexities = {"standard"}
    Intents = {"standard"}
    Subtopics = 0
    MaxRetries = 1
    MaxIterations = 0
    AutoIterate = FALSE
    Notes = {n1}
    Readers = {}
    Faults = {"balance"}
    MaxSignals = 3
    MaxSaves = 1
    MaxRestarts = 0
INVARIANTS
    ReplacedRunnerStops
PROPERTIES
    StagesStartRunning
    ReleasedIsFinished
CHECK_DEADLOCK FALSE
