SPECIFICATION MCSpec
CONSTANTS
    Pinned <- MCPinned
    Decomposed <- MCDecomposed
    Borrowable = {b1, b2, b3, b4}
    Strangers = {}
    NoRole = NoRole
    MaxAsides = 2
    Callers = {c1, c2}
    Chains <- MCChains
    MaxAttempts = 2
    FailureThreshold = 2
    FirstRounds = 3
    SecondRounds = 2
INVARIANTS
    DeliberationTypeOK
    DebatesBeforeProduce
    LentOnce
    SoundProviderAnswers
    ReportedCodeRan
    NetworkIsGranted
PROPERTIES
    RoutingEnds
    LentIsHeard
    OpenGivesWay
    RefineEnds
CHECK_DEADLOCK FALSE
