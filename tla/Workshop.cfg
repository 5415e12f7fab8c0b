SPECIFICATION MCSpec
CONSTANTS
    Nil = Nil
    Issues = {i1, i2}
    RepoBound = {i2}
    ByHand = {i1}
    Sessions = {m1, m2}
    Stoppable = {m1}
    Deletable = {i1}
    Editors = {e1}
    Mergers = {}
    Outsiders = {}
    MaxRequests = 2
    Plain = p1
    Moving = p2
    Clients = {p1, p2}
    Rough = {p2}
    Ports = {1, 2}
    Remotes = {h1}
    Deploys <- MCDeploys
    MaxRestarts = 1
    NoBox = NoBox
    Members = {a1, mod}
    Moderator = mod
    Misnamed = {x}
    MaxBatches = 2
    Files = {f1, f2}
    Outside = {}
    Amended = {f1}
    Inits = {f2}
    MaxIterations = 2
    Browsing = {b1, b2}
    Tools = {t1, t2}
    MaxContexts = 1
    MaxOpened = 2
    NoTool = NoTool
    Tabs = {w1}
    Shown = {s1, s2}
    ConnMax = 2
    MaxSockets = 3
    Nowhere = Nowhere
INVARIANTS
    WorkshopTypeOK
    StoppedFreesIssue
    NoOrphan
    ConclusionsAreGrounded
    SuccessIsServedClean
    PoolWithinLimit
    ContextsAreKnown
    TabShowsItsMeeting
    OneHandlerServes
PROPERTIES
    StopSparesSuccessor
    SupplementSparesOthers
CHECK_DEADLOCK FALSE
