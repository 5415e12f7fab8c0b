SPECIFICATION IssueSpec
CONSTANTS
    Nil = Nil
    Issues = {i1}
    RepoBound = {i1}
    ByHand = {}
    Sessions = {m1, m2}
    Stoppable = {m1}
    Deletable = {i1}
    Editors = {e1}
    Mergers = {k1, k2}
    Outsiders = {x1}
    MaxRequests = 2
INVARIANTS
    ResolvedIsPushed
PROPERTIES
    IssuesFollowProtocol
CHECK_DEADLOCK FALSE
