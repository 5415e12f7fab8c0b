SPECIFICATION Spec
CONSTANTS
    None = None
    Meetings = {m1}
    Deletable = {m1}
    Requests = {r1, r2}
    Deleters = {d1}
    Tasks = {t1, t2, t3}
    Limit = 2
    Outcomes = {"aborted", "failed"}
INVARIANTS
    NeverRunTwice
CHECK_DEADLOCK FALSE
