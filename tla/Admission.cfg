SPECIFICATION FairSpec
CONSTANTS
    None = None
    Meetings = {m1, m2}
    Deletable = {m2}
    Requests = {r1, r2}
    Deleters = {d1}
    Tasks = {t1, t2, t3}
    Limit = 2
    Outcomes = {"aborted", "failed"}
INVARIANTS
    TypeOK
    RunsAreRegistered
    SlotsAddUp
PROPERTIES
    RunsOneAtATime
    EveryRunGetsItsTurn
CHECK_DEADLOCK FALSE
