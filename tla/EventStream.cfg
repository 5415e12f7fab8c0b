SPECIFICATION FairSpec
CONSTANTS
    Publishes = 3
    Clients = {c1}
    Readers = {r1}
    HistoryMax = 2
    QueueMax = 2
INVARIANTS
    TypeOK
    NumbersAreUnique
    OwedIsOnItsWay
PROPERTIES
    OwedIsDelivered
CHECK_DEADLOCK FALSE
