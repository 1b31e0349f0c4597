SPECIFICATION FairSpec
CONSTANTS
    p7 = p7  p1 = p1  q1 = q1
    Jobs = {j1, j2}
    Users = {u1}
    Programs = {p7, p1, q1}
    DailyLimit = 1
    Subscribed <- MCSubscribed
    InitialDeadline <- MCDeadline
    Deadlines <- MCDeadlines
    Nobody = Nobody
    MaxDay = 1
    MaxChanges = 1
    MaxFaults = 1
INVARIANTS
    TypeOK
    OvershootBounded
PROPERTIES
    AlertedOnce
    AlertsArrive
CHECK_DEADLOCK FALSE
