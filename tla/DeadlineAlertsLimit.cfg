SPECIFICATION Spec
CONSTANTS
    p7 = p7  p1 = p1  q1 = q1
    Jobs = {j1, j2}
    Users = {u1}
    Programs = {p7, p1, q1}
    DailyLimit = 2
    Subscribed <- MCSubscribed
    InitialDeadline <- MCDeadline
    Deadlines <- MCDeadlines
    Nobody = Nobody
    MaxDay = 1
    MaxChanges = 0
    MaxFaults = 0
INVARIANT
    LimitKept
CHECK_DEADLOCK FALSE
