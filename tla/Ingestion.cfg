SPECIFICATION Spec
CONSTANTS
    y1 = y1  y2 = y2  n1 = n1
    t1 = t1  t2 = t2
    deep = deep  bokjiro = bokjiro
    nightly = nightly  manual = manual
    Ids = {y1, y2, n1}
    SourceOf <- MCSourceOf
    Titles = {t1, t2}
    Links = {deep, bokjiro}
    BokjiroLinks = {bokjiro}
    NoLink = NoLink
    DetailPage = DetailPage
    Absent = Absent
    Publishable <- MCPublishable
    MaxBatch = 2
    InitialFeed <- MCFeed
    Workers = {nightly, manual}
    Plan <- MCPlan
    MaxSyncs = 2
    MaxRuns = 4
    MaxChanges = 1
    MaxFaults = 1
    MaxBuild = 1
INVARIANTS
    TypeOK
    RunCountsMatchItems
    UpsertedMeansCurrent
CHECK_DEADLOCK FALSE
