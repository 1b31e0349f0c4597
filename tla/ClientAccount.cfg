SPECIFICATION ClientSpec
CONSTANTS
    TypesInPlay = {"resident_register", "health_insurance"}
    MaxDocs = 2
    MaxWrites = 1
    MaxIncidents = 1
    MaxLogins = 1
    MaxTokens = 2
    MaxMishaps = 1
    Incomes = {0, 1, 100, 119, 120, 250, 957, 1000}
    Regions = {"busan"}
    Ages = {24}
    Enrollments = {"enrolled"}
    Employments = {"employed"}
    Households <- MCHouseholds
    MaxUsers = 1
    MaxSaves = 1
    MaxErrors = 1
    KeptItems = 2
    MaxArrivals = 3
    MaxNoteCalls = 2
INVARIANTS
    ClientTypeOK
    FilesUnderStoredKeys
    ListMatchesFiles
    TempCleared
    MaskingConfirmedForFile
    SessionConsistent
    SessionKept
    BracketsOrdered
    RowsComplete
    CalculatorShowsOwn
    StoredIsShown
CHECK_DEADLOCK FALSE
