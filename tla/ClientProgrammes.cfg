SPECIFICATION ScreensSpec
CONSTANTS
    Programmes <- MCProgrammes
    Applicants <- MCApplicants
    VaultContents <- MCVaults
    PressedTabs = {"documents"}
    PressedSteps = {"planning"}
    MaxUpdates = 2
    MaxToggles = 3
    ProgramLists <- MCLists
    ListLimit = 5
    Answered <- MCAnswered
    Year = 2026
    Options <- MCOptions
    Offers <- MCOffers
    MonthlyOf <- MCMonthly
    MaxSimulated = 2
    LocalFields = {"region"}
    ServerFields = {"birthYear", "region", "enrollmentStatus"}
    PageFields = {"birthYear", "name"}
    MaxCopies = 2
    MaxWaiting = 2
    Cards <- MCCards
    Terms <- MCTerms
    FilterRegions = {"busan"}
    FilterAges = {1, 3, 6}
    FilterBrackets = {4}
    HomeAccounts = {1, 2}
    HomeRegions = {"busan", "daegu"}
    Recommended <- MCRecommended
    PreviewRegions = {"busan", "seoul"}
    MaxFetches = 3
INVARIANTS
    ScreensTypeOK
    FreshStatusIsServers
    AppliesAfterVisit
    SavedPreviewIsMarked
    IconIsRow
    EveryToggleCounts
    TotalIsReceivable
    ResultsOfThisProfile
    MarksHaveTheirTimer
    FilterFindsWhoQualifies
    CardsMatchAnswers
PROPERTIES
    EditsKept
    ReadyNeverWorsens
CHECK_DEADLOCK FALSE
