SPECIFICATION ProfileSpec
CONSTANTS
    Regions = {"busan", "daegu"}
    Ages = {14, 24}
    Enrollments = {"enrolled"}
    Employments = {"employed"}
    Households <- MCHouseholds
    MaxUsers = 1
    MaxSaves = 1
    MaxErrors = 1
PROPERTIES
    BracketSaveKeepsRow
CHECK_DEADLOCK FALSE
