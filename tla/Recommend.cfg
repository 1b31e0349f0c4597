SPECIFICATION Spec
CONSTANTS
    rent = rent  savings = savings  training = training  grant = grant
    l1 = l1  l2 = l2  l3 = l3  l4 = l4  l5 = l5  l6 = l6  l7 = l7  l8 = l8
    Programs = {rent, savings, training, grant}
    Catalogue <- MCCatalogue
    Leaves = {l1, l2, l3, l4, l5, l6, l7, l8}
    Condition <- MCCondition
    Clauses <- MCClauses
    Fields <- MCFields
    Answers <- MCAnswers
    InitialProfile <- MCProfile
    SubstringOf = {}
    Absent = Absent
    NewYear = 2
    BaseYear = 2026
    MaxNow = 2
    MaxToggles = 1
INVARIANTS
    TypeOK
    EligibleAreListed
    FullMatchIsEligible
PROPERTIES
    AnswersOnlyHelp
    TimeOnlyRaises
