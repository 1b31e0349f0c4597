--------------------------- MODULE IncomeBracket ---------------------------
(***************************************************************************)
(* The income guide of the mobile client: the panel of                     *)
(* IncomeBracketGuide.tsx, in onboarding and in the profile tab.           *)
(***************************************************************************)
EXTENDS IncomeMedian

CONSTANTS
    Incomes        \* bound: what may be typed as the monthly income, in 10 000 won

\* An empty field counts as 0.
ASSUME IncomeAssumption == Incomes \subseteq Nat /\ 0 \in Incomes

VARIABLE guide     \* the panel: open, household size, income, "applied"

HouseholdSizes == 1..7

GuideTypeOK == guide \in [open: BOOLEAN, size: HouseholdSizes, income: Incomes, applied: BOOLEAN]

GuideInit == guide = [open |-> FALSE, size |-> 1, income |-> 0, applied |-> FALSE]

\* The panel shows an estimate, and the button to apply it, once an income is typed.
GuidePanel ==
    IF ~guide.open THEN {"trigger"}
    ELSE {"trigger", "sizes", "income"} \cup (IF guide.income > 0 THEN {"apply"} ELSE {})

ToggleExpanded == guide' = [guide EXCEPT !.open = ~@]

\* The size may change after applying: "applied" stays.
SetHouseholdSize(n) == "sizes" \in GuidePanel /\ guide' = [guide EXCEPT !.size = n]

SetIncomeInput(x) == "income" \in GuidePanel /\ guide' = [guide EXCEPT !.income = x, !.applied = FALSE]

\* onApply hands the bracket to the form, which keeps it (Profile).
HandleApply ==
    /\ "apply" \in GuidePanel
    /\ guide' = [guide EXCEPT !.applied = TRUE]

GuideNext ==
    \/ ToggleExpanded \/ HandleApply
    \/ \E n \in HouseholdSizes : SetHouseholdSize(n)
    \/ \E x \in Incomes : SetIncomeInput(x)

GuideSpec == GuideInit /\ [][GuideNext]_guide

-----------------------------------------------------------------------------
(* Properties                                                              *)

\* estimateIncomeBracket is ordered ("only a sensible order is guaranteed"): with the same
\* income a larger household is never put in a higher bracket, and with the same
\* household more income never in a lower one.
BracketsOrdered ==
    "apply" \in GuidePanel =>
        LET b == EstimateBracket(guide.size, guide.income)
        IN  /\ \A n \in HouseholdSizes : n > guide.size => EstimateBracket(n, guide.income) <= b
            /\ \A x \in Incomes : x > guide.income => EstimateBracket(guide.size, x) >= b
=============================================================================
