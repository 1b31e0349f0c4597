-------------------------------- MODULE Stack --------------------------------
(***************************************************************************)
(* The calculator of combined benefits (stack-calculator.tsx): the user    *)
(* picks programmes of the first page of the list, and the screen says     *)
(* which of them exclude each other, what the others pay together, by      *)
(* category too, and what their savings products come to.                  *)
(*                                                                         *)
(* The list is read in the background when it is older than ten minutes:   *)
(* the selection is kept by identifier and outlives a list without it.     *)
(*                                                                         *)
(* Abstracted: amounts are small numbers, rounded as the code does; the    *)
(* compound interest of a savings product only by the amount paid in; the  *)
(* counters' animation.                                                    *)
(***************************************************************************)
EXTENDS Integers, Sequences, FiniteSets, FiniteSetsExt

CONSTANTS
    ProgramLists,   \* the lists the server may answer with, one after another
    ListLimit       \* programmes of a list that are shown: 20 in the code

\* ApiProgram, as far as the calculator reads it
IsApiProgram(p) ==
    /\ p.id \in STRING /\ p.provider \in STRING /\ p.type \in STRING /\ p.kosaf \in BOOLEAN
    /\ p.monthly \in Nat /\ p.semester \in Nat /\ p.once \in Nat

ASSUME StackAssumption ==
    /\ ListLimit \in Nat
    /\ \A l \in ProgramLists : l \in Seq({l[n] : n \in DOMAIN l}) /\ \A n \in DOMAIN l : IsApiProgram(l[n])

VARIABLES
    list,      \* the query: the list it holds, failed, a read under way
    picked,    \* selectedIds
    results    \* showResults

stackVars == <<list, picked, results>>

StackTypeOK ==
    /\ list \in [items: ProgramLists \cup {<<>>}, error: BOOLEAN, reading: BOOLEAN]
    /\ picked \in SUBSET UNION {{l[n].id : n \in DOMAIN l} : l \in ProgramLists}
    /\ results \in BOOLEAN

StackInit ==
    /\ list = [items |-> <<>>, error |-> FALSE, reading |-> TRUE]
    /\ picked = {} /\ results = FALSE

-----------------------------------------------------------------------------
(* analyzeStack                                                            *)

Listed == {list.items[n] : n \in {m \in DOMAIN list.items : m <= ListLimit}}
SelectedPrograms == {p \in Listed : p.id \in picked}

\* Two programmes of the scholarship foundation, or of one type and one known provider.
Excludes(a, b) ==
    /\ a # b
    /\ (a.kosaf /\ b.kosaf) \/ (a.provider # "" /\ a.provider = b.provider /\ a.type = b.type)

Conflicting(programs) == {p \in programs : \E q \in programs : Excludes(p, q)}
\* Mutant: what excludes each other is added up as well.
StackableAll(programs) == programs

Stackable(programs) == programs \ Conflicting(programs)
ConflictPairs(programs) == {pair \in kSubset(2, programs) : \A p, q \in pair : p = q \/ Excludes(p, q)}

RoundedShare(amount, months) == (2 * amount + months) \div (2 * months)
EffectiveMonthly(p) == p.monthly + RoundedShare(p.semester, 6) + RoundedShare(p.once, 24)

MonthlySum(programs) == MapThenSumSet(EffectiveMonthly, programs)

Category(type) ==
    CASE type \in {"scholarship", "welfare"}       -> type
      [] type \in {"support", "youth_policy"}      -> "youth_policy"
      [] type \in {"financial", "savings", "loan"} -> "financial"
      [] type \in {"corporate", "company"}         -> "corporate"
      [] OTHER                                     -> "other"

\* CategoryBreakdownCard: the categories that occur
CategoryGroups(programs) ==
    {[category |-> c, programs |-> {p \in Stackable(programs) : Category(p.type) = c}] :
        c \in {Category(p.type) : p \in Stackable(programs)}}

\* simulateFinancialProducts: what is paid in each month, the user's share and the state's.
Savings(programs) ==
    {[program |-> p.id, paid |-> 2 * EffectiveMonthly(p)] :
        p \in {q \in Stackable(programs) : Category(q.type) = "financial" /\ EffectiveMonthly(q) > 0}}

\* TotalSummaryCard: a year and three years of the monthly total, and the counts
Totals(programs) ==
    LET monthly == MonthlySum(Stackable(programs))
    IN  [monthly |-> monthly, annual |-> 12 * monthly, threeYears |-> 3 * 12 * monthly,
         stackable |-> Cardinality(Stackable(programs)),
         conflicting |-> Cardinality(Conflicting(programs))]

\* ConflictAnalysisCard: every programme with its verdict, and a warning for each pair
Verdicts(programs) ==
    [stackable |-> Stackable(programs), conflicting |-> Conflicting(programs),
     pairs |-> ConflictPairs(programs)]

\* FinancialSimCard: what the state pays over the 36 months
GovernmentPays(programs) ==
    {[program |-> p.id, total |-> 36 * EffectiveMonthly(p)] :
        p \in {q \in programs : \E s \in Savings(programs) : s.program = q.id}}

Analysis ==
    [totals |-> Totals(SelectedPrograms), verdicts |-> Verdicts(SelectedPrograms),
     groups |-> CategoryGroups(SelectedPrograms), savings |-> Savings(SelectedPrograms),
     government |-> GovernmentPays(SelectedPrograms)]

-----------------------------------------------------------------------------
(* The screen                                                              *)

\* ProgramCheckRow: the tick, and the first amount that is known
RowOf(p) ==
    [id |-> p.id, selected |-> p.id \in picked,
     benefit |-> CASE p.monthly > 0  -> <<"monthly", p.monthly>>
                   [] p.monthly = 0 /\ p.semester > 0 -> <<"semester", p.semester>>
                   [] p.monthly = 0 /\ p.semester = 0 /\ p.once > 0 -> <<"once", p.once>>
                   [] OTHER -> <<"ask", 0>>]

CanCalculate == Cardinality(picked) >= 2

AnalysisShown == results /\ SelectedPrograms # {}

\* isLoading: no list yet, and a read of it under way
ListLoading == list.reading /\ list.items = <<>>

StackScreen ==
    {"back"} \cup (IF picked # {} THEN {"reset", "count"} ELSE {})
             \cup (IF list.error /\ ~ListLoading THEN {"offline"} ELSE {})
             \cup (IF results THEN {} ELSE {"intro"})
             \cup (IF AnalysisShown THEN {"analysis"} ELSE {})
             \cup (IF ListLoading THEN {"spinner"} ELSE {"rows"})
             \cup (IF Cardinality(picked) = 1 /\ ~results THEN {"hint"} ELSE {})
             \cup (IF CanCalculate THEN {"calculate"} ELSE {})

ListArrives ==
    /\ list.reading
    /\ \E l \in ProgramLists : list' = [items |-> l, error |-> FALSE, reading |-> FALSE]
    /\ UNCHANGED <<picked, results>>

\* The read failed twice, and the cache of lib/cache.ts had nothing.
ListFails ==
    /\ list.reading
    /\ list' = [list EXCEPT !.error = TRUE, !.reading = FALSE]
    /\ UNCHANGED <<picked, results>>

ToggleSelect(p) ==
    /\ "rows" \in StackScreen /\ p \in Listed
    /\ picked' = (picked \ {p.id}) \cup ({p.id} \ picked) /\ results' = FALSE
    /\ UNCHANGED list

HandleCalculate ==
    /\ "calculate" \in StackScreen /\ results' = TRUE
    /\ UNCHANGED <<list, picked>>

HandleReset ==
    /\ "reset" \in StackScreen /\ picked' = {} /\ results' = FALSE
    /\ UNCHANGED list

\* The screen is left and opened again, with the list read again if it is old or missing.
ReopenStack ==
    /\ picked' = {} /\ results' = FALSE
    /\ \/ UNCHANGED list
       \/ list' = [list EXCEPT !.reading = TRUE]

StackNext ==
    \/ ListArrives \/ ListFails \/ ReopenStack
    \/ \E p \in Listed : ToggleSelect(p)
    \/ HandleCalculate \/ HandleReset

StackSpec == StackInit /\ [][StackNext]_stackVars

-----------------------------------------------------------------------------
(* Properties                                                              *)

\* analyzeStack: the total on the screen can be received - some choice of programmes that
\* do not exclude each other pays at least as much - and it is the sum of the categories
\* below it; without exclusions it is everything that was picked.
TotalIsReceivable ==
    "analysis" \in StackScreen =>
        LET choices == {c \in SUBSET SelectedPrograms : \A p, q \in c : ~Excludes(p, q)}
            total   == Analysis.totals.monthly
        IN  /\ total <= Max({MonthlySum(c) : c \in choices})
            /\ total = MapThenSumSet(LAMBDA g : MonthlySum(g.programs), Analysis.groups)
            /\ Analysis.verdicts.pairs = {} => total = MonthlySum(SelectedPrograms)
=============================================================================
