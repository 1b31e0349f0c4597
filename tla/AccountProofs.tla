------------------------------ MODULE AccountProofs ------------------------------
(* Proofs about what the mobile client keeps of its user: the income guide    *)
(* (IncomeBracket), the profile with its cache and the calculator (Profile),  *)
(* and the list of notifications (Notifications), for any answers, accounts,  *)
(* failures and numbers of notifications; and, with the theorems about the    *)
(* vault and the session, all of these together (MCClientAccount).            *)
EXTENDS VaultProofs, SessionProofs, MCClientAccount, SequenceTheorems, FiniteSetTheorems, TLAPS
-----------------------------------------------------------------------------
(* The income bracket                                                      *)

\* The largest q with d times q at most a is the quotient.
LEMMA Quotient ==
    ASSUME NEW a \in Nat, NEW d \in Nat \ {0}
    PROVE  /\ a \div d \in Nat /\ d * (a \div d) <= a
           /\ \A q \in Nat : d * q <= a => q <= a \div d
  <1>1. a \div d \in Nat /\ a = d * (a \div d) + (a % d) /\ a % d \in 0..(d - 1)
    OBVIOUS
  <1> DEFINE p == a \div d
  <1>2. p \in Nat /\ d * p <= a /\ a < d * p + d
    BY <1>1
  <1> HIDE DEF p
  <1>3. ASSUME NEW q \in Nat, d * q <= a PROVE q <= p
    <2> SUFFICES ASSUME q >= p + 1 PROVE FALSE
      BY <1>2
    <2>1. d * q >= d * (p + 1)
      BY <1>2
    <2>2. d * (p + 1) = d * p + d
      BY <1>2
    <2> QED  BY <1>2, <1>3, <2>1, <2>2
  <1> QED  BY <1>2, <1>3 DEF p

LEMMA Thresholds ==
    /\ \A b \in 1..9 : BRACKET_THRESHOLDS[b] \in Nat
    /\ \A b \in 1..9, c \in 1..9 : b <= c => BRACKET_THRESHOLDS[b] <= BRACKET_THRESHOLDS[c]
  BY DEF BRACKET_THRESHOLDS

\* Every percentage has a bracket, ...
LEMMA BracketExists ==
    ASSUME NEW p \in Nat
    PROVE  /\ PercentToBracket(p) \in 1..10
           /\ PercentToBracket(p) < 10 => p <= BRACKET_THRESHOLDS[PercentToBracket(p)]
           /\ PercentToBracket(p) > 1 => p > BRACKET_THRESHOLDS[PercentToBracket(p) - 1]
  <1> DEFINE Is(b) == /\ b < 10 => p <= BRACKET_THRESHOLDS[b]
                      /\ b > 1  => p > BRACKET_THRESHOLDS[b - 1]
  <1>1. \E b \in 1..10 : Is(b)
    <2>1. CASE p <= 50
      <3>1. Is(1)
        BY <2>1 DEF BRACKET_THRESHOLDS
      <3> QED  BY <3>1
    <2>2. CASE 50 < p /\ p <= 75
      <3>1. Is(2)
        BY <2>2 DEF BRACKET_THRESHOLDS
      <3> QED  BY <3>1
    <2>3. CASE 75 < p /\ p <= 100
      <3>1. Is(3)
        BY <2>3 DEF BRACKET_THRESHOLDS
      <3> QED  BY <3>1
    <2>4. CASE 100 < p /\ p <= 120
      <3>1. Is(4)
        BY <2>4 DEF BRACKET_THRESHOLDS
      <3> QED  BY <3>1
    <2>5. CASE 120 < p /\ p <= 150
      <3>1. Is(5)
        BY <2>5 DEF BRACKET_THRESHOLDS
      <3> QED  BY <3>1
    <2>6. CASE 150 < p /\ p <= 180
      <3>1. Is(6)
        BY <2>6 DEF BRACKET_THRESHOLDS
      <3> QED  BY <3>1
    <2>7. CASE 180 < p /\ p <= 220
      <3>1. Is(7)
        BY <2>7 DEF BRACKET_THRESHOLDS
      <3> QED  BY <3>1
    <2>8. CASE 220 < p /\ p <= 300
      <3>1. Is(8)
        BY <2>8 DEF BRACKET_THRESHOLDS
      <3> QED  BY <3>1
    <2>9. CASE 300 < p /\ p <= 400
      <3>1. Is(9)
        BY <2>9 DEF BRACKET_THRESHOLDS
      <3> QED  BY <3>1
    <2>10. CASE 400 < p
      <3>1. Is(10)
        BY <2>10 DEF BRACKET_THRESHOLDS
      <3> QED  BY <3>1
    <2> QED  BY <2>1, <2>2, <2>3, <2>4, <2>5, <2>6, <2>7, <2>8, <2>9, <2>10
  <1>2. PercentToBracket(p) = CHOOSE b \in 1..10 : Is(b)
    BY DEF PercentToBracket
  <1> HIDE DEF Is
  <1>3. PercentToBracket(p) \in 1..10 /\ Is(PercentToBracket(p))
    BY <1>1, <1>2
  <1> QED  BY <1>3 DEF Is

\* ... and a greater percentage no lower one.
LEMMA BracketsRise ==
    ASSUME NEW p \in Nat, NEW q \in Nat, p <= q
    PROVE  PercentToBracket(p) <= PercentToBracket(q)
  <1> DEFINE b == PercentToBracket(p)
             c == PercentToBracket(q)
  <1>1. /\ b \in 1..10 /\ (b > 1 => p > BRACKET_THRESHOLDS[b - 1])
        /\ c \in 1..10 /\ (c < 10 => q <= BRACKET_THRESHOLDS[c])
    BY BracketExists
  <1> HIDE DEF b, c
  <1> SUFFICES ASSUME c < b PROVE FALSE
    BY <1>1 DEF b, c
  <1>2. c \in 1..9 /\ b - 1 \in 1..9 /\ c <= b - 1
    BY <1>1
  <1>3. BRACKET_THRESHOLDS[c] \in Nat /\ BRACKET_THRESHOLDS[b - 1] \in Nat
        /\ BRACKET_THRESHOLDS[c] <= BRACKET_THRESHOLDS[b - 1]
    BY <1>2, Thresholds
  <1> QED  BY <1>1, <1>2, <1>3

LEMMA MediansRise ==
    /\ \A n \in 1..7 : GetMedianIncome(n) \in Nat \ {0}
    /\ \A m \in 1..7, n \in 1..7 : m <= n => GetMedianIncome(m) <= GetMedianIncome(n)
  <1>1. /\ GetMedianIncome(1) = 2392013 /\ GetMedianIncome(2) = 3932658
        /\ GetMedianIncome(3) = 5025353 /\ GetMedianIncome(4) = 6097773
        /\ GetMedianIncome(5) = 7108192 /\ GetMedianIncome(6) = 8064805
        /\ GetMedianIncome(7) = 9021418
    BY DEF GetMedianIncome, MEDIAN_INCOME, MAX_TABLE_SIZE
  <1>2. \A n \in 1..7 : n = 1 \/ n = 2 \/ n = 3 \/ n = 4 \/ n = 5 \/ n = 6 \/ n = 7
    OBVIOUS
  <1> QED  BY <1>1, <1>2

\* The percentage rises with the income and falls with the size of the household.
LEMMA PercentsOrdered ==
    ASSUME NEW m \in 1..7, NEW n \in 1..7, NEW x \in Nat, NEW y \in Nat, n <= m, x <= y
    PROVE  /\ PercentOfMedian(m, x) \in Nat /\ PercentOfMedian(n, y) \in Nat
           /\ PercentOfMedian(m, x) <= PercentOfMedian(n, y)
  <1> DEFINE M == GetMedianIncome(m)
             N == GetMedianIncome(n)
             q == (2000000 * x + M) \div (2 * M)
  <1>1. M \in Nat \ {0} /\ N \in Nat \ {0} /\ N <= M
    BY MediansRise
  <1> HIDE DEF M, N
  <1>2. /\ 2000000 * x + M \in Nat /\ 2 * M \in Nat \ {0}
        /\ 2000000 * y + N \in Nat /\ 2 * N \in Nat \ {0}
    BY <1>1
  <1>3. q \in Nat /\ (2 * M) * q <= 2000000 * x + M
    BY <1>2, Quotient
  <1> HIDE DEF q
  <1>4. (2 * N) * q <= 2000000 * y + N
    <2>1. CASE q = 0
      BY <1>1, <2>1
    <2>2. CASE q >= 1
      <3>1. N * (2 * q - 1) <= M * (2 * q - 1)
        BY <1>1, <1>3, <2>2
      <3>2. M * (2 * q - 1) = (2 * M) * q - M /\ N * (2 * q - 1) = (2 * N) * q - N
        BY <1>1, <1>3
      <3> QED  BY <1>1, <1>3, <3>1, <3>2
    <2> QED  BY <1>3, <2>1, <2>2
  <1>5. (2000000 * y + N) \div (2 * N) \in Nat /\ q <= (2000000 * y + N) \div (2 * N)
    BY <1>2, <1>3, <1>4, Quotient
  <1> QED  BY <1>3, <1>5 DEF PercentOfMedian, q, M, N

LEMMA EstimatesOrdered ==
    ASSUME NEW m \in 1..7, NEW n \in 1..7, NEW x \in Nat, NEW y \in Nat, n <= m, x <= y
    PROVE  EstimateBracket(m, x) \in 1..10 /\ EstimateBracket(m, x) <= EstimateBracket(n, y)
  BY PercentsOrdered, BracketExists, BracketsRise DEF EstimateBracket

LEMMA GuideStart == GuideInit => GuideTypeOK
  BY IncomeAssumption DEF GuideInit, GuideTypeOK, HouseholdSizes

LEMMA GuideStep == GuideTypeOK /\ [GuideNext]_guide => GuideTypeOK'
  BY DEF GuideTypeOK, GuideNext, ToggleExpanded, HandleApply, SetHouseholdSize, SetIncomeInput

\* The income guide holds only values that its state in the code can hold.
THEOREM GuideIsTyped == GuideSpec => []GuideTypeOK
  BY GuideStart, GuideStep, PTL DEF GuideSpec

\* The estimate of the income bracket never orders two households the wrong way round
\* (estimateIncomeBracket, getMedianIncome, percentToBracket, with the rounding): for
\* every income in whole 10 000 won, not only those a run tries.
THEOREM EstimatesAreOrdered == GuideSpec => []BracketsOrdered
  <1>1. GuideTypeOK => BracketsOrdered
    <2> SUFFICES ASSUME GuideTypeOK
                 PROVE  /\ \A n \in HouseholdSizes : n > guide.size =>
                              EstimateBracket(n, guide.income) <= EstimateBracket(guide.size, guide.income)
                        /\ \A x \in Incomes : x > guide.income =>
                              EstimateBracket(guide.size, x) >= EstimateBracket(guide.size, guide.income)
      BY DEF BracketsOrdered
    <2>1. guide.size \in 1..7 /\ guide.income \in Nat
      BY IncomeAssumption DEF GuideTypeOK, HouseholdSizes
    <2>2. ASSUME NEW n \in HouseholdSizes, n > guide.size
          PROVE  EstimateBracket(n, guide.income) <= EstimateBracket(guide.size, guide.income)
      <3>1. n \in 1..7 /\ guide.size <= n /\ guide.income <= guide.income
        BY <2>1, <2>2 DEF HouseholdSizes
      <3> QED  BY <2>1, <3>1, EstimatesOrdered
    <2>3. ASSUME NEW x \in Incomes, x > guide.income
          PROVE  EstimateBracket(guide.size, x) >= EstimateBracket(guide.size, guide.income)
      <3>1. x \in Nat /\ guide.income <= x /\ guide.size <= guide.size
        BY <2>1, <2>3, IncomeAssumption
      <3>2. /\ EstimateBracket(guide.size, guide.income) <= EstimateBracket(guide.size, x)
            /\ EstimateBracket(guide.size, guide.income) \in 1..10
        BY <2>1, <3>1, EstimatesOrdered
      <3>3. EstimateBracket(guide.size, x) \in 1..10
        BY <2>1, <3>1, EstimatesOrdered
      <3> QED  BY <3>2, <3>3
    <2> QED  BY <2>2, <2>3
  <1> QED  BY <1>1, GuideStart, GuideStep, PTL DEF GuideSpec

-----------------------------------------------------------------------------
(* The profile: what is stored, cached and served is complete              *)

\* A row with every answer that the onboarding requires
Complete(row) ==
    /\ row.region # Blank /\ row.age \in 15..45
    /\ row.enrollment # Blank /\ row.employment # Blank

\* A row, if there is one, is complete.
Fine(row) == row \in Rows /\ (row # NoRow => Complete(row))

QueryPhases == {"idle", "cache", "network", "fallback"}
Queries == [row: Rows, stale: BOOLEAN, error: BOOLEAN, had: BOOLEAN, pc: QueryPhases]
CalcScreens == [result: Rows, of: Rows, loading: BOOLEAN, error: BOOLEAN,
                failed: BOOLEAN, pc: {"idle", "cache", "network"}]
Calcs == [ui: CalcScreens, kept: Rows, left: Rows, below: ProfPages]

UserTyped == profUser \in 0..MaxUsers /\ profPage \in ProfPages /\ profErrors \in 0..MaxErrors
AnswersTyped == answers \in Answers /\ (profPage = "work" => answers.age \in 15..45)
ServerFine == profRows \in [Users -> Rows] /\ \A u \in Users : Fine(profRows[u])
SavesFine == profSaves \subseteq Saves /\ \A s \in profSaves : Complete(s.row)
EntryFine == profEntry \in Entries /\ Fine(profEntry.row)

QueryFine == profQuery \in Queries /\ Fine(profQuery.row)

\* The answers of now, up to a bracket that was filled in meanwhile
OfNow(row) == \E b \in {0, answers.bracket} : row = [AnsweredRow EXCEPT !.bracket = b]

\* The calculator has failed only when it has ended, with an error; until then it fetches
\* for the answers of now, and afterwards it shows their result.  The onboarding below it is
\* as it was.
CalcFine ==
    /\ calc \in Calcs
    /\ calc.ui.failed => calc.ui.pc = "idle" /\ ~calc.ui.loading /\ calc.ui.error
    /\ profPage = "calculator" /\ calc.ui.pc # "idle" => OfNow(calc.ui.of)
    /\ profPage = "calculator" /\ calc.ui.pc = "idle" /\ ~calc.ui.failed => OfNow(calc.ui.result)
    /\ profPage = "calculator" /\ calc.below = "work" => answers.age \in 15..45
    /\ calc.below # "calculator"

ProfileInv ==
    UserTyped /\ AnswersTyped /\ ServerFine /\ SavesFine /\ EntryFine /\ QueryFine /\ CalcFine

LEMMA ProfileTypes ==
    ASSUME ProfileInv
    PROVE  /\ profUser \in 0..MaxUsers /\ profPage \in ProfPages /\ profErrors \in 0..MaxErrors
           /\ answers \in Answers /\ profRows \in [Users -> Rows] /\ profSaves \subseteq Saves
           /\ profEntry \in Entries /\ profQuery \in Queries /\ calc \in Calcs
  BY DEF ProfileInv, UserTyped, AnswersTyped, ServerFine, SavesFine, EntryFine, QueryFine, CalcFine

LEMMA GuideBracketsTyped == GuideBrackets \subseteq Brackets
  <1> SUFFICES ASSUME NEW h \in Households PROVE EstimateBracket(h[1], h[2]) \in Brackets
    BY DEF GuideBrackets
  <1>1. h[1] \in 1..7 /\ h[2] \in Nat /\ h[1] <= h[1] /\ h[2] <= h[2]
    BY ProfileAssumption
  <1> QED  BY <1>1, EstimatesOrdered DEF Brackets

LEMMA EmptyRow == NoRow \in Rows /\ Fine(NoRow) /\ NoEntry \in Entries /\ IdleQuery \in Queries
                  /\ IdleCalc \in CalcScreens /\ NoAnswers \in Answers
  BY DEF NoRow, Rows, Fine, NoEntry, Entries, IdleQuery, Queries, QueryPhases, IdleCalc, CalcScreens,
     NoAnswers, Answers

\* Nothing but the screen, the user or the answers changes.
LEMMA AnswersKeep ==
    ASSUME ProfileInv, UNCHANGED <<profRows, profSaves, profEntry, profQuery, calc, profErrors>>,
           profUser' \in 0..MaxUsers, profPage' \in ProfPages, answers' \in Answers,
           profPage' = "work" => answers'.age \in 15..45,
           profPage' = "calculator" => profPage = "calculator" /\ UNCHANGED answers
    PROVE  ProfileInv'
  <1>1. UserTyped' /\ AnswersTyped' /\ ServerFine' /\ SavesFine' /\ EntryFine' /\ QueryFine'
    BY DEF ProfileInv, UserTyped, AnswersTyped, ServerFine, SavesFine, EntryFine, QueryFine
  <1>2. CalcFine'
    BY DEF ProfileInv, CalcFine, OfNow, AnsweredRow
  <1> QED  BY <1>1, <1>2 DEF ProfileInv

LEMMA AccountKeeps ==
    ASSUME ProfileInv, (\E u \in Users : LogInAs(u)) \/ LogOut
    PROVE  ProfileInv'
  <1>1. answers \in Answers /\ profPage \in ProfPages /\ (profPage = "work" => answers.age \in 15..45)
    BY DEF ProfileInv, AnswersTyped, UserTyped
  <1>2. ASSUME NEW u \in Users, LogInAs(u) PROVE ProfileInv'
    <2>1. /\ profUser' = u /\ profPage' \in {"home", "nick"}
          /\ answers' = [answers EXCEPT !.nick = answers.nick \/ profPage' = "nick"]
          /\ UNCHANGED <<profRows, profSaves, profEntry, profQuery, calc, profErrors>>
      BY <1>2 DEF LogInAs
    <2>2. answers' \in Answers
      BY <1>1, <2>1 DEF Answers
    <2>3. profUser' \in 0..MaxUsers /\ profPage' \in ProfPages
      BY <2>1, ProfileAssumption DEF Users, ProfPages, Onboarding
    <2> QED  BY <2>1, <2>2, <2>3, AnswersKeep
  <1>3. CASE LogOut
    <2>1. profUser' = 0 /\ UNCHANGED <<profPage, answers, profRows, profSaves, profEntry, profQuery, calc, profErrors>>
      BY <1>3 DEF LogOut
    <2> QED  BY <1>1, <2>1, ProfileAssumption, AnswersKeep
  <1> QED  BY <1>2, <1>3

LEMMA OnboardingKeeps ==
    ASSUME ProfileInv, StartOnboarding \/ SetAnswer \/ NextStep \/ PreviousStep
    PROVE  ProfileInv'
  <1>1. /\ answers \in Answers /\ profPage \in ProfPages /\ (profPage = "work" => answers.age \in 15..45)
        /\ profUser \in 0..MaxUsers
    BY DEF ProfileInv, AnswersTyped, UserTyped
  <1>2. CASE StartOnboarding
    <2>1. /\ profPage' = "nick" /\ answers' = [answers EXCEPT !.nick = TRUE]
          /\ UNCHANGED <<profUser, profRows, profSaves, profEntry, profQuery, calc, profErrors>>
      BY <1>2 DEF StartOnboarding
    <2>2. answers' \in Answers /\ profPage' \in ProfPages
      BY <1>1, <2>1 DEF Answers, ProfPages, Onboarding
    <2> QED  BY <1>1, <2>1, <2>2, AnswersKeep
  <1>3. CASE SetAnswer
    <2>1. UNCHANGED <<profUser, profPage, profRows, profSaves, profEntry, profQuery, calc, profErrors>>
      BY <1>3 DEF SetAnswer
    <2>2. profPage \in {"region", "status", "work"}
      BY <1>3 DEF SetAnswer, Shows
    <2>3. answers' \in Answers /\ (profPage = "work" => answers'.age = answers.age)
      BY <1>1, <1>3, GuideBracketsTyped DEF SetAnswer, Shows, Answers, Brackets
    <2> QED  BY <1>1, <2>1, <2>2, <2>3, AnswersKeep
  <1>4. CASE NextStep
    <2>1. UNCHANGED <<profUser, answers, profRows, profSaves, profEntry, profQuery, calc, profErrors>>
      BY <1>4 DEF NextStep
    <2>2. profPage' \in {"region", "status", "work"} /\ (profPage' = "work" => answers.age \in 15..45)
      <3>1. Shows("status", "next") => answers.age \in 15..45
        BY DEF Shows, StatusScreen
      <3> QED  BY <1>4, <3>1 DEF NextStep
    <2>3. profPage' \in ProfPages
      BY <2>2 DEF ProfPages, Onboarding
    <2> QED  BY <1>1, <2>1, <2>2, <2>3, AnswersKeep
  <1>5. CASE PreviousStep
    <2>1. UNCHANGED <<profUser, answers, profRows, profSaves, profEntry, profQuery, calc, profErrors>>
      BY <1>5 DEF PreviousStep
    <2>2. profPage' \in {"home", "nick", "region", "status"}
      BY <1>5 DEF PreviousStep
    <2>3. profPage' \in ProfPages
      BY <2>2 DEF ProfPages, Onboarding
    <2> QED  BY <1>1, <2>1, <2>2, <2>3, AnswersKeep
  <1> QED  BY <1>2, <1>3, <1>4, <1>5

\* A save begins, with a complete row.
LEMMA StartSaveFine ==
    ASSUME SavesFine, NEW row \in Rows, Complete(row), NEW from \in {"work", "profile"},
           profUser \in Users, StartSave(row, from)
    PROVE  SavesFine'
  <1> DEFINE s == [user |-> profUser, row |-> row, from |-> from]
  <1>1. s \in Saves /\ s.row = row
    BY DEF Saves
  <1>2. profSaves' = profSaves \cup {s}
    BY DEF StartSave
  <1> HIDE DEF s
  <1> QED  BY <1>1, <1>2 DEF SavesFine

LEMMA SavingKeeps ==
    ASSUME ProfileInv, SaveAnswers
    PROVE  ProfileInv'
  <1>1. /\ UNCHANGED <<profUser, profPage, answers, profRows, profEntry, profQuery, calc, profErrors>>
        /\ Shows("work", "next") /\ profUser # 0 /\ StartSave(AnsweredRow, "work")
    BY DEF SaveAnswers
  <1>2. answers \in Answers /\ answers.age \in 15..45 /\ profUser \in Users
    BY <1>1, ProfileAssumption DEF ProfileInv, AnswersTyped, UserTyped, Shows, Users
  <1>3. answers.region # Blank /\ answers.enrollment # Blank /\ answers.employment # Blank
    BY <1>1 DEF Shows, WorkScreen
  <1>4. AnsweredRow \in Rows /\ Complete(AnsweredRow)
    BY <1>2, <1>3 DEF AnsweredRow, Answers, Rows, Complete
  <1>5. SavesFine'
    BY <1>1, <1>2, <1>4, StartSaveFine DEF ProfileInv
  <1> QED  BY <1>1, <1>5 DEF ProfileInv, UserTyped, AnswersTyped, ServerFine, EntryFine, QueryFine, CalcFine,
              OfNow, AnsweredRow

LEMMA ApplyingKeeps ==
    ASSUME ProfileInv, NEW b \in GuideBrackets, ApplyIncomeBracket(b)
    PROVE  ProfileInv'
  <1>1. /\ UNCHANGED <<profUser, profPage, profRows, profEntry, profQuery, calc, profErrors>>
        /\ Shows("profile", "guide") /\ answers' = [answers EXCEPT !.bracket = b]
        /\ \/ UNCHANGED profSaves
           \/ /\ profQuery.row.region # Blank /\ StartSave([profQuery.row EXCEPT !.bracket = b], "profile")
    BY DEF ApplyIncomeBracket
  <1>2. b \in Brackets /\ profUser \in Users /\ profPage = "profile"
    BY <1>1, GuideBracketsTyped, ProfileAssumption DEF ProfileInv, UserTyped, Shows, ProfileScreen, Users
  <1>3. AnswersTyped' /\ profPage' # "calculator"
    BY <1>1, <1>2 DEF ProfileInv, AnswersTyped, Answers
  <1>4. SavesFine'
    <2>1. CASE UNCHANGED profSaves
      BY <2>1 DEF ProfileInv, SavesFine
    <2>2. CASE profQuery.row.region # Blank /\ StartSave([profQuery.row EXCEPT !.bracket = b], "profile")
      <3> DEFINE row == [profQuery.row EXCEPT !.bracket = b]
      <3>1. profQuery.row \in Rows /\ Complete(profQuery.row)
        <4>1. profQuery.row # NoRow
          BY <2>2 DEF NoRow
        <4> QED  BY <4>1 DEF ProfileInv, QueryFine, Fine
      <3>2. row \in Rows /\ Complete(row)
        BY <1>2, <3>1 DEF Rows, Complete
      <3> HIDE DEF row
      <3>3. StartSave(row, "profile")
        BY <2>2 DEF row
      <3> QED  BY <1>2, <3>2, <3>3, StartSaveFine DEF ProfileInv
    <2> QED  BY <1>1, <2>1, <2>2
  <1> QED  BY <1>1, <1>2, <1>3, <1>4 DEF ProfileInv, UserTyped, ServerFine, EntryFine, QueryFine, CalcFine

\* A call fails, or none does.
LEMMA ErrorsTyped ==
    ASSUME profErrors \in 0..MaxErrors, UNCHANGED profErrors \/ CallFails
    PROVE  profErrors' \in 0..MaxErrors
  BY ProfileAssumption DEF CallFails

\* A calculator begins to fetch for the answers of now.
LEMMA BeginsFetch ==
    ASSUME ProfileInv
    PROVE  /\ Fetching \in CalcScreens /\ Fetching.pc = "cache" /\ ~Fetching.failed
           /\ Fetching.of = AnsweredRow /\ AnsweredRow \in Rows /\ OfNow(AnsweredRow)
  <1>1. answers \in Answers
    BY ProfileTypes
  <1>2. AnsweredRow \in Rows /\ AnsweredRow = [AnsweredRow EXCEPT !.bracket = answers.bracket]
    BY <1>1 DEF AnsweredRow, Answers, Rows
  <1>3. IdleCalc \in CalcScreens /\ ~IdleCalc.failed
    BY EmptyRow DEF IdleCalc
  <1>4. Fetching \in CalcScreens /\ Fetching.pc = "cache" /\ ~Fetching.failed /\ Fetching.of = AnsweredRow
    BY <1>2, <1>3 DEF Fetching, CalcScreens
  <1> QED  BY <1>2, <1>4 DEF OfNow

LEMMA SavedKeeps ==
    ASSUME ProfileInv, NEW s \in profSaves, SaveAnswered(s)
    PROVE  ProfileInv'
  <1>1. s \in Saves /\ Complete(s.row) /\ s.row \in Rows
    BY DEF ProfileInv, SavesFine, Saves
  <1>2. /\ profSaves' = profSaves \ {s} /\ UNCHANGED <<profUser, answers, profEntry>>
        /\ UNCHANGED profErrors \/ CallFails
        /\ profRows' = profRows \/ profRows' = [profRows EXCEPT ![s.user] = s.row]
        /\ profQuery' = profQuery \/ profQuery' = [profQuery EXCEPT !.pc = "cache"]
        /\ \/ UNCHANGED <<profPage, calc>>
           \/ /\ profPage' = "calculator"
              /\ calc' = [calc EXCEPT !.ui = Fetching, !.left = LeftBehind,
                                      !.below = IF profPage = "calculator" THEN calc.below ELSE profPage]
    BY DEF SaveAnswered
  <1>3. profErrors' \in 0..MaxErrors
    BY <1>2, ErrorsTyped DEF ProfileInv, UserTyped
  <1>4. UserTyped'
    BY <1>2, <1>3 DEF ProfileInv, UserTyped, ProfPages
  <1>5. AnswersTyped' /\ EntryFine'
    BY <1>2 DEF ProfileInv, AnswersTyped, EntryFine
  <1>6. ServerFine'
    <2>1. Fine(s.row)
      BY <1>1 DEF Fine
    <2> QED  BY <1>1, <1>2, <2>1 DEF ProfileInv, ServerFine
  <1>7. SavesFine'
    BY <1>2 DEF ProfileInv, SavesFine
  <1>8. QueryFine'
    <2>1. profQuery \in Queries
      BY DEF ProfileInv, QueryFine
    <2>2. [profQuery EXCEPT !.pc = "cache"] \in Queries /\ [profQuery EXCEPT !.pc = "cache"].row = profQuery.row
      BY <2>1 DEF Queries, QueryPhases
    <2> QED  BY <1>2, <2>2 DEF ProfileInv, QueryFine
  <1>9. CalcFine'
    <2>1. CASE UNCHANGED <<profPage, calc>>
      BY <1>2, <2>1 DEF ProfileInv, CalcFine, OfNow, AnsweredRow
    <2>2. CASE /\ profPage' = "calculator"
               /\ calc' = [calc EXCEPT !.ui = Fetching, !.left = LeftBehind,
                                       !.below = IF profPage = "calculator" THEN calc.below ELSE profPage]
      <3> DEFINE left == LeftBehind
                 below == IF profPage = "calculator" THEN calc.below ELSE profPage
      <3>1. left \in Rows /\ below \in ProfPages /\ below # "calculator"
        BY ProfileTypes DEF ProfileInv, CalcFine, LeftBehind, Calcs, CalcScreens
      <3>2. below = "work" => answers.age \in 15..45
        BY DEF ProfileInv, CalcFine, AnswersTyped
      <3> HIDE DEF left, below
      <3>3. calc' = [calc EXCEPT !.ui = Fetching, !.left = left, !.below = below]
        BY <2>2 DEF left, below
      <3>4. calc' \in Calcs /\ calc'.ui = Fetching /\ calc'.below = below
        BY <3>1, <3>3, BeginsFetch, ProfileTypes DEF Calcs
      <3>5. Fetching.pc = "cache" /\ ~Fetching.failed /\ Fetching.of = AnsweredRow /\ OfNow(AnsweredRow)
        BY BeginsFetch
      <3>6. OfNow(AnsweredRow)'
        BY <1>2, <3>5 DEF OfNow, AnsweredRow
      <3>7. AnsweredRow' = AnsweredRow
        BY <1>2 DEF AnsweredRow
      <3>8. calc'.ui.pc = "cache" /\ ~calc'.ui.failed /\ calc'.ui.of = AnsweredRow'
        BY <3>4, <3>5, <3>7
      <3>9. OfNow(calc.ui.of)'
        BY <3>6, <3>8
      <3> QED  BY <1>2, <3>1, <3>2, <3>4, <3>8, <3>9 DEF CalcFine
    <2> QED  BY <1>2, <2>1, <2>2
  <1> QED  BY <1>4, <1>5, <1>6, <1>7, <1>8, <1>9 DEF ProfileInv

\* The calculator
LEMMA CalculatorKeeps ==
    ASSUME ProfileInv, CalcReadCache \/ CalcAnswer \/ CalcLeftAnswer \/ CalcRetry \/ CalcGoHome
    PROVE  ProfileInv'
  <1>1. /\ UNCHANGED <<profUser, answers, profRows, profSaves, profEntry, profQuery>>
        /\ UNCHANGED profErrors \/ CallFails
    BY DEF CalcReadCache, CalcAnswer, CalcLeftAnswer, CalcRetry, CalcGoHome
  <1>2. profErrors' \in 0..MaxErrors
    BY <1>1, ErrorsTyped DEF ProfileInv, UserTyped
  <1>3. /\ calc \in Calcs /\ calc.ui \in CalcScreens /\ calc.kept \in Rows /\ calc.left \in Rows
        /\ calc.below \in ProfPages /\ calc.below # "calculator"
    BY ProfileTypes DEF Calcs, ProfileInv, CalcFine
  <1>4. ASSUME profPage' \in ProfPages, profPage' = "work" => answers.age \in 15..45, CalcFine'
        PROVE  ProfileInv'
    <2>1. UserTyped' /\ AnswersTyped' /\ ServerFine' /\ SavesFine' /\ EntryFine' /\ QueryFine'
      BY <1>1, <1>2, <1>4 DEF ProfileInv, UserTyped, AnswersTyped, ServerFine, SavesFine, EntryFine, QueryFine
    <2> QED  BY <1>4, <2>1 DEF ProfileInv
  \* The calculator stays on top, or its fetch ends after it was left.
  <1>5. ASSUME NEW ui \in CalcScreens, NEW kept \in Rows, NEW left \in Rows,
               calc' = [calc EXCEPT !.ui = ui, !.kept = kept, !.left = left], UNCHANGED profPage,
               ui.failed => ui.pc = "idle" /\ ~ui.loading /\ ui.error,
               profPage = "calculator" /\ ui.pc # "idle" => OfNow(ui.of),
               profPage = "calculator" /\ ui.pc = "idle" /\ ~ui.failed => OfNow(ui.result)
        PROVE  ProfileInv'
    <2>1. calc' \in Calcs /\ calc'.ui = ui /\ calc'.below = calc.below
      BY <1>3, <1>5 DEF Calcs
    <2>2. \A row : OfNow(row) => OfNow(row)'
      BY <1>1 DEF OfNow, AnsweredRow
    <2>3. CalcFine'
      BY <1>1, <1>5, <2>1, <2>2 DEF CalcFine, ProfileInv
    <2>4. profPage' \in ProfPages /\ (profPage' = "work" => answers.age \in 15..45)
      BY <1>5 DEF ProfileInv, UserTyped, AnswersTyped
    <2> QED  BY <1>4, <2>3, <2>4
  <1>6. /\ FetchFailed \in CalcScreens /\ FetchFailed.failed /\ FetchFailed.pc = "idle"
        /\ ~FetchFailed.loading /\ FetchFailed.error
        /\ Ended \in CalcScreens /\ Ended.pc = "idle" /\ Ended.failed = calc.ui.failed
    BY <1>3, EmptyRow DEF FetchFailed, Ended, CalcScreens
  <1>7. CASE CalcReadCache
    <2> DEFINE ui == [ShowKept EXCEPT !.pc = "network"]
    <2>1. ui \in CalcScreens /\ ui.pc = "network" /\ ui.failed = calc.ui.failed /\ ui.of = calc.ui.of
      BY <1>3 DEF ShowKept, CalcScreens
    <2>2. ~calc.ui.failed /\ UNCHANGED profPage /\ (profPage = "calculator" => OfNow(calc.ui.of))
      BY <1>7 DEF CalcReadCache, ProfileInv, CalcFine
    <2>3. \/ calc' = [calc EXCEPT !.ui = ui] \/ calc' = [calc EXCEPT !.ui = FetchFailed]
      BY <1>7 DEF CalcReadCache
    <2> HIDE DEF ui
    <2>4. PICK v \in {ui, FetchFailed} : calc' = [calc EXCEPT !.ui = v, !.kept = calc.kept, !.left = calc.left]
      BY <1>3, <2>3 DEF Calcs
    <2>5. CASE v = ui
      BY <1>3, <1>5, <2>1, <2>2, <2>4, <2>5
    <2>6. CASE v = FetchFailed
      BY <1>3, <1>5, <1>6, <2>2, <2>4, <2>6
    <2> QED  BY <2>4, <2>5, <2>6
  <1>8. CASE CalcAnswer
    <2> DEFINE shown == [Ended EXCEPT !.result = calc.ui.of]
               late == [shown EXCEPT !.error = TRUE]
    <2>1. calc.ui.of \in Rows
      BY <1>3 DEF CalcScreens
    <2>2. /\ shown \in CalcScreens /\ shown.pc = "idle" /\ shown.failed = calc.ui.failed /\ shown.result = calc.ui.of
          /\ late \in CalcScreens /\ late.pc = "idle" /\ late.failed = calc.ui.failed /\ late.result = calc.ui.of
      BY <1>6, <2>1 DEF CalcScreens
    <2>3. ~calc.ui.failed /\ UNCHANGED profPage /\ (profPage = "calculator" => OfNow(calc.ui.of))
      BY <1>8 DEF CalcAnswer, ProfileInv, CalcFine
    <2>4. \/ calc' = [calc EXCEPT !.ui = shown, !.kept = calc.ui.of]
          \/ calc' = [calc EXCEPT !.ui = late] \/ calc' = [calc EXCEPT !.ui = FetchFailed]
      BY <1>8 DEF CalcAnswer
    <2> HIDE DEF shown, late
    <2>5. PICK v \in {shown, late, FetchFailed}, kept \in Rows :
             calc' = [calc EXCEPT !.ui = v, !.kept = kept, !.left = calc.left]
      <3>1. CASE calc' = [calc EXCEPT !.ui = shown, !.kept = calc.ui.of]
        <4>1. calc' = [calc EXCEPT !.ui = shown, !.kept = calc.ui.of, !.left = calc.left]
          BY <1>3, <3>1 DEF Calcs
        <4> QED  BY <2>1, <4>1
      <3>2. CASE calc' = [calc EXCEPT !.ui = late]
        <4>1. calc' = [calc EXCEPT !.ui = late, !.kept = calc.kept, !.left = calc.left]
          BY <1>3, <3>2 DEF Calcs
        <4> QED  BY <1>3, <4>1
      <3>3. CASE calc' = [calc EXCEPT !.ui = FetchFailed]
        <4>1. calc' = [calc EXCEPT !.ui = FetchFailed, !.kept = calc.kept, !.left = calc.left]
          BY <1>3, <3>3 DEF Calcs
        <4> QED  BY <1>3, <4>1
      <3> QED  BY <2>4, <3>1, <3>2, <3>3
    <2>6. CASE v \in {shown, late}
      <3>1. v \in CalcScreens /\ v.pc = "idle" /\ ~v.failed /\ v.result = calc.ui.of
        BY <2>2, <2>3, <2>6
      <3> QED  BY <1>3, <1>5, <2>3, <2>5, <3>1
    <2>7. CASE v = FetchFailed
      BY <1>3, <1>5, <1>6, <2>3, <2>5, <2>7
    <2> QED  BY <2>5, <2>6, <2>7
  <1>9. CASE CalcLeftAnswer
    <2>1. UNCHANGED profPage
          /\ (calc' = [calc EXCEPT !.left = NoRow, !.kept = calc.left] \/ calc' = [calc EXCEPT !.left = NoRow])
      BY <1>9 DEF CalcLeftAnswer
    <2>2. PICK kept \in Rows : calc' = [calc EXCEPT !.ui = calc.ui, !.kept = kept, !.left = NoRow]
      BY <1>3, <2>1 DEF Calcs
    <2>3. /\ calc.ui.failed => calc.ui.pc = "idle" /\ ~calc.ui.loading /\ calc.ui.error
          /\ profPage = "calculator" /\ calc.ui.pc # "idle" => OfNow(calc.ui.of)
          /\ profPage = "calculator" /\ calc.ui.pc = "idle" /\ ~calc.ui.failed => OfNow(calc.ui.result)
      BY DEF ProfileInv, CalcFine
    <2> QED  BY <1>3, <1>5, <2>1, <2>2, <2>3, EmptyRow
  <1>10. CASE CalcRetry
    <2>1. calc' = [calc EXCEPT !.ui = Fetching, !.kept = calc.kept, !.left = calc.left] /\ UNCHANGED profPage
      BY <1>3, <1>10 DEF CalcRetry, Calcs
    <2> QED  BY <1>3, <1>5, <2>1, BeginsFetch
  <1>11. CASE CalcGoHome
    <2>1. /\ profPage = "calculator" /\ profPage' \in {calc.below, "home"}
          /\ calc' = [calc EXCEPT !.ui = IdleCalc, !.left = LeftBehind, !.below = "home"]
      BY <1>11 DEF CalcGoHome
    <2>2. IdleCalc \in CalcScreens /\ ~IdleCalc.failed /\ LeftBehind \in Rows /\ "home" \in ProfPages
      BY <1>3, EmptyRow DEF IdleCalc, LeftBehind, CalcScreens, ProfPages
    <2>3. calc' \in Calcs /\ calc'.ui = IdleCalc /\ calc'.below = "home"
      BY <1>3, <2>1, <2>2 DEF Calcs
    <2>4. profPage' \in ProfPages /\ profPage' # "calculator" /\ (profPage' = "work" => answers.age \in 15..45)
      BY <1>3, <2>1, <2>2 DEF ProfileInv, CalcFine
    <2>5. CalcFine'
      BY <2>2, <2>3, <2>4 DEF CalcFine
    <2> QED  BY <1>4, <2>4, <2>5
  <1> QED  BY <1>7, <1>8, <1>9, <1>10, <1>11

\* The profile tab
LEMMA TabKeeps ==
    ASSUME ProfileInv, OpenProfile \/ LeaveProfile
    PROVE  ProfileInv'
  <1>1. /\ UNCHANGED <<profUser, answers, profRows, profSaves, profEntry, calc, profErrors>>
        /\ profPage' \in {"profile", "home"}
        /\ profQuery' = profQuery \/ profQuery' = [profQuery EXCEPT !.pc = "cache"]
    BY DEF OpenProfile, LeaveProfile
  <1>2. UserTyped' /\ AnswersTyped' /\ ServerFine' /\ SavesFine' /\ EntryFine' /\ CalcFine'
    BY <1>1 DEF ProfileInv, UserTyped, AnswersTyped, ServerFine, SavesFine, EntryFine, CalcFine,
       ProfPages, Onboarding
  <1>3. profQuery \in Queries
    BY DEF ProfileInv, QueryFine
  <1>4. /\ [profQuery EXCEPT !.pc = "cache"] \in Queries
        /\ [profQuery EXCEPT !.pc = "cache"].row = profQuery.row
    BY <1>3 DEF Queries, QueryPhases
  <1>5. QueryFine'
    BY <1>1, <1>4 DEF ProfileInv, QueryFine
  <1> QED  BY <1>2, <1>5 DEF ProfileInv

\* The query goes on, with another phase.
LEMMA GoesOn ==
    ASSUME profQuery \in Queries, NEW pc \in QueryPhases, NEW error \in BOOLEAN, NEW had \in BOOLEAN,
           profQuery' = [profQuery EXCEPT !.pc = pc, !.error = error, !.had = had]
    PROVE  profQuery' \in Queries /\ profQuery'.row = profQuery.row
  BY DEF Queries

\* What was fetched for the answers of now is still for them, if only an empty bracket is filled in.
LEMMA StillOfNow ==
    ASSUME answers \in Answers, NEW b, answers' = [answers EXCEPT !.bracket = b],
           answers.bracket = 0 \/ b = answers.bracket, NEW row, OfNow(row)
    PROVE  OfNow(row)'
  <1>1. \A c : [AnsweredRow EXCEPT !.bracket = c]' = [AnsweredRow EXCEPT !.bracket = c]
    BY DEF AnsweredRow, Answers
  <1>2. answers'.bracket = b
    BY DEF Answers
  <1>3. PICK c \in {0, answers.bracket} : row = [AnsweredRow EXCEPT !.bracket = c]
    BY DEF OfNow
  <1>4. c \in {0, answers'.bracket}
    BY <1>2, <1>3
  <1> QED  BY <1>1, <1>3, <1>4 DEF OfNow

\* A row is served to the profile tab, and fills in an empty bracket.
LEMMA ServedFine ==
    ASSUME ProfileInv, NEW row, Fine(row), Served(row), UNCHANGED profPage
    PROVE  /\ QueryFine' /\ AnswersTyped' /\ answers'.age = answers.age
           /\ \A r : OfNow(r) => OfNow(r)'
  <1>1. profQuery' = [IdleQuery EXCEPT !.row = row]
    BY DEF Served
  <1>2. row \in Rows
    BY DEF Fine
  <1>3. profQuery' \in Queries /\ profQuery'.row = row
    BY <1>1, <1>2 DEF IdleQuery, Queries, QueryPhases
  <1>4. QueryFine'
    BY <1>3 DEF QueryFine, Fine
  <1>5. answers \in Answers /\ row.bracket \in Brackets \cup {0}
    BY <1>2 DEF ProfileInv, AnswersTyped, Rows
  <1>6. PICK b \in Brackets \cup {0} :
           answers' = [answers EXCEPT !.bracket = b] /\ (answers.bracket = 0 \/ b = answers.bracket)
    <2>1. answers.bracket \in Brackets \cup {0} /\ answers = [answers EXCEPT !.bracket = answers.bracket]
      BY <1>5 DEF Answers
    <2> QED  BY <1>5, <2>1 DEF Served
  <1>7. answers' \in Answers /\ answers'.age = answers.age
    BY <1>5, <1>6 DEF Answers
  <1>8. \A r : OfNow(r) => OfNow(r)'
    BY <1>5, <1>6, StillOfNow
  <1> QED  BY <1>4, <1>7, <1>8 DEF ProfileInv, AnswersTyped

LEMMA FetchKeeps ==
    ASSUME ProfileInv, CacheGet \/ NetworkAnswer \/ StaleAnswer
    PROVE  ProfileInv'
  <1>1. /\ UNCHANGED <<profUser, profPage, profRows, profSaves, calc>>
        /\ UNCHANGED profErrors \/ CallFails
    BY DEF CacheGet, NetworkAnswer, StaleAnswer
  <1>2. profErrors' \in 0..MaxErrors
    BY <1>1, ErrorsTyped DEF ProfileInv, UserTyped
  <1>3. UserTyped' /\ ServerFine' /\ SavesFine'
    BY <1>1, <1>2 DEF ProfileInv, UserTyped, ServerFine, SavesFine
  <1>4. ASSUME EntryFine', QueryFine', AnswersTyped', answers'.age = answers.age,
               \A r : OfNow(r) => OfNow(r)'
        PROVE  ProfileInv'
    <2>1. CalcFine'
      BY <1>1, <1>4 DEF ProfileInv, CalcFine
    <2> QED  BY <1>3, <1>4, <2>1 DEF ProfileInv
  <1>5. profQuery \in Queries /\ Fine(profQuery.row) /\ Fine(profEntry.row) /\ profEntry \in Entries
    BY DEF ProfileInv, QueryFine, EntryFine
  \* A row is served.
  <1>6. ASSUME NEW row, Fine(row), Served(row), EntryFine' PROVE ProfileInv'
    BY <1>1, <1>4, <1>6, ServedFine
  \* The query goes on, or ends with an error.
  <1>7. ASSUME NEW pc \in QueryPhases, NEW error \in BOOLEAN, NEW had \in BOOLEAN,
               profQuery' = [profQuery EXCEPT !.pc = pc, !.error = error, !.had = had],
               UNCHANGED answers, EntryFine'
        PROVE  ProfileInv'
    <2>1. QueryFine'
      BY <1>5, <1>7, GoesOn DEF QueryFine
    <2>2. AnswersTyped' /\ \A r : OfNow(r) => OfNow(r)'
      BY <1>1, <1>7 DEF ProfileInv, AnswersTyped, OfNow, AnsweredRow
    <2> QED  BY <1>4, <1>7, <2>1, <2>2
  <1>8. /\ profQuery.error \in BOOLEAN /\ profQuery.had \in BOOLEAN
        /\ {"idle", "network", "fallback"} \subseteq QueryPhases
    BY <1>5 DEF Queries, QueryPhases
  <1>9. UNCHANGED profEntry => EntryFine'
    BY DEF ProfileInv, EntryFine
  <1>10. NoEntry \in Entries /\ Fine(NoEntry.row)
    BY EmptyRow DEF NoEntry
  <1>11. CASE CacheGet
    <2>1. CASE Served(profEntry.row) /\ UNCHANGED profEntry
      BY <1>5, <1>6, <1>9, <2>1
    <2>2. CASE /\ profQuery' = [profQuery EXCEPT !.pc = "network", !.had = profEntry.row # NoRow]
               /\ profEntry' = NoEntry \/ UNCHANGED profEntry
               /\ UNCHANGED answers
      <3>1. EntryFine'
        BY <1>9, <1>10, <2>2 DEF EntryFine, Fine
      <3>2. profQuery' = [profQuery EXCEPT !.pc = "network", !.error = profQuery.error, !.had = profEntry.row # NoRow]
        BY <1>5, <2>2 DEF Queries
      <3> QED  BY <1>7, <1>8, <2>2, <3>1, <3>2
    <2> QED  BY <1>11, <2>1, <2>2 DEF CacheGet
  <1>12. CASE NetworkAnswer
    <2>1. CASE /\ profUser # 0 /\ Served(profRows[profUser])
               /\ profEntry' = [row |-> profRows[profUser], expired |-> FALSE] \/ UNCHANGED profEntry
      <3>1. profUser \in Users /\ Fine(profRows[profUser])
        BY <2>1, ProfileAssumption DEF ProfileInv, UserTyped, ServerFine, Users
      <3>2. EntryFine'
        <4>1. CASE profEntry' = [row |-> profRows[profUser], expired |-> FALSE]
          <5>1. profEntry' \in Entries /\ profEntry'.row = profRows[profUser]
            BY <3>1, <4>1 DEF Entries, Fine
          <5> QED  BY <3>1, <5>1 DEF EntryFine, Fine
        <4> QED  BY <1>9, <2>1, <4>1
      <3> QED  BY <1>6, <2>1, <3>1, <3>2
    <2>2. CASE profQuery' = [profQuery EXCEPT !.pc = "fallback"] /\ UNCHANGED <<profEntry, answers>>
      <3>1. profQuery' = [profQuery EXCEPT !.pc = "fallback", !.error = profQuery.error, !.had = profQuery.had]
        BY <1>5, <2>2 DEF Queries
      <3> QED  BY <1>7, <1>8, <1>9, <2>2, <3>1
    <2> QED  BY <1>12, <2>1, <2>2 DEF NetworkAnswer
  <1>13. CASE StaleAnswer
    <2>1. UNCHANGED profEntry
      BY <1>13 DEF StaleAnswer
    <2>2. CASE Served(profEntry.row)
      BY <1>5, <1>6, <1>9, <2>1, <2>2
    <2>3. CASE /\ UNCHANGED answers
               /\ \/ profQuery' = [profQuery EXCEPT !.pc = "idle", !.error = TRUE]
                  \/ profQuery' = [profQuery EXCEPT !.pc = "idle", !.error = TRUE, !.had = FALSE]
      <3>1. PICK had \in BOOLEAN : profQuery' = [profQuery EXCEPT !.pc = "idle", !.error = TRUE, !.had = had]
        <4>1. [profQuery EXCEPT !.pc = "idle", !.error = TRUE]
                 = [profQuery EXCEPT !.pc = "idle", !.error = TRUE, !.had = profQuery.had]
          BY <1>5 DEF Queries
        <4> QED  BY <1>8, <2>3, <4>1
      <3> QED  BY <1>7, <1>8, <1>9, <2>1, <2>3, <3>1
    <2> QED  BY <1>13, <2>2, <2>3 DEF StaleAnswer
  <1> QED  BY <1>11, <1>12, <1>13

LEMMA TimeKeeps ==
    ASSUME ProfileInv, TimePasses
    PROVE  ProfileInv'
  <1>1. /\ UNCHANGED <<profUser, profPage, answers, profRows, profSaves, calc, profErrors>>
        /\ profQuery' = [profQuery EXCEPT !.stale = profQuery.row # NoRow]
        /\ \/ profEntry' = [profEntry EXCEPT !.expired = profEntry.row # NoRow]
           \/ UNCHANGED profEntry
    BY DEF TimePasses
  <1>2. UserTyped' /\ AnswersTyped' /\ ServerFine' /\ SavesFine' /\ CalcFine'
    BY <1>1 DEF ProfileInv, UserTyped, AnswersTyped, ServerFine, SavesFine, CalcFine, OfNow, AnsweredRow
  <1>3. profQuery \in Queries /\ profEntry \in Entries
    BY DEF ProfileInv, QueryFine, EntryFine
  <1>4. profQuery' \in Queries /\ profQuery'.row = profQuery.row
    BY <1>1, <1>3 DEF Queries
  <1>5. profEntry' \in Entries /\ profEntry'.row = profEntry.row
    BY <1>1, <1>3 DEF Entries
  <1>6. QueryFine' /\ EntryFine'
    BY <1>4, <1>5 DEF ProfileInv, QueryFine, EntryFine
  <1> QED  BY <1>2, <1>6 DEF ProfileInv

LEMMA RestartedKeeps ==
    ASSUME ProfileInv, RestartPhone
    PROVE  ProfileInv'
  <1>1. /\ profPage' = "home" /\ answers' = NoAnswers /\ profQuery' = IdleQuery
        /\ calc' = [calc EXCEPT !.ui = IdleCalc, !.left = NoRow, !.below = "home"] /\ profSaves' = {}
        /\ UNCHANGED <<profUser, profEntry, profErrors>>
    BY DEF RestartPhone
  <1>2. UserTyped' /\ AnswersTyped' /\ SavesFine' /\ EntryFine'
    BY <1>1, EmptyRow DEF ProfileInv, UserTyped, AnswersTyped, SavesFine, EntryFine, ProfPages
  <1>3. QueryFine'
    BY <1>1, EmptyRow DEF QueryFine, IdleQuery
  <1>4. CalcFine'
    <2>1. calc \in Calcs /\ "home" \in ProfPages
      BY ProfileTypes DEF ProfPages
    <2>2. calc' \in Calcs /\ calc'.ui = IdleCalc /\ calc'.below = "home"
      BY <1>1, <2>1, EmptyRow DEF Calcs
    <2> QED  BY <1>1, <2>2 DEF CalcFine, IdleCalc
  <1>5. ServerFine'
    <2>1. PICK lost \in SUBSET profSaves :
             profRows' = [u \in Users |->
                 IF \E s \in profSaves \ lost : s.user = u
                 THEN (CHOOSE s \in profSaves \ lost : s.user = u).row ELSE profRows[u]]
      BY DEF RestartPhone
    <2>2. \A s \in profSaves : Fine(s.row)
      BY DEF ProfileInv, SavesFine, Saves, Fine
    <2>3. ASSUME NEW u \in Users PROVE Fine(profRows'[u])
      <3>1. CASE \E s \in profSaves \ lost : s.user = u
        <4> DEFINE c == CHOOSE s \in profSaves \ lost : s.user = u
        <4>1. c \in profSaves
          BY <3>1
        <4>2. profRows'[u] = c.row
          BY <2>1, <3>1
        <4> QED  BY <2>2, <4>1, <4>2
      <3>2. CASE ~\E s \in profSaves \ lost : s.user = u
        BY <2>1, <3>2 DEF ProfileInv, ServerFine
      <3> QED  BY <3>1, <3>2
    <2>4. profRows' \in [Users -> Rows]
      <3>1. \A u \in Users : profRows'[u] \in Rows
        BY <2>3 DEF Fine
      <3> QED  BY <2>1, <3>1
    <2> QED  BY <2>3, <2>4 DEF ServerFine
  <1> QED  BY <1>2, <1>3, <1>4, <1>5 DEF ProfileInv

LEMMA ProfileStart == ProfileInit => ProfileInv
  <1> SUFFICES ASSUME ProfileInit PROVE ProfileInv
    OBVIOUS
  <1>1. UserTyped /\ AnswersTyped /\ SavesFine /\ EntryFine
    BY EmptyRow, ProfileAssumption DEF ProfileInit, UserTyped, AnswersTyped, SavesFine, EntryFine, ProfPages, NoEntry
  <1>2. ServerFine
    BY EmptyRow DEF ProfileInit, ServerFine
  <1>3. QueryFine
    BY EmptyRow DEF ProfileInit, QueryFine, IdleQuery
  <1>4. CalcFine
    <2>1. calc \in Calcs /\ calc.ui = IdleCalc /\ calc.below = "home" /\ profPage = "home"
      BY EmptyRow DEF ProfileInit, Calcs, ProfPages
    <2> QED  BY <2>1 DEF CalcFine, IdleCalc
  <1> QED  BY <1>1, <1>2, <1>3, <1>4 DEF ProfileInv

LEMMA ProfileStep == ProfileInv /\ [ProfileNext]_profVars => ProfileInv'
  <1> SUFFICES ASSUME ProfileInv, [ProfileNext]_profVars PROVE ProfileInv'
    OBVIOUS
  <1>1. CASE UNCHANGED profVars
    BY <1>1 DEF profVars, ProfileInv, UserTyped, AnswersTyped, ServerFine, SavesFine, EntryFine, QueryFine, CalcFine,
       OfNow, AnsweredRow
  <1>2. CASE (\E u \in Users : LogInAs(u)) \/ LogOut
    BY <1>2, AccountKeeps
  <1>3. CASE StartOnboarding \/ SetAnswer \/ NextStep \/ PreviousStep
    BY <1>3, OnboardingKeeps
  <1>4. CASE SaveAnswers \/ \E s \in profSaves : SaveAnswered(s)
    BY <1>4, SavingKeeps, SavedKeeps
  <1>5. CASE CalcReadCache \/ CalcAnswer \/ CalcLeftAnswer \/ CalcRetry \/ CalcGoHome
    BY <1>5, CalculatorKeeps
  <1>6. CASE OpenProfile \/ LeaveProfile
    BY <1>6, TabKeeps
  <1>7. CASE CacheGet \/ NetworkAnswer \/ StaleAnswer
    BY <1>7, FetchKeeps
  <1>8. CASE \E b \in GuideBrackets : ApplyIncomeBracket(b)
    BY <1>8, ApplyingKeeps
  <1>9. CASE TimePasses \/ RestartPhone
    BY <1>9, TimeKeeps, RestartedKeeps
  <1> QED  BY <1>1, <1>2, <1>3, <1>4, <1>5, <1>6, <1>7, <1>8, <1>9, Zenon DEF ProfileNext

\* The profile, its saves, its cache and the calculator hold only values that their
\* variables in the code can hold, for any answers, accounts and failures.
THEOREM ProfileIsTyped == ProfileSpec => []ProfileTypeOK
  <1>1. ProfileInv => ProfileTypeOK
    <2> SUFFICES ASSUME ProfileInv PROVE ProfileTypeOK
      OBVIOUS
    <2>1. calc.ui \in CalcScreens /\ calc.kept \in Rows /\ calc.left \in Rows /\ calc.below \in ProfPages
      BY ProfileTypes DEF Calcs
    <2> QED  BY <2>1, ProfileTypes DEF ProfileTypeOK, Queries, QueryPhases, CalcScreens
  <1> QED  BY <1>1, ProfileStart, ProfileStep, PTL DEF ProfileSpec

\* No row without a required answer, or with an age outside 15..45, is ever stored: by the
\* onboarding, whatever is edited on the way back and forth, or by a bracket applied in the
\* profile tab to a row that came from the cache or the network, which may be an old one or
\* another user's (handleNext of the screens, handleApplyIncomeBracket, cachedFetch).
THEOREM RowsAreComplete == ProfileSpec => []RowsComplete
  <1>1. ProfileInv => RowsComplete
    BY DEF ProfileInv, ServerFine, Fine, Complete, RowsComplete
  <1> QED  BY <1>1, ProfileStart, ProfileStep, PTL DEF ProfileSpec

\* A calculator that has stopped fetching shows a result for the answers of now, or its fetch
\* has failed and there is an older result or a retry button: whichever fetch, save, retry,
\* restart or fetch left behind comes between, whatever fails, and for any answers (fetchData).
THEOREM CalculatorIsOwn == ProfileSpec => []CalculatorShowsOwn
  <1>1. ProfileInv => CalculatorShowsOwn
    <2> SUFFICES ASSUME ProfileInv, profPage = "calculator", calc.ui.pc = "idle"
                 PROVE  IF calc.ui.failed THEN "retry" \in CalculatorScreen \/ calc.ui.result # NoRow
                        ELSE OfNow(calc.ui.result)
      BY DEF CalculatorShowsOwn, OfNow
    <2> QED  BY DEF ProfileInv, CalcFine, CalculatorScreen
  <1> QED  BY <1>1, ProfileStart, ProfileStep, PTL DEF ProfileSpec

-----------------------------------------------------------------------------
(* The list of notifications                                               *)

\* A list that is written, and so one that is read, has been cut.
CutLists == {l \in Seq(Notes) : Len(l) <= KeptItems}
CutCalls == [set: BOOLEAN, list: CutLists]
Pushes == [pc: InitSteps, list: CutLists, granted: BOOLEAN, token: BOOLEAN, arrived: 0..MaxArrivals,
           missed: BOOLEAN, posting: BOOLEAN, registered: BOOLEAN]

NotesTyped == push \in Pushes /\ notes \in Seq(Notes) /\ noteStore \in CutLists /\ noteCalls \in Seq(CutCalls)

\* initialize has at most one read under way, while it loads.
OneRead ==
    \A i, j \in 1..Len(noteCalls) :
        ~noteCalls[i].set => push.pc = "load" /\ (~noteCalls[j].set => i = j)

\* What the storage holds when the calls under way have been served
LatestWrite == IF Len(noteCalls) = 0 THEN noteStore ELSE noteCalls[Len(noteCalls)].list

\* Unless something was missed: the read sees every write, what was read is what is stored,
\* and once the list is loaded what was written last is the list that is shown.
Synced ==
    ~push.missed =>
        /\ push.pc = "load" => Len(noteCalls) > 0 /\ ~noteCalls[Len(noteCalls)].set
        /\ push.pc = "loaded" => Len(noteCalls) = 0 /\ push.list = noteStore
        /\ push.pc \notin {"off", "load", "loaded"} => LatestWrite = Keep(notes)

NoteInv == NotesTyped /\ OneRead /\ Synced

LEMMA KeepCuts ==
    ASSUME NEW l \in Seq(Notes)
    PROVE  /\ Keep(l) \in CutLists /\ DOMAIN Keep(l) \subseteq DOMAIN l
           /\ \A n \in DOMAIN Keep(l) : Keep(l)[n] = l[n]
           /\ Len(l) <= KeptItems => Keep(l) = l
  <1> DEFINE k == IF Len(l) < KeptItems THEN Len(l) ELSE KeptItems
             cut == SubSeq(l, 1, k)
  <1>1. /\ k \in Nat /\ k <= KeptItems /\ k <= Len(l) /\ Len(l) \in Nat
        /\ Len(l) <= KeptItems => k = Len(l)
    BY NotificationAssumption
  <1>2. \A i \in 1..k : l[i] \in Notes
    BY <1>1
  <1> HIDE DEF k
  <1>3. /\ cut \in Seq(Notes) /\ Len(cut) = k /\ \A i \in 1..k : cut[i] = l[i]
    <2>1. /\ SubSeq(l, 1, k) \in Seq(Notes) /\ Len(SubSeq(l, 1, k)) = IF 1 <= k THEN k - 1 + 1 ELSE 0
          /\ \A i \in 1..(k - 1 + 1) : SubSeq(l, 1, k)[i] = l[1 + i - 1]
      BY <1>1, <1>2, SubSeqProperties
    <2> QED  BY <1>1, <2>1
  <1>4. Len(l) <= KeptItems => cut = l
    BY <1>1, SubSeqFull
  <1>5. Keep(l) = cut
    BY DEF Keep, k
  <1> HIDE DEF cut
  <1>6. DOMAIN cut = 1..k /\ DOMAIN l = 1..Len(l)
    BY <1>3, LenProperties
  <1>7. cut \in CutLists
    BY <1>1, <1>3 DEF CutLists
  <1>8. DOMAIN cut \subseteq DOMAIN l /\ \A n \in DOMAIN cut : cut[n] = l[n]
    <2>1. 1..k \subseteq 1..Len(l)
      BY <1>1
    <2> QED  BY <1>3, <1>6, <2>1, Zenon
  <1> QED  BY <1>4, <1>5, <1>7, <1>8

\* A call is added at the end of the queue, ...
LEMMA CallAdded ==
    ASSUME noteCalls \in Seq(CutCalls), NEW c \in CutCalls, noteCalls' = Append(noteCalls, c)
    PROVE  /\ noteCalls' \in Seq(CutCalls) /\ Len(noteCalls) \in Nat /\ Len(noteCalls') = Len(noteCalls) + 1
           /\ noteCalls'[Len(noteCalls')] = c
           /\ \A i \in 1..Len(noteCalls) : noteCalls'[i] = noteCalls[i]
  BY AppendProperties

\* ... and served at its head.
LEMMA CallServed ==
    ASSUME noteCalls \in Seq(CutCalls), noteCalls # <<>>, noteCalls' = Tail(noteCalls)
    PROVE  /\ noteCalls' \in Seq(CutCalls) /\ Len(noteCalls) \in Nat /\ Len(noteCalls) > 0
           /\ Len(noteCalls') = Len(noteCalls) - 1
           /\ Head(noteCalls) = noteCalls[1] /\ noteCalls[1] \in CutCalls
           /\ \A i \in 1..Len(noteCalls') : noteCalls'[i] = noteCalls[i + 1]
  <1>1. /\ Head(noteCalls) \in CutCalls /\ Tail(noteCalls) \in Seq(CutCalls)
        /\ Len(Tail(noteCalls)) = Len(noteCalls) - 1
        /\ \A i \in 1..Len(Tail(noteCalls)) : Tail(noteCalls)[i] = noteCalls[i + 1]
    BY HeadTailProperties
  <1>2. Len(noteCalls) \in Nat /\ Len(noteCalls) > 0 /\ Head(noteCalls) = noteCalls[1]
    OBVIOUS
  <1> QED  BY <1>1, <1>2

\* Every change of the list is written.
LEMMA SetNotesKeeps ==
    ASSUME NoteInv, NEW list \in Seq(Notes), NEW p \in Pushes, p.pc = push.pc, SetNotes(list, p)
    PROVE  NoteInv'
  <1> DEFINE c == [set |-> TRUE, list |-> Keep(list)]
  <1>1. /\ notes' = list /\ noteCalls' = Append(noteCalls, c) /\ UNCHANGED noteStore
        /\ push' = [p EXCEPT !.missed = Loading]
    BY DEF SetNotes
  <1>2. c \in CutCalls /\ c.set /\ c.list = Keep(list)
    BY KeepCuts DEF CutCalls
  <1> HIDE DEF c
  <1>3. /\ noteCalls' \in Seq(CutCalls) /\ Len(noteCalls) \in Nat /\ Len(noteCalls') = Len(noteCalls) + 1
        /\ noteCalls'[Len(noteCalls')] = c
        /\ \A i \in 1..Len(noteCalls) : noteCalls'[i] = noteCalls[i]
    BY <1>1, <1>2, CallAdded DEF NoteInv, NotesTyped
  <1>4. Loading \in BOOLEAN
    BY DEF Loading
  <1>5. push' \in Pushes /\ push'.pc = push.pc /\ push'.missed = Loading
    BY <1>1, <1>4 DEF Pushes
  <1>6. NotesTyped'
    BY <1>1, <1>3, <1>5 DEF NoteInv, NotesTyped
  <1>7. OneRead'
    <2> SUFFICES ASSUME NEW i \in 1..Len(noteCalls'), NEW j \in 1..Len(noteCalls'), ~noteCalls'[i].set
                 PROVE  push'.pc = "load" /\ (~noteCalls'[j].set => i = j)
      BY DEF OneRead
    <2>1. \A k \in 1..Len(noteCalls') : ~noteCalls'[k].set
             => k \in 1..Len(noteCalls) /\ ~noteCalls[k].set
      BY <1>2, <1>3
    <2> QED  BY <1>5, <2>1 DEF NoteInv, OneRead
  <1>8. Synced'
    <2>1. CASE Loading
      BY <1>5, <2>1 DEF Synced
    <2>2. CASE ~Loading
      <3>1. push'.pc # "load" /\ push'.pc # "loaded"
        BY <1>5, <2>2 DEF Loading
      <3>2. LatestWrite' = Keep(list)
        BY <1>2, <1>3 DEF LatestWrite
      <3>3. Keep(notes)' = Keep(list)
        BY <1>1 DEF Keep
      <3> QED  BY <3>1, <3>2, <3>3 DEF Synced
    <2> QED  BY <2>1, <2>2
  <1> QED  BY <1>6, <1>7, <1>8 DEF NoteInv

\* Only the progress changes, after the list was loaded.
LEMMA PushKeeps ==
    ASSUME NoteInv, UNCHANGED <<notes, noteStore, noteCalls>>, push' \in Pushes, push'.missed = push.missed,
           push.pc \notin {"load", "loaded"}, push'.pc \notin {"load", "loaded"},
           push'.pc # "off" => push.pc # "off"
    PROVE  NoteInv'
  <1>1. NotesTyped'
    BY DEF NoteInv, NotesTyped
  <1>2. OneRead'
    BY DEF NoteInv, OneRead
  <1>3. LatestWrite' = LatestWrite /\ Keep(notes)' = Keep(notes)
    BY DEF LatestWrite, Keep
  <1>4. Synced'
    BY <1>3 DEF NoteInv, Synced
  <1> QED  BY <1>1, <1>2, <1>4 DEF NoteInv

LEMMA NoteStart == NotificationInit => NoteInv
  <1> SUFFICES ASSUME NotificationInit PROVE NoteInv
    OBVIOUS
  <1>1. <<>> \in CutLists /\ <<>> \in Seq(CutCalls) /\ <<>> \in Seq(Notes)
    BY NotificationAssumption DEF CutLists
  <1>2. push \in Pushes /\ push.pc = "off" /\ Len(noteCalls) = 0
    BY <1>1, NotificationAssumption DEF NotificationInit, Pushes, IdlePush, InitSteps
  <1>3. OneRead /\ Synced
    BY <1>2 DEF OneRead, Synced
  <1> QED  BY <1>1, <1>2, <1>3 DEF NotificationInit, NotesTyped, NoteInv

\* initialize begins, reads and loads.
LEMMA LoadingKeeps ==
    ASSUME NoteInv, Initialize \/ ServeRead \/ LoadPersisted
    PROVE  NoteInv'
  <1>1. /\ NotesTyped /\ push \in Pushes /\ push.list \in CutLists /\ notes \in Seq(Notes)
        /\ noteStore \in CutLists /\ noteCalls \in Seq(CutCalls)
    BY DEF NoteInv, NotesTyped, Pushes
  <1>2. <<>> \in CutLists
    BY NotificationAssumption DEF CutLists
  <1>3. CASE Initialize
    <2> DEFINE c == [set |-> FALSE, list |-> <<>>]
    <2>1. /\ push.pc = "off" /\ noteCalls' = Append(noteCalls, c) /\ UNCHANGED <<notes, noteStore>>
          /\ push' = [push EXCEPT !.pc = "load", !.missed = FALSE]
      BY <1>3 DEF Initialize
    <2>2. c \in CutCalls /\ ~c.set
      BY <1>2 DEF CutCalls
    <2> HIDE DEF c
    <2>3. /\ noteCalls' \in Seq(CutCalls) /\ Len(noteCalls) \in Nat /\ Len(noteCalls') = Len(noteCalls) + 1
          /\ noteCalls'[Len(noteCalls')] = c
          /\ \A i \in 1..Len(noteCalls) : noteCalls'[i] = noteCalls[i]
      BY <1>1, <2>1, <2>2, CallAdded
    <2>4. push' \in Pushes /\ push'.pc = "load"
      BY <1>1, <2>1 DEF Pushes, InitSteps
    <2>5. \A k \in 1..Len(noteCalls) : noteCalls[k].set
      BY <2>1 DEF NoteInv, OneRead
    <2>6. \A k \in 1..Len(noteCalls') : ~noteCalls'[k].set => k = Len(noteCalls')
      BY <2>3, <2>5
    <2>7. OneRead' /\ Synced'
      BY <2>2, <2>3, <2>4, <2>6 DEF OneRead, Synced
    <2> QED  BY <1>1, <2>1, <2>3, <2>4, <2>7 DEF NoteInv, NotesTyped
  <1>4. CASE ServeRead
    <2>1. /\ noteCalls # <<>> /\ ~Head(noteCalls).set /\ noteCalls' = Tail(noteCalls)
          /\ UNCHANGED <<notes, noteStore>>
          /\ \/ push' = [push EXCEPT !.pc = "loaded", !.list = noteStore]
             \/ push' = [push EXCEPT !.pc = "loaded", !.list = <<>>, !.missed = TRUE]
      BY <1>4 DEF ServeRead
    <2>2. /\ noteCalls' \in Seq(CutCalls) /\ Len(noteCalls) \in Nat /\ Len(noteCalls) > 0
          /\ Len(noteCalls') = Len(noteCalls) - 1 /\ Head(noteCalls) = noteCalls[1]
          /\ \A i \in 1..Len(noteCalls') : noteCalls'[i] = noteCalls[i + 1]
      BY <1>1, <2>1, CallServed
    <2>3. push' \in Pushes /\ push'.pc = "loaded" /\ (~push'.missed => ~push.missed /\ push'.list = noteStore)
      BY <1>1, <1>2, <2>1 DEF Pushes, InitSteps
    <2>4. push.pc = "load" /\ \A k \in 1..Len(noteCalls) : ~noteCalls[k].set => k = 1
      BY <2>1, <2>2 DEF NoteInv, OneRead
    <2>5. \A k \in 1..Len(noteCalls') : noteCalls'[k].set
      BY <2>2, <2>4
    <2>6. ~push.missed => Len(noteCalls') = 0
      BY <2>2, <2>4 DEF NoteInv, Synced
    <2>7. OneRead' /\ Synced'
      BY <2>1, <2>3, <2>5, <2>6 DEF OneRead, Synced
    <2> QED  BY <1>1, <2>1, <2>2, <2>3, <2>7 DEF NoteInv, NotesTyped
  <1>5. CASE LoadPersisted
    <2>1. /\ push.pc = "loaded" /\ notes' = push.list /\ UNCHANGED <<noteStore, noteCalls>>
          /\ push' = [push EXCEPT !.pc = "permission", !.list = <<>>]
      BY <1>5 DEF LoadPersisted
    <2>2. push' \in Pushes /\ push'.pc = "permission" /\ push'.missed = push.missed
      BY <1>1, <1>2, <2>1 DEF Pushes, InitSteps
    <2>3. NotesTyped'
      BY <1>1, <2>1, <2>2 DEF NotesTyped, CutLists
    <2>4. OneRead'
      BY <2>1 DEF NoteInv, OneRead
    <2>5. Keep(push.list) = push.list
      BY <1>1, KeepCuts DEF CutLists
    <2>6. Keep(notes)' = push.list
      BY <2>1, <2>5 DEF Keep
    <2>7. ~push.missed => LatestWrite' = push.list
      BY <2>1 DEF NoteInv, Synced, LatestWrite
    <2>8. Synced'
      BY <2>2, <2>6, <2>7 DEF Synced
    <2> QED  BY <2>3, <2>4, <2>8 DEF NoteInv
  <1> QED  BY <1>3, <1>4, <1>5

\* A write is served or fails, and a failed one is missed only if none follows it.
LEMMA WritesKeep ==
    ASSUME NoteInv, PersistNotes
    PROVE  NoteInv'
  <1>1. push \in Pushes /\ noteStore \in CutLists /\ noteCalls \in Seq(CutCalls)
    BY DEF NoteInv, NotesTyped
  <1>2. /\ noteCalls # <<>> /\ Head(noteCalls).set /\ noteCalls' = Tail(noteCalls) /\ UNCHANGED notes
        /\ \/ noteStore' = Head(noteCalls).list /\ UNCHANGED push
           \/ push' = [push EXCEPT !.missed = push.missed \/ Len(noteCalls) = 1] /\ UNCHANGED noteStore
    BY DEF PersistNotes
  <1>3. /\ noteCalls' \in Seq(CutCalls) /\ Len(noteCalls) \in Nat /\ Len(noteCalls) > 0
        /\ Len(noteCalls') = Len(noteCalls) - 1 /\ Head(noteCalls) = noteCalls[1] /\ noteCalls[1] \in CutCalls
        /\ \A i \in 1..Len(noteCalls') : noteCalls'[i] = noteCalls[i + 1]
    BY <1>1, <1>2, CallServed
  <1>4. noteCalls[1].list \in CutLists
    BY <1>3 DEF CutCalls
  <1>5. /\ push' \in Pushes /\ push'.pc = push.pc /\ push'.list = push.list
        /\ ~push'.missed => ~push.missed /\ (noteStore' = noteCalls[1].list \/ Len(noteCalls) # 1)
    <2>2. CASE noteStore' = Head(noteCalls).list /\ UNCHANGED push
      BY <1>1, <1>3, <2>2
    <2> DEFINE m == push.missed \/ Len(noteCalls) = 1
    <2>3. CASE push' = [push EXCEPT !.missed = m]
      <3>1. m \in BOOLEAN
        BY <1>1 DEF Pushes
      <3>2. push' \in Pushes /\ push'.pc = push.pc /\ push'.list = push.list /\ push'.missed = m
        <4> HIDE DEF m
        <4> QED  BY <1>1, <2>3, <3>1 DEF Pushes
      <3> QED  BY <3>2
    <2> QED  BY <1>2, <2>2, <2>3
  <1>6. NotesTyped'
    BY <1>1, <1>2, <1>3, <1>4, <1>5 DEF NoteInv, NotesTyped
  <1>7. OneRead'
    <2> SUFFICES ASSUME NEW i \in 1..Len(noteCalls'), NEW j \in 1..Len(noteCalls'), ~noteCalls'[i].set
                 PROVE  push'.pc = "load" /\ (~noteCalls'[j].set => i = j)
      BY DEF OneRead
    <2>1. /\ i + 1 \in 1..Len(noteCalls) /\ noteCalls'[i] = noteCalls[i + 1]
          /\ j + 1 \in 1..Len(noteCalls) /\ noteCalls'[j] = noteCalls[j + 1]
      BY <1>3
    <2>2. push.pc = "load" /\ (~noteCalls[j + 1].set => i + 1 = j + 1)
      BY <2>1 DEF NoteInv, OneRead
    <2> QED  BY <1>5, <2>1, <2>2
  <1>8. Synced'
    <2> SUFFICES ASSUME ~push'.missed
                 PROVE  /\ push.pc = "load" => Len(noteCalls') > 0 /\ ~noteCalls'[Len(noteCalls')].set
                        /\ push.pc # "loaded"
                        /\ push.pc \notin {"off", "load", "loaded"} => LatestWrite' = Keep(notes)'
      BY <1>5 DEF Synced
    <2>1. ~push.missed /\ (noteStore' = noteCalls[1].list \/ Len(noteCalls) # 1)
      BY <1>5
    <2>2. push.pc # "loaded"
      BY <1>3, <2>1 DEF NoteInv, Synced
    <2>3. Len(noteCalls') > 0 => noteCalls'[Len(noteCalls')] = noteCalls[Len(noteCalls)]
      BY <1>3
    <2>4. ASSUME push.pc = "load" PROVE Len(noteCalls') > 0 /\ ~noteCalls'[Len(noteCalls')].set
      <3>1. ~noteCalls[Len(noteCalls)].set
        BY <2>1, <2>4 DEF NoteInv, Synced
      <3>2. Len(noteCalls) # 1
        BY <1>2, <1>3, <3>1
      <3> QED  BY <1>3, <2>3, <3>1, <3>2
    <2>5. LatestWrite' = LatestWrite
      BY <1>3, <2>1, <2>3 DEF LatestWrite
    <2>6. Keep(notes)' = Keep(notes)
      BY <1>2 DEF Keep
    <2> QED  BY <2>1, <2>2, <2>4, <2>5, <2>6 DEF NoteInv, Synced
  <1> QED  BY <1>6, <1>7, <1>8 DEF NoteInv

LEMMA NoteStep == NoteInv /\ [NotificationNext]_noteVars => NoteInv'
  <1> SUFFICES ASSUME NoteInv, [NotificationNext]_noteVars PROVE NoteInv'
    OBVIOUS
  <1>1. push \in Pushes /\ notes \in Seq(Notes) /\ noteStore \in CutLists /\ noteCalls \in Seq(CutCalls)
    BY DEF NoteInv, NotesTyped
  <1>2. CASE UNCHANGED noteVars
    <2>1. /\ UNCHANGED <<notes, noteStore, noteCalls, push>> /\ LatestWrite' = LatestWrite
          /\ Keep(notes)' = Keep(notes)
      BY <1>2 DEF noteVars, LatestWrite, Keep
    <2> QED  BY <2>1 DEF NoteInv, NotesTyped, OneRead, Synced
  <1>3. CASE Initialize \/ ServeRead \/ LoadPersisted
    BY <1>3, LoadingKeeps
  <1>4. CASE RequestPermissions \/ RegisterForPush
    <2>1. /\ UNCHANGED <<notes, noteStore, noteCalls>> /\ push.pc \in {"permission", "token"}
          /\ push' \in Pushes /\ push'.missed = push.missed /\ push'.pc \in {"token", "done"}
      <3>1. {"permission", "token", "done"} \subseteq InitSteps
        BY DEF InitSteps
      <3>2. CASE RequestPermissions
        <4>1. PICK g \in BOOLEAN, pc \in {"token", "done"} : push' = [push EXCEPT !.pc = pc, !.granted = g]
          BY <3>2 DEF RequestPermissions
        <4> QED  BY <1>1, <3>1, <3>2, <4>1 DEF RequestPermissions, Pushes
      <3>3. CASE RegisterForPush
        BY <1>1, <3>1, <3>3 DEF RegisterForPush, Pushes
      <3> QED  BY <1>4, <3>2, <3>3
    <2> QED  BY <2>1, PushKeeps
  <1>5. CASE TokenPosted
    <2>1. /\ UNCHANGED <<notes, noteStore, noteCalls>> /\ push' \in Pushes
          /\ push'.missed = push.missed /\ push'.pc = push.pc /\ push'.list = push.list
      BY <1>1, <1>5 DEF TokenPosted, Pushes
    <2>2. LatestWrite' = LatestWrite /\ Keep(notes)' = Keep(notes)
      BY <2>1 DEF LatestWrite, Keep
    <2> QED  BY <2>1, <2>2 DEF NoteInv, NotesTyped, OneRead, Synced
  <1>6. CASE AddPending
    <2> DEFINE n == [id |-> push.arrived + 1, read |-> FALSE]
               p == [push EXCEPT !.arrived = push.arrived + 1]
    <2>1. push.arrived < MaxArrivals /\ SetNotes(<<n>> \o notes, p)
      BY <1>6 DEF AddPending
    <2>2. push.arrived + 1 \in 1..MaxArrivals
      BY <1>1, <2>1, NotificationAssumption DEF Pushes
    <2>3. n \in Notes
      BY <2>2 DEF Notes
    <2>4. p \in Pushes /\ p.pc = push.pc
      BY <1>1, <2>2 DEF Pushes
    <2> HIDE DEF n, p
    <2>5. <<n>> \o notes \in Seq(Notes)
      BY <1>1, <2>3, ConcatProperties
    <2> QED  BY <2>1, <2>4, <2>5, SetNotesKeeps
  <1>7. ASSUME NEW list, DOMAIN list = DOMAIN notes, list = [n \in DOMAIN notes |-> list[n]],
               \A n \in DOMAIN notes : list[n] \in {notes[n], [notes[n] EXCEPT !.read = TRUE]},
               SetNotes(list, push)
        PROVE  NoteInv'
    <2>1. DOMAIN notes = 1..Len(notes) /\ Len(notes) \in Nat /\ \A n \in DOMAIN notes : notes[n] \in Notes
      BY <1>1, LenProperties
    <2>2. \A e \in Notes : [e EXCEPT !.read = TRUE] \in Notes
      BY DEF Notes
    <2>3. list \in [1..Len(notes) -> Notes]
      BY <1>7, <2>1, <2>2
    <2>4. list \in Seq(Notes)
      BY <2>1, <2>3, SeqDef
    <2> QED  BY <1>1, <1>7, <2>4, SetNotesKeeps
  <1>8. ASSUME NEW id \in 1..MaxArrivals, MarkAsRead(id) PROVE NoteInv'
    <2> DEFINE list == [n \in DOMAIN notes |-> IF notes[n].id = id THEN [notes[n] EXCEPT !.read = TRUE] ELSE notes[n]]
    <2>1. SetNotes(list, push)
      BY <1>8 DEF MarkAsRead
    <2>2. DOMAIN list = DOMAIN notes /\ list = [n \in DOMAIN notes |-> list[n]]
          /\ \A n \in DOMAIN notes : list[n] \in {notes[n], [notes[n] EXCEPT !.read = TRUE]}
      OBVIOUS
    <2> HIDE DEF list
    <2> QED  BY <1>7, <2>1, <2>2
  <1>9. CASE MarkAllAsRead
    <2> DEFINE list == [n \in DOMAIN notes |-> [notes[n] EXCEPT !.read = TRUE]]
    <2>1. SetNotes(list, push)
      BY <1>9 DEF MarkAllAsRead
    <2>2. DOMAIN list = DOMAIN notes /\ list = [n \in DOMAIN notes |-> list[n]]
          /\ \A n \in DOMAIN notes : list[n] \in {notes[n], [notes[n] EXCEPT !.read = TRUE]}
      OBVIOUS
    <2> HIDE DEF list
    <2> QED  BY <1>7, <2>1, <2>2
  <1>10. CASE ClearAll
    <2>1. SetNotes(<<>>, push) /\ <<>> \in Seq(Notes)
      BY <1>10 DEF ClearAll
    <2> QED  BY <1>1, <2>1, SetNotesKeeps
  <1>11. CASE PersistNotes
    BY <1>11, WritesKeep
  <1>12. CASE NotesRestart
    <2>1. /\ notes' = <<>> /\ noteCalls' = <<>> /\ UNCHANGED noteStore
          /\ push' = [IdlePush EXCEPT !.arrived = push.arrived, !.registered = push.registered]
      BY <1>12 DEF NotesRestart
    <2>2. <<>> \in CutLists /\ <<>> \in Seq(CutCalls) /\ <<>> \in Seq(Notes)
      BY NotificationAssumption DEF CutLists
    <2>3. push' \in Pushes /\ push'.pc = "off" /\ Len(noteCalls') = 0
      BY <1>1, <2>1, <2>2 DEF Pushes, IdlePush, InitSteps
    <2>4. OneRead' /\ Synced'
      BY <2>3 DEF OneRead, Synced
    <2> QED  BY <1>1, <2>1, <2>2, <2>3, <2>4 DEF NoteInv, NotesTyped
  <1> QED  BY <1>2, <1>3, <1>4, <1>5, <1>6, <1>8, <1>9, <1>10, <1>11, <1>12, Zenon DEF NotificationNext

\* The list of notifications holds only values that its state in the code can hold.
THEOREM NotificationsAreTyped == NotificationSpec => []NotificationTypeOK
  <1>1. NoteInv => NotificationTypeOK
    <2> SUFFICES ASSUME NoteInv PROVE NotificationTypeOK
      OBVIOUS
    <2>1. CutLists \subseteq Seq(Notes) /\ CutCalls \subseteq Calls /\ noteCalls \in Seq(CutCalls)
      BY DEF NoteInv, NotesTyped, CutLists, CutCalls, Calls
    <2>2. noteCalls \in Seq(Calls)
      BY <2>1, SeqMonotonic
    <2> QED  BY <2>1, <2>2 DEF NoteInv, NotesTyped, Pushes, NotificationTypeOK
  <1> QED  BY <1>1, NoteStart, NoteStep, PTL DEF NotificationSpec

\* Once the list is loaded and no call is under way, a restart brings back the list that is
\* shown, up to the number that is kept, and no more unread ones, whatever arrives, is read
\* or cleared while earlier lists are still being written and although such writes fail:
\* all but a failed last write or read, or a change while the list was loaded (persistNotifications).
THEOREM RestartBringsBack == NotificationSpec => []StoredIsShown
  <1>1. NoteInv => StoredIsShown
    <2> SUFFICES ASSUME NoteInv, push.pc # "off", ~Loading, ~push.missed, noteCalls = <<>>
                 PROVE  noteStore = Keep(notes) /\ UnreadCount(noteStore) <= UnreadCount(notes)
      BY DEF StoredIsShown
    <2>1. noteStore = Keep(notes)
      BY DEF NoteInv, Synced, LatestWrite, Loading
    <2> DEFINE kept == {n \in DOMAIN Keep(notes) : ~Keep(notes)[n].read}
               shown == {n \in DOMAIN notes : ~notes[n].read}
    <2>2. notes \in Seq(Notes)
      BY DEF NoteInv, NotesTyped
    <2>3. kept \subseteq shown
      BY <2>2, KeepCuts
    <2>4. IsFiniteSet(shown)
      <3>1. DOMAIN notes = 1..Len(notes) /\ Len(notes) \in Nat
        BY <2>2, LenProperties
      <3>2. IsFiniteSet(1..Len(notes))
        BY <3>1, FS_Interval
      <3> QED  BY <3>1, <3>2, FS_Subset
    <2>5. Cardinality(kept) <= Cardinality(shown)
      BY <2>3, <2>4, FS_Subset
    <2> QED  BY <2>1, <2>5 DEF UnreadCount
  <1> QED  BY <1>1, NoteStart, NoteStep, PTL DEF NotificationSpec

-----------------------------------------------------------------------------
(* The parts together                                                      *)

\* A behaviour of all the parts is one of each: a step of one leaves the others alone.
LEMMA AccountIsParts ==
    ClientSpec => VaultSpec /\ SessionSpec /\ GuideSpec /\ ProfileSpec /\ NotificationSpec
  <1>1. ClientInit => VaultInit /\ SessionInit /\ GuideInit /\ ProfileInit /\ NotificationInit
    BY DEF ClientInit
  <1>2. [ClientNext]_<<vaultVars, sessionVars, guide, profVars, noteVars, focus>>
        => /\ [VaultNext]_vaultVars /\ [SessionNext]_sessionVars /\ [GuideNext]_guide
           /\ [ProfileNext]_profVars /\ [NotificationNext]_noteVars
    BY DEF ClientNext
  <1> QED  BY <1>1, <1>2, PTL DEF ClientSpec, VaultSpec, SessionSpec, GuideSpec, ProfileSpec, NotificationSpec

\* Whatever the client keeps of its user has its type, in every state of every part.
THEOREM AccountIsTyped == ClientSpec => []ClientTypeOK
  <1> DEFINE Focuses == {"vault", "session", "guide", "profile", "notifications"}
             Typed == VaultTypeOK /\ SessionTypeOK /\ GuideTypeOK /\ ProfileTypeOK /\ NotificationTypeOK
             HasFocus == focus \in Focuses
  <1>1. HasFocus /\ Typed => ClientTypeOK
    <2> SUFFICES ASSUME focus \in Focuses, Typed PROVE ClientTypeOK
      OBVIOUS
    <2>1. CASE focus = "vault"
      BY <2>1, Zenon DEF ClientTypeOK
    <2>2. CASE focus = "session"
      BY <2>2, Zenon DEF ClientTypeOK
    <2>3. CASE focus = "guide"
      BY <2>3, Zenon DEF ClientTypeOK
    <2>4. CASE focus = "profile"
      BY <2>4, Zenon DEF ClientTypeOK
    <2>5. CASE focus = "notifications"
      BY <2>5, Zenon DEF ClientTypeOK
    <2> QED  BY <2>1, <2>2, <2>3, <2>4, <2>5
  <1>2. ClientInit => HasFocus
    BY DEF ClientInit
  <1>3. HasFocus /\ [ClientNext]_<<vaultVars, sessionVars, guide, profVars, noteVars, focus>> => HasFocus'
    BY DEF ClientNext
  <1> HIDE DEF HasFocus
  <1> QED  BY <1>1, <1>2, <1>3, AccountIsParts, VaultIsTyped, SessionTypes, GuideIsTyped, ProfileIsTyped,
              NotificationsAreTyped, PTL DEF ClientSpec

\* What is proved of each part by itself holds of them together, as the run checks it; and
\* the login's buttons are never left disabled.
THEOREM AccountKeepsItsPromises ==
    ClientSpec => [](/\ FilesUnderStoredKeys /\ ListMatchesFiles /\ TempCleared /\ MaskingConfirmedForFile
                     /\ SessionConsistent /\ SessionKept /\ LoadingEnds /\ BracketsOrdered /\ RowsComplete
                     /\ CalculatorShowsOwn /\ StoredIsShown)
  <1> QED  BY AccountIsParts, FilesStayReadable, FilesFollowTheList, CopiesAreRemoved, MaskingIsConfirmed,
              SessionIsConsistent, SessionIsKept, LoadingFollowsRestore, EstimatesAreOrdered, RowsAreComplete,
              CalculatorIsOwn, RestartBringsBack, PTL
=============================================================================
