------------------------------ MODULE Profile ------------------------------
(***************************************************************************)
(* The profile of the mobile client: the onboarding screens and their      *)
(* store, the calculator, the profile tab, and the cache of lib/cache.ts   *)
(* through which the profile is read, against the profile rows of the      *)
(* server.                                                                 *)
(*                                                                         *)
(* Nothing clears the onboarding store and the cache when the account      *)
(* changes, and saving a profile does not touch the cache.                 *)
(*                                                                         *)
(* Abstracted: a row keeps the answers of the onboarding only (the other   *)
(* columns are forwarded or overwritten in the same way), a nickname is    *)
(* known by whether there is one, and a preview of recommendations by the  *)
(* answers it was computed for.                                            *)
(***************************************************************************)
EXTENDS FiniteSets, IncomeMedian

CONSTANTS
    Regions, Ages, Enrollments, Employments,   \* bound: the answers the user chooses from
    Households,      \* bound: the pairs (size, income) typed into the income guide
    MaxUsers,        \* bound: accounts that use this phone
    MaxSaves,        \* bound: profile saves under way at the same time
    MaxErrors        \* bound: calls that fail

ASSUME ProfileAssumption ==
    /\ MaxUsers \in Nat /\ MaxSaves \in Nat /\ MaxErrors \in Nat /\ Ages \subseteq 1..99
    /\ Regions \subseteq {"busan", "daegu", "other"}
    /\ Households \subseteq (1..7) \X Nat
    /\ Enrollments \subseteq {"enrolled", "leave", "graduated", "none"}
    /\ Employments \subseteq {"unemployed", "employed", "etc"}

VARIABLES
    profUser,    \* the account that is signed in, 0 for none
    profPage,    \* the screen on top
    answers,     \* useOnboardingStore
    profRows,    \* the server: the profile row of each account
    profSaves,   \* POST /profile under way
    profEntry,   \* AsyncStorage: the entry "profile:me" of the cache
    profQuery,   \* react-query's ["profile", "me"]: data, age, error, progress
    calc,        \* the calculator, the result it keeps in AsyncStorage, a fetch left behind
    profErrors   \* calls that failed so far

profVars == <<profUser, profPage, answers, profRows, profSaves, profEntry, profQuery, calc, profErrors>>

Users    == 1..MaxUsers
Blank    == "blank"
Brackets == 1..10
GuideBrackets == {EstimateBracket(h[1], h[2]) : h \in Households}

Answers == [nick: BOOLEAN, region: Regions \cup {Blank}, age: Ages \cup {0},
            enrollment: Enrollments \cup {Blank}, employment: Employments \cup {Blank},
            bracket: Brackets \cup {0}]
NoAnswers == [nick |-> FALSE, region |-> Blank, age |-> 0, enrollment |-> Blank,
              employment |-> Blank, bracket |-> 0]

\* ProfileInput; a bracket of 0 is NULL
Rows  == [region: Regions \cup {Blank}, age: Ages \cup {0}, enrollment: Enrollments \cup {Blank},
          employment: Employments \cup {Blank}, bracket: Brackets \cup {0}]
NoRow == [region |-> Blank, age |-> 0, enrollment |-> Blank, employment |-> Blank, bracket |-> 0]

Onboarding == {"nick", "region", "status", "work"}
ProfPages  == Onboarding \cup {"home", "calculator", "profile"}

Saves == [user: Users, row: Rows, from: {"work", "profile"}]
Entries == [row: Rows, expired: BOOLEAN]
NoEntry == [row |-> NoRow, expired |-> FALSE]
\* had: there was an older entry when the fetch began, and it could be read since
IdleQuery == [row |-> NoRow, stale |-> FALSE, error |-> FALSE, pc |-> "idle", had |-> FALSE]
\* of: the answers the fetch was begun with; failed: it ended without a result of its own
IdleCalc  == [result |-> NoRow, of |-> NoRow, loading |-> FALSE, error |-> FALSE, pc |-> "idle",
              failed |-> FALSE]

ProfileTypeOK ==
    /\ profUser \in 0..MaxUsers /\ profPage \in ProfPages /\ answers \in Answers
    /\ profRows \in [Users -> Rows] /\ profSaves \subseteq Saves
    /\ profEntry \in Entries
    /\ profQuery \in [row: Rows, stale: BOOLEAN, error: BOOLEAN, had: BOOLEAN,
                      pc: {"idle", "cache", "network", "fallback"}]
    /\ calc.ui \in [result: Rows, of: Rows, loading: BOOLEAN, error: BOOLEAN,
                    failed: BOOLEAN, pc: {"idle", "cache", "network"}]
    /\ calc.kept \in Rows /\ calc.left \in Rows /\ calc.below \in ProfPages
    /\ profErrors \in 0..MaxErrors

ProfileInit ==
    /\ profUser = 0 /\ profPage = "home" /\ answers = NoAnswers
    /\ profRows = [u \in Users |-> NoRow] /\ profSaves = {}
    /\ profEntry = NoEntry /\ profQuery = IdleQuery
    \* left: a fetch that goes on after its calculator; below: the screen under the calculator
    /\ calc = [ui |-> IdleCalc, kept |-> NoRow, left |-> NoRow, below |-> "home"]
    /\ profErrors = 0

CallFails == profErrors < MaxErrors /\ profErrors' = profErrors + 1

-----------------------------------------------------------------------------
(* What the screens offer                                                  *)

NicknameScreen == {"back", "input"} \cup IF answers.nick THEN {"next", "clear"} ELSE {}

RegionScreen == {"back", "regions"} \cup IF answers.region = Blank THEN {} ELSE {"next"}

\* Mutant: the age is not checked.
StatusScreenAnyAge ==
    IF answers.region = Blank THEN {}
    ELSE {"back", "age", "enrollments"} \cup IF answers.enrollment # Blank THEN {"next"} ELSE {}

\* step2 and step3 show nothing, and go back to the start, when earlier answers are missing.
StatusScreen ==
    IF answers.region = Blank THEN {}
    ELSE {"back", "age", "enrollments"}
         \cup IF answers.age \in 15..45 /\ answers.enrollment # Blank THEN {"next"} ELSE {}

WorkScreen ==
    IF answers.region = Blank \/ answers.enrollment = Blank THEN {}
    ELSE {"back", "employments", "brackets", "guide"}
         \cup (IF answers.bracket # 0 THEN {"skip"} ELSE {})
         \cup (IF answers.employment # Blank THEN {"next"} ELSE {})

CalculatorScreen ==
    IF calc.ui.loading /\ calc.ui.result = NoRow THEN {"spinner"}
    ELSE IF calc.ui.error /\ calc.ui.result = NoRow THEN {"retry", "home"}
    ELSE {"result", "home"}

\* isOffline is shown whenever the last fetch failed, with older data too.
ProfileScreen ==
    IF profUser = 0 THEN {"login"}
    ELSE {"logout", "guide", "vault"} \cup (IF profQuery.error THEN {"offline"} ELSE {})

Shows(page, item) ==
    /\ profPage = page
    /\ item \in CASE page = "nick"       -> NicknameScreen
                  [] page = "region"     -> RegionScreen
                  [] page = "status"     -> StatusScreen
                  [] page = "work"       -> WorkScreen
                  [] page = "calculator" -> CalculatorScreen
                  [] page = "profile"    -> ProfileScreen

-----------------------------------------------------------------------------
(* Accounts                                                                *)

\* A login leads a new account into the onboarding, and others to the tabs.
LogInAs(u) ==
    /\ profUser = 0 /\ profPage \in {"home", "profile"}
    /\ profUser' = u
    /\ profPage' \in {"home", "nick"}
    /\ answers' = [answers EXCEPT !.nick = @ \/ profPage' = "nick"]
    /\ UNCHANGED <<profRows, profSaves, profEntry, profQuery, calc, profErrors>>

\* handleLogout forgets the tokens and the user, and nothing else.
LogOut ==
    /\ Shows("profile", "logout")
    /\ profUser' = 0
    /\ UNCHANGED <<profPage, answers, profRows, profSaves, profEntry, profQuery, calc, profErrors>>

-----------------------------------------------------------------------------
(* The onboarding                                                          *)

\* The button of the home tab.  The effect of the first screen takes the nickname of the
\* account whenever the field is empty, also when the user has just emptied it: it is never empty.
StartOnboarding ==
    /\ profPage = "home" /\ profUser # 0
    /\ profPage' = "nick"
    /\ answers' = [answers EXCEPT !.nick = TRUE]
    /\ UNCHANGED <<profUser, profRows, profSaves, profEntry, profQuery, calc, profErrors>>

SetAnswer ==
    /\ \/ Shows("region", "regions") /\ \E r \in Regions : answers' = [answers EXCEPT !.region = r]
       \/ Shows("status", "age") /\ \E a \in Ages : answers' = [answers EXCEPT !.age = a]
       \/ Shows("status", "enrollments")
          /\ \E e \in Enrollments : answers' = [answers EXCEPT !.enrollment = e]
       \/ Shows("work", "employments")
          /\ \E e \in Employments : answers' = [answers EXCEPT !.employment = e]
       \/ Shows("work", "guide") /\ \E b \in GuideBrackets : answers' = [answers EXCEPT !.bracket = b]
       \/ Shows("work", "skip") /\ answers' = [answers EXCEPT !.bracket = 0]
    /\ UNCHANGED <<profUser, profPage, profRows, profSaves, profEntry, profQuery, calc, profErrors>>

\* handleNext of the first three screens, handleBack of all
NextStep ==
    /\ \/ Shows("nick", "next") /\ profPage' = "region"
       \/ Shows("region", "next") /\ profPage' = "status"
       \/ Shows("status", "next") /\ profPage' = "work"
    /\ UNCHANGED <<profUser, answers, profRows, profSaves, profEntry, profQuery, calc, profErrors>>

PreviousStep ==
    /\ \/ Shows("nick", "back") /\ profPage' = "home"
       \/ Shows("region", "back") /\ profPage' = "nick"
       \/ Shows("status", "back") /\ profPage' = "region"
       \/ Shows("work", "back") /\ profPage' = "status"
    /\ UNCHANGED <<profUser, answers, profRows, profSaves, profEntry, profQuery, calc, profErrors>>

AnsweredRow == [region |-> answers.region, age |-> answers.age, enrollment |-> answers.enrollment,
                employment |-> answers.employment, bracket |-> answers.bracket]

StartSave(row, from) ==
    /\ Cardinality(profSaves) < MaxSaves
    /\ profSaves' = profSaves \cup {[user |-> profUser, row |-> row, from |-> from]}

\* handleNext of the last screen: the button stays enabled while the save is under way.
SaveAnswers ==
    /\ Shows("work", "next") /\ profUser # 0
    /\ StartSave(AnsweredRow, "work")
    /\ UNCHANGED <<profUser, profPage, answers, profRows, profEntry, profQuery, calc, profErrors>>

\* A calculator that begins to fetch for the answers of now
Fetching == [IdleCalc EXCEPT !.loading = TRUE, !.pc = "cache", !.of = AnsweredRow]

\* The fetch of a calculator that is left goes on (bound: one at a time).
LeftBehind == IF calc.ui.pc = "idle" THEN calc.left ELSE calc.ui.of
CanLeave == calc.ui.pc = "idle" \/ calc.left = NoRow

\* POST /profile replaces the whole row, or fails.  Either way the onboarding goes on to
\* a calculator, on top of the screen shown now; the profile tab refetches after a success.
SaveAnswered(s) ==
    /\ s \in profSaves /\ profSaves' = profSaves \ {s}
    /\ \/ /\ profRows' = [profRows EXCEPT ![s.user] = s.row] /\ UNCHANGED profErrors
          /\ profQuery' = IF s.from = "profile" THEN [profQuery EXCEPT !.pc = "cache"] ELSE profQuery
       \/ CallFails /\ UNCHANGED <<profRows, profQuery>>
    /\ IF s.from = "work"
       THEN /\ profPage' = "calculator" /\ CanLeave
            /\ calc' = [calc EXCEPT !.ui = Fetching, !.left = LeftBehind,
                                    !.below = IF profPage = "calculator" THEN @ ELSE profPage]
       ELSE UNCHANGED <<profPage, calc>>
    /\ UNCHANGED <<profUser, answers, profEntry>>

-----------------------------------------------------------------------------
(* The calculator                                                          *)

ShowKept == [calc.ui EXCEPT !.result = IF calc.kept # NoRow THEN calc.kept ELSE @,
                            !.loading = calc.kept = NoRow]
Ended == [calc.ui EXCEPT !.pc = "idle", !.of = NoRow, !.loading = FALSE]
FetchFailed == [Ended EXCEPT !.error = TRUE, !.failed = TRUE]

\* Mutant: the result that was kept will do.
CalcReadCacheOnly ==
    /\ calc.ui.pc = "cache"
    /\ calc' = [calc EXCEPT !.ui = IF calc.kept # NoRow THEN [Ended EXCEPT !.result = calc.kept]
                                    ELSE [calc.ui EXCEPT !.pc = "network"]]
    /\ UNCHANGED <<profUser, profPage, answers, profRows, profSaves, profEntry, profQuery, profErrors>>

\* fetchData shows the result that was kept, whoever it was computed for; when it cannot
\* be read that is an error ...
CalcReadCache ==
    /\ calc.ui.pc = "cache"
    /\ \/ calc' = [calc EXCEPT !.ui = [ShowKept EXCEPT !.pc = "network"]] /\ UNCHANGED profErrors
       \/ calc' = [calc EXCEPT !.ui = FetchFailed] /\ CallFails
    /\ UNCHANGED <<profUser, profPage, answers, profRows, profSaves, profEntry, profQuery>>

\* ... and then asks the server, whose result is shown and kept, if it can be written.
CalcAnswer ==
    /\ calc.ui.pc = "network"
    /\ LET shown == [Ended EXCEPT !.result = calc.ui.of]
       IN  \/ calc' = [calc EXCEPT !.ui = shown, !.kept = calc.ui.of] /\ UNCHANGED profErrors
           \/ calc' = [calc EXCEPT !.ui = [shown EXCEPT !.error = TRUE]] /\ CallFails
           \/ calc' = [calc EXCEPT !.ui = FetchFailed] /\ CallFails
    /\ UNCHANGED <<profUser, profPage, answers, profRows, profSaves, profEntry, profQuery>>

\* The fetch of a calculator that was left keeps its result too, or fails.
CalcLeftAnswer ==
    /\ calc.left # NoRow
    /\ \/ calc' = [calc EXCEPT !.left = NoRow, !.kept = calc.left] /\ UNCHANGED profErrors
       \/ calc' = [calc EXCEPT !.left = NoRow] /\ CallFails
    /\ UNCHANGED <<profUser, profPage, answers, profRows, profSaves, profEntry, profQuery>>

CalcRetry ==
    /\ Shows("calculator", "retry")
    /\ calc' = [calc EXCEPT !.ui = Fetching]
    /\ UNCHANGED <<profUser, profPage, answers, profRows, profSaves, profEntry, profQuery, profErrors>>

\* handleGoHome, offered as soon as there is a result or an error, also while the fetch
\* goes on; and the gesture back to the screen below.  (Two calculators on top of each
\* other are left together.)
CalcGoHome ==
    /\ profPage = "calculator" /\ CanLeave
    /\ \/ profPage' = calc.below
       \/ Shows("calculator", "home") /\ profPage' = "home"
    /\ calc' = [calc EXCEPT !.ui = IdleCalc, !.left = LeftBehind, !.below = "home"]
    /\ UNCHANGED <<profUser, answers, profRows, profSaves, profEntry, profQuery, profErrors>>

-----------------------------------------------------------------------------
(* The profile tab, and its query through cachedFetch                      *)

\* The tab opens; react-query fetches what it does not have, or has for ten minutes.
OpenProfile ==
    /\ profPage = "home"
    /\ profPage' = "profile"
    /\ profQuery' = IF profUser # 0 /\ profQuery.pc = "idle" /\ (profQuery.row = NoRow \/ profQuery.stale)
                    THEN [profQuery EXCEPT !.pc = "cache"] ELSE profQuery
    /\ UNCHANGED <<profUser, answers, profRows, profSaves, profEntry, calc, profErrors>>

LeaveProfile ==
    /\ profPage = "profile" /\ profPage' = "home"
    /\ UNCHANGED <<profUser, answers, profRows, profSaves, profEntry, profQuery, calc, profErrors>>

\* The data of the query; the effect seeds an empty bracket from the row.
Served(row) ==
    /\ profQuery' = [IdleQuery EXCEPT !.row = row]
    /\ answers' = IF answers.bracket = 0 /\ row.bracket # profQuery.row.bracket
                  THEN [answers EXCEPT !.bracket = row.bracket] ELSE answers

\* cacheGet: a fresh entry is the answer; an expired one is removed, or stays when that
\* fails; an entry that cannot be read is none.
CacheGet ==
    /\ profQuery.pc = "cache"
    /\ \/ /\ profEntry.row # NoRow /\ ~profEntry.expired
          /\ Served(profEntry.row) /\ UNCHANGED <<profEntry, profErrors>>
       \/ /\ profQuery' = [profQuery EXCEPT !.pc = "network", !.had = profEntry.row # NoRow]
          /\ \/ /\ profEntry.row = NoRow \/ profEntry.expired
                /\ profEntry' = NoEntry /\ UNCHANGED profErrors
             \/ profEntry.row # NoRow /\ CallFails /\ UNCHANGED profEntry
          /\ UNCHANGED answers
    /\ UNCHANGED <<profUser, profPage, profRows, profSaves, calc>>

\* The network: the row is served, and cached if it can be written.  Without a row (404),
\* without a session (401) or without a network the old entry is looked for.
NetworkAnswer ==
    /\ profQuery.pc = "network"
    /\ \/ /\ profUser # 0 /\ profRows[profUser] # NoRow
          /\ Served(profRows[profUser])
          /\ \/ profEntry' = [row |-> profRows[profUser], expired |-> FALSE] /\ UNCHANGED profErrors
             \/ UNCHANGED profEntry /\ CallFails
       \/ /\ profQuery' = [profQuery EXCEPT !.pc = "fallback"]
          /\ IF profUser # 0 /\ profRows[profUser] # NoRow THEN CallFails ELSE UNCHANGED profErrors
          /\ UNCHANGED <<profEntry, answers>>
    /\ UNCHANGED <<profUser, profPage, profRows, profSaves, calc>>

\* getStale
StaleAnswer ==
    /\ profQuery.pc = "fallback"
    /\ \/ profEntry.row # NoRow /\ Served(profEntry.row) /\ UNCHANGED profErrors
       \/ /\ profEntry.row = NoRow /\ UNCHANGED <<answers, profErrors>>
          /\ profQuery' = [profQuery EXCEPT !.pc = "idle", !.error = TRUE]
       \/ /\ profEntry.row # NoRow /\ UNCHANGED answers /\ CallFails
          /\ profQuery' = [profQuery EXCEPT !.pc = "idle", !.error = TRUE, !.had = FALSE]
    /\ UNCHANGED <<profUser, profPage, profRows, profSaves, profEntry, calc>>

\* handleApplyIncomeBracket: the store, and, when the profile has loaded, the whole row
\* as the query knows it with the new bracket
ApplyIncomeBracket(b) ==
    /\ Shows("profile", "guide")
    /\ answers' = [answers EXCEPT !.bracket = b]
    /\ IF profQuery.row.region # Blank /\ profQuery.row.age # 0
       THEN StartSave([profQuery.row EXCEPT !.bracket = b], "profile")
       ELSE UNCHANGED profSaves
    /\ UNCHANGED <<profUser, profPage, profRows, profEntry, profQuery, calc, profErrors>>

-----------------------------------------------------------------------------

\* Ten minutes make the query stale, two hours expire the entry of the cache.
TimePasses ==
    /\ profPage = "home" /\ profQuery.pc = "idle" /\ calc.left = NoRow /\ profSaves = {}
    /\ profQuery' = [profQuery EXCEPT !.stale = profQuery.row # NoRow]
    /\ \/ profEntry' = [profEntry EXCEPT !.expired = profEntry.row # NoRow]
       \/ UNCHANGED profEntry
    /\ UNCHANGED <<profUser, profPage, answers, profRows, profSaves, calc, profErrors>>

\* The app is killed and started again, signed in as before.
RestartPhone ==
    /\ profPage' = "home" /\ answers' = NoAnswers
    /\ profQuery' = IdleQuery
    /\ calc' = [calc EXCEPT !.ui = IdleCalc, !.left = NoRow, !.below = "home"]
    /\ \E lost \in SUBSET profSaves :
           /\ profSaves' = {}
           /\ \A s, t \in profSaves \ lost : s.user = t.user => s = t
           /\ profRows' = [u \in Users |->
                 IF \E s \in profSaves \ lost : s.user = u
                 THEN (CHOOSE s \in profSaves \ lost : s.user = u).row ELSE profRows[u]]
    /\ UNCHANGED <<profUser, profEntry, profErrors>>

ProfileNext ==
    \/ \E u \in Users : LogInAs(u)
    \/ LogOut \/ StartOnboarding \/ SetAnswer \/ NextStep \/ PreviousStep
    \/ SaveAnswers \/ \E s \in profSaves : SaveAnswered(s)
    \/ CalcReadCache \/ CalcAnswer \/ CalcLeftAnswer \/ CalcRetry \/ CalcGoHome
    \/ OpenProfile \/ LeaveProfile \/ CacheGet \/ NetworkAnswer \/ StaleAnswer
    \/ \E b \in GuideBrackets : ApplyIncomeBracket(b)
    \/ TimePasses \/ RestartPhone

ProfileSpec == ProfileInit /\ [][ProfileNext]_profVars

-----------------------------------------------------------------------------
(* Properties                                                              *)

\* No order of going back, editing and going on again, and no restart, gets a row saved
\* that lacks an answer the onboarding requires or has an age outside 15..45.
RowsComplete ==
    \A u \in Users : profRows[u] # NoRow =>
        /\ profRows[u].region # Blank /\ profRows[u].age \in 15..45
        /\ profRows[u].enrollment # Blank /\ profRows[u].employment # Blank

\* The calculator, however it is left, retried and opened again: a screen that has stopped
\* fetching shows a result for the answers of now (a bracket the profile tab has filled in
\* meanwhile aside), or, when the fetch failed, an older result or the retry button.
CalculatorShowsOwn ==
    profPage = "calculator" /\ calc.ui.pc = "idle" =>
        IF calc.ui.failed THEN "retry" \in CalculatorScreen \/ calc.ui.result # NoRow
        ELSE \E b \in {0, answers.bracket} : calc.ui.result = [AnsweredRow EXCEPT !.bracket = b]

\* cachedFetch (lib/cache.ts): "Network error + stale cache exists -> return stale data as
\* fallback."  So a fetch that ends in an error found no older entry when it began.
StaleServedOffline == profQuery.error /\ profQuery.pc = "idle" => ~profQuery.had

\* handleApplyIncomeBracket: "we must forward every already-known field here.  Sending
\* only the income bracket would silently null out anything else the user has set."
\* So applying a bracket changes nothing but the bracket of the user's row.
BracketSaveKeepsRow ==
    [][ \A s \in profSaves : s.from = "profile" /\ s \notin profSaves' =>
            profRows'[s.user] \in {profRows[s.user], [profRows[s.user] EXCEPT !.bracket = s.row.bracket]}
      ]_profVars
=============================================================================
