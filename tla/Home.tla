--------------------------------- MODULE Home ---------------------------------
(***************************************************************************)
(* The first and the third tab: the summary, the recommendations and the   *)
(* things to do of the home screen ((tabs)/index.tsx), and the package of  *)
(* recommendations ((tabs)/manage.tsx).                                    *)
(*                                                                         *)
(* Both read the dashboard through one query, and an entry in AsyncStorage *)
(* below it (cachedFetch), that name no account and that a logout neither  *)
(* clears nor stops; the home screen's recommendations have an entry per   *)
(* profile, the package's are always those of one fixed profile.           *)
(*                                                                         *)
(* Abstracted: a recommendation is a score, a deadline and whether the     *)
(* package lists it; the dashboard is the account it is about.             *)
(***************************************************************************)
EXTENDS Integers, Sequences, FiniteSets

CONSTANTS
    HomeAccounts,   \* bound: accounts that use the phone
    HomeRegions,    \* bound: the regions of the onboarding answers
    Recommended     \* the server's recommendations for a region, best first (see IsRecommended)

FixedRegion == "busan"
IsRecommended(r) ==
    /\ r.score \in 0..100 /\ r.days \in Seq(Int) /\ Len(r.days) <= 1 /\ r.listed \in BOOLEAN

ASSUME HomeAssumption ==
    /\ HomeAccounts \subseteq Nat \ {0} /\ "" \notin HomeRegions
    /\ HomeRegions \cup {FixedRegion} \subseteq DOMAIN Recommended
    /\ \A r \in DOMAIN Recommended :
          Recommended[r] \in Seq({Recommended[r][n] : n \in DOMAIN Recommended[r]})
          /\ \A n \in DOMAIN Recommended[r] :
                IsRecommended(Recommended[r][n])
                /\ \A k \in 1..n : Recommended[r][k].score >= Recommended[r][n].score

VARIABLES
    account,     \* who is signed in, 0 for nobody
    homeRegion,  \* the onboarding's region, "" when it was not answered
    dashboard,   \* the query of the dashboard: whose data, error, whose request is under way,
                 \* and whose data AsyncStorage keeps
    homeCache,   \* the recommendations' entries, by region
    package,     \* the package's own entry
    saving       \* the package's button: idle, waiting, told

homeVars == <<account, homeRegion, dashboard, homeCache, package, saving>>

NoEntryYet == [data |-> <<>>, known |-> FALSE, error |-> FALSE, asked |-> FALSE]

\* useMemo defaultProfile: a region that is missing is Busan.
HomeProfile == IF homeRegion = "" THEN FixedRegion ELSE homeRegion

HomeTypeOK ==
    /\ account \in HomeAccounts \cup {0} /\ homeRegion \in HomeRegions \cup {""}
    /\ dashboard \in [of: HomeAccounts \cup {0}, error: BOOLEAN, asked: HomeAccounts \cup {0},
                     kept: HomeAccounts \cup {0}]
    /\ DOMAIN homeCache = HomeRegions \cup {FixedRegion}
    /\ \A r \in DOMAIN homeCache : homeCache[r].data \in {<<>>, Recommended[r]}
    /\ package.data \in {<<>>, Recommended[FixedRegion]} /\ saving \in {"idle", "waiting", "told"}

HomeInit ==
    /\ account = 0 /\ homeRegion = "" /\ saving = "idle"
    /\ dashboard = [of |-> 0, error |-> FALSE, asked |-> 0, kept |-> 0]
    /\ homeCache = [r \in HomeRegions \cup {FixedRegion} |-> NoEntryYet] /\ package = NoEntryYet

-----------------------------------------------------------------------------
(* What the tabs show                                                      *)

Top(items, n) == SubSeq(items, 1, IF Len(items) < n THEN Len(items) ELSE n)

\* recommendationToBadge: a deadline within a week, or past.
Badge(item) ==
    IF item.days # <<>> /\ \A n \in DOMAIN item.days : item.days[n] <= 7 THEN "deadline"
    ELSE IF item.score >= 80 THEN "recommended" ELSE "available"

\* Mutant: one entry for every profile.
HomeEntryShared == homeCache[FixedRegion]

HomeEntry == homeCache[HomeProfile]
HomeCards == [n \in DOMAIN Top(HomeEntry.data, 5) |->
                 [item |-> HomeEntry.data[n], badge |-> Badge(HomeEntry.data[n])]]

HomeLoading == (dashboard.asked # 0 /\ dashboard.of = 0) \/ (HomeEntry.asked /\ ~HomeEntry.known)

HomeScreen ==
    (IF (dashboard.error \/ HomeEntry.error) /\ ~HomeLoading THEN {"banner"} ELSE {})
    \cup (IF HomeLoading THEN {"skeleton"} ELSE {"summary"})
    \cup (IF account = 0 THEN {"login", "tools"}
          ELSE {"tools", "all", "edit"} \cup (IF HomeLoading THEN {} ELSE {"cards"}))
    \cup (IF dashboard.of = 0 THEN {"nothing to do"} ELSE {"things to do"})

\* buildDocumentItems: the things to do come first, three items in all.
ThingsToDo(todos, deadlines) == Top(todos \o Top(deadlines, 2), 3)

\* recommendToScholarship
PackageCard(item) ==
    [item |-> item, high |-> item.score >= 80,
     deadline |-> IF item.days = <<>> THEN "none" ELSE IF item.days[1] <= 0 THEN "closed" ELSE "days left"]

PackageList ==
    LET listed == Top(SelectSeq(package.data, LAMBDA i : i.listed), 4)
    IN  [n \in DOMAIN listed |-> PackageCard(listed[n])]

\* scoreFromRecommendations: the rounded mean of the five best, of whatever type.
OverallScore ==
    LET best == Top(package.data, 5)
        sum[n \in 0..Len(best)] == IF n = 0 THEN 0 ELSE sum[n - 1] + best[n].score
    IN  IF best = <<>> THEN 0 ELSE (2 * sum[Len(best)] + Len(best)) \div (2 * Len(best))

\* CircularProgress: the degrees that the two halves of the ring are turned by
ScoreRing ==
    LET filled == (OverallScore * 360) \div 100
    IN  [first |-> IF filled < 180 THEN filled ELSE 180, second |-> IF filled > 180 THEN filled - 180 ELSE 0]

PackageLoading == (package.asked /\ ~package.known) \/ (dashboard.asked # 0 /\ dashboard.of = 0)
PackageScreen ==
    IF account = 0 THEN {"login"}
    ELSE {"tools"} \cup (IF (package.error \/ dashboard.error) /\ ~PackageLoading THEN {"banner"} ELSE {})
                   \cup (IF PackageLoading THEN {"skeleton"} ELSE {"list", "save"})

-----------------------------------------------------------------------------
(* Accounts and answers                                                    *)

\* A query is mounted with a session: it reads what it does not have, or has for long.
Ask(entry) == {[entry EXCEPT !.asked = TRUE, !.error = @ /\ entry.known]}
              \cup (IF entry.known \/ entry.asked THEN {entry} ELSE {})

AskDashboard ==
    \/ dashboard.of # 0 /\ UNCHANGED dashboard
    \/ dashboard' = [dashboard EXCEPT !.asked = IF @ = 0 THEN account' ELSE @,
                                      !.error = @ /\ dashboard.of # 0]

AskRecommendations(r) == \E e \in Ask(homeCache[r]) : homeCache' = [homeCache EXCEPT ![r] = e]

SignIn(a) ==
    /\ account = 0 /\ "login" \in HomeScreen
    /\ account' = a /\ AskDashboard /\ AskRecommendations(HomeProfile)
    /\ package' \in Ask(package)
    /\ UNCHANGED <<homeRegion, saving>>

\* A logout on the profile tab, or by a request that is refused: the data stay.
SignOut ==
    /\ account # 0 /\ account' = 0
    /\ UNCHANGED <<homeRegion, dashboard, homeCache, package, saving>>

\* handleFAB leads to the onboarding, which changes the answers.
Answer(r) ==
    /\ "edit" \in HomeScreen /\ homeRegion' = r /\ AskRecommendations(r)
    /\ UNCHANGED <<account, dashboard, package, saving>>

-----------------------------------------------------------------------------
(* Answers of the server                                                   *)

\* cachedFetch: what AsyncStorage keeps, while it is fresh or when the request fails, or the
\* dashboard of the account whose token the request carried, stored when that succeeds.  An
\* entry that has expired is removed, if that succeeds.
DashboardArrives ==
    /\ dashboard.asked # 0
    /\ \/ /\ dashboard.kept # 0
          /\ \E k \in {0, dashboard.kept} :
                dashboard' = [of |-> dashboard.kept, error |-> FALSE, asked |-> 0, kept |-> k]
       \/ \E k \in {0, dashboard.kept, dashboard.asked} :
             dashboard' = [of |-> dashboard.asked, error |-> FALSE, asked |-> 0, kept |-> k]
       \/ \E k \in {0, dashboard.kept} :
             dashboard' = [of |-> dashboard.of, error |-> TRUE, asked |-> 0, kept |-> k]
    /\ UNCHANGED <<account, homeRegion, homeCache, package, saving>>

Received(r) == [data |-> Recommended[r], known |-> TRUE, error |-> FALSE, asked |-> FALSE]
Refused(entry) == [entry EXCEPT !.error = TRUE, !.asked = FALSE]

RecommendationsArrive(r) ==
    /\ homeCache[r].asked
    /\ \E e \in {Received(r), Refused(homeCache[r])} : homeCache' = [homeCache EXCEPT ![r] = e]
    /\ UNCHANGED <<account, homeRegion, dashboard, package, saving>>

PackageArrives ==
    /\ package.asked /\ package' \in {Received(FixedRegion), Refused(package)}
    /\ UNCHANGED <<account, homeRegion, dashboard, homeCache, saving>>

-----------------------------------------------------------------------------
(* The package's button                                                    *)

\* handleSave waits 0.6 seconds and says that the package was saved.
HandleSavePackage ==
    /\ "save" \in PackageScreen /\ saving = "idle" /\ saving' = "waiting"
    /\ UNCHANGED <<account, homeRegion, dashboard, homeCache, package>>

SaveTold ==
    /\ saving = "waiting" /\ saving' = "told"
    /\ UNCHANGED <<account, homeRegion, dashboard, homeCache, package>>

CloseAlert ==
    /\ saving = "told" /\ saving' = "idle"
    /\ UNCHANGED <<account, homeRegion, dashboard, homeCache, package>>

HomeNext ==
    \/ \E a \in HomeAccounts : SignIn(a)
    \/ SignOut \/ \E r \in HomeRegions : Answer(r)
    \/ DashboardArrives \/ PackageArrives
    \/ \E r \in DOMAIN homeCache : RecommendationsArrive(r)
    \/ HandleSavePackage \/ SaveTold \/ CloseAlert

HomeSpec == HomeInit /\ [][HomeNext]_homeVars

-----------------------------------------------------------------------------
(* Properties                                                              *)

\* (tabs)/index.tsx: the recommendations on the home screen are those for the answers of the
\* onboarding at that time, whatever requests for earlier answers are still under way; and
\* with a session, a screen without skeleton and banner shows answers and no placeholders.
\* (tabs)/manage.tsx: a package with a card has a score, and the ring does not pass itself.
CardsMatchAnswers ==
    /\ HomeEntry.known => [n \in DOMAIN HomeCards |-> HomeCards[n].item] = Top(Recommended[HomeProfile], 5)
    /\ account # 0 /\ HomeScreen \cap {"skeleton", "banner"} = {} => dashboard.of # 0 /\ HomeEntry.known
    /\ "save" \in PackageScreen /\ package.data # <<>> =>
          /\ OverallScore <= package.data[1].score
          /\ ScoreRing.first + ScoreRing.second <= 360 /\ (ScoreRing.second > 0 => ScoreRing.first = 180)
=============================================================================
