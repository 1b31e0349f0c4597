------------------------------ MODULE ScreensProofs ------------------------------
(***************************************************************************)
(* Proofs about the screens of the client about programmes, for any        *)
(* programmes, users, answers and numbers of steps.                        *)
(*                                                                         *)
(* Applications: what a fresh status is worth, and that an application is  *)
(* reported after a visit of its site.  PreCheck: documents that get ready *)
(* never worsen the verdict, and edits are kept.  Bookmarks: what          *)
(* overlapping toggles leave in the row, and what the icon shows of it.    *)
(* Preview: a list that stays on the screen without the banner is the      *)
(* server's.  AutoFill: a mark of a copy has its timer.  Explore: the list *)
(* is who qualifies.  Home: what is shown is for the answers of now, and   *)
(* the package's score is a mean.  Stack: the total can be received.       *)
(* WhatIf: what is compared is on the screen.  Each part has its type, and *)
(* what is proved of each holds of all together (MCClientProgrammes).      *)
(***************************************************************************)
EXTENDS MCClientProgrammes,
        SetSums, FiniteSetTheorems, SequenceTheorems, TLAPS

-----------------------------------------------------------------------------
(* The status query against the row                                          *)

\* No update is between its write to the row and its end.
Settled == \A u \in updates : u.at = "sent"

\* The updates, however many
AnyUpdates == [no: Nat, to: Statuses, at: UpdateSteps, by: {"detail", "wizard"}, open: BOOLEAN]

\* The parts of the type that the argument below needs
StatusTypes ==
    /\ visit \in [programme: Programmes, user: Applicants]
    /\ appServer \in Statuses \cup {None}
    /\ query \in [data: Statuses \cup {None}, fresh: BOOLEAN, fetch: {"no", "asked", "read"},
                  answer: Statuses \cup {None}]
    /\ appLog \in [sent: Nat, disturbed: BOOLEAN]
    /\ updates \subseteq AnyUpdates

\* A status was fresh once, or a read brought one, only if the row has one.
StatusKnown ==
    /\ query.fresh => appServer # None /\ visit.user.signedIn
    /\ query.answer # None => appServer # None

\* In an undisturbed behaviour without a written update on its way back, what was read
\* last, or is being carried back, is the row.
StatusCurrent ==
    ~appLog.disturbed /\ Settled =>
        /\ query.fresh /\ query.fetch = "no" => query.data = appServer
        /\ query.fetch = "read" => query.answer = appServer

StatusInv == StatusTypes /\ StatusKnown /\ StatusCurrent

\* No status is called "none".
LEMMA StatusIsNotNone == None \notin Statuses
  BY DEF None, Statuses, StatusSteps

LEMMA QuickActionIsStatus == \A s : QuickAction(s) = None \/ QuickAction(s) \in Statuses
  <1>1. \A n \in 1..6 : StatusSteps[n] \in Statuses
    BY DEF Statuses, StatusSteps
  <1>2. {"planning", "applying", "applied", "waiting", "received"} \subseteq Statuses
    BY <1>1 DEF StatusSteps
  <1> QED  BY <1>2 DEF QuickAction

\* The quick action is offered only where there is one.
LEMMA QuickIsOffered == "quick" \in DetailOffers => QuickAction(query.data) # None
  <1>1. CASE detail.phase \in {"closed", "loading"}
    <2>1. DetailOffers = {}
      BY <1>1, Zenon DEF DetailOffers
    <2> QED  BY <2>1
  <1>2. CASE detail.phase = "error"
    <2>1. DetailOffers = {"back"}
      BY <1>2, Zenon DEF DetailOffers
    <2> QED  BY <2>1
  <1>3. CASE detail.phase = "shown" /\ detail.opening \in {"dialog", "alert"}
    <2>1. DetailOffers = {"answer"}
      BY <1>3, Zenon DEF DetailOffers
    <2> QED  BY <2>1
  <1>4. CASE /\ detail.phase \notin {"closed", "loading"} /\ detail.phase # "error"
             /\ ~(detail.phase = "shown" /\ detail.opening \in {"dialog", "alert"})
    <2>1. DetailOffers = {"back", "apply"} \cup StatusTracker \cup QuickActionButton
                         \cup (IF ApplyUrl(visit.programme) = None THEN {} ELSE {"link"})
      BY <1>4, Zenon DEF DetailOffers
    <2>2. StatusTracker \subseteq {"step"} /\ (QuickAction(query.data) = None => QuickActionButton = {})
      BY DEF StatusTracker, QuickActionButton
    <2> QED  BY <2>1, <2>2
  <1> QED  BY <1>1, <1>2, <1>3, <1>4

LEMMA ApplyingIsStatus == "applying" \in Statuses
  <1>1. \A n \in 1..6 : StatusSteps[n] \in Statuses
    BY DEF Statuses, StatusSteps
  <1> QED  BY <1>1 DEF StatusSteps

LEMMA StatusInit == AppInit => StatusInv
  <1> SUFFICES ASSUME AppInit PROVE StatusInv
    OBVIOUS
  <1>1. appServer \in Statuses \cup {None}
    BY ApplicationAssumption DEF AppInit, ApplicationAssumption
  <1> QED  BY <1>1, StatusIsNotNone DEF AppInit, StatusInv, StatusTypes, StatusKnown, StatusCurrent, Settled

\* A new update changes neither the query nor the row.
LEMMA SendKeepsStatus ==
    ASSUME StatusInv, NEW s \in Statuses, NEW by \in {"detail", "wizard"},
           SendUpdate(s, by), UNCHANGED <<visit, appServer, query>>
    PROVE  StatusInv'
  <1>1. appLog \in [sent: Nat, disturbed: BOOLEAN]
    BY DEF StatusInv, StatusTypes
  <1>2. appLog' \in [sent: Nat, disturbed: BOOLEAN] /\ appLog'.disturbed = appLog.disturbed
    BY <1>1 DEF SendUpdate
  <1>3. updates' \subseteq AnyUpdates
    <2>1. updates' = updates \cup {[no |-> appLog.sent + 1, to |-> s, at |-> "sent", by |-> by, open |-> TRUE]}
      BY DEF SendUpdate
    <2>2. updates \subseteq AnyUpdates
      BY DEF StatusInv, StatusTypes
    <2>3. [no |-> appLog.sent + 1, to |-> s, at |-> "sent", by |-> by, open |-> TRUE]
            \in AnyUpdates
      <3>1. appLog.sent + 1 \in Nat
        BY <1>1
      <3> QED  BY <3>1 DEF AnyUpdates, UpdateSteps
    <2> QED  BY <2>1, <2>2, <2>3, Zenon
  <1>4. Settled' => Settled
    BY DEF SendUpdate, Settled
  <1>5. StatusTypes'
    BY <1>2, <1>3 DEF StatusInv, StatusTypes
  <1> QED  BY <1>2, <1>4, <1>5 DEF StatusInv, StatusKnown, StatusCurrent

\* Nothing the argument is about changes.
LEMMA FrameKeepsStatus ==
    StatusInv /\ UNCHANGED <<visit, appServer, query, updates, appLog>> => StatusInv'
  BY DEF StatusInv, StatusTypes, StatusKnown, StatusCurrent, Settled

\* Only the updates change: none that was written loses its mark.
LEMMA OthersKeepStatus ==
    ASSUME StatusInv, updates' \subseteq AnyUpdates, Settled' => Settled,
           UNCHANGED <<visit, appServer, query, appLog>>
    PROVE  StatusInv'
  BY DEF StatusInv, StatusTypes, StatusKnown, StatusCurrent

\* An update that goes on, or ends, is still among the updates' type.
LEMMA ReachesTypes ==
    ASSUME StatusInv, NEW u \in updates, NEW step \in UpdateSteps, Reaches(u, step)
    PROVE  updates' \subseteq AnyUpdates /\ (step # "sent" => ~Settled')
  <1>1. u \in AnyUpdates /\ updates \subseteq AnyUpdates
    BY DEF StatusInv, StatusTypes
  <1>2. [u EXCEPT !.at = step] \in AnyUpdates /\ [u EXCEPT !.at = step].at = step
    BY <1>1 DEF AnyUpdates
  <1>3. updates' = (updates \ {u}) \cup {[u EXCEPT !.at = step]}
    BY DEF Reaches
  <1>4. updates' \subseteq AnyUpdates
    BY <1>1, <1>2, <1>3, Zenon
  <1>5. [u EXCEPT !.at = step] \in updates'
    BY <1>3, Zenon
  <1> QED  BY <1>2, <1>4, <1>5, Zenon DEF Settled

\* The steps of the query, and those that end an update
LEMMA RefetchKeepsStatus ==
    ASSUME StatusInv, Refetch, updates' \subseteq AnyUpdates, UNCHANGED <<visit, appServer>>,
           appLog' \in [sent: Nat, disturbed: BOOLEAN], ~appLog'.disturbed => ~appLog.disturbed,
           query.fetch = "read" /\ query'.fetch = "read" => appLog'.disturbed
    PROVE  StatusInv'
  <1>1. query \in [data: Statuses \cup {None}, fresh: BOOLEAN, fetch: {"no", "asked", "read"},
                   answer: Statuses \cup {None}]
    BY DEF StatusInv, StatusTypes
  <1>2. /\ query' \in [data: Statuses \cup {None}, fresh: BOOLEAN, fetch: {"no", "asked", "read"},
                       answer: Statuses \cup {None}]
        /\ query'.fresh = query.fresh /\ query'.answer \in {None, query.answer}
        /\ query'.fetch = "asked" \/ (query' = query /\ query.fetch # "no")
    BY <1>1 DEF Refetch
  <1> QED  BY <1>1, <1>2 DEF StatusInv, StatusTypes, StatusKnown, StatusCurrent

LEMMA QueryKeepsStatus ==
    ASSUME StatusInv, ServeStatus \/ StatusArrives \/ StatusLost \/ StatusAges
    PROVE  StatusInv'
  <1> DEFINE Query == [data: Statuses \cup {None}, fresh: BOOLEAN, fetch: {"no", "asked", "read"},
                       answer: Statuses \cup {None}]
  <1>1. query \in Query /\ appServer \in Statuses \cup {None} /\ appLog \in [sent: Nat, disturbed: BOOLEAN]
    BY DEF StatusInv, StatusTypes
  <1>2. CASE ServeStatus
    <2>1. query' \in Query /\ query'.fetch = "read" /\ query'.answer = appServer /\ query'.fresh = query.fresh
      BY <1>1, <1>2 DEF ServeStatus
    <2>2. UNCHANGED <<visit, appServer, updates, appLog>>
      BY <1>2 DEF ServeStatus
    <2> QED  BY <2>1, <2>2 DEF StatusInv, StatusTypes, StatusKnown, StatusCurrent, Settled
  <1>3. CASE StatusArrives
    <2>1. UNCHANGED <<visit, appServer, updates, appLog>> /\ query.fetch = "read"
      BY <1>3 DEF StatusArrives
    <2>2. CASE query.answer = None \/ ~visit.user.signedIn
      <3>1. /\ query' \in Query /\ query'.fetch = "no" /\ query'.answer = None
            /\ query'.fresh = query.fresh /\ query'.data = query.data
        BY <1>1, <1>3, <2>2 DEF StatusArrives
      <3>2. query.fresh => appLog.disturbed \/ ~Settled
        BY <2>1, <2>2 DEF StatusInv, StatusKnown, StatusCurrent
      <3> QED  BY <2>1, <3>1, <3>2 DEF StatusInv, StatusTypes, StatusKnown, StatusCurrent, Settled
    <2>3. CASE ~(query.answer = None \/ ~visit.user.signedIn)
      <3>1. query' = [data |-> query.answer, fresh |-> TRUE, fetch |-> "no", answer |-> None]
        BY <1>3, <2>3 DEF StatusArrives
      <3>2. query' \in Query /\ query'.fetch = "no" /\ query'.answer = None /\ query'.data = query.answer
        BY <1>1, <3>1
      <3> QED  BY <2>1, <2>3, <3>2 DEF StatusInv, StatusTypes, StatusKnown, StatusCurrent, Settled
    <2> QED  BY <2>2, <2>3
  <1>4. CASE StatusLost
    <2>1. query' \in Query /\ query'.fresh = query.fresh /\ query'.answer = None
      BY <1>1, <1>4 DEF StatusLost
    <2>2. appLog' \in [sent: Nat, disturbed: BOOLEAN] /\ appLog'.disturbed
      BY <1>1, <1>4 DEF StatusLost
    <2>3. UNCHANGED <<visit, appServer, updates>>
      BY <1>4 DEF StatusLost
    <2> QED  BY <2>1, <2>2, <2>3 DEF StatusInv, StatusTypes, StatusKnown, StatusCurrent
  <1>5. CASE StatusAges
    <2>1. query' \in Query /\ ~query'.fresh /\ query'.fetch = query.fetch /\ query'.answer = query.answer
      BY <1>1, <1>5 DEF StatusAges
    <2>2. UNCHANGED <<visit, appServer, updates, appLog>>
      BY <1>5 DEF StatusAges
    <2> QED  BY <2>1, <2>2 DEF StatusInv, StatusTypes, StatusKnown, StatusCurrent, Settled
  <1> QED  BY <1>2, <1>3, <1>4, <1>5

LEMMA UpdateKeepsStatus ==
    ASSUME StatusInv, NEW u \in updates,
           StoreUpdate(u) \/ LogUpdate(u) \/ UpdateSucceeds(u) \/ UpdateFails(u)
    PROVE  StatusInv'
  <1> DEFINE Query == [data: Statuses \cup {None}, fresh: BOOLEAN, fetch: {"no", "asked", "read"},
                       answer: Statuses \cup {None}]
  <1>1. /\ query \in Query /\ appLog \in [sent: Nat, disturbed: BOOLEAN]
        /\ u \in AnyUpdates /\ updates \subseteq AnyUpdates
    BY DEF StatusInv, StatusTypes
  <1>2. CASE StoreUpdate(u)
    <2>1. /\ Reaches(u, "stored") /\ appServer' = u.to /\ visit.user.signedIn
          /\ UNCHANGED <<visit, query, appLog>>
      BY <1>2 DEF StoreUpdate
    <2>2. updates' \subseteq AnyUpdates /\ ~Settled'
      BY <2>1, ReachesTypes DEF UpdateSteps
    <2>3. appServer' \in Statuses /\ appServer' # None
      BY <1>1, <2>1, StatusIsNotNone DEF AnyUpdates
    <2> QED  BY <2>1, <2>2, <2>3 DEF StatusInv, StatusTypes, StatusKnown, StatusCurrent
  <1>3. CASE LogUpdate(u)
    <2>1. Reaches(u, "logged") /\ UNCHANGED <<visit, appServer, query, appLog>>
      BY <1>3 DEF LogUpdate
    <2>2. updates' \subseteq AnyUpdates /\ ~Settled'
      BY <2>1, ReachesTypes DEF UpdateSteps
    <2> QED  BY <2>1, <2>2, OthersKeepStatus
  <1>4. CASE UpdateSucceeds(u)
    <2>1. updates' \subseteq AnyUpdates /\ UNCHANGED <<visit, appServer>>
      BY <1>1, <1>4 DEF UpdateSucceeds, Ends
    <2> DEFINE disturbed == appLog.disturbed \/ MissesRead
    <2>2. disturbed \in BOOLEAN /\ appLog' = [appLog EXCEPT !.disturbed = disturbed]
      BY <1>1, <1>4 DEF UpdateSucceeds, MissesRead
    <2>3. /\ appLog' \in [sent: Nat, disturbed: BOOLEAN] /\ (appLog'.disturbed <=> disturbed)
      <3> HIDE DEF disturbed
      <3> QED  BY <1>1, <2>2
    <2>4. CASE detail.phase # "closed"
      <3>1. Refetch
        BY <1>4, <2>4 DEF UpdateSucceeds
      <3>2. query.fetch = "read" /\ query'.fetch = "read" => MissesRead
        BY <1>1, <3>1 DEF Refetch, MissesRead
      <3> QED  BY <2>1, <2>3, <3>1, <3>2, RefetchKeepsStatus
    <2>5. CASE detail.phase = "closed"
      <3>1. query' = [query EXCEPT !.fresh = FALSE]
        BY <1>4, <2>5 DEF UpdateSucceeds
      <3>2. query' \in Query /\ ~query'.fresh /\ query'.fetch = query.fetch /\ query'.answer = query.answer
        BY <1>1, <3>1
      <3>3. query.fetch = "read" => MissesRead
        BY <2>5 DEF MissesRead
      <3> QED  BY <2>1, <2>3, <3>2, <3>3 DEF StatusInv, StatusTypes, StatusKnown, StatusCurrent
    <2> QED  BY <2>4, <2>5
  <1>5. CASE UpdateFails(u)
    <2>1. updates' \subseteq AnyUpdates /\ UNCHANGED <<visit, appServer, query>>
      BY <1>1, <1>5 DEF UpdateFails, Ends
    <2>2. appLog' \in [sent: Nat, disturbed: BOOLEAN] /\ appLog'.disturbed
      BY <1>1, <1>5 DEF UpdateFails
    <2> QED  BY <2>1, <2>2 DEF StatusInv, StatusTypes, StatusKnown, StatusCurrent
  <1> QED  BY <1>2, <1>3, <1>4, <1>5

\* The screens: those that send, those that are left, and the rest
LEMMA ScreensKeepStatus ==
    ASSUME ApplicationAssumption, StatusInv,
           \/ OpenDetail \/ ProgramArrives \/ CloseDetail
           \/ \E s \in PressedSteps : HandleStepPress(s)
           \/ HandleQuickAction \/ HandleViewDetail
           \/ AnswerDetailDialog \/ DetailLinkOpens \/ HandleApply
           \/ HandleNext \/ HandleBack
           \/ HandleOpenSite \/ AnswerSiteDialog \/ SiteOpens \/ HandleFillDone \/ HandleHome
    PROVE  StatusInv'
  <1> DEFINE Frame == UNCHANGED <<visit, appServer, query, updates, appLog>>
  <1>1. updates \subseteq AnyUpdates
    BY DEF StatusInv, StatusTypes
  <1>2. CASE OpenDetail
    <2>1. /\ UNCHANGED <<visit, appServer, updates, appLog>>
          /\ (Refetch /\ query.fetch = "no") \/ UNCHANGED query
      BY <1>2 DEF OpenDetail
    <2>2. appLog \in [sent: Nat, disturbed: BOOLEAN]
      BY DEF StatusInv, StatusTypes
    <2> QED  BY <1>1, <2>1, <2>2, RefetchKeepsStatus, FrameKeepsStatus
  <1>3. CASE CloseDetail
    <2>1. /\ updates' = {[u EXCEPT !.open = @ /\ u.by # "detail"] : u \in updates}
          /\ UNCHANGED <<visit, appServer, query, appLog>>
      BY <1>3 DEF CloseDetail
    <2>2. \A u \in updates : [u EXCEPT !.open = @ /\ u.by # "detail"] \in AnyUpdates
                           /\ [u EXCEPT !.open = @ /\ u.by # "detail"].at = u.at
      BY <1>1 DEF AnyUpdates
    <2>3. updates' \subseteq AnyUpdates /\ (Settled' => Settled)
      BY <2>1, <2>2 DEF Settled
    <2> QED  BY <2>1, <2>3, OthersKeepStatus
  <1>4. ASSUME NEW s \in PressedSteps, HandleStepPress(s) PROVE StatusInv'
    <2>1. SendUpdate(s, "detail") /\ UNCHANGED <<visit, appServer, query>> /\ s \in Statuses
      BY <1>4 DEF HandleStepPress, ApplicationAssumption
    <2> QED  BY <2>1, SendKeepsStatus
  <1>5. CASE HandleQuickAction
    <2>1. SendUpdate(QuickAction(query.data), "detail") /\ UNCHANGED <<visit, appServer, query>>
      BY <1>5 DEF HandleQuickAction
    <2>2. QuickAction(query.data) \in Statuses
      BY <1>5, QuickActionIsStatus, QuickIsOffered, Zenon DEF HandleQuickAction, OnDetail
    <2> QED  BY <2>1, <2>2, SendKeepsStatus
  <1>6. CASE HandleFillDone
    <2>1. SendUpdate("applying", "wizard") /\ UNCHANGED <<visit, appServer, query>>
      BY <1>6 DEF HandleFillDone
    <2> QED  BY <2>1, ApplyingIsStatus, SendKeepsStatus
  <1>7. CASE HandleHome
    <2> DEFINE Moved(u) == [u EXCEPT !.open = @ /\ (detail' = detail \/ u.by # "detail")]
    <2>1. /\ updates' = {Moved(u) : u \in updates}
          /\ UNCHANGED <<visit, appServer, query, appLog>>
      BY <1>7 DEF HandleHome
    <2>2. \A u \in updates : Moved(u) \in AnyUpdates /\ Moved(u).at = u.at
      BY <1>1 DEF AnyUpdates
    <2>3. updates' \subseteq AnyUpdates /\ (Settled' => Settled)
      BY <2>1, <2>2 DEF Settled
    <2> QED  BY <2>1, <2>3, OthersKeepStatus
  <1>8. CASE ProgramArrives \/ HandleViewDetail \/ AnswerDetailDialog \/ DetailLinkOpens \/ HandleApply
    <2>1. Frame
      BY <1>8 DEF ProgramArrives, HandleViewDetail, AnswerDetailDialog, DetailLinkOpens, HandleApply
    <2> QED  BY <2>1, FrameKeepsStatus
  <1>9. CASE HandleNext \/ HandleBack \/ HandleOpenSite \/ AnswerSiteDialog \/ SiteOpens
    <2>1. Frame
      BY <1>9 DEF HandleNext, HandleBack, HandleOpenSite, AnswerSiteDialog, SiteOpens
    <2> QED  BY <2>1, FrameKeepsStatus
  <1> QED  BY <1>2, <1>3, <1>4, <1>5, <1>6, <1>7, <1>8, <1>9

LEMMA StatusStep == ApplicationAssumption /\ StatusInv /\ [AppNext]_appVars => StatusInv'
  <1> SUFFICES ASSUME ApplicationAssumption, StatusInv, [AppNext]_appVars PROVE StatusInv'
    OBVIOUS
  <1>1. CASE ServeStatus \/ StatusArrives \/ StatusLost \/ StatusAges
    BY <1>1, QueryKeepsStatus
  <1>2. CASE \E u \in updates : StoreUpdate(u) \/ LogUpdate(u) \/ UpdateSucceeds(u) \/ UpdateFails(u)
    BY <1>2, UpdateKeepsStatus
  <1>3. CASE UNCHANGED appVars
    BY <1>3, FrameKeepsStatus DEF appVars
  <1> QED  BY <1>1, <1>2, <1>3, ScreensKeepStatus DEF AppNext

\* invalidateQueries, for every programme and user, and any number of updates from either
\* screen: a fresh status on the open screen is the row's, unless a call failed or an update
\* was answered while a read went on that the server had answered before it.
THEOREM StatusIsServers == AppSpec => []FreshStatusIsServers
  <1>1. StatusInv => FreshStatusIsServers
    BY DEF StatusInv, StatusCurrent, Settled, FreshStatusIsServers
  <1> QED  BY <1>1, StatusInit, StatusStep, ApplicationAssumption, PTL DEF AppSpec

-----------------------------------------------------------------------------
(* The assistant and the site                                              *)

Wizards == [step: 0..5, opening: OpenSteps, opened: BOOLEAN, visited: BOOLEAN]

VisitInv == wizard \in Wizards /\ AppliesAfterVisit

\* Where the assistant offers to go on, to go back, and to report the application
LEMMA WizardOffersWhere ==
    ASSUME wizard \in Wizards
    PROVE  /\ "next" \in WizardOffers => wizard.step \in 1..3
           /\ "done" \in WizardOffers => wizard.step = 4 /\ wizard.opened
           /\ "back" \in WizardOffers => wizard.step \in 1..4
  <1> DEFINE Where(offered) ==
                /\ "next" \in offered => wizard.step \in 1..3
                /\ "done" \in offered => wizard.step = 4 /\ wizard.opened
                /\ "back" \in offered => wizard.step \in 1..4
  <1>1. wizard.step \in 0..5
    BY DEF Wizards
  <1>2. 0 \notin 1..3 /\ 4 \notin 1..3 /\ 5 \notin 1..3 /\ 4 # 0 /\ 5 # 0 /\ 5 # 4
    OBVIOUS
  <1>3. CASE wizard.step = 0
    <2>1. StepOffers = {}
      BY <1>2, <1>3, Zenon DEF StepOffers
    <2> QED  BY <2>1 DEF WizardOffers
  <1>4. CASE wizard.step \in 1..3
    <2>1. StepOffers = {"next", "back"}
      BY <1>2, <1>4, Zenon DEF StepOffers
    <2> QED  BY <1>4, <2>1 DEF WizardOffers
  <1>5. CASE wizard.step = 4
    <2>1. StepOffers = LaunchPanel
      BY <1>2, <1>5, Zenon DEF StepOffers
    <2>2. LaunchPanel \subseteq {"back", "link"} \cup (IF wizard.opened THEN {"done"} ELSE {})
      BY DEF LaunchPanel
    <2> QED  BY <1>5, <2>1, <2>2 DEF WizardOffers
  <1>6. CASE wizard.step = 5
    <2>1. StepOffers = {"home"}
      BY <1>2, <1>6, Zenon DEF StepOffers
    <2> QED  BY <2>1 DEF WizardOffers
  <1> QED  BY <1>1, <1>3, <1>4, <1>5, <1>6

LEMMA VisitInit == AppInit => VisitInv
  BY DEF AppInit, VisitInv, Wizards, AppliesAfterVisit, ClosedWizard, OpenSteps

LEMMA MoveTypes ==
    ASSUME wizard \in Wizards, NEW step \in 0..5, MoveTo(step)
    PROVE  /\ wizard' \in Wizards
           /\ wizard'.step = step /\ ~wizard'.opened /\ wizard'.visited = wizard.visited
  <1>1. wizard' = [wizard EXCEPT !.step = step, !.opened = FALSE]
    BY DEF MoveTo
  <1>2. wizard' \in Wizards
    BY <1>1 DEF Wizards
  <1>3. wizard'.step = step /\ ~wizard'.opened /\ wizard'.visited = wizard.visited
    BY <1>1 DEF Wizards
  <1> QED  BY <1>2, <1>3

LEMMA ClosedKeepsVisit == wizard' = ClosedWizard => VisitInv'
  BY DEF VisitInv, AppliesAfterVisit, Wizards, ClosedWizard, OpenSteps

LEMMA VisitStep == VisitInv /\ [AppNext]_appVars => VisitInv'
  <1> SUFFICES ASSUME VisitInv, [AppNext]_appVars PROVE VisitInv'
    OBVIOUS
  <1>1. wizard \in Wizards /\ (wizard.step = 5 \/ wizard.opened => wizard.visited)
    BY DEF VisitInv, AppliesAfterVisit
  <1>2. CASE UNCHANGED wizard
    BY <1>2 DEF VisitInv, AppliesAfterVisit
  <1>3. CASE HandleApply
    <2>1. UNCHANGED wizard \/ wizard' = [step |-> 1, opening |-> "no", opened |-> FALSE, visited |-> FALSE]
      BY <1>3 DEF HandleApply, ClosedWizard
    <2>2. ASSUME wizard' = [step |-> 1, opening |-> "no", opened |-> FALSE, visited |-> FALSE] PROVE VisitInv'
      BY <2>2 DEF VisitInv, AppliesAfterVisit, Wizards, OpenSteps
    <2> QED  BY <1>2, <2>1, <2>2
  <1>4. CASE HandleNext
    <2>1. MoveTo(wizard.step + 1) /\ wizard.step \in 1..3
      BY <1>1, <1>4, WizardOffersWhere DEF HandleNext
    <2>2. wizard.step + 1 \in 0..5 /\ wizard.step + 1 # 5
      BY <2>1
    <2> QED  BY <1>1, <2>1, <2>2, MoveTypes DEF VisitInv, AppliesAfterVisit
  <1>5. CASE HandleBack
    <2>1. (MoveTo(wizard.step - 1) /\ wizard.step > 1) \/ wizard' = ClosedWizard
      BY <1>5 DEF HandleBack
    <2>2. wizard.step \in 1..4
      BY <1>1, <1>5, WizardOffersWhere DEF HandleBack
    <2>3. wizard.step - 1 \in 0..5 /\ wizard.step - 1 # 5
      BY <2>2
    <2> QED  BY <1>1, <2>1, <2>3, MoveTypes, ClosedKeepsVisit DEF VisitInv, AppliesAfterVisit
  <1>6. CASE HandleOpenSite \/ AnswerSiteDialog \/ SiteOpens
    <2>1. CASE HandleOpenSite \/ AnswerSiteDialog
      <3>1. PICK o \in OpenSteps : wizard' = [wizard EXCEPT !.opening = o]
        BY <2>1 DEF HandleOpenSite, AnswerSiteDialog, OpenSteps
      <3>2. wizard' \in Wizards /\ (wizard'.step = 5 \/ wizard'.opened => wizard'.visited)
        BY <1>1, <3>1 DEF Wizards
      <3> QED  BY <3>2 DEF VisitInv, AppliesAfterVisit
    <2>2. CASE SiteOpens
      <3>1. \/ wizard' = [wizard EXCEPT !.opening = "no", !.visited = TRUE, !.opened = @ \/ wizard.step = 4]
            \/ wizard' = [wizard EXCEPT !.opening = "no"]
        BY <2>2 DEF SiteOpens
      <3>2. wizard' \in Wizards /\ (wizard'.step = 5 \/ wizard'.opened => wizard'.visited)
        BY <1>1, <3>1 DEF Wizards, OpenSteps
      <3> QED  BY <3>2 DEF VisitInv, AppliesAfterVisit
    <2> QED  BY <1>6, <2>1, <2>2
  <1>7. CASE HandleFillDone
    <2>1. MoveTo(5) /\ wizard.opened /\ 5 \in 0..5
      BY <1>1, <1>7, WizardOffersWhere DEF HandleFillDone
    <2> QED  BY <1>1, <2>1, MoveTypes DEF VisitInv, AppliesAfterVisit
  <1>8. CASE HandleHome
    BY <1>8, ClosedKeepsVisit DEF HandleHome
  <1>9. CASE ServeStatus \/ StatusArrives \/ StatusLost \/ StatusAges
    BY <1>2, <1>9 DEF ServeStatus, StatusArrives, StatusLost, StatusAges
  <1>10. CASE \E u \in updates : StoreUpdate(u) \/ LogUpdate(u) \/ UpdateSucceeds(u) \/ UpdateFails(u)
    BY <1>2, <1>10 DEF StoreUpdate, LogUpdate, UpdateSucceeds, UpdateFails
  <1>11. CASE \/ OpenDetail \/ ProgramArrives \/ CloseDetail
              \/ \E s \in PressedSteps : HandleStepPress(s)
              \/ HandleQuickAction \/ HandleViewDetail \/ AnswerDetailDialog \/ DetailLinkOpens
    BY <1>2, <1>11 DEF OpenDetail, ProgramArrives, CloseDetail, HandleStepPress, HandleQuickAction,
                       HandleViewDetail, AnswerDetailDialog, DetailLinkOpens
  <1>12. CASE UNCHANGED appVars
    BY <1>2, <1>12 DEF appVars
  <1> QED  BY <1>3, <1>4, <1>5, <1>6, <1>7, <1>8, <1>9, <1>10, <1>11, <1>12 DEF AppNext

\* Step4 of apply-assistant.tsx, for every programme and user and however often the panel
\* is left: the last step is reached only after the site was opened.
THEOREM AppliedAfterVisit == AppSpec => []AppliesAfterVisit
  <1>1. VisitInv => AppliesAfterVisit
    BY DEF VisitInv
  <1> QED  BY <1>1, VisitInit, VisitStep, PTL DEF AppSpec

\* The detail screen, and the updates sent so far, which are numbered in their order
Details == [phase: {"closed", "loading", "error", "shown"}, opening: OpenSteps \cup {"alert"}]
SentTyped == detail \in Details /\ appLog.sent <= MaxUpdates /\ \A u \in updates : u.no \in 1..MaxUpdates

LEMMA SentAtFirst == ApplicationAssumption /\ AppInit => SentTyped
  BY DEF ApplicationAssumption, AppInit, SentTyped, Details, ClosedDetail, OpenSteps

\* Steps without a new update keep the numbers of those on their way.
LEMMA SameNumbers ==
    ASSUME SentTyped, detail' \in Details, appLog'.sent = appLog.sent,
           \A w \in updates' : \E u \in updates : w.no = u.no
    PROVE  SentTyped'
  BY DEF SentTyped

LEMMA SendNumbers ==
    ASSUME ApplicationAssumption, StatusTypes, SentTyped, NEW s, NEW by, SendUpdate(s, by), UNCHANGED detail
    PROVE  SentTyped'
  <1>1. appLog \in [sent: Nat, disturbed: BOOLEAN] /\ MaxUpdates \in Nat
    BY DEF StatusTypes, ApplicationAssumption
  <1>2. appLog.sent < MaxUpdates /\ appLog'.sent = appLog.sent + 1
    BY <1>1 DEF SendUpdate
  <1>3. \A w \in updates' : w \in updates \/ w.no = appLog.sent + 1
    BY DEF SendUpdate
  <1>4. appLog.sent + 1 \in 1..MaxUpdates
    BY <1>1, <1>2
  <1> QED  BY <1>2, <1>3, <1>4 DEF SentTyped

LEMMA DetailStaysTyped ==
    ASSUME detail \in Details, NEW o \in OpenSteps \cup {"alert"}
    PROVE  [detail EXCEPT !.opening = o] \in Details
  BY DEF Details

LEMMA SentStep ==
    ASSUME ApplicationAssumption, StatusInv, SentTyped, [AppNext]_appVars
    PROVE  SentTyped'
  <1>1. detail \in Details /\ StatusTypes /\ ClosedDetail \in Details
    BY DEF SentTyped, StatusInv, Details, ClosedDetail, OpenSteps
  <1>2. {"no", "dialog", "asked", "alert"} = OpenSteps \cup {"alert"}
    BY DEF OpenSteps
  <1>3. ASSUME detail' \in Details, UNCHANGED <<updates, appLog>> PROVE SentTyped'
    BY <1>3, SameNumbers
  <1>4. CASE ServeStatus \/ StatusArrives \/ StatusLost \/ StatusAges
    <2>1. UNCHANGED <<detail, updates>>
      BY <1>4 DEF ServeStatus, StatusArrives, StatusLost, StatusAges
    <2>2. appLog'.sent = appLog.sent
      BY <1>1, <1>4 DEF ServeStatus, StatusArrives, StatusLost, StatusAges, StatusTypes
    <2> QED  BY <1>1, <2>1, <2>2, SameNumbers
  <1>5. ASSUME NEW u \in updates, StoreUpdate(u) \/ LogUpdate(u) PROVE SentTyped'
    <2>1. Reaches(u, "stored") \/ Reaches(u, "logged")
      BY <1>5 DEF StoreUpdate, LogUpdate
    <2>2. UNCHANGED <<detail, appLog>>
      BY <1>5 DEF StoreUpdate, LogUpdate
    <2>3. u \in AnyUpdates
      BY <1>1 DEF StatusTypes
    <2>4. \A step : [u EXCEPT !.at = step].no = u.no
      BY <2>3 DEF AnyUpdates
    <2>5. ASSUME NEW step, Reaches(u, step), NEW w \in updates' PROVE \E v \in updates : w.no = v.no
      <3>1. w \in updates \/ w = [u EXCEPT !.at = step]
        BY <2>5, Zenon DEF Reaches
      <3> QED  BY <2>4, <3>1
    <2>6. \A w \in updates' : \E v \in updates : w.no = v.no
      BY <2>1, <2>5, Zenon
    <2> QED  BY <1>1, <2>2, <2>6, SameNumbers
  <1>6. ASSUME NEW u \in updates, UpdateSucceeds(u) \/ UpdateFails(u) PROVE SentTyped'
    <2>1. updates' \subseteq updates /\ UNCHANGED detail
      BY <1>6 DEF UpdateSucceeds, UpdateFails, Ends
    <2>2. appLog'.sent = appLog.sent
      BY <1>1, <1>6 DEF UpdateSucceeds, UpdateFails, StatusTypes
    <2> QED  BY <1>1, <2>1, <2>2, SameNumbers
  <1>7. ASSUME NEW s, NEW by, SendUpdate(s, by), UNCHANGED detail PROVE SentTyped'
    BY <1>1, <1>7, SendNumbers
  <1>8. CASE (\E s \in PressedSteps : HandleStepPress(s)) \/ HandleQuickAction \/ HandleFillDone
    <2>1. UNCHANGED detail /\ \E s, by : SendUpdate(s, by)
      BY <1>8 DEF HandleStepPress, HandleQuickAction, HandleFillDone
    <2> QED  BY <1>7, <2>1
  <1>9. CASE OpenDetail \/ ProgramArrives \/ DetailLinkOpens
    <2>1. UNCHANGED <<updates, appLog>>
      BY <1>9 DEF OpenDetail, ProgramArrives, DetailLinkOpens
    <2>2. [ClosedDetail EXCEPT !.phase = "loading"] \in Details
      BY DEF Details, ClosedDetail, OpenSteps
    <2>3. \A p \in {"shown", "error"} : [detail EXCEPT !.phase = p] \in Details
      BY <1>1 DEF Details
    <2>4. detail' \in Details
      BY <1>1, <1>2, <1>9, <2>2, <2>3, DetailStaysTyped DEF OpenDetail, ProgramArrives, DetailLinkOpens
    <2> QED  BY <1>3, <2>1, <2>4
  <1>10. CASE HandleViewDetail \/ AnswerDetailDialog \/ HandleApply
    <2>1. UNCHANGED <<updates, appLog>>
      BY <1>10 DEF HandleViewDetail, AnswerDetailDialog, HandleApply
    <2>2. detail' \in Details
      BY <1>1, <1>2, <1>10, DetailStaysTyped DEF HandleViewDetail, AnswerDetailDialog, HandleApply
    <2> QED  BY <1>3, <2>1, <2>2
  <1>11. CASE HandleNext \/ HandleBack \/ HandleOpenSite \/ AnswerSiteDialog \/ SiteOpens \/ UNCHANGED appVars
    <2>1. UNCHANGED <<detail, updates, appLog>>
      BY <1>11 DEF HandleNext, HandleBack, HandleOpenSite, AnswerSiteDialog, SiteOpens, appVars
    <2> QED  BY <1>1, <1>3, <2>1
  <1>12. CASE CloseDetail \/ HandleHome
    <2>1. detail' \in Details /\ UNCHANGED appLog
      BY <1>1, <1>12 DEF CloseDetail, HandleHome
    <2>2. \A u \in updates : \A b : [u EXCEPT !.open = b].no = u.no
      BY <1>1 DEF StatusTypes, AnyUpdates
    <2>3. \A w \in updates' : \E u \in updates : \E b : w = [u EXCEPT !.open = b]
      BY <1>12 DEF CloseDetail, HandleHome
    <2>4. ASSUME NEW w \in updates' PROVE \E u \in updates : w.no = u.no
      <3>1. PICK u \in updates : \E b : w = [u EXCEPT !.open = b]
        BY <2>3
      <3>2. PICK b : w = [u EXCEPT !.open = b]
        BY <3>1
      <3> QED  BY <2>2, <3>2, Zenon
    <2> QED  BY <2>1, <2>4, SameNumbers
  <1> QED  BY <1>4, <1>5, <1>6, <1>8, <1>9, <1>10, <1>11, <1>12 DEF AppNext

\* The status query, the updates and both screens hold what their declarations allow, in
\* every state for every programme and user.
THEOREM StatusIsTyped == AppSpec => []AppTypeOK
  <1>1. StatusInv /\ VisitInv /\ SentTyped => AppTypeOK
    <2> SUFFICES ASSUME StatusTypes, VisitInv, SentTyped PROVE AppTypeOK
      BY DEF StatusInv
    <2>1. appLog \in [sent: 0..MaxUpdates, disturbed: BOOLEAN]
      BY ApplicationAssumption DEF StatusTypes, SentTyped, ApplicationAssumption
    <2>2. updates \subseteq Updates
      BY DEF StatusTypes, SentTyped, AnyUpdates, Updates
    <2> QED  BY <2>1, <2>2 DEF StatusTypes, VisitInv, SentTyped, Details, Wizards, AppTypeOK
  <1> QED  BY <1>1, StatusInit, StatusStep, VisitInit, VisitStep, SentAtFirst, SentStep,
              ApplicationAssumption, PTL DEF AppSpec

-----------------------------------------------------------------------------
(* The pre-check and the assistant's form                                  *)

\* The variables of CheckTypeOK, without what the screens show of them
CheckTyped ==
    /\ subject \in [programme: Programmes, user: Applicants, vault: VaultContents]
    /\ sheet \in [tab: Tabs, folded: SUBSET SheetCards, ticked: SUBSET Documents,
                  vaultRead: BOOLEAN, scored: BOOLEAN]
    /\ form \in [open: BOOLEAN, ticked: SUBSET Documents, filled: {None, "local", "server", "edited"},
                 arrived: BOOLEAN]

LEMMA FlipStays == \A S : \A T \in SUBSET S : \A d \in S : Flip(d, T) \in SUBSET S
  BY DEF Flip

LEMMA CheckStarts == CheckInit => CheckTyped
  BY DEF CheckInit, CheckTyped, NewSheet, ClosedForm, Tabs

LEMMA CheckStays == CheckTyped /\ [CheckNext]_checkVars => CheckTyped'
  <1> SUFFICES ASSUME CheckTyped, [CheckNext]_checkVars PROVE CheckTyped'
    OBVIOUS
  <1>1. CASE VaultRead
    <2>1. VaultTicks(subject.vault) \in SUBSET Documents
      BY DEF VaultTicks
    <2> QED  BY <1>1, <2>1 DEF VaultRead, CheckTyped
  <1>2. CASE ScoreArrives
    BY <1>2 DEF ScoreArrives, CheckTyped
  <1>3. CASE ReopenSheet
    BY <1>3 DEF ReopenSheet, CheckTyped, NewSheet, Tabs
  <1>4. ASSUME NEW d \in Documents, HandleDocToggle(d) PROVE CheckTyped'
    <2>1. Flip(d, sheet.ticked) \in SUBSET Documents
      BY <1>4, FlipStays DEF CheckTyped
    <2> QED  BY <1>4, <2>1 DEF HandleDocToggle, CheckTyped
  <1>5. ASSUME NEW d \in Documents, ToggleDoc(d) PROVE CheckTyped'
    <2>1. Flip(d, form.ticked) \in SUBSET Documents
      BY <1>5, FlipStays DEF CheckTyped
    <2> QED  BY <1>5, <2>1 DEF ToggleDoc, CheckTyped
  <1>6. ASSUME NEW t \in PressedTabs, SetActiveTab(t) PROVE CheckTyped'
    BY <1>6, CheckAssumption DEF CheckAssumption, SetActiveTab, CheckTyped
  <1>7. ASSUME NEW c \in SheetCards, ToggleCard(c) PROVE CheckTyped'
    <2>1. Flip(c, sheet.folded) \in SUBSET SheetCards
      BY <1>7, FlipStays DEF CheckTyped
    <2> QED  BY <1>7, <2>1 DEF ToggleCard, CheckTyped
  <1>8. CASE OpenForm
    <2>1. PICK cached \in BOOLEAN :
            form' = [ClosedForm EXCEPT !.open = TRUE, !.arrived = cached, !.filled = BuildProfile(cached)]
      BY <1>8 DEF OpenForm
    <2>2. BuildProfile(cached) \in {"local", "server"}
      BY DEF BuildProfile
    <2> QED  BY <1>8, <2>1, <2>2 DEF OpenForm, CheckTyped, ClosedForm
  <1>9. CASE ProfileArrives
    BY <1>9 DEF ProfileArrives, CheckTyped
  <1>10. CASE HandleProfileChange
    BY <1>10 DEF HandleProfileChange, CheckTyped
  <1>11. CASE CloseForm
    BY <1>11 DEF CloseForm, CheckTyped, ClosedForm
  <1>12. CASE UNCHANGED checkVars
    BY <1>12 DEF checkVars, CheckTyped
  <1> QED  BY <1>1, <1>2, <1>3, <1>4, <1>5, <1>6, <1>7, <1>8, <1>9, <1>10, <1>11, <1>12 DEF CheckNext

LEMMA CheckAlways == CheckSpec => []CheckTyped
  BY CheckStarts, CheckStays, PTL DEF CheckSpec

\* calcProbability: the share of the conditions that are met is a number, and is cut to 50..98.
LEMMA ProbabilityInRange ==
    ASSUME NEW p
    PROVE  Probability(AssistantConditions(p)) \in 50..98
  <1> DEFINE c == AssistantConditions(p)  Words == {"ok", "warn"}
             met == {n \in DOMAIN c : c[n] = "ok"}  doubted == {n \in DOMAIN c : c[n] = "warn"}
             m == Cardinality(met)  w == Cardinality(doubted)  all == Len(c)
             base == (200 * m + all) \div (2 * all) - 5 * w
  <1>1. c \in Seq(Words) /\ Len(c) \in Nat /\ Len(c) > 0
    <2> DEFINE first == <<"ok">>  last == <<"warn">>
               ages == IF p.ages # <<>> THEN <<"ok">> ELSE <<>>
               campus == IF p.campus THEN <<"ok">> ELSE <<>>
    <2>1. first \in Seq(Words) /\ last \in Seq(Words) /\ Len(first) = 1
      <3>1. "ok" \in Words /\ "warn" \in Words
        OBVIOUS
      <3> HIDE DEF Words
      <3> QED  BY <3>1
    <2>2. ages \in Seq(Words) /\ campus \in Seq(Words)
      <3>1. <<"ok">> \in Seq(Words) /\ <<>> \in Seq(Words)
        OBVIOUS
      <3> HIDE DEF Words
      <3> QED  BY <3>1, Zenon
    <2>3. c = first \o ages \o campus \o last
      BY DEF AssistantConditions
    <2> HIDE DEF c, first, last, ages, campus, Words
    <2> DEFINE two == first \o ages  three == two \o campus
    <2>4. two \in Seq(Words) /\ Len(two) = 1 + Len(ages)
      <3>1. two \in Seq(Words) /\ Len(two) = Len(first) + Len(ages)
        <4>1. first \in Seq(Words) /\ ages \in Seq(Words)
          BY <2>1, <2>2
        <4> QED  BY <4>1, ConcatProperties
      <3> QED  BY <2>1, <3>1
    <2> HIDE DEF two
    <2>5. three \in Seq(Words) /\ Len(three) = Len(two) + Len(campus)
      BY <2>2, <2>4, ConcatProperties
    <2> HIDE DEF three
    <2>6. c = three \o last
      BY <2>3 DEF two, three
    <2>7. c \in Seq(Words) /\ Len(c) = Len(three) + Len(last)
      BY <2>1, <2>5, <2>6, ConcatProperties
    <2>8. Len(ages) \in Nat /\ Len(campus) \in Nat /\ Len(last) \in Nat
      BY <2>1, <2>2, LenProperties
    <2> QED  BY <2>4, <2>5, <2>7, <2>8
  <1>2. m \in Nat /\ w \in Nat
    <2>1. DOMAIN c = 1..Len(c)
      BY <1>1, LenProperties
    <2>2. IsFiniteSet(DOMAIN c)
      BY <1>1, <2>1, FS_Interval
    <2>3. IsFiniteSet(met) /\ IsFiniteSet(doubted)
      BY <2>2, FS_Subset
    <2> HIDE DEF met, doubted
    <2> QED  BY <2>3, FS_CardinalityType
  <1>3. Probability(c) = IF base < 50 THEN 50 ELSE IF base > 98 THEN 98 ELSE base
    BY DEF Probability
  <1>4. all \in Nat /\ all > 0
    BY <1>1
  <1> HIDE DEF c, m, w, all
  <1>5. base \in Int
    BY <1>2, <1>4
  <1> HIDE DEF base
  <1> QED  BY <1>3, <1>5 DEF c

\* ApplicationGuideCard: every section but the last has a line below it.
LEMMA OneSectionWithoutLine ==
    ASSUME NEW p, p.guide \subseteq GuideSections
    PROVE  Cardinality(GuideCard(p).sections \ GuideCard(p).lines) <= 1
  <1> DEFINE bare == GuideCard(p).sections \ GuideCard(p).lines
  <1>1. \E x : bare \subseteq {x}
    <2>1. CASE "screening" \in p.guide
      <3>1. bare \subseteq {"screening"}
        BY <2>1 DEF GuideCard, GuideSections
      <3> QED  BY <3>1
    <2>2. CASE "screening" \notin p.guide /\ "documents" \in p.guide
      <3>1. bare \subseteq {"documents"}
        BY <2>2 DEF GuideCard, GuideSections
      <3> QED  BY <3>1
    <2>3. CASE "screening" \notin p.guide /\ "documents" \notin p.guide
      <3>1. bare \subseteq {"method"}
        BY <2>3 DEF GuideCard, GuideSections
      <3> QED  BY <3>1
    <2> QED  BY <2>1, <2>2, <2>3
  <1> HIDE DEF bare
  <1>2. PICK x : bare \subseteq {x}
    BY <1>1
  <1>3. Cardinality(bare) <= Cardinality({x}) /\ Cardinality({x}) = 1 /\ IsFiniteSet(bare)
    BY <1>2, FS_Singleton, FS_Subset
  <1>4. Cardinality(bare) <= 1
    BY <1>3
  <1> QED  BY <1>4 DEF bare

\* programs/[id].tsx, apply-assistant.tsx: the variables of both screens keep to the values
\* the code can give them, and so do the verdict, the badges and the rating they show.
THEOREM CheckIsTyped == CheckSpec => []CheckTypeOK
  <1>1. CheckTyped => CheckTypeOK
    <2> SUFFICES ASSUME CheckTyped PROVE CheckTypeOK
      OBVIOUS
    <2>1. SheetShows.verdict \in 0..2
      BY DEF SheetShows, Verdict
    <2>2. SheetShows.badges \subseteq Documents
      BY DEF SheetShows, VaultTicks
    <2>3. FormShows.step1.probability \in 50..98
      BY ProbabilityInRange DEF FormShows, EligibilityStep
    <2>4. FormShows.links \cap FormShows.ready = {}
      BY DEF FormShows
    <2>5. "checklist" \in DetailPage.content => "tick" \in SheetOffers
      <3>1. sheet.tab \in Tabs
        BY DEF CheckTyped
      <3>2. "checklist" \in TabContent(subject.programme, sheet.tab) => sheet.tab = "documents"
        BY <3>1 DEF TabContent, Tabs
      <3> QED  BY <3>2 DEF DetailPage, SheetOffers
    <2>6. Cardinality(DetailPage.guide.sections \ DetailPage.guide.lines) <= 1
      <3>1. IsProgramme(subject.programme)
        BY ProgrammeAssumption DEF ProgrammeAssumption, CheckTyped
      <3>2. subject.programme.guide \subseteq GuideSections
        BY <3>1 DEF IsProgramme
      <3> QED  BY <3>2, OneSectionWithoutLine DEF DetailPage
    <2> QED  BY <2>1, <2>2, <2>3, <2>4, <2>5, <2>6 DEF CheckTypeOK, CheckTyped
  <1> QED  BY <1>1, CheckAlways, PTL

\* getDocPrepDays: fewer documents take no longer.
LEMMA FewerTakeLess ==
    ASSUME NEW A \in SUBSET Documents, NEW B \in SUBSET A
    PROVE  TotalPrepDays(A) \in Nat /\ TotalPrepDays(B) \in Nat /\ TotalPrepDays(B) <= TotalPrepDays(A)
  <1>1. IsFiniteSet(A)
    <2> DEFINE last == 4
    <2>1. last \in Int
      OBVIOUS
    <2> HIDE DEF last
    <2>2. IsFiniteSet(1..last)
      BY <2>1, FS_Interval
    <2>3. IsFiniteSet(Documents)
      BY <2>2, Zenon DEF Documents, last
    <2> QED  BY <2>3, FS_Subset
  <1>2. Cardinality(A) \in Nat /\ Cardinality(B) \in Nat /\ Cardinality(B) <= Cardinality(A)
    BY <1>1, FS_Subset, FS_CardinalityType
  <1>3. PrepDays(3) - 1 = 2
    BY DEF PrepDays
  <1> DEFINE a == Cardinality(A)  b == Cardinality(B)
             x == IF 3 \in A THEN 2 ELSE 0  y == IF 3 \in B THEN 2 ELSE 0
  <1>4. TotalPrepDays(A) = a + x /\ TotalPrepDays(B) = b + y
    BY <1>3 DEF TotalPrepDays
  <1>5. x \in Nat /\ y \in Nat /\ y <= x
    OBVIOUS
  <1> HIDE DEF a, b, x, y
  <1>6. a + x \in Nat /\ b + y \in Nat /\ b + y <= a + x
    BY <1>2, <1>5 DEF a, b
  <1> QED  BY <1>4, <1>6

\* ... so that what was in time stays in time.
LEMMA ReadyIsNotLater ==
    ASSUME NEW p, IsProgramme(p), NEW ticked \in SUBSET Documents, NEW more \in SUBSET Documents,
           ticked \subseteq more, TimeStatus(p, more) = "warn"
    PROVE  TimeStatus(p, ticked) = "warn"
  <1> DEFINE s == TotalPrepDays(Documents \ ticked)  t == TotalPrepDays(Documents \ more)  d == p.days[1]
  <1>1. s \in Nat /\ t \in Nat /\ t <= s
    BY FewerTakeLess
  <1>2. ~(\A n \in DOMAIN p.days : p.days[n] <= 0) /\ ~(d > t + 1)
    BY DEF TimeStatus
  <1>3. d \in Int
    <2>1. p.days \in Seq(Int) /\ Len(p.days) <= 1
      BY DEF IsProgramme
    <2>2. PICK n \in DOMAIN p.days : ~(p.days[n] <= 0)
      BY <1>2
    <2>3. n \in 1..Len(p.days) /\ Len(p.days) \in Nat /\ p.days[n] \in Int
      BY <2>1, <2>2
    <2>4. n = 1
      BY <2>1, <2>3
    <2> QED  BY <2>3, <2>4
  <1> HIDE DEF s, t, d
  <1>4. ~(d > s + 1)
    BY <1>1, <1>2, <1>3
  <1> QED  BY <1>2, <1>4, Zenon DEF TimeStatus, s, d

LEMMA VerdictRises ==
    ASSUME NEW p, IsProgramme(p), NEW u, NEW ticked \in SUBSET Documents, NEW more \in SUBSET Documents,
           ticked \subseteq more
    PROVE  Verdict(p, u, ticked) <= Verdict(p, u, more)
  <1> DEFINE conditions == Conditions(p, u)
             a == ticked # Documents  b == more # Documents
             x == TimeStatus(p, ticked) = "warn"  y == TimeStatus(p, more) = "warn"
  <1>1. (b => a) /\ (y => x)
    BY ReadyIsNotLater
  <1>2. Verdict(p, u, ticked) = IF "fail" \in conditions \/ (x /\ a) THEN 0
                               ELSE IF "warn" \in conditions \/ a \/ x THEN 1 ELSE 2
    BY DEF Verdict
  <1>3. Verdict(p, u, more) = IF "fail" \in conditions \/ (y /\ b) THEN 0
                             ELSE IF "warn" \in conditions \/ b \/ y THEN 1 ELSE 2
    BY DEF Verdict
  <1> HIDE DEF conditions, a, b, x, y
  <1> QED  BY <1>1, <1>2, <1>3

\* PreCheckCard, for every programme, user and vault: documents that get ready, one by one
\* or from the vault, never worsen the verdict.
THEOREM ReadyHelps == CheckSpec => ReadyNeverWorsens
  <1>1. CheckTyped /\ CheckTyped' /\ [CheckNext]_checkVars
        => (sheet' # sheet /\ sheet.ticked \subseteq sheet'.ticked => SheetShows.verdict <= SheetShows'.verdict)
    <2> SUFFICES ASSUME CheckTyped, CheckTyped', [CheckNext]_checkVars, sheet' # sheet,
                        sheet.ticked \subseteq sheet'.ticked
                 PROVE  SheetShows.verdict <= SheetShows'.verdict
      OBVIOUS
    <2>1. subject' = subject
      BY Zenon DEF CheckNext, checkVars, VaultRead, ScoreArrives, ReopenSheet, HandleDocToggle, ToggleDoc, SetActiveTab,
            ToggleCard, OpenForm, ProfileArrives, HandleProfileChange, CloseForm
    <2>2. IsProgramme(subject.programme)
      BY ProgrammeAssumption DEF ProgrammeAssumption, CheckTyped
    <2>3. sheet.ticked \in SUBSET Documents /\ sheet'.ticked \in SUBSET Documents
      BY DEF CheckTyped
    <2>4. Verdict(subject.programme, subject.user, sheet.ticked) <= Verdict(subject.programme, subject.user, sheet'.ticked)
      BY <2>2, <2>3, VerdictRises
    <2> QED  BY <2>1, <2>4 DEF SheetShows
  <1> QED  BY <1>1, CheckAlways, PTL DEF ReadyNeverWorsens, CheckSpec

\* apply-assistant.tsx: while the form is open nothing but the user writes into an edited one.
THEOREM EditsStay == CheckSpec => EditsKept
  <1>1. CheckTyped /\ [CheckNext]_checkVars
        => (form.open /\ form.filled = "edited" /\ form'.open => form'.filled = "edited")
    <2> SUFFICES ASSUME CheckTyped, [CheckNext]_checkVars, form.open, form.filled = "edited", form'.open
                 PROVE  form'.filled = "edited"
      OBVIOUS
    <2>1. CASE form' = form
      BY <2>1
    <2>2. CASE ProfileArrives
      BY <2>2 DEF ProfileArrives, CheckTyped
    <2>3. CASE HandleProfileChange
      BY <2>3 DEF HandleProfileChange, CheckTyped
    <2>4. ASSUME NEW d \in Documents, ToggleDoc(d) PROVE form'.filled = "edited"
      BY <2>4 DEF ToggleDoc, CheckTyped
    <2>5. CASE CloseForm
      BY <2>5 DEF CloseForm, ClosedForm
    <2>6. \/ form' = form \/ ProfileArrives \/ HandleProfileChange \/ CloseForm
          \/ \E d \in Documents : ToggleDoc(d)
      BY Zenon DEF CheckNext, checkVars, VaultRead, ScoreArrives, ReopenSheet, HandleDocToggle, SetActiveTab,
            ToggleCard, OpenForm
    <2> QED  BY <2>1, <2>2, <2>3, <2>4, <2>5, <2>6
  <1> QED  BY <1>1, CheckAlways, PTL DEF EditsKept, CheckSpec

-----------------------------------------------------------------------------
(* Bookmarks                                                               *)

Toggles == [at: ToggleSteps, open: BOOLEAN]
MarkRecords == [row: BOOLEAN, first: BOOLEAN, answered: Nat, failed: BOOLEAN]
Icons == [signedIn: BOOLEAN, open: BOOLEAN, bookmarked: BOOLEAN, settled: BOOLEAN, alert: BOOLEAN]

\* The type, without the bound on the toggles
BookmarkTypes == marks \in MarkRecords /\ toggles \in Seq(Toggles) /\ icon \in Icons

\* The toggles that have changed the row and are on their way back
Due == {n \in DOMAIN toggles : toggles[n].at \in {"removed", "added"}}
Odd(n) == n % 2 = 1

Counted == ~marks.failed => (marks.row <=> ~(marks.first <=> Odd(marks.answered + Cardinality(Due))))

LEMMA DueFinite == BookmarkTypes => IsFiniteSet(Due) /\ Cardinality(Due) \in Nat
  <1> SUFFICES ASSUME BookmarkTypes PROVE IsFiniteSet(Due) /\ Cardinality(Due) \in Nat
    OBVIOUS
  <1>1. DOMAIN toggles = 1..Len(toggles) /\ Len(toggles) \in Nat
    BY DEF BookmarkTypes
  <1>2. IsFiniteSet(DOMAIN toggles)
    BY <1>1, FS_Interval
  <1>3. Due \subseteq DOMAIN toggles
    BY DEF Due
  <1> QED  BY <1>2, <1>3, FS_Subset, FS_CardinalityType

\* A toggle that goes one step on
LEMMA AdvanceTypes ==
    ASSUME BookmarkTypes, NEW n \in DOMAIN toggles, NEW step \in ToggleSteps, Advance(n, step)
    PROVE  /\ toggles' \in Seq(Toggles) /\ DOMAIN toggles' = DOMAIN toggles
           /\ toggles'[n].at = step /\ toggles'[n].open = toggles[n].open
           /\ \A m \in DOMAIN toggles \ {n} : toggles'[m] = toggles[m]
  <1>1. toggles \in Seq(Toggles) /\ toggles[n] \in Toggles
    BY DEF BookmarkTypes
  <1>2. toggles' = [toggles EXCEPT ![n] = [toggles[n] EXCEPT !.at = step]]
    BY DEF Advance
  <1>3. [toggles[n] EXCEPT !.at = step] \in Toggles
    BY <1>1 DEF Toggles
  <1>4. [toggles[n] EXCEPT !.at = step].at = step /\ [toggles[n] EXCEPT !.at = step].open = toggles[n].open
    BY <1>1 DEF Toggles
  <1>5. DOMAIN toggles = 1..Len(toggles) /\ Len(toggles) \in Nat
    BY <1>1
  <1>6. DOMAIN toggles' = DOMAIN toggles /\ toggles'[n] = [toggles[n] EXCEPT !.at = step]
    BY <1>2, <1>5, Zenon
  <1>7. \A m \in DOMAIN toggles \ {n} : toggles'[m] = toggles[m]
    BY <1>2, <1>5, Zenon
  <1>8. toggles' \in Seq(Toggles)
    BY <1>1, <1>2, <1>3
  <1> QED  BY <1>4, <1>6, <1>7, <1>8

LEMMA DueAdvances ==
    ASSUME BookmarkTypes, NEW n \in DOMAIN toggles, NEW step \in ToggleSteps, Advance(n, step)
    PROVE  /\ Due' = IF step \in {"removed", "added"} THEN Due \cup {n} ELSE Due \ {n}
           /\ n \in Due <=> toggles[n].at \in {"removed", "added"}
  BY AdvanceTypes DEF Due

LEMMA CountedInit == BookmarkInit => BookmarkTypes /\ Counted
  <1> SUFFICES ASSUME BookmarkInit PROVE BookmarkTypes /\ Counted
    OBVIOUS
  <1>1. toggles = <<>> /\ marks.answered = 0 /\ marks.first = marks.row
    BY DEF BookmarkInit
  <1>5. marks \in MarkRecords /\ icon \in Icons /\ toggles \in Seq(Toggles)
    <2>1. {0} \subseteq Nat /\ {TRUE} \subseteq BOOLEAN /\ {FALSE} \subseteq BOOLEAN
      OBVIOUS
    <2>2. marks \in MarkRecords
      BY <2>1, Zenon DEF BookmarkInit, MarkRecords
    <2>3. icon \in Icons
      BY <2>1, Zenon DEF BookmarkInit, Icons
    <2> QED  BY <1>1, <2>2, <2>3
  <1>2. Due = {}
    BY <1>1 DEF Due
  <1>3. Cardinality(Due) = 0
    BY <1>2, FS_EmptySet
  <1>4. ~Odd(0 + 0)
    BY DEF Odd
  <1>6. Counted
    BY <1>1, <1>3, <1>4 DEF Counted
  <1> QED  BY <1>1, <1>5, <1>6 DEF BookmarkTypes

LEMMA OddFlips == \A n \in Nat : Odd(n + 1) <=> ~Odd(n)
  BY DEF Odd

\* A toggle that changed the row is one more on its way back.
LEMMA ChangeCounts ==
    ASSUME BookmarkTypes, Counted, NEW n \in DOMAIN toggles, NEW step \in {"removed", "added"},
           toggles[n].at \notin {"removed", "added"}, Advance(n, step),
           NEW row \in BOOLEAN, row <=> ~marks.row, SetRow(row), UNCHANGED icon
    PROVE  BookmarkTypes' /\ Counted'
  <1>1. step \in ToggleSteps /\ toggles' \in Seq(Toggles)
    BY AdvanceTypes DEF ToggleSteps
  <1>2. marks \in MarkRecords /\ marks' = [marks EXCEPT !.row = row]
    BY DEF BookmarkTypes, SetRow
  <1>3. /\ marks' \in MarkRecords /\ (marks'.row <=> ~marks.row) /\ marks'.first = marks.first
        /\ marks'.answered = marks.answered /\ marks'.failed = marks.failed
    BY <1>2 DEF MarkRecords
  <1>4. Due' = Due \cup {n} /\ n \notin Due
    BY <1>1, DueAdvances
  <1>5. Cardinality(Due') = Cardinality(Due) + 1 /\ Cardinality(Due) \in Nat
    BY <1>4, DueFinite, FS_AddElement
  <1>6. marks.answered + Cardinality(Due') = (marks.answered + Cardinality(Due)) + 1
        /\ marks.answered + Cardinality(Due) \in Nat
    BY <1>2, <1>5 DEF MarkRecords
  <1>7. Odd(marks'.answered + Cardinality(Due')) <=> ~Odd(marks.answered + Cardinality(Due))
    BY <1>3, <1>6, OddFlips
  <1>8. marks.row \in BOOLEAN /\ marks.first \in BOOLEAN
    BY <1>2 DEF MarkRecords
  <1>9. BookmarkTypes'
    BY <1>1, <1>3 DEF BookmarkTypes
  <1> QED  BY <1>3, <1>7, <1>8, <1>9 DEF Counted

\* The answer of a toggle that changed the row, and the steps that change nothing
LEMMA AnswerCounts ==
    ASSUME BookmarkTypes, Counted, NEW n \in DOMAIN toggles, ToggleAnswered(n)
    PROVE  BookmarkTypes' /\ Counted'
  <1>1. toggles[n].at \in {"removed", "added"} /\ Advance(n, "done") /\ "done" \in ToggleSteps
    BY DEF ToggleAnswered, ToggleSteps
  <1>2. toggles' \in Seq(Toggles) /\ Due' = Due \ {n} /\ n \in Due
    BY <1>1, AdvanceTypes, DueAdvances
  <1>3. marks \in MarkRecords /\ icon \in Icons
    BY DEF BookmarkTypes
  <1>4. /\ marks' \in MarkRecords /\ marks'.row = marks.row /\ marks'.first = marks.first
        /\ marks'.answered = marks.answered + 1 /\ marks'.failed = marks.failed
    BY <1>3 DEF ToggleAnswered, MarkRecords
  <1>5. icon' \in Icons
    <2>1. UNCHANGED icon \/ icon' = [icon EXCEPT !.bookmarked = toggles[n].at = "added"]
      BY DEF ToggleAnswered
    <2> QED  BY <1>3, <2>1 DEF Icons
  <1>6. Cardinality(Due') = Cardinality(Due) - 1 /\ Cardinality(Due) \in Nat
    BY <1>2, DueFinite, FS_RemoveElement
  <1>7. marks'.answered + Cardinality(Due') = marks.answered + Cardinality(Due)
    BY <1>3, <1>4, <1>6 DEF MarkRecords
  <1>8. BookmarkTypes'
    BY <1>2, <1>4, <1>5 DEF BookmarkTypes
  <1> QED  BY <1>4, <1>7, <1>8 DEF Counted

LEMMA SameCounts ==
    ASSUME BookmarkTypes, Counted, Due' = Due, UNCHANGED marks
    PROVE  Counted'
  BY DEF Counted

LEMMA FailCounts ==
    ASSUME BookmarkTypes, Counted, NEW n \in DOMAIN toggles, ToggleFails(n)
    PROVE  BookmarkTypes' /\ Counted'
  <1>1. UnderWay(n) /\ Advance(n, "done") /\ "done" \in ToggleSteps
    BY DEF ToggleFails, ToggleSteps
  <1>2. toggles' \in Seq(Toggles) /\ Due' = Due \ {n} /\ (n \in Due <=> toggles[n].at \in {"removed", "added"})
    BY <1>1, AdvanceTypes, DueAdvances
  <1>3. marks \in MarkRecords /\ icon \in Icons
    BY DEF BookmarkTypes
  <1>4. marks' = [marks EXCEPT !.failed = @ \/ toggles[n].at # "refused"]
    BY DEF ToggleFails
  <1>5. /\ marks' \in MarkRecords /\ marks'.row = marks.row /\ marks'.first = marks.first
        /\ marks'.answered = marks.answered /\ (~marks'.failed => ~marks.failed /\ toggles[n].at = "refused")
    BY <1>3, <1>4 DEF MarkRecords
  <1>6. icon' \in Icons
    <2>1. UNCHANGED icon \/ icon' = [icon EXCEPT !.bookmarked = ~icon.bookmarked, !.settled = FALSE]
      BY DEF ToggleFails
    <2> QED  BY <1>3, <2>1 DEF Icons
  <1>7. BookmarkTypes'
    BY <1>2, <1>5, <1>6 DEF BookmarkTypes
  <1>8. ~marks'.failed => Due' = Due
    BY <1>2, <1>5
  <1> QED  BY <1>5, <1>7, <1>8 DEF Counted

\* The two statements of the server
LEMMA ServerCounts ==
    ASSUME BookmarkTypes, Counted, NEW n \in DOMAIN toggles, DeleteRow(n) \/ InsertRow(n)
    PROVE  BookmarkTypes' /\ Counted'
  <1>1. marks \in MarkRecords /\ marks.row \in BOOLEAN /\ UNCHANGED icon
    BY DEF BookmarkTypes, MarkRecords, DeleteRow, InsertRow
  <1>2. toggles[n].at \in {"sent", "absent"}
    BY DEF DeleteRow, InsertRow
  <1>3. \/ \E step \in {"removed", "added"}, row \in BOOLEAN : Advance(n, step) /\ (row <=> ~marks.row) /\ SetRow(row)
        \/ \E step \in {"absent", "refused"} : Advance(n, step) /\ UNCHANGED marks
    <2>1. CASE DeleteRow(n) /\ marks.row
      <3>1. Advance(n, "removed") /\ SetRow(FALSE) /\ (FALSE <=> ~marks.row)
        BY <2>1 DEF DeleteRow
      <3> QED  BY <3>1
    <2>2. CASE DeleteRow(n) /\ ~marks.row
      <3>1. Advance(n, "absent") /\ UNCHANGED marks
        BY <2>2 DEF DeleteRow
      <3> QED  BY <3>1
    <2>3. CASE InsertRow(n) /\ marks.row
      <3>1. Advance(n, "refused") /\ UNCHANGED marks
        BY <2>3 DEF InsertRow
      <3> QED  BY <3>1
    <2>4. CASE InsertRow(n) /\ ~marks.row
      <3>1. Advance(n, "added") /\ SetRow(TRUE) /\ (TRUE <=> ~marks.row)
        BY <1>1, <2>4 DEF InsertRow
      <3> QED  BY <3>1
    <2> QED  BY <2>1, <2>2, <2>3, <2>4, Zenon
  <1>4. ASSUME NEW step \in {"removed", "added"}, NEW row \in BOOLEAN,
               Advance(n, step), row <=> ~marks.row, SetRow(row)
        PROVE  BookmarkTypes' /\ Counted'
    BY <1>1, <1>2, <1>4, ChangeCounts
  <1>5. ASSUME NEW step \in {"absent", "refused"}, Advance(n, step), UNCHANGED marks PROVE BookmarkTypes' /\ Counted'
    <2>1. step \in ToggleSteps /\ step \notin {"removed", "added"}
      BY DEF ToggleSteps
    <2>2. toggles' \in Seq(Toggles) /\ Due' = Due \ {n} /\ n \notin Due
      BY <1>2, <1>5, <2>1, AdvanceTypes, DueAdvances
    <2>3. BookmarkTypes' /\ Due' = Due
      BY <1>1, <1>5, <2>2 DEF BookmarkTypes
    <2> QED  BY <1>5, <2>3, SameCounts
  <1> QED  BY <1>3, <1>4, <1>5

\* The screen
LEMMA ScreenCounts ==
    ASSUME BookmarkTypes, Counted, HandleBookmark \/ CloseLoginDialog \/ CloseProgramme \/ OpenProgramme
    PROVE  BookmarkTypes' /\ Counted'
  <1>1. marks \in MarkRecords /\ icon \in Icons /\ toggles \in Seq(Toggles)
        /\ DOMAIN toggles = 1..Len(toggles) /\ Len(toggles) \in Nat
    BY DEF BookmarkTypes
  <1>2. UNCHANGED marks
    BY DEF HandleBookmark, CloseLoginDialog, CloseProgramme, OpenProgramme
  <1>3. icon' \in Icons
    <2>1. CASE HandleBookmark
      <3>1. \/ \E b \in BOOLEAN : icon' = [icon EXCEPT !.settled = b]
            \/ icon' = [icon EXCEPT !.alert = TRUE]
        BY <2>1 DEF HandleBookmark
      <3> QED  BY <1>1, <3>1 DEF Icons
    <2>2. CASE CloseLoginDialog \/ CloseProgramme \/ OpenProgramme
      BY <1>1, <2>2 DEF Icons, CloseLoginDialog, CloseProgramme, OpenProgramme
    <2> QED  BY <2>1, <2>2
  <1>4. toggles' \in Seq(Toggles) /\ Due' = Due
    <2>1. CASE UNCHANGED toggles
      BY <1>1, <2>1 DEF Due
    <2>2. CASE toggles' = Append(toggles, [at |-> "sent", open |-> TRUE])
      <3> DEFINE t == [at |-> "sent", open |-> TRUE]
      <3>1. t \in Toggles /\ t.at = "sent"
        BY DEF Toggles, ToggleSteps
      <3>2. /\ Append(toggles, t) \in Seq(Toggles) /\ DOMAIN Append(toggles, t) = 1..(Len(toggles) + 1)
            /\ \A m \in DOMAIN toggles : Append(toggles, t)[m] = toggles[m]
            /\ Append(toggles, t)[Len(toggles) + 1] = t
        BY <1>1, <3>1
      <3>3. DOMAIN toggles' = DOMAIN toggles \cup {Len(toggles) + 1}
        BY <1>1, <2>2, <3>2
      <3> QED  BY <2>2, <3>1, <3>2, <3>3 DEF Due
    <2>3. CASE toggles' = [m \in DOMAIN toggles |-> [toggles[m] EXCEPT !.open = FALSE]]
      <3>1. ASSUME NEW m \in DOMAIN toggles
            PROVE  /\ [toggles[m] EXCEPT !.open = FALSE] \in Toggles
                   /\ [toggles[m] EXCEPT !.open = FALSE].at = toggles[m].at
        <4>1. toggles[m] \in Toggles
          BY <1>1
        <4> QED  BY <4>1 DEF Toggles
      <3>2. toggles' \in [1..Len(toggles) -> Toggles]
        BY <1>1, <2>3, <3>1
      <3>3. toggles' \in Seq(Toggles)
        BY <1>1, <3>2
      <3> QED  BY <2>3, <3>1, <3>3 DEF Due
    <2> QED  BY <2>1, <2>2, <2>3 DEF HandleBookmark, CloseLoginDialog, CloseProgramme, OpenProgramme
  <1>5. BookmarkTypes'
    BY <1>1, <1>2, <1>3, <1>4 DEF BookmarkTypes
  <1> QED  BY <1>2, <1>4, <1>5, SameCounts

LEMMA CountedStep == BookmarkTypes /\ Counted /\ [BookmarkNext]_bookmarkVars => BookmarkTypes' /\ Counted'
  <1> SUFFICES ASSUME BookmarkTypes, Counted, [BookmarkNext]_bookmarkVars PROVE BookmarkTypes' /\ Counted'
    OBVIOUS
  <1>1. CASE UNCHANGED bookmarkVars
    BY <1>1 DEF bookmarkVars, BookmarkTypes, Counted, Due
  <1> QED  BY <1>1, ServerCounts, AnswerCounts, FailCounts, ScreenCounts DEF BookmarkNext

\* toggle_bookmark, for any number of toggles that overlap in any way: each one that was
\* answered turned the row over once.
THEOREM TogglesCount == BookmarkSpec => []EveryToggleCounts
  <1>1. BookmarkTypes /\ Counted => EveryToggleCounts
    <2> SUFFICES ASSUME BookmarkTypes, Counted, ~marks.failed
                 PROVE  marks.row = (marks.first # ((marks.answered + Cardinality(Due)) % 2 = 1))
      BY DEF EveryToggleCounts, Due
    <2>1. marks.row \in BOOLEAN /\ marks.first \in BOOLEAN
      BY DEF BookmarkTypes, MarkRecords
    <2>2. marks.row <=> ~(marks.first <=> ((marks.answered + Cardinality(Due)) % 2 = 1))
      BY DEF Counted, Odd
    <2> QED  BY <2>1, <2>2, Zenon
  <1> QED  BY <1>1, CountedInit, CountedStep, PTL DEF BookmarkSpec

-----------------------------------------------------------------------------
(* The icon                                                                *)

Idle == \A n \in DOMAIN toggles : ~UnderWay(n)

\* A toggle that was sent alone stays alone until it is answered or the screen is left:
\* the row is as it left it.
Alone ==
    icon.settled =>
        /\ icon.open
        /\ \A n, m \in DOMAIN toggles : UnderWay(n) /\ UnderWay(m) => n = m
        /\ \A n \in DOMAIN toggles : UnderWay(n) =>
              /\ toggles[n].open
              /\ (toggles[n].at = "added" => marks.row) /\ (toggles[n].at = "removed" => ~marks.row)
        /\ Idle => (icon.bookmarked <=> marks.row)

LEMMA AloneInit == BookmarkInit => Alone
  BY DEF BookmarkInit, Alone

\* The screen: a press that finds nothing under way, and what ends the argument
LEMMA ScreenAlone ==
    ASSUME BookmarkTypes, Alone, HandleBookmark \/ CloseLoginDialog \/ CloseProgramme \/ OpenProgramme
    PROVE  Alone'
  <1>1. icon \in Icons /\ toggles \in Seq(Toggles)
        /\ DOMAIN toggles = 1..Len(toggles) /\ Len(toggles) \in Nat
    BY DEF BookmarkTypes
  <1>2. CASE HandleBookmark /\ icon.signedIn
    <2> DEFINE t == [at |-> "sent", open |-> TRUE]
    <2>1. /\ toggles' = Append(toggles, t) /\ icon.open /\ UNCHANGED marks
          /\ icon' = [icon EXCEPT !.settled = \A n \in DOMAIN toggles : ~UnderWay(n)]
      BY <1>2 DEF HandleBookmark
    <2>2. icon'.open /\ (icon'.settled => Idle)
      BY <1>1, <2>1 DEF Icons, Idle
    <2>3. t \in Toggles /\ t.at = "sent" /\ t.open
      BY DEF Toggles, ToggleSteps
    <2>4. PICK new \in Nat : new = Len(toggles) + 1
      BY <1>1
    <2>5. /\ DOMAIN toggles' = DOMAIN toggles \cup {new} /\ toggles'[new] = t
          /\ \A m \in DOMAIN toggles : toggles'[m] = toggles[m]
      BY <1>1, <2>1, <2>3, <2>4
    <2>6. Idle => \A m \in DOMAIN toggles' : UnderWay(m)' => m = new
      BY <2>5 DEF Idle, UnderWay
    <2>7. UnderWay(new)' /\ ~Idle'
      BY <2>3, <2>5 DEF Idle, UnderWay
    <2> QED  BY <2>2, <2>3, <2>5, <2>6, <2>7 DEF Alone
  <1>3. CASE (HandleBookmark /\ ~icon.signedIn) \/ CloseLoginDialog
    <2>1. UNCHANGED <<marks, toggles>> /\ \E b \in BOOLEAN : icon' = [icon EXCEPT !.alert = b]
      BY <1>3 DEF HandleBookmark, CloseLoginDialog
    <2>2. icon'.settled = icon.settled /\ icon'.open = icon.open /\ icon'.bookmarked = icon.bookmarked
      BY <1>1, <2>1 DEF Icons
    <2> QED  BY <2>1, <2>2 DEF Alone, Idle, UnderWay
  <1>4. CASE CloseProgramme
    <2>1. ~icon'.settled
      BY <1>1, <1>4 DEF CloseProgramme, Icons
    <2> QED  BY <2>1 DEF Alone
  <1>5. CASE OpenProgramme
    <2>1. ~icon.settled
      BY <1>5 DEF OpenProgramme, Alone
    <2>2. ~icon'.settled
      BY <1>1, <1>5, <2>1 DEF OpenProgramme, Icons
    <2> QED  BY <2>2 DEF Alone
  <1> QED  BY <1>2, <1>3, <1>4, <1>5

\* The server's statements: those of a toggle that is alone are the only ones.
LEMMA ServerAlone ==
    ASSUME BookmarkTypes, Alone, NEW n \in DOMAIN toggles, DeleteRow(n) \/ InsertRow(n)
    PROVE  Alone'
  <1>1. UNCHANGED icon /\ toggles[n].at \in {"sent", "absent"} /\ marks \in MarkRecords
    BY DEF BookmarkTypes, DeleteRow, InsertRow
  <1>2. PICK step \in {"removed", "absent", "added", "refused"} :
            /\ Advance(n, step)
            /\ step = "removed" => ~marks'.row
            /\ step = "added" => marks'.row
    <2>1. CASE DeleteRow(n)
      BY <1>1, <2>1 DEF DeleteRow, SetRow, MarkRecords
    <2>2. CASE InsertRow(n)
      BY <1>1, <2>2 DEF InsertRow, SetRow, MarkRecords
    <2> QED  BY <2>1, <2>2
  <1>3. step \in ToggleSteps /\ step # "done"
    BY DEF ToggleSteps
  <1>4. /\ DOMAIN toggles' = DOMAIN toggles
        /\ toggles'[n].at = step /\ toggles'[n].open = toggles[n].open
        /\ \A m \in DOMAIN toggles \ {n} : toggles'[m] = toggles[m]
    BY <1>2, <1>3, AdvanceTypes
  <1>5. UnderWay(n) /\ UnderWay(n)' /\ \A m \in DOMAIN toggles : UnderWay(m)' <=> UnderWay(m)
    BY <1>1, <1>3, <1>4 DEF UnderWay
  <1>6. ~Idle'
    BY <1>4, <1>5 DEF Idle
  <1>7. icon.settled => \A m \in DOMAIN toggles : UnderWay(m) => m = n
    BY <1>5 DEF Alone
  <1> QED  BY <1>1, <1>2, <1>4, <1>5, <1>6, <1>7 DEF Alone

LEMMA EndAlone ==
    ASSUME BookmarkTypes, Alone, NEW n \in DOMAIN toggles, ToggleAnswered(n) \/ ToggleFails(n)
    PROVE  Alone'
  <1>1. icon \in Icons /\ marks \in MarkRecords /\ Advance(n, "done") /\ "done" \in ToggleSteps /\ UnderWay(n)
    BY DEF BookmarkTypes, ToggleAnswered, ToggleFails, ToggleSteps, UnderWay
  <1>2. /\ DOMAIN toggles' = DOMAIN toggles /\ toggles'[n].at = "done"
        /\ \A m \in DOMAIN toggles \ {n} : toggles'[m] = toggles[m]
    BY <1>1, AdvanceTypes
  <1>3. ~UnderWay(n)' /\ \A m \in DOMAIN toggles \ {n} : UnderWay(m)' <=> UnderWay(m)
    BY <1>2 DEF UnderWay
  <1>4. marks'.row = marks.row
    BY <1>1 DEF ToggleAnswered, ToggleFails, MarkRecords
  <1>5. CASE ~icon.settled
    <2>1. ~icon'.settled
      BY <1>1, <1>5 DEF ToggleAnswered, ToggleFails, Icons
    <2> QED  BY <2>1 DEF Alone
  <1>6. CASE icon.settled
    <2>1. toggles[n].open /\ icon.open /\ \A m \in DOMAIN toggles : UnderWay(m) => m = n
      BY <1>1, <1>6 DEF Alone
    <2>2. Idle'
      BY <1>2, <1>3, <2>1 DEF Idle
    <2>3. CASE ToggleFails(n)
      <3>1. ~icon'.settled
        BY <1>1, <2>1, <2>3 DEF ToggleFails, Icons
      <3> QED  BY <3>1 DEF Alone
    <2>4. CASE ToggleAnswered(n)
      <3>1. toggles[n].at \in {"removed", "added"} /\ (toggles[n].at = "added" <=> marks.row)
        BY <1>1, <1>6, <2>4 DEF ToggleAnswered, Alone
      <3>2. icon' = [icon EXCEPT !.bookmarked = toggles[n].at = "added"]
        BY <2>1, <2>4 DEF ToggleAnswered
      <3>3. icon'.open /\ (icon'.bookmarked <=> toggles[n].at = "added")
        BY <1>1, <2>1, <3>2 DEF Icons
      <3> QED  BY <1>4, <2>2, <3>1, <3>3 DEF Alone, Idle
    <2> QED  BY <2>3, <2>4
  <1> QED  BY <1>5, <1>6

LEMMA AloneStep == BookmarkTypes /\ Alone /\ [BookmarkNext]_bookmarkVars => Alone'
  <1> SUFFICES ASSUME BookmarkTypes, Alone, [BookmarkNext]_bookmarkVars PROVE Alone'
    OBVIOUS
  <1>1. CASE UNCHANGED bookmarkVars
    BY <1>1 DEF bookmarkVars, Alone, Idle, UnderWay
  <1> QED  BY <1>1, ScreenAlone, ServerAlone, EndAlone DEF BookmarkNext

\* programs/[id].tsx, for any number of toggles and visits of the screen: what an answered
\* toggle that was alone leaves on the icon is the row.
THEOREM IconShowsRow == BookmarkSpec => []IconIsRow
  <1>1. BookmarkTypes /\ Alone => IconIsRow
    <2> SUFFICES ASSUME BookmarkTypes, Alone, icon.open, icon.settled, ~BookmarkLoading
                 PROVE  icon.bookmarked = marks.row
      BY DEF IconIsRow
    <2>1. Idle
      BY DEF Alone, Idle, BookmarkLoading
    <2>2. icon.bookmarked \in BOOLEAN /\ marks.row \in BOOLEAN
      BY DEF BookmarkTypes, Icons, MarkRecords
    <2>3. icon.bookmarked <=> marks.row
      BY <2>1 DEF Alone
    <2> QED  BY <2>2, <2>3, Zenon
  <1>2. BookmarkTypes /\ Counted /\ Alone /\ [BookmarkNext]_bookmarkVars => (BookmarkTypes /\ Counted /\ Alone)'
    BY CountedStep, AloneStep
  <1> QED  BY <1>1, <1>2, CountedInit, AloneInit, PTL DEF BookmarkSpec

\* The toggles that are over, and the bound: as many were sent, and no more were answered
\* than are over.
Over == {n \in DOMAIN toggles : ~UnderWay(n)}
TogglesFit == Len(toggles) <= MaxToggles /\ marks.answered <= Cardinality(Over)

LEMMA OverCounted == BookmarkTypes => /\ IsFiniteSet(Over) /\ Cardinality(Over) \in Nat
                                      /\ Cardinality(Over) <= Len(toggles) /\ Len(toggles) \in Nat
  <1> SUFFICES ASSUME BookmarkTypes PROVE /\ IsFiniteSet(Over) /\ Cardinality(Over) \in Nat
                                          /\ Cardinality(Over) <= Len(toggles) /\ Len(toggles) \in Nat
    OBVIOUS
  <1>1. DOMAIN toggles = 1..Len(toggles) /\ Len(toggles) \in Nat
    BY DEF BookmarkTypes
  <1>2. IsFiniteSet(1..Len(toggles)) /\ Cardinality(1..Len(toggles)) = Len(toggles)
    <2> DEFINE n == Len(toggles)
    <2>1. n \in Int /\ 1 \in Int /\ n \in Nat
      BY <1>1
    <2> HIDE DEF n
    <2>2. IsFiniteSet(1..n) /\ Cardinality(1..n) = IF 1 > n THEN 0 ELSE n - 1 + 1
      BY <2>1, FS_Interval, Zenon
    <2>3. Cardinality(1..n) = n
      BY <2>1, <2>2
    <2> QED  BY <2>2, <2>3 DEF n
  <1>3. Over \subseteq 1..Len(toggles)
    BY <1>1 DEF Over
  <1>4. IsFiniteSet(Over) /\ Cardinality(Over) <= Cardinality(1..Len(toggles))
    BY <1>2, <1>3, FS_Subset
  <1> QED  BY <1>1, <1>2, <1>4, FS_CardinalityType

LEMMA FitAtFirst == BookmarkInit => TogglesFit
  <1> SUFFICES ASSUME BookmarkInit PROVE TogglesFit
    OBVIOUS
  <1>1. toggles = <<>> /\ marks.answered = 0
    BY DEF BookmarkInit
  <1>2. Over = {}
    BY <1>1 DEF Over
  <1> QED  BY <1>1, <1>2, FS_EmptySet, BookmarkAssumption DEF TogglesFit, BookmarkAssumption

\* A toggle that ends is over from then on; others stay as they are.
LEMMA FitAdvances ==
    ASSUME BookmarkTypes, NEW n \in DOMAIN toggles, UnderWay(n), NEW step \in ToggleSteps, Advance(n, step)
    PROVE  /\ Len(toggles') = Len(toggles)
           /\ step # "done" => Over' = Over
           /\ step = "done" => Cardinality(Over') = Cardinality(Over) + 1
  <1>1. /\ toggles' \in Seq(Toggles) /\ DOMAIN toggles' = DOMAIN toggles /\ toggles'[n].at = step
        /\ \A m \in DOMAIN toggles \ {n} : toggles'[m] = toggles[m]
    BY AdvanceTypes
  <1>2. Len(toggles') = Len(toggles)
    BY <1>1 DEF BookmarkTypes
  <1>3. n \notin Over
    BY DEF Over
  <1>4. Over' = IF step = "done" THEN Over \cup {n} ELSE Over
    BY <1>1, <1>3 DEF Over, UnderWay
  <1> QED  BY <1>2, <1>3, <1>4, OverCounted, FS_AddElement

LEMMA FitStep == BookmarkTypes /\ TogglesFit /\ [BookmarkNext]_bookmarkVars => TogglesFit'
  <1> SUFFICES ASSUME BookmarkTypes, TogglesFit, [BookmarkNext]_bookmarkVars PROVE TogglesFit'
    OBVIOUS
  <1>1. marks \in MarkRecords /\ toggles \in Seq(Toggles)
    BY DEF BookmarkTypes
  <1>2. ASSUME NEW n \in DOMAIN toggles, DeleteRow(n) \/ InsertRow(n) PROVE TogglesFit'
    <2>1. \E step \in {"removed", "absent", "added", "refused"} : Advance(n, step)
      BY <1>2 DEF DeleteRow, InsertRow
    <2>2. UnderWay(n) /\ {"removed", "absent", "added", "refused"} \subseteq ToggleSteps \ {"done"}
      BY <1>2 DEF DeleteRow, InsertRow, UnderWay, ToggleSteps
    <2>3. marks'.answered = marks.answered
      BY <1>1, <1>2 DEF DeleteRow, InsertRow, SetRow, MarkRecords
    <2>4. Len(toggles') = Len(toggles) /\ Over' = Over
      BY <2>1, <2>2, FitAdvances
    <2> QED  BY <2>3, <2>4 DEF TogglesFit
  <1>3. ASSUME NEW n \in DOMAIN toggles, ToggleAnswered(n) \/ ToggleFails(n) PROVE TogglesFit'
    <2>1. Advance(n, "done") /\ UnderWay(n) /\ "done" \in ToggleSteps
      BY <1>3 DEF ToggleAnswered, ToggleFails, UnderWay, ToggleSteps
    <2>2. marks'.answered \in {marks.answered, marks.answered + 1} /\ marks.answered \in Nat
      BY <1>1, <1>3 DEF ToggleAnswered, ToggleFails, MarkRecords
    <2>3. Len(toggles') = Len(toggles) /\ Cardinality(Over') = Cardinality(Over) + 1
      BY <2>1, FitAdvances
    <2>4. Cardinality(Over) \in Nat
      BY OverCounted
    <2> QED  BY <2>2, <2>3, <2>4 DEF TogglesFit
  <1>4. CASE HandleBookmark
    <2>1. UNCHANGED marks
      BY <1>4 DEF HandleBookmark
    <2>2. CASE UNCHANGED toggles
      BY <2>1, <2>2 DEF TogglesFit, Over, UnderWay
    <2>3. CASE ~UNCHANGED toggles
      <3> DEFINE t == [at |-> "sent", open |-> TRUE]
      <3>1. Len(toggles) < MaxToggles /\ toggles' = Append(toggles, t)
        BY <1>4, <2>3 DEF HandleBookmark
      <3>2. t \in Toggles /\ t.at # "done"
        BY DEF Toggles, ToggleSteps
      <3> HIDE DEF t
      <3>3. /\ Len(toggles') = Len(toggles) + 1 /\ Len(toggles) \in Nat /\ DOMAIN toggles = 1..Len(toggles)
            /\ DOMAIN toggles' = 1..(Len(toggles) + 1) /\ toggles'[Len(toggles) + 1] = t
            /\ \A m \in DOMAIN toggles : toggles'[m] = toggles[m]
        BY <1>1, <3>1, <3>2
      <3>4. Over' = Over
        BY <3>2, <3>3 DEF Over, UnderWay
      <3>5. Len(toggles') <= MaxToggles
        BY <3>1, <3>3, BookmarkAssumption DEF BookmarkAssumption
      <3> QED  BY <2>1, <3>4, <3>5 DEF TogglesFit
    <2> QED  BY <2>2, <2>3
  <1>5. CASE CloseProgramme
    <2>1. UNCHANGED marks /\ toggles' = [n \in DOMAIN toggles |-> [toggles[n] EXCEPT !.open = FALSE]]
      BY <1>5 DEF CloseProgramme
    <2>2. \A n \in DOMAIN toggles : toggles[n] \in Toggles
      BY <1>1
    <2>3. \A n \in DOMAIN toggles : [toggles[n] EXCEPT !.open = FALSE] \in Toggles
                                  /\ [toggles[n] EXCEPT !.open = FALSE].at = toggles[n].at
      BY <2>2 DEF Toggles
    <2>4. DOMAIN toggles' = DOMAIN toggles /\ \A n \in DOMAIN toggles : toggles'[n].at = toggles[n].at
      BY <2>1, <2>3
    <2>5. Over' = Over
      BY <2>4 DEF Over, UnderWay
    <2>6. Len(toggles') = Len(toggles)
      <3>1. toggles' \in Seq(Toggles)
        <4>1. toggles' \in [1..Len(toggles) -> Toggles] /\ Len(toggles) \in Nat
          BY <1>1, <2>1, <2>3
        <4> QED  BY <4>1
      <3> QED  BY <1>1, <2>4, <3>1
    <2> QED  BY <2>1, <2>5, <2>6 DEF TogglesFit
  <1>6. CASE CloseLoginDialog \/ OpenProgramme \/ UNCHANGED bookmarkVars
    <2>1. UNCHANGED <<marks, toggles>>
      BY <1>6 DEF CloseLoginDialog, OpenProgramme, bookmarkVars
    <2> QED  BY <2>1 DEF TogglesFit, Over, UnderWay
  <1> QED  BY <1>2, <1>3, <1>4, <1>5, <1>6 DEF BookmarkNext

\* The bookmark's row, toggles and icon hold what their declarations allow, and no more
\* toggles are answered than were sent.
THEOREM BookmarkIsTyped == BookmarkSpec => []BookmarkTypeOK
  <1>1. BookmarkTypes /\ TogglesFit => BookmarkTypeOK
    <2> SUFFICES ASSUME BookmarkTypes, TogglesFit PROVE BookmarkTypeOK
      OBVIOUS
    <2>1. marks \in [row: BOOLEAN, first: BOOLEAN, answered: 0..MaxToggles, failed: BOOLEAN]
      BY OverCounted, BookmarkAssumption DEF BookmarkTypes, TogglesFit, MarkRecords, BookmarkAssumption
    <2> QED  BY <2>1, Zenon DEF BookmarkTypes, TogglesFit, BookmarkTypeOK, Toggles, Icons
  <1>2. /\ BookmarkTypes /\ Counted /\ TogglesFit /\ [BookmarkNext]_bookmarkVars
        => (BookmarkTypes /\ Counted /\ TogglesFit)'
    BY CountedStep, FitStep
  <1> QED  BY <1>1, <1>2, CountedInit, FitAtFirst, PTL DEF BookmarkSpec

-----------------------------------------------------------------------------
(* Preview                                                                 *)

Data == [of: Results, saved: BOOLEAN]
Screens == [open: BOOLEAN, reading: BOOLEAN, data: Data, loading: BOOLEAN, refreshing: BOOLEAN,
            error: BOOLEAN, fromCache: BOOLEAN, blind: BOOLEAN]
Fetches == [no: Nat, of: PreviewRegions, at: {"network", "store", "cache"}, read: Results, open: BOOLEAN]

\* The type, without the bound on the fetches; an open screen has complete answers.
PreviewTypes ==
    /\ preview \in Screens /\ fetches \subseteq Fetches
    /\ kept \in Results /\ answer \in Results /\ fetched \in Nat
    /\ preview.open => answer # ""

\* A fetch whose screen is open is for the answers of this visit; one that is being stored
\* has shown a result.
OpenFetches ==
    \A f \in fetches : f.open =>
        /\ preview.open /\ ~preview.reading /\ f.of = answer
        /\ f.at = "store" => preview.data.of # ""

\* Until the effect runs there is a spinner.
Reading == preview.reading => preview.open /\ preview.loading /\ preview.data.of = "" /\ ~preview.data.saved

\* What was read was kept, and something stays kept.
KeptStays ==
    /\ preview.data.saved => kept # "" /\ preview.data.of # ""
    /\ \A f \in fetches : f.read # "" => kept # ""

\* What was not read is the server's for the answers of this visit.
Own == preview.open /\ preview.data.of # "" /\ ~preview.data.saved => preview.data.of = answer

Waiting ==
    preview.open /\ ~preview.reading /\ ~preview.blind /\ (\A f \in fetches : ~f.open) =>
        ~preview.loading /\ ~preview.refreshing /\ (preview.data.of = "" => preview.error)

\* A saved result without the banner has a fetch that will replace or mark it.
Pending(f) == f.open /\ (f.at = "network" \/ (f.at = "cache" /\ f.read # ""))
Marked ==
    preview.open /\ ~preview.reading /\ ~preview.blind /\ preview.data.saved /\ ~preview.fromCache =>
        \E f \in fetches : Pending(f)

PreviewInv == PreviewTypes /\ OpenFetches /\ Reading /\ KeptStays /\ Own /\ Waiting /\ Marked

LEMMA RegionsNotEmpty == "" \notin PreviewRegions
  BY PreviewAssumption DEF PreviewAssumption

LEMMA OneMore == \A n \in Nat : n + 1 \in Nat
  OBVIOUS

\* What the screen offers
LEMMA ScreenOffers ==
    ASSUME preview \in Screens
    PROVE  /\ "refresh" \in PreviewScreen => preview.open /\ preview.data.of # ""
           /\ "retry" \in PreviewScreen => preview.open /\ preview.data.of = "" /\ ~preview.loading
           /\ "list" \in PreviewScreen => preview.data.of # ""
           /\ preview.open /\ preview.data.of # "" => PreviewScreen # {} /\ "spinner" \notin PreviewScreen
           /\ preview.open /\ preview.data.of = "" /\ ~preview.loading /\ preview.error =>
                 PreviewScreen # {} /\ "spinner" \notin PreviewScreen
  <1>1. CASE ~preview.open
    <2>1. PreviewScreen = {}
      BY <1>1, Zenon DEF PreviewScreen
    <2> QED  BY <1>1, <2>1
  <1>2. CASE preview.open /\ preview.data.of = ""
    <2>1. PreviewScreen = IF preview.loading THEN {"spinner"}
                          ELSE IF preview.error THEN {"retry", "onboarding"} ELSE {}
      BY <1>2, Zenon DEF PreviewScreen
    <2> QED  BY <1>2, <2>1
  <1>3. CASE preview.open /\ preview.data.of # ""
    <2>1. PreviewScreen = {"list", "onboarding"} \cup (IF preview.refreshing THEN {} ELSE {"refresh"})
                                                 \cup (IF preview.fromCache THEN {"offline banner"} ELSE {})
      BY <1>3, Zenon DEF PreviewScreen
    <2> QED  BY <1>3, <2>1
  <1> QED  BY <1>1, <1>2, <1>3

LEMMA PreviewInvInit == PreviewInit => PreviewInv
  <1> SUFFICES ASSUME PreviewInit PROVE PreviewInv
    OBVIOUS
  <1>1. /\ preview = ClosedPreview /\ fetches = {} /\ fetched = 0
        /\ kept \in Results /\ answer \in Results
    BY DEF PreviewInit, Results
  <1>2. NoResult \in Data
    BY DEF NoResult, Data, Results
  <1>3. ClosedPreview \in Screens /\ ~ClosedPreview.open /\ ~ClosedPreview.reading /\ ClosedPreview.data = NoResult
    BY <1>2 DEF ClosedPreview, Screens
  <1>4. ~NoResult.saved
    BY DEF NoResult
  <1> QED  BY <1>1, <1>3, <1>4 DEF PreviewInv, PreviewTypes, OpenFetches, Reading, KeptStays, Own, Waiting, Marked

\* A new fetch, on a screen that keeps its data or shows what is kept
LEMMA StartKeeps ==
    ASSUME PreviewInv, NEW screen \in Screens, NEW refresh \in BOOLEAN, StartFetch(screen, refresh),
           screen.open, ~screen.reading, preview.open, UNCHANGED <<kept, answer>>,
           screen.data.saved => kept # "" /\ screen.data.of # "",
           screen.data.of # "" /\ ~screen.data.saved => screen.data.of = answer,
           preview.reading \/ screen.data = preview.data
    PROVE  PreviewInv'
  <1> DEFINE new == [no |-> fetched + 1, of |-> answer, at |-> "network", read |-> "", open |-> TRUE]
  <1>1. /\ preview \in Screens /\ fetches \subseteq Fetches
        /\ answer \in PreviewRegions /\ kept \in Results
    BY DEF PreviewInv, PreviewTypes, Results
  <1>11. fetched \in Nat /\ fetched + 1 \in Nat /\ fetched' = fetched + 1
    <2>1. fetched \in Nat
      BY DEF PreviewInv, PreviewTypes
    <2>2. fetched' = fetched + 1
      BY DEF StartFetch
    <2>3. fetched + 1 \in Nat
      BY <2>1, OneMore, Zenon
    <2> QED  BY <2>1, <2>2, <2>3, Zenon
  <1>2. /\ fetches' = fetches \cup {new}
        /\ preview' = [screen EXCEPT !.loading = @ \/ ~refresh, !.refreshing = @ \/ refresh,
                                     !.error = FALSE, !.fromCache = FALSE, !.blind = FALSE]
    BY DEF StartFetch
  <1>3. preview' \in Screens
    BY <1>2 DEF Screens
  <1>4. preview'.open /\ ~preview'.reading /\ preview'.data = screen.data
    BY <1>2 DEF Screens
  <1>5. new \in Fetches /\ new.open /\ new.of = answer /\ new.at = "network" /\ new.read = ""
    <2>1. "" \in Results
      BY DEF Results
    <2>2. new \in Fetches
      BY <1>1, <1>11, <2>1, Zenon DEF Fetches
    <2> QED  BY <2>2
  <1> HIDE DEF new
  <1>6. PreviewTypes'
    <2>1. fetches' \subseteq Fetches
      BY <1>1, <1>2, <1>5, Zenon
    <2>2. fetched' \in Nat
      BY <1>11
    <2> QED  BY <1>1, <1>3, <1>4, <2>1, <2>2 DEF PreviewInv, PreviewTypes
  <1>7. OpenFetches'
    BY <1>2, <1>4, <1>5 DEF PreviewInv, OpenFetches
  <1>8. KeptStays'
    BY <1>2, <1>4, <1>5 DEF PreviewInv, KeptStays
  <1>9. Pending(new)
    BY <1>5 DEF Pending
  <1>10. Reading' /\ Own' /\ Waiting' /\ Marked'
    BY <1>2, <1>4, <1>5, <1>9 DEF Reading, Own, Waiting, Marked
  <1> QED  BY <1>6, <1>7, <1>8, <1>10 DEF PreviewInv

LEMMA StartingKeeps ==
    ASSUME PreviewInv, ShowKept \/ KeptUnread \/ Refresh \/ Retry
    PROVE  PreviewInv'
  <1>1. preview \in Screens /\ kept \in Results
    BY DEF PreviewInv, PreviewTypes
  <1>2. CASE ShowKept
    <2> DEFINE data == [of |-> kept, saved |-> kept # ""]
               screen == [preview EXCEPT !.reading = FALSE, !.data = data]
    <2>1. data \in Data /\ data.of = kept /\ (data.saved <=> kept # "")
      BY <1>1 DEF Data
    <2>2. preview.reading /\ StartFetch(screen, FALSE) /\ UNCHANGED <<kept, answer>>
      BY <1>2 DEF ShowKept
    <2>3. preview.open
      BY <2>2 DEF PreviewInv, Reading
    <2> HIDE DEF data
    <2>4. screen \in Screens /\ screen.open /\ ~screen.reading /\ screen.data = data
      BY <1>1, <2>1, <2>3 DEF Screens
    <2> HIDE DEF screen
    <2> QED  BY <2>1, <2>2, <2>3, <2>4, StartKeeps
  <1>3. ASSUME NEW refresh \in BOOLEAN, StartFetch(preview, refresh), UNCHANGED <<kept, answer>>,
               preview.open, ~preview.reading
        PROVE  PreviewInv'
    <2>1. /\ preview.data.saved => kept # "" /\ preview.data.of # ""
          /\ preview.data.of # "" /\ ~preview.data.saved => preview.data.of = answer
      BY <1>3 DEF PreviewInv, KeptStays, Own
    <2> QED  BY <1>1, <1>3, <2>1, StartKeeps
  <1>4. CASE Refresh
    <2>1. "refresh" \in PreviewScreen /\ StartFetch(preview, TRUE) /\ UNCHANGED <<kept, answer>>
      BY <1>4 DEF Refresh
    <2>2. preview.open /\ ~preview.reading
      BY <1>1, <2>1, ScreenOffers DEF PreviewInv, Reading
    <2> QED  BY <1>3, <2>1, <2>2
  <1>5. CASE Retry
    <2>1. "retry" \in PreviewScreen /\ StartFetch(preview, FALSE) /\ UNCHANGED <<kept, answer>>
      BY <1>5 DEF Retry
    <2>2. preview.open /\ ~preview.reading
      BY <1>1, <2>1, ScreenOffers DEF PreviewInv, Reading
    <2> QED  BY <1>3, <2>1, <2>2
  <1>6. CASE KeptUnread
    <2>1. /\ preview.reading /\ preview' = [preview EXCEPT !.reading = FALSE, !.blind = TRUE]
          /\ UNCHANGED <<fetches, kept, answer, fetched>>
      BY <1>6 DEF KeptUnread
    <2>2. /\ preview' \in Screens /\ preview'.open = preview.open /\ preview'.data = preview.data
          /\ preview'.blind /\ ~preview'.reading
      BY <1>1, <2>1 DEF Screens
    <2> QED  BY <2>1, <2>2
             DEF PreviewInv, PreviewTypes, OpenFetches, Reading, KeptStays, Own, Waiting, Marked
  <1> QED  BY <1>2, <1>4, <1>5, <1>6

\* A screen that is opened or closed
LEMMA ComingKeeps ==
    ASSUME PreviewInv, OpenPreview \/ LeavePreview \/ \E r \in PreviewRegions : AnswerAgain(r)
    PROVE  PreviewInv'
  <1>1. /\ preview \in Screens /\ fetches \subseteq Fetches
        /\ kept \in Results /\ answer \in Results
    BY DEF PreviewInv, PreviewTypes
  <1>2. NoResult \in Data /\ NoResult.of = "" /\ ~NoResult.saved
    BY DEF NoResult, Data, Results
  <1>3. /\ ClosedPreview \in Screens /\ ~ClosedPreview.open /\ ~ClosedPreview.reading
        /\ ClosedPreview.data = NoResult
    BY <1>2 DEF ClosedPreview, Screens
  <1>4. CASE OpenPreview
    <2>1. /\ ~preview.open /\ answer # "" /\ UNCHANGED <<fetches, kept, answer, fetched>>
          /\ preview' = [ClosedPreview EXCEPT !.open = TRUE, !.reading = TRUE, !.loading = TRUE]
      BY <1>4 DEF OpenPreview
    <2>2. preview' \in Screens
      BY <1>3, <2>1 DEF Screens
    <2>3. preview'.open /\ preview'.reading /\ preview'.loading /\ preview'.data = NoResult
      BY <1>3, <2>1 DEF Screens
    <2>4. \A f \in fetches : ~f.open
      BY <2>1 DEF PreviewInv, OpenFetches
    <2> QED  BY <1>2, <2>1, <2>2, <2>3, <2>4
             DEF PreviewInv, PreviewTypes, OpenFetches, Reading, KeptStays, Own, Waiting, Marked
  <1>5. CASE LeavePreview
    <2>1. /\ preview' = ClosedPreview /\ answer' \in {answer, ""} /\ UNCHANGED <<kept, fetched>>
          /\ fetches' = {[f EXCEPT !.open = FALSE] : f \in fetches}
      BY <1>5 DEF LeavePreview
    <2>2. ASSUME NEW f \in fetches
          PROVE  /\ [f EXCEPT !.open = FALSE] \in Fetches /\ ~[f EXCEPT !.open = FALSE].open
                 /\ [f EXCEPT !.open = FALSE].read = f.read
      BY <1>1 DEF Fetches
    <2>3. fetches' \subseteq Fetches /\ \A f \in fetches' : ~f.open /\ (f.read # "" => kept # "")
      BY <2>1, <2>2 DEF PreviewInv, KeptStays
    <2>4. answer' \in Results
      BY <1>1, <2>1 DEF Results
    <2> QED  BY <1>2, <1>3, <2>1, <2>3, <2>4
             DEF PreviewInv, PreviewTypes, OpenFetches, Reading, KeptStays, Own, Waiting, Marked
  <1>6. ASSUME NEW r \in PreviewRegions, AnswerAgain(r) PROVE PreviewInv'
    <2>1. ~preview.open /\ answer' = r /\ kept' \in {kept, r} /\ UNCHANGED <<preview, fetches, fetched>>
      BY <1>6 DEF AnswerAgain
    <2>2. r # "" /\ r \in Results
      BY RegionsNotEmpty DEF Results
    <2>3. \A f \in fetches : ~f.open
      BY <2>1 DEF PreviewInv, OpenFetches
    <2> QED  BY <1>1, <2>1, <2>2, <2>3
             DEF PreviewInv, PreviewTypes, OpenFetches, Reading, KeptStays, Own, Waiting, Marked
  <1> QED  BY <1>4, <1>5, <1>6

\* A fetch that goes on
LEMMA FetchGoesOn ==
    ASSUME PreviewTypes, NEW f \in fetches, NEW step \in {"network", "store", "cache"}, NEW read \in Results,
           FetchReaches(f, step, read)
    PROVE  \E g \in Fetches :
              /\ fetches' = (fetches \ {f}) \cup {g}
              /\ g.of = f.of /\ g.open = f.open /\ g.at = step /\ g.read = read
  <1>1. f \in Fetches
    BY DEF PreviewTypes
  <1>2. [f EXCEPT !.at = step, !.read = read] \in Fetches
    BY <1>1 DEF Fetches
  <1>3. /\ [f EXCEPT !.at = step, !.read = read].of = f.of
        /\ [f EXCEPT !.at = step, !.read = read].open = f.open
        /\ [f EXCEPT !.at = step, !.read = read].at = step
        /\ [f EXCEPT !.at = step, !.read = read].read = read
    BY <1>1 DEF Fetches
  <1> QED  BY <1>2, <1>3, Zenon DEF FetchReaches

LEMMA SuccessKeeps ==
    ASSUME PreviewInv, NEW f \in fetches, FetchSucceeds(f)
    PROVE  PreviewInv'
  <1>1. /\ preview \in Screens /\ fetches \subseteq Fetches /\ PreviewTypes
        /\ kept \in Results /\ answer \in Results /\ f \in Fetches
    BY DEF PreviewInv, PreviewTypes
  <1>2. f.of \in PreviewRegions /\ f.of # "" /\ f.of \in Results /\ f.open \in BOOLEAN
    BY <1>1, RegionsNotEmpty DEF Fetches, Results
  <1>3. PICK g \in Fetches :
            /\ fetches' = (fetches \ {f}) \cup {g}
            /\ g.of = f.of /\ g.open = f.open /\ g.at = "store" /\ g.read = ""
    <2>1. fetches' = (fetches \ {f}) \cup {[f EXCEPT !.at = "store", !.read = ""]}
      BY Zenon DEF FetchSucceeds, FetchReaches
    <2>2. f \in Fetches /\ "" \in Results
      BY <1>1 DEF Results
    <2>3. [f EXCEPT !.at = "store", !.read = ""] \in Fetches
      BY <2>2 DEF Fetches
    <2>4. /\ [f EXCEPT !.at = "store", !.read = ""].of = f.of
          /\ [f EXCEPT !.at = "store", !.read = ""].open = f.open
          /\ [f EXCEPT !.at = "store", !.read = ""].at = "store"
          /\ [f EXCEPT !.at = "store", !.read = ""].read = ""
      BY <2>2 DEF Fetches
    <2> QED  BY <2>1, <2>3, <2>4, Zenon
  <1>4. kept' \in {f.of, kept} /\ UNCHANGED <<answer, fetched>>
    BY DEF FetchSucceeds
  <1> DEFINE data == [of |-> f.of, saved |-> FALSE]
  <1>5. data \in Data /\ data.of = f.of /\ ~data.saved
    BY <1>2 DEF Data
  <1>6. preview' = IF f.open THEN [preview EXCEPT !.data = data, !.blind = FALSE] ELSE preview
    BY DEF FetchSucceeds, Seen
  <1> HIDE DEF data
  <1>7. CASE f.open
    <2>1. preview.open /\ ~preview.reading /\ f.of = answer
      BY <1>7 DEF PreviewInv, OpenFetches
    <2>2. /\ preview' \in Screens /\ preview'.open /\ ~preview'.reading /\ preview'.data = data
      BY <1>1, <1>5, <1>6, <1>7, <2>1 DEF Screens
    <2>3. \A h \in fetches' : (h.open => h.of = answer) /\ (h.read # "" => kept' # "")
      BY <1>2, <1>3, <1>4, <2>1 DEF PreviewInv, OpenFetches, KeptStays
    <2> QED  BY <1>1, <1>2, <1>3, <1>4, <1>5, <1>7, <2>1, <2>2, <2>3
             DEF PreviewInv, PreviewTypes, OpenFetches, Reading, KeptStays, Own, Waiting, Marked
  <1>8. CASE ~f.open
    <2>1. preview' = preview
      BY <1>6, <1>8
    <2>2. \A h \in fetches' : h.open => h \in fetches
      BY <1>3, <1>8
    <2>3. \A h \in fetches : h.open => h \in fetches'
      BY <1>3, <1>8
    <2>4. \A h \in fetches' : h.read # "" => kept' # ""
      BY <1>2, <1>3, <1>4 DEF PreviewInv, KeptStays
    <2>5. OpenFetches' /\ Waiting' /\ Marked'
      BY <1>4, <2>1, <2>2, <2>3 DEF PreviewInv, OpenFetches, Waiting, Marked, Pending
    <2>6. KeptStays'
      BY <1>2, <1>4, <2>1, <2>4 DEF PreviewInv, KeptStays
    <2>7. PreviewTypes' /\ Reading' /\ Own'
      BY <1>1, <1>2, <1>3, <1>4, <2>1 DEF PreviewInv, PreviewTypes, Reading, Own
    <2> QED  BY <2>5, <2>6, <2>7 DEF PreviewInv
  <1> QED  BY <1>2, <1>7, <1>8

LEMMA FailureKeeps ==
    ASSUME PreviewInv, NEW f \in fetches, FetchFails(f)
    PROVE  PreviewInv'
  <1>1. /\ fetches \subseteq Fetches /\ PreviewTypes /\ kept \in Results /\ f \in Fetches
        /\ UNCHANGED <<preview, kept, answer, fetched>>
    BY DEF PreviewInv, PreviewTypes, FetchFails
  <1>2. PICK g \in Fetches :
            /\ fetches' = (fetches \ {f}) \cup {g}
            /\ g.of = f.of /\ g.open = f.open /\ g.at = "cache" /\ g.read = kept
    <2>1. FetchReaches(f, "cache", kept)
      BY DEF FetchFails
    <2> QED  BY <1>1, <2>1, FetchGoesOn
  <1>3. PreviewTypes' /\ Reading' /\ Own'
    BY <1>1, <1>2 DEF PreviewInv, PreviewTypes, Reading, Own
  <1>4. OpenFetches' /\ KeptStays'
    BY <1>1, <1>2 DEF PreviewInv, OpenFetches, KeptStays
  <1>5. Waiting'
    BY <1>1, <1>2 DEF PreviewInv, Waiting
  <1>6. Marked'
    <2> SUFFICES ASSUME preview.open, ~preview.reading, ~preview.blind, preview.data.saved, ~preview.fromCache
                 PROVE  \E h \in fetches' : Pending(h)
      BY <1>1 DEF Marked, Pending
    <2>1. PICK h \in fetches : Pending(h)
      BY DEF PreviewInv, Marked
    <2>2. CASE h = f
      <3>1. Pending(g)
        BY <1>2, <2>1, <2>2 DEF PreviewInv, KeptStays, Pending
      <3> QED  BY <1>2, <3>1
    <2>3. CASE h # f
      BY <1>2, <2>1, <2>3
    <2> QED  BY <2>2, <2>3
  <1> QED  BY <1>3, <1>4, <1>5, <1>6 DEF PreviewInv

\* A fetch that ends, with what its open screen is left as
LEMMA EndKeeps ==
    ASSUME PreviewInv, NEW f \in fetches, fetches' = fetches \ {f}, UNCHANGED <<kept, answer, fetched>>,
           f.open \/ UNCHANGED preview,
           f.open => /\ preview' \in Screens /\ preview'.open /\ ~preview'.reading
                     /\ ~preview'.loading /\ ~preview'.refreshing
                     /\ preview'.data.of = "" => preview'.error \/ preview'.blind
                     /\ \/ preview'.data = preview.data /\ preview'.blind
                        \/ /\ preview'.data = preview.data /\ preview'.fromCache = preview.fromCache
                           /\ ~Pending(f) /\ (preview.data.saved => preview'.blind = preview.blind)
                        \/ /\ preview'.data.of # "" /\ preview'.data.saved /\ preview'.fromCache /\ kept # ""
    PROVE  PreviewInv'
  <1>1. /\ fetches \subseteq Fetches /\ kept \in Results /\ answer \in Results
        /\ f.open => preview.open /\ ~preview.reading
    BY DEF PreviewInv, PreviewTypes, OpenFetches
  <1>2. CASE ~f.open
    <2>1. preview' = preview
      BY <1>2
    <2>2. PreviewTypes' /\ Reading' /\ Own' /\ KeptStays' /\ OpenFetches'
      BY <1>1, <2>1 DEF PreviewInv, PreviewTypes, Reading, Own, KeptStays, OpenFetches
    <2>3. \A h \in fetches : h.open => h \in fetches'
      BY <1>2
    <2>4. Waiting' /\ Marked'
      BY <2>1, <2>3 DEF PreviewInv, Waiting, Marked, Pending
    <2> QED  BY <2>2, <2>4 DEF PreviewInv
  <1>3. CASE f.open
    <2>1. PreviewTypes' /\ Reading' /\ Waiting'
      BY <1>1, <1>3 DEF PreviewInv, PreviewTypes, Reading, Waiting
    <2>2. \/ preview'.data = preview.data /\ preview'.blind
          \/ /\ preview'.data = preview.data /\ preview'.fromCache = preview.fromCache
             /\ ~Pending(f) /\ (preview.data.saved => preview'.blind = preview.blind)
          \/ preview'.data.of # "" /\ preview'.data.saved /\ preview'.fromCache /\ kept # ""
      BY <1>3
    <2>3. preview'.open /\ ~preview'.reading
      BY <1>3
    <2>4. Own' /\ KeptStays' /\ OpenFetches'
      BY <1>1, <1>3, <2>2, <2>3 DEF PreviewInv, Own, KeptStays, OpenFetches
    <2>5. Marked'
      BY <1>1, <1>3, <2>2, <2>3 DEF PreviewInv, Marked, Pending
    <2> QED  BY <2>1, <2>4, <2>5 DEF PreviewInv
  <1> QED  BY <1>2, <1>3

LEMMA StoredKeeps ==
    ASSUME PreviewInv, NEW f \in fetches, FetchStored(f)
    PROVE  PreviewInv'
  <1>1. preview \in Screens /\ f \in Fetches
    BY DEF PreviewInv, PreviewTypes
  <1>2. /\ f.at = "store" /\ fetches' = fetches \ {f} /\ UNCHANGED <<kept, answer, fetched>>
        /\ preview' = IF f.open THEN [preview EXCEPT !.loading = FALSE, !.refreshing = FALSE] ELSE preview
    BY DEF FetchStored, Seen
  <1>3. ~Pending(f)
    BY <1>2 DEF Pending
  <1>4. ASSUME f.open
        PROVE  /\ preview' \in Screens /\ preview'.open /\ ~preview'.reading
               /\ ~preview'.loading /\ ~preview'.refreshing /\ preview'.data.of # ""
               /\ preview'.data = preview.data /\ preview'.fromCache = preview.fromCache
               /\ preview'.blind = preview.blind
    <2>1. preview.open /\ ~preview.reading /\ preview.data.of # ""
      BY <1>2, <1>4 DEF PreviewInv, OpenFetches
    <2>2. preview' = [preview EXCEPT !.loading = FALSE, !.refreshing = FALSE]
      BY <1>2, <1>4
    <2> QED  BY <1>1, <2>1, <2>2 DEF Screens
  <1> QED  BY <1>2, <1>3, <1>4, EndKeeps

LEMMA FallBackKeeps ==
    ASSUME PreviewInv, NEW f \in fetches, FallBack(f) \/ FallBackFails(f)
    PROVE  PreviewInv'
  <1>1. preview \in Screens /\ f \in Fetches
    BY DEF PreviewInv, PreviewTypes
  <1>2. /\ f.at = "cache" /\ fetches' = fetches \ {f} /\ UNCHANGED <<kept, answer, fetched>>
        /\ ~f.open => UNCHANGED preview
    BY DEF FallBack, FallBackFails, EndsOn, Seen
  <1>3. f.open => preview.open /\ ~preview.reading
    BY DEF PreviewInv, OpenFetches
  <1>4. CASE ~f.open
    BY <1>2, <1>4, EndKeeps
  <1>5. CASE f.open /\ FallBackFails(f)
    <2>1. preview' = [preview EXCEPT !.blind = TRUE, !.loading = FALSE, !.refreshing = FALSE]
      BY <1>1, <1>5 DEF FallBackFails, EndsOn, Seen, Screens
    <2>2. /\ preview' \in Screens /\ preview'.open /\ ~preview'.reading
          /\ ~preview'.loading /\ ~preview'.refreshing /\ preview'.blind /\ preview'.data = preview.data
      BY <1>1, <1>3, <1>5, <2>1 DEF Screens
    <2> QED  BY <1>2, <1>5, <2>2, EndKeeps
  <1>6. CASE f.open /\ FallBack(f) /\ f.read = ""
    <2> DEFINE blind == preview.blind /\ preview.data.of # ""
    <2>1. blind \in BOOLEAN /\ (preview.data.of # "" => blind = preview.blind)
      BY <1>1 DEF Screens
    <2>2. preview' = [preview EXCEPT !.error = TRUE, !.blind = blind, !.loading = FALSE, !.refreshing = FALSE]
      BY <1>1, <1>6 DEF FallBack, EndsOn, Seen, Screens
    <2>3. ~Pending(f) /\ (preview.data.saved => preview.data.of # "")
      BY <1>2, <1>6 DEF Pending, PreviewInv, KeptStays
    <2> HIDE DEF blind
    <2>4. /\ preview' \in Screens /\ preview'.open /\ ~preview'.reading
          /\ ~preview'.loading /\ ~preview'.refreshing /\ preview'.error /\ preview'.blind = blind
          /\ preview'.data = preview.data /\ preview'.fromCache = preview.fromCache
      BY <1>1, <1>3, <1>6, <2>1, <2>2 DEF Screens
    <2> QED  BY <1>2, <1>6, <2>1, <2>3, <2>4, EndKeeps
  <1>7. CASE f.open /\ FallBack(f) /\ f.read # ""
    <2> DEFINE data == [of |-> f.read, saved |-> TRUE]
    <2>1. data \in Data /\ data.of # "" /\ data.saved
      BY <1>1, <1>7 DEF Data, Fetches
    <2>2. preview' = [preview EXCEPT !.data = data, !.fromCache = TRUE, !.blind = FALSE,
                                     !.loading = FALSE, !.refreshing = FALSE]
      BY <1>1, <1>7 DEF FallBack, EndsOn, Seen, Screens
    <2> HIDE DEF data
    <2>3. preview.open /\ ~preview.reading /\ kept # ""
      BY <1>3, <1>7 DEF PreviewInv, KeptStays
    <2>4. /\ preview' \in Screens /\ preview'.open /\ ~preview'.reading
          /\ ~preview'.loading /\ ~preview'.refreshing /\ preview'.fromCache /\ preview'.data = data
      BY <1>1, <2>1, <2>2, <2>3 DEF Screens
    <2> QED  BY <1>2, <1>7, <2>1, <2>3, <2>4, EndKeeps
  <1> QED  BY <1>1, <1>4, <1>5, <1>6, <1>7

LEMMA PreviewInvStep == PreviewInv /\ [PreviewNext]_previewVars => PreviewInv'
  <1> SUFFICES ASSUME PreviewInv, [PreviewNext]_previewVars PROVE PreviewInv'
    OBVIOUS
  <1>1. CASE UNCHANGED previewVars
    BY <1>1 DEF previewVars, PreviewInv, PreviewTypes, OpenFetches, Reading, KeptStays, Own, Waiting, Marked, Pending
  <1> QED  BY <1>1, StartingKeeps, ComingKeeps, SuccessKeeps, FailureKeeps, StoredKeeps, FallBackKeeps
           DEF PreviewNext

\* "Offline - showing saved results" (preview.tsx), for any answers and any number of fetches
\* that overlap and fail in any way: without the banner a list that stays is the server's
\* for the answers of this visit, and the screen is no dead end.  Only a failed read of what
\* is kept can leave it otherwise, until another fetch begins or shows something.
THEOREM SavedIsMarked == PreviewSpec => []SavedPreviewIsMarked
  <1>1. PreviewInv => SavedPreviewIsMarked
    <2> SUFFICES ASSUME PreviewInv, preview.open, ~preview.reading, ~preview.blind, \A f \in fetches : ~f.open
                 PROVE  /\ PreviewScreen # {} /\ "spinner" \notin PreviewScreen
                        /\ "list" \in PreviewScreen /\ ~preview.fromCache
                              => preview.data = [of |-> answer, saved |-> FALSE]
      BY DEF SavedPreviewIsMarked
    <2>1. preview \in Screens
      BY DEF PreviewInv, PreviewTypes
    <2>2. ~preview.loading /\ (preview.data.of = "" => preview.error)
      BY DEF PreviewInv, Waiting
    <2>3. PreviewScreen # {} /\ "spinner" \notin PreviewScreen
      BY <2>1, <2>2, ScreenOffers
    <2>4. ASSUME "list" \in PreviewScreen, ~preview.fromCache
          PROVE  preview.data = [of |-> answer, saved |-> FALSE]
      <3>1. preview.data.of # ""
        BY <2>1, <2>4, ScreenOffers
      <3>2. ~preview.data.saved
        BY <2>4 DEF PreviewInv, Marked, Pending
      <3>3. preview.data.of = answer
        BY <3>1, <3>2 DEF PreviewInv, Own
      <3>4. preview.data \in Data
        BY <2>1 DEF Screens
      <3> QED  BY <3>2, <3>3, <3>4 DEF Data
    <2> QED  BY <2>3, <2>4
  <1> QED  BY <1>1, PreviewInvInit, PreviewInvStep, PTL DEF PreviewSpec

\* Fetches are numbered as they start.
FetchesNumbered == fetched <= MaxFetches /\ \A f \in fetches : f.no \in 1..MaxFetches

LEMMA FetchesBounded == MaxFetches \in Nat
  BY PreviewAssumption, Zenon DEF PreviewAssumption

LEMMA NumberedAtFirst == PreviewInit => FetchesNumbered
  BY FetchesBounded DEF PreviewInit, FetchesNumbered

LEMMA StartNumbers ==
    ASSUME PreviewTypes, FetchesNumbered, NEW screen, NEW refresh, StartFetch(screen, refresh)
    PROVE  FetchesNumbered'
  <1>1. fetched \in Nat /\ MaxFetches \in Nat
    BY FetchesBounded DEF PreviewTypes
  <1>2. /\ fetched < MaxFetches /\ fetched' = fetched + 1
        /\ \A f \in fetches' : f \in fetches \/ f.no = fetched + 1
    <2> DEFINE new == [no |-> fetched + 1, of |-> answer, at |-> "network", read |-> "", open |-> TRUE]
    <2>1. fetched < MaxFetches /\ fetched' = fetched + 1 /\ fetches' = fetches \cup {new}
      BY DEF StartFetch
    <2>2. new.no = fetched + 1
      OBVIOUS
    <2> HIDE DEF new
    <2> QED  BY <2>1, <2>2
  <1>3. fetched + 1 \in 1..MaxFetches
    BY <1>1, <1>2
  <1> QED  BY <1>1, <1>2, <1>3 DEF FetchesNumbered

LEMMA NumberedStep == PreviewTypes /\ FetchesNumbered /\ [PreviewNext]_previewVars => FetchesNumbered'
  <1> SUFFICES ASSUME PreviewTypes, FetchesNumbered, [PreviewNext]_previewVars PROVE FetchesNumbered'
    OBVIOUS
  <1>1. fetches \subseteq Fetches
    BY DEF PreviewTypes
  <1>2. CASE ShowKept \/ Refresh \/ Retry
    <2>1. \E screen, refresh : StartFetch(screen, refresh)
      BY <1>2 DEF ShowKept, Refresh, Retry
    <2> QED  BY <2>1, StartNumbers
  <1>3. ASSUME UNCHANGED fetched, \A g \in fetches' : \E f \in fetches : g.no = f.no PROVE FetchesNumbered'
    BY <1>3 DEF FetchesNumbered
  <1>4. ASSUME NEW f \in fetches, FetchSucceeds(f) \/ FetchStored(f) \/ FetchFails(f)
                                   \/ FallBack(f) \/ FallBackFails(f)
        PROVE  FetchesNumbered'
    <2>1. UNCHANGED fetched
      BY <1>4 DEF FetchSucceeds, FetchStored, FetchFails, FallBack, FallBackFails, EndsOn
    <2>2. f \in Fetches
      BY <1>1
    <2>3. \A step, read : [f EXCEPT !.at = step, !.read = read].no = f.no
      BY <2>2 DEF Fetches
    <2>4. fetches' = fetches \ {f} \/ \E step, read : FetchReaches(f, step, read)
      BY <1>4, Zenon DEF FetchSucceeds, FetchStored, FetchFails, FallBack, FallBackFails, EndsOn
    <2>5. ASSUME NEW step, NEW read, FetchReaches(f, step, read) PROVE FetchesNumbered'
      <3>1. fetches' = (fetches \ {f}) \cup {[f EXCEPT !.at = step, !.read = read]}
        BY <2>5 DEF FetchReaches
      <3>2. [f EXCEPT !.at = step, !.read = read].no = f.no
        BY <2>3
      <3> QED  BY <1>3, <2>1, <3>1, <3>2, Zenon
    <2> QED  BY <1>3, <2>1, <2>4, <2>5
  <1>5. CASE LeavePreview
    <2>1. UNCHANGED fetched /\ fetches' = {[f EXCEPT !.open = FALSE] : f \in fetches}
      BY <1>5 DEF LeavePreview
    <2>2. \A f \in fetches : [f EXCEPT !.open = FALSE].no = f.no
      BY <1>1 DEF Fetches
    <2> QED  BY <1>3, <2>1, <2>2
  <1>6. CASE OpenPreview \/ KeptUnread \/ (\E r \in PreviewRegions : AnswerAgain(r)) \/ UNCHANGED previewVars
    <2>1. UNCHANGED <<fetches, fetched>>
      BY <1>6 DEF OpenPreview, KeptUnread, AnswerAgain, previewVars
    <2> QED  BY <2>1 DEF FetchesNumbered
  <1> QED  BY <1>2, <1>4, <1>5, <1>6 DEF PreviewNext

\* The preview's screen, its fetches and what is kept hold what their declarations allow.
THEOREM PreviewIsTyped == PreviewSpec => []PreviewTypeOK
  <1>1. PreviewInv /\ FetchesNumbered => PreviewTypeOK
    <2> SUFFICES ASSUME PreviewTypes, FetchesNumbered PROVE PreviewTypeOK
      BY DEF PreviewInv
    <2>1. fetched \in 0..MaxFetches
      <3>1. fetched \in Nat /\ fetched <= MaxFetches
        BY Zenon DEF PreviewTypes, FetchesNumbered
      <3> QED  BY <3>1, FetchesBounded
    <2>2. fetches \subseteq [no: 1..MaxFetches, of: PreviewRegions, at: {"network", "store", "cache"},
                             read: Results, open: BOOLEAN]
      BY DEF PreviewTypes, FetchesNumbered, Fetches
    <2> QED  BY <2>1, <2>2 DEF PreviewTypes, PreviewTypeOK, Screens, Data
  <1>2. PreviewInv /\ FetchesNumbered /\ [PreviewNext]_previewVars => (PreviewInv /\ FetchesNumbered)'
    BY PreviewInvStep, NumberedStep DEF PreviewInv
  <1> QED  BY <1>1, <1>2, PreviewInvInit, NumberedAtFirst, PTL DEF PreviewSpec

-----------------------------------------------------------------------------
(* The form filling screen                                                 *)

FillTexts == SUBSET (Fields \X {"server", "local"})
Keys == Shown \cup DOMAIN CopyCards \cup {""}
Aims == Marks \cup {""}
FillWrites == [text: FillTexts, mark: Aims, key: Keys, say: Messages]
TwoMarks(f) == f = [m \in Marks |-> f[m]] /\ \A m \in Marks : f[m][2] \in 0..MaxCopies

Toasts == [message: Messages, fading: {"no", "in", "out"}, waiting: 0..MaxWaiting]

\* An animation that fades in has a place to wait at, and a message has an animation.
ToastFine(t) ==
    /\ t \in Toasts /\ (t.fading = "in" => t.waiting < MaxWaiting)
    /\ t.message # "" => t.fading # "no" \/ t.waiting > 0

\* What a copy under way needs to be given a number of its own.
FillTyped ==
    /\ fillScreen \in [session: BOOLEAN, broken: BOOLEAN, program: {"no", "link", "no link"},
                       profile: BOOLEAN, web: {"closed", "loading", "shown"}]
    /\ copies \in Seq(FillWrites) /\ Len(copies) <= copyCount
    /\ clipboard \in FillTexts
    /\ TwoMarks(marked) /\ timers \in [Marks -> SUBSET (1..MaxCopies)]
    /\ ToastFine(fillToast)
    /\ injected \in [script: BOOLEAN, message: BOOLEAN] /\ copyCount \in 0..MaxCopies

FillInv == FillTyped /\ MarksHaveTheirTimer

LEMMA CopiesBounded == MaxCopies \in Nat /\ MaxWaiting \in Nat
BY AutoFillAssumption DEF AutoFillAssumption

LEMMA NoToastFine == ToastFine(NoToast)
<1>1. 0 \in 0..MaxWaiting /\ "" \in Messages
    BY CopiesBounded DEF Messages
<1> QED
    BY <1>1 DEF ToastFine, Toasts, NoToast

LEMMA SecondOfPair == \A a, b : <<a, b>>[2] = b
OBVIOUS

LEMMA NoMarkIsZero == NoMark[2] = 0
BY DEF NoMark

LEMMA FillInvAtFirst == FillInit => FillInv
<1> SUFFICES ASSUME FillInit PROVE FillInv
    OBVIOUS
<1> USE CopiesBounded
<1>1. fillScreen \in [session: BOOLEAN, broken: BOOLEAN, program: {"no", "link", "no link"},
                      profile: BOOLEAN, web: {"closed", "loading", "shown"}]
    BY DEF FillInit
<1>2. copies \in Seq(FillWrites) /\ Len(copies) <= copyCount /\ copyCount \in 0..MaxCopies
  <2>1. copies = <<>> /\ copyCount = 0
      BY DEF FillInit
  <2> QED
      BY <2>1
<1>3. clipboard \in FillTexts /\ injected \in [script: BOOLEAN, message: BOOLEAN]
      /\ ToastFine(fillToast)
    BY NoToastFine DEF FillInit, FillTexts
<1>4. TwoMarks(marked) /\ timers \in [Marks -> SUBSET (1..MaxCopies)]
  <2>1. marked = [m \in Marks |-> NoMark] /\ timers = [m \in Marks |-> {}] /\ NoMark[2] = 0
      BY DEF FillInit, NoMark
  <2> QED
      BY <2>1 DEF TwoMarks
<1>5. MarksHaveTheirTimer
    BY DEF FillInit, NoToast, MarksHaveTheirTimer
<1> QED
    BY <1>1, <1>2, <1>3, <1>4, <1>5 DEF FillInv, FillTyped

LEMMA CopiesTyped ==
    FillInv => /\ copies \in Seq(FillWrites) /\ Len(copies) <= copyCount
               /\ copyCount \in 0..MaxCopies /\ copyCount \in Nat
<1> SUFFICES ASSUME FillInv PROVE /\ copies \in Seq(FillWrites) /\ Len(copies) <= copyCount
                                 /\ copyCount \in 0..MaxCopies /\ copyCount \in Nat
    OBVIOUS
<1>1. copies \in Seq(FillWrites) /\ Len(copies) <= copyCount /\ copyCount \in 0..MaxCopies
    BY DEF FillInv, FillTyped
<1> QED
    BY <1>1, CopiesBounded

LEMMA MarksTyped ==
    FillInv => TwoMarks(marked) /\ timers \in [Marks -> SUBSET (1..MaxCopies)] 
BY DEF FillInv, FillTyped

LEMMA PageTyped ==
    FillInv => /\ injected \in [script: BOOLEAN, message: BOOLEAN]
               /\ ToastFine(fillToast)
BY DEF FillInv, FillTyped

\* Only a value that is there is copied.
LEMMA TextIsTyped ==
    ASSUME NEW fields \in SUBSET Fields
    PROVE  Text(fields) \in FillTexts
BY DEF Text, FillTexts, Source

\* A fade that begins keeps the message, or hides it when it stops another.
LEMMA FadeKeeps ==
    ASSUME NEW way \in {"in", "out"}, NEW message \in Messages, NEW waiting \in 0..MaxWaiting,
           Fade(way, message, waiting), way = "in" => waiting < MaxWaiting
    PROVE  ToastFine(fillToast')
<1> DEFINE shown == IF fillToast.fading = "no" THEN message ELSE ""
<1>1. shown \in Messages /\ fillToast' = [message |-> shown, fading |-> way, waiting |-> waiting]
    BY DEF Fade, Messages
<1> HIDE DEF shown
<1> QED
    BY <1>1 DEF ToastFine, Toasts

LEMMA ShowKeeps ==
    ASSUME NEW message \in Messages, Show(message), ToastFine(fillToast)
    PROVE  ToastFine(fillToast')
<1>1. fillToast.waiting \in 0..MaxWaiting /\ fillToast.waiting < MaxWaiting /\ Fade("in", message, fillToast.waiting)
    BY DEF Show, ToastFine, Toasts
<1> QED
    BY <1>1, FadeKeeps

LEMMA AnimationKeeps ==
    ASSUME ToastFine(fillToast), ToastFadedIn \/ ToastWaited \/ ToastEnds
    PROVE  ToastFine(fillToast')
<1> USE CopiesBounded
<1>1. CASE ToastFadedIn
  <2> DEFINE now == fillToast.waiting + 1
  <2>1. fillToast \in Toasts /\ now \in 0..MaxWaiting /\ now > 0
    <3>1. fillToast \in Toasts /\ fillToast.waiting < MaxWaiting /\ fillToast.waiting \in 0..MaxWaiting
        BY <1>1 DEF ToastFadedIn, ToastFine, Toasts
    <3> QED
        BY <3>1
  <2>2. fillToast' = [fillToast EXCEPT !.fading = "no", !.waiting = now]
      BY <1>1 DEF ToastFadedIn
  <2> HIDE DEF now
  <2>3. fillToast' \in Toasts /\ fillToast'.fading = "no" /\ fillToast'.waiting = now
      BY <2>1, <2>2 DEF Toasts
  <2> QED
      BY <2>1, <2>3 DEF ToastFine
<1>2. CASE ToastWaited
  <2>1. fillToast.message \in Messages /\ fillToast.waiting \in 0..MaxWaiting /\ fillToast.waiting > 0
      BY <1>2 DEF ToastWaited, ToastFine, Toasts
  <2>2. fillToast.waiting - 1 \in 0..MaxWaiting
      BY <2>1
  <2>3. Fade("out", fillToast.message, fillToast.waiting - 1)
      BY <1>2 DEF ToastWaited
  <2> QED
      BY <2>1, <2>2, <2>3, FadeKeeps
<1>3. CASE ToastEnds
    BY <1>3 DEF ToastEnds, ToastFine, Toasts, Messages
<1> QED
    BY <1>1, <1>2, <1>3

\* What neither copies nor marks keeps the invariant when it keeps its own variables typed.
LEMMA FillMarksStay ==
    ASSUME FillInv, UNCHANGED <<copies, clipboard, marked, timers, copyCount>>,
           fillScreen' \in [session: BOOLEAN, broken: BOOLEAN, program: {"no", "link", "no link"},
                            profile: BOOLEAN, web: {"closed", "loading", "shown"}],
           ToastFine(fillToast'),
           injected' \in [script: BOOLEAN, message: BOOLEAN]
    PROVE  FillInv'
BY DEF FillInv, FillTyped, ToastFine, MarksHaveTheirTimer

LEMMA StartCopyKeeps ==
    ASSUME FillInv, NEW fields \in SUBSET Fields, NEW mark \in Aims, NEW key \in Keys,
           NEW say \in Messages, StartCopy(Text(fields), mark, key, say)
    PROVE  FillInv'
<1> DEFINE write == [text |-> Text(fields), mark |-> mark, key |-> key, say |-> say]
<1>0. copies \in Seq(FillWrites) /\ Len(copies) <= copyCount /\ copyCount \in 0..MaxCopies
    BY DEF FillInv, FillTyped
<1>1. write \in FillWrites
    BY TextIsTyped DEF FillWrites
<1>2. copies' = Append(copies, write) /\ copyCount' = copyCount + 1 /\ copyCount < MaxCopies
    BY DEF StartCopy
<1> HIDE DEF write
<1>3. copies' \in Seq(FillWrites) /\ Len(copies') = Len(copies) + 1
    BY <1>0, <1>1, <1>2, AppendProperties
<1>4. copyCount' \in 0..MaxCopies /\ Len(copies') <= copyCount'
    BY <1>0, <1>2, <1>3, LenProperties, CopiesBounded
<1> QED
    BY <1>3, <1>4 DEF StartCopy, FillInv, FillTyped, MarksHaveTheirTimer

LEMMA FillStepKeeps == FillInv /\ [FillNext]_fillVars => FillInv'
<1> SUFFICES ASSUME FillInv, [FillNext]_fillVars PROVE FillInv'
    OBVIOUS
<1>1. ASSUME NEW f \in Shown, HandleCopyField(f) PROVE FillInv'
  <2>1. StartCopy(Text({f}), "rows", f, "copied") /\ {f} \in SUBSET Fields 
      BY <1>1 DEF HandleCopyField, Shown, Fields
  <2> QED
      BY <2>1, StartCopyKeeps DEF Marks, Messages, Aims, Keys
<1>2. ASSUME NEW c \in DOMAIN CopyCards, HandleCopyCategory(c) PROVE FillInv'
  <2>1. StartCopy(Text(CopyCards[c]), "cards", c, "copied") /\ CopyCards[c] \in SUBSET Fields 
      BY <1>2 DEF HandleCopyCategory, CopyCards, Fields
  <2> QED
      BY <2>1, StartCopyKeeps DEF Marks, Messages, Aims, Keys
<1>3. CASE HandleCopyAll
  <2>1. StartCopy(Text(Fields), "", "", "all copied") /\ Fields \in SUBSET Fields
      BY <1>3 DEF HandleCopyAll
  <2>2. "all copied" \in Messages /\ "" \in Aims /\ "" \in Keys
      BY DEF Messages, Aims, Keys
  <2> QED
      BY <2>1, <2>2, StartCopyKeeps
<1>4. ASSUME NEW b \in {"name", "address"}, HandleWebViewQuickCopy(b) PROVE FillInv'
  <2>1. PICK f \in Fields : \/ /\ Show("nothing stored")
                               /\ UNCHANGED <<fillScreen, copies, clipboard, marked, timers, injected, copyCount>>
                            \/ StartCopy(Text({f}), "", "", "copied")
      BY <1>4 DEF HandleWebViewQuickCopy, Fields
  <2>2. CASE StartCopy(Text({f}), "", "", "copied")
    <3>1. "copied" \in Messages /\ {f} \in SUBSET Fields /\ "" \in Aims /\ "" \in Keys
        BY DEF Messages, Aims, Keys
    <3> QED
        BY <2>2, <3>1, StartCopyKeeps
  <2>3. CASE /\ Show("nothing stored")
             /\ UNCHANGED <<fillScreen, copies, clipboard, marked, timers, injected, copyCount>>
      BY <2>3, FillMarksStay, ShowKeeps DEF FillInv, FillTyped, Messages
  <2> QED
      BY <2>1, <2>2, <2>3
<1>5. CASE CopyDone
  <2> DEFINE c == Head(copies)  number == copyCount - Len(copies) + 1
             rest == Tail(copies)
             pair == <<c.key, number>>
  <2>0. copies \in Seq(FillWrites) /\ Len(copies) <= copyCount /\ copyCount \in 0..MaxCopies /\ copies # <<>>
      BY <1>5 DEF FillInv, FillTyped, CopyDone
  <2>1. c \in FillWrites /\ rest \in Seq(FillWrites) /\ Len(rest) = Len(copies) - 1 /\ Len(copies) \in Nat
      BY <2>0, HeadTailProperties, LenProperties
  <2>2. copies # <<>> /\ copies' = rest /\ clipboard' = c.text /\ Show(c.say)
        /\ UNCHANGED <<fillScreen, injected, copyCount>>
        /\ IF c.mark = "" THEN UNCHANGED <<marked, timers>>
           ELSE /\ marked' = [marked EXCEPT ![c.mark] = pair]
                /\ timers' = [timers EXCEPT ![c.mark] = {number}]
      BY <1>5 DEF CopyDone
  <2>3. number \in 1..MaxCopies
    <3>1. Len(copies) >= 1
        BY <2>0, <2>1, EmptySeq
    <3> QED
        BY <2>0, <2>1, <3>1, CopiesBounded
  <2>9. pair[2] = number
      BY SecondOfPair
  <2> HIDE DEF pair
  <2> HIDE DEF rest, c, number
  <2>10. copies' = rest /\ copyCount' = copyCount
      BY <2>2
  <2>4. Len(copies') <= copyCount'
    <3>1. Len(copies') = Len(copies) - 1 /\ copyCount' = copyCount /\ copyCount \in Nat
        BY <2>0, <2>1, <2>10
    <3> QED
        BY <2>0, <2>1, <3>1
  <2>5. ToastFine(fillToast')
      BY <2>1, <2>2, ShowKeeps DEF FillInv, FillTyped, FillWrites
  <2>6. c.text \in FillTexts /\ c.mark \in Aims 
      BY <2>1 DEF FillWrites
  <2>7. TwoMarks(marked') /\ timers' \in [Marks -> SUBSET (1..MaxCopies)]
    <3>1. CASE c.mark = ""
        BY <2>2, <3>1 DEF FillInv, FillTyped
    <3>2. CASE c.mark \in Marks
      <4>1. number \in 0..MaxCopies /\ {number} \in SUBSET (1..MaxCopies)
          BY <2>3
      <4>2. c.mark # ""
          BY <3>2 DEF Marks
      <4> QED
          BY <2>2, <2>9, <3>2, <4>1, <4>2, MarksTyped DEF TwoMarks
    <3> QED
        BY <2>6, <3>1, <3>2 DEF Aims
  <2>8. ASSUME NEW m \in Marks
        PROVE  timers'[m] = IF marked'[m] = NoMark THEN {} ELSE {marked'[m][2]}
    <3>0. timers[m] = IF marked[m] = NoMark THEN {} ELSE {marked[m][2]}
        BY DEF FillInv, MarksHaveTheirTimer
    <3>1. CASE m # c.mark
        BY <2>2, <3>0, <3>1 DEF FillInv, FillTyped, TwoMarks
    <3>2. CASE m = c.mark
      <4>1. marked'[m] = pair /\ timers'[m] = {number} 
          BY <2>2, <3>2 DEF FillInv, FillTyped, TwoMarks, Marks
      <4>2. marked'[m] # NoMark
          BY <2>3, <2>9, <4>1, NoMarkIsZero
      <4>3. marked'[m][2] = number
          BY <2>9, <4>1
      <4> QED
          BY <4>1, <4>2, <4>3
    <3> QED
        BY <3>1, <3>2
  <2> QED
      BY <2>1, <2>2, <2>4, <2>5, <2>6, <2>7, <2>8 DEF FillInv, FillTyped, ToastFine, MarksHaveTheirTimer
<1>6. ASSUME NEW m \in Marks, MarkTimeout(m) PROVE FillInv'
  <2>1. PICK t \in timers[m] : timers' = [timers EXCEPT ![m] = @ \ {t}]
      BY <1>6 DEF MarkTimeout
  <2>2. marked' = [marked EXCEPT ![m] = NoMark]
        /\ UNCHANGED <<fillScreen, copies, clipboard, fillToast, injected, copyCount>>
      BY <1>6 DEF MarkTimeout
  <2>3. NoMark[2] = 0 /\ 0 \in 0..MaxCopies
      BY CopiesBounded DEF NoMark
  <2>4. TwoMarks(marked') /\ timers' \in [Marks -> SUBSET (1..MaxCopies)]
      BY <2>1, <2>2, <2>3 DEF FillInv, FillTyped, TwoMarks
  <2>5. ASSUME NEW k \in Marks
        PROVE  timers'[k] = IF marked'[k] = NoMark THEN {} ELSE {marked'[k][2]}
    <3>1. timers[k] = IF marked[k] = NoMark THEN {} ELSE {marked[k][2]}
        BY DEF FillInv, MarksHaveTheirTimer
    <3>0. timers \in [Marks -> SUBSET (1..MaxCopies)] /\ DOMAIN marked = Marks
        BY DEF FillInv, FillTyped, TwoMarks
    <3>2. CASE k # m
      <4>1. marked'[k] = marked[k] /\ timers'[k] = timers[k]
          BY <2>1, <2>2, <3>0, <3>2
      <4> QED
          BY <3>1, <4>1
    <3>3. CASE k = m
      <4>1. marked'[k] = NoMark /\ timers'[k] = timers[k] \ {t}
          BY <2>1, <2>2, <3>0, <3>3
      <4>2. timers[k] \subseteq {t}
          BY <2>1, <3>1, <3>3
      <4> QED
          BY <4>1, <4>2
    <3> QED
        BY <3>2, <3>3
  <2>6. MarksHaveTheirTimer'
    <3>1. fillToast.message # "" => fillToast.fading # "no" \/ fillToast.waiting > 0
        BY DEF FillInv, MarksHaveTheirTimer
    <3> QED
        BY <2>2, <2>5, <3>1 DEF MarksHaveTheirTimer
  <2>7. FillTyped'
      BY <2>2, <2>4 DEF FillInv, FillTyped
  <2> QED
      BY <2>6, <2>7 DEF FillInv
<1>7. CASE HandleOpenSiteInApp \/ PageLoads \/ RunScript \/ CloseSite \/ ProgramAndProfileArrive
           \/ SessionChanges \/ ToastFadedIn \/ ToastWaited \/ ToastEnds
  <2>1. UNCHANGED <<copies, clipboard, marked, timers, copyCount>>
      BY <1>7 DEF HandleOpenSiteInApp, PageLoads, RunScript, CloseSite, ProgramAndProfileArrive,
                  SessionChanges, ToastFadedIn, ToastWaited, ToastEnds
  <2>2. fillScreen' \in [session: BOOLEAN, broken: BOOLEAN, program: {"no", "link", "no link"},
                         profile: BOOLEAN, web: {"closed", "loading", "shown"}]
    <3>1. CASE HandleOpenSiteInApp
        BY <3>1 DEF HandleOpenSiteInApp, FillInv, FillTyped
    <3>2. CASE PageLoads
        BY <3>2 DEF PageLoads, FillInv, FillTyped
    <3>3. CASE RunScript
        BY <3>3 DEF RunScript, FillInv, FillTyped
    <3>4. CASE CloseSite
        BY <3>4 DEF CloseSite, FillInv, FillTyped
    <3>5. CASE ProgramAndProfileArrive
        BY <3>5 DEF ProgramAndProfileArrive, FillInv, FillTyped
    <3>6. CASE SessionChanges
        BY <3>6 DEF SessionChanges, FillInv, FillTyped
    <3>7. CASE ToastFadedIn \/ ToastWaited \/ ToastEnds
        BY <3>7 DEF ToastFadedIn, ToastWaited, ToastEnds, FillInv, FillTyped
    <3> QED
        BY <1>7, <3>1, <3>2, <3>3, <3>4, <3>5, <3>6, <3>7
  <2>3. ToastFine(fillToast')
    <3>1. CASE ToastFadedIn \/ ToastWaited \/ ToastEnds
        BY <3>1, AnimationKeeps, PageTyped
    <3>2. CASE fillToast' = fillToast
        BY <3>2, PageTyped
    <3> QED
        BY <1>7, <3>1, <3>2 DEF HandleOpenSiteInApp, PageLoads, RunScript, CloseSite,
                                ProgramAndProfileArrive, SessionChanges
  <2>4. injected' \in [script: BOOLEAN, message: BOOLEAN]
    <3>1. CASE PageLoads
      <4> DEFINE still == injected.script /\ fillScreen.web = "loading"
      <4>1. still \in BOOLEAN /\ injected' = [injected EXCEPT !.script = still]
          BY <3>1 DEF PageLoads, FillInv, FillTyped
      <4> HIDE DEF still
      <4> QED
          BY <4>1 DEF FillInv, FillTyped
    <3>2. CASE ~PageLoads
      <4>1. injected' = injected \/ injected' = [script |-> FALSE, message |-> TRUE]
            \/ injected' = [script |-> FALSE, message |-> FALSE]
          BY <1>7, <3>2 DEF HandleOpenSiteInApp, RunScript, CloseSite, ProgramAndProfileArrive,
                            SessionChanges, ToastFadedIn, ToastWaited, ToastEnds
      <4>2. /\ [script |-> FALSE, message |-> TRUE] \in [script: BOOLEAN, message: BOOLEAN]
            /\ [script |-> FALSE, message |-> FALSE] \in [script: BOOLEAN, message: BOOLEAN]
          OBVIOUS
      <4> QED
          BY <4>1, <4>2, PageTyped, Zenon
    <3> QED
        BY <3>1, <3>2
  <2> QED
      BY <2>1, <2>2, <2>3, <2>4, FillMarksStay
<1>8. CASE HandleAutoFill \/ HandleMessage
  <2>1. UNCHANGED <<fillScreen, copies, clipboard, marked, timers, copyCount>>
      BY <1>8 DEF HandleAutoFill, HandleMessage
  <2>2. injected' \in [script: BOOLEAN, message: BOOLEAN]
      BY <1>8 DEF HandleAutoFill, HandleMessage, FillInv, FillTyped
  <2>3. Show("tried") \/ Show("missed") \/ UNCHANGED fillToast
      BY <1>8 DEF HandleAutoFill, HandleMessage
  <2>4. ToastFine(fillToast')
      BY <2>3, ShowKeeps, PageTyped DEF Messages
  <2> QED
      BY <2>1, <2>2, <2>4, FillMarksStay DEF FillInv, FillTyped
<1>9. CASE LeaveAutoFill
  <2>1. copies' = <<>> /\ UNCHANGED copyCount /\ fillToast' = NoToast
        /\ injected' = [script |-> FALSE, message |-> FALSE]
        /\ clipboard' = IF copies = <<>> THEN clipboard ELSE copies[Len(copies)].text
      BY <1>9 DEF LeaveAutoFill
  <2>2. clipboard' \in FillTexts
    <3>1. CASE copies # <<>>
      <4>0. copies \in Seq(FillWrites)
          BY DEF FillInv, FillTyped
      <4>1. Len(copies) \in 1..Len(copies)
          BY <3>1, <4>0, EmptySeq, LenProperties
      <4>2. copies[Len(copies)] \in FillWrites
          BY <4>0, <4>1, ElementOfSeq
      <4> QED
          BY <2>1, <3>1, <4>2 DEF FillWrites
    <3> QED
        BY <2>1, <3>1 DEF FillInv, FillTyped
  <2>3. TwoMarks(marked') /\ timers' \in [Marks -> SUBSET (1..MaxCopies)]
        /\ \A m \in Marks : timers'[m] = {} /\ marked'[m] = NoMark
    <3>1. marked' = [m \in Marks |-> NoMark] /\ timers' = [m \in Marks |-> {}]
        BY <1>9 DEF LeaveAutoFill
    <3> QED
        BY <3>1, NoMarkIsZero, CopiesBounded DEF TwoMarks
  <2>4. fillScreen' \in [session: BOOLEAN, broken: BOOLEAN, program: {"no", "link", "no link"},
                         profile: BOOLEAN, web: {"closed", "loading", "shown"}]
    <3>1. PICK known \in BOOLEAN :
              fillScreen' = [fillScreen EXCEPT !.broken = FALSE, !.program = "no", !.web = "closed",
                                               !.profile = known /\ fillScreen.session]
        BY <1>9 DEF LeaveAutoFill
    <3>2. (known /\ fillScreen.session) \in BOOLEAN
        OBVIOUS
    <3> QED
        BY <3>1, <3>2 DEF FillInv, FillTyped
  <2>5. copies' \in Seq(FillWrites) /\ Len(copies') <= copyCount'
    <3>1. copyCount \in Nat
        BY CopiesTyped
    <3>2. copies' = <<>> /\ copyCount' = copyCount
        BY <2>1
    <3> QED
        BY <3>1, <3>2
  <2> QED
      BY <2>1, <2>2, <2>3, <2>4, <2>5, NoToastFine DEF FillInv, FillTyped, ToastFine, MarksHaveTheirTimer
<1>10. CASE UNCHANGED fillVars
    BY <1>10 DEF fillVars, FillInv, FillTyped, MarksHaveTheirTimer
<1> QED
    BY <1>1, <1>2, <1>3, <1>4, <1>5, <1>6, <1>7, <1>8, <1>9, <1>10 DEF FillNext

\* auto-fill.tsx: whatever copies, timers, pages and logins do in whatever order, a mark that
\* says "copied" has its own timer and no other, and a toast that is shown has an animation,
\* its own or an older one, whose end takes it down.
THEOREM CopiedMarksGoAway == FillSpec => []MarksHaveTheirTimer
<1>1. FillInv => MarksHaveTheirTimer
    BY DEF FillInv
<1> QED
    BY <1>1, FillInvAtFirst, FillStepKeeps, PTL DEF FillSpec

\* auto-fill.tsx: every variable of the screen keeps to the values the code can give it.
THEOREM FillingIsTyped == FillSpec => []FillTypeOK
<1>1. FillInv => FillTypeOK
    BY DEF FillInv, FillTyped, FillTypeOK, ToastFine, Toasts, TwoMarks, FillTexts, FillWrites, Keys, Aims
<1> QED
    BY <1>1, FillInvAtFirst, FillStepKeeps, PTL DEF FillSpec

-----------------------------------------------------------------------------
(* The programme list and its filters                                      *)

LEMMA ExploreAtFirst == ExploreInit => ExploreTypeOK
<1> SUFFICES ASSUME ExploreInit PROVE ExploreTypeOK
    OBVIOUS
<1>1. DefaultFilters \in FilterValues
    BY DEF DefaultFilters, FilterValues, TabOptions, AgeRanges
<1>2. filters \in FilterValues /\ search \in DOMAIN Terms /\ ownBracket \in 0..10
  <2>1. "" \in DOMAIN Terms
      BY ExploreAssumption DEF ExploreAssumption
  <2>2. filters = DefaultFilters /\ search = ""
      BY DEF ExploreInit
  <2>3. ownBracket \in 0..10
    <3>1. ownBracket = 0
        BY DEF ExploreInit
    <3> QED
        BY <3>1
  <2> QED
      BY <1>1, <2>1, <2>2, <2>3
<1>3. filterSheet \in [open: BOOLEAN, draft: FilterValues]
    BY <1>1 DEF ExploreInit
<1>4. listing \in [data: BOOLEAN, error: BOOLEAN, reading: BOOLEAN]
    BY DEF ExploreInit
<1> QED
    BY <1>2, <1>3, <1>4 DEF ExploreTypeOK

\* What is chosen on the sheet can be a filter.
LEMMA DraftsAreFilters ==
    ASSUME ExploreTypeOK, ChooseInSheet
    PROVE  \E d \in FilterValues : SetDraft(d)
<1> DEFINE draft == filterSheet.draft
<1>0. draft \in FilterValues
    BY DEF ExploreTypeOK
<1>1. ASSUME NEW r \in FilterRegions \cup {Nationwide} PROVE [draft EXCEPT !.region = r] \in FilterValues
    BY <1>0, <1>1 DEF FilterValues
<1>2. ASSUME NEW c \in TabOptions PROVE [draft EXCEPT !.category = c] \in FilterValues
    BY <1>0, <1>2 DEF FilterValues
<1>3. ASSUME NEW a \in FilterAges PROVE [draft EXCEPT !.age = a] \in FilterValues
  <2>1. a \in DOMAIN AgeRanges
      BY ExploreAssumption DEF ExploreAssumption
  <2> QED
      BY <1>0, <2>1 DEF FilterValues
<1>4. ASSUME NEW b \in FilterBrackets \cup {0} PROVE [draft EXCEPT !.bracket = b] \in FilterValues
  <2>1. FilterBrackets \subseteq 1..10
      BY ExploreAssumption DEF ExploreAssumption
  <2>2. b \in 0..10
      BY <2>1
  <2> QED
      BY <1>0, <2>2 DEF FilterValues
<1> QED
    BY <1>1, <1>2, <1>3, <1>4, Zenon DEF ChooseInSheet

LEMMA ExploreStepKeeps == ExploreTypeOK /\ [ExploreNext]_exploreVars => ExploreTypeOK'
<1> SUFFICES ASSUME ExploreTypeOK, [ExploreNext]_exploreVars PROVE ExploreTypeOK'
    OBVIOUS
<1>1. CASE ProgramsArrive \/ RefreshPrograms
  <2>1. listing' \in [data: BOOLEAN, error: BOOLEAN, reading: BOOLEAN]
    <3>1. CASE ProgramsArrive
      <4>1. CASE listing' = [data |-> TRUE, error |-> FALSE, reading |-> FALSE]
          BY <4>1
      <4>2. CASE listing' = [listing EXCEPT !.error = TRUE, !.reading = FALSE]
          BY <4>2 DEF ExploreTypeOK
      <4> QED
          BY <3>1, <4>1, <4>2 DEF ProgramsArrive
    <3>2. CASE RefreshPrograms
      <4> DEFINE wrong == listing.error /\ listing.data
      <4>1. wrong \in BOOLEAN /\ listing' = [listing EXCEPT !.reading = TRUE, !.error = wrong]
          BY <3>2 DEF RefreshPrograms, ExploreTypeOK
      <4> HIDE DEF wrong
      <4> QED
          BY <4>1 DEF ExploreTypeOK
    <3> QED
        BY <1>1, <3>1, <3>2
  <2>2. UNCHANGED <<filters, filterSheet, search, ownBracket>>
      BY <1>1 DEF ProgramsArrive, RefreshPrograms
  <2> QED
      BY <2>1, <2>2 DEF ExploreTypeOK
<1>2. ASSUME NEW t \in DOMAIN Terms, SetSearch(t) PROVE ExploreTypeOK'
    BY <1>2 DEF SetSearch, ExploreTypeOK
<1>3. ASSUME NEW t \in TabOptions, ChangeTab(t) PROVE ExploreTypeOK'
  <2>1. filters' \in FilterValues
      BY <1>3 DEF ChangeTab, ExploreTypeOK, FilterValues
  <2> QED
      BY <1>3, <2>1 DEF ChangeTab, ExploreTypeOK
<1>4. CASE OpenFilterSheet
    BY <1>4 DEF OpenFilterSheet, ExploreTypeOK
<1>5. ASSUME NEW d \in FilterValues, SetDraft(d) PROVE ExploreTypeOK'
    BY <1>5 DEF SetDraft, ExploreTypeOK
<1>6. CASE ChooseInSheet
    BY <1>5, <1>6, DraftsAreFilters
<1>7. CASE ResetDraft
  <2>1. DefaultFilters \in FilterValues
      BY DEF DefaultFilters, FilterValues, TabOptions, AgeRanges
  <2> QED
      BY <1>5, <1>7, <2>1 DEF ResetDraft
<1>8. CASE CloseSheet
    BY <1>8 DEF CloseSheet, ExploreTypeOK
<1>9. CASE HandleApplyFilters
  <2>1. filterSheet.draft \in FilterValues /\ filterSheet.draft.bracket \in 0..10
      BY DEF ExploreTypeOK, FilterValues
  <2>2. filterSheet' \in [open: BOOLEAN, draft: FilterValues]
      BY <1>9 DEF HandleApplyFilters, ExploreTypeOK
  <2> QED
      BY <1>9, <2>1, <2>2 DEF HandleApplyFilters, ExploreTypeOK
<1>10. CASE UNCHANGED exploreVars
    BY <1>10 DEF exploreVars, ExploreTypeOK
<1> QED
    BY <1>1, <1>2, <1>3, <1>4, <1>6, <1>7, <1>8, <1>9, <1>10 DEF ExploreNext

\* explore.tsx, FilterSheet.tsx: every variable of the list and of the sheet keeps to the
\* values the code can give it; a draft is always something that can be put in force.
THEOREM FiltersAreTyped == ExploreSpec => []ExploreTypeOK
BY ExploreAtFirst, ExploreStepKeeps, PTL DEF ExploreSpec

\* AGE_RANGE_OPTIONS: a range has an age
LEMMA RangesHaveAges ==
    \A a \in DOMAIN AgeRanges : /\ AgeRanges[a].min \in Nat /\ AgeRanges[a].max \in Nat
                                /\ AgeRanges[a].min <= AgeRanges[a].max
BY DEF AgeRanges, NoLimit

LEMMA CardsAreCards ==
    \A c \in Cards : /\ c.min \in Nat /\ c.max \in Nat /\ c.min <= c.max
                     /\ c.id \in Terms[""]
<1> TAKE c \in Cards
<1>1. IsCard(c) /\ c.id \in Terms[""]
    BY ExploreAssumption DEF ExploreAssumption
<1>2. c.min \in 0..200 /\ c.max \in c.min..200
    BY <1>1 DEF IsCard, NoLimit
<1>3. c.min \in Nat /\ c.max \in Nat /\ c.min <= c.max
    BY <1>2
<1> QED
    BY <1>1, <1>3

\* inAgeRange: the two limits are compared with the range's two, which says that an age is in both.
LEMMA RangesMeet ==
    ASSUME NEW c \in Cards, NEW f, f.age \in DOMAIN AgeRanges
    PROVE  InAgeRange(c, f) <=>
               \E age \in AgeRanges[f.age].min..AgeRanges[f.age].max : age \in c.min..c.max
<1> DEFINE lo == AgeRanges[f.age].min  hi == AgeRanges[f.age].max
<1>1. lo \in Nat /\ hi \in Nat /\ lo <= hi /\ c.min \in Nat /\ c.max \in Nat /\ c.min <= c.max
    BY RangesHaveAges, CardsAreCards
<1>2. InAgeRange(c, f) <=> c.min <= hi /\ c.max >= lo
    BY DEF InAgeRange
<1> HIDE DEF lo, hi
<1>3. ASSUME c.min <= hi, c.max >= lo PROVE \E age \in lo..hi : age \in c.min..c.max
  <2>1. CASE c.min <= lo
      BY <1>1, <1>3, <2>1
  <2>2. CASE lo <= c.min
      BY <1>1, <1>3, <2>2
  <2> QED
      BY <1>1, <2>1, <2>2
<1>4. ASSUME NEW age \in lo..hi, age \in c.min..c.max PROVE c.min <= hi /\ c.max >= lo
    BY <1>1, <1>4
<1> QED
    BY <1>2, <1>3, <1>4 DEF lo, hi

\* The chips and the tab together mark the filters that the sheet counts.
LEMMA ChipsCount ==
    ASSUME ExploreTypeOK
    PROVE  Cardinality(FilterChips) + Cardinality(ActiveTab \ {"all"}) = ActiveFilterCount(filters)
<1> DEFINE set == {x \in {"region", "category", "age", "bracket"} : filters[x] # DefaultFilters[x]}
<1>1. filters.category \in TabOptions /\ DefaultFilters["category"] = "all" /\ filters["category"] = filters.category
    BY DEF ExploreTypeOK, FilterValues, DefaultFilters
<1>2. FilterChips = set \ {"category"} /\ "category" \notin FilterChips
    BY DEF FilterChips
<1>3. IsFiniteSet(FilterChips) /\ Cardinality(FilterChips) \in Nat
  <2>1. IsFiniteSet({"region", "age", "bracket"})
    <3>1. IsFiniteSet({}) /\ {"region", "age", "bracket"} = (({} \cup {"region"}) \cup {"age"}) \cup {"bracket"}
        BY FS_EmptySet
    <3>2. IsFiniteSet({} \cup {"region"})
        BY <3>1, FS_AddElement
    <3>3. IsFiniteSet(({} \cup {"region"}) \cup {"age"})
        BY <3>2, FS_AddElement
    <3> QED
        BY <3>1, <3>3, FS_AddElement
  <2>2. FilterChips \subseteq {"region", "age", "bracket"}
      BY DEF FilterChips
  <2> QED
      BY <2>1, <2>2, FS_Subset, FS_CardinalityType
<1>4. CASE filters.category = "all"
  <2>1. ActiveTab \ {"all"} = {} /\ "category" \notin set
      BY <1>1, <1>4 DEF ActiveTab
  <2>2. FilterChips = set
      BY <1>2, <2>1
  <2> QED
      BY <1>3, <2>1, <2>2, FS_EmptySet DEF ActiveFilterCount
<1>5. CASE filters.category # "all"
  <2>1. ActiveTab \ {"all"} = {filters.category}
      BY <1>1, <1>5 DEF ActiveTab
  <2>2. set = FilterChips \cup {"category"}
      BY <1>1, <1>2, <1>5
  <2>3. Cardinality(set) = Cardinality(FilterChips) + 1
      BY <1>2, <1>3, <2>2, FS_AddElement
  <2>4. Cardinality(ActiveTab \ {"all"}) = 1
      BY <2>1, FS_Singleton
  <2> QED
      BY <1>3, <2>3, <2>4 DEF ActiveFilterCount
<1> QED
    BY <1>4, <1>5

\* filteredPrograms, ActiveFilterCount: for all programmes, terms and choices, the list is
\* exactly what somebody of the chosen ages may apply for, and the marks above it count
\* what the sheet counts.
THEOREM ListIsWhoQualifies == ExploreSpec => []FilterFindsWhoQualifies
<1>1. ASSUME ExploreTypeOK PROVE FilterFindsWhoQualifies
  <2>0. filters.age \in DOMAIN AgeRanges /\ filters.category \in TabOptions
      BY <1>1 DEF ExploreTypeOK, FilterValues
  <2>1. ASSUME NEW c \in AllCards
        PROVE  c \in FilteredPrograms <=>
                   /\ \E age \in AgeRanges[filters.age].min..AgeRanges[filters.age].max : age \in c.min..c.max
                   /\ filters.region \in c.regions \cup {Nationwide} \/ c.regions = {}
                   /\ filters.category = "all" \/ ProgramCard(c).card.category \in ActiveTab
                   /\ c.id \in Terms[search]
    <3>1. c \in Cards
        BY DEF AllCards
    <3>2. InAgeRange(c, filters) <=>
              \E age \in AgeRanges[filters.age].min..AgeRanges[filters.age].max : age \in c.min..c.max
        BY <2>0, <3>1, RangesMeet
    <3>3. InRegion(c, filters) <=> filters.region \in c.regions \cup {Nationwide} \/ c.regions = {}
        BY DEF InRegion
    <3>4. InCategory(c, filters) <=> filters.category = "all" \/ ProgramCard(c).card.category \in ActiveTab
      <4>1. ProgramCard(c).card.category = TypeLabel(c.type)
          BY DEF ProgramCard, ExploreCard
      <4>2. TypeLabel(c.type) \in ActiveTab <=> TypeLabel(c.type) = filters.category
          BY <2>0 DEF ActiveTab
      <4> QED
          BY <4>1, <4>2 DEF InCategory
    <3>5. c.id \in Terms[search] <=> (search = "" \/ c.id \in Terms[search])
        BY <3>1, CardsAreCards
    <3> QED
        BY <3>1, <3>2, <3>3, <3>4, <3>5 DEF FilteredPrograms
  <2> QED
      BY <1>1, <2>1, ChipsCount DEF FilterFindsWhoQualifies
<1> QED
    BY <1>1, FiltersAreTyped, PTL

-----------------------------------------------------------------------------
(* The home screen and the package                                         *)

Entries(r) == [data: {<<>>, Recommended[r]}, known: BOOLEAN, error: BOOLEAN, asked: BOOLEAN]
CachedRegions == HomeRegions \cup {FixedRegion}

\* What an entry holds once it is known are the server's recommendations for its region.
EntryFine(entry, r) == entry \in Entries(r) /\ (entry.known => entry.data = Recommended[r])

Dashboards == [of: HomeAccounts \cup {0}, error: BOOLEAN, asked: HomeAccounts \cup {0},
               kept: HomeAccounts \cup {0}]

HomeTyped ==
    /\ account \in HomeAccounts \cup {0} /\ homeRegion \in HomeRegions \cup {""}
    /\ dashboard \in Dashboards
    /\ homeCache = [r \in CachedRegions |-> homeCache[r]]
    /\ \A r \in CachedRegions : EntryFine(homeCache[r], r)
    /\ EntryFine(package, FixedRegion) /\ saving \in {"idle", "waiting", "told"}

\* With a session, what the home screen shows was asked for.
Requested ==
    account # 0 => /\ dashboard.of # 0 \/ dashboard.asked # 0 \/ dashboard.error
                   /\ HomeEntry.known \/ HomeEntry.asked \/ HomeEntry.error

HomeInv == HomeTyped /\ Requested

LEMMA EmptyEntryFine == \A r : EntryFine(NoEntryYet, r)
BY DEF EntryFine, Entries, NoEntryYet

LEMMA HomeAtFirst == HomeInit => HomeInv
<1> SUFFICES ASSUME HomeInit PROVE HomeInv
    OBVIOUS
<1>1. account = 0
    BY DEF HomeInit
<1>2. dashboard \in Dashboards
    BY DEF HomeInit, Dashboards
<1>3. homeCache = [r \in CachedRegions |-> homeCache[r]] /\ \A r \in CachedRegions : EntryFine(homeCache[r], r)
    BY EmptyEntryFine DEF HomeInit, CachedRegions
<1>4. EntryFine(package, FixedRegion) /\ saving \in {"idle", "waiting", "told"} /\ homeRegion \in HomeRegions \cup {""}
    BY EmptyEntryFine DEF HomeInit
<1> QED
    BY <1>1, <1>2, <1>3, <1>4 DEF HomeInv, HomeTyped, Requested

\* A query that is mounted keeps what is there and reads what is not.
LEMMA AskFine ==
    ASSUME NEW r, NEW entry, EntryFine(entry, r), NEW e \in Ask(entry)
    PROVE  EntryFine(e, r) /\ (e.known \/ e.asked)
<1>1. entry \in Entries(r)
    BY DEF EntryFine
<1>2. CASE e = entry /\ (entry.known \/ entry.asked)
    BY <1>2
<1>3. CASE e = [entry EXCEPT !.asked = TRUE, !.error = @ /\ entry.known]
  <2> DEFINE wrong == entry.error /\ entry.known
  <2>1. wrong \in BOOLEAN /\ e = [entry EXCEPT !.asked = TRUE, !.error = wrong]
      BY <1>1, <1>3 DEF Entries
  <2> HIDE DEF wrong
  <2>2. e \in Entries(r) /\ e.known = entry.known /\ e.data = entry.data /\ e.asked
      BY <1>1, <2>1 DEF Entries
  <2> QED
      BY <2>2 DEF EntryFine
<1> QED
    BY <1>2, <1>3 DEF Ask

LEMMA ReceivedFine == \A r : EntryFine(Received(r), r) /\ Received(r).known
BY DEF Received, EntryFine, Entries

LEMMA RefusedFine ==
    ASSUME NEW r, NEW entry, EntryFine(entry, r)
    PROVE  EntryFine(Refused(entry), r) /\ Refused(entry).error
BY DEF Refused, EntryFine, Entries

LEMMA ProfileIsCached == HomeTyped => HomeProfile \in CachedRegions
BY DEF HomeTyped, HomeProfile, CachedRegions

\* Another entry of the cache
LEMMA CacheStays ==
    ASSUME HomeTyped, NEW r \in CachedRegions, NEW e, EntryFine(e, r),
           homeCache' = [homeCache EXCEPT ![r] = e]
    PROVE  /\ homeCache' = [k \in CachedRegions |-> homeCache'[k]]
           /\ \A k \in CachedRegions : EntryFine(homeCache'[k], k)
           /\ homeCache'[r] = e /\ \A k \in CachedRegions \ {r} : homeCache'[k] = homeCache[k]
<1>1. homeCache = [k \in CachedRegions |-> homeCache[k]] /\ \A k \in CachedRegions : EntryFine(homeCache[k], k)
    BY DEF HomeTyped
<1>2. /\ homeCache' = [k \in CachedRegions |-> homeCache'[k]]
      /\ homeCache'[r] = e /\ \A k \in CachedRegions \ {r} : homeCache'[k] = homeCache[k]
    BY <1>1
<1>3. ASSUME NEW k \in CachedRegions PROVE EntryFine(homeCache'[k], k)
    BY <1>1, <1>2, <1>3
<1> QED
    BY <1>2, <1>3

LEMMA SignInKeeps ==
    ASSUME HomeInv, NEW a \in HomeAccounts, SignIn(a)
    PROVE  HomeInv'
<1>0. HomeTyped /\ a # 0 /\ a \in HomeAccounts
    BY HomeAssumption DEF HomeInv, HomeAssumption
<1>1. account' = a /\ AskDashboard /\ AskRecommendations(HomeProfile) /\ package' \in Ask(package)
      /\ homeRegion' = homeRegion /\ saving' = saving
    BY DEF SignIn
<1>2. /\ dashboard' \in Dashboards
      /\ dashboard'.of # 0 \/ dashboard'.asked # 0
  <2>1. CASE dashboard.of # 0 /\ UNCHANGED dashboard
      BY <1>0, <2>1 DEF HomeTyped
  <2>2. CASE ~(dashboard.of # 0 /\ UNCHANGED dashboard)
    <3> DEFINE whose == IF dashboard.asked = 0 THEN account' ELSE dashboard.asked
               wrong == dashboard.error /\ dashboard.of # 0
    <3>1. dashboard' = [dashboard EXCEPT !.asked = whose, !.error = wrong]
        BY <1>1, <2>2 DEF AskDashboard
    <3>2. whose \in HomeAccounts /\ whose # 0 /\ wrong \in BOOLEAN
        BY <1>0, <1>1 DEF HomeTyped, Dashboards
    <3> HIDE DEF whose, wrong
    <3> QED
        BY <1>0, <3>1, <3>2 DEF HomeTyped, Dashboards
  <2> QED
      BY <2>1, <2>2
<1>3. PICK e \in Ask(homeCache[HomeProfile]) : homeCache' = [homeCache EXCEPT ![HomeProfile] = e]
    BY <1>1 DEF AskRecommendations
<1>4. HomeProfile \in CachedRegions /\ EntryFine(homeCache[HomeProfile], HomeProfile)
    BY <1>0, ProfileIsCached DEF HomeTyped
<1>5. EntryFine(e, HomeProfile) /\ (e.known \/ e.asked)
    BY <1>3, <1>4, AskFine
<1>6. /\ homeCache' = [k \in CachedRegions |-> homeCache'[k]]
      /\ \A k \in CachedRegions : EntryFine(homeCache'[k], k)
      /\ homeCache'[HomeProfile] = e
    BY <1>0, <1>3, <1>4, <1>5, CacheStays
<1>7. HomeEntry' = e
    BY <1>1, <1>6 DEF HomeEntry, HomeProfile
<1>8. EntryFine(package', FixedRegion)
    BY <1>0, <1>1, AskFine DEF HomeTyped
<1>9. Requested'
    BY <1>2, <1>5, <1>7 DEF Requested
<1> QED
    BY <1>0, <1>1, <1>2, <1>6, <1>8, <1>9 DEF HomeInv, HomeTyped

LEMMA AnswerKeeps ==
    ASSUME HomeInv, NEW r \in HomeRegions, Answer(r)
    PROVE  HomeInv'
<1>0. HomeTyped /\ r # "" /\ r \in CachedRegions
    BY HomeAssumption DEF HomeInv, HomeAssumption, CachedRegions
<1>1. homeRegion' = r /\ UNCHANGED <<account, dashboard, package, saving>> /\ AskRecommendations(r)
    BY DEF Answer
<1>2. PICK e \in Ask(homeCache[r]) : homeCache' = [homeCache EXCEPT ![r] = e]
    BY <1>1 DEF AskRecommendations
<1>3. EntryFine(homeCache[r], r)
    BY <1>0 DEF HomeTyped
<1>4. EntryFine(e, r) /\ (e.known \/ e.asked)
    BY <1>2, <1>3, AskFine
<1>5. /\ homeCache' = [k \in CachedRegions |-> homeCache'[k]]
      /\ \A k \in CachedRegions : EntryFine(homeCache'[k], k)
      /\ homeCache'[r] = e
    BY <1>0, <1>2, <1>4, CacheStays
<1>6. HomeEntry' = e
    BY <1>0, <1>1, <1>5 DEF HomeEntry, HomeProfile
<1>7. Requested'
    BY <1>1, <1>4, <1>6 DEF Requested, HomeInv
<1> QED
    BY <1>0, <1>1, <1>5, <1>7 DEF HomeInv, HomeTyped

LEMMA RecommendationsKeep ==
    ASSUME HomeInv, NEW r \in DOMAIN homeCache, RecommendationsArrive(r)
    PROVE  HomeInv'
<1>0. HomeTyped /\ r \in CachedRegions /\ EntryFine(homeCache[r], r)
    BY DEF HomeInv, HomeTyped
<1>1. UNCHANGED <<account, homeRegion, dashboard, package, saving>>
    BY DEF RecommendationsArrive
<1>2. PICK e \in {Received(r), Refused(homeCache[r])} : homeCache' = [homeCache EXCEPT ![r] = e]
    BY DEF RecommendationsArrive
<1>3. EntryFine(e, r) /\ (e.known \/ e.error)
    BY <1>0, <1>2, ReceivedFine, RefusedFine
<1>4. /\ homeCache' = [k \in CachedRegions |-> homeCache'[k]]
      /\ \A k \in CachedRegions : EntryFine(homeCache'[k], k)
      /\ homeCache'[r] = e /\ \A k \in CachedRegions \ {r} : homeCache'[k] = homeCache[k]
    BY <1>0, <1>2, <1>3, CacheStays
<1>5. HomeEntry' = IF r = HomeProfile THEN e ELSE HomeEntry
    BY <1>0, <1>1, <1>4, ProfileIsCached DEF HomeEntry, HomeProfile
<1>6. Requested'
    BY <1>1, <1>3, <1>5 DEF Requested, HomeInv
<1> QED
    BY <1>0, <1>1, <1>4, <1>6 DEF HomeInv, HomeTyped

LEMMA DashboardKeeps ==
    ASSUME HomeInv, DashboardArrives
    PROVE  HomeInv'
<1>0. dashboard \in Dashboards /\ dashboard.asked # 0
    BY DEF HomeInv, HomeTyped, DashboardArrives
<1>1. UNCHANGED <<account, homeRegion, homeCache, package, saving>>
    BY DEF DashboardArrives
<1>2. /\ dashboard' \in Dashboards
      /\ dashboard'.of # 0 \/ dashboard'.error
  <2>1. PICK whose \in {dashboard.of, dashboard.asked, dashboard.kept}, wrong \in BOOLEAN,
             k \in {0, dashboard.asked, dashboard.kept} :
                /\ dashboard' = [of |-> whose, error |-> wrong, asked |-> 0, kept |-> k]
                /\ whose # 0 \/ wrong
      BY <1>0 DEF DashboardArrives
  <2>2. {whose, k} \subseteq HomeAccounts \cup {0}
      BY <1>0 DEF Dashboards
  <2> QED
      BY <2>1, <2>2 DEF Dashboards
<1>3. HomeEntry' = HomeEntry
    BY <1>1 DEF HomeEntry, HomeProfile
<1>4. Requested'
    BY <1>1, <1>2, <1>3 DEF Requested, HomeInv
<1> QED
    BY <1>1, <1>2, <1>4 DEF HomeInv, HomeTyped

LEMMA HomeStepKeeps == HomeInv /\ [HomeNext]_homeVars => HomeInv'
<1> SUFFICES ASSUME HomeInv, [HomeNext]_homeVars PROVE HomeInv'
    OBVIOUS
<1>1. ASSUME UNCHANGED <<homeRegion, dashboard, homeCache>>, account' \in {0, account},
             EntryFine(package', FixedRegion), saving' \in {"idle", "waiting", "told"}
      PROVE  HomeInv'
  <2>1. HomeEntry' = HomeEntry
      BY <1>1 DEF HomeEntry, HomeProfile
  <2> QED
      BY <1>1, <2>1 DEF HomeInv, HomeTyped, Requested
<1>2. EntryFine(package, FixedRegion) /\ saving \in {"idle", "waiting", "told"}
    BY DEF HomeInv, HomeTyped
<1>3. CASE SignOut
    BY <1>1, <1>2, <1>3 DEF SignOut
<1>4. CASE PackageArrives
  <2>1. EntryFine(package', FixedRegion)
      BY <1>2, <1>4, ReceivedFine, RefusedFine DEF PackageArrives
  <2> QED
      BY <1>1, <1>2, <1>4, <2>1 DEF PackageArrives
<1>5. CASE HandleSavePackage \/ SaveTold \/ CloseAlert
    BY <1>1, <1>2, <1>5 DEF HandleSavePackage, SaveTold, CloseAlert
<1>6. CASE UNCHANGED homeVars
    BY <1>1, <1>2, <1>6 DEF homeVars
<1> QED
    BY <1>3, <1>4, <1>5, <1>6, SignInKeeps, AnswerKeeps, RecommendationsKeep, DashboardKeeps DEF HomeNext

\* (tabs)/index.tsx, (tabs)/manage.tsx: every variable of the two tabs keeps to the values the
\* code can give it, and a cached entry holds nothing but its own region's recommendations.
THEOREM HomeIsTyped == HomeSpec => []HomeTypeOK
<1>1. HomeInv => HomeTypeOK
    BY DEF HomeInv, HomeTyped, HomeTypeOK, Dashboards, EntryFine, Entries, CachedRegions
<1> QED
    BY <1>1, HomeAtFirst, HomeStepKeeps, PTL DEF HomeSpec

LEMMA ListsAreSorted ==
    ASSUME NEW r \in CachedRegions
    PROVE  /\ Recommended[r] \in Seq({Recommended[r][n] : n \in DOMAIN Recommended[r]})
           /\ \A n \in DOMAIN Recommended[r] :
                 /\ Recommended[r][n].score \in 0..100
                 /\ Recommended[r][n].score <= Recommended[r][1].score
<1>1. /\ Recommended[r] \in Seq({Recommended[r][n] : n \in DOMAIN Recommended[r]})
      /\ \A n \in DOMAIN Recommended[r] :
            IsRecommended(Recommended[r][n])
            /\ \A k \in 1..n : Recommended[r][k].score >= Recommended[r][n].score
    BY HomeAssumption DEF HomeAssumption, CachedRegions
<1>2. ASSUME NEW n \in DOMAIN Recommended[r]
      PROVE  /\ Recommended[r][n].score \in 0..100
             /\ Recommended[r][n].score <= Recommended[r][1].score
  <2>1. n \in 1..Len(Recommended[r]) /\ Len(Recommended[r]) \in Nat
      BY <1>1, LenProperties
  <2>2. 1 \in 1..n /\ 1 \in DOMAIN Recommended[r]
      BY <1>1, <2>1, LenProperties
  <2>3. Recommended[r][n].score \in 0..100 /\ Recommended[r][1].score \in 0..100
      BY <1>1, <2>2 DEF IsRecommended
  <2>4. Recommended[r][1].score >= Recommended[r][n].score
      BY <1>1, <2>2
  <2> QED
      BY <2>3, <2>4
<1> QED
    BY <1>1, <1>2

\* The first elements of a list
LEMMA TopProperties ==
    ASSUME NEW S, NEW items \in Seq(S), NEW n \in Nat
    PROVE  /\ Top(items, n) \in Seq(S)
           /\ Len(Top(items, n)) = IF Len(items) < n THEN Len(items) ELSE n
           /\ \A k \in 1..Len(Top(items, n)) : Top(items, n)[k] = items[k] /\ k \in DOMAIN items
<1> DEFINE m == IF Len(items) < n THEN Len(items) ELSE n
<1>1. Len(items) \in Nat /\ DOMAIN items = 1..Len(items)
    BY LenProperties
<1>2. m \in Nat /\ m <= Len(items) /\ Top(items, n) = SubSeq(items, 1, m)
    BY <1>1 DEF Top
<1> HIDE DEF m
<1>3. \A k \in 1..m : items[k] \in S
    BY <1>1, <1>2, ElementOfSeq
<1>4. 1 \in Int /\ m \in Int /\ (m < 1 \/ (1 \in DOMAIN items /\ m \in DOMAIN items))
    BY <1>1, <1>2
<1>5. SubSeq(items, 1, m) = [i \in 1..m |-> items[i]] /\ SubSeq(items, 1, m) \in Seq(S)
      /\ Len(SubSeq(items, 1, m)) = m
    BY <1>1, <1>2, <1>3, SubSeqProperties
<1> QED
    BY <1>1, <1>2, <1>5 DEF m

\* The sum of the best scores: a recursive function on at most six numbers, written out.
ScoreSums(k, b) == CHOOSE f : f = [n \in 0..k |-> IF n = 0 THEN 0 ELSE f[n - 1] + b[n].score]

LEMMA SumWrittenOut ==
    ASSUME NEW k \in 0..5, NEW b
    PROVE  \A n \in 0..k : ScoreSums(k, b)[n] = IF n = 0 THEN 0 ELSE ScoreSums(k, b)[n - 1] + b[n].score
<1> DEFINE sum == ScoreSums(k, b)
           Unfold(f) == [n \in 0..k |-> IF n = 0 THEN 0 ELSE f[n - 1] + b[n].score]
           s1 == 0 + b[1].score
           s2 == s1 + b[2].score
           s3 == s2 + b[3].score
           s4 == s3 + b[4].score
           s5 == s4 + b[5].score
           g == [n \in 0..k |-> IF n = 0 THEN 0 ELSE IF n = 1 THEN s1 ELSE IF n = 2 THEN s2
                                ELSE IF n = 3 THEN s3 ELSE IF n = 4 THEN s4 ELSE s5]
<1>1. g = Unfold(g)
  <2>1. ASSUME NEW n \in 0..k PROVE g[n] = IF n = 0 THEN 0 ELSE g[n - 1] + b[n].score
    <3>1. n \in {0, 1, 2, 3, 4, 5} /\ (n # 0 => n - 1 \in 0..k)
        OBVIOUS
    <3> QED
        BY <3>1
  <2> QED
      BY <2>1
<1>2. sum = Unfold(sum)
  <2>1. sum = CHOOSE f : f = Unfold(f)
      BY DEF ScoreSums
  <2> HIDE DEF Unfold, g, sum
  <2> QED
      BY <1>1, <2>1
<1>3. \A n \in 0..k : sum[n] = Unfold(sum)[n]
    BY <1>2
<1> QED
    BY <1>3

\* A mean of numbers that are no more than s is no more than s.
LEMMA MeanBounded ==
    ASSUME NEW s \in Nat, NEW c \in 1..5, NEW x \in Nat, x <= c * s
    PROVE  (2 * x + c) \div (2 * c) \in Nat /\ (2 * x + c) \div (2 * c) <= s
<1>1. CASE c = 1
    BY <1>1
<1>2. CASE c = 2
    BY <1>2
<1>3. CASE c = 3
    BY <1>3
<1>4. CASE c = 4
    BY <1>4
<1>5. CASE c = 5
    BY <1>5
<1> QED
    BY <1>1, <1>2, <1>3, <1>4, <1>5

\* scoreFromRecommendations: the mean of at most five scores, of which the first is the best,
\* is no more than that one.
LEMMA MeanOfBest ==
    ASSUME package.data = Recommended[FixedRegion], package.data # <<>>
    PROVE  OverallScore \in 0..100 /\ OverallScore <= package.data[1].score
<1> DEFINE data == package.data  best == Top(data, 5)  k == Len(best)  s == data[1].score
           all == {Recommended[FixedRegion][n] : n \in DOMAIN Recommended[FixedRegion]}
           sum == ScoreSums(k, best)
<1>0. FixedRegion \in CachedRegions /\ data \in Seq(all)
    BY ListsAreSorted DEF CachedRegions
<1>1. Len(data) \in Nat /\ Len(data) # 0 /\ DOMAIN data = 1..Len(data)
    BY <1>0, LenProperties, EmptySeq
<1>2. /\ best \in Seq(all) /\ k = IF Len(data) < 5 THEN Len(data) ELSE 5
      /\ \A n \in 1..k : best[n] = data[n] /\ n \in DOMAIN data
    BY <1>0, TopProperties
<1>3. k \in 1..5
  <2>1. k = IF Len(data) < 5 THEN Len(data) ELSE 5
      BY <1>2
  <2> HIDE DEF k, data
  <2> QED
      BY <1>1, <2>1
<1>4. best # <<>>
  <2>1. k # 0
      BY <1>3
  <2> QED
      BY <2>1
<1>5. OverallScore = (2 * sum[k] + k) \div (2 * k)
    BY <1>4 DEF OverallScore, ScoreSums
<1>6. \A n \in 0..k : sum[n] = IF n = 0 THEN 0 ELSE sum[n - 1] + best[n].score
  <2> HIDE DEF best, k
  <2>1. k \in 0..5
      BY <1>3
  <2> QED
      BY <2>1, SumWrittenOut
<1>7. s \in 0..100 /\ \A n \in 1..k : best[n].score \in 0..100 /\ best[n].score <= s
  <2>1. \A n \in DOMAIN data : data[n].score \in 0..100 /\ data[n].score <= s
      BY <1>0, ListsAreSorted
  <2>2. 1 \in DOMAIN data
      BY <1>1
  <2> QED
      BY <1>2, <2>1, <2>2
<1> HIDE DEF sum, best, k, s, data, all
<1> DEFINE Below(n) == sum[n] \in Nat /\ sum[n] <= n * s
<1>8. Below(k)
  <2>1. sum[0] = 0 /\ s \in Nat
    <3>1. 0 \in 0..k
        BY <1>3
    <3> QED
        BY <1>6, <1>7, <3>1
  <2>2. ASSUME NEW n \in 1..k, Below(n - 1) PROVE Below(n)
    <3>1. n \in 0..k /\ n \in 1..5 /\ n # 0
        BY <1>3
    <3>2. sum[n] = sum[n - 1] + best[n].score
        BY <1>6, <3>1
    <3>3. best[n].score \in Nat /\ best[n].score <= s
      <4>1. best[n].score \in 0..100 /\ best[n].score <= s
          BY <1>7
      <4>2. ASSUME NEW b, b \in 0..100 PROVE b \in Nat
          BY <4>2
      <4> QED
          BY <4>1, <4>2
    <3> DEFINE above == sum[n]  below == sum[n - 1]  b == best[n].score
    <3>4. below \in Nat /\ below <= (n - 1) * s
        BY <2>2
    <3> HIDE DEF above, below, b
    <3>5. n \in {1, 2, 3, 4, 5}
        BY <3>1
    <3>6. above = below + b /\ b \in Nat /\ b <= s
        BY <3>2, <3>3 DEF above, below, b
    <3>7. above \in Nat /\ above <= n * s
        BY <2>1, <3>4, <3>5, <3>6
    <3> QED
        BY <3>7 DEF above
  <2>3. Below(0)
      BY <2>1
  <2> HIDE DEF Below
  <2>4. k >= 1 => Below(1)
      BY <1>3, <2>2, <2>3
  <2>5. k >= 2 => Below(2)
      BY <1>3, <2>2, <2>4
  <2>6. k >= 3 => Below(3)
      BY <1>3, <2>2, <2>5
  <2>7. k >= 4 => Below(4)
      BY <1>3, <2>2, <2>6
  <2>8. k >= 5 => Below(5)
      BY <1>3, <2>2, <2>7
  <2>9. k \in {1, 2, 3, 4, 5}
      BY <1>3
  <2> QED
      BY <2>4, <2>5, <2>6, <2>7, <2>8, <2>9
<1> DEFINE mean == (2 * sum[k] + k) \div (2 * k)
<1>9. mean \in Nat /\ mean <= s
  <2>1. s \in Nat /\ sum[k] \in Nat /\ sum[k] <= k * s
      BY <1>7, <1>8
  <2> QED
      BY <1>3, <2>1, MeanBounded
<1> HIDE DEF mean
<1>10. mean \in 0..100 /\ mean <= s
  <2>1. s \in 0..100
      BY <1>7
  <2> QED
      BY <1>9, <2>1
<1> QED
    BY <1>5, <1>10 DEF mean, s, data

\* CircularProgress: the two halves of the ring turn by what is filled.
LEMMA RingTurnsOnce ==
    ASSUME OverallScore \in 0..100
    PROVE  /\ ScoreRing.first + ScoreRing.second <= 360
           /\ ScoreRing.second > 0 => ScoreRing.first = 180
<1> DEFINE filled == (OverallScore * 360) \div 100
<1>1. filled \in Nat /\ filled <= 360
    OBVIOUS
<1> HIDE DEF filled
<1>2. /\ ScoreRing.first = (IF filled < 180 THEN filled ELSE 180)
      /\ ScoreRing.second = (IF filled > 180 THEN filled - 180 ELSE 0)
    BY DEF ScoreRing, filled
<1> QED
    BY <1>1, <1>2

\* (tabs)/index.tsx: the cards are the first five of what the entry holds.
LEMMA CardsAreEntries ==
    ASSUME HomeTyped, HomeEntry.known
    PROVE  [n \in DOMAIN HomeCards |-> HomeCards[n].item] = Top(Recommended[HomeProfile], 5)
<1> DEFINE held == Recommended[HomeProfile]  all == {held[n] : n \in DOMAIN held}
           top == Top(held, 5)
<1>1. HomeProfile \in CachedRegions /\ HomeEntry.data = held /\ held \in Seq(all)
  <2>1. HomeProfile \in CachedRegions
      BY ProfileIsCached
  <2>2. HomeEntry.data = held
      BY <2>1 DEF HomeTyped, HomeEntry, EntryFine
  <2> QED
    BY <2>1, <2>2, ListsAreSorted
<1>2. top \in Seq(all) /\ \A k \in 1..Len(top) : top[k] = held[k]
  <2>1. held \in Seq(all) /\ 5 \in Nat
      BY <1>1
  <2> HIDE DEF held, all
  <2> QED
      BY <2>1, TopProperties
<1>3. DOMAIN top = 1..Len(top) /\ top = [n \in DOMAIN top |-> top[n]]
    BY <1>2, LenProperties
<1>4. HomeCards = [n \in DOMAIN top |-> [item |-> held[n], badge |-> Badge(held[n])]]
    BY <1>1 DEF HomeCards
<1>5. [n \in DOMAIN HomeCards |-> HomeCards[n].item] = [n \in DOMAIN top |-> held[n]]
    BY <1>4
<1> QED
    BY <1>2, <1>3, <1>5

\* (tabs)/index.tsx: without a skeleton and a banner, what was asked for has come.
LEMMA QuietScreenKnows ==
    ASSUME HomeInv, account # 0, HomeScreen \cap {"skeleton", "banner"} = {}
    PROVE  dashboard.of # 0 /\ HomeEntry.known
<1>1. ~HomeLoading
    BY DEF HomeScreen
<1>2. ~dashboard.error /\ ~HomeEntry.error
    BY <1>1 DEF HomeScreen
<1> QED
    BY <1>1, <1>2 DEF HomeInv, Requested, HomeLoading

\* For all lists of recommendations and whatever requests of earlier answers are under way: the
\* cards are those for the answers of now, a quiet screen is a filled one, and the package's
\* score is no better than its best programme and turns the ring once at most.
THEOREM HomeShowsAnswers == HomeSpec => []CardsMatchAnswers
<1>1. ASSUME HomeInv PROVE CardsMatchAnswers
  <2>1. HomeTyped
      BY <1>1 DEF HomeInv
  <2>2. ASSUME package.data # <<>>
        PROVE  /\ OverallScore <= package.data[1].score
               /\ ScoreRing.first + ScoreRing.second <= 360 /\ (ScoreRing.second > 0 => ScoreRing.first = 180)
    <3>1. package.data = Recommended[FixedRegion]
        BY <2>1, <2>2 DEF HomeTyped, EntryFine, Entries
    <3> QED
        BY <2>2, <3>1, MeanOfBest, RingTurnsOnce
  <2> QED
      BY <1>1, <2>1, <2>2, CardsAreEntries, QuietScreenKnows DEF CardsMatchAnswers
<1> QED
    BY <1>1, HomeAtFirst, HomeStepKeeps, PTL DEF HomeSpec

-----------------------------------------------------------------------------
(* The combined benefits                                                   *)

\* The list on the screen is one of the server's, or none has come.
ListOfServer == list \in [items: ProgramLists \cup {<<>>}, error: BOOLEAN, reading: BOOLEAN]

LEMMA ImageFinite ==
    ASSUME NEW S, IsFiniteSet(S), NEW f
    PROVE  IsFiniteSet({f[x] : x \in S})
<1> DEFINE T == {f[x] : x \in S}  g == [x \in S |-> f[x]]
<1>1. g \in [S -> T] /\ \A t \in T : \E x \in S : g[x] = t
  OBVIOUS
<1>2. g \in Surjection(S, T)
  BY <1>1, Zenon DEF Surjection
<1> HIDE DEF T, g
<1>3. IsFiniteSet(T)
  BY <1>2, FS_Surjection
<1> QED BY <1>3 DEF T

\* What is listed is finite, and every programme of it pays a number.
LEMMA ListedPays ==
    ASSUME ListOfServer
    PROVE  IsFiniteSet(Listed) /\ \A p \in Listed : EffectiveMonthly(p) \in Nat
<1>1. /\ list.items \in Seq({list.items[n] : n \in DOMAIN list.items})
      /\ \A n \in DOMAIN list.items : IsApiProgram(list.items[n])
  <2>1. CASE list.items \in ProgramLists
    BY <2>1, StackAssumption DEF StackAssumption
  <2>2. CASE list.items = <<>>
    BY <2>2
  <2> QED BY <2>1, <2>2 DEF ListOfServer
<1> DEFINE shown == {m \in DOMAIN list.items : m <= ListLimit}
<1>2. IsFiniteSet(DOMAIN list.items)
  <2>1. Len(list.items) \in Nat /\ DOMAIN list.items = 1..Len(list.items)
    BY <1>1, LenProperties
  <2> QED BY <2>1, FS_Interval
<1>3. IsFiniteSet(shown)
  BY <1>2, FS_Subset
<1>4. Listed = {list.items[n] : n \in shown}
  BY DEF Listed
<1>5. IsFiniteSet(Listed)
  <2> HIDE DEF shown
  <2> QED BY <1>3, <1>4, ImageFinite
<1>6. ASSUME NEW p \in Listed PROVE EffectiveMonthly(p) \in Nat
  <2>1. IsApiProgram(p)
    BY <1>1, <1>4, <1>6
  <2>2. p.monthly \in Nat /\ p.semester \in Nat /\ p.once \in Nat
    BY <2>1 DEF IsApiProgram
  <2>3. \A a \in Nat : RoundedShare(a, 6) \in Nat /\ RoundedShare(a, 24) \in Nat
    BY DEF RoundedShare
  <2> DEFINE a == RoundedShare(p.semester, 6)  b == RoundedShare(p.once, 24)  c == p.monthly
  <2>4. a \in Nat /\ b \in Nat /\ c \in Nat
    BY <2>2, <2>3
  <2> HIDE DEF a, b, c
  <2>5. c + a + b \in Nat
    BY <2>4
  <2> QED BY <2>5 DEF EffectiveMonthly, a, b, c
<1> QED BY <1>5, <1>6

Pays == [p \in Listed |-> EffectiveMonthly(p)]

LEMMA MonthlyIsTotal ==
    ASSUME ListOfServer, NEW L \in SUBSET Listed
    PROVE  MonthlySum(L) = Total(Pays, L)
<1> DEFINE H(f) == [s \in SUBSET L |-> IF s = {} THEN 0
                        ELSE EffectiveMonthly(CHOOSE x \in s : TRUE) + f[s \ {CHOOSE x \in s : TRUE}]]
           F == CHOOSE f : f = H(f)
<1>1. MonthlySum(L) = F[L]
  BY DEF MonthlySum, MapThenSumSet, MapThenFoldSet
<1>2. ASSUME NEW f PROVE H(f) = Unfolded(Pays, L, f)
  <2>1. ASSUME NEW s \in SUBSET L, s # {}
        PROVE  EffectiveMonthly(CHOOSE x \in s : TRUE) = Pays[Pick(s)]
    BY <2>1, Picked DEF Pick, Pays
  <2> QED BY <2>1 DEF Unfolded, Pick
<1>3. IsFiniteSet(L)
  BY FS_Subset, ListedPays
<1>4. F = H(F)
  <2> DEFINE G == Iter(Pays, L)
  <2>1. G = Unfolded(Pays, L, G)
    BY <1>3, IterExists
  <2>2. G = H(G)
    BY <1>2, <2>1
  <2> HIDE DEF G, H
  <2> QED BY <2>2
<1>5. F = Unfolded(Pays, L, F)
  BY <1>2, <1>4
<1> HIDE DEF F
<1> QED BY <1>1, <1>3, <1>5, TotalIs

LEMMA PaysWeighs ==
    ASSUME ListOfServer
    PROVE  /\ IsFiniteSet(Listed) /\ Weighs(Pays, Listed)
           /\ \A L \in SUBSET Listed : MonthlySum(L) \in Nat
<1>1. IsFiniteSet(Listed) /\ Weighs(Pays, Listed)
  BY ListedPays DEF Weighs, Pays
<1> QED BY <1>1, MonthlyIsTotal, TotalType

\* Programmes that do not exclude each other: what Stackable leaves is such a choice.
Receivable(X) == {c \in SUBSET X : \A p, q \in c : ~Excludes(p, q)}

LEMMA StackableIsChoice == \A X : Stackable(X) \in Receivable(X)
BY DEF Stackable, Conflicting, Receivable

LEMMA BestChoice ==
    ASSUME ListOfServer, NEW X \in SUBSET Listed
    PROVE  MonthlySum(Stackable(X)) <= Max({MonthlySum(c) : c \in Receivable(X)})
<1> DEFINE f == [c \in Receivable(X) |-> MonthlySum(c)]
           sums == {f[c] : c \in Receivable(X)}
<1>1. IsFiniteSet(Receivable(X))
  <2>1. IsFiniteSet(SUBSET X)
    BY PaysWeighs, FS_Subset, FS_SUBSET
  <2>2. Receivable(X) \subseteq SUBSET X
    BY DEF Receivable
  <2> QED BY <2>1, <2>2, FS_Subset
<1>2. IsFiniteSet(sums)
  <2> HIDE DEF f
  <2> QED BY <1>1, ImageFinite
<1>3. sums \in SUBSET Nat
  BY PaysWeighs DEF Receivable
<1>4. sums = {MonthlySum(c) : c \in Receivable(X)}
  OBVIOUS
<1>5. MonthlySum(Stackable(X)) \in sums
  BY <1>4, StackableIsChoice
<1> HIDE DEF sums
<1>6. MonthlySum(Stackable(X)) <= Max(sums)
  BY <1>2, <1>3, <1>5, LargestNumber
<1> QED BY <1>4, <1>6

\* Without a warning nothing is left out.
LEMMA NoPairsNoConflict ==
    ASSUME NEW X, ConflictPairs(X) = {}
    PROVE  Stackable(X) = X
<1> SUFFICES ASSUME NEW p \in X, NEW q \in X, Excludes(p, q) PROVE FALSE
  BY DEF Stackable, Conflicting
<1>1. p # q /\ Excludes(q, p)
  BY DEF Excludes
<1>2. Cardinality({p, q}) = 2
  <2>1. IsFiniteSet({p}) /\ Cardinality({p}) = 1
    BY FS_Singleton
  <2>2. Cardinality({p} \cup {q}) = Cardinality({p}) + 1
    BY <1>1, <2>1, FS_AddElement
  <2>3. {p, q} = {p} \cup {q}
    OBVIOUS
  <2> QED BY <2>1, <2>2, <2>3
<1>3. {p, q} \in kSubset(2, X)
  BY <1>2 DEF kSubset
<1>4. \A a, b \in {p, q} : a = b \/ Excludes(a, b)
  BY <1>1
<1>5. {p, q} \in ConflictPairs(X)
  BY <1>3, <1>4, Zenon DEF ConflictPairs
<1> QED BY <1>5

\* CategoryBreakdownCard: the categories share the total among them.
SumOfGroup(G) == [g \in G |-> MonthlySum(g.programs)]

LEMMA GroupsIsTotal ==
    ASSUME NEW G, IsFiniteSet(G)
    PROVE  MapThenSumSet(LAMBDA g : MonthlySum(g.programs), G) = Total(SumOfGroup(G), G)
<1> DEFINE H(f) == [s \in SUBSET G |-> IF s = {} THEN 0
                        ELSE MonthlySum((CHOOSE x \in s : TRUE).programs) + f[s \ {CHOOSE x \in s : TRUE}]]
           F == CHOOSE f : f = H(f)
<1>1. MapThenSumSet(LAMBDA g : MonthlySum(g.programs), G) = F[G]
  BY DEF MapThenSumSet, MapThenFoldSet
<1>2. ASSUME NEW f PROVE H(f) = Unfolded(SumOfGroup(G), G, f)
  <2>1. ASSUME NEW s \in SUBSET G, s # {}
        PROVE  MonthlySum((CHOOSE x \in s : TRUE).programs) = SumOfGroup(G)[Pick(s)]
    BY <2>1, Picked DEF Pick, SumOfGroup
  <2> QED BY <2>1 DEF Unfolded, Pick
<1>4. F = H(F)
  <2> DEFINE I == Iter(SumOfGroup(G), G)
  <2>1. I = Unfolded(SumOfGroup(G), G, I)
    BY IterExists
  <2>2. I = H(I)
    BY <1>2, <2>1
  <2> HIDE DEF I, H
  <2> QED BY <2>2
<1>5. F = Unfolded(SumOfGroup(G), G, F)
  BY <1>2, <1>4
<1> HIDE DEF F
<1> QED BY <1>1, <1>5, TotalIs

LEMMA GroupsShareTheTotal ==
    ASSUME ListOfServer, NEW X \in SUBSET Listed
    PROVE  MapThenSumSet(LAMBDA g : MonthlySum(g.programs), CategoryGroups(X)) = MonthlySum(Stackable(X))
<1> DEFINE S == Stackable(X)  G == CategoryGroups(X)
           group(c) == [category |-> c, programs |-> {p \in S : Category(p.type) = c}]
           part == [g \in G |-> g.programs]
           v == SumOfGroup(G)
<1>1. S \in SUBSET Listed
  BY DEF Stackable
<1>2. G = {group(c) : c \in {Category(p.type) : p \in S}}
  BY DEF CategoryGroups
<1>3. IsFiniteSet(G)
  <2> DEFINE f == [p \in S |-> group(Category(p.type))]
  <2>1. G = {f[p] : p \in S}
    BY <1>2
  <2>2. IsFiniteSet(S)
    BY <1>1, PaysWeighs, FS_Subset
  <2> HIDE DEF f, G, S
  <2> QED BY <2>1, <2>2, ImageFinite
<1>4. \A g \in G : g.programs \subseteq S /\ \A p \in g.programs : Category(p.type) = g.category
  BY <1>2
<1>5. \A g, h \in G : g # h => g.programs \cap h.programs = {}
  <2> SUFFICES ASSUME NEW g \in G, NEW h \in G, NEW p \in g.programs, p \in h.programs PROVE g = h
    OBVIOUS
  <2>1. g.category = h.category
    BY <1>4
  <2>2. g = group(g.category) /\ h = group(h.category)
    BY <1>2
  <2> QED BY <2>1, <2>2
<1>6. UNION {part[g] : g \in G} = S
  <2>1. \A p \in S : group(Category(p.type)) \in G /\ p \in group(Category(p.type)).programs
    BY <1>2
  <2> HIDE DEF group
  <2> QED BY <1>4, <2>1
<1>7. part \in [G -> SUBSET Listed]
  BY <1>1, <1>4
<1>8. \A g \in G : v[g] = Total(Pays, part[g])
  BY <1>7, MonthlyIsTotal DEF SumOfGroup
<1>9. \A g, h \in G : g # h => part[g] \cap part[h] = {}
  BY <1>5
<1> HIDE DEF part, v, G
<1>10. Total(v, G) = Total(Pays, UNION {part[g] : g \in G})
  BY <1>3, <1>7, <1>8, <1>9, PaysWeighs, TotalOfParts
<1>11. Total(v, G) = MonthlySum(S)
  <2> HIDE DEF S
  <2> QED BY <1>1, <1>6, <1>10, MonthlyIsTotal
<1> QED BY <1>3, <1>11, GroupsIsTotal DEF v, G

LEMMA ListOfServerStays == StackSpec => []ListOfServer
<1>1. StackInit => ListOfServer
  BY DEF StackInit, ListOfServer
<1>2. ListOfServer /\ [StackNext]_stackVars => ListOfServer'
  <2> SUFFICES ASSUME ListOfServer, [StackNext]_stackVars PROVE ListOfServer'
    OBVIOUS
  <2>1. CASE ListArrives
    BY <2>1 DEF ListArrives, ListOfServer
  <2>2. CASE ListFails
    BY <2>2 DEF ListFails, ListOfServer
  <2>3. CASE ReopenStack
    <3>1. list' = list \/ list' = [list EXCEPT !.reading = TRUE]
      BY <2>3 DEF ReopenStack
    <3>2. CASE list' = list
      BY <3>2 DEF ListOfServer
    <3>3. CASE list' = [list EXCEPT !.reading = TRUE]
      BY <3>3 DEF ListOfServer
    <3> QED BY <3>1, <3>2, <3>3
  <2>4. ASSUME NEW p \in Listed, ToggleSelect(p) PROVE ListOfServer'
    BY <2>4 DEF ToggleSelect, ListOfServer
  <2>5. CASE HandleCalculate
    BY <2>5 DEF HandleCalculate, ListOfServer
  <2>6. CASE HandleReset
    BY <2>6 DEF HandleReset, ListOfServer
  <2>7. CASE UNCHANGED stackVars
    BY <2>7 DEF stackVars, ListOfServer
  <2> QED BY <2>1, <2>2, <2>3, <2>4, <2>5, <2>6, <2>7 DEF StackNext
<1> QED BY <1>1, <1>2, PTL DEF StackSpec

\* analyzeStack, TotalSummaryCard and CategoryBreakdownCard agree about any list.
THEOREM TotalCanBeReceived == StackSpec => []TotalIsReceivable
<1>1. ListOfServer => TotalIsReceivable
  <2> SUFFICES ASSUME ListOfServer PROVE TotalIsReceivable
    OBVIOUS
  <2> DEFINE X == SelectedPrograms
  <2>1. X \in SUBSET Listed
    BY DEF SelectedPrograms
  <2>2. /\ Analysis.totals.monthly = MonthlySum(Stackable(X))
        /\ Analysis.groups = CategoryGroups(X)
        /\ Analysis.verdicts.pairs = ConflictPairs(X)
    BY DEF Analysis, Totals, Verdicts
  <2>3. {c \in SUBSET X : \A p, q \in c : ~Excludes(p, q)} = Receivable(X)
    BY DEF Receivable
  <2> HIDE DEF X
  <2>4. MonthlySum(Stackable(X)) <= Max({MonthlySum(c) : c \in Receivable(X)})
    BY <2>1, BestChoice
  <2>5. MapThenSumSet(LAMBDA g : MonthlySum(g.programs), CategoryGroups(X)) = MonthlySum(Stackable(X))
    BY <2>1, GroupsShareTheTotal
  <2>6. ConflictPairs(X) = {} => MonthlySum(Stackable(X)) = MonthlySum(X)
    BY NoPairsNoConflict
  <2> QED BY <2>2, <2>3, <2>4, <2>5, <2>6, Zenon DEF TotalIsReceivable, X
<1> QED BY <1>1, ListOfServerStays, PTL

\* The stack calculator's list is one of the server's, and what is picked is in such a list,
\* though not always in the one that is shown.
THEOREM StackIsTyped == StackSpec => []StackTypeOK
<1> DEFINE Known == UNION {{l[n].id : n \in DOMAIN l} : l \in ProgramLists}
<1>1. StackInit => StackTypeOK
  <2> SUFFICES ASSUME StackInit PROVE StackTypeOK
    OBVIOUS
  <2>1. list \in [items: ProgramLists \cup {<<>>}, error: BOOLEAN, reading: BOOLEAN]
    BY DEF StackInit
  <2>2. picked \in SUBSET Known /\ results \in BOOLEAN
    BY Zenon DEF StackInit
  <2> QED BY <2>1, <2>2, Zenon DEF StackTypeOK
<1>2. ASSUME ListOfServer, NEW p \in Listed PROVE p.id \in Known
  <2>1. PICK n \in DOMAIN list.items : p = list.items[n]
    BY DEF Listed
  <2>2. list.items \in ProgramLists
    BY <1>2, <2>1 DEF ListOfServer
  <2> QED BY <2>1, <2>2
<1>3. ListOfServer /\ StackTypeOK /\ [StackNext]_stackVars /\ ListOfServer' => StackTypeOK'
  <2> SUFFICES ASSUME ListOfServer, picked \subseteq Known, results \in BOOLEAN, [StackNext]_stackVars
               PROVE  picked' \subseteq Known /\ results' \in BOOLEAN
    BY DEF ListOfServer, StackTypeOK
  <2>1. ASSUME NEW p \in Listed, ToggleSelect(p) PROVE picked' \subseteq Known /\ results' \in BOOLEAN
    <3>1. p.id \in Known
      BY <1>2
    <3> HIDE DEF Known
    <3> QED BY <2>1, <3>1 DEF ToggleSelect
  <2> HIDE DEF Known
  <2>2. CASE ListArrives \/ ListFails \/ ReopenStack \/ HandleCalculate \/ HandleReset \/ UNCHANGED stackVars
    BY <2>2 DEF ListArrives, ListFails, ReopenStack, HandleCalculate, HandleReset, stackVars
  <2> QED BY <2>1, <2>2 DEF StackNext
<1> QED BY <1>1, <1>3, ListOfServerStays, PTL DEF StackSpec

-----------------------------------------------------------------------------
(* The condition simulator                                                 *)

\* An entry without data was refused or is asked for.
EntryOK(e) == e \in [data: BOOLEAN, error: BOOLEAN, asked: BOOLEAN] /\ (e.data \/ e.error \/ e.asked)
CacheOK == \A k \in DOMAIN simCache : EntryOK(simCache[k])

LEMMA EntryKnown == CacheOK => \A k : Entry(k) \in [data: BOOLEAN, error: BOOLEAN, asked: BOOLEAN]
BY DEF CacheOK, EntryOK, Entry, Unasked

LEMMA SetEntryKeeps ==
    ASSUME CacheOK, NEW k, NEW e, EntryOK(e), SetEntry(k, e)
    PROVE  CacheOK' /\ DOMAIN simCache' = DOMAIN simCache \cup {k}
BY DEF CacheOK, SetEntry

LEMMA MountKeeps ==
    ASSUME CacheOK, NEW k, Mount(k)
    PROVE  CacheOK' /\ DOMAIN simCache' = DOMAIN simCache \cup {k}
<1>1. CASE Entry(k).data /\ UNCHANGED simCache
  <2>1. k \in DOMAIN simCache
    BY <1>1 DEF Entry, Unasked
  <2>2. CacheOK'
    BY <1>1 DEF CacheOK
  <2> QED BY <1>1, <2>1, <2>2
<1>2. CASE SetEntry(k, [Entry(k) EXCEPT !.asked = TRUE, !.error = @ /\ Entry(k).data])
  <2> DEFINE e == [Entry(k) EXCEPT !.asked = TRUE, !.error = @ /\ Entry(k).data]
  <2>1. EntryOK(e)
    <3>1. Entry(k) \in [data: BOOLEAN, error: BOOLEAN, asked: BOOLEAN]
      BY EntryKnown
    <3> DEFINE b == Entry(k).error /\ Entry(k).data
    <3>2. b \in BOOLEAN /\ e = [Entry(k) EXCEPT !.asked = TRUE, !.error = b]
      OBVIOUS
    <3> HIDE DEF b, e
    <3>3. e \in [data: BOOLEAN, error: BOOLEAN, asked: BOOLEAN] /\ e.asked
      BY <3>1, <3>2
    <3> QED BY <3>3 DEF EntryOK
  <2> HIDE DEF e
  <2> QED BY <1>2, <2>1, SetEntryKeeps DEF e
<1> QED BY <1>1, <1>2 DEF Mount

\* A query on the screen has its entry.
QueriesHeld ==
    /\ Current \in DOMAIN Offers /\ SimProfile \in DOMAIN Offers
    /\ CurrentKey \in DOMAIN simCache
    /\ SimActive => OverrideKey \in DOMAIN simCache

\* Without changed conditions, the simulated profile is the current one.
LEMMA NothingChanged ==
    /\ overrides = NoOverrides => SimProfile = Current
    /\ overrides' = NoOverrides => SimProfile' = Current'
<1>1. Current = [f \in ProfileFields |-> Current[f]] /\ Current' = [f \in ProfileFields |-> Current'[f]]
  BY DEF Current, CurrentProfile
<1>2. ASSUME overrides = NoOverrides PROVE SimProfile = Current
  <2>1. ~Changed("age") /\ \A f \in ProfileFields : ~Changed(f)
    BY <1>2 DEF Changed
  <2>2. SimProfile = [f \in ProfileFields |-> Current[f]]
    BY <2>1 DEF SimProfile
  <2> QED BY <1>1, <2>2
<1>3. ASSUME overrides' = NoOverrides PROVE SimProfile' = Current'
  <2>1. ~Changed("age")' /\ \A f \in ProfileFields : ~Changed(f)'
    BY <1>3 DEF Changed
  <2>2. SimProfile' = [f \in ProfileFields |-> Current'[f]]
    BY <2>1 DEF SimProfile
  <2> QED BY <1>1, <2>2
<1> QED BY <1>2, <1>3

LEMMA SimInitInv == SimInit => QueriesHeld /\ CacheOK /\ answered \in Answered
<1> SUFFICES ASSUME SimInit PROVE QueriesHeld /\ CacheOK /\ answered \in Answered
  OBVIOUS
<1>1. answered \in Answered /\ overrides = NoOverrides
  BY DEF SimInit
<1>2. Current \in DOMAIN Offers
  BY <1>1, WhatIfAssumption DEF WhatIfAssumption, Current
<1>3. SimProfile = Current
  BY <1>1, NothingChanged
<1>4. ~SimActive
  BY <1>1 DEF SimActive
<1> DEFINE e == [Unasked EXCEPT !.asked = TRUE]
<1>5. EntryOK(e)
  BY DEF EntryOK, Unasked
<1>6. simCache = [k \in {CurrentKey} |-> e]
  BY DEF SimInit
<1> HIDE DEF e
<1>7. CurrentKey \in DOMAIN simCache /\ CacheOK
  BY <1>5, <1>6 DEF CacheOK
<1> QED BY <1>1, <1>2, <1>3, <1>4, <1>7 DEF QueriesHeld

LEMMA OverrideKeeps ==
    ASSUME QueriesHeld, CacheOK, answered \in Answered, NEW changed, Override(changed)
    PROVE  QueriesHeld' /\ CacheOK' /\ answered' \in Answered
<1>1. overrides' = changed /\ answered' = answered
  BY DEF Override
<1>2. Current' = Current /\ CurrentKey' = CurrentKey
  BY <1>1 DEF Current, CurrentKey
<1>3. CASE changed = NoOverrides
  <2>1. simCache' = simCache
    BY <1>3 DEF Override
  <2>2. SimProfile' = Current'
    BY <1>1, <1>3, NothingChanged
  <2>3. ~SimActive'
    BY <1>1, <1>3 DEF SimActive
  <2> QED BY <1>1, <1>2, <2>1, <2>2, <2>3 DEF QueriesHeld, CacheOK
<1>4. CASE changed # NoOverrides
  <2>1. OverrideKey'[2] \in DOMAIN Offers /\ Mount(OverrideKey')
    BY <1>4 DEF Override
  <2>2. OverrideKey'[2] = SimProfile'
    BY DEF OverrideKey
  <2>3. CacheOK' /\ DOMAIN simCache' = DOMAIN simCache \cup {OverrideKey'}
    BY <2>1, MountKeeps
  <2> QED BY <1>1, <1>2, <2>1, <2>2, <2>3 DEF QueriesHeld
<1> QED BY <1>3, <1>4

LEMMA SimNextInv ==
    QueriesHeld /\ CacheOK /\ answered \in Answered /\ [SimNext]_simVars => QueriesHeld' /\ CacheOK' /\ answered' \in Answered
<1> SUFFICES ASSUME QueriesHeld, CacheOK, answered \in Answered, [SimNext]_simVars
             PROVE  QueriesHeld' /\ CacheOK' /\ answered' \in Answered
  OBVIOUS
<1>1. ASSUME NEW c \in ConditionNames, ToggleSection(c) PROVE QueriesHeld' /\ CacheOK' /\ answered' \in Answered
  <2>1. answered' = answered /\ overrides' = overrides /\ simCache' = simCache
    BY <1>1 DEF ToggleSection
  <2> QED BY <2>1 DEF QueriesHeld, CacheOK, Current, CurrentKey, SimProfile, Changed, SimActive, OverrideKey
<1>2. ASSUME NEW c \in ConditionNames, NEW v \in Options[c], ChooseChip(c, v)
      PROVE  QueriesHeld' /\ CacheOK' /\ answered' \in Answered
  BY <1>2, OverrideKeeps DEF ChooseChip
<1>3. ASSUME NEW p \in Presets, ApplyScenario(p) PROVE QueriesHeld' /\ CacheOK' /\ answered' \in Answered
  BY <1>3, OverrideKeeps DEF ApplyScenario
<1>4. CASE ResetOverrides
  BY <1>4, OverrideKeeps DEF ResetOverrides
<1>5. ASSUME NEW a \in Answered, ReopenSimulator(a) PROVE QueriesHeld' /\ CacheOK' /\ answered' \in Answered
  <2>1. answered' = a /\ overrides' = NoOverrides /\ Mount(CurrentKey')
    BY <1>5 DEF ReopenSimulator
  <2>2. CacheOK' /\ CurrentKey' \in DOMAIN simCache'
    BY <2>1, MountKeeps
  <2>3. Current' \in DOMAIN Offers
    BY <2>1, WhatIfAssumption DEF WhatIfAssumption, Current
  <2>4. SimProfile' = Current'
    BY <2>1, NothingChanged
  <2>5. ~SimActive'
    BY <2>1 DEF SimActive
  <2> QED BY <2>1, <2>2, <2>3, <2>4, <2>5 DEF QueriesHeld
<1>6. ASSUME NEW k \in DOMAIN simCache, SimAnswers(k) PROVE QueriesHeld' /\ CacheOK' /\ answered' \in Answered
  <2> DEFINE e == [Unasked EXCEPT !.data = TRUE]
  <2>1. answered' = answered /\ overrides' = overrides /\ SetEntry(k, e)
    BY <1>6 DEF SimAnswers
  <2>2. EntryOK(e)
    BY DEF EntryOK, Unasked
  <2> HIDE DEF e
  <2>3. CacheOK' /\ DOMAIN simCache' = DOMAIN simCache \cup {k}
    BY <2>1, <2>2, SetEntryKeeps
  <2> QED BY <2>1, <2>3 DEF QueriesHeld, Current, CurrentKey, SimProfile, Changed, SimActive, OverrideKey
<1>7. ASSUME NEW k \in DOMAIN simCache, SimFails(k) PROVE QueriesHeld' /\ CacheOK' /\ answered' \in Answered
  <2> DEFINE e == [Entry(k) EXCEPT !.asked = FALSE, !.error = TRUE]
  <2>1. answered' = answered /\ overrides' = overrides /\ SetEntry(k, e)
    BY <1>7 DEF SimFails
  <2>2. EntryOK(e)
    BY EntryKnown DEF EntryOK
  <2> HIDE DEF e
  <2>3. CacheOK' /\ DOMAIN simCache' = DOMAIN simCache \cup {k}
    BY <2>1, <2>2, SetEntryKeeps
  <2> QED BY <2>1, <2>3 DEF QueriesHeld, Current, CurrentKey, SimProfile, Changed, SimActive, OverrideKey
<1>8. CASE UNCHANGED simVars
  BY <1>8 DEF simVars, QueriesHeld, CacheOK, Current, CurrentKey, SimProfile, Changed, SimActive, OverrideKey
<1> QED BY <1>1, <1>2, <1>3, <1>4, <1>5, <1>6, <1>7, <1>8 DEF SimNext

LEMMA SimInvariant == SimSpec => [](QueriesHeld /\ CacheOK)
<1> DEFINE Inv == QueriesHeld /\ CacheOK /\ answered \in Answered
<1>1. SimInit => Inv
  BY SimInitInv
<1>2. Inv /\ [SimNext]_simVars => Inv'
  BY SimNextInv
<1>3. Inv => QueriesHeld /\ CacheOK
  OBVIOUS
<1> HIDE DEF Inv
<1> QED BY <1>1, <1>2, <1>3, PTL DEF SimSpec

-----------------------------------------------------------------------------
(* The results                                                             *)

LEMMA MonthlyTotal ==
    ASSUME NEW L \in SUBSET DOMAIN MonthlyOf
    PROVE  Monthly(L) = Total(MonthlyOf, L)
<1> DEFINE H(f) == [s \in SUBSET L |-> IF s = {} THEN 0
                        ELSE MonthlyOf[CHOOSE x \in s : TRUE] + f[s \ {CHOOSE x \in s : TRUE}]]
           F == CHOOSE f : f = H(f)
<1>1. Monthly(L) = F[L]
  BY DEF Monthly, MapThenSumSet, MapThenFoldSet
<1>2. ASSUME NEW f PROVE H(f) = Unfolded(MonthlyOf, L, f)
  BY DEF Unfolded, Pick
<1>3. IsFiniteSet(L)
  BY FS_Subset, WhatIfAssumption DEF WhatIfAssumption
<1>4. F = H(F)
  <2> DEFINE G == Iter(MonthlyOf, L)
  <2>1. G = Unfolded(MonthlyOf, L, G)
    BY <1>3, IterExists
  <2>2. G = H(G)
    BY <1>2, <2>1
  <2> HIDE DEF G, H
  <2> QED BY <2>2
<1>5. F = Unfolded(MonthlyOf, L, F)
  BY <1>2, <1>4
<1> HIDE DEF F
<1> QED BY <1>1, <1>3, <1>5, TotalIs

\* What two sets share does not count in the difference of their amounts.
LEMMA DifferenceOfTheRest ==
    ASSUME NEW A \in SUBSET DOMAIN MonthlyOf, NEW B \in SUBSET DOMAIN MonthlyOf
    PROVE  Monthly(B) - Monthly(A) = Monthly(B \ A) - Monthly(A \ B)
<1>1. IsFiniteSet(DOMAIN MonthlyOf) /\ Weighs(MonthlyOf, DOMAIN MonthlyOf)
  BY WhatIfAssumption DEF WhatIfAssumption, Weighs
<1> DEFINE both == A \cap B  x == Monthly(B \ A)  y == Monthly(A \ B)  z == Monthly(both)
<1>2. both \in SUBSET DOMAIN MonthlyOf /\ B \ A \in SUBSET (DOMAIN MonthlyOf \ both)
      /\ A \ B \in SUBSET (DOMAIN MonthlyOf \ both)
  OBVIOUS
<1>3. both \cup (B \ A) = B /\ both \cup (A \ B) = A
  OBVIOUS
<1> HIDE DEF both
<1>4. Monthly(B) = z + x
  <2>1. Total(MonthlyOf, both \cup (B \ A)) = Total(MonthlyOf, both) + Total(MonthlyOf, B \ A)
    BY <1>1, <1>2, TotalOfUnion
  <2> QED BY <1>2, <1>3, <2>1, MonthlyTotal
<1>5. Monthly(A) = z + y
  <2>1. Total(MonthlyOf, both \cup (A \ B)) = Total(MonthlyOf, both) + Total(MonthlyOf, A \ B)
    BY <1>1, <1>2, TotalOfUnion
  <2> QED BY <1>2, <1>3, <2>1, MonthlyTotal
<1>6. x \in Nat /\ y \in Nat /\ z \in Nat
  BY <1>1, <1>2, MonthlyTotal, TotalType
<1> HIDE DEF x, y, z
<1>7. (z + x) - (z + y) = x - y
  BY <1>6
<1> QED BY <1>4, <1>5, <1>7 DEF x, y

\* The section of a category has a card for each of its programmes.
LEMMA CardsOfCategory ==
    ASSUME NEW c \in DOMAIN Classified
    PROVE  {card.program : card \in UNION {s.cards : s \in {r \in ResultSections : r.category = c}}} = Classified[c]
<1> DEFINE cards == UNION {s.cards : s \in {r \in ResultSections : r.category = c}}
           own == {ResultCard(i) : i \in Classified[c]}
<1>1. \A i : ResultCard(i).program = i
  BY DEF ResultCard
<1>2. \A r \in ResultSections : r.category = c => r.cards = own
  BY DEF ResultSections
<1>3. Classified[c] # {} => \E r \in ResultSections : r.category = c
  <2> SUFFICES ASSUME Classified[c] # {} PROVE \E r \in ResultSections : r.category = c
    OBVIOUS
  <2> DEFINE r == [category |-> c, count |-> Cardinality(Classified[c]), cards |-> own]
  <2>1. r \in ResultSections
    BY DEF ResultSections
  <2>2. r.category = c
    OBVIOUS
  <2> QED BY <2>1, <2>2
<1>4. cards = own
  <2>1. CASE Classified[c] = {}
    <3>1. own = {}
      BY <2>1
    <3> HIDE DEF own
    <3> QED BY <1>2, <3>1
  <2>2. CASE Classified[c] # {}
    <3> HIDE DEF own
    <3> QED BY <1>2, <1>3, <2>2
  <2> QED BY <2>1, <2>2
<1> HIDE DEF cards
<1>5. {card.program : card \in own} = Classified[c]
  BY <1>1
<1> QED BY <1>4, <1>5 DEF cards

\* The changed conditions are among the chips, and every entry of the cache is for a profile
\* that the server knows.
SimTyped ==
    /\ expanded \in ConditionNames \cup {Unset}
    /\ DOMAIN overrides = ConditionNames
    /\ \A c \in ConditionNames : overrides[c] \in Options[c] \cup {NoOverrides[c]}
    /\ DOMAIN simCache \subseteq SimKeys

LEMMA MountAdds == \A k : Mount(k) => DOMAIN simCache' \subseteq DOMAIN simCache \cup {k}
BY DEF Mount, SetEntry

LEMMA OverrideTypes ==
    ASSUME SimTyped, NEW changed, Override(changed), DOMAIN changed = ConditionNames,
           \A c \in ConditionNames : changed[c] \in Options[c] \cup {NoOverrides[c]}
    PROVE  SimTyped'
<1>1. overrides' = changed /\ expanded' = expanded
  BY DEF Override
<1>2. DOMAIN simCache' \subseteq SimKeys
  <2>1. CASE changed = NoOverrides
    BY <2>1 DEF Override, SimTyped
  <2>2. CASE changed # NoOverrides
    <3>1. OverrideKey'[2] \in DOMAIN Offers /\ Mount(OverrideKey')
      BY <2>2 DEF Override
    <3>2. OverrideKey' \in SimKeys
      BY <3>1 DEF OverrideKey, SimKeys
    <3> QED BY <3>1, <3>2, MountAdds DEF SimTyped
  <2> QED BY <2>1, <2>2
<1> QED BY <1>1, <1>2 DEF SimTyped

LEMMA NothingTyped ==
    DOMAIN NoOverrides = ConditionNames /\ \A c \in ConditionNames : NoOverrides[c] \in Options[c] \cup {NoOverrides[c]}
BY DEF NoOverrides

LEMMA SimTypedStep ==
    QueriesHeld /\ SimTyped /\ QueriesHeld' /\ [SimNext]_simVars => SimTyped'
<1> SUFFICES ASSUME QueriesHeld, SimTyped, QueriesHeld', [SimNext]_simVars PROVE SimTyped'
  OBVIOUS
<1>1. ASSUME NEW c \in ConditionNames, NEW v \in Options[c] \cup {NoOverrides[c]}
      PROVE  /\ DOMAIN [overrides EXCEPT ![c] = v] = ConditionNames
             /\ \A d \in ConditionNames : [overrides EXCEPT ![c] = v][d] \in Options[d] \cup {NoOverrides[d]}
  BY DEF SimTyped
<1>2. ASSUME NEW c \in ConditionNames, ToggleSection(c) PROVE SimTyped'
  BY <1>2 DEF ToggleSection, SimTyped
<1>3. ASSUME NEW c \in ConditionNames, NEW v \in Options[c], ChooseChip(c, v) PROVE SimTyped'
  <2> DEFINE w == IF c = "age" THEN v ELSE IF v \in {Current[c], "null"} THEN Unset ELSE v
  <2>1. w \in Options[c] \cup {NoOverrides[c]}
    BY DEF NoOverrides
  <2>2. Override([overrides EXCEPT ![c] = w])
    BY <1>3 DEF ChooseChip
  <2> HIDE DEF w
  <2> QED BY <1>1, <2>1, <2>2, OverrideTypes
<1>4. ASSUME NEW p \in Presets, ApplyScenario(p) PROVE SimTyped'
  <2>1. p[1] \in ConditionNames
    BY DEF Presets, ConditionNames
  <2>2. p[2] \in Options[p[1]] /\ Override([overrides EXCEPT ![p[1]] = p[2]])
    BY <1>4 DEF ApplyScenario
  <2> QED BY <1>1, <2>1, <2>2, OverrideTypes
<1>5. CASE ResetOverrides
  BY <1>5, NothingTyped, OverrideTypes DEF ResetOverrides
<1>6. ASSUME NEW a \in Answered, ReopenSimulator(a) PROVE SimTyped'
  <2>1. overrides' = NoOverrides /\ expanded' = "region" /\ Mount(CurrentKey')
    BY <1>6 DEF ReopenSimulator
  <2>2. CurrentKey' \in SimKeys
    BY DEF QueriesHeld, CurrentKey, SimKeys
  <2>3. DOMAIN simCache' \subseteq SimKeys
    BY <2>1, <2>2, MountAdds DEF SimTyped
  <2> QED BY <2>1, <2>3, NothingTyped DEF SimTyped, ConditionNames
<1>7. ASSUME NEW k \in DOMAIN simCache, SimAnswers(k) \/ SimFails(k) PROVE SimTyped'
  <2>1. UNCHANGED <<overrides, expanded>> /\ DOMAIN simCache' = DOMAIN simCache \cup {k}
    BY <1>7 DEF SimAnswers, SimFails, SetEntry
  <2> QED BY <2>1 DEF SimTyped
<1>8. CASE UNCHANGED simVars
  BY <1>8 DEF simVars, SimTyped
<1> QED BY <1>2, <1>3, <1>4, <1>5, <1>6, <1>7, <1>8 DEF SimNext

\* The simulator's conditions, its sections and its cache hold what their declarations allow.
THEOREM SimulatorIsTyped == SimSpec => []SimTypeOK
<1> DEFINE Inv == QueriesHeld /\ CacheOK /\ answered \in Answered
<1>1. SimInit => SimTyped
  <2> SUFFICES ASSUME SimInit PROVE SimTyped
    OBVIOUS
  <2>1. overrides = NoOverrides /\ expanded = "region" /\ DOMAIN simCache = {CurrentKey}
    BY DEF SimInit
  <2>2. CurrentKey \in SimKeys
    BY SimInitInv DEF QueriesHeld, CurrentKey, SimKeys
  <2> QED BY <2>1, <2>2, NothingTyped DEF SimTyped, ConditionNames
<1>2. Inv /\ SimTyped => SimTypeOK
  BY DEF SimTyped, SimTypeOK, CacheOK, EntryOK
<1>3. Inv /\ SimTyped /\ [SimNext]_simVars => Inv' /\ SimTyped'
  BY SimNextInv, SimTypedStep
<1> QED BY <1>1, <1>2, <1>3, SimInitInv, PTL DEF SimSpec

\* region-compare.tsx compares the two profiles that are on the screen, whatever was
\* asked, answered, refused and kept before; the year of birth it asks for is that of the age
\* on the screen, unless the onboarding has none and the screen says 24.
THEOREM ComparesThisProfile == SimSpec => []ResultsOfThisProfile
<1>1. QueriesHeld /\ CacheOK /\ SimTypeOK => ResultsOfThisProfile
  <2> SUFFICES ASSUME QueriesHeld, CacheOK, SimTypeOK, SimScreen = "results", ~Banner PROVE ResultsOfThisProfile
    BY DEF ResultsOfThisProfile
  <2>1. SimActive /\ ~Loading(CurrentKey) /\ ~Loading(OverrideKey)
    BY DEF SimScreen, SimLoading
  <2>2. ~Entry(CurrentKey).error /\ ~Entry(OverrideKey).error
    BY <2>1 DEF Banner
  <2>3. Entry(CurrentKey).data /\ Entry(OverrideKey).data
    <3>1. CurrentKey \in DOMAIN simCache /\ OverrideKey \in DOMAIN simCache
      BY <2>1 DEF QueriesHeld
    <3>2. \A k \in DOMAIN simCache : Entry(k).data \/ Entry(k).error \/ Entry(k).asked
      BY DEF CacheOK, EntryOK, Entry
    <3> QED BY <2>1, <2>2, <3>1, <3>2 DEF Loading
  <2>4. CurrentItems = Offers[Current] /\ SimItems = Offers[SimProfile]
    BY <2>1, <2>3 DEF CurrentItems, SimItems, Items, CurrentKey, OverrideKey
  <2> DEFINE shown(c) == IF SectionShows(c).to = {} THEN SectionShows(c).from
                         ELSE CHOOSE v \in SectionShows(c).to : TRUE
             birth == IF ShownAge = answered["age"] THEN Year - shown("age")
                      ELSE BirthYear(answered["age"]) - overrides["age"]
             conditions == [f \in ProfileFields |-> IF f = "birth" THEN birth ELSE shown(f)]
             cards(category) == {card.program : card \in
                 UNION {s.cards : s \in {r \in ResultSections : r.category = category}}}
             gained == Offers[conditions] \ Offers[Current]
             lost   == Offers[Current] \ Offers[conditions]
  <2>5. conditions = SimProfile
    <3>1. ASSUME NEW f \in ProfileFields, f # "birth"
          PROVE  shown(f) = IF Changed(f) THEN overrides[f] ELSE Current[f]
      <4>1. f # "age"
        BY DEF ProfileFields
      <4>2. SectionShows(f).to = (IF ~Changed(f) THEN {} ELSE {overrides[f]}) /\ SectionShows(f).from = Current[f]
        BY <4>1 DEF SectionShows
      <4> QED BY <4>2
    <3>2. shown("age") = IF Changed("age") THEN ShownAge + overrides["age"] ELSE ShownAge
      BY DEF SectionShows
    <3>3. birth = IF Changed("age") THEN Current["birth"] - overrides["age"] ELSE Current["birth"]
      <4>1. /\ answered["age"] \in Nat \cup {NoAge} /\ overrides["age"] \in Nat
            /\ (~Changed("age") => overrides["age"] = 0) /\ Year \in Nat
        BY WhatIfAssumption DEF WhatIfAssumption, SimTypeOK, ConditionNames, NoOverrides, Changed
      <4>2. Current["birth"] = BirthYear(answered["age"])
        BY DEF Current, CurrentProfile, ProfileFields
      <4>3. ShownAge = answered["age"] => BirthYear(answered["age"]) = Year - answered["age"]
        BY <4>1 DEF ShownAge, BirthYear, NoAge
      <4>4. BirthYear(answered["age"]) \in Int
        BY <4>1 DEF BirthYear, NoAge
      <4>5. CASE ShownAge = answered["age"]
        <5>1. birth = Year - shown("age") /\ answered["age"] \in Int
          BY <4>1, <4>5 DEF NoAge
        <5> HIDE DEF shown, birth
        <5> QED BY <3>2, <4>1, <4>2, <4>3, <4>5, <5>1
      <4>6. CASE ShownAge # answered["age"]
        <5>1. birth = BirthYear(answered["age"]) - overrides["age"]
          BY <4>6
        <5> HIDE DEF birth
        <5> QED BY <4>1, <4>2, <4>4, <5>1
      <4> QED BY <4>5, <4>6
    <3> HIDE DEF shown, birth
    <3> QED BY <3>1, <3>3 DEF SimProfile
  <2>6. Classified = [lose |-> Offers[Current] \ Offers[SimProfile], gain |-> Offers[SimProfile] \ Offers[Current],
                      keep |-> Offers[Current] \cap Offers[SimProfile]]
    BY <2>1, <2>4 DEF Classified
  <2>7. cards("gain") = gained /\ cards("lose") = lost
    <3>1. "gain" \in DOMAIN Classified /\ "lose" \in DOMAIN Classified
      BY <2>6
    <3>2. cards("gain") = Classified["gain"] /\ cards("lose") = Classified["lose"]
      BY <3>1, CardsOfCategory
    <3> HIDE DEF cards, conditions, birth, shown
    <3> QED BY <2>5, <2>6, <3>2
  <2>8. MonthlyDifference = Monthly(gained) - Monthly(lost)
    <3>1. Offers[Current] \in SUBSET DOMAIN MonthlyOf /\ Offers[SimProfile] \in SUBSET DOMAIN MonthlyOf
      BY WhatIfAssumption DEF WhatIfAssumption, QueriesHeld
    <3>2. MonthlyDifference = Monthly(Offers[SimProfile]) - Monthly(Offers[Current])
      BY <2>4 DEF MonthlyDifference
    <3> HIDE DEF conditions, birth, shown
    <3> QED BY <2>5, <3>1, <3>2, DifferenceOfTheRest
  <2> QED BY <2>7, <2>8 DEF ResultsOfThisProfile
<1> QED BY <1>1, SimInvariant, SimulatorIsTyped, PTL

-----------------------------------------------------------------------------
(* The screens together                                                    *)

\* A behaviour of all the screens is one of each: a step of one leaves the others alone.
LEMMA ScreensAreParts ==
    ScreensSpec => /\ AppSpec /\ CheckSpec /\ BookmarkSpec /\ StackSpec /\ SimSpec
                   /\ FillSpec /\ ExploreSpec /\ HomeSpec /\ PreviewSpec
<1>1. ScreensInit => /\ AppInit /\ CheckInit /\ BookmarkInit /\ StackInit /\ SimInit
                     /\ FillInit /\ ExploreInit /\ HomeInit /\ PreviewInit
  BY DEF ScreensInit
<1>2. [ScreensNext]_<<appVars, checkVars, bookmarkVars, stackVars, simVars, fillVars,
                      exploreVars, homeVars, previewVars, focus>>
      => /\ [AppNext]_appVars /\ [CheckNext]_checkVars /\ [BookmarkNext]_bookmarkVars
         /\ [StackNext]_stackVars /\ [SimNext]_simVars /\ [FillNext]_fillVars
         /\ [ExploreNext]_exploreVars /\ [HomeNext]_homeVars /\ [PreviewNext]_previewVars
  BY DEF ScreensNext
<1> QED BY <1>1, <1>2, PTL DEF ScreensSpec, AppSpec, CheckSpec, BookmarkSpec, StackSpec, SimSpec,
                               FillSpec, ExploreSpec, HomeSpec, PreviewSpec

\* The type of the screen in focus, whichever it is, in every state.
THEOREM ScreensAreTyped == ScreensSpec => []ScreensTypeOK
<1> DEFINE Focuses == {"application", "check", "bookmark", "stack", "what-if", "fill", "explore", "home",
                       "preview"}
           Typed == /\ AppTypeOK /\ CheckTypeOK /\ BookmarkTypeOK /\ StackTypeOK /\ SimTypeOK
                    /\ FillTypeOK /\ ExploreTypeOK /\ HomeTypeOK /\ PreviewTypeOK
           HasFocus == focus \in Focuses
<1>1. HasFocus /\ Typed => ScreensTypeOK
  <2> SUFFICES ASSUME focus \in Focuses, Typed PROVE ScreensTypeOK
    OBVIOUS
  <2>1. CASE focus = "application"
    BY <2>1, Zenon DEF ScreensTypeOK
  <2>2. CASE focus = "check"
    BY <2>2, Zenon DEF ScreensTypeOK
  <2>3. CASE focus = "bookmark"
    BY <2>3, Zenon DEF ScreensTypeOK
  <2>4. CASE focus = "stack"
    BY <2>4, Zenon DEF ScreensTypeOK
  <2>5. CASE focus = "what-if"
    BY <2>5, Zenon DEF ScreensTypeOK
  <2>6. CASE focus = "fill"
    BY <2>6, Zenon DEF ScreensTypeOK
  <2>7. CASE focus = "explore"
    BY <2>7, Zenon DEF ScreensTypeOK
  <2>8. CASE focus = "home"
    BY <2>8, Zenon DEF ScreensTypeOK
  <2>9. CASE focus = "preview"
    BY <2>9, Zenon DEF ScreensTypeOK
  <2> QED BY <2>1, <2>2, <2>3, <2>4, <2>5, <2>6, <2>7, <2>8, <2>9
<1>2. ScreensInit => HasFocus
  BY DEF ScreensInit
<1>3. HasFocus /\ [ScreensNext]_<<appVars, checkVars, bookmarkVars, stackVars, simVars, fillVars,
                                  exploreVars, homeVars, previewVars, focus>> => HasFocus'
  BY DEF ScreensNext
<1> HIDE DEF HasFocus
<1> QED BY <1>1, <1>2, <1>3, ScreensAreParts, StatusIsTyped, CheckIsTyped, BookmarkIsTyped, StackIsTyped,
           SimulatorIsTyped, FillingIsTyped, FiltersAreTyped, HomeIsTyped, PreviewIsTyped, PTL
        DEF ScreensSpec

\* What is proved of each screen by itself holds of them together, as the run checks it.
THEOREM ScreensKeepTheirPromises ==
    ScreensSpec => /\ [](/\ FreshStatusIsServers /\ AppliesAfterVisit /\ EveryToggleCounts /\ IconIsRow
                         /\ TotalIsReceivable /\ ResultsOfThisProfile /\ MarksHaveTheirTimer
                         /\ FilterFindsWhoQualifies /\ CardsMatchAnswers /\ SavedPreviewIsMarked)
                   /\ ReadyNeverWorsens /\ EditsKept
<1> QED BY ScreensAreParts, StatusIsServers, AppliedAfterVisit, TogglesCount, IconShowsRow,
           TotalCanBeReceived, ComparesThisProfile, CopiedMarksGoAway, ListIsWhoQualifies,
           HomeShowsAnswers, SavedIsMarked, ReadyHelps, EditsStay, PTL
=============================================================================
