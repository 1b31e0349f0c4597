---------------------------- MODULE Applications ----------------------------
(***************************************************************************)
(* One programme in the mobile client: its detail screen                   *)
(* (programs/[id].tsx) with the application status, the assistant that     *)
(* leads to the application site (apply-assistant.tsx), the link both open *)
(* (openExternalUrl.ts), and the server's row (state.rs).  What the        *)
(* screens keep of the documents and the profile is in PreCheck, the       *)
(* bookmark in Bookmarks.                                                  *)
(*                                                                         *)
(* Updates of the status are sent without waiting by either screen; an     *)
(* update that succeeds invalidates the query that shows the status.  A    *)
(* query that has data gives up its read for a new one; without data it    *)
(* waits for the read under way, however old (react-query 5).  The server  *)
(* writes the row and its history by two statements.                       *)
(***************************************************************************)
EXTENDS Programme

CONSTANTS
    PressedSteps,  \* bound: the tracker's steps the user presses
    MaxUpdates     \* bound: status updates sent

StatusSteps == <<"interested", "planning", "applying", "applied", "waiting", "received">>
Statuses == {StatusSteps[n] : n \in DOMAIN StatusSteps}

ASSUME ApplicationAssumption == PressedSteps \subseteq Statuses /\ MaxUpdates \in Nat

VARIABLES
    visit,     \* the programme and the user
    appServer, \* the status in the row of user_program_states
    query,     \* the cached status: its data, whether it is fresh, the read under way
    updates,   \* the updates on their way: how far each is, and whether its screen is open
    detail,    \* the detail screen
    wizard,    \* the application assistant on top of it
    appLog     \* history: updates sent; whether a call failed or an invalidation missed a read

appVars == <<visit, appServer, query, updates, detail, wizard, appLog>>

QuickAction(status) ==
    CASE status \in {None, "interested"} -> "planning"
      [] status = "planning" -> "applying"
      [] status = "applying" -> "applied"
      [] status = "applied"  -> "waiting"
      [] status = "waiting"  -> "received"
      [] OTHER               -> None

-----------------------------------------------------------------------------
(* The state                                                               *)

OpenSteps == {"no", "dialog", "asked"}    \* the dialog names the site; the system is asked
UpdateSteps == {"sent", "stored", "logged"}
Updates == [no: 1..MaxUpdates, to: Statuses, at: UpdateSteps, by: {"detail", "wizard"}, open: BOOLEAN]

ClosedDetail == [phase |-> "closed", opening |-> "no"]
ClosedWizard == [step |-> 0, opening |-> "no", opened |-> FALSE, visited |-> FALSE]

AppTypeOK ==
    /\ visit \in [programme: Programmes, user: Applicants]
    /\ appServer \in Statuses \cup {None}
    /\ query \in [data: Statuses \cup {None}, fresh: BOOLEAN, fetch: {"no", "asked", "read"},
                  answer: Statuses \cup {None}]
    /\ updates \subseteq Updates
    /\ detail \in [phase: {"closed", "loading", "error", "shown"}, opening: OpenSteps \cup {"alert"}]
    /\ wizard \in [step: 0..5, opening: OpenSteps, opened: BOOLEAN, visited: BOOLEAN]
    /\ appLog \in [sent: 0..MaxUpdates, disturbed: BOOLEAN]

AppInit ==
    /\ visit \in [programme: Programmes, user: Applicants]
    /\ appServer \in PressedSteps \cup {None}
    /\ query = [data |-> None, fresh |-> FALSE, fetch |-> "no", answer |-> None]
    /\ updates = {} /\ detail = ClosedDetail /\ wizard = ClosedWizard
    /\ appLog = [sent |-> 0, disturbed |-> FALSE]

Updating == \E u \in updates : u.by = "detail" /\ u.open

\* Neither control of the status works while an update of the screen is on its way.
StatusTracker     == IF Updating THEN {} ELSE {"step"}
QuickActionButton == IF Updating \/ QuickAction(query.data) = None THEN {} ELSE {"quick"}

\* What the detail screen offers: the status, the link and the assistant
DetailOffers ==
    CASE detail.phase \in {"closed", "loading"} -> {}
      [] detail.phase = "error" -> {"back"}
      [] detail.phase = "shown" /\ detail.opening \in {"dialog", "alert"} -> {"answer"}
      [] OTHER -> {"back", "apply"} \cup StatusTracker \cup QuickActionButton
                  \cup (IF ApplyUrl(visit.programme) = None THEN {} ELSE {"link"})

OnDetail(control) == wizard.step = 0 /\ control \in DetailOffers

\* Step4: the user can go on once the site was opened from it.
LaunchPanel ==
    {"back"} \cup (IF ApplyUrl(visit.programme) = None THEN {} ELSE {"link"})
             \cup (IF wizard.opened THEN {"done"} ELSE {})

\* The steps of the assistant; the last one has no way back.
StepOffers ==
    CASE wizard.step = 0 -> {}
      [] wizard.step \in 1..3 -> {"next", "back"}
      [] wizard.step = 4 -> LaunchPanel
      [] wizard.step = 5 -> {"home"}

\* Mutant: there is always a next step.
WizardOffersNext ==
    IF wizard.opening = "dialog" THEN {"answer"}
    ELSE StepOffers \cup (IF wizard.step = 0 THEN {} ELSE {"next"})

\* The dialog that names the site covers the step it was opened from.
WizardOffers == IF wizard.opening = "dialog" THEN {"answer"} ELSE StepOffers

-----------------------------------------------------------------------------
(* The status query                                                        *)

\* Mutant: a read under way will do.
RefetchUnlessReading ==
    query' = IF query.fetch # "no" THEN query ELSE [query EXCEPT !.fetch = "asked", !.answer = None]

\* A query that has no data yet joins the read under way; otherwise another one is started.
Refetch ==
    query' = IF query.data = None /\ query.fetch # "no" THEN query
             ELSE [query EXCEPT !.fetch = "asked", !.answer = None]

ServeStatus ==
    /\ query.fetch = "asked"
    /\ query' = [query EXCEPT !.fetch = "read", !.answer = appServer]
    /\ UNCHANGED <<visit, appServer, updates, detail, wizard, appLog>>

\* "Not found" is an error to the client: the data stay.
StatusArrives ==
    /\ query.fetch = "read"
    /\ query' = IF query.answer = None \/ ~visit.user.signedIn
                THEN [query EXCEPT !.fetch = "no", !.answer = None]
                ELSE [data |-> query.answer, fresh |-> TRUE, fetch |-> "no", answer |-> None]
    /\ UNCHANGED <<visit, appServer, updates, detail, wizard, appLog>>

StatusLost ==
    /\ query.fetch # "no"
    /\ query' = [query EXCEPT !.fetch = "no", !.answer = None]
    /\ appLog' = [appLog EXCEPT !.disturbed = TRUE]
    /\ UNCHANGED <<visit, appServer, updates, detail, wizard>>

\* Two minutes pass.
StatusAges ==
    /\ query.fresh /\ query' = [query EXCEPT !.fresh = FALSE]
    /\ UNCHANGED <<visit, appServer, updates, detail, wizard, appLog>>

-----------------------------------------------------------------------------
(* Updating the status                                                     *)

SendUpdate(status, screen) ==
    /\ appLog.sent < MaxUpdates
    /\ appLog' = [appLog EXCEPT !.sent = @ + 1]
    /\ updates' = updates \cup {[no |-> appLog.sent + 1, to |-> status, at |-> "sent",
                                 by |-> screen, open |-> TRUE]}

Reaches(u, step) == updates' = (updates \ {u}) \cup {[u EXCEPT !.at = step]}
Ends(u) == updates' = updates \ {u}

\* update_application: the row is upserted, ...
StoreUpdate(u) ==
    /\ u.at = "sent" /\ visit.user.signedIn
    /\ appServer' = u.to
    /\ Reaches(u, "stored")
    /\ UNCHANGED <<visit, query, detail, wizard, appLog>>

\* ... then the history row is inserted, and only then the request answered.
LogUpdate(u) ==
    /\ u.at = "stored"
    /\ Reaches(u, "logged")
    /\ UNCHANGED <<visit, appServer, query, detail, wizard, appLog>>

\* History: a read that the server has answered already, and that no invalidation gives up
MissesRead == query.fetch = "read" /\ (query.data = None \/ detail.phase = "closed")

\* onSuccess invalidates the query: with the screen open it is read again, otherwise it is
\* only marked, and a read under way ends as if nothing had happened.
UpdateSucceeds(u) ==
    /\ u.at = "logged"
    /\ Ends(u)
    /\ IF detail.phase # "closed" THEN Refetch ELSE query' = [query EXCEPT !.fresh = FALSE]
    /\ appLog' = [appLog EXCEPT !.disturbed = @ \/ MissesRead]
    /\ UNCHANGED <<visit, appServer, detail, wizard>>

\* The request or its answer is lost, a statement fails, or there is no session: nobody
\* is told.
UpdateFails(u) ==
    /\ Ends(u)
    /\ appLog' = [appLog EXCEPT !.disturbed = TRUE]
    /\ UNCHANGED <<visit, appServer, query, detail, wizard>>

-----------------------------------------------------------------------------
(* The detail screen                                                       *)

OpenDetail ==
    /\ detail.phase = "closed"
    /\ detail' = [ClosedDetail EXCEPT !.phase = "loading"]
    /\ IF query.fresh \/ query.fetch # "no" THEN UNCHANGED query ELSE Refetch
    /\ UNCHANGED <<visit, appServer, updates, wizard, appLog>>

\* getProgram answers, or fails twice.
ProgramArrives ==
    /\ detail.phase = "loading"
    /\ \E p \in {"shown", "error"} : detail' = [detail EXCEPT !.phase = p]
    /\ UNCHANGED <<visit, appServer, query, updates, wizard, appLog>>

HandleStepPress(status) ==
    /\ OnDetail("step") /\ status # query.data
    /\ SendUpdate(status, "detail")
    /\ UNCHANGED <<visit, appServer, query, detail, wizard>>

HandleQuickAction ==
    /\ OnDetail("quick")
    /\ SendUpdate(QuickAction(query.data), "detail")
    /\ UNCHANGED <<visit, appServer, query, detail, wizard>>

HandleViewDetail ==
    /\ OnDetail("link")
    /\ detail' = IF ApplyUrl(visit.programme) = "malformed" THEN [detail EXCEPT !.opening = "alert"]
                 ELSE [detail EXCEPT !.opening = "dialog"]
    /\ UNCHANGED <<visit, appServer, query, updates, wizard, appLog>>

\* The dialogs: the login's or an error's is closed, or the site's is confirmed.
AnswerDetailDialog ==
    /\ wizard.step = 0 /\ "answer" \in DetailOffers
    /\ \E o \in {"no", "asked"} :
          /\ o = "asked" => detail.opening = "dialog"
          /\ detail' = [detail EXCEPT !.opening = o]
    /\ UNCHANGED <<visit, appServer, query, updates, wizard, appLog>>

\* canOpenURL and openURL: the browser has it, or an alert says why not.
DetailLinkOpens ==
    /\ detail.opening = "asked"
    /\ \E o \in {"no", "alert"} : detail' = [detail EXCEPT !.opening = o]
    /\ UNCHANGED <<visit, appServer, query, updates, wizard, appLog>>

\* Leaving the screen: its updates and reads go on without it.
CloseDetail ==
    /\ OnDetail("back")
    /\ detail' = ClosedDetail
    /\ updates' = {[u EXCEPT !.open = @ /\ u.by # "detail"] : u \in updates}
    /\ UNCHANGED <<visit, appServer, query, wizard, appLog>>

\* The button for the automatic form (AutoFill) asks for a session in the same way.
HandleApply ==
    /\ OnDetail("apply")
    /\ IF visit.user.signedIn
       THEN wizard' = [ClosedWizard EXCEPT !.step = 1] /\ UNCHANGED detail
       ELSE detail' = [detail EXCEPT !.opening = "alert"] /\ UNCHANGED wizard
    /\ UNCHANGED <<visit, appServer, query, updates, appLog>>

-----------------------------------------------------------------------------
(* The assistant                                                           *)

\* The launch panel keeps for itself that it opened the site, and forgets it when left.
MoveTo(step) == wizard' = [wizard EXCEPT !.step = step, !.opened = FALSE]

HandleNext ==
    /\ "next" \in WizardOffers /\ MoveTo(wizard.step + 1)
    /\ UNCHANGED <<visit, appServer, query, updates, detail, appLog>>

HandleBack ==
    /\ "back" \in WizardOffers
    /\ IF wizard.step > 1 THEN MoveTo(wizard.step - 1) ELSE wizard' = ClosedWizard
    /\ UNCHANGED <<visit, appServer, query, updates, detail, appLog>>

\* A link without a host only shows a toast.
HandleOpenSite ==
    /\ "link" \in WizardOffers
    /\ ApplyUrl(visit.programme) # "malformed"
    /\ wizard' = [wizard EXCEPT !.opening = "dialog"]
    /\ UNCHANGED <<visit, appServer, query, updates, detail, appLog>>

\* Mutant: the site counts as opened when the dialog is confirmed.
AnswerSiteDialogAtOnce ==
    /\ "answer" \in WizardOffers
    /\ \E o \in {"no", "asked"} : wizard' = [wizard EXCEPT !.opening = o, !.opened = @ \/ o = "asked"]
    /\ UNCHANGED <<visit, appServer, query, updates, detail, appLog>>

AnswerSiteDialog ==
    /\ "answer" \in WizardOffers
    /\ \E o \in {"no", "asked"} : wizard' = [wizard EXCEPT !.opening = o]
    /\ UNCHANGED <<visit, appServer, query, updates, detail, appLog>>

\* The site opens at some time; a launch panel that was left meanwhile does not hear of it.
SiteOpens ==
    /\ wizard.opening = "asked"
    /\ \/ wizard' = [wizard EXCEPT !.opening = "no", !.visited = TRUE, !.opened = @ \/ wizard.step = 4]
       \/ wizard' = [wizard EXCEPT !.opening = "no"]
    /\ UNCHANGED <<visit, appServer, query, updates, detail, appLog>>

\* The last step is shown while the update is on its way.
HandleFillDone ==
    /\ "done" \in WizardOffers
    /\ SendUpdate("applying", "wizard") /\ MoveTo(5)
    /\ UNCHANGED <<visit, appServer, query, detail>>

\* The tabs replace the assistant; the detail screen stays below them or not.
HandleHome ==
    /\ "home" \in WizardOffers
    /\ wizard' = ClosedWizard
    /\ detail' \in {detail, ClosedDetail}
    /\ updates' = {[u EXCEPT !.open = @ /\ (detail' = detail \/ u.by # "detail")] : u \in updates}
    /\ UNCHANGED <<visit, appServer, query, appLog>>

-----------------------------------------------------------------------------

AppNext ==
    \/ ServeStatus \/ StatusArrives \/ StatusLost \/ StatusAges
    \/ \E u \in updates : StoreUpdate(u) \/ LogUpdate(u) \/ UpdateSucceeds(u) \/ UpdateFails(u)
    \/ OpenDetail \/ ProgramArrives \/ CloseDetail
    \/ \E s \in PressedSteps : HandleStepPress(s)
    \/ HandleQuickAction \/ HandleViewDetail
    \/ AnswerDetailDialog \/ DetailLinkOpens \/ HandleApply
    \/ HandleNext \/ HandleBack
    \/ HandleOpenSite \/ AnswerSiteDialog \/ SiteOpens \/ HandleFillDone \/ HandleHome

AppSpec == AppInit /\ [][AppNext]_appVars

-----------------------------------------------------------------------------
(* Properties                                                              *)

\* invalidateQueries (programs/[id].tsx, apply-assistant.tsx): once no update is on its way
\* and no read either, a fresh status on the open screen is the server's - whichever
\* screens sent the updates, and in whatever order the server took them.  (Unless a call
\* failed, or an update was answered while a first read, or one whose screen was closed,
\* carried the status of before: nothing reads it again then.)
FreshStatusIsServers ==
    detail.phase # "closed" /\ query.fresh /\ query.fetch = "no" /\ ~appLog.disturbed /\ updates = {}
    => query.data = appServer

\* Step4 of apply-assistant.tsx: "applying" is sent by the assistant, and its last step
\* shown, only after the site was opened in this visit - also when the user leaves the
\* panel and comes back while the browser is starting.
AppliesAfterVisit == wizard.step = 5 \/ wizard.opened => wizard.visited
=============================================================================
