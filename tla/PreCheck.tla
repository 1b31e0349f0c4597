------------------------------ MODULE PreCheck ------------------------------
(***************************************************************************)
(* What the two screens of a programme keep for themselves: the detail     *)
(* screen's tabs, document checklist and pre-check (programs/[id].tsx),    *)
(* and the assistant's own document checklist and profile form             *)
(* (apply-assistant.tsx).  Both checklists look at the document vault, the *)
(* first once and by position, the second by type; neither is stored.      *)
(***************************************************************************)
EXTENDS Programme

CONSTANT PressedTabs   \* bound: the tabs the user presses

VARIABLES
    subject,   \* the programme, the user and the vault
    sheet,     \* the detail screen: tab, cards, ticked documents, vault read, match score
    form       \* the assistant: open, ticked documents, whose profile the form holds

checkVars == <<subject, sheet, form>>

Tabs == {"support", "criteria", "how_to", "documents"}
SheetCards == {"precheck", "summary"}

ASSUME CheckAssumption == PressedTabs \subseteq Tabs

NewSheet == [tab |-> "support", folded |-> {}, ticked |-> {}, vaultRead |-> FALSE, scored |-> FALSE]
ClosedForm == [open |-> FALSE, ticked |-> {}, filled |-> None, arrived |-> FALSE]

Flip(d, set) == IF d \in set THEN set \ {d} ELSE set \cup {d}

\* The pre-check: the verdict, the documents (with a badge for those of the vault) and the
\* time left; the match score or that it is on its way
SheetShows ==
    [verdict  |-> Verdict(subject.programme, subject.user, sheet.ticked),
     ready    |-> Cardinality(sheet.ticked),
     badges   |-> IF sheet.vaultRead THEN VaultTicks(subject.vault) ELSE {},
     deadline |-> DeadlineShows(subject.programme, sheet.ticked),
     allReady |-> sheet.ticked = Documents]

\* The rest of the page: the table of the programme, the guide, and the chosen tab
DetailPage ==
    [regions |-> ShownRegions(subject.programme),
     guide   |-> GuideCard(subject.programme),
     content |-> TabContent(subject.programme, sheet.tab)]

SheetOffers ==
    {"tab", "fold"} \cup (IF "precheck" \in sheet.folded /\ sheet.tab # "documents" THEN {} ELSE {"tick"})

\* A document shows as ready when it is ticked or in the vault; the tick of one that is
\* in the vault shows nowhere but in the count below the list.
Ready(d) == d \in form.ticked \/ InVault(d, subject.vault)
FormShows ==
    [step1       |-> EligibilityStep(subject.programme),
     ready       |-> {d \in Documents : Ready(d)},
     counted     |-> Cardinality(form.ticked),
     links       |-> {d \in IssuedOnline : ~Ready(d)}]

\* buildProfile: the server's fields go before the onboarding's.
BuildProfile(cached) == IF cached THEN "server" ELSE "local"

CheckTypeOK ==
    /\ subject \in [programme: Programmes, user: Applicants, vault: VaultContents]
    /\ sheet \in [tab: Tabs, folded: SUBSET SheetCards, ticked: SUBSET Documents,
                  vaultRead: BOOLEAN, scored: BOOLEAN]
    /\ form \in [open: BOOLEAN, ticked: SUBSET Documents, filled: {None, "local", "server", "edited"},
                 arrived: BOOLEAN]
    /\ SheetShows.verdict \in 0..2 /\ SheetShows.badges \subseteq Documents
    /\ FormShows.step1.probability \in 50..98 /\ FormShows.links \cap FormShows.ready = {}
    /\ "checklist" \in DetailPage.content => "tick" \in SheetOffers
    /\ Cardinality(DetailPage.guide.sections \ DetailPage.guide.lines) <= 1

CheckInit ==
    /\ subject \in [programme: Programmes, user: Applicants, vault: VaultContents]
    /\ sheet = NewSheet /\ form = ClosedForm

\* The vault's list is read once, at some time; it only ticks.
VaultRead ==
    /\ ~sheet.vaultRead
    /\ sheet' = [sheet EXCEPT !.vaultRead = TRUE, !.ticked = @ \cup VaultTicks(subject.vault)]
    /\ UNCHANGED <<subject, form>>

\* The match score comes with the recommendations for the onboarding answers; without an
\* age they are not asked for.
ScoreArrives ==
    /\ ~sheet.scored /\ subject.user.age # 0
    /\ sheet' = [sheet EXCEPT !.scored = TRUE]
    /\ UNCHANGED <<subject, form>>

HandleDocToggle(d) ==
    /\ ~form.open /\ "tick" \in SheetOffers
    /\ sheet' = [sheet EXCEPT !.ticked = Flip(d, @)]
    /\ UNCHANGED <<subject, form>>

SetActiveTab(t) ==
    /\ ~form.open /\ sheet' = [sheet EXCEPT !.tab = t]
    /\ UNCHANGED <<subject, form>>

ToggleCard(c) ==
    /\ ~form.open /\ sheet' = [sheet EXCEPT !.folded = Flip(c, @)]
    /\ UNCHANGED <<subject, form>>

\* A new visit of the screen.
ReopenSheet == ~form.open /\ sheet' = NewSheet /\ UNCHANGED <<subject, form>>

\* The form starts with the onboarding answers, or with the server's profile when it is
\* cached already.
OpenForm ==
    /\ ~form.open /\ subject.user.signedIn
    /\ \E cached \in BOOLEAN :
          form' = [ClosedForm EXCEPT !.open = TRUE, !.arrived = cached,
                                     !.filled = BuildProfile(cached)]
    /\ UNCHANGED <<subject, sheet>>

\* Mutant: the form takes over the profile whenever it arrives.
ProfileTakesOver ==
    /\ form.open /\ ~form.arrived
    /\ form' = [form EXCEPT !.arrived = TRUE, !.filled = "server"]
    /\ UNCHANGED <<subject, sheet>>

\* The profile arrives; the form has been filled by the first rendering and stays.
ProfileArrives ==
    /\ form.open /\ ~form.arrived
    /\ form' = [form EXCEPT !.arrived = TRUE]
    /\ UNCHANGED <<subject, sheet>>

ToggleDoc(d) ==
    /\ form.open
    /\ form' = [form EXCEPT !.ticked = Flip(d, @)]
    /\ UNCHANGED <<subject, sheet>>

HandleProfileChange ==
    /\ form.open
    /\ form' = [form EXCEPT !.filled = "edited"]
    /\ UNCHANGED <<subject, sheet>>

CloseForm == form.open /\ form' = ClosedForm /\ UNCHANGED <<subject, sheet>>

CheckNext ==
    \/ VaultRead \/ ScoreArrives \/ ReopenSheet
    \/ \E d \in Documents : HandleDocToggle(d) \/ ToggleDoc(d)
    \/ \E t \in PressedTabs : SetActiveTab(t)
    \/ \E c \in SheetCards : ToggleCard(c)
    \/ OpenForm \/ ProfileArrives \/ HandleProfileChange \/ CloseForm

CheckSpec == CheckInit /\ [][CheckNext]_checkVars

-----------------------------------------------------------------------------
(* Properties                                                              *)

\* PreCheckCard: getting documents ready - by hand or from the vault - never worsens the
\* verdict, with the time left to the deadline judged by what is still missing.
ReadyNeverWorsens ==
    [][sheet' # sheet /\ sheet.ticked \subseteq sheet'.ticked => SheetShows.verdict <= SheetShows'.verdict]_checkVars

\* The edits of the profile form are the user's: neither the profile that arrives late nor
\* a step of another part puts anything else in their place while the form is open.
EditsKept == [][form.open /\ form.filled = "edited" /\ form'.open => form'.filled = "edited"]_checkVars
=============================================================================
