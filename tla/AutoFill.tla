------------------------------- MODULE AutoFill -------------------------------
(***************************************************************************)
(* The screen that prepares an application form (auto-fill.tsx): the       *)
(* merged profile as fields to copy, and the application site in a web     *)
(* view with a script that fills its form.  The documents it can share are *)
(* in Vault.                                                               *)
(*                                                                         *)
(* Copies, marks that go away by a timer, the toasts' animations and the   *)
(* page's messages run on their own.  A toast fades in, waits and fades    *)
(* out.  Only a fade is stopped by the next one: an animation that waits   *)
(* goes on beside a newer one, and its end hides whatever message is there *)
(* by then, the newer one's too.  The screen calls a hook only when        *)
(* there is a session: a session that begins or ends while it is on the    *)
(* stack breaks the rendering.                                             *)
(*                                                                         *)
(* Abstracted: a field is known by where its value comes from.             *)
(***************************************************************************)
EXTENDS Integers, Sequences, FiniteSets

CONSTANTS
    LocalFields, ServerFields,   \* the fields the onboarding and the server's profile have
    PageFields,                  \* the fields of the form the script finds on the site
    MaxCopies,                   \* bound: copies made
    MaxWaiting                   \* bound: animations of toasts that wait at once

Fields == {"name", "birthYear", "region", "contact", "schoolName", "schoolYear",
           "enrollmentStatus", "incomeBracket", "householdSize"}
Shown  == Fields \ {"incomeBracket", "householdSize"}     \* the rows of the first card
CopyCards == [basic    |-> {"name", "birthYear", "contact", "region"},
              academic |-> {"schoolName", "schoolYear", "enrollmentStatus"},
              income   |-> {"incomeBracket", "householdSize"}]

ASSUME AutoFillAssumption ==
    /\ ServerFields \subseteq Fields \ {"name", "contact"} /\ PageFields \subseteq Fields
    /\ LocalFields \subseteq {"birthYear", "region", "schoolName", "enrollmentStatus", "incomeBracket"}
    /\ MaxCopies \in Nat /\ MaxWaiting \in Nat

VARIABLES
    fillScreen,  \* session, programme, profile, web view, crash
    copies,      \* clipboard writes under way, in order
    clipboard,   \* the fields and sources of the text last copied
    marked,      \* for the rows and for the cards: what shows as copied, by which copy
    timers,      \* for each of them: the timers that run, by the copy that started them
    fillToast,   \* the message, the fade that runs, and how many animations wait
    injected,    \* scripts that run in the page
    copyCount

fillVars == <<fillScreen, copies, clipboard, marked, timers, fillToast, injected, copyCount>>

\* mergeProfile: the server's value of a field, else the onboarding's; a name and a
\* telephone number are kept nowhere.
Source(f) ==
    IF fillScreen.profile /\ f \in ServerFields THEN "server"
    ELSE IF f \in LocalFields THEN "local" ELSE ""

\* A text that is copied: its fields that have a value, and where from.
Text(fields) == {<<f, Source(f)>> : f \in {g \in fields : Source(g) # ""}}

Messages == {"", "copied", "all copied", "nothing stored", "tried", "missed"}
Marks == {"rows", "cards"}
NoMark == <<"", 0>>
NoToast == [message |-> "", fading |-> "no", waiting |-> 0]

FillTypeOK ==
    /\ fillScreen \in [session: BOOLEAN, broken: BOOLEAN, program: {"no", "link", "no link"},
                       profile: BOOLEAN, web: {"closed", "loading", "shown"}]
    /\ copies \in Seq([text: SUBSET (Fields \X {"server", "local"}), mark: Marks \cup {""},
                       key: Shown \cup DOMAIN CopyCards \cup {""}, say: Messages])
    /\ clipboard \in SUBSET (Fields \X {"server", "local"})
    /\ DOMAIN marked = Marks /\ timers \in [Marks -> SUBSET (1..MaxCopies)]
    /\ \A m \in Marks : marked[m][2] \in 0..MaxCopies
    /\ fillToast \in [message: Messages, fading: {"no", "in", "out"}, waiting: 0..MaxWaiting]
    /\ injected \in [script: BOOLEAN, message: BOOLEAN] /\ copyCount \in 0..MaxCopies

FillInit ==
    /\ fillScreen \in [session: BOOLEAN, broken: {FALSE}, program: {"no"}, profile: {FALSE}, web: {"closed"}]
    /\ copies = <<>> /\ clipboard = {} /\ copyCount = 0
    /\ marked = [m \in Marks |-> NoMark] /\ timers = [m \in Marks |-> {}]
    /\ fillToast = NoToast
    /\ injected = [script |-> FALSE, message |-> FALSE]

-----------------------------------------------------------------------------
(* What is on the screen                                                   *)

\* FieldRow and CopyCard: an empty row cannot be copied, a card always can.
RowShows(f)  == [source |-> Source(f), copy |-> Source(f) # "", done |-> marked["rows"][1] = f]
CardShows(c) == [copy |-> TRUE, done |-> marked["cards"][1] = c]

\* WebViewToolbar
Toolbar == {"name", "address", "close"} \cup (IF fillScreen.web = "shown" THEN {"fill"} ELSE {})

LoggedOut == {"back", "login"}

FormPage == {"back", "rows", "cards", "all", "vault"}
            \cup (IF fillScreen.program = "link" THEN {"site"} ELSE {"no site"})
            \cup (IF "" \in {Source("name"), Source("contact")} THEN {"fill in by hand"} ELSE {})

FillOffers ==
    IF fillScreen.broken THEN {}
    ELSE IF ~fillScreen.session THEN LoggedOut
    ELSE IF fillScreen.web # "closed" THEN Toolbar
    ELSE FormPage

\* A fade that begins stops the one that runs, whose end hides the toast at once.
Fade(way, message, waiting) ==
    fillToast' = [message |-> IF fillToast.fading = "no" THEN message ELSE "",
                  fading |-> way, waiting |-> waiting]

\* show
Show(message) == fillToast.waiting < MaxWaiting /\ Fade("in", message, fillToast.waiting)

\* The sequence: a second fade after the wait, and its end hides the toast.
ToastFadedIn ==
    /\ fillToast.fading = "in"
    /\ fillToast' = [fillToast EXCEPT !.fading = "no", !.waiting = @ + 1]
    /\ UNCHANGED <<fillScreen, copies, clipboard, marked, timers, injected, copyCount>>

ToastWaited ==
    /\ fillToast.waiting > 0 /\ Fade("out", fillToast.message, fillToast.waiting - 1)
    /\ UNCHANGED <<fillScreen, copies, clipboard, marked, timers, injected, copyCount>>

ToastEnds ==
    /\ fillToast.fading = "out"
    /\ fillToast' = [fillToast EXCEPT !.fading = "no", !.message = ""]
    /\ UNCHANGED <<fillScreen, copies, clipboard, marked, timers, injected, copyCount>>

-----------------------------------------------------------------------------
(* Copying                                                                 *)

StartCopy(text, mark, key, say) ==
    /\ copyCount < MaxCopies /\ copyCount' = copyCount + 1
    /\ copies' = Append(copies, [text |-> text, mark |-> mark, key |-> key, say |-> say])
    /\ UNCHANGED <<fillScreen, clipboard, marked, timers, fillToast, injected>>

HandleCopyField(f) ==
    /\ "rows" \in FillOffers /\ f \in Shown /\ RowShows(f).copy
    /\ StartCopy(Text({f}), "rows", f, "copied")

HandleCopyCategory(c) ==
    /\ "cards" \in FillOffers /\ CardShows(c).copy
    /\ StartCopy(Text(CopyCards[c]), "cards", c, "copied")

HandleCopyAll ==
    /\ "all" \in FillOffers
    /\ StartCopy(Text(Fields), "", "", "all copied")

\* The toolbar of the web view: the name (which is never there) and the region
HandleWebViewQuickCopy(button) ==
    LET f == IF button = "name" THEN "name" ELSE "region" IN
    /\ button \in {"name", "address"} \cap FillOffers
    /\ IF Source(f) = ""
       THEN /\ Show("nothing stored")
            /\ UNCHANGED <<fillScreen, copies, clipboard, marked, timers, injected, copyCount>>
       ELSE StartCopy(Text({f}), "", "", "copied")

\* Mutant: the timer of the earlier copy goes on.
CopyDoneAddingTimer ==
    LET c == Head(copies)  number == copyCount - Len(copies) + 1 IN
    /\ copies # <<>> /\ copies' = Tail(copies)
    /\ clipboard' = c.text /\ Show(c.say)
    /\ IF c.mark = "" THEN UNCHANGED <<marked, timers>>
       ELSE /\ marked' = [marked EXCEPT ![c.mark] = <<c.key, number>>]
            /\ timers' = [timers EXCEPT ![c.mark] = @ \cup {number}]
    /\ UNCHANGED <<fillScreen, injected, copyCount>>

\* The clipboard has the text: the toast, and a mark for two seconds from now.
CopyDone ==
    LET c == Head(copies)  number == copyCount - Len(copies) + 1 IN
    /\ copies # <<>> /\ copies' = Tail(copies)
    /\ clipboard' = c.text /\ Show(c.say)
    /\ IF c.mark = "" THEN UNCHANGED <<marked, timers>>
       ELSE /\ marked' = [marked EXCEPT ![c.mark] = <<c.key, number>>]
            /\ timers' = [timers EXCEPT ![c.mark] = {number}]
    /\ UNCHANGED <<fillScreen, injected, copyCount>>

MarkTimeout(m) ==
    /\ timers[m] # {}
    /\ \E t \in timers[m] : timers' = [timers EXCEPT ![m] = @ \ {t}]
    /\ marked' = [marked EXCEPT ![m] = NoMark]
    /\ UNCHANGED <<fillScreen, copies, clipboard, fillToast, injected, copyCount>>

-----------------------------------------------------------------------------
(* The site                                                                *)

HandleOpenSiteInApp ==
    /\ "site" \in FillOffers
    /\ fillScreen' = [fillScreen EXCEPT !.web = "loading"]
    /\ UNCHANGED <<copies, clipboard, marked, timers, fillToast, injected, copyCount>>

\* The page, or another one that a link leads to, begins or ends loading; a new page has
\* no script.
PageLoads ==
    /\ fillScreen.web # "closed" /\ ~fillScreen.broken
    /\ fillScreen' = [fillScreen EXCEPT !.web = IF @ = "loading" THEN "shown" ELSE "loading"]
    /\ injected' = [injected EXCEPT !.script = @ /\ fillScreen.web = "loading"]
    /\ UNCHANGED <<copies, clipboard, marked, timers, fillToast, copyCount>>

HandleAutoFill ==
    /\ "fill" \in FillOffers
    /\ injected' = [injected EXCEPT !.script = TRUE] /\ Show("tried")
    /\ UNCHANGED <<fillScreen, copies, clipboard, marked, timers, copyCount>>

\* The script: what of a name, a birth, a telephone and an address it has no value or no
\* field for is missed - the first and the third always.
InjectedFields == {"name", "birthYear", "contact", "region"}
Missed == {f \in InjectedFields : Source(f) = "" \/ f \notin PageFields}

RunScript ==
    /\ injected.script /\ injected' = [script |-> FALSE, message |-> TRUE]
    /\ UNCHANGED <<fillScreen, copies, clipboard, marked, timers, fillToast, copyCount>>

\* The result; a web view that is closed is not heard.
HandleMessage ==
    /\ injected.message /\ injected' = [injected EXCEPT !.message = FALSE]
    /\ IF Missed # {} THEN Show("missed") ELSE UNCHANGED fillToast
    /\ UNCHANGED <<fillScreen, copies, clipboard, marked, timers, copyCount>>

CloseSite ==
    /\ "close" \in FillOffers
    /\ fillScreen' = [fillScreen EXCEPT !.web = "closed"] /\ injected' = [script |-> FALSE, message |-> FALSE]
    /\ UNCHANGED <<copies, clipboard, marked, timers, fillToast, copyCount>>

-----------------------------------------------------------------------------
(* The screen                                                              *)

ProgramAndProfileArrive ==
    /\ fillScreen.session /\ ~fillScreen.broken
    /\ \/ fillScreen.program = "no" /\ \E p \in {"link", "no link"} : fillScreen' = [fillScreen EXCEPT !.program = p]
       \/ ~fillScreen.profile /\ fillScreen' = [fillScreen EXCEPT !.profile = TRUE]
    /\ UNCHANGED <<copies, clipboard, marked, timers, fillToast, injected, copyCount>>

\* A login on top of the screen, or a logout by a refused request: another number of hooks.
SessionChanges ==
    /\ ~fillScreen.broken
    /\ fillScreen' = [fillScreen EXCEPT !.session = ~@, !.broken = TRUE]
    /\ UNCHANGED <<copies, clipboard, marked, timers, fillToast, injected, copyCount>>

\* Left, or given up by the error boundary: the timers are cleared, copies end unheard.
LeaveAutoFill ==
    /\ marked' = [m \in Marks |-> NoMark] /\ timers' = [m \in Marks |-> {}]
    /\ fillToast' = NoToast
    /\ injected' = [script |-> FALSE, message |-> FALSE] /\ copies' = <<>>
    /\ clipboard' = IF copies = <<>> THEN clipboard ELSE copies[Len(copies)].text
    /\ \E known \in BOOLEAN :      \* the profile is still in the cache
          fillScreen' = [fillScreen EXCEPT !.broken = FALSE, !.program = "no", !.web = "closed",
                                           !.profile = known /\ fillScreen.session]
    /\ UNCHANGED copyCount

FillNext ==
    \/ \E f \in Shown : HandleCopyField(f)
    \/ \E c \in DOMAIN CopyCards : HandleCopyCategory(c)
    \/ HandleCopyAll \/ \E b \in {"name", "address"} : HandleWebViewQuickCopy(b)
    \/ CopyDone \/ \E m \in Marks : MarkTimeout(m)
    \/ HandleOpenSiteInApp \/ PageLoads \/ HandleAutoFill \/ RunScript \/ HandleMessage \/ CloseSite
    \/ ProgramAndProfileArrive \/ SessionChanges \/ LeaveAutoFill
    \/ ToastFadedIn \/ ToastWaited \/ ToastEnds

FillSpec == FillInit /\ [][FillNext]_fillVars

-----------------------------------------------------------------------------
(* Properties                                                              *)

\* handleCopyField, handleCopyCategory: a mark that says "copied" has its own timer and no
\* older one, so that it goes away, and no earlier copy's timer takes it down; and a toast on
\* the screen, whose end may be an older toast's, has an animation that fades or waits.
MarksHaveTheirTimer ==
    /\ fillToast.message # "" => fillToast.fading # "no" \/ fillToast.waiting > 0
    /\ \A m \in Marks : timers[m] = IF marked[m] = NoMark THEN {} ELSE {marked[m][2]}
=============================================================================
