------------------------------ MODULE Bookmarks ------------------------------
(***************************************************************************)
(* The bookmark of one programme: the icon of the detail screen            *)
(* (programs/[id].tsx) and the toggle of the server (bookmark.rs), which   *)
(* deletes the row and, when there was none, inserts it: two statements,   *)
(* with the row unique.  The icon starts empty, since nothing loads it.    *)
(* A toggle outlives the screen that sent it.                              *)
(***************************************************************************)
EXTENDS Integers, Sequences, FiniteSets

CONSTANT MaxToggles   \* bound: toggles sent

ASSUME BookmarkAssumption == MaxToggles \in Nat

VARIABLES
    marks,     \* user_bookmarks: whether the row is there; history: whether it was at first,
               \* the toggles answered, whether one was lost
    toggles,   \* every toggle sent: how far it is, its answer, whether its screen is open
    icon       \* the screen: signed in, open, bookmarked; whether its last toggle was alone

bookmarkVars == <<marks, toggles, icon>>

ToggleSteps == {"sent", "absent", "removed", "added", "refused", "done"}

BookmarkTypeOK ==
    /\ marks \in [row: BOOLEAN, first: BOOLEAN, answered: 0..MaxToggles, failed: BOOLEAN]
    /\ toggles \in Seq([at: ToggleSteps, open: BOOLEAN]) /\ Len(toggles) <= MaxToggles
    /\ icon \in [signedIn: BOOLEAN, open: BOOLEAN, bookmarked: BOOLEAN, settled: BOOLEAN, alert: BOOLEAN]

BookmarkInit ==
    /\ marks \in [row: BOOLEAN, first: BOOLEAN, answered: {0}, failed: {FALSE}] /\ marks.first = marks.row
    /\ toggles = <<>>
    /\ icon \in [signedIn: BOOLEAN, open: {TRUE}, bookmarked: {FALSE}, settled: {FALSE}, alert: {FALSE}]

UnderWay(n) == toggles[n].at # "done"
BookmarkLoading == \E n \in DOMAIN toggles : toggles[n].open /\ UnderWay(n)

Advance(n, step) == toggles' = [toggles EXCEPT ![n].at = step]

\* The button is disabled while its own request is under way.
HandleBookmark ==
    /\ icon.open /\ ~icon.alert /\ ~BookmarkLoading
    /\ IF icon.signedIn
       THEN /\ Len(toggles) < MaxToggles
            /\ toggles' = Append(toggles, [at |-> "sent", open |-> TRUE])
            /\ icon' = [icon EXCEPT !.settled = \A n \in DOMAIN toggles : ~UnderWay(n)]
       ELSE icon' = [icon EXCEPT !.alert = TRUE] /\ UNCHANGED toggles
    /\ UNCHANGED marks

CloseLoginDialog == icon.alert /\ icon' = [icon EXCEPT !.alert = FALSE] /\ UNCHANGED <<marks, toggles>>

SetRow(present) == marks' = [marks EXCEPT !.row = present]

\* DELETE ... RETURNING
DeleteRow(n) ==
    /\ toggles[n].at = "sent"
    /\ IF marks.row THEN Advance(n, "removed") /\ SetRow(FALSE)
       ELSE Advance(n, "absent") /\ UNCHANGED marks
    /\ UNCHANGED icon

\* Mutant: ON CONFLICT DO NOTHING.
InsertOrIgnoreRow(n) ==
    /\ toggles[n].at = "absent"
    /\ Advance(n, "added") /\ SetRow(TRUE)
    /\ UNCHANGED icon

\* INSERT: a row that came meanwhile makes it fail.
InsertRow(n) ==
    /\ toggles[n].at = "absent"
    /\ IF marks.row THEN Advance(n, "refused") /\ UNCHANGED marks
       ELSE Advance(n, "added") /\ SetRow(TRUE)
    /\ UNCHANGED icon

\* Mutant: the answer is not looked at.
ToggleFlips(n) ==
    /\ toggles[n].at \in {"removed", "added"} /\ Advance(n, "done")
    /\ icon' = IF toggles[n].open THEN [icon EXCEPT !.bookmarked = ~@] ELSE icon
    /\ marks' = [marks EXCEPT !.answered = @ + 1]

\* The answer sets the icon of a screen that is still open.
ToggleAnswered(n) ==
    /\ toggles[n].at \in {"removed", "added"} /\ Advance(n, "done")
    /\ icon' = IF toggles[n].open THEN [icon EXCEPT !.bookmarked = toggles[n].at = "added"] ELSE icon
    /\ marks' = [marks EXCEPT !.answered = @ + 1]

\* A failure of the request, a statement or the way back only turns the icon over.
ToggleFails(n) ==
    /\ UnderWay(n) /\ Advance(n, "done")
    /\ icon' = IF toggles[n].open THEN [icon EXCEPT !.bookmarked = ~@, !.settled = FALSE] ELSE icon
    /\ marks' = [marks EXCEPT !.failed = @ \/ toggles[n].at # "refused"]

CloseProgramme ==
    /\ icon.open /\ ~icon.alert
    /\ icon' = [icon EXCEPT !.open = FALSE, !.settled = FALSE]
    /\ toggles' = [n \in DOMAIN toggles |-> [toggles[n] EXCEPT !.open = FALSE]]
    /\ UNCHANGED marks

OpenProgramme ==
    /\ ~icon.open /\ icon' = [icon EXCEPT !.open = TRUE, !.bookmarked = FALSE]
    /\ UNCHANGED <<marks, toggles>>

BookmarkNext ==
    \/ HandleBookmark \/ CloseLoginDialog \/ CloseProgramme \/ OpenProgramme
    \/ \E n \in DOMAIN toggles : DeleteRow(n) \/ InsertRow(n) \/ ToggleAnswered(n) \/ ToggleFails(n)

BookmarkSpec == BookmarkInit /\ [][BookmarkNext]_bookmarkVars

-----------------------------------------------------------------------------
(* Properties                                                              *)

\* programs/[id].tsx: after a toggle that was sent with no other under way and was answered,
\* the icon is what the server holds, although it was never loaded.
IconIsRow == icon.open /\ icon.settled /\ ~BookmarkLoading => icon.bookmarked = marks.row

\* toggle_bookmark: toggles that overlap lose nothing - as long as none was lost, every one
\* that is answered turned the row over exactly once, and one that found its row taken did
\* not touch it.
EveryToggleCounts ==
    ~marks.failed =>
        LET due == Cardinality({n \in DOMAIN toggles : toggles[n].at \in {"removed", "added"}})
        IN  marks.row = (marks.first # ((marks.answered + due) % 2 = 1))
=============================================================================
