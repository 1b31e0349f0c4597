------------------------------- MODULE Preview -------------------------------
(***************************************************************************)
(* The preview of the recommendations for the onboarding answers           *)
(* (preview.tsx), with the last result that AsyncStorage keeps for it -    *)
(* one result, whoever's answers it was computed for, and shared with the  *)
(* calculator.                                                             *)
(*                                                                         *)
(* The screen shows what is kept, fetches, and falls back to what is kept; *)
(* the user can refresh while the first fetch is under way.  AsyncStorage  *)
(* serves its calls in order: what a call reads or writes is decided when  *)
(* it is made, and only its answer comes later, or that it failed.  A      *)
(* result is known by the region it was computed for.                      *)
(***************************************************************************)
EXTENDS Integers, FiniteSets

CONSTANTS
    PreviewRegions,  \* bound: the regions of the onboarding answers
    MaxFetches       \* bound: fetches started

ASSUME PreviewAssumption == PreviewRegions \subseteq STRING \ {""} /\ MaxFetches \in Nat

VARIABLES
    preview,  \* the screen
    fetches,  \* fetchPreview under way: what for, how far, what it read, whether its screen is open
    kept,     \* AsyncStorage: the result that is kept, "" for none
    answer,   \* the region of the onboarding answers, "" when they are incomplete
    fetched   \* history: fetches started

previewVars == <<preview, fetches, kept, answer, fetched>>

Results == PreviewRegions \cup {""}
\* History: saved, the result was read, not fetched; blind, what is kept could not be read,
\* and no fetch has begun or shown anything since.
NoResult == [of |-> "", saved |-> FALSE]
ClosedPreview == [open |-> FALSE, reading |-> FALSE, data |-> NoResult, loading |-> FALSE,
                  refreshing |-> FALSE, error |-> FALSE, fromCache |-> FALSE, blind |-> FALSE]

PreviewTypeOK ==
    /\ preview \in [open: BOOLEAN, reading: BOOLEAN, data: [of: Results, saved: BOOLEAN], loading: BOOLEAN,
                    refreshing: BOOLEAN, error: BOOLEAN, fromCache: BOOLEAN, blind: BOOLEAN]
    /\ fetches \subseteq [no: 1..MaxFetches, of: PreviewRegions, at: {"network", "store", "cache"},
                          read: Results, open: BOOLEAN]
    /\ kept \in Results /\ answer \in Results /\ fetched \in 0..MaxFetches

PreviewInit ==
    /\ preview = ClosedPreview /\ fetches = {} /\ kept \in Results /\ answer \in PreviewRegions /\ fetched = 0

\* A spinner, the error with two ways on, or the list; nothing at all would be a dead end.
PreviewScreen ==
    CASE ~preview.open                            -> {}
      [] preview.open /\ preview.data.of = ""     -> IF preview.loading THEN {"spinner"}
                                                     ELSE IF preview.error THEN {"retry", "onboarding"} ELSE {}
      [] preview.open /\ preview.data.of # ""     ->
            {"list", "onboarding"} \cup (IF preview.refreshing THEN {} ELSE {"refresh"})
                                   \cup (IF preview.fromCache THEN {"offline banner"} ELSE {})

-----------------------------------------------------------------------------
(* Fetching                                                                *)

\* The first part of fetchPreview, on the screen as the caller leaves it
StartFetch(screen, refresh) ==
    /\ fetched < MaxFetches /\ fetched' = fetched + 1
    /\ fetches' = fetches \cup {[no |-> fetched + 1, of |-> answer, at |-> "network", read |-> "", open |-> TRUE]}
    /\ preview' = [screen EXCEPT !.loading = @ \/ ~refresh, !.refreshing = @ \/ refresh,
                                 !.error = FALSE, !.fromCache = FALSE, !.blind = FALSE]

\* Incomplete answers lead back to the onboarding at once.
OpenPreview ==
    /\ ~preview.open /\ answer # ""
    /\ preview' = [ClosedPreview EXCEPT !.open = TRUE, !.reading = TRUE, !.loading = TRUE]
    /\ UNCHANGED <<fetches, kept, answer, fetched>>

\* The effect shows what is kept, and fetches: the mark it sets is taken back at once.
ShowKept ==
    /\ preview.reading
    /\ StartFetch([preview EXCEPT !.reading = FALSE, !.data = [of |-> kept, saved |-> kept # ""]], FALSE)
    /\ UNCHANGED <<kept, answer>>

\* A read that fails has no catch: nothing is fetched, and the spinner stays.
KeptUnread ==
    /\ preview.reading
    /\ preview' = [preview EXCEPT !.reading = FALSE, !.blind = TRUE]
    /\ UNCHANGED <<fetches, kept, answer, fetched>>

Refresh ==
    /\ "refresh" \in PreviewScreen /\ StartFetch(preview, TRUE)
    /\ UNCHANGED <<kept, answer>>

Retry ==
    /\ "retry" \in PreviewScreen /\ StartFetch(preview, FALSE)
    /\ UNCHANGED <<kept, answer>>

\* setData and the rest reach a screen that is still open.
Seen(f, screen) == preview' = IF f.open THEN screen ELSE preview
FetchReaches(f, step, read) == fetches' = (fetches \ {f}) \cup {[f EXCEPT !.at = step, !.read = read]}

\* The answer is shown and handed to AsyncStorage, which takes it or fails later.
FetchSucceeds(f) ==
    /\ f.at = "network"
    /\ Seen(f, [preview EXCEPT !.data = [of |-> f.of, saved |-> FALSE], !.blind = FALSE])
    /\ FetchReaches(f, "store", "") /\ kept' \in {f.of, kept}
    /\ UNCHANGED <<answer, fetched>>

FetchStored(f) ==
    /\ f.at = "store" /\ fetches' = fetches \ {f}
    /\ Seen(f, [preview EXCEPT !.loading = FALSE, !.refreshing = FALSE])
    /\ UNCHANGED <<kept, answer, fetched>>

\* catch: the request or the store failed; what is kept is asked for.
FetchFails(f) ==
    /\ f.at = "network" \/ f.at = "store"
    /\ FetchReaches(f, "cache", kept)
    /\ UNCHANGED <<preview, kept, answer, fetched>>

EndsOn(f, screen) ==
    /\ f.at = "cache" /\ fetches' = fetches \ {f}
    /\ Seen(f, [screen EXCEPT !.loading = FALSE, !.refreshing = FALSE])
    /\ UNCHANGED <<kept, answer, fetched>>

\* Mutant: what is kept is shown without the mark.
FallBackUnmarked(f) ==
    EndsOn(f, IF f.read = "" THEN [preview EXCEPT !.error = TRUE, !.blind = @ /\ preview.data.of # ""]
              ELSE [preview EXCEPT !.data = [of |-> f.read, saved |-> TRUE], !.blind = FALSE])

\* What is kept is shown with the mark, also over an answer another fetch has brought
\* meanwhile; without one there is an error, shown unless there are data.
FallBack(f) ==
    EndsOn(f, IF f.read = "" THEN [preview EXCEPT !.error = TRUE, !.blind = @ /\ preview.data.of # ""]
              ELSE [preview EXCEPT !.data = [of |-> f.read, saved |-> TRUE], !.fromCache = TRUE,
                                   !.blind = FALSE])

\* The read in the catch fails: only the finally runs, without a banner or an error.
FallBackFails(f) == EndsOn(f, [preview EXCEPT !.blind = TRUE])

-----------------------------------------------------------------------------
(* Coming and going                                                        *)

\* The buttons that lead to the onboarding, the last of which resets the answers, or the
\* way back; the fetches go on without the screen.
LeavePreview ==
    /\ preview.open
    /\ preview' = ClosedPreview /\ answer' \in {answer} \cup (IF "list" \in PreviewScreen THEN {""} ELSE {})
    /\ fetches' = {[f EXCEPT !.open = FALSE] : f \in fetches}
    /\ UNCHANGED <<kept, fetched>>

\* The onboarding asks again, and its calculator keeps its own result under the same key.
AnswerAgain(r) ==
    /\ ~preview.open /\ answer' = r /\ kept' \in {kept, r}
    /\ UNCHANGED <<preview, fetches, fetched>>

PreviewNext ==
    \/ OpenPreview \/ ShowKept \/ KeptUnread \/ Refresh \/ Retry \/ LeavePreview
    \/ \E f \in fetches : FetchSucceeds(f) \/ FetchStored(f) \/ FetchFails(f)
                           \/ FallBack(f) \/ FallBackFails(f)
    \/ \E r \in PreviewRegions : AnswerAgain(r)

PreviewSpec == PreviewInit /\ [][PreviewNext]_previewVars

-----------------------------------------------------------------------------
(* Properties                                                              *)

\* "Offline - showing saved results": once no fetch is under way, a list without the banner
\* is the server's for the answers of this visit, and the screen is no dead end - whatever
\* fetches overlapped, and however they and the writes of the store failed.  (Unless what is
\* kept could not be read: that leaves the spinner, an old list, or nothing at all.)
SavedPreviewIsMarked ==
    preview.open /\ ~preview.reading /\ ~preview.blind /\ (\A f \in fetches : ~f.open) =>
        /\ PreviewScreen # {} /\ "spinner" \notin PreviewScreen
        /\ "list" \in PreviewScreen /\ ~preview.fromCache => preview.data = [of |-> answer, saved |-> FALSE]
=============================================================================
