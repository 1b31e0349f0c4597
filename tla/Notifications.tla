--------------------------- MODULE Notifications ---------------------------
(***************************************************************************)
(* The notifications of the mobile client: permission, push token and      *)
(* listeners (lib/notifications.ts), and the list of pending notifications *)
(* with its persistence (store/notifications.ts).                          *)
(*                                                                         *)
(* Every change of the list is written without waiting for it, as well as  *)
(* can be: a write that fails is forgotten.  AsyncStorage serves its calls *)
(* in order.  A notification is known by its number.                       *)
(***************************************************************************)
EXTENDS Naturals, Sequences, FiniteSets

CONSTANTS
    KeptItems,     \* persistNotifications keeps that many (50 in the code)
    MaxArrivals,   \* bound: notifications that arrive
    MaxNoteCalls   \* bound: calls of AsyncStorage under way

ASSUME NotificationAssumption == KeptItems \in Nat /\ MaxArrivals \in Nat /\ MaxNoteCalls \in Nat

VARIABLES
    notes,       \* memory: the list, newest first
    noteStore,   \* AsyncStorage: the list
    noteCalls,   \* its calls under way, in order: lists to write, and initialize's read
    push         \* initialize's progress, the permission, the token, how many arrived, ...

noteVars == <<notes, noteStore, noteCalls, push>>

Notes == [id: 1..MaxArrivals, read: BOOLEAN]
Calls == [set: BOOLEAN, list: Seq(Notes)]
InitSteps == {"off", "load", "loaded", "permission", "token", "done"}
Loading == push.pc \in {"load", "loaded"}

Keep(list) == SubSeq(list, 1, IF Len(list) < KeptItems THEN Len(list) ELSE KeptItems)

NotificationTypeOK ==
    /\ notes \in Seq(Notes) /\ noteStore \in Seq(Notes) /\ noteCalls \in Seq(Calls)
    /\ push \in [pc: InitSteps, list: Seq(Notes), granted: BOOLEAN, token: BOOLEAN,
                 arrived: 0..MaxArrivals, missed: BOOLEAN, posting: BOOLEAN, registered: BOOLEAN]

\* list: what the read returned; missed: the storage missed the last change of the list, or
\* the list missed the storage (a history for StoredIsShown)
IdlePush == [pc |-> "off", list |-> <<>>, granted |-> FALSE, token |-> FALSE, arrived |-> 0,
             missed |-> FALSE, posting |-> FALSE, registered |-> FALSE]

NotificationInit == notes = <<>> /\ noteStore = <<>> /\ noteCalls = <<>> /\ push = IdlePush

\* set, and persistNotifications without waiting: what is written is cut, the memory is not.
\* A list that is still being loaded will replace this one.
SetNotes(list, p) ==
    /\ Len(noteCalls) < MaxNoteCalls
    /\ notes' = list /\ noteCalls' = Append(noteCalls, [set |-> TRUE, list |-> Keep(list)])
    /\ push' = [p EXCEPT !.missed = Loading]
    /\ UNCHANGED noteStore

\* initialize begins to read the stored list, ...
Initialize ==
    /\ push.pc = "off" /\ Len(noteCalls) < MaxNoteCalls
    /\ noteCalls' = Append(noteCalls, [set |-> FALSE, list |-> <<>>])
    /\ push' = [push EXCEPT !.pc = "load", !.missed = FALSE]
    /\ UNCHANGED <<notes, noteStore>>

\* ... AsyncStorage serves the read (a list that cannot be read counts as empty) ...
ServeRead ==
    /\ noteCalls # <<>> /\ ~Head(noteCalls).set /\ noteCalls' = Tail(noteCalls)
    /\ \/ push' = [push EXCEPT !.pc = "loaded", !.list = noteStore]
       \/ push' = [push EXCEPT !.pc = "loaded", !.list = <<>>, !.missed = TRUE]
    /\ UNCHANGED <<notes, noteStore>>

\* ... initialize takes what was read for the list, whatever the list holds by now, ...
LoadPersisted ==
    /\ push.pc = "loaded"
    /\ notes' = push.list
    /\ push' = [push EXCEPT !.pc = "permission", !.list = <<>>]
    /\ UNCHANGED <<noteStore, noteCalls>>

\* ... asks for the permission (refused on a simulator), ...
RequestPermissions ==
    /\ push.pc = "permission"
    /\ push' \in {[push EXCEPT !.pc = IF g THEN "token" ELSE "done", !.granted = g] : g \in BOOLEAN}
    /\ UNCHANGED <<notes, noteStore, noteCalls>>

\* ... and gets a token, which is sent to the server without waiting.
RegisterForPush ==
    /\ push.pc = "token"
    /\ push' \in {[push EXCEPT !.pc = "done", !.token = t, !.posting = t] : t \in BOOLEAN}
    /\ UNCHANGED <<notes, noteStore, noteCalls>>

TokenPosted ==
    /\ push.posting
    /\ push' \in {[push EXCEPT !.posting = FALSE, !.registered = r] : r \in BOOLEAN}
    /\ UNCHANGED <<notes, noteStore, noteCalls>>

\* The listener of setupNotificationHandlers: addPending.  One that arrives before the
\* list is loaded is replaced by it.
AddPending ==
    /\ push.arrived < MaxArrivals
    /\ SetNotes(<<[id |-> push.arrived + 1, read |-> FALSE]>> \o notes,
                [push EXCEPT !.arrived = @ + 1])

\* Mutant: the change is not written.
MarkInMemory(id) ==
    /\ \E n \in DOMAIN notes : notes[n] = [id |-> id, read |-> FALSE]
    /\ notes' = [n \in DOMAIN notes |-> IF notes[n].id = id THEN [notes[n] EXCEPT !.read = TRUE]
                                        ELSE notes[n]]
    /\ UNCHANGED <<noteStore, noteCalls, push>>

MarkAsRead(id) ==
    /\ \E n \in DOMAIN notes : notes[n] = [id |-> id, read |-> FALSE]
    /\ SetNotes([n \in DOMAIN notes |-> IF notes[n].id = id THEN [notes[n] EXCEPT !.read = TRUE]
                                        ELSE notes[n]], push)

MarkAllAsRead == SetNotes([n \in DOMAIN notes |-> [notes[n] EXCEPT !.read = TRUE]], push)

\* clearAll removes the key: an absent list is an empty one.
ClearAll == SetNotes(<<>>, push)

\* AsyncStorage serves a write, or fails: nobody hears of it, and only a later write helps.
PersistNotes ==
    /\ noteCalls # <<>> /\ Head(noteCalls).set /\ noteCalls' = Tail(noteCalls)
    /\ \/ noteStore' = Head(noteCalls).list /\ UNCHANGED push
       \/ push' = [push EXCEPT !.missed = @ \/ Len(noteCalls) = 1] /\ UNCHANGED noteStore
    /\ UNCHANGED notes

\* The app is killed: the list of the memory and the calls under way are lost.
NotesRestart ==
    /\ notes' = <<>> /\ noteCalls' = <<>>
    /\ push' = [IdlePush EXCEPT !.arrived = push.arrived, !.registered = push.registered]
    /\ UNCHANGED noteStore

NotificationNext ==
    \/ Initialize \/ ServeRead \/ LoadPersisted \/ RequestPermissions \/ RegisterForPush \/ TokenPosted
    \/ AddPending \/ (\E id \in 1..MaxArrivals : MarkAsRead(id)) \/ MarkAllAsRead \/ ClearAll
    \/ PersistNotes \/ NotesRestart

NotificationSpec == NotificationInit /\ [][NotificationNext]_noteVars

-----------------------------------------------------------------------------
(* Properties                                                              *)

UnreadCount(list) == Cardinality({n \in DOMAIN list : ~list[n].read})

\* Once the list is loaded and no call is under way, a restart would bring back what is
\* shown, up to the number kept - in whatever order notifications arrived and were read,
\* and although earlier writes failed - and so never a greater unread count.  (Unless the
\* very last write or the read failed, or the list changed while it was loaded.)
StoredIsShown ==
    push.pc # "off" /\ ~Loading /\ ~push.missed /\ noteCalls = <<>> =>
        noteStore = Keep(notes) /\ UnreadCount(noteStore) <= UnreadCount(notes)
=============================================================================
