----------------------------- MODULE SessionProofs -----------------------------
(***************************************************************************)
(* Proofs about Session, for any number of logins, tokens and mishaps.     *)
(***************************************************************************)
EXTENDS Session, FiniteSetTheorems, SequenceTheorems, TLAPS

-----------------------------------------------------------------------------
(* Types                                                                   *)

Accounts == 1..MaxLogins

\* How far each flow can be
PcsOf(f) ==
    IF f \in Requests THEN {"idle", "sent"} \cup Refreshing \cup Clearing
    ELSE IF f \in Links THEN {"idle"} \cup SigningIn
    ELSE IF f = "restore" THEN {"idle"} \cup Restoring \cup Refreshing \cup Clearing
    ELSE {"idle"} \cup Clearing

\* What a flow carries: a login its token, a refresh the account it is for, and then the
\* new token of that account.
Fits(f, v, owners) ==
    /\ v \in [pc: PcsOf(f), token: 0..Len(owners), refresh: {Nobody} \cup Accounts]
    /\ v.pc \in SigningIn => v.token # 0
    /\ v.pc \in Refreshing => v.refresh # Nobody
    /\ v.pc \in Refreshing \ {"refresh"} => v.token # 0 /\ owners[v.token] = v.refresh

FlowsFit ==
    /\ flows \in [Flows -> [pc: Pcs, token: Nat, refresh: Nat]]
    /\ \A f \in Flows : Fits(f, flows[f], server.owners)

ServerTyped ==
    /\ server \in [owners: Seq(Accounts), expired: Nat]
    /\ server.expired <= Len(server.owners) /\ Len(server.owners) <= MaxTokens

MemoryTyped ==
    /\ auth \in [token: 0..Len(server.owners), refresh: {Nobody} \cup Accounts, name: {Nobody} \cup Accounts,
                 id: {Nobody} \cup Accounts, loading: BOOLEAN]
    /\ secure \in [token: 0..Len(server.owners), refresh: {Nobody} \cup Accounts]

ScreensTyped ==
    /\ gate \in [loaded: BOOLEAN, terms: BOOLEAN, privacy: BOOLEAN, agreed: BOOLEAN,
                 saving: BOOLEAN, stored: BOOLEAN]
    /\ login \in [page: Pages, auth: BOOLEAN, web: BOOLEAN, launch: 0..Len(server.owners)]

LogTyped ==
    sessionLog \in [mishaps: SUBSET Mishaps, loggedIn: {Nobody} \cup Accounts, loggedOut: BOOLEAN]

\* Before the consent is loaded nothing is in memory, nothing runs and no screen is shown.
Booting ==
    ~gate.loaded =>
        /\ auth = SignedOut /\ \A f \in Flows : flows[f].pc = "idle"
        /\ ~gate.agreed /\ ~gate.saving /\ login.page = "blank" /\ ~login.auth /\ ~login.web

TypeInv == FlowsFit /\ ServerTyped /\ MemoryTyped /\ ScreensTyped /\ LogTyped /\ Booting

\* The pcs of a flow, by what it is
LEMMA PcFacts ==
    /\ \A f \in Flows : "idle" \in PcsOf(f) /\ PcsOf(f) \subseteq Pcs
    /\ \A f \in Requests : PcsOf(f) = {"idle", "sent"} \cup Refreshing \cup Clearing
    /\ \A f \in Links : PcsOf(f) = {"idle"} \cup SigningIn
    /\ PcsOf("restore") = {"idle"} \cup Restoring \cup Refreshing \cup Clearing
    /\ PcsOf("logout") = {"idle"} \cup Clearing
    /\ Requests \subseteq Flows /\ Links \subseteq Flows /\ "restore" \in Flows /\ "logout" \in Flows
  BY DEF PcsOf, Pcs, Flows, Requests, Links

LEMMA IdleFits ==
    ASSUME NEW f \in Flows, NEW owners \in Seq(Accounts)
    PROVE  Fits(f, IdleFlow, owners) /\ IdleFlow.pc = "idle"
  BY PcFacts DEF Fits, IdleFlow, SigningIn, Refreshing, Nobody

LEMMA FitsGrow ==
    ASSUME NEW f, NEW v, NEW owners \in Seq(Accounts), NEW x \in Accounts, Fits(f, v, owners)
    PROVE  Fits(f, v, Append(owners, x))
  <1>1. /\ Append(owners, x) \in Seq(Accounts) /\ Len(Append(owners, x)) = Len(owners) + 1
        /\ \A t \in 1..Len(owners) : Append(owners, x)[t] = owners[t]
    BY AppendProperties
  <1>2. Len(owners) \in Nat
    BY LenProperties
  <1> QED  BY <1>1, <1>2 DEF Fits

\* A flow goes on without new data.
LEMMA GotoFits ==
    ASSUME NEW f \in Flows, NEW v, NEW owners \in Seq(Accounts), Fits(f, v, owners), NEW pc \in PcsOf(f),
           pc \in SigningIn => v.token # 0,
           pc \in Refreshing => v.refresh # Nobody,
           pc \in Refreshing \ {"refresh"} => v.pc \in Refreshing \ {"refresh"}
    PROVE  Fits(f, [v EXCEPT !.pc = pc], owners)
  BY DEF Fits

\* The server has issued a token, or not.
Grows ==
    \/ server'.owners = server.owners
    \/ \E x \in Accounts : server'.owners = Append(server.owners, x)

\* One flow or two go on.
LEMMA TwoFlowsFit ==
    ASSUME FlowsFit, ServerTyped, ServerTyped', Grows, NEW f \in Flows, NEW g \in Flows, NEW v, NEW w,
           flows' = [[flows EXCEPT ![f] = v] EXCEPT ![g] = w],
           Fits(f, v, server'.owners), Fits(g, w, server'.owners)
    PROVE  FlowsFit'
  <1>1. v \in [pc: Pcs, token: Nat, refresh: Nat] /\ w \in [pc: Pcs, token: Nat, refresh: Nat]
    BY PcFacts, LenProperties DEF Fits, ServerTyped, Nobody, Accounts
  <1>2. flows' \in [Flows -> [pc: Pcs, token: Nat, refresh: Nat]]
    BY <1>1 DEF FlowsFit
  <1>3. ASSUME NEW h \in Flows PROVE Fits(h, flows'[h], server'.owners)
    <2>1. CASE h \in {f, g}
      BY <2>1 DEF FlowsFit
    <2>2. CASE h \notin {f, g}
      <3>1. flows'[h] = flows[h] /\ Fits(h, flows[h], server.owners) /\ server.owners \in Seq(Accounts)
        BY <2>2 DEF FlowsFit, ServerTyped
      <3> QED  BY <3>1, FitsGrow DEF Grows
    <2> QED  BY <2>1, <2>2
  <1> QED  BY <1>2, <1>3 DEF FlowsFit

LEMMA OneFlowFits ==
    ASSUME FlowsFit, ServerTyped, ServerTyped', Grows, NEW f \in Flows, NEW v,
           flows' = [flows EXCEPT ![f] = v], Fits(f, v, server'.owners)
    PROVE  FlowsFit'
  <1>1. flows' = [[flows EXCEPT ![f] = v] EXCEPT ![f] = v]
    BY DEF FlowsFit
  <1> QED  BY <1>1, TwoFlowsFit

LEMMA MishapTyped ==
    ASSUME LogTyped, NEW m \in Mishaps, Mishap(m)
    PROVE  LogTyped'
  BY DEF LogTyped, Mishap

\* A flow of which a call failed
LEMMA AbortTypes ==
    ASSUME TypeInv, NEW f \in Flows, NEW m \in Mishaps, gate.loaded, Abort(f, m),
           UNCHANGED <<secure, server, gate>>, ScreensTyped'
    PROVE  TypeInv'
  <1>1. Fits(f, IdleFlow, server'.owners)
    BY IdleFits DEF TypeInv, ServerTyped
  <1>2. FlowsFit'
    BY <1>1, OneFlowFits DEF TypeInv, ServerTyped, Abort, End, Grows
  <1>3. MemoryTyped'
    BY DEF TypeInv, MemoryTyped, Abort
  <1>4. LogTyped'
    BY MishapTyped DEF TypeInv, Abort
  <1> QED  BY <1>2, <1>3, <1>4 DEF TypeInv, ServerTyped, Booting

LEMMA ScreenTypes ==
    ASSUME TypeInv, ConsentTicks \/ HandleContinue \/ ConsentSaved \/ LoginButtons \/ LoginDismissed \/ LeavePage
    PROVE  TypeInv'
  <1>1. UNCHANGED <<auth, secure, server, flows>>
    BY DEF ConsentTicks, HandleContinue, ConsentSaved, LoginButtons, LoginDismissed, LeavePage
  <1>2. gate.loaded
    BY DEF TypeInv, Booting, ConsentTicks, HandleContinue, ConsentSaved, LoginButtons, LoginDismissed, LeavePage
  <1>3. ScreensTyped' /\ gate'.loaded
    <2>1. "tabs" \in Pages
      BY DEF Pages
    <2>2. CASE ConsentTicks
      BY <1>1, <1>2, <2>1, <2>2 DEF TypeInv, ScreensTyped, ConsentTicks
    <2>3. CASE HandleContinue
      BY <1>1, <1>2, <2>1, <2>3 DEF TypeInv, ScreensTyped, HandleContinue
    <2>4. CASE ConsentSaved
      BY <1>1, <1>2, <2>1, <2>4 DEF TypeInv, ScreensTyped, ConsentSaved
    <2>5. CASE LoginButtons
      BY <1>1, <1>2, <2>1, <2>5 DEF TypeInv, ScreensTyped, LoginButtons
    <2>6. CASE LoginDismissed
      BY <1>1, <1>2, <2>1, <2>6 DEF TypeInv, ScreensTyped, LoginDismissed
    <2>7. CASE LeavePage
      BY <1>1, <1>2, <2>1, <2>7 DEF TypeInv, ScreensTyped, LeavePage
    <2> QED  BY <2>2, <2>3, <2>4, <2>5, <2>6, <2>7
  <1>4. LogTyped'
    <2>1. "storeFailed" \in Mishaps
      BY DEF Mishaps
    <2>2. UNCHANGED sessionLog \/ Mishap("storeFailed")
      BY DEF ConsentTicks, HandleContinue, ConsentSaved, LoginButtons, LoginDismissed, LeavePage
    <2> QED  BY <2>1, <2>2, MishapTyped DEF TypeInv, LogTyped
  <1> QED  BY <1>1, <1>3, <1>4 DEF TypeInv, FlowsFit, ServerTyped, MemoryTyped, Booting

\* Starting the app: nothing runs but the restore, and perhaps the launch URL's login.
LEMMA LoadTypes ==
    ASSUME TypeInv, LoadConsent
    PROVE  TypeInv'
  <1>1. ~gate.loaded /\ auth' = [auth EXCEPT !.loading = TRUE] /\ UNCHANGED <<secure, server>>
    BY DEF LoadConsent
  <1>2. PICK linked \in BOOLEAN, agreed \in BOOLEAN :
            /\ linked => login.launch # 0
            /\ gate' = [gate EXCEPT !.loaded = TRUE, !.agreed = agreed]
            /\ login' = [login EXCEPT !.page = IF linked THEN "login" ELSE IF agreed THEN "tabs" ELSE "consent"]
            /\ flows' = [flows EXCEPT !["restore"].pc = "read",
                                      !["event"] = IF linked THEN SignInWith(login.launch) ELSE @]
    BY DEF LoadConsent, TypeInv, ScreensTyped
  <1>3. ScreensTyped' /\ gate'.loaded
    BY <1>1, <1>2 DEF TypeInv, ScreensTyped, Pages
  <1>4. LogTyped'
    BY MishapTyped DEF LoadConsent, TypeInv, LogTyped, Mishaps
  <1>5. FlowsFit'
    <2> DEFINE restoring == [flows["restore"] EXCEPT !.pc = "read"]
               event == IF linked THEN SignInWith(login.launch) ELSE flows["event"]
               first == [flows EXCEPT !["restore"] = restoring]
    <2>1. server.owners \in Seq(Accounts) /\ Len(server.owners) \in Nat
      BY LenProperties DEF TypeInv, ServerTyped
    <2>2. Fits("restore", restoring, server.owners)
      <3>1. "restore" \in Flows /\ "read" \in PcsOf("restore")
        BY PcFacts DEF Restoring
      <3>2. Fits("restore", flows["restore"], server.owners)
        BY <3>1 DEF TypeInv, FlowsFit
      <3> QED  BY <2>1, <3>1, <3>2, GotoFits DEF SigningIn, Refreshing
    <2>3. Fits("event", event, server.owners)
      <3>1. "event" \in Links /\ "event" \in Flows /\ "storeToken" \in SigningIn
        BY PcFacts DEF Links, SigningIn
      <3>2. CASE linked
        BY <1>2, <2>1, <3>1, <3>2, PcFacts DEF Fits, SignInWith, IdleFlow, TypeInv, ScreensTyped, Refreshing, Nobody
      <3>3. CASE ~linked
        BY <3>1, <3>3 DEF TypeInv, FlowsFit
      <3> QED  BY <3>2, <3>3
    <2>4. flows' = [first EXCEPT !["event"] = event]
      BY <1>2 DEF TypeInv, FlowsFit
    <2>5. "restore" \in Flows /\ "event" \in Flows /\ server'.owners = server.owners /\ ServerTyped'
      BY <1>1 DEF Flows, Links, TypeInv, ServerTyped
    <2> HIDE DEF restoring, event
    <2> QED  BY <2>2, <2>3, <2>4, <2>5, TwoFlowsFit DEF TypeInv, Grows
  <1>6. MemoryTyped' /\ ServerTyped'
    BY <1>1 DEF TypeInv, MemoryTyped, ServerTyped
  <1> QED  BY <1>3, <1>4, <1>5, <1>6 DEF TypeInv, Booting

\* One flow goes on; the server is left alone.
LEMMA FlowStepTypes ==
    ASSUME TypeInv, NEW f \in Flows, NEW v, gate.loaded, Fits(f, v, server.owners),
           flows' = [flows EXCEPT ![f] = v], UNCHANGED <<server, gate>>,
           MemoryTyped', ScreensTyped', LogTyped'
    PROVE  TypeInv'
  <1>1. ServerTyped' /\ server'.owners = server.owners
    BY DEF TypeInv, ServerTyped
  <1>2. FlowsFit'
    BY <1>1, OneFlowFits DEF TypeInv, Grows
  <1> QED  BY <1>1, <1>2 DEF TypeInv, Booting

\* A step of the restore that only it takes
LEMMA RestoreTypes ==
    ASSUME TypeInv, RestoreRead \/ RestoreReadRefresh \/ RestoreMe
    PROVE  TypeInv'
  <1>1. UNCHANGED <<secure, server, gate, login>> /\ flows["restore"].pc \in Restoring
    BY DEF RestoreRead, RestoreReadRefresh, RestoreMe, At, Restoring
  <1>2. "restore" \in Flows /\ gate.loaded
    BY <1>1, PcFacts DEF TypeInv, Booting, Restoring
  <1>3. ScreensTyped' /\ ServerTyped' /\ server.owners \in Seq(Accounts) /\ server.expired \in Nat
        /\ Len(server.owners) \in Nat /\ Fits("restore", flows["restore"], server.owners)
    BY <1>1, <1>2, LenProperties DEF TypeInv, ScreensTyped, ServerTyped, FlowsFit
  <1>4. ASSUME NEW m \in Mishaps, Abort("restore", m) PROVE TypeInv'
    BY <1>1, <1>2, <1>3, <1>4, AbortTypes
  <1>5. ASSUME NEW v, Fits("restore", v, server.owners), flows' = [flows EXCEPT !["restore"] = v],
               MemoryTyped', LogTyped'
        PROVE  TypeInv'
    BY <1>1, <1>2, <1>3, <1>5, FlowStepTypes
  <1>6. /\ {"readRefresh", "me", "refresh", "drop", "idle"} \subseteq PcsOf("restore")
        /\ "storeFailed" \in Mishaps /\ "offline" \in Mishaps /\ "serverError" \in Mishaps
    BY PcFacts DEF Restoring, Refreshing, Clearing, Mishaps
  <1>7. CASE RestoreRead
    <2> DEFINE v == [flows["restore"] EXCEPT !.pc = "readRefresh", !.token = secure.token]
    <2>1. CASE flows' = [flows EXCEPT !["restore"] = v] /\ UNCHANGED <<auth, sessionLog>>
      <3>1. Fits("restore", v, server.owners)
        BY <1>3, <1>6 DEF Fits, SigningIn, Refreshing, TypeInv, MemoryTyped
      <3>2. MemoryTyped' /\ LogTyped'
        BY <1>1, <2>1 DEF TypeInv, MemoryTyped, LogTyped
      <3> QED  BY <1>5, <2>1, <3>1, <3>2
    <2>2. CASE Abort("restore", "storeFailed")
      BY <1>4, <1>6, <2>2
    <2> QED  BY <1>7, <2>1, <2>2 DEF RestoreRead
  <1>8. CASE RestoreReadRefresh
    <2> DEFINE v == [flows["restore"] EXCEPT !.pc = "me", !.refresh = secure.refresh]
    <2>1. CASE flows' = [flows EXCEPT !["restore"] = v] /\ UNCHANGED <<auth, sessionLog>>
      <3>1. Fits("restore", v, server.owners)
        BY <1>3, <1>6 DEF Fits, SigningIn, Refreshing, TypeInv, MemoryTyped
      <3>2. MemoryTyped' /\ LogTyped'
        BY <1>1, <2>1 DEF TypeInv, MemoryTyped, LogTyped
      <3> QED  BY <1>5, <2>1, <3>1, <3>2
    <2>2. CASE End("restore") /\ auth' = [auth EXCEPT !.loading = FALSE] /\ UNCHANGED sessionLog
      <3>1. Fits("restore", IdleFlow, server.owners)
        BY <1>2, <1>3, IdleFits
      <3>2. MemoryTyped' /\ LogTyped'
        BY <1>1, <2>2 DEF TypeInv, MemoryTyped, LogTyped
      <3> QED  BY <1>5, <2>2, <3>1, <3>2 DEF End
    <2>3. CASE Abort("restore", "storeFailed")
      BY <1>4, <1>6, <2>3
    <2> QED  BY <1>8, <2>1, <2>2, <2>3 DEF RestoreReadRefresh
  <1>9. CASE RestoreMe
    <2> DEFINE r == flows["restore"]
    <2>0. r \in [pc: PcsOf("restore"), token: 0..Len(server.owners), refresh: {Nobody} \cup Accounts]
      BY <1>3 DEF Fits
    <2>1. CASE /\ Accepted(r.token)
               /\ auth' = [token |-> r.token, refresh |-> r.refresh, name |-> Owner(r.token),
                           id |-> Owner(r.token), loading |-> FALSE]
               /\ End("restore") /\ UNCHANGED sessionLog
      <3>1. Fits("restore", IdleFlow, server.owners)
        BY <1>2, <1>3, IdleFits
      <3>2. Owner(r.token) \in {Nobody} \cup Accounts
        BY <1>3, <2>0, ElementOfSeq DEF Owner
      <3>3. MemoryTyped' /\ LogTyped'
        BY <1>1, <2>0, <2>1, <3>2 DEF TypeInv, MemoryTyped, LogTyped
      <3> QED  BY <1>5, <2>1, <3>1, <3>3 DEF End
    <2>2. CASE /\ IF Accepted(r.token) THEN Mishap("serverError") ELSE UNCHANGED sessionLog
               /\ IF r.refresh # Nobody
                  THEN auth' = [auth EXCEPT !.refresh = r.refresh] /\ Goto("restore", "refresh")
                  ELSE UNCHANGED auth /\ Goto("restore", "drop")
      <3>1. LogTyped'
        BY <1>6, <2>2, MishapTyped DEF TypeInv, LogTyped
      <3>2. PICK pc \in {"refresh", "drop"} : Goto("restore", pc) /\ (pc = "refresh" => r.refresh # Nobody)
        BY <2>2
      <3>3. Fits("restore", [r EXCEPT !.pc = pc], server.owners)
        BY <1>2, <1>3, <1>6, <3>2, GotoFits DEF SigningIn, Refreshing
      <3>4. MemoryTyped'
        BY <1>1, <2>0, <2>2 DEF TypeInv, MemoryTyped
      <3> QED  BY <1>5, <3>1, <3>2, <3>3, <3>4 DEF Goto
    <2>3. CASE Abort("restore", "offline")
      BY <1>4, <1>6, <2>3
    <2> QED  BY <1>9, <2>1, <2>2, <2>3 DEF RestoreMe
  <1> QED  BY <1>7, <1>8, <1>9

\* A flow that has begun, or a request: the consent is loaded, and its data fit.
LEMMA FlowFacts ==
    ASSUME TypeInv, NEW f \in Flows
    PROVE  /\ Fits(f, flows[f], server.owners)
           /\ flows[f] \in [pc: PcsOf(f), token: 0..Len(server.owners), refresh: {Nobody} \cup Accounts]
           /\ flows[f].pc # "idle" => gate.loaded
           /\ server.owners \in Seq(Accounts) /\ Len(server.owners) \in Nat /\ server.expired \in Nat
  BY LenProperties DEF TypeInv, FlowsFit, Fits, ServerTyped, Booting

LEMMA RequestTypes ==
    ASSUME TypeInv, NEW f \in Requests, StartRequest(f) \/ RequestAnswer(f)
    PROVE  TypeInv'
  <1>1. f \in Flows /\ PcsOf(f) = {"idle", "sent"} \cup Refreshing \cup Clearing
    BY PcFacts
  <1>2. UNCHANGED <<auth, secure, server, gate, login, sessionLog>>
    BY DEF StartRequest, RequestAnswer
  <1>3. gate.loaded
    BY <1>1, FlowFacts DEF StartRequest, RequestAnswer, At, TypeInv, Booting
  <1>4. MemoryTyped' /\ ScreensTyped' /\ LogTyped'
    BY <1>2 DEF TypeInv, MemoryTyped, ScreensTyped, LogTyped
  <1>5. PICK v : flows' = [flows EXCEPT ![f] = v] /\ Fits(f, v, server.owners)
    <2>1. CASE StartRequest(f)
      <3> DEFINE v == [IdleFlow EXCEPT !.pc = "sent", !.token = auth.token]
      <3>1. Fits(f, v, server.owners)
        BY <1>1 DEF Fits, IdleFlow, SigningIn, Refreshing, TypeInv, MemoryTyped
      <3> QED  BY <2>1, <3>1 DEF StartRequest
    <2>2. CASE RequestAnswer(f) /\ Accepted(flows[f].token)
      BY <1>1, <2>2, FlowFacts, IdleFits DEF RequestAnswer, End
    <2>3. CASE RequestAnswer(f) /\ ~Accepted(flows[f].token)
      <3> DEFINE v == [flows[f] EXCEPT !.pc = IF auth.refresh = Nobody THEN "drop" ELSE "refresh",
                                       !.refresh = auth.refresh]
      <3>1. flows' = [flows EXCEPT ![f] = v]
        BY <1>1, <2>3 DEF RequestAnswer, TypeInv, FlowsFit
      <3>2. flows[f] \in [pc: PcsOf(f), token: 0..Len(server.owners), refresh: {Nobody} \cup Accounts]
        BY <1>1, FlowFacts
      <3>3. Fits(f, v, server.owners)
        BY <1>1, <3>2 DEF Fits, SigningIn, Refreshing, Clearing, TypeInv, MemoryTyped
      <3> QED  BY <3>1, <3>3
    <2> QED  BY <2>1, <2>2, <2>3
  <1> QED  BY <1>1, <1>2, <1>3, <1>4, <1>5, FlowStepTypes

\* The server issues a token.
LEMMA IssueTypes ==
    ASSUME ServerTyped, NEW x \in Accounts, Len(server.owners) < MaxTokens,
           server' = [server EXCEPT !.owners = Append(server.owners, x)]
    PROVE  /\ ServerTyped' /\ Grows /\ server'.owners = Append(server.owners, x)
           /\ Len(server.owners) \in Nat /\ Len(server'.owners) = Len(server.owners) + 1
           /\ server'.owners[Len(server.owners) + 1] = x /\ server'.expired = server.expired
           /\ \A t \in 1..Len(server.owners) : server'.owners[t] = server.owners[t]
           /\ 0..Len(server.owners) \subseteq 0..Len(server'.owners)
  <1>1. /\ server.owners \in Seq(Accounts) /\ server.expired \in Nat /\ Len(server.owners) \in Nat
        /\ server'.owners = Append(server.owners, x) /\ server'.expired = server.expired
        /\ server' \in [owners: {Append(server.owners, x)}, expired: Nat]
    BY LenProperties DEF ServerTyped
  <1>2. /\ Append(server.owners, x) \in Seq(Accounts) /\ Len(Append(server.owners, x)) = Len(server.owners) + 1
        /\ Append(server.owners, x)[Len(server.owners) + 1] = x
        /\ \A t \in 1..Len(server.owners) : Append(server.owners, x)[t] = server.owners[t]
    BY <1>1, AppendProperties
  <1>3. server' \in [owners: Seq(Accounts), expired: Nat]
    BY <1>1, <1>2
  <1>4. server'.expired <= Len(server'.owners) /\ Len(server'.owners) <= MaxTokens
    BY <1>1, <1>2, SessionAssumption DEF ServerTyped
  <1> QED  BY <1>1, <1>2, <1>3, <1>4 DEF ServerTyped, Grows

LEMMA RefreshTypes ==
    ASSUME TypeInv, NEW f \in Requests \cup {"restore"},
           Refresh(f) \/ KeepTokens(f) \/ Publish(f) \/ Retry(f)
    PROVE  TypeInv'
  <1>1. f \in Flows /\ Refreshing \cup Clearing \subseteq PcsOf(f) /\ "drop" \in Clearing
    BY PcFacts DEF Clearing
  <1>2. UNCHANGED <<gate, login>> /\ flows[f].pc \in Refreshing
    BY DEF Refresh, KeepTokens, Publish, Retry, At, Refreshing
  <1>3. /\ gate.loaded /\ Fits(f, flows[f], server.owners)
        /\ flows[f] \in [pc: PcsOf(f), token: 0..Len(server.owners), refresh: {Nobody} \cup Accounts]
        /\ server.owners \in Seq(Accounts) /\ Len(server.owners) \in Nat
    BY <1>1, <1>2, FlowFacts DEF Refreshing
  <1>4. "storeFailed" \in Mishaps /\ "offline" \in Mishaps /\ "serverError" \in Mishaps
    BY DEF Mishaps
  <1>5. UNCHANGED server => ScreensTyped' /\ (UNCHANGED <<auth, secure>> => MemoryTyped')
    BY <1>2 DEF TypeInv, ScreensTyped, MemoryTyped
  <1>6. UNCHANGED sessionLog => LogTyped'
    BY DEF TypeInv, LogTyped
  <1>7. ASSUME NEW m \in Mishaps, Goto(f, "drop"), Mishap(m), UNCHANGED <<auth, secure, server>>
        PROVE  TypeInv'
    <2>1. Fits(f, [flows[f] EXCEPT !.pc = "drop"], server.owners)
      BY <1>1, <1>3, GotoFits DEF SigningIn, Refreshing
    <2>2. LogTyped'
      BY <1>7, MishapTyped DEF TypeInv
    <2> QED  BY <1>1, <1>2, <1>3, <1>5, <1>7, <2>1, <2>2, FlowStepTypes DEF Goto
  <1>8. ASSUME NEW pc \in Refreshing \ {"refresh"}, flows[f].pc # "refresh", Goto(f, pc), MemoryTyped',
               UNCHANGED <<server, sessionLog>>
        PROVE  TypeInv'
    <2>1. Fits(f, [flows[f] EXCEPT !.pc = pc], server.owners)
      BY <1>1, <1>2, <1>3, <1>8, GotoFits DEF SigningIn, Refreshing, Fits
    <2> QED  BY <1>1, <1>2, <1>3, <1>5, <1>6, <1>8, <2>1, FlowStepTypes DEF Goto
  <1>9. CASE Refresh(f)
    <2>1. CASE /\ Len(server.owners) < MaxTokens
               /\ server' = [server EXCEPT !.owners = Append(server.owners, flows[f].refresh)]
               /\ flows' = [flows EXCEPT ![f].pc = "keepToken", ![f].token = Len(server.owners) + 1]
               /\ UNCHANGED sessionLog
      <3> DEFINE v == [flows[f] EXCEPT !.pc = "keepToken", !.token = Len(server.owners) + 1]
      <3>1. flows[f].refresh \in Accounts
        BY <1>2, <1>3 DEF Fits
      <3>2. /\ ServerTyped' /\ Grows /\ server'.owners = Append(server.owners, flows[f].refresh)
            /\ Len(server'.owners) = Len(server.owners) + 1
            /\ server'.owners[Len(server.owners) + 1] = flows[f].refresh
            /\ 0..Len(server.owners) \subseteq 0..Len(server'.owners)
        BY <2>1, <3>1, IssueTypes DEF TypeInv
      <3>3. v.pc = "keepToken" /\ v.token = Len(server.owners) + 1 /\ v.refresh = flows[f].refresh
            /\ v \in [pc: PcsOf(f), token: 0..Len(server'.owners), refresh: {Nobody} \cup Accounts]
        <4>1. Len(server.owners) + 1 \in 0..Len(server'.owners) /\ "keepToken" \in PcsOf(f)
          BY <1>1, <1>3, <3>2 DEF Refreshing
        <4> QED  BY <1>3, <4>1
      <3>4. Fits(f, v, server'.owners)
        <4> HIDE DEF v
        <4> QED  BY <1>3, <3>1, <3>2, <3>3 DEF Fits, SigningIn, Nobody, Accounts
      <3>5. flows' = [flows EXCEPT ![f] = v]
        BY <1>1, <2>1 DEF TypeInv, FlowsFit
      <3>6. FlowsFit'
        BY <1>1, <3>2, <3>4, <3>5, OneFlowFits DEF TypeInv
      <3>7. MemoryTyped' /\ ScreensTyped'
        <4>1. UNCHANGED <<auth, secure, login, gate>>
          BY <1>9, <1>2 DEF Refresh
        <4> QED  BY <4>1, <3>2 DEF TypeInv, MemoryTyped, ScreensTyped
      <3> QED  BY <1>2, <1>3, <1>6, <2>1, <3>2, <3>6, <3>7 DEF TypeInv, Booting
    <2>2. ASSUME Goto(f, "drop"), NEW m \in Mishaps, Mishap(m), UNCHANGED server PROVE TypeInv'
      BY <1>7, <1>9, <2>2 DEF Refresh
    <2> QED  BY <1>4, <1>9, <2>1, <2>2 DEF Refresh
  <1>10. CASE KeepTokens(f)
    <2>1. UNCHANGED <<auth, server>>
      BY <1>10 DEF KeepTokens
    <2>2. CASE At(f, "keepToken") /\ secure' = [secure EXCEPT !.token = flows[f].token]
               /\ Goto(f, "keepRefresh") /\ UNCHANGED sessionLog
      <3>1. MemoryTyped'
        BY <1>3, <2>1, <2>2 DEF TypeInv, MemoryTyped
      <3> QED  BY <1>8, <2>1, <2>2, <3>1 DEF At, Refreshing
    <2>3. CASE At(f, "keepRefresh") /\ secure' = [secure EXCEPT !.refresh = flows[f].refresh]
               /\ Goto(f, "publish") /\ UNCHANGED sessionLog
      <3>1. MemoryTyped'
        BY <1>3, <2>1, <2>3 DEF TypeInv, MemoryTyped
      <3> QED  BY <1>8, <2>1, <2>3, <3>1 DEF At, Refreshing
    <2>4. CASE UNCHANGED secure /\ Goto(f, "drop") /\ Mishap("storeFailed")
      BY <1>4, <1>7, <2>1, <2>4
    <2> QED  BY <1>10, <2>2, <2>3, <2>4 DEF KeepTokens
  <1>11. CASE Publish(f)
    <2>1. MemoryTyped'
      BY <1>3, <1>11 DEF TypeInv, MemoryTyped, Publish
    <2> QED  BY <1>8, <1>11, <2>1 DEF Publish, At, Refreshing
  <1>12. CASE Retry(f)
    <2>1. UNCHANGED <<secure, server>>
      BY <1>12 DEF Retry
    <2>2. CASE /\ End(f) /\ UNCHANGED sessionLog
               /\ auth' = IF f = "restore"
                          THEN [auth EXCEPT !.name = Owner(flows[f].token), !.id = Owner(flows[f].token),
                                            !.loading = FALSE]
                          ELSE auth
      <3>1. Owner(flows[f].token) \in {Nobody} \cup Accounts
        BY <1>3, ElementOfSeq DEF Owner
      <3>2. MemoryTyped'
        BY <2>1, <2>2, <3>1 DEF TypeInv, MemoryTyped
      <3> QED  BY <1>1, <1>2, <1>3, <1>5, <1>6, <2>1, <2>2, <3>2, IdleFits, FlowStepTypes DEF End
    <2>3. CASE Goto(f, "drop") /\ UNCHANGED auth /\ Mishap("serverError")
      BY <1>4, <1>7, <2>1, <2>3
    <2>4. CASE Abort(f, "offline")
      BY <1>1, <1>2, <1>3, <1>4, <1>5, <2>1, <2>4, AbortTypes
    <2> QED  BY <1>12, <2>2, <2>3, <2>4 DEF Retry
  <1> QED  BY <1>9, <1>10, <1>11, <1>12

LEMMA SignInFits ==
    ASSUME NEW f \in Links, NEW owners \in Seq(Accounts), NEW t \in 1..Len(owners)
    PROVE  Fits(f, SignInWith(t), owners)
  <1>1. "storeToken" \in PcsOf(f) /\ Len(owners) \in Nat
    BY PcFacts, LenProperties DEF SigningIn
  <1>2. SignInWith(t) \in [pc: {"storeToken"}, token: {t}, refresh: {Nobody}]
    BY DEF SignInWith, IdleFlow
  <1>3. t \in 0..Len(owners) /\ t # 0 /\ "storeToken" \notin Refreshing
    BY <1>1 DEF Refreshing
  <1> HIDE DEF SignInWith
  <1> QED  BY <1>1, <1>2, <1>3 DEF Fits

\* The launch URL's login begins again when its screen opens, if there is one.
LEMMA LaunchFits ==
    ASSUME TypeInv
    PROVE  Fits("event", IF login.launch = 0 THEN flows["event"] ELSE SignInWith(login.launch), server.owners)
  <1>1. "event" \in Links /\ "event" \in Flows /\ server.owners \in Seq(Accounts) /\ Len(server.owners) \in Nat
    BY PcFacts, LenProperties DEF Links, TypeInv, ServerTyped
  <1>2. CASE login.launch = 0
    BY <1>1, <1>2 DEF TypeInv, FlowsFit
  <1>3. CASE login.launch # 0
    <2>1. login.launch \in 1..Len(server.owners)
      BY <1>1, <1>3 DEF TypeInv, ScreensTyped
    <2> QED  BY <1>1, <1>3, <2>1, SignInFits
  <1> QED  BY <1>2, <1>3

LEMMA LogoutTypes ==
    ASSUME TypeInv, HandleLogout
    PROVE  TypeInv'
  <1>1. UNCHANGED <<auth, secure, server, gate>> /\ gate.loaded
    BY DEF HandleLogout, TypeInv, Booting
  <1>2. ScreensTyped' /\ LogTyped' /\ MemoryTyped' /\ ServerTyped' /\ Grows
    BY <1>1 DEF TypeInv, ScreensTyped, LogTyped, MemoryTyped, ServerTyped, Grows, HandleLogout, Pages
  <1>3. FlowsFit'
    <2> DEFINE event == IF login.launch = 0 THEN flows["event"] ELSE SignInWith(login.launch)
               out == [flows["logout"] EXCEPT !.pc = "drop"]
    <2>1. "event" \in Flows /\ "logout" \in Flows /\ "event" # "logout" /\ "drop" \in PcsOf("logout")
      BY PcFacts DEF Links, Clearing
    <2>2. Fits("event", event, server.owners)
      BY LaunchFits
    <2>3. Fits("logout", out, server.owners)
      BY <2>1, FlowFacts, GotoFits DEF SigningIn, Refreshing
    <2>4. flows' = [[flows EXCEPT !["logout"] = out] EXCEPT !["event"] = event]
      BY <2>1 DEF HandleLogout, TypeInv, FlowsFit
    <2> HIDE DEF event, out
    <2> QED  BY <1>1, <1>2, <2>1, <2>2, <2>3, <2>4, TwoFlowsFit DEF TypeInv
  <1> QED  BY <1>1, <1>2, <1>3 DEF TypeInv, Booting

LEMMA ClearTypes ==
    ASSUME TypeInv, NEW f \in Requests \cup {"restore", "logout"}, Clear(f)
    PROVE  TypeInv'
  <1>1. f \in Flows /\ Clearing \subseteq PcsOf(f)
    BY PcFacts
  <1>2. UNCHANGED <<server, gate, login>> /\ flows[f].pc \in Clearing
    BY DEF Clear, At, Clearing
  <1>3. /\ gate.loaded /\ Fits(f, flows[f], server.owners) /\ server.owners \in Seq(Accounts)
        /\ Len(server.owners) \in Nat
    BY <1>1, <1>2, FlowFacts DEF Clearing
  <1>4. ScreensTyped'
    BY <1>2 DEF TypeInv, ScreensTyped
  <1>5. ASSUME NEW pc \in {"dropRefresh", "wipe"}, Goto(f, pc), MemoryTyped', UNCHANGED sessionLog
        PROVE  TypeInv'
    <2>1. Fits(f, [flows[f] EXCEPT !.pc = pc], server.owners)
      BY <1>1, <1>3, GotoFits DEF SigningIn, Refreshing, Clearing
    <2>2. LogTyped'
      BY <1>5 DEF TypeInv, LogTyped
    <2> QED  BY <1>1, <1>2, <1>3, <1>4, <1>5, <2>1, <2>2, FlowStepTypes DEF Goto
  <1>6. CASE At(f, "drop") /\ secure' = [secure EXCEPT !.token = 0] /\ Goto(f, "dropRefresh")
             /\ UNCHANGED <<auth, sessionLog>>
    <2>1. MemoryTyped'
      BY <1>2, <1>3, <1>6 DEF TypeInv, MemoryTyped
    <2> QED  BY <1>5, <1>6, <2>1
  <1>7. CASE At(f, "dropRefresh") /\ secure' = [secure EXCEPT !.refresh = Nobody] /\ Goto(f, "wipe")
             /\ UNCHANGED <<auth, sessionLog>>
    <2>1. MemoryTyped'
      BY <1>2, <1>7 DEF TypeInv, MemoryTyped
    <2> QED  BY <1>5, <1>7, <2>1
  <1>8. CASE At(f, "wipe") /\ End(f) /\ UNCHANGED <<secure, sessionLog>>
             /\ auth' = [SignedOut EXCEPT !.loading = IF f = "restore" THEN FALSE ELSE auth.loading]
    <2>1. auth' \in [token: {0}, refresh: {Nobody}, name: {Nobody}, id: {Nobody}, loading: BOOLEAN]
      <3>1. auth.loading \in BOOLEAN
        BY DEF TypeInv, MemoryTyped
      <3> QED  BY <1>8, <3>1 DEF SignedOut
    <2>2. MemoryTyped' /\ LogTyped'
      BY <1>2, <1>3, <1>8, <2>1 DEF TypeInv, MemoryTyped, LogTyped
    <2> QED  BY <1>1, <1>2, <1>3, <1>4, <1>8, <2>2, IdleFits, FlowStepTypes DEF End
  <1>9. CASE Abort(f, "storeFailed") /\ UNCHANGED secure
    BY <1>1, <1>2, <1>3, <1>4, <1>9, AbortTypes DEF Mishaps
  <1> QED  BY <1>6, <1>7, <1>8, <1>9 DEF Clear

LEMMA OpenLoginTypes ==
    ASSUME TypeInv, OpenLogin
    PROVE  TypeInv'
  <1>1. UNCHANGED <<auth, secure, server, gate, sessionLog>> /\ gate.loaded
    BY DEF OpenLogin, TypeInv, Booting
  <1>2. ScreensTyped' /\ LogTyped' /\ MemoryTyped'
    BY <1>1 DEF TypeInv, ScreensTyped, LogTyped, MemoryTyped, OpenLogin, Pages
  <1> DEFINE event == IF login.launch = 0 THEN flows["event"] ELSE SignInWith(login.launch)
  <1>3. "event" \in Flows
    BY PcFacts DEF Links
  <1>4. flows' = [flows EXCEPT !["event"] = event]
    BY <1>3 DEF OpenLogin, TypeInv, FlowsFit
  <1>5. Fits("event", event, server.owners)
    BY LaunchFits
  <1> HIDE DEF event
  <1> QED  BY <1>1, <1>2, <1>3, <1>4, <1>5, FlowStepTypes

\* The account of a new login
LEMMA ReturnGrows ==
    ASSUME TypeInv, LoginReturns
    PROVE  /\ 1 + Cardinality({server.owners[n] : n \in DOMAIN server.owners}) \in Accounts
           /\ Grows
  <1> DEFINE account == 1 + Cardinality({server.owners[n] : n \in DOMAIN server.owners})
  <1>1. account \in Accounts
    <2>1. /\ server.owners \in Seq(Accounts)
          /\ \A n \in DOMAIN server.owners : server.owners[n] \in Accounts
      BY ElementOfSeq, LenProperties DEF TypeInv, ServerTyped
    <2>2. {server.owners[n] : n \in DOMAIN server.owners} \subseteq 1..MaxLogins
      BY <2>1 DEF Accounts
    <2>3. IsFiniteSet({server.owners[n] : n \in DOMAIN server.owners})
      <3>1. IsFiniteSet(1..MaxLogins)
        BY FS_Interval, SessionAssumption
      <3> QED  BY <2>2, <3>1, FS_Subset
    <2>4. Cardinality({server.owners[n] : n \in DOMAIN server.owners}) \in Nat
      BY <2>3, FS_CardinalityType
    <2>5. account <= MaxLogins
      BY DEF LoginReturns
    <2> HIDE DEF account
    <2>6. account \in Nat /\ account >= 1
      BY <2>4 DEF account
    <2> QED  BY <2>5, <2>6, SessionAssumption DEF Accounts
  <1>2. server'.owners = Append(server.owners, account)
    BY DEF LoginReturns, TypeInv, ServerTyped
  <1> QED  BY <1>1, <1>2 DEF Grows

LEMMA ReturnTypes ==
    ASSUME TypeInv, LoginReturns
    PROVE  TypeInv'
  <1> DEFINE new == SignInWith(Len(server.owners) + 1)
             account == 1 + Cardinality({server.owners[n] : n \in DOMAIN server.owners})
  <1>1. account \in Accounts
    BY ReturnGrows
  <1>2. /\ server' = [server EXCEPT !.owners = Append(server.owners, account)]
        /\ Len(server.owners) < MaxTokens /\ UNCHANGED <<auth, secure, gate, sessionLog>>
    BY DEF LoginReturns
  <1>3. /\ \/ /\ login.auth /\ UNCHANGED login
              /\ \/ flows' = [flows EXCEPT !["result"] = new]
                 \/ flows' = [flows EXCEPT !["result"] = new, !["event"] = new]
           \/ login.web /\ login' = [login EXCEPT !.web = FALSE] /\ flows' = [flows EXCEPT !["event"] = new]
           \/ ~gate.loaded /\ login' = [login EXCEPT !.launch = new.token] /\ UNCHANGED flows
    BY DEF LoginReturns
  <1> HIDE DEF account
  <1>4. /\ ServerTyped' /\ Grows /\ Len(server.owners) \in Nat /\ Len(server'.owners) = Len(server.owners) + 1
        /\ 0..Len(server.owners) \subseteq 0..Len(server'.owners)
    BY <1>1, <1>2, IssueTypes DEF TypeInv
  <1>5. \A f \in Links : Fits(f, new, server'.owners)
    BY <1>4, SignInFits DEF ServerTyped
  <1>6. new.token = Len(server.owners) + 1
    BY DEF SignInWith, IdleFlow
  <1>7. ScreensTyped'
    <2>1. Len(server.owners) + 1 \in 0..Len(server'.owners)
      BY <1>4
    <2> HIDE DEF new
    <2> QED  BY <1>2, <1>3, <1>4, <1>6, <2>1 DEF TypeInv, ScreensTyped
  <1>8. MemoryTyped' /\ LogTyped'
    BY <1>2, <1>4 DEF TypeInv, MemoryTyped, LogTyped
  <1>9. FlowsFit'
    <2>1. "result" \in Links /\ "event" \in Links /\ "result" \in Flows /\ "event" \in Flows
      BY PcFacts DEF Links
    <2> HIDE DEF new
    <2>2. CASE flows' = [flows EXCEPT !["result"] = new] \/ flows' = [flows EXCEPT !["event"] = new]
      BY <1>4, <1>5, <2>1, <2>2, OneFlowFits DEF TypeInv
    <2>3. CASE flows' = [flows EXCEPT !["result"] = new, !["event"] = new]
      <3>1. flows' = [[flows EXCEPT !["result"] = new] EXCEPT !["event"] = new]
        BY <2>3
      <3> QED  BY <1>4, <1>5, <2>1, <3>1, TwoFlowsFit DEF TypeInv
    <2>4. CASE UNCHANGED flows
      <3>1. flows' = [flows EXCEPT !["event"] = flows["event"]]
        BY <2>1, <2>4 DEF TypeInv, FlowsFit
      <3>2. Fits("event", flows["event"], server'.owners)
        <4>1. Fits("event", flows["event"], server.owners) /\ server.owners \in Seq(Accounts)
          BY <2>1, FlowFacts
        <4> QED  BY <4>1, FitsGrow, <1>4 DEF Grows
      <3> QED  BY <1>4, <2>1, <3>1, <3>2, OneFlowFits DEF TypeInv
    <2> QED  BY <1>3, <2>2, <2>3, <2>4
  <1>10. Booting'
    <2> HIDE DEF new
    <2> QED  BY <1>2, <1>3 DEF TypeInv, Booting, ScreensTyped
  <1> QED  BY <1>4, <1>7, <1>8, <1>9, <1>10 DEF TypeInv

LEMMA HandleTypes ==
    ASSUME TypeInv, NEW f \in Links, HandleTokens(f) \/ HandleTokensFails(f)
    PROVE  TypeInv'
  <1> DEFINE t == flows[f].token
  <1>1. f \in Flows /\ PcsOf(f) = {"idle"} \cup SigningIn
    BY PcFacts
  <1>2. UNCHANGED <<server, gate>> /\ flows[f].pc \in SigningIn
    BY DEF HandleTokens, HandleTokensFails, At, SigningIn
  <1>3. /\ gate.loaded /\ Fits(f, flows[f], server.owners) /\ server.owners \in Seq(Accounts)
        /\ t \in 1..Len(server.owners) /\ Owner(t) \in Accounts
    BY <1>1, <1>2, FlowFacts, ElementOfSeq DEF SigningIn, Fits, Owner
  <1>4. ScreensTyped'
    <2>1. \/ UNCHANGED login
          \/ login' = [login EXCEPT !.auth = FALSE]
          \/ \E p \in Pages, b \in {FALSE, login.auth} : login' = [login EXCEPT !.page = p, !.web = FALSE, !.auth = b]
      <3>1. CASE HandleTokensFails(f)
        <4>1. login' = [login EXCEPT !.auth = FALSE] \/ login' = [login EXCEPT !.auth = login.auth]
          BY <3>1 DEF HandleTokensFails
        <4> QED  BY <4>1 DEF TypeInv, ScreensTyped
      <3>2. CASE HandleTokens(f) /\ flows[f].pc # "identify"
        BY <3>2 DEF HandleTokens, At
      <3>3. CASE HandleTokens(f) /\ flows[f].pc = "identify"
        <4>1. PICK p \in {"onboarding", "tabs"} :
                  login' = [login EXCEPT !.page = p, !.web = FALSE,
                                         !.auth = IF f = "result" THEN FALSE ELSE login.auth]
          BY <3>3 DEF HandleTokens, At
        <4> QED  BY <4>1 DEF Pages
      <3> QED  BY <3>1, <3>2, <3>3
    <2> QED  BY <1>2, <2>1 DEF TypeInv, ScreensTyped
  <1>5. ASSUME NEW pc \in SigningIn, Goto(f, pc), MemoryTyped', LogTyped' PROVE TypeInv'
    <2>1. Fits(f, [flows[f] EXCEPT !.pc = pc], server.owners)
      BY <1>1, <1>2, <1>3, GotoFits DEF SigningIn, Refreshing, Fits
    <2> QED  BY <1>1, <1>2, <1>3, <1>4, <1>5, <2>1, FlowStepTypes DEF Goto
  <1>6. CASE HandleTokensFails(f)
    BY <1>1, <1>2, <1>3, <1>4, <1>6, AbortTypes DEF HandleTokensFails, Mishaps
  <1>7. CASE HandleTokens(f) /\ flows[f].pc # "identify"
    <2>1. /\ secure' \in {secure, [secure EXCEPT !.token = t], [secure EXCEPT !.refresh = Owner(t)]}
          /\ auth' \in {auth, [token |-> t, refresh |-> Owner(t), name |-> Owner(t), id |-> Nobody,
                               loading |-> FALSE]}
          /\ sessionLog' \in {sessionLog, [sessionLog EXCEPT !.loggedIn = Owner(t)]}
      BY <1>7 DEF HandleTokens, At
    <2>2. PICK pc \in SigningIn : Goto(f, pc)
      BY <1>7 DEF HandleTokens, At, SigningIn
    <2>3. MemoryTyped'
      <3>1. t \in 0..Len(server.owners) /\ Owner(t) \in {Nobody} \cup Accounts /\ server' = server
        BY <1>2, <1>3
      <3> HIDE DEF t
      <3>2. auth' \in [token: 0..Len(server.owners), refresh: {Nobody} \cup Accounts,
                       name: {Nobody} \cup Accounts, id: {Nobody} \cup Accounts, loading: BOOLEAN]
        <4>1. CASE auth' = auth
          BY <3>1, <4>1 DEF TypeInv, MemoryTyped
        <4>2. CASE auth' = [token |-> t, refresh |-> Owner(t), name |-> Owner(t), id |-> Nobody, loading |-> FALSE]
          BY <3>1, <4>2
        <4> QED  BY <2>1, <4>1, <4>2
      <3>3. secure' \in [token: 0..Len(server.owners), refresh: {Nobody} \cup Accounts]
        BY <2>1, <3>1 DEF TypeInv, MemoryTyped
      <3> QED  BY <3>1, <3>2, <3>3 DEF MemoryTyped
    <2>4. LogTyped'
      BY <1>3, <2>1 DEF TypeInv, LogTyped
    <2> QED  BY <1>5, <2>2, <2>3, <2>4
  <1>8. CASE HandleTokens(f) /\ flows[f].pc = "identify"
    <2>1. /\ End(f) /\ UNCHANGED <<secure, sessionLog>>
          /\ auth' = auth \/ auth' = [auth EXCEPT !.id = Owner(t)]
      BY <1>8 DEF HandleTokens, At
    <2>2. MemoryTyped' /\ LogTyped'
      BY <1>2, <1>3, <2>1 DEF TypeInv, MemoryTyped, LogTyped
    <2> QED  BY <1>1, <1>2, <1>3, <1>4, <2>1, <2>2, IdleFits, FlowStepTypes DEF End
  <1> QED  BY <1>6, <1>7, <1>8

LEMMA ExpireTypes ==
    ASSUME TypeInv, TokensExpire
    PROVE  TypeInv'
  <1>1. /\ UNCHANGED <<auth, secure, flows, gate, login, sessionLog>>
        /\ server' = [server EXCEPT !.expired = Len(server.owners)]
    BY DEF TokensExpire
  <1>2. ServerTyped' /\ server'.owners = server.owners
    BY <1>1, LenProperties DEF TypeInv, ServerTyped
  <1> QED  BY <1>1, <1>2 DEF TypeInv, FlowsFit, MemoryTyped, ScreensTyped, LogTyped, Booting

LEMMA KillTypes ==
    ASSUME TypeInv, KillApp
    PROVE  TypeInv'
  <1>1. /\ UNCHANGED <<secure, server>> /\ auth' = SignedOut /\ flows' = [f \in Flows |-> IdleFlow]
        /\ gate' = [NoConsent EXCEPT !.stored = gate.stored]
        /\ login' = [page |-> "blank", auth |-> FALSE, web |-> FALSE, launch |-> 0]
    BY DEF KillApp
  <1>2. server.owners \in Seq(Accounts) /\ Len(server.owners) \in Nat
    BY LenProperties DEF TypeInv, ServerTyped
  <1>3. FlowsFit'
    BY <1>1, <1>2, IdleFits, PcFacts DEF FlowsFit, IdleFlow, Nobody
  <1>4. MemoryTyped' /\ ScreensTyped' /\ ServerTyped'
    <2>1. 0 \in 0..Len(server.owners) /\ server' = server /\ "blank" \in Pages /\ gate.stored \in BOOLEAN
      BY <1>1, <1>2 DEF Pages, TypeInv, ScreensTyped
    <2>2. auth' \in [token: {0}, refresh: {Nobody}, name: {Nobody}, id: {Nobody}, loading: BOOLEAN]
      BY <1>1 DEF SignedOut
    <2>3. MemoryTyped'
      BY <1>1, <2>1, <2>2 DEF TypeInv, MemoryTyped
    <2>4. gate' \in [loaded: BOOLEAN, terms: BOOLEAN, privacy: BOOLEAN, agreed: BOOLEAN,
                     saving: BOOLEAN, stored: BOOLEAN]
      BY <1>1, <2>1 DEF NoConsent
    <2>5. login' \in [page: Pages, auth: BOOLEAN, web: BOOLEAN, launch: 0..Len(server.owners)]
      BY <1>1, <2>1
    <2> QED  BY <2>1, <2>3, <2>4, <2>5 DEF TypeInv, ScreensTyped, ServerTyped
  <1>5. LogTyped'
    <2>1. PICK m \in Mishaps : Mishap(m)
      BY DEF KillApp, Mishaps
    <2> QED  BY <2>1, MishapTyped DEF TypeInv
  <1>6. Booting'
    BY <1>1, IdleFits DEF Booting, NoConsent, IdleFlow
  <1> QED  BY <1>3, <1>4, <1>5, <1>6 DEF TypeInv

LEMMA TypeStep == TypeInv /\ [SessionNext]_sessionVars => TypeInv'
  <1> SUFFICES ASSUME TypeInv, [SessionNext]_sessionVars PROVE TypeInv'
    OBVIOUS
  <1>1. CASE UNCHANGED sessionVars
    BY <1>1 DEF sessionVars, TypeInv, FlowsFit, ServerTyped, MemoryTyped, ScreensTyped, LogTyped, Booting
  <1>2. CASE SessionStep
    BY <1>2, ScreenTypes, LoadTypes, RestoreTypes, RequestTypes, RefreshTypes, LogoutTypes, ClearTypes,
       OpenLoginTypes, ReturnTypes, HandleTypes, ExpireTypes, KillTypes DEF SessionStep
  <1> QED  BY <1>1, <1>2 DEF SessionNext

LEMMA TypeInit == SessionInit => TypeInv
  <1> SUFFICES ASSUME SessionInit PROVE TypeInv
    OBVIOUS
  <1>1. server.owners = <<>> /\ server.owners \in Seq(Accounts) /\ Len(server.owners) = 0
    BY EmptySeq DEF SessionInit
  <1>2. FlowsFit
    BY <1>1, IdleFits, PcFacts DEF SessionInit, FlowsFit, IdleFlow, Nobody
  <1>3. ServerTyped
    BY <1>1, SessionAssumption DEF SessionInit, ServerTyped
  <1>4. MemoryTyped /\ ScreensTyped /\ LogTyped
    BY <1>1 DEF SessionInit, MemoryTyped, ScreensTyped, LogTyped, SignedOut, NoConsent, Pages, Nobody
  <1>5. Booting
    BY DEF SessionInit, Booting, NoConsent, IdleFlow
  <1> QED  BY <1>2, <1>3, <1>4, <1>5 DEF TypeInv

\* Every variable of the session keeps its type: no flow takes a token that was not issued,
\* and no refresh runs without an account.
THEOREM SessionTypes == SessionSpec => []SessionTypeOK
  <1>1. TypeInv /\ crossed \in BOOLEAN => SessionTypeOK
    <2> SUFFICES ASSUME TypeInv, crossed \in BOOLEAN PROVE SessionTypeOK
      OBVIOUS
    <2>1. Len(server.owners) \in Nat /\ Len(server.owners) <= MaxTokens
      BY LenProperties DEF TypeInv, ServerTyped
    <2>2. 0..Len(server.owners) \subseteq 0..MaxTokens /\ {Nobody} \cup Accounts = 0..MaxLogins
      BY <2>1, SessionAssumption DEF Nobody, Accounts
    <2>3. flows \in [Flows -> [pc: Pcs, token: 0..MaxTokens, refresh: 0..MaxLogins]]
      <3>1. ASSUME NEW f \in Flows PROVE flows[f] \in [pc: Pcs, token: 0..MaxTokens, refresh: 0..MaxLogins]
        BY <2>2, FlowFacts, PcFacts
      <3> QED  BY <3>1 DEF TypeInv, FlowsFit
    <2>4. /\ auth \in [token: 0..MaxTokens, refresh: 0..MaxLogins, name: 0..MaxLogins,
                       id: 0..MaxLogins, loading: BOOLEAN]
          /\ secure \in [token: 0..MaxTokens, refresh: 0..MaxLogins]
      BY <2>2 DEF TypeInv, MemoryTyped
    <2>5. server.owners \in Seq(1..MaxLogins) /\ server.expired \in 0..Len(server.owners)
      BY <2>1 DEF TypeInv, ServerTyped, Accounts
    <2>6. /\ login \in [page: Pages, auth: BOOLEAN, web: BOOLEAN, launch: 0..MaxTokens]
          /\ gate \in [loaded: BOOLEAN, terms: BOOLEAN, privacy: BOOLEAN, agreed: BOOLEAN,
                       saving: BOOLEAN, stored: BOOLEAN]
      BY <2>2 DEF TypeInv, ScreensTyped
    <2>7. sessionLog \in [mishaps: SUBSET Mishaps, loggedIn: 0..MaxLogins, loggedOut: BOOLEAN]
      BY <2>2 DEF TypeInv, LogTyped
    <2> QED  BY <2>3, <2>4, <2>5, <2>6, <2>7 DEF SessionTypeOK
  <1>2. SessionInit => crossed \in BOOLEAN
    BY DEF SessionInit
  <1>3. crossed \in BOOLEAN /\ [SessionNext]_sessionVars => (crossed \in BOOLEAN)'
    BY DEF SessionNext, sessionVars, Crossing
  <1> QED  BY <1>1, <1>2, <1>3, TypeInit, TypeStep, PTL DEF SessionSpec

-----------------------------------------------------------------------------
(* isLoading                                                               *)

LEMMA LoadingStep == TypeInv /\ LoadingEnds /\ [SessionNext]_sessionVars => LoadingEnds'
  <1> SUFFICES ASSUME TypeInv, LoadingEnds, [SessionNext]_sessionVars PROVE LoadingEnds'
    OBVIOUS
  <1>0. /\ flows \in [Flows -> [pc: Pcs, token: Nat, refresh: Nat]] /\ "restore" \in Flows
        /\ Requests \subseteq Flows /\ Links \subseteq Flows /\ "logout" \in Flows /\ "event" \in Flows
        /\ "restore" \notin Requests \cup Links \cup {"event", "result", "logout"}
        /\ auth \in [token: 0..Len(server.owners), refresh: {Nobody} \cup Accounts, name: {Nobody} \cup Accounts,
                     id: {Nobody} \cup Accounts, loading: BOOLEAN]
    BY PcFacts DEF TypeInv, FlowsFit, MemoryTyped, Requests, Links
  <1>1. CASE UNCHANGED sessionVars
    BY <1>1 DEF sessionVars, LoadingEnds
  <1>2. CASE ConsentTicks \/ HandleContinue \/ ConsentSaved \/ LoginButtons \/ LoginDismissed \/ LeavePage \/ TokensExpire
    BY <1>2 DEF LoadingEnds, ConsentTicks, HandleContinue, ConsentSaved, LoginButtons, LoginDismissed, LeavePage, TokensExpire
  <1>3. CASE LoadConsent
    BY <1>0, <1>3 DEF LoadingEnds, LoadConsent
  <1>4. ASSUME NEW f \in Flows, NEW m, Abort(f, m) PROVE LoadingEnds'
    BY <1>0, <1>4 DEF LoadingEnds, Abort, End
  <1>5. CASE RestoreRead \/ RestoreReadRefresh \/ RestoreMe
    <2>1. CASE RestoreRead
      <3>1. CASE Abort("restore", "storeFailed")
        BY <1>0, <1>4, <3>1
      <3>2. CASE /\ UNCHANGED auth
                 /\ flows' = [flows EXCEPT !["restore"] = [@ EXCEPT !.pc = "readRefresh", !.token = secure.token]]
        <4>1. flows'["restore"].pc = "readRefresh"
          BY <1>0, <3>2
        <4> QED  BY <4>1 DEF LoadingEnds
      <3> QED  BY <2>1, <3>1, <3>2 DEF RestoreRead
    <2>2. CASE RestoreReadRefresh
      <3>1. CASE Abort("restore", "storeFailed")
        BY <1>0, <1>4, <3>1
      <3>2. CASE flows' = [flows EXCEPT !["restore"] = [@ EXCEPT !.pc = "me", !.refresh = secure.refresh]]
        <4>1. flows'["restore"].pc = "me"
          BY <1>0, <3>2
        <4> QED  BY <4>1 DEF LoadingEnds
      <3>3. CASE auth' = [auth EXCEPT !.loading = FALSE]
        BY <1>0, <3>3 DEF LoadingEnds
      <3> QED  BY <2>2, <3>1, <3>2, <3>3 DEF RestoreReadRefresh
    <2>3. CASE RestoreMe
      BY <1>0, <1>4, <2>3 DEF LoadingEnds, RestoreMe, Goto
    <2> QED  BY <1>5, <2>1, <2>2, <2>3
  <1>6. ASSUME NEW f \in Requests, StartRequest(f) \/ RequestAnswer(f) PROVE LoadingEnds'
    BY <1>0, <1>6 DEF LoadingEnds, StartRequest, RequestAnswer, End
  <1>7. ASSUME NEW f \in Requests \cup {"restore"}, Refresh(f) \/ KeepTokens(f) \/ Publish(f) \/ Retry(f)
        PROVE  LoadingEnds'
    <2>1. CASE Refresh(f) \/ KeepTokens(f)
      BY <1>0, <1>7, <2>1 DEF LoadingEnds, Refresh, KeepTokens, Goto
    <2>2. CASE Publish(f)
      BY <1>0, <1>7, <2>2 DEF LoadingEnds, Publish, Goto
    <2>3. CASE Retry(f)
      <3>1. CASE Abort(f, "offline")
        BY <1>0, <1>4, <3>1
      <3>2. CASE Goto(f, "drop") /\ UNCHANGED auth
        BY <1>0, <1>7, <3>2 DEF LoadingEnds, Goto
      <3>3. CASE /\ End(f)
                 /\ auth' = IF f = "restore"
                            THEN [auth EXCEPT !.name = Owner(flows[f].token), !.id = Owner(flows[f].token),
                                              !.loading = FALSE]
                            ELSE auth
        BY <1>0, <1>7, <3>3 DEF LoadingEnds, End
      <3> QED  BY <2>3, <3>1, <3>2, <3>3 DEF Retry
    <2> QED  BY <1>7, <2>1, <2>2, <2>3
  <1>8. CASE HandleLogout \/ OpenLogin \/ LoginReturns
    BY <1>0, <1>8 DEF LoadingEnds, HandleLogout, OpenLogin, LoginReturns
  <1>9. ASSUME NEW f \in Requests \cup {"restore", "logout"}, Clear(f) PROVE LoadingEnds'
    <2>1. CASE UNCHANGED auth /\ (Goto(f, "dropRefresh") \/ Goto(f, "wipe"))
      BY <1>0, <1>9, <2>1 DEF LoadingEnds, Goto
    <2>2. CASE End(f) /\ auth' = [SignedOut EXCEPT !.loading = IF f = "restore" THEN FALSE ELSE auth.loading]
      BY <1>0, <1>9, <2>2 DEF LoadingEnds, End, SignedOut
    <2> QED  BY <1>0, <1>4, <1>9, <2>1, <2>2 DEF Clear
  <1>10. ASSUME NEW f \in Links, HandleTokens(f) \/ HandleTokensFails(f) PROVE LoadingEnds'
    <2>1. f \in Flows /\ f # "restore"
      BY <1>0
    <2>2. CASE HandleTokensFails(f)
      BY <1>4, <2>1, <2>2 DEF HandleTokensFails
    <2>3. CASE HandleTokens(f)
      <3>1. flows'["restore"] = flows["restore"]
        BY <1>0, <2>1, <2>3 DEF HandleTokens, Goto, End
      <3>2. auth'.loading => auth.loading
        BY <1>0, <2>3 DEF HandleTokens
      <3> QED  BY <3>1, <3>2 DEF LoadingEnds
    <2> QED  BY <1>10, <2>2, <2>3
  <1>11. CASE KillApp
    BY <1>11 DEF LoadingEnds, KillApp, SignedOut
  <1> QED  BY <1>1, <1>2, <1>3, <1>5, <1>6, <1>7, <1>8, <1>9, <1>10, <1>11 DEF SessionNext, SessionStep

\* isLoading never outlives restoreSession, whichever way its calls fail and whatever else
\* logs in, out or refreshes meanwhile: the buttons of the login screen come back.
THEOREM LoadingFollowsRestore == SessionSpec => []LoadingEnds
  <1>1. SessionInit => LoadingEnds
    BY DEF SessionInit, SignedOut, LoadingEnds
  <1> QED  BY <1>1, TypeInit, TypeStep, LoadingStep, PTL DEF SessionSpec

-----------------------------------------------------------------------------
(* Memory and SecureStore                                                  *)

Busy(P) == \E f \in Flows : flows[f].pc \in P

NoSession == auth.token = 0 /\ auth.refresh = Nobody /\ auth.name = Nobody /\ auth.id = Nobody

\* The tokens in SecureStore are of one account.
Paired == secure.token # 0 => secure.refresh = Owner(secure.token)

\* Memory and SecureStore are of one account, or nobody is signed in.
Uniform ==
    IF auth.refresh = Nobody THEN NoSession
    ELSE /\ secure.refresh = auth.refresh /\ secure.token # 0 /\ Owner(secure.token) = auth.refresh
         /\ auth.token # 0 => Owner(auth.token) = auth.refresh
         /\ auth.name \in {Nobody, auth.refresh} /\ auth.id \in {Nobody, auth.refresh}

\* What a flow at some point has done already
FlowSound(v) ==
    /\ v.pc \in Refreshing => v.refresh = auth.refresh
    /\ v.pc \in Restoring => NoSession
    /\ v.pc \in {"readRefresh", "me"} => v.token = secure.token
    /\ v.pc = "me" => v.token # 0 /\ v.refresh = secure.refresh
    /\ v.pc \in {"dropRefresh", "wipe"} => secure.token = 0
    /\ v.pc = "wipe" => secure.refresh = Nobody
    /\ v.pc \in SigningIn \ {"storeToken"} => secure.token = v.token
    /\ v.pc \in {"signIn", "identify"} => secure.refresh = Owner(v.token)
    /\ v.pc = "identify" => /\ auth.token = v.token /\ auth.refresh = Owner(v.token)
                            /\ auth.name = Owner(v.token) /\ auth.id \in {Nobody, Owner(v.token)}

Sound ==
    /\ ~Busy({"storeRefresh"}) => Paired
    /\ ~Busy(Clearing \cup SigningIn) => Uniform
    /\ \A f \in Flows : FlowSound(flows[f])

\* Holds as long as flows do not cross and SecureStore works
SoundInv ==
    /\ ~crossed => ~Crossing
    /\ ~crossed /\ "storeFailed" \notin sessionLog.mishaps => Sound

\* While flows do not cross, whoever clears or restores is alone, whoever signs in has only
\* the other handler of the same URL beside it, and whoever refreshes only refreshes.
LEMMA Alone ==
    ASSUME TypeInv, ~Crossing, NEW f \in Flows, NEW g \in Flows, f # g, flows[g].pc \notin {"idle", "sent"}
    PROVE  /\ flows[f].pc \notin Clearing \cup Restoring
           /\ flows[f].pc \in Refreshing => flows[g].pc \in Refreshing
           /\ flows[f].pc \in SigningIn => f \in Links /\ g \in Links /\ flows[f].token = flows[g].token
  <1>1. \/ flows[f].pc \in {"idle", "sent"}
        \/ flows[f].pc \in Refreshing /\ flows[g].pc \in Refreshing
        \/ {f, g} = Links /\ flows[f].token = flows[g].token
    BY DEF Crossing
  <1>2. CASE flows[f].pc \in {"idle", "sent"}
    BY <1>2 DEF Refreshing, SigningIn, Clearing, Restoring
  <1>3. CASE flows[f].pc \in Refreshing /\ flows[g].pc \in Refreshing
    BY <1>3 DEF Refreshing, SigningIn, Clearing, Restoring
  <1>4. CASE {f, g} = Links /\ flows[f].token = flows[g].token
    <2>1. f \in Links /\ g \in Links
      BY <1>4
    <2>2. flows[f].pc \in {"idle"} \cup SigningIn
      BY <2>1, FlowFacts, PcFacts
    <2> QED  BY <1>4, <2>1, <2>2 DEF Refreshing, SigningIn, Clearing, Restoring
  <1> QED  BY <1>1, <1>2, <1>3, <1>4

\* A flow that does nothing, or that has not done anything yet
LEMMA FreshSound ==
    ASSUME NEW v, v.pc \in {"idle", "sent", "drop", "storeToken"}
    PROVE  FlowSound(v) /\ FlowSound(v)'
  BY DEF FlowSound, Refreshing, Restoring, SigningIn

\* A token keeps its owner.
LEMMA OwnersKept ==
    ASSUME TypeInv, Grows, NEW t \in 0..Len(server.owners)
    PROVE  Owner(t)' = Owner(t) /\ Owner(t) \in {Nobody} \cup Accounts /\ (t # 0 => Owner(t) \in Accounts)
  <1>1. server.owners \in Seq(Accounts) /\ Len(server.owners) \in Nat
    BY LenProperties DEF TypeInv, ServerTyped
  <1>2. CASE t = 0
    BY <1>2 DEF Owner
  <1>3. CASE t # 0
    <2>1. t \in 1..Len(server.owners)
      BY <1>1, <1>3
    <2>2. server.owners[t] \in Accounts
      BY <1>1, <2>1, ElementOfSeq
    <2>3. server'.owners[t] = server.owners[t]
      BY <1>1, <2>1, AppendProperties DEF Grows
    <2> QED  BY <1>3, <2>2, <2>3 DEF Owner
  <1> QED  BY <1>2, <1>3

\* The session is left alone, in memory and in SecureStore.
SameSession ==
    /\ auth'.token = auth.token /\ auth'.refresh = auth.refresh
    /\ auth'.name = auth.name /\ auth'.id = auth.id /\ secure' = secure /\ Grows

LEMMA SameSound ==
    ASSUME TypeInv, SameSession
    PROVE  /\ Paired => Paired'
           /\ Uniform => Uniform'
           /\ \A f \in Flows : FlowSound(flows[f]) /\ flows'[f] = flows[f] => FlowSound(flows[f])'
  <1>1. /\ Owner(auth.token)' = Owner(auth.token) /\ Owner(secure.token)' = Owner(secure.token)
    <2>1. auth.token \in 0..Len(server.owners) /\ secure.token \in 0..Len(server.owners)
      BY DEF TypeInv, MemoryTyped
    <2> QED  BY <2>1, OwnersKept DEF SameSession, Owner
  <1>2. Paired => Paired'
    BY <1>1 DEF Paired, SameSession
  <1>3. Uniform => Uniform'
    BY <1>1 DEF Uniform, NoSession, SameSession
  <1>4. ASSUME NEW f \in Flows, FlowSound(flows[f]), flows'[f] = flows[f] PROVE FlowSound(flows[f])'
    <2>1. flows[f].token \in 0..Len(server.owners)
      BY FlowFacts
    <2>2. (Owner(flows[f].token))' = Owner(flows[f].token)
      BY <1>4, <2>1, OwnersKept DEF SameSession, Owner
    <2> QED  BY <1>4, <2>2 DEF FlowSound, NoSession, SameSession
  <1> QED  BY <1>2, <1>3, <1>4

LEMMA StillSound ==
    ASSUME TypeInv, Sound, SameSession,
           \A f \in Flows : \/ flows'[f] = flows[f]
                            \/ flows[f].pc \notin Clearing \cup SigningIn /\ FlowSound(flows[f])'
    PROVE  Sound'
  <1>1. \A f \in Flows : FlowSound(flows[f])'
    BY SameSound DEF Sound
  <1>2. ASSUME ~Busy({"storeRefresh"})' PROVE Paired'
    <2>1. ~Busy({"storeRefresh"})
      BY <1>2 DEF Busy, SigningIn
    <2> QED  BY <2>1, SameSound DEF Sound
  <1>3. ASSUME ~Busy(Clearing \cup SigningIn)' PROVE Uniform'
    <2>1. ~Busy(Clearing \cup SigningIn)
      BY <1>3 DEF Busy
    <2> QED  BY <2>1, SameSound DEF Sound
  <1> QED  BY <1>1, <1>2, <1>3 DEF Sound

\* One flow goes on without touching the session.
LEMMA OneStill ==
    ASSUME TypeInv, Sound, SameSession, NEW f \in Flows, NEW v,
           flows' = [flows EXCEPT ![f] = v], flows[f].pc \notin Clearing \cup SigningIn,
           FlowSound(flows[f])'
    PROVE  Sound'
  <1>1. \A g \in Flows : g # f => flows'[g] = flows[g]
    BY DEF TypeInv, FlowsFit
  <1> QED  BY <1>1, StillSound

LEMMA SameScreens ==
    ASSUME TypeInv, Sound,
           ConsentTicks \/ HandleContinue \/ ConsentSaved \/ LoginButtons \/ LoginDismissed \/ LeavePage \/ TokensExpire
    PROVE  Sound'
  <1>1. UNCHANGED <<auth, secure, flows>> /\ server'.owners = server.owners
    BY DEF ConsentTicks, HandleContinue, ConsentSaved, LoginButtons, LoginDismissed, LeavePage, TokensExpire,
       TypeInv, ServerTyped
  <1> QED  BY <1>1, StillSound DEF SameSession, Grows

\* A flow that ends, or goes on to drop, leaves the session alone.
LEMMA EndSound ==
    ASSUME TypeInv, Sound, SameSession, NEW f \in Flows, flows[f].pc \notin Clearing \cup SigningIn,
           End(f) \/ Goto(f, "drop")
    PROVE  Sound'
  <1>1. \E v : flows' = [flows EXCEPT ![f] = v]
    BY DEF End, Goto, TypeInv, FlowsFit
  <1>2. flows'[f].pc \in {"idle", "drop"}
    BY DEF End, Goto, IdleFlow, TypeInv, FlowsFit
  <1>3. FlowSound(flows[f])'
    BY <1>2 DEF FlowSound, Refreshing, Restoring, SigningIn
  <1> QED  BY <1>1, <1>3, OneStill

LEMMA AbortSound ==
    ASSUME TypeInv, Sound, NEW f \in Flows, flows[f].pc \notin Clearing \cup SigningIn, NEW m, Abort(f, m),
           UNCHANGED <<secure, server>>
    PROVE  Sound'
  <1>1. SameSession
    BY DEF SameSession, Grows, Abort, TypeInv, MemoryTyped
  <1> QED  BY <1>1, EndSound DEF Abort

LEMMA LoadSound ==
    ASSUME TypeInv, Sound, LoadConsent
    PROVE  Sound'
  <1>1. auth' = [auth EXCEPT !.loading = TRUE] /\ UNCHANGED <<secure, server>> /\ ~gate.loaded
    BY DEF LoadConsent
  <1>2. SameSession /\ NoSession /\ NoSession' /\ \A f \in Flows : flows[f].pc = "idle"
    BY <1>1 DEF SameSession, Grows, NoSession, TypeInv, MemoryTyped, Booting, SignedOut
  <1>3. ASSUME NEW f \in Flows, flows'[f] # flows[f] PROVE FlowSound(flows[f])'
    <2>1. flows'[f].pc \in {"read", "storeToken"}
      <3>1. PICK linked \in BOOLEAN :
                flows' = [flows EXCEPT !["restore"].pc = "read",
                                       !["event"] = IF linked THEN SignInWith(login.launch) ELSE flows["event"]]
        BY DEF LoadConsent, TypeInv, ScreensTyped, FlowsFit
      <3>2. SignInWith(login.launch).pc = "storeToken"
        BY DEF SignInWith, IdleFlow
      <3>3. f = "event" \/ f = "restore"
        BY <1>3, <3>1 DEF TypeInv, FlowsFit
      <3>4. CASE f = "event"
        BY <1>3, <3>1, <3>2, <3>4 DEF TypeInv, FlowsFit
      <3>5. CASE f = "restore"
        BY <1>3, <3>1, <3>5 DEF TypeInv, FlowsFit
      <3> QED  BY <3>3, <3>4, <3>5
    <2> QED  BY <1>2, <2>1 DEF FlowSound, Refreshing, Restoring, SigningIn
  <1> QED  BY <1>2, <1>3, StillSound DEF Clearing, SigningIn

LEMMA RestoreSound ==
    ASSUME TypeInv, Sound, ~Crossing, RestoreRead \/ RestoreReadRefresh \/ RestoreMe
    PROVE  Sound'
  <1>1. UNCHANGED <<secure, server, gate, login>> /\ flows["restore"].pc \in Restoring
    BY DEF RestoreRead, RestoreReadRefresh, RestoreMe, At, Restoring
  <1>2. /\ "restore" \in Flows /\ flows["restore"].pc \notin Clearing \cup SigningIn
        /\ \A g \in Flows : g # "restore" => flows[g].pc \in {"idle", "sent"}
        /\ \A v : flows' = [flows EXCEPT !["restore"] = v] => flows'["restore"] = v
    BY <1>1, Alone, PcFacts DEF Restoring, Clearing, SigningIn, TypeInv, FlowsFit
  <1>3. NoSession /\ Uniform /\ Paired /\ ~Busy(Clearing \cup SigningIn) /\ ~Busy({"storeRefresh"})
    <2>1. ~Busy(Clearing \cup SigningIn) /\ ~Busy({"storeRefresh"})
      BY <1>1, <1>2 DEF Busy, Clearing, SigningIn
    <2> QED  BY <1>1, <1>2, <2>1 DEF Sound, FlowSound
  <1>4. ASSUME NEW m, Abort("restore", m) PROVE Sound'
    BY <1>1, <1>2, <1>4, AbortSound
  <1>5. UNCHANGED auth => SameSession /\ NoSession'
    BY <1>1, <1>3 DEF SameSession, NoSession, Grows
  <1>6. CASE RestoreRead
    <2>1. CASE UNCHANGED auth /\ flows' = [flows EXCEPT !["restore"] = [@ EXCEPT !.pc = "readRefresh", !.token = secure.token]]
      <3>1. flows'["restore"].pc = "readRefresh" /\ flows'["restore"].token = secure'.token
        BY <1>1, <1>2, <2>1 DEF TypeInv, FlowsFit
      <3>2. FlowSound(flows["restore"])'
        BY <1>5, <2>1, <3>1 DEF FlowSound, Refreshing, Restoring, SigningIn
      <3> QED  BY <1>2, <1>5, <2>1, <3>2, OneStill
    <2> QED  BY <1>4, <1>6, <2>1 DEF RestoreRead
  <1>7. CASE RestoreReadRefresh
    <2>1. CASE /\ UNCHANGED auth /\ flows["restore"].token # 0 /\ At("restore", "readRefresh")
               /\ flows' = [flows EXCEPT !["restore"] = [@ EXCEPT !.pc = "me", !.refresh = secure.refresh]]
      <3>1. /\ flows'["restore"].pc = "me" /\ flows'["restore"].refresh = secure'.refresh
            /\ flows'["restore"].token = flows["restore"].token
        BY <1>1, <1>2, <2>1 DEF TypeInv, FlowsFit
      <3>2. flows["restore"].token = secure.token
        BY <1>2, <2>1 DEF Sound, FlowSound, At
      <3>3. FlowSound(flows["restore"])'
        BY <1>1, <1>5, <2>1, <3>1, <3>2 DEF FlowSound, Refreshing, Restoring, SigningIn
      <3> QED  BY <1>2, <1>5, <2>1, <3>3, OneStill
    <2>2. CASE End("restore") /\ auth' = [auth EXCEPT !.loading = FALSE]
      <3>1. SameSession
        BY <1>1, <2>2 DEF SameSession, Grows, TypeInv, MemoryTyped
      <3> QED  BY <1>2, <2>2, <3>1, EndSound
    <2> QED  BY <1>4, <1>7, <2>1, <2>2 DEF RestoreReadRefresh
  <1>8. CASE RestoreMe
    <2> DEFINE r == flows["restore"]
    <2>1. /\ r.token # 0 /\ r.token = secure.token /\ r.refresh = secure.refresh /\ r.pc = "me"
          /\ secure.refresh = Owner(secure.token) /\ Owner(secure.token) # Nobody
      <3>1. r.token # 0 /\ r.token = secure.token /\ r.refresh = secure.refresh /\ r.pc = "me"
        BY <1>2, <1>8 DEF Sound, FlowSound, RestoreMe, At
      <3>2. Owner(secure.token) \in Accounts
        BY <1>1, <3>1, OwnersKept DEF TypeInv, MemoryTyped, Grows
      <3> QED  BY <1>3, <3>1, <3>2 DEF Paired, Accounts, Nobody
    <2>2. \A t : Owner(t)' = Owner(t)
      BY <1>1 DEF Owner
    <2>3. Paired'
      BY <1>1, <1>3, <2>2 DEF Paired
    <2>4. CASE /\ auth' = [token |-> r.token, refresh |-> r.refresh, name |-> Owner(r.token),
                           id |-> Owner(r.token), loading |-> FALSE]
               /\ End("restore")
      <3>1. Uniform'
        BY <1>1, <2>1, <2>2, <2>4 DEF Uniform
      <3>2. \A g \in Flows : flows'[g].pc \in {"idle", "sent"}
        BY <1>2, <2>4 DEF End, IdleFlow, TypeInv, FlowsFit
      <3>3. \A g \in Flows : FlowSound(flows[g])'
        BY <3>2 DEF FlowSound, Refreshing, Restoring, SigningIn
      <3> QED  BY <2>3, <3>1, <3>3 DEF Sound
    <2>5. CASE auth' = [auth EXCEPT !.refresh = r.refresh] /\ Goto("restore", "refresh")
      <3>1. Uniform'
        BY <1>1, <1>3, <2>1, <2>2, <2>5 DEF Uniform, NoSession, TypeInv, MemoryTyped
      <3>2. \A g \in Flows : g # "restore" => flows'[g].pc \in {"idle", "sent"}
        BY <1>2, <2>5 DEF Goto, TypeInv, FlowsFit
      <3>3. flows'["restore"].pc = "refresh" /\ flows'["restore"].refresh = auth'.refresh
        BY <1>2, <2>5 DEF Goto, TypeInv, FlowsFit, MemoryTyped
      <3>4. \A g \in Flows : FlowSound(flows[g])'
        BY <3>2, <3>3 DEF FlowSound, Refreshing, Restoring, SigningIn
      <3> QED  BY <2>3, <3>1, <3>4 DEF Sound
    <2> QED  BY <1>4, <1>8, <2>1, <2>4, <2>5 DEF RestoreMe
  <1> QED  BY <1>6, <1>7, <1>8

LEMMA RequestSound ==
    ASSUME TypeInv, Sound, NEW f \in Requests, StartRequest(f) \/ RequestAnswer(f)
    PROVE  Sound'
  <1>1. f \in Flows /\ flows[f].pc \in {"idle", "sent"} /\ flows[f].pc \notin Clearing \cup SigningIn
    BY PcFacts DEF StartRequest, RequestAnswer, At, Clearing, SigningIn
  <1>2. UNCHANGED <<auth, secure, server>> /\ SameSession
    BY DEF StartRequest, RequestAnswer, SameSession, Grows
  <1>3. CASE StartRequest(f)
    <2>1. /\ \E v : flows' = [flows EXCEPT ![f] = v]
          /\ flows'[f].pc = "sent"
      BY <1>1, <1>3 DEF StartRequest, IdleFlow, TypeInv, FlowsFit
    <2>2. FlowSound(flows[f])'
      BY <2>1 DEF FlowSound, Refreshing, Restoring, SigningIn
    <2> QED  BY <1>1, <1>2, <2>1, <2>2, OneStill
  <1>4. CASE RequestAnswer(f) /\ End(f)
    BY <1>1, <1>2, <1>4, EndSound
  <1>5. CASE /\ flows' = [flows EXCEPT ![f].pc = IF auth.refresh = Nobody THEN "drop" ELSE "refresh",
                                       ![f].refresh = auth.refresh]
    <2>1. flows' = [flows EXCEPT ![f] = [flows[f] EXCEPT !.pc = IF auth.refresh = Nobody THEN "drop" ELSE "refresh",
                                                         !.refresh = auth.refresh]]
      BY <1>1, <1>5 DEF TypeInv, FlowsFit
    <2>2. flows'[f].pc \in {"drop", "refresh"} /\ flows'[f].refresh = auth'.refresh
      BY <1>1, <1>2, <2>1 DEF TypeInv, FlowsFit
    <2>3. FlowSound(flows[f])'
      BY <2>2 DEF FlowSound, Refreshing, Restoring, SigningIn
    <2> QED  BY <1>1, <1>2, <2>1, <2>3, OneStill
  <1> QED  BY <1>3, <1>4, <1>5 DEF RequestAnswer

\* While a flow refreshes, memory and SecureStore are of one account, which it refreshes.
LEMMA RefreshFacts ==
    ASSUME TypeInv, Sound, ~Crossing, NEW f \in Flows, flows[f].pc \in Refreshing
    PROVE  /\ \A g \in Flows : flows[g].pc \in {"idle", "sent"} \cup Refreshing
           /\ ~Busy(Clearing \cup SigningIn) /\ Uniform /\ Paired
           /\ auth.refresh # Nobody /\ \A g \in Flows : flows[g].pc \in Refreshing => flows[g].refresh = auth.refresh
           /\ flows[f].pc # "refresh" => flows[f].token # 0 /\ Owner(flows[f].token) = auth.refresh
  <1>1. \A g \in Flows : flows[g].pc \in {"idle", "sent"} \cup Refreshing
    BY Alone DEF Refreshing
  <1>2. ~Busy(Clearing \cup SigningIn) /\ ~Busy({"storeRefresh"})
    BY <1>1 DEF Busy, Clearing, SigningIn, Refreshing
  <1>3. \A g \in Flows : flows[g].pc \in Refreshing => flows[g].refresh = auth.refresh
    BY DEF Sound, FlowSound
  <1>4. Fits(f, flows[f], server.owners)
    BY FlowFacts
  <1> QED  BY <1>1, <1>2, <1>3, <1>4 DEF Sound, Fits, Owner

LEMMA RefreshSound ==
    ASSUME TypeInv, Sound, ~Crossing, "storeFailed" \notin sessionLog'.mishaps, NEW f \in Requests \cup {"restore"},
           Refresh(f) \/ KeepTokens(f) \/ Publish(f) \/ Retry(f)
    PROVE  Sound'
  <1>1. f \in Flows /\ flows[f].pc \in Refreshing /\ flows[f].pc \notin Clearing \cup SigningIn
    BY PcFacts DEF Refresh, KeepTokens, Publish, Retry, At, Refreshing, Clearing, SigningIn
  <1>2. /\ \A g \in Flows : flows[g].pc \in {"idle", "sent"} \cup Refreshing
        /\ ~Busy(Clearing \cup SigningIn) /\ Uniform /\ Paired
        /\ auth.refresh # Nobody /\ \A g \in Flows : flows[g].pc \in Refreshing => flows[g].refresh = auth.refresh
        /\ flows[f].pc # "refresh" => flows[f].token # 0 /\ Owner(flows[f].token) = auth.refresh
    BY <1>1, RefreshFacts
  <1>3. UNCHANGED <<auth, secure, server>> => SameSession
    BY DEF SameSession, Grows
  <1>4. UNCHANGED server => \A t : Owner(t)' = Owner(t)
    BY DEF Owner
  \* The steps that write one of the tokens, or the user
  <1>5. ASSUME NEW pc \in Refreshing \cup {"idle"}, Goto(f, pc) \/ End(f), auth'.refresh = auth.refresh, Paired', Uniform'
        PROVE  Sound'
    <2>1. ASSUME NEW g \in Flows
          PROVE  /\ flows'[g].pc \in {"idle", "sent"} \cup Refreshing
                 /\ flows'[g].pc \in Refreshing => flows'[g].refresh = auth.refresh
      <3>1. CASE g # f
        BY <1>1, <1>2, <1>5, <3>1 DEF Goto, End, TypeInv, FlowsFit
      <3>2. CASE g = f /\ End(f)
        BY <1>1, <3>2 DEF End, IdleFlow, Refreshing, TypeInv, FlowsFit
      <3>3. CASE g = f /\ Goto(f, pc)
        BY <1>1, <1>2, <3>3 DEF Goto, TypeInv, FlowsFit
      <3> QED  BY <1>5, <3>1, <3>2, <3>3
    <2>2. ASSUME NEW g \in Flows PROVE FlowSound(flows[g])'
      BY <1>5, <2>1 DEF FlowSound, Refreshing, Restoring, SigningIn
    <2> QED  BY <1>5, <2>2 DEF Sound
  <1>6. CASE Refresh(f)
    <2>1. UNCHANGED <<auth, secure>> /\ At(f, "refresh")
      BY <1>6 DEF Refresh
    <2>2. CASE Goto(f, "drop") /\ UNCHANGED server
      BY <1>1, <1>3, <2>1, <2>2, EndSound
    <2>3. CASE /\ server' = [server EXCEPT !.owners = Append(@, flows[f].refresh)] /\ Len(server.owners) < MaxTokens
               /\ flows' = [flows EXCEPT ![f].pc = "keepToken", ![f].token = Len(server.owners) + 1]
      <3>1. flows[f].refresh \in Accounts
        BY <1>1, FlowFacts DEF Fits
      <3>2. Grows
        BY <2>3, <3>1, IssueTypes DEF TypeInv
      <3>3. flows' = [flows EXCEPT ![f] = [flows[f] EXCEPT !.pc = "keepToken", !.token = Len(server.owners) + 1]]
        BY <1>1, <2>3 DEF TypeInv, FlowsFit
      <3>4. flows'[f].pc = "keepToken" /\ flows'[f].refresh = auth'.refresh
        BY <1>1, <1>2, <2>1, <3>3 DEF TypeInv, FlowsFit
      <3>5. FlowSound(flows[f])'
        BY <3>4 DEF FlowSound, Refreshing, Restoring, SigningIn
      <3>6. SameSession
        BY <2>1, <3>2 DEF SameSession
      <3> QED  BY <1>1, <3>3, <3>5, <3>6, OneStill
    <2> QED  BY <1>6, <2>2, <2>3 DEF Refresh
  <1>7. CASE KeepTokens(f)
    <2>1. UNCHANGED <<auth, server>>
      BY <1>7 DEF KeepTokens
    <2>2. CASE flows[f].pc = "keepToken" /\ secure' = [secure EXCEPT !.token = flows[f].token] /\ Goto(f, "keepRefresh")
      <3>1. secure'.token = flows[f].token /\ secure'.refresh = secure.refresh
        BY <2>2 DEF TypeInv, MemoryTyped
      <3>2. Paired' /\ Uniform'
        BY <1>2, <1>4, <2>1, <2>2, <3>1 DEF Paired, Uniform
      <3> QED  BY <1>5, <2>1, <2>2, <3>2 DEF Refreshing
    <2>3. CASE flows[f].pc = "keepRefresh" /\ secure' = [secure EXCEPT !.refresh = flows[f].refresh] /\ Goto(f, "publish")
      <3>1. secure'.token = secure.token /\ secure'.refresh = auth.refresh
        BY <1>1, <1>2, <2>3 DEF TypeInv, MemoryTyped
      <3>2. Paired' /\ Uniform'
        BY <1>2, <1>4, <2>1, <2>3, <3>1 DEF Paired, Uniform
      <3> QED  BY <1>5, <2>1, <2>3, <3>2 DEF Refreshing
    <2>4. ~Mishap("storeFailed")
      BY DEF Mishap, TypeInv, LogTyped
    <2> QED  BY <1>7, <2>2, <2>3, <2>4 DEF KeepTokens, At
  <1>8. CASE Publish(f)
    <2>1. auth' = [auth EXCEPT !.token = flows[f].token, !.refresh = flows[f].refresh] /\ UNCHANGED <<secure, server>>
      BY <1>8 DEF Publish
    <2>2. /\ auth'.token = flows[f].token /\ auth'.refresh = auth.refresh /\ auth'.name = auth.name /\ auth'.id = auth.id
          /\ Owner(flows[f].token) = auth.refresh /\ Goto(f, "retry")
      BY <1>1, <1>2, <1>8, <2>1 DEF TypeInv, MemoryTyped, Publish, At
    <2>3. Paired' /\ Uniform'
      BY <1>2, <1>4, <2>1, <2>2 DEF Paired, Uniform
    <2> QED  BY <1>5, <2>2, <2>3 DEF Refreshing
  <1>9. CASE Retry(f)
    <2>1. UNCHANGED <<secure, server>> /\ flows[f].pc = "retry"
      BY <1>9 DEF Retry, At
    <2>2. CASE Goto(f, "drop") /\ UNCHANGED auth
      BY <1>1, <1>3, <2>1, <2>2, EndSound
    <2>3. CASE Abort(f, "offline")
      BY <1>1, <2>1, <2>3, AbortSound
    <2>4. CASE /\ End(f)
               /\ auth' = IF f = "restore"
                          THEN [auth EXCEPT !.name = Owner(flows[f].token), !.id = Owner(flows[f].token),
                                            !.loading = FALSE]
                          ELSE auth
      <3>1. /\ auth'.token = auth.token /\ auth'.refresh = auth.refresh
            /\ auth'.name \in {auth.name, auth.refresh} /\ auth'.id \in {auth.id, auth.refresh}
        BY <1>2, <2>1, <2>4 DEF TypeInv, MemoryTyped
      <3>2. Paired' /\ Uniform'
        BY <1>2, <1>4, <2>1, <3>1 DEF Paired, Uniform
      <3> QED  BY <1>5, <2>4, <3>1, <3>2
    <2> QED  BY <1>9, <2>2, <2>3, <2>4 DEF Retry
  <1> QED  BY <1>6, <1>7, <1>8, <1>9

\* Flows that begin, from idle
LEMMA BeginSound ==
    ASSUME TypeInv, Sound, SameSession,
           \A f \in Flows : \/ flows'[f] = flows[f]
                            \/ flows[f].pc = "idle" /\ flows'[f].pc \in {"drop", "storeToken"}
    PROVE  Sound'
  <1>1. ASSUME NEW f \in Flows, flows'[f] # flows[f]
        PROVE  flows[f].pc \notin Clearing \cup SigningIn /\ FlowSound(flows[f])'
    BY <1>1 DEF FlowSound, Refreshing, Restoring, Clearing, SigningIn
  <1> QED  BY <1>1, StillSound

LEMMA BeginFacts ==
    ASSUME TypeInv, HandleLogout \/ OpenLogin \/ LoginReturns
    PROVE  /\ SameSession
           /\ \A f \in Flows : flows'[f] # flows[f] =>
                  flows[f].pc = "idle" /\ (flows'[f].pc = "storeToken" \/ (sessionLog'.loggedOut /\ flows'[f].pc = "drop"))
  <1>1. SignInWith(login.launch).pc = "storeToken" /\ SignInWith(Len(server.owners) + 1).pc = "storeToken"
    BY DEF SignInWith, IdleFlow
  <1>2. SameSession
    <2>1. CASE HandleLogout \/ OpenLogin
      BY <2>1 DEF HandleLogout, OpenLogin, SameSession, Grows
    <2>2. CASE LoginReturns
      BY <2>2, ReturnGrows DEF LoginReturns, SameSession
    <2> QED  BY <2>1, <2>2
  <1>3. ASSUME NEW f \in Flows, flows'[f] # flows[f]
        PROVE  flows[f].pc = "idle" /\ (flows'[f].pc = "storeToken" \/ (sessionLog'.loggedOut /\ flows'[f].pc = "drop"))
    <2> DEFINE begin == SignInWith(login.launch)
               new == SignInWith(Len(server.owners) + 1)
    <2>0. /\ flows \in [Flows -> [pc: Pcs, token: Nat, refresh: Nat]]
          /\ "event" \in Flows /\ "result" \in Flows /\ "logout" \in Flows
      BY PcFacts DEF TypeInv, FlowsFit, Links
    <2>1. CASE HandleLogout
      <3>1. /\ flows["logout"].pc = "idle" /\ flows["event"].pc = "idle"
            /\ flows' = [flows EXCEPT !["logout"].pc = "drop",
                                      !["event"] = IF login.launch = 0 THEN flows["event"] ELSE begin]
        BY <2>0, <2>1 DEF HandleLogout, At
      <3>3. sessionLog'.loggedOut
        BY <2>1 DEF HandleLogout, TypeInv, LogTyped
      <3> HIDE DEF begin
      <3>2. begin.pc = "storeToken"
        BY <1>1 DEF begin
      <3> QED  BY <1>3, <2>0, <3>1, <3>2, <3>3
    <2>2. CASE OpenLogin
      <3>1. /\ flows["event"].pc = "idle" \/ UNCHANGED flows
            /\ UNCHANGED flows \/ flows' = [flows EXCEPT !["event"] = begin]
        BY <2>2 DEF OpenLogin, At
      <3> HIDE DEF begin
      <3>2. begin.pc = "storeToken"
        BY <1>1 DEF begin
      <3> QED  BY <1>3, <2>0, <3>1, <3>2
    <2>3. CASE LoginReturns
      <3>1. \/ UNCHANGED flows
            \/ flows["result"].pc = "idle" /\ flows' = [flows EXCEPT !["result"] = new]
            \/ flows["event"].pc = "idle" /\ flows' = [flows EXCEPT !["event"] = new]
            \/ /\ flows["result"].pc = "idle" /\ flows["event"].pc = "idle"
               /\ flows' = [flows EXCEPT !["result"] = new, !["event"] = new]
        BY <2>3 DEF LoginReturns, At
      <3> HIDE DEF new
      <3>2. new.pc = "storeToken"
        BY <1>1 DEF new
      <3> QED  BY <1>3, <2>0, <3>1, <3>2
    <2> QED  BY <2>1, <2>2, <2>3
  <1> QED  BY <1>2, <1>3

LEMMA ScreenSound ==
    ASSUME TypeInv, Sound, HandleLogout \/ OpenLogin \/ LoginReturns
    PROVE  Sound'
  BY BeginFacts, BeginSound

\* Whoever clears is alone, and when it is done nobody is signed in.
LEMMA ClearSound ==
    ASSUME TypeInv, Sound, ~Crossing, "storeFailed" \notin sessionLog'.mishaps,
           NEW f \in Requests \cup {"restore", "logout"}, Clear(f)
    PROVE  Sound'
  <1>1. f \in Flows /\ flows[f].pc \in Clearing /\ UNCHANGED server
    BY PcFacts DEF Clear, At, Clearing
  <1>2. \A g \in Flows : g # f => flows[g].pc \in {"idle", "sent"}
    BY <1>1, Alone DEF Clearing
  <1>3. ASSUME \/ Goto(f, "dropRefresh") /\ secure'.token = 0
               \/ Goto(f, "wipe") /\ secure'.token = 0 /\ secure'.refresh = Nobody
        PROVE  Sound'
    <2>1. \A g \in Flows : g # f => flows'[g].pc \in {"idle", "sent"}
      BY <1>1, <1>2, <1>3 DEF Goto, TypeInv, FlowsFit
    <2>2. flows'[f].pc \in Clearing /\ (flows'[f].pc = "wipe" => secure'.refresh = Nobody)
      BY <1>1, <1>3 DEF Goto, Clearing, TypeInv, FlowsFit
    <2>3. \A g \in Flows : FlowSound(flows[g])'
      BY <1>3, <2>1, <2>2 DEF FlowSound, Refreshing, Restoring, SigningIn, Clearing
    <2>4. Busy(Clearing \cup SigningIn)'
      BY <1>1, <2>2 DEF Busy
    <2> QED  BY <1>3, <2>3, <2>4 DEF Sound, Paired
  <1>4. CASE At(f, "drop") /\ secure' = [secure EXCEPT !.token = 0] /\ Goto(f, "dropRefresh")
    BY <1>3, <1>4 DEF TypeInv, MemoryTyped
  <1>5. CASE At(f, "dropRefresh") /\ secure' = [secure EXCEPT !.refresh = Nobody] /\ Goto(f, "wipe")
    <2>1. secure.token = 0
      BY <1>1, <1>5 DEF Sound, FlowSound, At
    <2> QED  BY <1>3, <1>5, <2>1 DEF TypeInv, MemoryTyped
  <1>6. CASE /\ At(f, "wipe") /\ End(f) /\ UNCHANGED secure
             /\ auth' = [SignedOut EXCEPT !.loading = IF f = "restore" THEN FALSE ELSE auth.loading]
    <2>1. secure'.token = 0
      BY <1>1, <1>6 DEF Sound, FlowSound, At
    <2>2. auth'.token = 0 /\ auth'.refresh = Nobody /\ auth'.name = Nobody /\ auth'.id = Nobody
      BY <1>6 DEF SignedOut
    <2>3. \A g \in Flows : flows'[g].pc \in {"idle", "sent"}
      BY <1>1, <1>2, <1>6 DEF End, IdleFlow, TypeInv, FlowsFit
    <2>4. \A g \in Flows : FlowSound(flows[g])'
      BY <2>3 DEF FlowSound, Refreshing, Restoring, SigningIn
    <2> QED  BY <2>1, <2>2, <2>4 DEF Sound, Paired, Uniform, NoSession
  <1>7. CASE Abort(f, "storeFailed")
    BY <1>7 DEF Abort, Mishap, TypeInv, LogTyped
  <1> QED  BY <1>4, <1>5, <1>6, <1>7 DEF Clear

\* A login stores its tokens and sets them; the other handler of its URL does the same.
LEMMA HandleSound ==
    ASSUME TypeInv, Sound, ~Crossing, "storeFailed" \notin sessionLog'.mishaps,
           NEW f \in Links, HandleTokens(f) \/ HandleTokensFails(f)
    PROVE  Sound'
  <1> DEFINE t == flows[f].token
  <1>1. f \in Flows /\ flows[f].pc \in SigningIn /\ UNCHANGED server
    BY PcFacts DEF HandleTokens, HandleTokensFails, At, SigningIn
  <1>2. ASSUME NEW g \in Flows, g # f
        PROVE  flows[g].pc \in {"idle", "sent"} \/ (flows[g].pc \in SigningIn /\ flows[g].token = t)
    <2>1. CASE flows[g].pc \notin {"idle", "sent"}
      <3>1. g \in Links /\ flows[f].token = flows[g].token
        BY <1>1, <1>2, <2>1, Alone
      <3>2. flows[g].pc \in {"idle"} \cup SigningIn
        BY <1>2, <3>1, FlowFacts, PcFacts
      <3> QED  BY <2>1, <3>1, <3>2
    <2>2. CASE flows[g].pc \in {"idle", "sent"}
      BY <2>2
    <2> QED  BY <2>1, <2>2
  <1>3. t # 0 /\ t \in 0..Len(server.owners) /\ Owner(t) \in Accounts /\ Owner(t) # Nobody
        /\ \A u : Owner(u)' = Owner(u)
    <2>1. t # 0 /\ t \in 0..Len(server.owners)
      BY <1>1, FlowFacts DEF Fits
    <2>2. \A u : Owner(u)' = Owner(u)
      BY <1>1 DEF Owner
    <2>3. Owner(t) \in Accounts
      BY <1>1, <2>1, OwnersKept DEF Grows
    <2> QED  BY <2>1, <2>2, <2>3 DEF Accounts, Nobody
  <1>4. ~HandleTokensFails(f)
    BY DEF HandleTokensFails, Abort, Mishap, TypeInv, LogTyped
  \* Going on with the login: the flow busy with it keeps Uniform out of question.
  <1>5. ASSUME NEW pc \in SigningIn, Goto(f, pc), pc = "storeRefresh" \/ Paired',
               \A g \in Flows : FlowSound(flows[g])'
        PROVE  Sound'
    <2>1. flows'[f].pc = pc
      BY <1>1, <1>5 DEF Goto, TypeInv, FlowsFit
    <2> QED  BY <1>1, <1>5, <2>1 DEF Sound, Busy
  \* After the step every flow is as it was, or is this one with its token.
  <1>6. ASSUME NEW pc, Goto(f, pc), NEW g \in Flows
        PROVE  \/ flows'[g].pc \in {"idle", "sent"}
               \/ g # f /\ flows'[g] = flows[g] /\ flows[g].pc \in SigningIn /\ flows'[g].token = t
               \/ g = f /\ flows'[g].pc = pc /\ flows'[g].token = t
    BY <1>1, <1>2, <1>6 DEF Goto, TypeInv, FlowsFit
  <1>7. CASE At(f, "storeToken") /\ secure' = [secure EXCEPT !.token = t] /\ Goto(f, "storeRefresh") /\ UNCHANGED auth
    <2>1. secure'.token = t /\ secure'.refresh = secure.refresh
      BY <1>7 DEF TypeInv, MemoryTyped
    <2>2. ASSUME NEW g \in Flows PROVE FlowSound(flows[g])'
      <3>1. FlowSound(flows[g])
        BY DEF Sound
      <3> HIDE DEF t
      <3> QED  BY <1>3, <1>6, <1>7, <2>1, <3>1 DEF FlowSound, Refreshing, Restoring, SigningIn
    <2> QED  BY <1>5, <1>7, <2>2 DEF SigningIn
  <1>8. CASE At(f, "storeRefresh") /\ secure' = [secure EXCEPT !.refresh = Owner(t)] /\ Goto(f, "signIn") /\ UNCHANGED auth
    <2>1. secure'.token = secure.token /\ secure'.refresh = Owner(t) /\ secure.token = t
      BY <1>1, <1>8 DEF TypeInv, MemoryTyped, Sound, FlowSound, SigningIn, At
    <2>2. ASSUME NEW g \in Flows PROVE FlowSound(flows[g])'
      <3>1. FlowSound(flows[g])
        BY DEF Sound
      <3> HIDE DEF t
      <3> QED  BY <1>3, <1>6, <1>8, <2>1, <3>1 DEF FlowSound, Refreshing, Restoring, SigningIn
    <2>3. Paired'
      BY <1>3, <2>1 DEF Paired
    <2> QED  BY <1>5, <1>8, <2>2, <2>3 DEF SigningIn
  <1>9. CASE /\ At(f, "signIn") /\ Goto(f, "identify") /\ UNCHANGED secure
             /\ auth' = [token |-> t, refresh |-> Owner(t), name |-> Owner(t), id |-> Nobody, loading |-> FALSE]
    <2>1. secure.token = t /\ secure.refresh = Owner(t)
      BY <1>1, <1>9 DEF Sound, FlowSound, SigningIn, At
    <2>2. auth'.token = t /\ auth'.refresh = Owner(t) /\ auth'.name = Owner(t) /\ auth'.id = Nobody
      BY <1>9
    <2>3. ASSUME NEW g \in Flows PROVE FlowSound(flows[g])'
      <3>1. FlowSound(flows[g])
        BY DEF Sound
      <3> HIDE DEF t
      <3> QED  BY <1>3, <1>6, <1>9, <2>1, <2>2, <3>1 DEF FlowSound, Refreshing, Restoring, SigningIn
    <2>4. Paired'
      BY <1>3, <1>9, <2>1 DEF Paired
    <2> QED  BY <1>5, <1>9, <2>3, <2>4 DEF SigningIn
  <1>10. CASE /\ At(f, "identify") /\ End(f) /\ UNCHANGED secure
              /\ auth' = auth \/ auth' = [auth EXCEPT !.id = Owner(t)]
    <2>1. /\ secure.token = t /\ secure.refresh = Owner(t) /\ auth.token = t /\ auth.refresh = Owner(t)
          /\ auth.name = Owner(t) /\ auth.id \in {Nobody, Owner(t)}
      BY <1>1, <1>10 DEF Sound, FlowSound, SigningIn, At
    <2>2. /\ auth'.token = t /\ auth'.refresh = Owner(t) /\ auth'.name = Owner(t)
          /\ auth'.id \in {Nobody, Owner(t)}
      BY <1>10, <2>1 DEF TypeInv, MemoryTyped
    <2>3. Paired' /\ Uniform'
      BY <1>3, <1>10, <2>1, <2>2 DEF Paired, Uniform
    <2>4. ASSUME NEW g \in Flows PROVE FlowSound(flows[g])'
      <3>1. FlowSound(flows[g])
        BY DEF Sound
      <3>2. \/ flows'[g].pc \in {"idle", "sent"}
            \/ flows'[g] = flows[g] /\ flows[g].pc \in SigningIn /\ flows'[g].token = t
        <4>1. CASE g = f
          BY <1>1, <1>10, <4>1 DEF End, IdleFlow, TypeInv, FlowsFit
        <4>2. CASE g # f
          <5>1. flows'[g] = flows[g]
            BY <1>1, <1>10, <4>2 DEF End, TypeInv, FlowsFit
          <5> QED  BY <1>2, <4>2, <5>1
        <4> QED  BY <4>1, <4>2
      <3> HIDE DEF t
      <3> QED  BY <1>3, <1>10, <2>1, <2>2, <3>1, <3>2 DEF FlowSound, Refreshing, Restoring, SigningIn
    <2> QED  BY <2>3, <2>4 DEF Sound
  <1>11. HandleTokens(f) /\ flows[f].pc = "identify" => auth' = auth \/ auth' = [auth EXCEPT !.id = Owner(t)]
    BY DEF HandleTokens, At
  <1> QED  BY <1>4, <1>7, <1>8, <1>9, <1>10, <1>11 DEF HandleTokens, At

\* Killed while one of two tokens was stored counts as a store that failed; otherwise
\* SecureStore is paired, and nothing is left in memory.
LEMMA KillSound ==
    ASSUME TypeInv, Sound, "storeFailed" \notin sessionLog'.mishaps, KillApp
    PROVE  Sound'
  <1>1. /\ auth' = SignedOut /\ flows' = [f \in Flows |-> IdleFlow] /\ UNCHANGED <<secure, server>>
        /\ ~ \E f \in Flows : flows[f].pc \in {"keepRefresh", "storeRefresh"}
    BY DEF KillApp, Mishap, TypeInv, LogTyped
  <1>2. Paired /\ Paired'
    BY <1>1 DEF Sound, Busy, Paired, Owner
  <1>3. Uniform'
    BY <1>1 DEF Uniform, NoSession, SignedOut
  <1>4. \A f \in Flows : FlowSound(flows[f])'
    BY <1>1 DEF FlowSound, IdleFlow, Refreshing, Restoring, SigningIn
  <1> QED  BY <1>2, <1>3, <1>4 DEF Sound

\* What the history records stays recorded, and only a login changes who logged in last.
LEMMA LogGrows ==
    ASSUME TypeInv, SessionStep
    PROVE  /\ sessionLog.mishaps \subseteq sessionLog'.mishaps
           /\ sessionLog.loggedOut => sessionLog'.loggedOut
           /\ sessionLog'.loggedIn = sessionLog.loggedIn \/ \E f \in Links : HandleTokens(f) /\ flows[f].pc = "signIn"
  <1> DEFINE Goal == /\ sessionLog.mishaps \subseteq sessionLog'.mishaps
                     /\ sessionLog.loggedOut => sessionLog'.loggedOut
                     /\ \/ sessionLog'.loggedIn = sessionLog.loggedIn
                        \/ \E f \in Links : HandleTokens(f) /\ flows[f].pc = "signIn"
  <1>1. ASSUME NEW m, Mishap(m) PROVE Goal
    BY <1>1 DEF Mishap, TypeInv, LogTyped
  <1>2. ASSUME UNCHANGED sessionLog PROVE Goal
    BY <1>2
  <1>3. CASE LoadConsent \/ ConsentTicks \/ HandleContinue \/ ConsentSaved
    BY <1>1, <1>2, <1>3 DEF LoadConsent, ConsentTicks, HandleContinue, ConsentSaved
  <1>4. CASE RestoreRead \/ RestoreReadRefresh \/ RestoreMe
    BY <1>1, <1>2, <1>4 DEF RestoreRead, RestoreReadRefresh, RestoreMe, Abort
  <1>5. ASSUME NEW f, StartRequest(f) \/ RequestAnswer(f) PROVE Goal
    BY <1>2, <1>5 DEF StartRequest, RequestAnswer
  <1>6. ASSUME NEW f, Refresh(f) \/ KeepTokens(f) \/ Publish(f) \/ Retry(f) PROVE Goal
    BY <1>1, <1>2, <1>6 DEF Refresh, KeepTokens, Publish, Retry, Abort
  <1>7. CASE HandleLogout
    BY <1>7 DEF HandleLogout, TypeInv, LogTyped
  <1>8. ASSUME NEW f, Clear(f) PROVE Goal
    BY <1>1, <1>2, <1>8 DEF Clear, Abort
  <1>9. CASE OpenLogin \/ LoginButtons \/ LoginDismissed \/ LoginReturns \/ LeavePage \/ TokensExpire
    BY <1>2, <1>9 DEF OpenLogin, LoginButtons, LoginDismissed, LoginReturns, LeavePage, TokensExpire
  <1>10. ASSUME NEW f \in Links, HandleTokensFails(f) PROVE Goal
    BY <1>1, <1>10 DEF HandleTokensFails, Abort
  <1>11. ASSUME NEW f \in Links, HandleTokens(f) PROVE Goal
    <2>1. CASE flows[f].pc = "signIn"
      BY <1>11, <2>1 DEF HandleTokens, At, TypeInv, LogTyped
    <2>2. CASE flows[f].pc # "signIn"
      BY <1>2, <1>11, <2>2 DEF HandleTokens, At
    <2> QED  BY <2>1, <2>2
  <1>12. CASE KillApp
    BY <1>1, <1>12 DEF KillApp
  <1> QED
    BY <1>3, <1>4, <1>5, <1>6, <1>7, <1>8, <1>9, <1>10, <1>11, <1>12 DEF SessionStep

LEMMA SoundStep == TypeInv /\ SoundInv /\ [SessionNext]_sessionVars => SoundInv'
  <1> SUFFICES ASSUME TypeInv, SoundInv, [SessionNext]_sessionVars PROVE SoundInv'
    OBVIOUS
  <1>1. CASE UNCHANGED sessionVars
    BY <1>1 DEF sessionVars, SoundInv, Crossing, Sound, Busy, Paired, Uniform, NoSession, FlowSound, Owner
  <1>2. CASE SessionNext
    <2>1. ~crossed /\ ~Crossing /\ SessionStep /\ (~crossed' => ~Crossing')
      BY <1>2 DEF SessionNext, SoundInv
    <2>2. ASSUME ~crossed', "storeFailed" \notin sessionLog'.mishaps PROVE Sound'
      <3>1. Sound
        BY <2>1, <2>2, LogGrows DEF SoundInv
      <3>2. "storeFailed" \notin sessionLog'.mishaps
        BY <2>2
      <3> QED  BY <2>1, <3>1, <3>2, SameScreens, LoadSound, RestoreSound, RequestSound, RefreshSound, ScreenSound,
                  ClearSound, HandleSound, KillSound DEF SessionStep
    <2> QED  BY <2>1, <2>2 DEF SoundInv
  <1> QED  BY <1>1, <1>2

LEMMA SoundInit == SessionInit => SoundInv
  <1> SUFFICES ASSUME SessionInit PROVE SoundInv
    OBVIOUS
  <1>1. \A f \in Flows : flows[f].pc = "idle"
    BY DEF SessionInit, IdleFlow
  <1>2. auth = SignedOut /\ secure.token = 0
    BY DEF SessionInit
  <1>3. Sound
    BY <1>1, <1>2 DEF Sound, Paired, Uniform, NoSession, SignedOut, FlowSound, Refreshing, Restoring, SigningIn
  <1> QED  BY <1>1, <1>3 DEF SoundInv, Crossing

LEMMA QuietSound ==
    ASSUME TypeInv, SoundInv, Quiet, ~crossed, "storeFailed" \notin sessionLog.mishaps
    PROVE  Uniform
  <1>1. ~Busy(Clearing \cup SigningIn)
    BY DEF Quiet, Busy, Clearing, SigningIn
  <1> QED  BY <1>1 DEF SoundInv, Sound

\* When nothing is in progress, no two flows crossed and SecureStore works, memory and
\* SecureStore hold one account, for any number of logins, tokens and concurrent requests:
\* the token in memory is of the user who is shown, and a restart restores that account.
THEOREM SessionIsConsistent == SessionSpec => []SessionConsistent
  <1>1. TypeInv /\ SoundInv => SessionConsistent
    BY QuietSound DEF SessionConsistent, Uniform, NoSession, Nobody
  <1> QED  BY <1>1, TypeInit, TypeStep, SoundInit, SoundStep, PTL DEF SessionSpec

-----------------------------------------------------------------------------
(* The account that logged in last                                         *)

Undisturbed == /\ sessionLog.loggedIn # Nobody /\ ~sessionLog.loggedOut /\ sessionLog.mishaps = {}
               /\ ~crossed

Kept ==
    /\ gate.loaded /\ ~Busy(Clearing \cup Restoring)
    /\ ~Busy(SigningIn) => auth.name = sessionLog.loggedIn /\ auth.refresh = sessionLog.loggedIn
    /\ \A f \in Flows : flows[f].pc = "identify" => sessionLog.loggedIn = Owner(flows[f].token)

KeptInv == Undisturbed => Kept

\* A step that signs nobody in or out
LEMMA StillKept ==
    ASSUME TypeInv, Kept, auth'.name = auth.name, auth'.refresh = auth.refresh, gate'.loaded, Grows,
           sessionLog'.loggedIn = sessionLog.loggedIn,
           \A f \in Flows : \/ flows'[f] = flows[f]
                            \/ /\ flows[f].pc \notin SigningIn
                               /\ flows'[f].pc \notin Clearing \cup Restoring \cup {"identify"}
    PROVE  Kept'
  <1>1. ASSUME NEW f \in Flows PROVE flows'[f].pc \notin Clearing \cup Restoring
    BY DEF Kept, Busy
  <1>2. ASSUME ~Busy(SigningIn)' PROVE ~Busy(SigningIn)
    BY <1>2 DEF Busy
  <1>3. ASSUME NEW f \in Flows, flows'[f].pc = "identify" PROVE sessionLog'.loggedIn = Owner(flows[f].token)'
    <2>1. flows'[f] = flows[f] /\ flows[f].token \in 0..Len(server.owners)
      BY <1>3, FlowFacts DEF SigningIn
    <2>2. Owner(flows[f].token)' = Owner(flows[f].token)
      BY <2>1, OwnersKept DEF Owner
    <2> QED  BY <1>3, <2>1, <2>2 DEF Kept
  <1> QED  BY <1>1, <1>2, <1>3 DEF Kept, Busy

LEMMA KeptScreens ==
    ASSUME TypeInv, Kept, LoadConsent \/ ConsentTicks \/ HandleContinue \/ ConsentSaved \/ LoginButtons
                          \/ LoginDismissed \/ LeavePage \/ TokensExpire \/ OpenLogin \/ LoginReturns,
           sessionLog'.loggedIn = sessionLog.loggedIn, ~sessionLog'.loggedOut
    PROVE  Kept'
  <1>1. gate.loaded /\ ~LoadConsent
    BY DEF Kept, LoadConsent
  <1>2. CASE OpenLogin \/ LoginReturns
    <2>1. SameSession /\ gate' = gate
      BY <1>2, BeginFacts DEF OpenLogin, LoginReturns
    <2>2. ASSUME NEW f \in Flows, flows'[f] # flows[f]
          PROVE  flows[f].pc = "idle" /\ flows'[f].pc = "storeToken"
      BY <1>2, <2>2, BeginFacts
    <2>3. ASSUME NEW f \in Flows, flows'[f] # flows[f]
          PROVE  flows[f].pc \notin SigningIn /\ flows'[f].pc \notin Clearing \cup Restoring \cup {"identify"}
      BY <2>2, <2>3 DEF SigningIn, Clearing, Restoring
    <2> QED  BY <1>1, <2>1, <2>3, StillKept DEF SameSession
  <1>3. CASE ConsentTicks \/ HandleContinue \/ ConsentSaved \/ LoginButtons \/ LoginDismissed \/ LeavePage \/ TokensExpire
    <2>1. UNCHANGED <<auth, flows>> /\ gate'.loaded = gate.loaded /\ Grows
      BY <1>3 DEF ConsentTicks, HandleContinue, ConsentSaved, LoginButtons, LoginDismissed, LeavePage, TokensExpire,
         TypeInv, ScreensTyped, ServerTyped, Grows
    <2> QED  BY <1>1, <2>1, StillKept
  <1> QED  BY <1>1, <1>2, <1>3

\* A request that gets a 401 refreshes: the account is in memory, unless somebody signs in,
\* and then the request would cross it.
LEMMA KeptRequests ==
    ASSUME TypeInv, Kept, ~Crossing', sessionLog.loggedIn # Nobody,
           NEW f \in Requests, StartRequest(f) \/ RequestAnswer(f)
    PROVE  Kept'
  <1>1. f \in Flows /\ f \notin Links /\ flows[f].pc \notin SigningIn /\ Grows
        /\ UNCHANGED <<auth, gate, server, sessionLog>> /\ gate'.loaded
    BY PcFacts DEF StartRequest, RequestAnswer, At, SigningIn, Requests, Links, Grows, Kept
  <1>2. \A g \in Flows : g # f => flows'[g] = flows[g]
    BY <1>1 DEF StartRequest, RequestAnswer, End, TypeInv, FlowsFit
  <1>3. flows'[f].pc \in {"sent", "idle", "drop", "refresh"} /\ (flows'[f].pc = "drop" => auth.refresh = Nobody)
    <2>1. CASE StartRequest(f)
      BY <1>1, <2>1 DEF StartRequest, IdleFlow, TypeInv, FlowsFit
    <2>2. CASE RequestAnswer(f) /\ Accepted(flows[f].token)
      BY <1>1, <2>2 DEF RequestAnswer, End, IdleFlow, TypeInv, FlowsFit
    <2>3. CASE RequestAnswer(f) /\ ~Accepted(flows[f].token)
      <3>1. flows' = [flows EXCEPT ![f] = [flows[f] EXCEPT
                                             !.pc = IF auth.refresh = Nobody THEN "drop" ELSE "refresh",
                                             !.refresh = auth.refresh]]
        BY <1>1, <2>3 DEF RequestAnswer, TypeInv, FlowsFit
      <3>2. flows'[f].pc = IF auth.refresh = Nobody THEN "drop" ELSE "refresh"
        BY <1>1, <3>1 DEF TypeInv, FlowsFit
      <3> QED  BY <3>2
    <2> QED  BY <2>1, <2>2, <2>3
  <1>4. flows'[f].pc # "drop"
    <2> SUFFICES ASSUME flows'[f].pc = "drop" PROVE FALSE
      OBVIOUS
    <2>1. Busy(SigningIn)
      BY <1>3 DEF Kept
    <2>2. PICK g \in Flows : flows[g].pc \in SigningIn
      BY <2>1 DEF Busy
    <2>3. g # f /\ flows'[g].pc \in SigningIn /\ flows'[f].pc = "drop"
      BY <1>1, <1>2, <2>2
    <2> QED  BY <1>1, <2>3 DEF Crossing, SigningIn, Refreshing
  <1>5. \A g \in Flows : flows'[g] = flows[g] \/
            (flows[g].pc \notin SigningIn /\ flows'[g].pc \notin Clearing \cup Restoring \cup {"identify"})
    BY <1>1, <1>2, <1>3, <1>4 DEF Clearing, Restoring
  <1> QED  BY <1>1, <1>5, StillKept

\* A refresh is of the account that is in memory, and fails only by a mishap.
LEMMA KeptRefreshes ==
    ASSUME TypeInv, Sound, Kept, ~Crossing, sessionLog'.mishaps = {},
           sessionLog'.loggedIn = sessionLog.loggedIn, NEW f \in Requests \cup {"restore"},
           Refresh(f) \/ KeepTokens(f) \/ Publish(f) \/ Retry(f)
    PROVE  Kept'
  <1>1. /\ f \in Flows /\ flows[f].pc \in Refreshing /\ flows[f].pc \notin SigningIn
        /\ gate' = gate /\ gate'.loaded
    BY PcFacts DEF Refresh, KeepTokens, Publish, Retry, At, Refreshing, SigningIn, Kept
  <1>2. /\ ~Busy(Clearing \cup SigningIn) /\ flows[f].refresh = auth.refresh
        /\ flows[f].pc # "refresh" => Owner(flows[f].token) = auth.refresh
    BY <1>1, RefreshFacts
  <1>3. \A m : ~Mishap(m)
    BY DEF Mishap, TypeInv, LogTyped
  <1>4. auth.name = auth.refresh
    BY <1>2 DEF Kept, Busy
  <1>5. ASSUME NEW v, flows' = [flows EXCEPT ![f] = v], v.pc \in Refreshing \cup {"idle"}, Grows,
               auth'.name = auth.name, auth'.refresh = auth.refresh
        PROVE  Kept'
    <2>1. \A g \in Flows : g # f => flows'[g] = flows[g]
      BY <1>1, <1>5 DEF TypeInv, FlowsFit
    <2>2. flows'[f].pc \notin Clearing \cup Restoring \cup {"identify"}
      BY <1>1, <1>5 DEF TypeInv, FlowsFit, Refreshing, Clearing, Restoring
    <2> QED  BY <1>1, <1>5, <2>1, <2>2, StillKept
  <1>6. ASSUME NEW pc \in Refreshing, Goto(f, pc), UNCHANGED server, auth'.name = auth.name, auth'.refresh = auth.refresh
        PROVE  Kept'
    <2>1. [flows[f] EXCEPT !.pc = pc].pc \in Refreshing \cup {"idle"}
      BY <1>1, <1>6 DEF TypeInv, FlowsFit
    <2> HIDE DEF Refreshing
    <2> QED  BY <1>5, <1>6, <2>1 DEF Goto, Grows
  <1>7. CASE Refresh(f)
    <2>1. /\ Len(server.owners) < MaxTokens /\ server' = [server EXCEPT !.owners = Append(@, flows[f].refresh)]
          /\ flows' = [flows EXCEPT ![f].pc = "keepToken", ![f].token = Len(server.owners) + 1]
          /\ UNCHANGED auth
      BY <1>3, <1>7 DEF Refresh
    <2>2. flows[f].refresh \in Accounts
      BY <1>1, FlowFacts DEF Fits
    <2>3. Grows
      BY <2>1, <2>2, IssueTypes DEF TypeInv
    <2> DEFINE v == [flows[f] EXCEPT !.pc = "keepToken", !.token = Len(server.owners) + 1]
    <2>4. flows' = [flows EXCEPT ![f] = v] /\ v.pc = "keepToken"
      BY <1>1, <2>1 DEF TypeInv, FlowsFit
    <2> HIDE DEF v
    <2> QED  BY <1>5, <2>1, <2>3, <2>4 DEF Refreshing
  <1>8. CASE KeepTokens(f)
    BY <1>3, <1>6, <1>8 DEF KeepTokens, Refreshing
  <1>9. CASE Publish(f)
    <2>1. auth'.name = auth.name /\ auth'.refresh = auth.refresh
      BY <1>2, <1>9 DEF Publish, TypeInv, MemoryTyped
    <2> QED  BY <1>6, <1>9, <2>1 DEF Publish, Refreshing
  <1>10. CASE Retry(f)
    <2>1. /\ End(f) /\ UNCHANGED server /\ flows[f].pc = "retry"
          /\ auth' = IF f = "restore"
                     THEN [auth EXCEPT !.name = Owner(flows[f].token), !.id = Owner(flows[f].token),
                                       !.loading = FALSE]
                     ELSE auth
      BY <1>3, <1>10 DEF Retry, Abort, At
    <2>2. auth'.name = auth.name /\ auth'.refresh = auth.refresh
      BY <1>2, <1>4, <2>1 DEF TypeInv, MemoryTyped
    <2>3. Grows /\ IdleFlow.pc = "idle"
      BY <2>1 DEF Grows, IdleFlow
    <2> QED  BY <1>5, <2>1, <2>2, <2>3 DEF End
  <1> QED  BY <1>7, <1>8, <1>9, <1>10

\* A login that goes on, or is done
LEMMA KeptHandles ==
    ASSUME TypeInv, Sound, ~Crossing, sessionLog'.mishaps = {}, NEW f \in Links,
           HandleTokens(f) \/ HandleTokensFails(f), flows[f].pc # "signIn" => Kept
    PROVE  Kept'
  <1> DEFINE t == flows[f].token
  <1>1. f \in Flows /\ flows[f].pc \in SigningIn /\ UNCHANGED <<server, gate>> /\ gate.loaded /\ gate'.loaded
    <2>1. f \in Flows /\ flows[f].pc \in SigningIn /\ UNCHANGED <<server, gate>>
      BY PcFacts DEF HandleTokens, HandleTokensFails, At, SigningIn
    <2>2. gate.loaded
      BY <2>1, FlowFacts DEF SigningIn
    <2> QED  BY <2>1, <2>2
  <1>2. HandleTokens(f)
    BY DEF HandleTokensFails, Abort, Mishap, TypeInv, LogTyped
  <1>3. ASSUME NEW g \in Flows, g # f
        PROVE  /\ flows'[g] = flows[g] /\ flows[g].pc \notin Clearing \cup Restoring
               /\ flows[g].pc \in SigningIn => flows[g].token = t
    <2>1. flows'[g] = flows[g]
      BY <1>1, <1>2, <1>3 DEF HandleTokens, Goto, End, TypeInv, FlowsFit
    <2>2. flows[g].pc \in {"idle", "sent"} \/ (g \in Links /\ flows[g].token = t)
      BY <1>1, <1>3, Alone
    <2>3. g \in Links => flows[g].pc \in {"idle"} \cup SigningIn
      BY <1>3, FlowFacts, PcFacts
    <2> QED  BY <2>1, <2>2, <2>3 DEF Clearing, Restoring, SigningIn
  <1>4. \A u : Owner(u)' = Owner(u)
    BY <1>1 DEF Owner
  <1>5. ASSUME NEW pc \in SigningIn, Goto(f, pc),
               \A g \in Flows : flows'[g].pc = "identify" => sessionLog'.loggedIn = Owner(flows'[g].token)
        PROVE  Kept'
    <2>1. flows'[f].pc = pc
      BY <1>1, <1>5 DEF Goto, TypeInv, FlowsFit
    <2>2. \A g \in Flows : flows'[g].pc \notin Clearing \cup Restoring
      BY <1>3, <1>5, <2>1 DEF SigningIn, Clearing, Restoring
    <2>3. \A g \in Flows : flows'[g].pc = "identify" => sessionLog'.loggedIn = Owner(flows[g].token)'
      BY <1>5, <1>1 DEF Owner
    <2> QED  BY <1>1, <1>5, <2>1, <2>2, <2>3 DEF Kept, Busy
  <1>6. CASE flows[f].pc \in {"storeToken", "storeRefresh"}
    <2>1. PICK pc \in {"storeRefresh", "signIn"} : Goto(f, pc) /\ UNCHANGED sessionLog
      BY <1>2, <1>6 DEF HandleTokens, At
    <2>2. flows'[f].pc = pc
      BY <1>1, <2>1 DEF Goto, TypeInv, FlowsFit
    <2>3. \A g \in Flows : flows'[g].pc = "identify" => sessionLog'.loggedIn = Owner(flows'[g].token)
      BY <1>3, <1>6, <2>1, <2>2 DEF Kept
    <2> QED  BY <1>5, <2>1, <2>3 DEF SigningIn
  <1>7. CASE flows[f].pc = "signIn"
    <2>1. Goto(f, "identify") /\ sessionLog' = [sessionLog EXCEPT !.loggedIn = Owner(t)]
      BY <1>2, <1>7 DEF HandleTokens, At
    <2>2. sessionLog'.loggedIn = Owner(t) /\ flows'[f].token = t
      BY <1>1, <2>1 DEF TypeInv, LogTyped, Goto, FlowsFit
    <2>3. \A g \in Flows : flows'[g].pc = "identify" => sessionLog'.loggedIn = Owner(flows'[g].token)
      BY <1>3, <2>2 DEF SigningIn
    <2> QED  BY <1>5, <2>1, <2>3 DEF SigningIn
  <1>8. CASE flows[f].pc = "identify"
    <2>1. /\ End(f) /\ UNCHANGED sessionLog
          /\ auth' = auth \/ auth' = [auth EXCEPT !.id = Owner(t)]
      BY <1>2, <1>8 DEF HandleTokens, At
    <2>2. sessionLog'.loggedIn = Owner(t) /\ auth'.name = Owner(t) /\ auth'.refresh = Owner(t)
      <3>1. auth.name = Owner(t) /\ auth.refresh = Owner(t)
        BY <1>1, <1>8 DEF Sound, FlowSound
      <3>2. sessionLog.loggedIn = Owner(t)
        BY <1>1, <1>8 DEF Kept
      <3> QED  BY <2>1, <3>1, <3>2 DEF TypeInv, MemoryTyped
    <2>3. flows'[f].pc = "idle"
      BY <1>1, <2>1 DEF End, IdleFlow, TypeInv, FlowsFit
    <2>4. \A g \in Flows : flows'[g].pc \notin Clearing \cup Restoring
      BY <1>3, <2>3 DEF Clearing, Restoring
    <2>5. \A g \in Flows : flows'[g].pc = "identify" => sessionLog'.loggedIn = Owner(flows[g].token)'
      BY <1>1, <1>3, <2>2, <2>3 DEF SigningIn, Owner
    <2> QED  BY <1>1, <2>2, <2>4, <2>5 DEF Kept, Busy
  <1> QED  BY <1>1, <1>6, <1>7, <1>8 DEF SigningIn

LEMMA KeptStep == TypeInv /\ SoundInv /\ KeptInv /\ [SessionNext]_sessionVars => KeptInv'
  <1> SUFFICES ASSUME TypeInv, SoundInv, KeptInv, [SessionNext]_sessionVars, Undisturbed' PROVE Kept'
    BY DEF KeptInv
  <1>1. CASE UNCHANGED sessionVars
    BY <1>1 DEF sessionVars, KeptInv, Undisturbed, Kept, Busy, Owner
  <1>2. CASE SessionNext
    <2>1. ~crossed /\ ~Crossing /\ SessionStep /\ ~Crossing' /\ sessionLog'.mishaps = {} /\ ~sessionLog'.loggedOut
          /\ sessionLog'.loggedIn # Nobody
      BY <1>2 DEF SessionNext, SoundInv, Undisturbed
    <2>2. sessionLog.mishaps = {} /\ ~sessionLog.loggedOut /\ Sound
      BY <2>1, LogGrows DEF SoundInv
    <2>3. CASE \E f \in Links : HandleTokens(f) /\ flows[f].pc = "signIn"
      BY <2>1, <2>2, <2>3, KeptHandles
    <2>4. CASE ~ \E f \in Links : HandleTokens(f) /\ flows[f].pc = "signIn"
      <3>1. sessionLog'.loggedIn = sessionLog.loggedIn
        BY <2>1, <2>4, LogGrows
      <3>2. Kept /\ sessionLog.loggedIn # Nobody
        BY <2>1, <2>2, <3>1 DEF KeptInv, Undisturbed
      <3>3. ~KillApp
        BY <2>1 DEF KillApp, Mishap, TypeInv, LogTyped
      <3>4. ~HandleLogout
        BY <2>1 DEF HandleLogout, TypeInv, LogTyped
      <3>5. "restore" \in Flows /\ ~RestoreRead /\ ~RestoreReadRefresh /\ ~RestoreMe
        BY <3>2, PcFacts DEF Kept, Busy, RestoreRead, RestoreReadRefresh, RestoreMe, At, Restoring
      <3>6. \A f \in Requests \cup {"restore", "logout"} : ~Clear(f)
        BY <3>2, PcFacts DEF Kept, Busy, Clear, At, Clearing
      <3>7. ASSUME NEW f \in Links, HandleTokens(f) \/ HandleTokensFails(f) PROVE Kept'
        BY <2>1, <2>2, <3>2, <3>7, KeptHandles
      <3> QED  BY <2>1, <2>2, <3>1, <3>2, <3>3, <3>4, <3>5, <3>6, <3>7, KeptScreens, KeptRequests, KeptRefreshes
                  DEF SessionStep
    <2> QED  BY <2>3, <2>4
  <1> QED  BY <1>1, <1>2

\* Expired tokens lose no session, however many requests get a 401 at once and refresh on
\* top of each other: while nobody logged out and nothing failed or crossed, the account
\* that logged in last is the one in memory and the one a restart would restore.
THEOREM SessionIsKept == SessionSpec => []SessionKept
  <1>1. SessionInit => KeptInv
    BY DEF SessionInit, KeptInv, Undisturbed
  <1>2. TypeInv /\ SoundInv /\ KeptInv => SessionKept
    <2> SUFFICES ASSUME TypeInv, SoundInv, KeptInv, Undisturbed, Quiet
                 PROVE  /\ sessionLog.loggedIn = auth.name /\ auth.name = auth.refresh
                        /\ auth.refresh = secure.refresh
      BY DEF SessionKept, Undisturbed
    <2>1. ~Busy(SigningIn)
      BY DEF Quiet, Busy, SigningIn
    <2>2. auth.name = sessionLog.loggedIn /\ auth.refresh = sessionLog.loggedIn /\ sessionLog.loggedIn # Nobody
      BY <2>1 DEF KeptInv, Kept, Undisturbed
    <2>3. Uniform
      BY QuietSound DEF Undisturbed
    <2> QED  BY <2>2, <2>3 DEF Uniform
  <1> QED  BY <1>1, <1>2, TypeInit, TypeStep, SoundInit, SoundStep, KeptStep, PTL DEF SessionSpec

=============================================================================
