------------------------------ MODULE Session ------------------------------
(***************************************************************************)
(* The session of the mobile client: the token store (store/auth.ts), the  *)
(* request wrapper that refreshes an expired token (lib/api.ts), the login *)
(* screen with its deep links (login.tsx), and the gate of the required    *)
(* consents (_layout.tsx, consent.tsx).                                    *)
(*                                                                         *)
(* Restoring, logging in, logging out and refreshing all write the two     *)
(* tokens to SecureStore one after the other and set the memory only then; *)
(* nothing serialises them.  Each await is a step.                         *)
(*                                                                         *)
(* Abstracted: every login is another account, numbered in their order; an *)
(* access token is the number of its issue, a refresh token the number of  *)
(* its login.  The server keeps no sessions: a refresh token stays valid.  *)
(* The policy texts, which change no state, are left out.                  *)
(***************************************************************************)
EXTENDS Naturals, Sequences, FiniteSets

CONSTANTS
    MaxLogins,       \* bound: logins in one behaviour
    MaxTokens,       \* bound: access tokens the server issues
    MaxMishaps       \* bound: kinds of mishaps in one behaviour, each once at most

ASSUME SessionAssumption == MaxLogins \in Nat /\ MaxTokens \in Nat /\ MaxMishaps \in Nat

VARIABLES
    auth,      \* useAuthStore: both tokens, the user (name and id), isLoading
    secure,    \* SecureStore: both tokens
    server,    \* the owners of the access tokens issued, and how many have expired
    flows,     \* what is in progress on the session
    gate,      \* the required consents: ticks, agreement, its persistence
    login,     \* the login screen: the page on top, authLoading, the web view, the launch URL
    sessionLog,\* history: the mishaps, the last account that logged in, whether it logged out
    crossed    \* history: two flows wrote the session at the same time

sessionVars == <<auth, secure, server, flows, gate, login, sessionLog, crossed>>

Nobody   == 0
Requests == {"req1", "req2"}
Links    == {"event", "result"}    \* a URL event or launch URL; the browser's result
Flows    == Requests \cup Links \cup {"restore", "logout"}

\* No network; a store fails, or the app is killed while one of two tokens is stored; the
\* server answers with an error; the app is killed otherwise
Mishaps == {"offline", "storeFailed", "serverError", "killed"}

Refreshing == {"refresh", "keepToken", "keepRefresh", "publish", "retry"}
Clearing   == {"drop", "dropRefresh", "wipe"}
SigningIn  == {"storeToken", "storeRefresh", "signIn", "identify"}
Restoring  == {"read", "readRefresh", "me"}
Pcs == {"idle", "sent"} \cup Refreshing \cup Clearing \cup SigningIn \cup Restoring

Pages == {"blank", "consent", "tabs", "login", "onboarding"}

IdleFlow  == [pc |-> "idle", token |-> 0, refresh |-> Nobody]
SignedOut == [token |-> 0, refresh |-> Nobody, name |-> Nobody, id |-> Nobody, loading |-> FALSE]

-----------------------------------------------------------------------------

Owner(t) == IF t = 0 THEN Nobody ELSE server.owners[t]
Accepted(t) == t > server.expired
HasUser == auth.name # Nobody \/ auth.id # Nobody

\* Two flows that write the session at once, unless both only refresh it or both handle
\* the same URL
Crossing ==
    \E f, g \in Flows :
        /\ f # g /\ flows[f].pc \notin {"idle", "sent"} /\ flows[g].pc \notin {"idle", "sent"}
        /\ ~(flows[f].pc \in Refreshing /\ flows[g].pc \in Refreshing)
        /\ ~({f, g} = Links /\ flows[f].token = flows[g].token)

Mishap(m) == /\ m \notin sessionLog.mishaps /\ Cardinality(sessionLog.mishaps) < MaxMishaps
             /\ sessionLog' = [sessionLog EXCEPT !.mishaps = @ \cup {m}]

SessionTypeOK ==
    /\ auth \in [token: 0..MaxTokens, refresh: 0..MaxLogins, name: 0..MaxLogins,
                 id: 0..MaxLogins, loading: BOOLEAN]
    /\ secure \in [token: 0..MaxTokens, refresh: 0..MaxLogins]
    /\ server.owners \in Seq(1..MaxLogins) /\ server.expired \in 0..Len(server.owners)
    /\ flows \in [Flows -> [pc: Pcs, token: 0..MaxTokens, refresh: 0..MaxLogins]]
    /\ gate \in [loaded: BOOLEAN, terms: BOOLEAN, privacy: BOOLEAN, agreed: BOOLEAN,
                 saving: BOOLEAN, stored: BOOLEAN]
    /\ login \in [page: Pages, auth: BOOLEAN, web: BOOLEAN,
                  launch: 0..MaxTokens]
    /\ sessionLog \in [mishaps: SUBSET Mishaps, loggedIn: 0..MaxLogins, loggedOut: BOOLEAN]
    /\ crossed \in BOOLEAN

NoConsent == [loaded |-> FALSE, terms |-> FALSE, privacy |-> FALSE, agreed |-> FALSE,
              saving |-> FALSE, stored |-> FALSE]

SessionInit ==
    /\ auth = SignedOut /\ secure = [token |-> 0, refresh |-> Nobody]
    /\ server = [owners |-> <<>>, expired |-> 0]
    /\ flows = [f \in Flows |-> IdleFlow]
    /\ gate = NoConsent
    /\ login = [page |-> "blank", auth |-> FALSE, web |-> FALSE, launch |-> 0]
    /\ sessionLog = [mishaps |-> {}, loggedIn |-> Nobody, loggedOut |-> FALSE] /\ crossed = FALSE

At(f, pc)   == flows[f].pc = pc
Goto(f, pc) == flows' = [flows EXCEPT ![f].pc = pc]
End(f)      == flows' = [flows EXCEPT ![f] = IdleFlow]
SignInWith(t) == [IdleFlow EXCEPT !.pc = "storeToken", !.token = t]

\* A flow whose call failed ends; a failing restore also ends the loading.
Abort(f, m) == /\ End(f) /\ Mishap(m)
               /\ auth' = IF f = "restore" THEN [auth EXCEPT !.loading = FALSE] ELSE auth

-----------------------------------------------------------------------------
(* The gate                                                                *)

\* useConsentGate, loadConsent, RootLayout: SessionRestore starts, and behind the gate the
\* tabs are the first screen, or the login screen when its link launched the app.  A
\* consent that cannot be read counts as none.
LoadConsent ==
    /\ ~gate.loaded
    /\ \E read \in BOOLEAN :
          LET agreed == read /\ gate.stored
              linked == agreed /\ login.launch # 0
          IN  /\ IF read THEN UNCHANGED sessionLog ELSE Mishap("storeFailed")
              /\ gate' = [gate EXCEPT !.loaded = TRUE, !.agreed = agreed]
              /\ login' = [login EXCEPT !.page =
                    IF linked THEN "login" ELSE IF agreed THEN "tabs" ELSE "consent"]
              /\ flows' = [flows EXCEPT !["restore"].pc = "read",
                                        !["event"] = IF linked THEN SignInWith(login.launch) ELSE @]
    /\ auth' = [auth EXCEPT !.loading = TRUE]
    /\ UNCHANGED <<secure, server>>

\* The ticks of ConsentGateScreen: one by one, or all
ConsentTicks ==
    /\ login.page = "consent"
    /\ \/ gate' = [gate EXCEPT !.terms = ~@]
       \/ gate' = [gate EXCEPT !.privacy = ~@]
       \/ LET all == ~(gate.terms /\ gate.privacy)
          IN  gate' = [gate EXCEPT !.terms = all, !.privacy = all]
    /\ UNCHANGED <<auth, secure, server, flows, login, sessionLog>>

\* handleContinue: agreeRequired sets the consent, which opens the gate, ...
HandleContinue ==
    /\ login.page = "consent" /\ gate.terms /\ gate.privacy
    /\ gate' = [gate EXCEPT !.agreed = TRUE, !.saving = TRUE]
    /\ login' = [login EXCEPT !.page = "tabs"]
    /\ UNCHANGED <<auth, secure, server, flows, sessionLog>>

\* ... and persists it (or fails to); then the tabs replace whatever is on top.
ConsentSaved ==
    /\ gate.saving
    /\ \/ gate' = [gate EXCEPT !.saving = FALSE, !.stored = TRUE] /\ UNCHANGED sessionLog
       \/ gate' = [gate EXCEPT !.saving = FALSE] /\ Mishap("storeFailed")
    /\ login' = [login EXCEPT !.page = "tabs", !.auth = FALSE, !.web = FALSE]
    /\ UNCHANGED <<auth, secure, server, flows>>

-----------------------------------------------------------------------------
(* restoreSession                                                          *)

RestoreRead ==
    /\ At("restore", "read")
    /\ \/ /\ flows' = [flows EXCEPT !["restore"] = [@ EXCEPT !.pc = "readRefresh", !.token = secure.token]]
          /\ UNCHANGED <<auth, sessionLog>>
       \/ Abort("restore", "storeFailed")
    /\ UNCHANGED <<secure, server, gate, login>>

RestoreReadRefresh ==
    /\ At("restore", "readRefresh")
    /\ \/ /\ flows["restore"].token # 0
          /\ flows' = [flows EXCEPT !["restore"] = [@ EXCEPT !.pc = "me", !.refresh = secure.refresh]]
          /\ UNCHANGED <<auth, sessionLog>>
       \/ /\ flows["restore"].token = 0
          /\ End("restore") /\ auth' = [auth EXCEPT !.loading = FALSE] /\ UNCHANGED sessionLog
       \/ Abort("restore", "storeFailed")
    /\ UNCHANGED <<secure, server, gate, login>>

\* /auth/me with the stored token: the session is set, or the token refreshed, or, when
\* there is no refresh token, everything is cleared.  A network failure leaves the tokens.
RestoreMe ==
    /\ At("restore", "me")
    /\ LET r == flows["restore"]
       IN  \/ /\ Accepted(r.token)
              /\ auth' = [token |-> r.token, refresh |-> r.refresh, name |-> Owner(r.token),
                          id |-> Owner(r.token), loading |-> FALSE]
              /\ End("restore") /\ UNCHANGED sessionLog
           \/ /\ IF Accepted(r.token) THEN Mishap("serverError") ELSE UNCHANGED sessionLog
              /\ IF r.refresh # Nobody
                 THEN auth' = [auth EXCEPT !.refresh = r.refresh] /\ Goto("restore", "refresh")
                 ELSE UNCHANGED auth /\ Goto("restore", "drop")
           \/ Abort("restore", "offline")
    /\ UNCHANGED <<secure, server, gate, login>>

-----------------------------------------------------------------------------
(* request and refreshAccessToken                                          *)

\* A request to a protected endpoint, with the token in memory, if there is one
StartRequest(f) ==
    /\ gate.agreed /\ ~gate.saving /\ At(f, "idle")
    /\ flows' = [flows EXCEPT ![f] = [IdleFlow EXCEPT !.pc = "sent", !.token = auth.token]]
    /\ UNCHANGED <<auth, secure, server, gate, login, sessionLog>>

\* Mutant: a 401 is the end of the session.
RequestAnswerOrLogout(f) ==
    /\ At(f, "sent")
    /\ IF Accepted(flows[f].token) THEN End(f) ELSE Goto(f, "drop")
    /\ UNCHANGED <<auth, secure, server, gate, login, sessionLog>>

\* Its answer: 401 starts a refresh with the refresh token in memory, or without one the
\* logout; every other answer and a failure end the request.
RequestAnswer(f) ==
    /\ At(f, "sent")
    /\ IF Accepted(flows[f].token) THEN End(f)
       ELSE flows' = [flows EXCEPT ![f].pc = IF auth.refresh = Nobody THEN "drop" ELSE "refresh",
                                   ![f].refresh = auth.refresh]
    /\ UNCHANGED <<auth, secure, server, gate, login, sessionLog>>

\* The answer of /auth/refresh.  When it fails, a request logs out and a restore clears.
Refresh(f) ==
    /\ At(f, "refresh")
    /\ \/ /\ Len(server.owners) < MaxTokens
          /\ server' = [server EXCEPT !.owners = Append(@, flows[f].refresh)]
          /\ flows' = [flows EXCEPT ![f].pc = "keepToken", ![f].token = Len(server.owners) + 1]
          /\ UNCHANGED sessionLog
       \/ Goto(f, "drop") /\ (Mishap("offline") \/ Mishap("serverError")) /\ UNCHANGED server
    /\ UNCHANGED <<auth, secure, gate, login>>

\* The new tokens are stored one after the other (a failure counts as no refresh) ...
KeepTokens(f) ==
    /\ \/ At(f, "keepToken") /\ secure' = [secure EXCEPT !.token = flows[f].token]
          /\ Goto(f, "keepRefresh") /\ UNCHANGED sessionLog
       \/ At(f, "keepRefresh") /\ secure' = [secure EXCEPT !.refresh = flows[f].refresh]
          /\ Goto(f, "publish") /\ UNCHANGED sessionLog
       \/ (At(f, "keepToken") \/ At(f, "keepRefresh"))
          /\ UNCHANGED secure /\ Goto(f, "drop") /\ Mishap("storeFailed")
    /\ UNCHANGED <<auth, server, gate, login>>

\* ... and then set; the request (or /auth/me) is sent again with the new one.
Publish(f) ==
    /\ At(f, "publish")
    /\ auth' = [auth EXCEPT !.token = flows[f].token, !.refresh = flows[f].refresh]
    /\ Goto(f, "retry")
    /\ UNCHANGED <<secure, server, gate, login, sessionLog>>

\* The second answer.  Anything but success counts as an expired session.
Retry(f) ==
    /\ At(f, "retry")
    /\ \/ /\ Accepted(flows[f].token) /\ End(f) /\ UNCHANGED sessionLog
          /\ auth' = IF f = "restore"
                     THEN [auth EXCEPT !.name = Owner(flows[f].token), !.id = Owner(flows[f].token),
                                       !.loading = FALSE]
                     ELSE auth
       \/ Goto(f, "drop") /\ UNCHANGED auth /\ Mishap("serverError")
       \/ Abort(f, "offline")
    /\ UNCHANGED <<secure, server, gate, login>>

-----------------------------------------------------------------------------
(* logout, and the clearing at the end of restoreSession                   *)

\* handleLogout of the profile tab: logout goes on while the login screen opens, whose
\* effect handles the URL the app was launched with.
HandleLogout ==
    /\ login.page = "tabs" /\ HasUser /\ At("logout", "idle") /\ At("event", "idle")
    /\ flows' = [flows EXCEPT !["logout"].pc = "drop",
                              !["event"] = IF login.launch = 0 THEN @
                                           ELSE SignInWith(login.launch)]
    /\ login' = [login EXCEPT !.page = "login"]
    /\ sessionLog' = [sessionLog EXCEPT !.loggedOut = TRUE]
    /\ UNCHANGED <<auth, secure, server, gate>>

Clear(f) ==
    /\ \/ At(f, "drop") /\ secure' = [secure EXCEPT !.token = 0] /\ Goto(f, "dropRefresh")
          /\ UNCHANGED <<auth, sessionLog>>
       \/ At(f, "dropRefresh") /\ secure' = [secure EXCEPT !.refresh = Nobody] /\ Goto(f, "wipe")
          /\ UNCHANGED <<auth, sessionLog>>
       \/ At(f, "wipe") /\ End(f) /\ UNCHANGED <<secure, sessionLog>>
          /\ auth' = [SignedOut EXCEPT !.loading = IF f = "restore" THEN FALSE ELSE auth.loading]
       \/ (At(f, "drop") \/ At(f, "dropRefresh")) /\ Abort(f, "storeFailed") /\ UNCHANGED secure
    /\ UNCHANGED <<server, gate, login>>

-----------------------------------------------------------------------------
(* The login screen                                                        *)

\* A button "log in" of some screen; the launch URL is handled whenever the screen opens.
OpenLogin ==
    /\ login.page = "tabs" /\ ~gate.saving /\ ~HasUser /\ (login.launch = 0 \/ At("event", "idle"))
    /\ login' = [login EXCEPT !.page = "login"]
    /\ IF login.launch = 0 THEN UNCHANGED flows
       ELSE flows' = [flows EXCEPT !["event"] = SignInWith(login.launch)]
    /\ UNCHANGED <<auth, secure, server, gate, sessionLog>>

\* The buttons of the screen: log in with the browser, with the web view, or not at all
LoginButtons ==
    /\ login.page = "login" /\ ~auth.loading /\ ~login.auth /\ ~login.web
    /\ login' \in { [login EXCEPT !.auth = TRUE], [login EXCEPT !.web = TRUE],
                    [login EXCEPT !.page = "tabs"] }
    /\ UNCHANGED <<auth, secure, server, flows, gate, sessionLog>>

\* The browser or the web view is closed without a login.
LoginDismissed ==
    /\ \/ login.auth /\ At("result", "idle") /\ login' = [login EXCEPT !.auth = FALSE]
       \/ login.web /\ login' = [login EXCEPT !.web = FALSE]
    /\ UNCHANGED <<auth, secure, server, flows, gate, sessionLog>>

\* Kakao sends the user back with the tokens of a new login: the browser's result, its
\* URL event, or both; the web view's request is intercepted; or, when the app was
\* started by the link, the launch URL.
LoginReturns ==
    /\ Len(server.owners) < MaxTokens
    /\ LET new == SignInWith(Len(server.owners) + 1)
           account == 1 + Cardinality({server.owners[n] : n \in DOMAIN server.owners})
           free(f) == At(f, "idle")
       IN  /\ account <= MaxLogins
           /\ server' = [server EXCEPT !.owners = Append(@, account)]
           /\ \/ /\ login.auth /\ free("result") /\ UNCHANGED login
                 /\ \/ flows' = [flows EXCEPT !["result"] = new]
                    \/ free("event") /\ flows' = [flows EXCEPT !["result"] = new, !["event"] = new]
              \/ /\ login.web /\ free("event")
                 /\ login' = [login EXCEPT !.web = FALSE]
                 /\ flows' = [flows EXCEPT !["event"] = new]
              \/ /\ ~gate.loaded /\ login.launch = 0
                 /\ login' = [login EXCEPT !.launch = new.token] /\ UNCHANGED flows
    /\ UNCHANGED <<auth, secure, gate, sessionLog>>

\* Mutant: the refresh token is not stored.
HandleAccessToken(f) ==
    /\ LET t == flows[f].token
       IN  \/ /\ At(f, "storeToken") /\ secure' = [secure EXCEPT !.token = t]
              /\ Goto(f, "signIn") /\ UNCHANGED <<auth, login, sessionLog>>
           \/ /\ At(f, "signIn")
              /\ auth' = [token |-> t, refresh |-> Owner(t), name |-> Owner(t), id |-> Nobody,
                          loading |-> FALSE]
              /\ sessionLog' = [sessionLog EXCEPT !.loggedIn = Owner(t)]
              /\ End(f) /\ UNCHANGED <<secure, login>>
    /\ UNCHANGED <<server, gate>>

\* handleTokensFromUrl: the tokens are stored, then set with the name from the URL; the
\* id follows from /auth/me, whatever the user in memory is by then.
HandleTokens(f) ==
    /\ LET t == flows[f].token
       IN  \/ /\ At(f, "storeToken") /\ secure' = [secure EXCEPT !.token = t]
              /\ Goto(f, "storeRefresh") /\ UNCHANGED <<auth, login, sessionLog>>
           \/ /\ At(f, "storeRefresh") /\ secure' = [secure EXCEPT !.refresh = Owner(t)]
              /\ Goto(f, "signIn") /\ UNCHANGED <<auth, login, sessionLog>>
           \/ /\ At(f, "signIn")
              /\ auth' = [token |-> t, refresh |-> Owner(t), name |-> Owner(t), id |-> Nobody,
                          loading |-> FALSE]
              /\ sessionLog' = [sessionLog EXCEPT !.loggedIn = Owner(t)]
              /\ Goto(f, "identify") /\ UNCHANGED <<secure, login>>
           \/ /\ At(f, "identify") /\ End(f) /\ UNCHANGED <<secure, sessionLog>>
              /\ auth' \in {auth} \cup IF Accepted(t) THEN {[auth EXCEPT !.id = Owner(t)]} ELSE {}
              /\ login' \in { [login EXCEPT !.page = p, !.web = FALSE,
                                            !.auth = IF f = "result" THEN FALSE ELSE @]
                              : p \in {"onboarding", "tabs"} }
    /\ UNCHANGED <<server, gate>>

\* A call of handleTokensFromUrl fails: an alert, and nothing else.
HandleTokensFails(f) ==
    /\ At(f, "storeToken") \/ At(f, "storeRefresh")
    /\ Abort(f, "storeFailed")
    /\ login' = [login EXCEPT !.auth = IF f = "result" THEN FALSE ELSE @]
    /\ UNCHANGED <<secure, server, gate>>

\* Onboarding ends in the tabs; going back from the login screen
LeavePage ==
    /\ login.page \in {"onboarding", "login"} /\ ~login.auth /\ ~login.web
    /\ login' = [login EXCEPT !.page = "tabs"]
    /\ UNCHANGED <<auth, secure, server, flows, gate, sessionLog>>

-----------------------------------------------------------------------------

\* Access tokens expire, but not one that was just issued.
TokensExpire ==
    /\ server.expired < Len(server.owners)
    /\ \A f \in Flows : flows[f].pc \notin Refreshing \cup SigningIn
    /\ server' = [server EXCEPT !.expired = Len(server.owners)]
    /\ UNCHANGED <<auth, secure, flows, gate, login, sessionLog>>

KillApp ==
    /\ gate.loaded
    /\ Mishap(IF \E f \in Flows : flows[f].pc \in {"keepRefresh", "storeRefresh"}
              THEN "storeFailed" ELSE "killed")
    /\ auth' = SignedOut /\ flows' = [f \in Flows |-> IdleFlow]
    /\ gate' = [NoConsent EXCEPT !.stored = gate.stored]
    /\ login' = [page |-> "blank", auth |-> FALSE, web |-> FALSE, launch |-> 0]
    /\ UNCHANGED <<secure, server>>

SessionStep ==
    \/ LoadConsent \/ ConsentTicks \/ HandleContinue \/ ConsentSaved
    \/ RestoreRead \/ RestoreReadRefresh \/ RestoreMe
    \/ \E f \in Requests : StartRequest(f) \/ RequestAnswer(f)
    \/ \E f \in Requests \cup {"restore"} : Refresh(f) \/ KeepTokens(f) \/ Publish(f) \/ Retry(f)
    \/ HandleLogout
    \/ \E f \in Requests \cup {"restore", "logout"} : Clear(f)
    \/ OpenLogin \/ LoginButtons \/ LoginDismissed \/ LoginReturns
    \/ \E f \in Links : HandleTokens(f) \/ HandleTokensFails(f)
    \/ LeavePage \/ TokensExpire \/ KillApp

\* Bound: a behaviour is followed until two flows have crossed.
SessionNext == ~crossed /\ SessionStep /\ crossed' = (crossed \/ Crossing')

SessionSpec == SessionInit /\ [][SessionNext]_sessionVars

-----------------------------------------------------------------------------
(* Properties                                                              *)

Quiet == \A f \in Flows : flows[f].pc \in {"idle", "sent"}

\* When nothing is in progress, no two flows ever wrote the session at once, and SecureStore
\* works, memory and SecureStore hold one account: the token in memory belongs to the user who is shown, and
\* a restart would restore that same account.
SessionConsistent ==
    auth.token # 0 /\ ~crossed /\ "storeFailed" \notin sessionLog.mishaps /\ Quiet =>
        /\ \A u \in {auth.name, auth.id} : u \in {Nobody, Owner(auth.token)}
        /\ Owner(secure.token) = Owner(auth.token)
        /\ auth.refresh = secure.refresh /\ auth.refresh \in {Nobody, Owner(auth.token)}

\* Expired tokens alone lose no session: however many requests get a 401 at once and
\* refresh on top of each other, the account that logged in last is still signed in, and
\* would be after a restart.
SessionKept ==
    sessionLog.loggedIn # Nobody /\ ~sessionLog.loggedOut /\ sessionLog.mishaps = {}
        /\ ~crossed /\ Quiet
    => sessionLog.loggedIn = auth.name /\ auth.name = auth.refresh /\ auth.refresh = secure.refresh

\* isLoading disables every button of the login screen; it is over when restoreSession is.
LoadingEnds == auth.loading => flows["restore"].pc # "idle"

=============================================================================
