---------------------------- MODULE DeadlineAlerts ----------------------------
(***************************************************************************)
(* The hourly deadline alerts of crates/worker/src/alerts.rs.              *)
(*                                                                         *)
(* Every tick of the scheduler starts a job.  It goes through the types    *)
(* d7, d3 and d1; for each it selects the candidates and handles them one  *)
(* by one: it counts the user's alerts of the day, records the alert, and  *)
(* dispatches it.  Each of these is a statement of its own, so a slow job  *)
(* and the one of the next hour interleave.  A failing statement ends the  *)
(* job; a failing dispatch does not.                                       *)
(*                                                                         *)
(* What is abstracted: dates are days; a program without a deadline is one *)
(* whose deadline is no day that a job looks for; the candidates of one    *)
(* SELECT come in any order, as the query does not order them; a dispatch  *)
(* is the call of the notifier, whatever its channels make of it.          *)
(***************************************************************************)
EXTENDS Integers, Sequences, FiniteSets

CONSTANTS
    Jobs,           \* the jobs that may be in flight at once
    Users, Programs,
    DailyLimit,     \* DAILY_ALERT_LIMIT
    Subscribed,     \* the <<user, program>> subscriptions at the start
    InitialDeadline, \* InitialDeadline[p]: the day program p closes, at the start
    Deadlines,      \* Deadlines[p]: the days it may be moved to
    Nobody,         \* no candidate
    MaxDay,         \* bound: the last day
    MaxChanges,     \* bound: changes of subscriptions, programs and preferences
    MaxFaults       \* bound: failing statements, and stops of the worker

Days  == 0..MaxDay
Kinds == <<7, 3, 1>>                    \* d7, d3, d1, in the order of the loop
Types == {Kinds[n] : n \in 1..3}
Pairs == [user: Users, program: Programs]
Alert == [user: Users, program: Programs, type: Types, date: Days]

ASSUME ConstantsAssumption ==
    /\ IsFiniteSet(Jobs) /\ Jobs # {}
    /\ IsFiniteSet(Users) /\ IsFiniteSet(Programs)
    /\ DailyLimit \in Nat \ {0}
    /\ Subscribed \subseteq Pairs
    /\ InitialDeadline \in [Programs -> Nat] /\ Deadlines \in [Programs -> SUBSET Nat]
    /\ Nobody \notin Pairs
    /\ MaxDay \in Nat /\ MaxChanges \in Nat /\ MaxFaults \in Nat

VARIABLES
    day,        \* the current day (UTC)
    \* the database
    enabled,    \* alert_subscriptions with enabled = true
    active,     \* programs with is_active = true
    deadline,   \* COALESCE(deadline_at, application_end_at)
    muted,      \* notification_preferences with notify_deadline = false
    deliveries, \* alert_deliveries
    \* each job
    pc,         \* the statement the job executes next
    today,      \* the day it started on
    stage,      \* the position in Kinds of the type it works on
    todo,       \* the candidates of that type still to handle
    cand,       \* the candidate in hand
    \* what the bounds bound, and history
    changes, faults,
    sends       \* sends[a]: how often alert a was given to the notifier

settings == <<enabled, active, deadline, muted>>
locals   == <<today, stage, todo, cand>>
vars == <<day, settings, deliveries, pc, locals, changes, faults, sends>>

TypeOK ==
    /\ day \in Days
    /\ enabled \subseteq Pairs /\ active \subseteq Programs /\ muted \subseteq Users
    /\ deadline \in [Programs -> Nat]
    /\ deliveries \subseteq Alert
    /\ pc \in [Jobs -> {"idle", "select", "count", "insert", "send"}]
    /\ today \in [Jobs -> Days]
    /\ stage \in [Jobs -> 1..3]
    /\ todo \in [Jobs -> SUBSET Pairs]
    /\ cand \in [Jobs -> Pairs \cup {Nobody}]
    /\ changes \in 0..MaxChanges /\ faults \in 0..MaxFaults
    /\ sends \in [Alert -> Nat]

Init ==
    /\ day = 0
    /\ enabled = Subscribed /\ active = Programs /\ deadline = InitialDeadline /\ muted = {}
    /\ deliveries = {}
    /\ pc = [j \in Jobs |-> "idle"]
    /\ today = [j \in Jobs |-> 0]
    /\ stage = [j \in Jobs |-> 1]
    /\ todo = [j \in Jobs |-> {}]
    /\ cand = [j \in Jobs |-> Nobody]
    /\ changes = 0 /\ faults = 0
    /\ sends = [a \in Alert |-> 0]

-----------------------------------------------------------------------------
(* Helpers                                                                 *)

Fault == faults < MaxFaults /\ faults' = faults + 1

At(j, label) == pc[j] = label
Goto(j, label) == pc' = [pc EXCEPT ![j] = label]

\* The alert that job j is about to record or to dispatch.
AlertOf(j) == [user    |-> cand[j].user, program |-> cand[j].program,
               type    |-> Kinds[stage[j]], date    |-> today[j]]

\* The users and programs that the SELECT of type k finds for a job of day d.
Candidates(d, k) ==
    {c \in enabled : c.program \in active /\ deadline[c.program] = d + k}

\* The alerts user u has on day d.
DayAlerts(u, d) == {a \in deliveries : a.user = u /\ a.date = d}

\* Mutant: the limit is one too high.
HasRoomOrIsFull(u, d) == Cardinality(DayAlerts(u, d)) <= DailyLimit

\* The user may be alerted again on day d.
HasRoom(u, d) == Cardinality(DayAlerts(u, d)) < DailyLimit

\* The job returns; nothing of it is left.
Leave(j) ==
    /\ Goto(j, "idle")
    /\ today' = [today EXCEPT ![j] = 0]
    /\ stage' = [stage EXCEPT ![j] = 1]
    /\ todo' = [todo EXCEPT ![j] = {}]
    /\ cand' = [cand EXCEPT ![j] = Nobody]

\* A statement of the job failed: generate_deadline_alerts returns the error.
Abort(j) == Fault /\ Leave(j)

\* The candidate in hand is done with.
Continue(j) ==
    /\ Goto(j, "count")
    /\ cand' = [cand EXCEPT ![j] = Nobody]
    /\ UNCHANGED <<today, stage, todo>>

-----------------------------------------------------------------------------
(* The job                                                                 *)

\* The hourly tick.
Tick(j) ==
    /\ At(j, "idle")
    /\ Goto(j, "select")
    /\ today' = [today EXCEPT ![j] = day]
    /\ UNCHANGED <<day, settings, deliveries, stage, todo, cand, changes, faults, sends>>

Select(j) ==
    /\ At(j, "select")
    /\ \/ /\ todo' = [todo EXCEPT ![j] = Candidates(today[j], Kinds[stage[j]])]
          /\ Goto(j, "count")
          /\ UNCHANGED <<today, stage, cand, faults>>
       \/ Abort(j)
    /\ UNCHANGED <<day, settings, deliveries, changes, sends>>

\* Mutants: the loop over the types runs once too often, or ends after d7.
AdvancePastEnd(j) ==
    /\ At(j, "count") /\ todo[j] = {}
    /\ stage' = [stage EXCEPT ![j] = @ + 1]
    /\ Goto(j, "select")
    /\ UNCHANGED <<day, settings, deliveries, today, todo, cand, changes, faults, sends>>
LeaveAfterFirst(j) ==
    /\ At(j, "count") /\ todo[j] = {}
    /\ Leave(j)
    /\ UNCHANGED <<day, settings, deliveries, changes, faults, sends>>

\* No candidates are left: go on with the next type, or end.
Advance(j) ==
    /\ At(j, "count") /\ todo[j] = {}
    /\ \/ /\ stage[j] < 3
          /\ stage' = [stage EXCEPT ![j] = @ + 1]
          /\ Goto(j, "select")
          /\ UNCHANGED <<today, todo, cand>>
       \/ stage[j] = 3 /\ Leave(j)
    /\ UNCHANGED <<day, settings, deliveries, changes, faults, sends>>

\* SELECT COUNT(*): a user at the limit is skipped.
Count(j) ==
    /\ At(j, "count")
    /\ \E c \in todo[j] :
        \/ /\ HasRoom(c.user, today[j])
           /\ todo' = [todo EXCEPT ![j] = @ \ {c}]
           /\ cand' = [cand EXCEPT ![j] = c]
           /\ Goto(j, "insert")
           /\ UNCHANGED <<today, stage, faults>>
        \/ /\ ~HasRoom(c.user, today[j])
           /\ todo' = [todo EXCEPT ![j] = @ \ {c}]
           /\ UNCHANGED <<pc, today, stage, cand, faults>>
    /\ UNCHANGED <<day, settings, deliveries, changes, sends>>

\* The count failed.
CountFails(j) ==
    /\ At(j, "count") /\ todo[j] # {}
    /\ Abort(j)
    /\ UNCHANGED <<day, settings, deliveries, changes, sends>>

\* Mutant: the number of rows inserted is not looked at.
InsertOrIgnore(j) ==
    /\ At(j, "insert")
    /\ deliveries' = deliveries \cup {AlertOf(j)}
    /\ Goto(j, "send")
    /\ UNCHANGED <<day, settings, locals, changes, faults, sends>>

\* INSERT ... ON CONFLICT DO NOTHING: an alert that is there is skipped.
Insert(j) ==
    /\ At(j, "insert")
    /\ \/ /\ AlertOf(j) \notin deliveries
          /\ deliveries' = deliveries \cup {AlertOf(j)}
          /\ Goto(j, "send")
          /\ UNCHANGED <<locals, faults>>
       \/ /\ AlertOf(j) \in deliveries
          /\ Continue(j)
          /\ UNCHANGED <<deliveries, faults>>
       \/ Abort(j) /\ UNCHANGED deliveries
    /\ UNCHANGED <<day, settings, changes, sends>>

Send(j) ==
    /\ At(j, "send")
    /\ sends' = [sends EXCEPT ![AlertOf(j)] = @ + 1]
    /\ Continue(j)
    /\ UNCHANGED <<day, settings, deliveries, changes, faults>>

Step(j) ==
    Select(j) \/ Advance(j) \/ Count(j) \/ CountFails(j) \/ Insert(j) \/ Send(j)

-----------------------------------------------------------------------------
(* The environment                                                         *)

\* The worker stops, and with it every job.
Stop ==
    /\ \E j \in Jobs : ~At(j, "idle")
    /\ Fault
    /\ pc' = [j \in Jobs |-> "idle"]
    /\ today' = [j \in Jobs |-> 0]
    /\ stage' = [j \in Jobs |-> 1]
    /\ todo' = [j \in Jobs |-> {}]
    /\ cand' = [j \in Jobs |-> Nobody]
    /\ UNCHANGED <<day, settings, deliveries, changes, sends>>

NextDay ==
    /\ day < MaxDay
    /\ day' = day + 1
    /\ UNCHANGED <<settings, deliveries, pc, locals, changes, faults, sends>>

Change ==
    /\ changes < MaxChanges
    /\ changes' = changes + 1
    /\ UNCHANGED <<day, deliveries, pc, locals, faults, sends>>

\* POST /alerts/preferences, for an active program
SetSubscription(c) ==
    /\ c.program \in active
    /\ enabled' = IF c \in enabled THEN enabled \ {c} ELSE enabled \cup {c}
    /\ Change
    /\ UNCHANGED <<active, deadline, muted>>

\* PUT /alerts/notification-preferences
SetPreference(u) ==
    /\ muted' = IF u \in muted THEN muted \ {u} ELSE muted \cup {u}
    /\ Change
    /\ UNCHANGED <<enabled, active, deadline>>

\* The admin's publish toggle
TogglePublish(p) ==
    /\ active' = IF p \in active THEN active \ {p} ELSE active \cup {p}
    /\ Change
    /\ UNCHANGED <<enabled, deadline, muted>>

\* Ingestion or the admin moves a deadline.
MoveDeadline(p) ==
    /\ \E d \in Deadlines[p] \ {deadline[p]} : deadline' = [deadline EXCEPT ![p] = d]
    /\ Change
    /\ UNCHANGED <<enabled, active, muted>>

Environment ==
    \/ Stop \/ NextDay
    \/ \E c \in Pairs : SetSubscription(c)
    \/ \E u \in Users : SetPreference(u)
    \/ \E p \in Programs : TogglePublish(p) \/ MoveDeadline(p)

Next == (\E j \in Jobs : Tick(j) \/ Step(j)) \/ Environment

Spec == Init /\ [][Next]_vars

\* The scheduler keeps ticking, and tokio drives the jobs it has started.
FairSpec == Spec /\ \A j \in Jobs : WF_vars(Tick(j)) /\ WF_vars(Step(j))

-----------------------------------------------------------------------------
(* Properties                                                              *)

\* The jobs and alert_deliveries, seen as the ledger of alerts.
Ledger == INSTANCE AlertLedger WITH Alerts <- Alert, recorded <- deliveries

\* However the jobs interleave, fail and are restarted, every alert is recorded
\* once, and dispatched at most once and only after that (the unique constraint
\* and the check of the rows inserted).
AlertedOnce == Ledger!Spec

\* The daily limit is checked before the record is written, so jobs that overlap
\* can exceed it, but only by one alert for every job but the first.
OvershootBounded ==
    \A u \in Users, d \in Days :
        Cardinality(DayAlerts(u, d)) <= DailyLimit + Cardinality(Jobs) - 1

\* A user who is due an alert all day gets it, unless the daily limit is spent
\* on others: a job that fails is made good by the ones of the next hours.
AlertsArrive ==
    \A c \in Pairs, k \in Types, d \in Days :
        day = d /\ c \in Candidates(d, k)
            ~> \/ [user |-> c.user, program |-> c.program, type |-> k, date |-> d] \in deliveries
               \/ Cardinality(DayAlerts(c.user, d)) >= DailyLimit
               \/ day # d \/ c \notin Candidates(d, k)

\* "limit of two a day: a user who has two alerts or more today is skipped", and
\* running the job more than once a day is safe.
LimitKept == \A u \in Users, d \in Days : Cardinality(DayAlerts(u, d)) <= DailyLimit

\* "per-user toggles for alert event types": no job takes up an alert for a user
\* who has deadline alerts turned off at the time.
MutedUsersNotAlerted ==
    [][\A j \in Jobs : \A c \in todo'[j] \ todo[j] : c.user \notin muted]_vars
=============================================================================
