------------------------- MODULE DeadlineAlertsProofs -------------------------
(***************************************************************************)
(* Proofs about DeadlineAlerts, for any number of jobs, users and programs:*)
(* DeadlineAlerts implements AlertLedger, and overlapping jobs exceed the  *)
(* daily limit by at most one alert each, the first one excepted.          *)
(***************************************************************************)
EXTENDS DeadlineAlerts, FiniteSetTheorems, TLAPS

Busy == {"insert", "send"}

\* A job at INSERT or dispatch has a candidate in hand.
CandInv == \A j \in Jobs : pc[j] \in Busy => cand[j] \in Pairs

\* The bounds are numbers.
LEMMA Bounds ==
    /\ DailyLimit \in Nat /\ MaxDay \in Nat /\ MaxChanges \in Nat /\ MaxFaults \in Nat
BY ConstantsAssumption

\* The types are right at first ...
LEMMA TypeInit == ASSUME Init PROVE TypeOK /\ CandInv
BY ConstantsAssumption DEF Init, TypeOK, CandInv, Busy, Days

\* The alert of a job that has a candidate is one of Alert.
LEMMA AlertOfType ==
    ASSUME TypeOK, CandInv, NEW j \in Jobs, pc[j] \in Busy PROVE AlertOf(j) \in Alert
<1>1. Kinds[stage[j]] \in Types BY DEF TypeOK, Types
<1>2. cand[j] \in Pairs BY DEF CandInv
<1> QED BY <1>1, <1>2 DEF AlertOf, Alert, Pairs, TypeOK

\* Every action of a job keeps the types.
LEMMA JobTypes ==
    ASSUME TypeOK, CandInv, NEW j \in Jobs, Tick(j) \/ Step(j)
    PROVE  TypeOK' /\ CandInv'
<1>a. Leave(j) => /\ pc' \in [Jobs -> {"idle", "select", "count", "insert", "send"}]
                  /\ today' \in [Jobs -> Days] /\ stage' \in [Jobs -> 1..3]
                  /\ todo' \in [Jobs -> SUBSET Pairs]
                  /\ cand' \in [Jobs -> Pairs \cup {Nobody}]
                  /\ CandInv'
    BY Bounds DEF Leave, Goto, TypeOK, CandInv, Busy, Days
<1>b. Fault => faults' \in 0..MaxFaults BY Bounds DEF Fault, TypeOK
<1>1. CASE Tick(j)
    BY <1>1 DEF Tick, At, Goto, TypeOK, CandInv, Busy, settings
<1>2. CASE Select(j)
    <2>1. Candidates(today[j], Kinds[stage[j]]) \subseteq Pairs BY DEF Candidates, TypeOK
    <2>2. CASE Abort(j) BY <1>2, <2>2, <1>a, <1>b DEF Select, Abort, TypeOK, settings
    <2>3. CASE ~Abort(j)
        <3>1. todo' = [todo EXCEPT ![j] = Candidates(today[j], Kinds[stage[j]])]
              /\ pc' = [pc EXCEPT ![j] = "count"]
            BY <1>2, <2>3 DEF Select, Goto
        <3>2. todo' \in [Jobs -> SUBSET Pairs] BY <2>1, <3>1 DEF TypeOK
        <3> QED BY <1>2, <2>3, <3>1, <3>2 DEF Select, TypeOK, CandInv, Busy, settings
    <2> QED BY <2>2, <2>3
<1>3. CASE Advance(j)
    <2>1. CASE Leave(j) BY <1>3, <2>1, <1>a DEF Advance, TypeOK, settings
    <2>2. CASE ~Leave(j)
        <3>1. stage' = [stage EXCEPT ![j] = stage[j] + 1] /\ stage[j] + 1 \in 1..3
              /\ pc' = [pc EXCEPT ![j] = "select"]
            BY <1>3, <2>2 DEF Advance, Goto, TypeOK
        <3>2. stage' \in [Jobs -> 1..3] BY <3>1 DEF TypeOK
        <3> QED BY <1>3, <2>2, <3>1, <3>2 DEF Advance, TypeOK, CandInv, Busy, settings
    <2> QED BY <2>1, <2>2
<1>4. CASE Count(j)
    <2>1. PICK c \in todo[j] :
              /\ todo' = [todo EXCEPT ![j] = @ \ {c}]
              /\ \/ cand' = [cand EXCEPT ![j] = c] /\ Goto(j, "insert")
                 \/ UNCHANGED <<pc, cand>>
        BY <1>4 DEF Count
    <2>2. c \in Pairs BY DEF TypeOK
    <2>3. todo' \in [Jobs -> SUBSET Pairs] BY <2>1 DEF TypeOK
    <2>4. cand' \in [Jobs -> Pairs \cup {Nobody}] BY <2>1, <2>2 DEF TypeOK
    <2>5. pc' \in [Jobs -> {"idle", "select", "count", "insert", "send"}]
        BY <2>1 DEF TypeOK, Goto
    <2>6. CandInv' BY <2>1, <2>2 DEF TypeOK, CandInv, Busy, Goto
    <2> QED BY <1>4, <2>3, <2>4, <2>5, <2>6 DEF Count, TypeOK, settings
<1>5. CASE CountFails(j)
    BY <1>5, <1>a, <1>b DEF CountFails, Abort, TypeOK, settings
<1>6. CASE Insert(j)
    <2>1. AlertOf(j) \in Alert BY <1>6, AlertOfType DEF Insert, At, Busy
    <2>2. deliveries' \subseteq Alert BY <1>6, <2>1 DEF Insert, TypeOK
    <2>3. CASE Abort(j)
        <3>1. UNCHANGED <<day, settings, changes, sends>> BY <1>6 DEF Insert
        <3> QED BY <2>2, <2>3, <3>1, <1>a, <1>b DEF Abort, TypeOK, settings
    <2>4. CASE ~Abort(j)
        <3>1. pc' \in [Jobs -> {"idle", "select", "count", "insert", "send"}]
            BY <1>6, <2>4 DEF Insert, Continue, Goto, TypeOK
        <3>2. cand' \in [Jobs -> Pairs \cup {Nobody}] /\ UNCHANGED <<today, stage, todo, faults>>
            BY <1>6, <2>4 DEF Insert, Continue, TypeOK, locals
        <3>3. CandInv'
            BY <1>6, <2>4 DEF Insert, At, Continue, Goto, CandInv, Busy, TypeOK, locals
        <3> QED BY <1>6, <2>2, <3>1, <3>2, <3>3 DEF Insert, TypeOK, settings
    <2> QED BY <2>3, <2>4
<1>7. CASE Send(j)
    <2>1. sends' \in [Alert -> Nat]
        <3>1. AlertOf(j) \in Alert BY <1>7, AlertOfType DEF Send, At, Busy
        <3>2. sends \in [Alert -> Nat] BY DEF TypeOK
        <3>3. sends[AlertOf(j)] + 1 \in Nat BY <3>1, <3>2
        <3>4. sends' = [sends EXCEPT ![AlertOf(j)] = sends[AlertOf(j)] + 1] BY <1>7 DEF Send
        <3> HIDE DEF AlertOf
        <3> QED BY <3>1, <3>2, <3>3, <3>4
    <2>2. pc' \in [Jobs -> {"idle", "select", "count", "insert", "send"}]
          /\ cand' \in [Jobs -> Pairs \cup {Nobody}] /\ CandInv'
        BY <1>7 DEF Send, Continue, Goto, TypeOK, CandInv, Busy
    <2> QED BY <1>7, <2>1, <2>2 DEF Send, Continue, TypeOK, settings
<1> QED BY <1>1, <1>2, <1>3, <1>4, <1>5, <1>6, <1>7 DEF Step

\* So do the steps of the environment.
LEMMA EnvironmentTypes ==
    ASSUME TypeOK, CandInv, Environment PROVE TypeOK' /\ CandInv'
<1> USE DEF TypeOK
<1>1. CASE Stop
    BY <1>1, Bounds DEF Stop, Fault, CandInv, Busy, settings, Days
<1>2. CASE NextDay
    BY <1>2, Bounds DEF NextDay, CandInv, settings, locals, Days
<1>3. ASSUME Change, enabled' \subseteq Pairs, active' \subseteq Programs, muted' \subseteq Users,
             deadline' \in [Programs -> Nat]
      PROVE  TypeOK' /\ CandInv'
    BY <1>3, Bounds DEF Change, CandInv, locals
<1>4. ASSUME NEW c \in Pairs, SetSubscription(c) PROVE TypeOK' /\ CandInv'
    BY <1>3, <1>4 DEF SetSubscription
<1>5. ASSUME NEW u \in Users, SetPreference(u) PROVE TypeOK' /\ CandInv'
    BY <1>3, <1>5 DEF SetPreference
<1>6. ASSUME NEW p \in Programs, TogglePublish(p) PROVE TypeOK' /\ CandInv'
    BY <1>3, <1>6 DEF TogglePublish
<1>7. ASSUME NEW p \in Programs, MoveDeadline(p) PROVE TypeOK' /\ CandInv'
    <2>1. Deadlines[p] \subseteq Nat BY ConstantsAssumption
    <2> QED BY <1>3, <1>7, <2>1 DEF MoveDeadline
<1> QED BY <1>1, <1>2, <1>4, <1>5, <1>6, <1>7 DEF Environment

\* ... and every step keeps them.
LEMMA TypeStep == ASSUME TypeOK, CandInv, [Next]_vars PROVE TypeOK' /\ CandInv'
<1>1. CASE UNCHANGED vars BY <1>1 DEF vars, settings, locals, TypeOK, CandInv
<1> QED BY <1>1, JobTypes, EnvironmentTypes DEF Next

\* Every variable keeps its type, and a job that records or dispatches an alert
\* has a candidate.
THEOREM TypeCorrect == Spec => [](TypeOK /\ CandInv)
BY TypeInit, TypeStep, PTL DEF Spec

-----------------------------------------------------------------------------
(* DeadlineAlerts implements AlertLedger                                   *)

Sending(j) == At(j, "send")

\* What a job at the dispatch knows: its alert is recorded, has not been sent
\* and is no other job's; an alert that is not recorded has not been sent.
LedgerInv ==
    /\ \A j \in Jobs : Sending(j) => AlertOf(j) \in deliveries /\ sends[AlertOf(j)] = 0
    /\ \A i, j \in Jobs : Sending(i) /\ Sending(j) /\ i # j => AlertOf(i) # AlertOf(j)
    /\ \A a \in Alert \ deliveries : sends[a] = 0

\* A step of one job leaves the others where they are.
LEMMA OthersKept ==
    ASSUME TypeOK, NEW j \in Jobs, Tick(j) \/ Step(j), NEW i \in Jobs, i # j
    PROVE  pc'[i] = pc[i] /\ today'[i] = today[i] /\ stage'[i] = stage[i] /\ cand'[i] = cand[i]
<1> USE DEF TypeOK, Goto
<1>a. Leave(j) => pc'[i] = pc[i] /\ today'[i] = today[i] /\ stage'[i] = stage[i] /\ cand'[i] = cand[i]
    BY DEF Leave
<1>1. CASE Tick(j) BY <1>1 DEF Tick
<1>2. CASE Select(j) BY <1>2, <1>a DEF Select, Abort
<1>3. CASE Advance(j) BY <1>3, <1>a DEF Advance
<1>4. CASE Count(j) BY <1>4 DEF Count
<1>5. CASE CountFails(j) BY <1>5, <1>a DEF CountFails, Abort
<1>6. CASE Insert(j) BY <1>6, <1>a DEF Insert, Continue, Abort, locals
<1>7. CASE Send(j) BY <1>7 DEF Send, Continue
<1> QED BY <1>1, <1>2, <1>3, <1>4, <1>5, <1>6, <1>7 DEF Step

\* The effect of a step of job j on the ledger: it records an alert, dispatches
\* one, or leaves both tables alone and is not at the dispatch.
Records(j) ==
    /\ At(j, "insert") /\ AlertOf(j) \notin deliveries
    /\ deliveries' = deliveries \cup {AlertOf(j)} /\ sends' = sends
    /\ AlertOf(j)' = AlertOf(j) /\ pc'[j] = "send"
Dispatches(j) ==
    /\ Sending(j) /\ ~Sending(j)'
    /\ deliveries' = deliveries /\ sends' = [sends EXCEPT ![AlertOf(j)] = @ + 1]
Quiet(j) == deliveries' = deliveries /\ sends' = sends /\ ~Sending(j)'

\* Those are all the steps there are.
LEMMA JobEffects ==
    ASSUME TypeOK, NEW j \in Jobs, Tick(j) \/ Step(j)
    PROVE  Records(j) \/ Dispatches(j) \/ Quiet(j)
<1> USE DEF TypeOK, Goto, Sending, At
<1>a. Leave(j) => ~Sending(j)' BY DEF Leave
<1>1. CASE Tick(j) BY <1>1 DEF Tick, Quiet
<1>2. CASE Select(j) BY <1>2, <1>a DEF Select, Abort, Quiet
<1>3. CASE Advance(j) BY <1>3, <1>a DEF Advance, Quiet
<1>4. CASE Count(j) BY <1>4 DEF Count, Quiet
<1>5. CASE CountFails(j) BY <1>5, <1>a DEF CountFails, Abort, Quiet
<1>6. CASE Insert(j)
    <2>1. CASE deliveries' = deliveries
        <3>1. AlertOf(j) \in deliveries \/ Abort(j) BY <1>6, <2>1 DEF Insert
        <3>2. sends' = sends BY <1>6 DEF Insert
        <3>3. CASE Abort(j) BY <2>1, <3>2, <3>3, <1>a DEF Abort, Quiet
        <3>4. CASE ~Abort(j)
            <4>1. Continue(j) BY <1>6, <3>1, <3>4 DEF Insert
            <4> QED BY <2>1, <3>2, <4>1 DEF Continue, Quiet
        <3> QED BY <3>3, <3>4
    <2>2. CASE deliveries' # deliveries
        <3>1. /\ AlertOf(j) \notin deliveries
              /\ deliveries' = deliveries \cup {AlertOf(j)}
              /\ pc' = [pc EXCEPT ![j] = "send"]
              /\ UNCHANGED locals
            BY <1>6, <2>2 DEF Insert
        <3>2. AlertOf(j)' = AlertOf(j) BY <3>1 DEF AlertOf, locals
        <3>3. sends' = sends /\ At(j, "insert") BY <1>6 DEF Insert
        <3> QED BY <3>1, <3>2, <3>3 DEF Records
    <2> QED BY <2>1, <2>2
<1>7. CASE Send(j)
    <2>1. sends' = [sends EXCEPT ![AlertOf(j)] = @ + 1] /\ deliveries' = deliveries /\ Sending(j)
        BY <1>7 DEF Send
    <2>2. ~Sending(j)' BY <1>7 DEF Send, Continue
    <2> QED BY <2>1, <2>2 DEF Dispatches
<1> QED BY <1>1, <1>2, <1>3, <1>4, <1>5, <1>6, <1>7 DEF Step

\* The steps of the environment leave the ledger alone, and the jobs too unless
\* the worker stops.
LEMMA EnvironmentEffects ==
    ASSUME Environment
    PROVE  /\ deliveries' = deliveries /\ sends' = sends
           /\ \/ pc' = [j \in Jobs |-> "idle"]
              \/ UNCHANGED <<pc, locals>>
BY DEF Environment, Stop, NextDay, SetSubscription, SetPreference, TogglePublish, MoveDeadline,
       Change

\* LedgerInv holds at first ...
LEMMA LedgerInit == ASSUME Init PROVE LedgerInv
BY DEF Init, LedgerInv, Sending, At

\* ... is kept by the steps of a job ...
LEMMA LedgerJob ==
    ASSUME TypeOK, CandInv, LedgerInv, NEW j \in Jobs, Tick(j) \/ Step(j)
    PROVE  LedgerInv'
<1>1. \A i \in Jobs : i # j => Sending(i)' = Sending(i) /\ AlertOf(i)' = AlertOf(i)
    BY OthersKept DEF Sending, At, AlertOf
<1>2. \A i \in Jobs : Sending(i) \/ At(i, "insert") => AlertOf(i) \in Alert
    BY AlertOfType DEF Sending, At, Busy
<1>3. sends \in [Alert -> Nat] BY DEF TypeOK
<1> HIDE DEF AlertOf, Sending, At
<1>4. CASE Records(j)
    <2>1. Sending(j)' BY <1>4 DEF Records, Sending, At
    <2>2. \A i \in Jobs : Sending(i)' => AlertOf(i)' \in deliveries' /\ sends'[AlertOf(i)'] = 0
        BY <1>1, <1>2, <1>4 DEF Records, LedgerInv
    <2>3. \A i \in Jobs : i # j /\ Sending(i)' => AlertOf(i)' # AlertOf(j)'
        BY <1>1, <1>4 DEF Records, LedgerInv
    <2>4. \A i, k \in Jobs : Sending(i)' /\ Sending(k)' /\ i # k => AlertOf(i)' # AlertOf(k)'
        BY <1>1, <2>3 DEF LedgerInv
    <2>5. \A a \in Alert \ deliveries' : sends'[a] = 0 BY <1>4 DEF Records, LedgerInv
    <2> QED BY <2>2, <2>4, <2>5 DEF LedgerInv
<1>5. CASE Dispatches(j)
    <2>1. AlertOf(j) \in Alert /\ AlertOf(j) \in deliveries BY <1>2, <1>5 DEF Dispatches, LedgerInv
    <2>2. \A a \in Alert : a # AlertOf(j) => sends'[a] = sends[a]
        BY <1>3, <1>5 DEF Dispatches
    <2>3. \A i \in Jobs : Sending(i)' => i # j /\ Sending(i) /\ AlertOf(i)' = AlertOf(i)
        BY <1>1, <1>5 DEF Dispatches
    <2>4. \A i \in Jobs : Sending(i)' => AlertOf(i) # AlertOf(j)
        BY <2>3, <1>5 DEF Dispatches, LedgerInv
    <2>5. \A i \in Jobs : Sending(i)' => AlertOf(i)' \in deliveries' /\ sends'[AlertOf(i)'] = 0
        BY <1>2, <1>5, <2>2, <2>3, <2>4 DEF Dispatches, LedgerInv
    <2>6. \A i, k \in Jobs : Sending(i)' /\ Sending(k)' /\ i # k => AlertOf(i)' # AlertOf(k)'
        BY <2>3 DEF LedgerInv
    <2>7. \A a \in Alert \ deliveries' : sends'[a] = 0
        BY <1>5, <2>1, <2>2 DEF Dispatches, LedgerInv
    <2> QED BY <2>5, <2>6, <2>7 DEF LedgerInv
<1>6. CASE Quiet(j)
    <2>1. \A i \in Jobs : Sending(i)' => i # j /\ Sending(i) /\ AlertOf(i)' = AlertOf(i)
        BY <1>1, <1>6 DEF Quiet
    <2> QED BY <1>6, <2>1 DEF Quiet, LedgerInv
<1> QED BY <1>4, <1>5, <1>6, JobEffects

\* ... and by every step.
LEMMA LedgerStep ==
    ASSUME TypeOK, CandInv, LedgerInv, [Next]_vars PROVE LedgerInv'
<1>1. ASSUME deliveries' = deliveries, sends' = sends, UNCHANGED <<pc, locals>> PROVE LedgerInv'
    <2>1. \A j \in Jobs : Sending(j)' = Sending(j) /\ AlertOf(j)' = AlertOf(j)
        BY <1>1 DEF Sending, At, AlertOf, locals
    <2> HIDE DEF Sending, AlertOf
    <2> QED BY <1>1, <2>1 DEF LedgerInv
<1>2. ASSUME Environment PROVE LedgerInv'
    <2>1. CASE pc' = [j \in Jobs |-> "idle"]
        <3>1. \A j \in Jobs : ~Sending(j)' BY <2>1 DEF Sending, At
        <3> QED BY <1>2, <3>1, EnvironmentEffects DEF LedgerInv
    <2> QED BY <1>1, <1>2, <2>1, EnvironmentEffects
<1>3. CASE UNCHANGED vars BY <1>1, <1>3 DEF vars
<1> QED BY <1>2, <1>3, LedgerJob DEF Next

\* In every run a job at the dispatch is the only one to hold its alert.
THEOREM LedgerInvariant == Spec => []LedgerInv
BY TypeCorrect, LedgerInit, LedgerStep, PTL DEF Spec

\* A step of the jobs is a step of the ledger, or changes nothing of it.
LEMMA LedgerRefines ==
    ASSUME TypeOK, CandInv, LedgerInv, [Next]_vars
    PROVE  [Ledger!Next]_<<deliveries, sends>>
<1>1. ASSUME NEW j \in Jobs, Tick(j) \/ Step(j) PROVE [Ledger!Next]_<<deliveries, sends>>
    <2>1. CASE Records(j)
        <3>1. AlertOf(j) \in Alert BY <2>1, AlertOfType DEF Records, At, Busy
        <3>2. Ledger!Record(AlertOf(j)) BY <2>1 DEF Records, Ledger!Record
        <3> QED BY <3>1, <3>2 DEF Ledger!Next
    <2>2. CASE Dispatches(j)
        <3>1. AlertOf(j) \in Alert BY <2>2, AlertOfType DEF Dispatches, Sending, At, Busy
        <3>2. AlertOf(j) \in deliveries /\ sends[AlertOf(j)] = 0
            BY <2>2 DEF Dispatches, LedgerInv
        <3>3. Ledger!Dispatch(AlertOf(j))
            <4> HIDE DEF AlertOf
            <4> QED BY <2>2, <3>2 DEF Dispatches, Ledger!Dispatch
        <3> QED BY <3>1, <3>3 DEF Ledger!Next
    <2>3. CASE Quiet(j) BY <2>3 DEF Quiet
    <2> QED BY <1>1, <2>1, <2>2, <2>3, JobEffects
<1>2. CASE Environment BY <1>2, EnvironmentEffects
<1>3. CASE UNCHANGED vars BY <1>3 DEF vars
<1> QED BY <1>1, <1>2, <1>3 DEF Next

\* However the jobs interleave, fail and are restarted, every alert is recorded
\* once, and dispatched at most once and only after that.
THEOREM ImplementsLedger == Spec => AlertedOnce
<1>1. Init => Ledger!Init BY DEF Init, Ledger!Init
<1>2. TypeOK /\ CandInv /\ LedgerInv /\ [Next]_vars => [Ledger!Next]_<<deliveries, sends>>
    BY LedgerRefines
<1> QED BY <1>1, <1>2, TypeCorrect, LedgerInvariant, PTL DEF Spec, AlertedOnce, Ledger!Spec

-----------------------------------------------------------------------------
(* How far the daily limit can be exceeded                                 *)

\* The jobs that have passed the count for user u on day d and are to insert.
Passed(u, d) == {j \in Jobs : At(j, "insert") /\ cand[j].user = u /\ today[j] = d}

\* Each of these may still add an alert.
OvershootInv ==
    /\ IsFiniteSet(deliveries)
    /\ \A u \in Users, d \in Days :
           Cardinality(DayAlerts(u, d)) + Cardinality(Passed(u, d))
               <= DailyLimit + Cardinality(Jobs) - 1

\* The sets that are counted are finite.
LEMMA FiniteParts ==
    ASSUME OvershootInv, NEW u, NEW d
    PROVE  /\ IsFiniteSet(DayAlerts(u, d)) /\ Cardinality(DayAlerts(u, d)) \in Nat
           /\ IsFiniteSet(Passed(u, d)) /\ Cardinality(Passed(u, d)) \in 0..Cardinality(Jobs)
           /\ Cardinality(Jobs) \in Nat
<1>1. DayAlerts(u, d) \subseteq deliveries BY DEF DayAlerts
<1>2. Passed(u, d) \subseteq Jobs BY DEF Passed
<1>3. IsFiniteSet(deliveries) /\ IsFiniteSet(Jobs) BY ConstantsAssumption DEF OvershootInv
<1>4. IsFiniteSet(DayAlerts(u, d)) BY <1>1, <1>3, FS_Subset
<1>5. IsFiniteSet(Passed(u, d)) /\ Cardinality(Passed(u, d)) <= Cardinality(Jobs)
    BY <1>2, <1>3, FS_Subset
<1> QED BY <1>3, <1>4, <1>5, FS_CardinalityType

\* Nothing is counted at first.
LEMMA OvershootInit == ASSUME Init PROVE OvershootInv
<1>1. deliveries = {} /\ \A j \in Jobs : ~At(j, "insert") BY DEF Init, At
<1>2. \A u, d : DayAlerts(u, d) = {} /\ Passed(u, d) = {} BY <1>1 DEF DayAlerts, Passed
<1>3. IsFiniteSet({}) /\ Cardinality({}) = 0 BY FS_EmptySet
<1>4. Cardinality(Jobs) \in Nat \ {0} BY ConstantsAssumption, FS_CardinalityType, FS_EmptySet
<1>5. 0 <= DailyLimit + Cardinality(Jobs) - 1 BY <1>4, Bounds
<1>6. IsFiniteSet(deliveries) BY <1>1, <1>3
<1>7. \A u, d : Cardinality(DayAlerts(u, d)) + Cardinality(Passed(u, d)) = 0 BY <1>2, <1>3
<1> QED BY <1>5, <1>6, <1>7 DEF OvershootInv

\* A step that records nothing and lets no job pass the count keeps it.
LEMMA OvershootKept ==
    ASSUME OvershootInv, deliveries' = deliveries,
           \A i \in Jobs : At(i, "insert")' =>
               At(i, "insert") /\ cand'[i] = cand[i] /\ today'[i] = today[i]
    PROVE  OvershootInv'
<1> SUFFICES ASSUME NEW u \in Users, NEW d \in Days
             PROVE  Cardinality(DayAlerts(u, d)') + Cardinality(Passed(u, d)')
                        <= DailyLimit + Cardinality(Jobs) - 1
    BY DEF OvershootInv
<1>1. DayAlerts(u, d)' = DayAlerts(u, d) BY DEF DayAlerts
<1>2. Passed(u, d)' \subseteq Passed(u, d) BY DEF Passed
<1>3. /\ IsFiniteSet(Passed(u, d)') /\ Cardinality(Passed(u, d)') <= Cardinality(Passed(u, d))
      /\ Cardinality(Passed(u, d)') \in Nat
    BY <1>2, FiniteParts, FS_Subset, FS_CardinalityType
<1>4. Cardinality(DayAlerts(u, d)) + Cardinality(Passed(u, d)) <= DailyLimit + Cardinality(Jobs) - 1
    BY DEF OvershootInv
<1> QED BY <1>1, <1>3, <1>4, FiniteParts, Bounds

\* A job passes the count only below the limit, and then all may have passed it.
LEMMA OvershootCount ==
    ASSUME TypeOK, OvershootInv, NEW j \in Jobs, Count(j)
    PROVE  OvershootInv'
<1>1. PICK c \in todo[j] :
          \/ /\ Cardinality(DayAlerts(c.user, today[j])) < DailyLimit
             /\ cand' = [cand EXCEPT ![j] = c] /\ Goto(j, "insert") /\ UNCHANGED today
          \/ UNCHANGED <<pc, today, cand>>
    BY DEF Count, HasRoom
<1>2. deliveries' = deliveries BY DEF Count
<1>3. CASE UNCHANGED <<pc, today, cand>> BY <1>2, <1>3, OvershootKept DEF At
<1>4. CASE /\ Cardinality(DayAlerts(c.user, today[j])) < DailyLimit
           /\ cand' = [cand EXCEPT ![j] = c] /\ Goto(j, "insert") /\ UNCHANGED today
    <2> SUFFICES ASSUME NEW u \in Users, NEW d \in Days
                 PROVE  Cardinality(DayAlerts(u, d)') + Cardinality(Passed(u, d)')
                            <= DailyLimit + Cardinality(Jobs) - 1
        BY <1>2 DEF OvershootInv
    <2>1. DayAlerts(u, d)' = DayAlerts(u, d) BY <1>2 DEF DayAlerts
    <2>2. CASE c.user = u /\ today[j] = d
        <3>1. Passed(u, d)' \subseteq Jobs BY DEF Passed
        <3>2. Cardinality(Passed(u, d)') \in Nat /\ Cardinality(Passed(u, d)') <= Cardinality(Jobs)
            BY <3>1, ConstantsAssumption, FS_Subset, FS_CardinalityType
        <3> QED BY <1>4, <2>1, <2>2, <3>2, FiniteParts, Bounds
    <2>3. CASE ~(c.user = u /\ today[j] = d)
        <3>1. Passed(u, d)' \subseteq Passed(u, d)
            BY <1>4, <2>3 DEF Passed, At, Goto, TypeOK
        <3>2. Cardinality(Passed(u, d)') \in Nat /\ Cardinality(Passed(u, d)') <= Cardinality(Passed(u, d))
            BY <3>1, FiniteParts, FS_Subset, FS_CardinalityType
        <3>3. Cardinality(DayAlerts(u, d)) + Cardinality(Passed(u, d)) <= DailyLimit + Cardinality(Jobs) - 1
            BY DEF OvershootInv
        <3> QED BY <2>1, <3>2, <3>3, FiniteParts, Bounds
    <2> QED BY <2>2, <2>3
<1> QED BY <1>1, <1>3, <1>4

\* A job that records an alert trades its place among those that passed for it.
LEMMA OvershootRecord ==
    ASSUME TypeOK, CandInv, OvershootInv, NEW j \in Jobs, Tick(j) \/ Step(j), Records(j)
    PROVE  OvershootInv'
<1>1. \A i \in Jobs : i # j => pc'[i] = pc[i] /\ today'[i] = today[i] /\ cand'[i] = cand[i]
    BY OthersKept
<1>2. deliveries' = deliveries \cup {AlertOf(j)} /\ AlertOf(j) \notin deliveries /\ ~At(j, "insert")'
    BY DEF Records, At
<1>3. AlertOf(j).user = cand[j].user /\ AlertOf(j).date = today[j] BY DEF AlertOf
<1>4. At(j, "insert") BY DEF Records
<1>5. IsFiniteSet(deliveries') BY <1>2, FS_AddElement DEF OvershootInv
<1> SUFFICES ASSUME NEW u \in Users, NEW d \in Days
             PROVE  Cardinality(DayAlerts(u, d)') + Cardinality(Passed(u, d)')
                        <= DailyLimit + Cardinality(Jobs) - 1
    BY <1>5 DEF OvershootInv
<1>6. Cardinality(DayAlerts(u, d)) + Cardinality(Passed(u, d)) <= DailyLimit + Cardinality(Jobs) - 1
    BY DEF OvershootInv
<1> HIDE DEF AlertOf
<1>7. CASE cand[j].user = u /\ today[j] = d
    <2>1. DayAlerts(u, d)' = DayAlerts(u, d) \cup {AlertOf(j)} BY <1>2, <1>3, <1>7 DEF DayAlerts
    <2>2. AlertOf(j) \notin DayAlerts(u, d) BY <1>2 DEF DayAlerts
    <2>3. Passed(u, d)' = Passed(u, d) \ {j} BY <1>1, <1>2 DEF Passed, At
    <2>4. j \in Passed(u, d) BY <1>4, <1>7 DEF Passed
    <2>5. Cardinality(DayAlerts(u, d)') = Cardinality(DayAlerts(u, d)) + 1
        BY <2>1, <2>2, FiniteParts, FS_AddElement
    <2>6. Cardinality(Passed(u, d)') = Cardinality(Passed(u, d)) - 1
        BY <2>3, <2>4, FiniteParts, FS_RemoveElement
    <2> QED BY <1>6, <2>5, <2>6, FiniteParts, Bounds
<1>8. CASE ~(cand[j].user = u /\ today[j] = d)
    <2>1. DayAlerts(u, d)' = DayAlerts(u, d) BY <1>2, <1>3, <1>8 DEF DayAlerts
    <2>2. Passed(u, d)' = Passed(u, d) BY <1>1, <1>2, <1>8 DEF Passed, At
    <2> QED BY <1>6, <2>1, <2>2
<1> QED BY <1>7, <1>8

\* Only Count lets a job pass the count.
LEMMA OnlyCountPasses ==
    ASSUME TypeOK, NEW j \in Jobs, Tick(j) \/ Step(j), ~Count(j) PROVE ~At(j, "insert")'
<1> USE DEF TypeOK, Goto, At
<1>a. Leave(j) => ~At(j, "insert")' BY DEF Leave
<1>1. CASE Tick(j) BY <1>1 DEF Tick
<1>2. CASE Select(j) BY <1>2, <1>a DEF Select, Abort
<1>3. CASE Advance(j) BY <1>3, <1>a DEF Advance
<1>4. CASE CountFails(j) BY <1>4, <1>a DEF CountFails, Abort
<1>5. CASE Insert(j) BY <1>5, <1>a DEF Insert, Continue, Abort
<1>6. CASE Send(j) BY <1>6 DEF Send, Continue
<1> QED BY <1>1, <1>2, <1>3, <1>4, <1>5, <1>6 DEF Step

\* Every step keeps the bound.
LEMMA OvershootStep ==
    ASSUME TypeOK, CandInv, OvershootInv, [Next]_vars PROVE OvershootInv'
<1>1. ASSUME NEW j \in Jobs, Tick(j) \/ Step(j), ~Count(j), ~Records(j) PROVE OvershootInv'
    <2>1. deliveries' = deliveries BY <1>1, JobEffects DEF Dispatches, Quiet
    <2>2. \A i \in Jobs : At(i, "insert")' =>
              At(i, "insert") /\ cand'[i] = cand[i] /\ today'[i] = today[i]
        BY <1>1, OthersKept, OnlyCountPasses DEF At
    <2> QED BY <2>1, <2>2, OvershootKept
<1>2. ASSUME Environment PROVE OvershootInv'
    BY <1>2, EnvironmentEffects, OvershootKept DEF At, locals
<1>3. CASE UNCHANGED vars BY <1>3, OvershootKept DEF vars, locals, At
<1> QED BY <1>1, <1>2, <1>3, OvershootCount, OvershootRecord DEF Next

\* Overlapping jobs exceed the daily limit by at most one alert for every job
\* but the first.
THEOREM OvershootIsBounded == Spec => []OvershootBounded
<1>1. OvershootInv => OvershootBounded
    BY FiniteParts, Bounds DEF OvershootInv, OvershootBounded
<1> QED BY <1>1, TypeCorrect, OvershootInit, OvershootStep, PTL DEF Spec
=============================================================================
