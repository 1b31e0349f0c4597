----------------------------- MODULE AlertLedger -----------------------------
(***************************************************************************)
(* What alert_deliveries promises (infra/migrations/20260320000005_alerts  *)
(* .sql): an alert is recorded at most once, and dispatched at most once   *)
(* and only after it has been recorded.  Recorded alerts may remain        *)
(* undispatched for ever.                                                  *)
(***************************************************************************)
EXTENDS Naturals

CONSTANT Alerts     \* every alert there can be: user, program, type and date

VARIABLES recorded, \* the alerts that have been recorded
          sends     \* sends[a]: how often alert a has been dispatched

TypeOK == recorded \subseteq Alerts /\ sends \in [Alerts -> {0, 1}]

Init == recorded = {} /\ sends = [a \in Alerts |-> 0]

Record(a) ==
    /\ a \notin recorded
    /\ recorded' = recorded \cup {a}
    /\ UNCHANGED sends

Dispatch(a) ==
    /\ a \in recorded /\ sends[a] = 0
    /\ sends' = [sends EXCEPT ![a] = 1]
    /\ UNCHANGED recorded

Next == \E a \in Alerts : Record(a) \/ Dispatch(a)

Spec == Init /\ [][Next]_<<recorded, sends>>
=============================================================================
