------------------------------ MODULE RunLedger ------------------------------
(***************************************************************************)
(* What ingestion_runs and ingestion_items promise to their readers        *)
(* (infra/migrations/20260320000004_ingestion.sql): a run is opened for    *)
(* one source and closed at most once, as a success or as a failure; while *)
(* it is open, records of its source are noted in it, one item each; its   *)
(* report agrees with its items; and a failed run has none.                *)
(***************************************************************************)
EXTENDS Naturals, FiniteSets

CONSTANTS
    RunIds,         \* the rows that ingestion_runs may have
    Ids,            \* the records that may be noted
    Sources,        \* where records come from
    SourceOf,       \* SourceOf[i]: the source of record i
    Absent,         \* no such row
    MaxTotal        \* the most records that a run may report

VARIABLES
    runs,           \* runs[r]: the row of run r, or Absent
    items           \* items[r][i]: what run r notes of record i

Noted(r)   == {i \in Ids : items[r][i] # "none"}
Written(r) == {i \in Ids : items[r][i] \in {"upserted", "duplicate_of_youth_center"}}

Running(r) == runs[r] # Absent /\ runs[r].status = "running"

Init ==
    /\ runs = [r \in RunIds |-> Absent]
    /\ items = [r \in RunIds |-> [i \in Ids |-> "none"]]

Open(r, source) ==
    /\ runs[r] = Absent
    /\ runs' = [runs EXCEPT ![r] = [source |-> source, status |-> "running",
                                    total |-> 0, changed |-> 0]]
    /\ UNCHANGED items

\* UNIQUE(run_id, source_id): a record met again overwrites its item, unless
\* there was nothing to do for it.
Note(r, i, outcome) ==
    /\ Running(r) /\ SourceOf[i] = runs[r].source
    /\ outcome = "unchanged" => i \notin Noted(r)
    /\ items' = [items EXCEPT ![r][i] = outcome]
    /\ UNCHANGED runs

\* The report: the records fetched and those of them that changed, where a
\* record may have been fetched more than once.
Succeed(r, total, changed) ==
    /\ Running(r)
    /\ Cardinality(Written(r)) <= changed /\ changed <= total
    /\ Cardinality(Noted(r)) <= total
    /\ Cardinality(Noted(r)) = total => changed = Cardinality(Written(r))
    /\ runs' = [runs EXCEPT ![r] = [source |-> runs[r].source, status |-> "success",
                                    total |-> total, changed |-> changed]]
    /\ UNCHANGED items

\* A run fails before its first record, or not at all.
Fail(r) ==
    /\ Running(r) /\ Noted(r) = {}
    /\ runs' = [runs EXCEPT ![r] = [source |-> runs[r].source, status |-> "failed",
                                    total |-> 0, changed |-> 0]]
    /\ UNCHANGED items

Next ==
    \E r \in RunIds :
        \/ \E s \in Sources : Open(r, s)
        \/ \E i \in Ids : \E o \in {"unchanged", "upserted", "duplicate_of_youth_center", "failed"} :
              Note(r, i, o)
        \/ \E total, changed \in 0..MaxTotal : Succeed(r, total, changed)
        \/ Fail(r)

Spec == Init /\ [][Next]_<<runs, items>>
=============================================================================
