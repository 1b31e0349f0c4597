------------------------------ MODULE Ingestion ------------------------------
(***************************************************************************)
(* The ingestion pipeline of crates/worker/src/pipeline.rs, run by the     *)
(* nightly sync loop of crates/worker/src/main.rs and by the admin's       *)
(* trigger_sync of crates/api/src/routes/admin.rs.                         *)
(*                                                                         *)
(* A sync loop goes through its sources in order.  For each it opens a     *)
(* row of ingestion_runs, fetches a batch, and handles the records one by  *)
(* one, each with several database statements that are committed           *)
(* separately: one action here per statement.  Any number of loops may be  *)
(* in flight; they share the tables and nothing else.                      *)
(*                                                                         *)
(* What is abstracted: a payload is a title and a link (the data that the  *)
(* duplicate check and the link choice look at); two payloads have equal   *)
(* content hashes iff they are equal; two titles are duplicates iff they   *)
(* are equal.  A statement that fails has no effect in the database.  A    *)
(* batch may list a record more than once: the pages shift while they are  *)
(* fetched, and all records without an id of their own get the same one.   *)
(***************************************************************************)
EXTENDS Integers, Sequences, FiniteSets

CONSTANTS
    Workers,        \* the sync loops that may be in flight
    Plan,           \* Plan[w]: the configured sources of loop w, in order
    Ids,            \* source_ids; (source, source_id) is a program's key
    SourceOf,       \* SourceOf[i]: the source that publishes record i
    Titles,         \* program titles
    Links,          \* specific (deep) links a payload may carry
    BokjiroLinks,   \* those of them that contain bokjiro.go.kr
    NoLink,         \* a payload, or a program row, without a link
    DetailPage,     \* the youth_center detail page built from plcyNo
    Absent,         \* no such record, snapshot or program row
    Publishable,    \* Publishable[i]: the payloads that record i may have
    MaxBatch,       \* bound: records in a batch
    InitialFeed,    \* what the sources publish at the start
    MaxSyncs,       \* bound: sync loops started
    MaxRuns,        \* bound: rows of ingestion_runs
    MaxChanges,     \* bound: changes of what the sources publish
    MaxFaults,      \* bound: failed statements and fetches, and crashes
    MaxBuild        \* bound: deployed versions of the normalizer

Sources == {"youth_center", "national_welfare", "other"}
Payload == [title: Titles, link: Links \cup {NoLink}]
RunIds  == 1..MaxRuns

\* A record of a source: its source_id and its payload.
RawRecord == [id: Ids, from: Payload]

ASSUME ConstantsAssumption ==
    /\ Plan \in [Workers -> Seq(Sources)]
    /\ SourceOf \in [Ids -> Sources]
    /\ IsFiniteSet(Ids)
    /\ BokjiroLinks \subseteq Links
    /\ NoLink \notin Links /\ DetailPage \notin Links /\ NoLink # DetailPage
    /\ Publishable \in [Ids -> SUBSET Payload]
    /\ InitialFeed \in [Ids -> SUBSET Payload]
    /\ MaxSyncs \in Nat /\ MaxRuns \in Nat /\ MaxChanges \in Nat /\ MaxFaults \in Nat
    /\ MaxBatch \in Nat /\ MaxBuild \in Nat \ {0}

VARIABLES
    \* the outside world
    feed,       \* feed[i]: the payloads the source publishes under id i
    build,      \* the deployed version of the normalizer
    \* the database
    snapshots,  \* source_snapshots: the payload (its hash) last saved for i
    programs,   \* programs: the row of record i, or Absent
    opened,     \* the number of rows of ingestion_runs
    runs,       \* ingestion_runs: runs[r], or Absent
    items,      \* ingestion_items: items[r][i], the outcome of i in run r
    \* each sync loop
    pc,         \* the statement the loop executes next
    stage,      \* its position in Plan
    run,        \* its current run
    batch,      \* the fetched records
    pos,        \* the position in the batch of the record last taken up
    changed,    \* whether that record's hash differs from its snapshot's
    cache,      \* the youth_center rows loaded for the duplicate check
    dup,        \* the row the record duplicates
    count,      \* records changed so far in this run
    \* what the bounds bound, and history
    syncs,      \* the sync loops started so far
    changes,    \* the times the sources have changed what they publish
    faults,     \* the failures and crashes so far
    changedBy,  \* changedBy[i]: the run that last saved a changed snapshot of i
    contended   \* ids that two loops have processed at the same time, or that
                \* a batch has listed more than once

world     == <<feed, build>>
tables    == <<snapshots, programs, opened, runs, items>>
locals    == <<stage, run, batch, pos, changed, cache, dup, count>>
history   == <<changedBy, contended>>
vars == <<world, tables, pc, locals, syncs, changes, faults, history>>

Row == [from: Payload,                               \* raw_payload, title
        link: Links \cup {NoLink, DetailPage},       \* official_url
        active: BOOLEAN,                             \* is_active
        build: 1..MaxBuild]                          \* the normalizer that wrote it

Run == [source: Sources, status: {"running", "success", "failed"},
        total: Nat, changed: Nat]

Outcomes == {"none", "unchanged", "upserted", "duplicate_of_youth_center", "failed"}
CacheEntry == [id: Ids, title: Titles, link: Links \cup {NoLink, DetailPage}]

ASSUME AbsentAssumption == Absent \notin (Payload \cup Row \cup Run \cup Ids \cup CacheEntry)

\* A loop holds a run from the INSERT of the run's row to its final UPDATE.
Holding == {"fetch", "cache", "record", "snapshot", "item_unchanged", "link",
            "item_duplicate", "row", "item_upserted", "item_failed", "close_failed"}
\* It is processing a record of its batch in these.
Processing == {"snapshot", "item_unchanged", "link", "item_duplicate", "row",
               "item_upserted", "item_failed"}

Labels == Holding \cup {"idle", "next"}

WorldOK ==
    /\ feed \in [Ids -> SUBSET Payload]
    /\ build \in 1..MaxBuild

TablesOK ==
    /\ snapshots \in [Ids -> Payload \cup {Absent}]
    /\ programs \in [Ids -> Row \cup {Absent}]
    /\ opened \in 0..MaxRuns
    /\ runs \in [RunIds -> Run \cup {Absent}]
    /\ items \in [RunIds -> [Ids -> Outcomes]]

LoopsOK ==
    /\ pc \in [Workers -> Labels]
    /\ stage \in [Workers -> Nat \ {0}]
    /\ run \in [Workers -> 0..MaxRuns]
    /\ batch \in [Workers -> Seq(RawRecord)]
    /\ pos \in [Workers -> Nat]
    /\ changed \in [Workers -> BOOLEAN]
    /\ cache \in [Workers -> SUBSET CacheEntry]
    /\ dup \in [Workers -> CacheEntry \cup {Absent}]
    /\ count \in [Workers -> Nat]

HistoryOK ==
    /\ syncs \in 0..MaxSyncs /\ changes \in 0..MaxChanges /\ faults \in 0..MaxFaults
    /\ changedBy \in [Ids -> 0..MaxRuns]
    /\ contended \subseteq Ids

TypeOK == WorldOK /\ TablesOK /\ LoopsOK /\ HistoryOK

Init ==
    /\ feed = InitialFeed
    /\ build = 1
    /\ snapshots = [i \in Ids |-> Absent]
    /\ programs = [i \in Ids |-> Absent]
    /\ opened = 0
    /\ runs = [r \in RunIds |-> Absent]
    /\ items = [r \in RunIds |-> [i \in Ids |-> "none"]]
    /\ pc = [w \in Workers |-> "idle"]
    /\ stage = [w \in Workers |-> 1]
    /\ run = [w \in Workers |-> 0]
    /\ batch = [w \in Workers |-> <<>>]
    /\ pos = [w \in Workers |-> 0]
    /\ changed = [w \in Workers |-> FALSE]
    /\ cache = [w \in Workers |-> {}]
    /\ dup = [w \in Workers |-> Absent]
    /\ count = [w \in Workers |-> 0]
    /\ syncs = 0
    /\ changes = 0
    /\ faults = 0
    /\ changedBy = [i \in Ids |-> 0]
    /\ contended = {}

-----------------------------------------------------------------------------
(* Helpers                                                                 *)

Succeed == UNCHANGED faults
Fault   == faults < MaxFaults /\ faults' = faults + 1

At(w, label) == pc[w] = label
Goto(w, label) == pc' = [pc EXCEPT ![w] = label]

SourceAt(w) == Plan[w][stage[w]]
Rec(w)      == batch[w][pos[w]]     \* the current record

\* The batches that a source may return when it publishes the records S.
Listings(S) == UNION {[1..n -> S] : n \in 0..MaxBatch}

\* The ids that batch b lists more than once.
Repeated(b) == {b[m].id : m \in {k \in DOMAIN b : \E n \in DOMAIN b : n # k /\ b[n].id = b[k].id}}

\* Links found on two or more youth_center records of one batch.
SharedLinks(b) ==
    {l \in Links : \E m, n \in DOMAIN b : /\ b[m].id # b[n].id
                                          /\ b[m].from.link = l /\ b[n].from.link = l}

\* Mutant: an empty link is passed on as it is.
OfficialLinkOrEmpty(r, b) == IF r.from.link = NoLink THEN "" ELSE r.from.link

\* The official_url that normalizing record r of batch b gives.
OfficialLink(r, b) ==
    IF SourceOf[r.id] = "youth_center" /\ (r.from.link = NoLink \/ r.from.link \in SharedLinks(b))
    THEN DetailPage
    ELSE r.from.link

\* The youth_center rows that national_welfare records are compared with.
ActiveYouthRows ==
    {[id |-> i, title |-> programs[i].from.title, link |-> programs[i].link] :
        i \in {j \in Ids : /\ SourceOf[j] = "youth_center"
                           /\ programs[j] # Absent
                           /\ programs[j].active}}

Duplicates(w) == {e \in cache[w] : e.title = Rec(w).from.title}

\* Prefer the welfare record's link to a youth_center link that is not bokjiro's.
PrefersWelfareLink(w, e) ==
    /\ OfficialLink(Rec(w), batch[w]) # NoLink
    /\ e.link \notin BokjiroLinks

\* Mutant: ON CONFLICT DO NOTHING.
InsertedRow(w) ==
    IF programs[Rec(w).id] # Absent THEN programs[Rec(w).id]
    ELSE [from |-> Rec(w).from, link |-> OfficialLink(Rec(w), batch[w]),
          active |-> TRUE, build |-> build]

\* The row that the upsert of the current record leaves; an existing row keeps
\* its is_active.
UpsertedRow(w) ==
    [from   |-> Rec(w).from,
     link   |-> OfficialLink(Rec(w), batch[w]),
     active |-> programs[Rec(w).id] # Absent => programs[Rec(w).id].active,
     build  |-> build]

\* The row that the current record duplicates, with that record's link.
RelinkedRow(w) ==
    LET row == programs[dup[w].id] IN
    [from |-> row.from, link |-> OfficialLink(Rec(w), batch[w]),
     active |-> row.active, build |-> row.build]

-----------------------------------------------------------------------------
(* The sync loop                                                           *)

\* The cron tick, or the admin's request, starts a loop.
StartSync(w) ==
    /\ At(w, "idle")
    /\ syncs < MaxSyncs /\ syncs' = syncs + 1
    /\ stage' = [stage EXCEPT ![w] = 1]
    /\ Goto(w, "next")
    /\ UNCHANGED <<world, tables, run, batch, pos, changed, cache, dup, count,
                   changes, faults, history>>

EndSync(w) ==
    /\ At(w, "next") /\ stage[w] > Len(Plan[w])
    /\ Goto(w, "idle")
    /\ UNCHANGED <<world, tables, locals, syncs, changes, faults, history>>

\* run_ingestion inserts its row; if that fails the loop logs it and goes on.
OpenRun(w) ==
    /\ At(w, "next") /\ stage[w] <= Len(Plan[w])
    /\ \/ /\ Succeed
          /\ opened < MaxRuns
          /\ opened' = opened + 1
          /\ runs' = [runs EXCEPT ![opened + 1] =
                        [source |-> SourceAt(w), status |-> "running",
                         total |-> 0, changed |-> 0]]
          /\ run' = [run EXCEPT ![w] = opened + 1]
          /\ count' = [count EXCEPT ![w] = 0]
          /\ Goto(w, "fetch")
          /\ UNCHANGED stage
       \/ /\ Fault
          /\ stage' = [stage EXCEPT ![w] = @ + 1]
          /\ UNCHANGED <<opened, runs, run, count, pc>>
    /\ UNCHANGED <<world, snapshots, programs, items, batch, pos, changed,
                   cache, dup, syncs, changes, history>>

\* fetch_all: every record the source publishes; after an error in the middle
\* of the pages only some of them; or an error that fails the run.
Fetch(w) ==
    /\ At(w, "fetch")
    /\ LET published == {r \in RawRecord : SourceOf[r.id] = SourceAt(w) /\ r.from \in feed[r.id]} IN
       \/ \E b \in Listings(published) :
            /\ IF published = {b[n] : n \in DOMAIN b} THEN Succeed ELSE Fault
            /\ batch' = [batch EXCEPT ![w] = b]
            /\ contended' = contended \cup Repeated(b)
            /\ Goto(w, IF SourceAt(w) = "national_welfare" THEN "cache" ELSE "record")
       \/ /\ Fault
          /\ Goto(w, "close_failed")
          /\ UNCHANGED <<batch, contended>>
    /\ pos' = [pos EXCEPT ![w] = 0]
    /\ cache' = [cache EXCEPT ![w] = {}]
    /\ UNCHANGED <<world, tables, stage, run, changed, dup, count, syncs, changes, changedBy>>

\* load_youth_center_cache; a failure leaves the cache empty.
LoadCache(w) ==
    /\ At(w, "cache")
    /\ \/ Succeed /\ cache' = [cache EXCEPT ![w] = ActiveYouthRows]
       \/ Fault /\ UNCHANGED cache
    /\ Goto(w, "record")
    /\ UNCHANGED <<world, tables, stage, run, batch, pos, changed, dup, count,
                   syncs, changes, history>>

\* All records done: the run's row gets its final status, unless the UPDATE fails.
CloseRun(w) ==
    /\ At(w, "record") /\ pos[w] = Len(batch[w])
    /\ \/ /\ Succeed
          /\ runs' = [runs EXCEPT ![run[w]] =
                        [source |-> @.source, status |-> "success",
                         total |-> Len(batch[w]), changed |-> count[w]]]
       \/ Fault /\ UNCHANGED runs
    /\ Goto(w, "next")
    /\ stage' = [stage EXCEPT ![w] = @ + 1]
    /\ UNCHANGED <<world, snapshots, programs, opened, items, run, batch, pos,
                   changed, cache, dup, count, syncs, changes, history>>

\* Mutant: the UPDATE names the source instead of the run.
FailRunsOfSource(w) ==
    /\ At(w, "close_failed")
    /\ runs' = [r \in RunIds |->
                  IF runs[r] # Absent /\ runs[r].source = SourceAt(w)
                  THEN [runs[r] EXCEPT !.status = "failed"] ELSE runs[r]]
    /\ Goto(w, "next")
    /\ stage' = [stage EXCEPT ![w] = @ + 1]
    /\ UNCHANGED <<world, snapshots, programs, opened, items, run, batch, pos,
                   changed, cache, dup, count, syncs, changes, faults, history>>

CloseFailedRun(w) ==
    /\ At(w, "close_failed")
    /\ \/ /\ Succeed
          /\ runs' = [runs EXCEPT ![run[w]] =
                        [source |-> @.source, status |-> "failed",
                         total |-> @.total, changed |-> @.changed]]
       \/ Fault /\ UNCHANGED runs
    /\ Goto(w, "next")
    /\ stage' = [stage EXCEPT ![w] = @ + 1]
    /\ UNCHANGED <<world, snapshots, programs, opened, items, run, batch, pos,
                   changed, cache, dup, count, syncs, changes, history>>

-----------------------------------------------------------------------------
(* process_record                                                          *)

\* Mutant: the loop does not go on to the next record.
ReadSnapshotAgain(w) ==
    /\ At(w, "record") /\ pos[w] < Len(batch[w])
    /\ changed' = [changed EXCEPT ![w] = snapshots[batch[w][1].id] # batch[w][1].from]
    /\ pos' = [pos EXCEPT ![w] = 1]
    /\ Goto(w, "snapshot")
    /\ UNCHANGED <<world, tables, stage, run, batch, cache, dup, count, syncs,
                   changes, faults, history>>

\* SELECT content_hash
ReadSnapshot(w) ==
    /\ At(w, "record") /\ pos[w] < Len(batch[w])
    /\ pos' = [pos EXCEPT ![w] = @ + 1]
    /\ LET r == batch[w][pos[w] + 1] IN
        /\ contended' = contended \cup
              {i \in {r.id} : \E v \in Workers \ {w} : pc[v] \in Processing /\ Rec(v).id = i}
        /\ \/ /\ Succeed
              /\ changed' = [changed EXCEPT ![w] = snapshots[r.id] # r.from]
              /\ Goto(w, "snapshot")
           \/ /\ Fault
              /\ Goto(w, "item_failed")
              /\ UNCHANGED changed
    /\ UNCHANGED <<world, tables, stage, run, batch, cache, dup, count, syncs, changes, changedBy>>

\* Save the snapshot; if the hash was the same only the item is left to write,
\* otherwise normalize and compare with the cached youth_center titles.
WriteSnapshot(w) ==
    /\ At(w, "snapshot")
    /\ \/ /\ Succeed
          /\ snapshots' = [snapshots EXCEPT ![Rec(w).id] = Rec(w).from]
          /\ changedBy' = IF changed[w] THEN [changedBy EXCEPT ![Rec(w).id] = run[w]]
                                        ELSE changedBy
          /\ \/ /\ ~changed[w]
                /\ Goto(w, "item_unchanged")
                /\ UNCHANGED dup
             \/ /\ changed[w] /\ Duplicates(w) = {}
                /\ Goto(w, "row")
                /\ UNCHANGED dup
             \/ /\ changed[w]
                /\ \E e \in Duplicates(w) :
                    /\ dup' = [dup EXCEPT ![w] = e]
                    /\ Goto(w, IF PrefersWelfareLink(w, e) THEN "link" ELSE "item_duplicate")
       \/ /\ Fault
          /\ Goto(w, "item_failed")
          /\ UNCHANGED <<snapshots, changedBy, dup>>
    /\ UNCHANGED <<world, programs, opened, runs, items, stage, run, batch, pos,
                   changed, cache, count, syncs, changes, contended>>

\* UPDATE programs SET official_url of the duplicated row
WriteLink(w) ==
    /\ At(w, "link")
    /\ \/ /\ Succeed
          /\ programs' = [programs EXCEPT ![dup[w].id] = RelinkedRow(w)]
          /\ Goto(w, "item_duplicate")
       \/ /\ Fault
          /\ Goto(w, "item_failed")
          /\ UNCHANGED programs
    /\ UNCHANGED <<world, snapshots, opened, runs, items, locals, syncs, changes, history>>

\* INSERT INTO programs ... ON CONFLICT DO UPDATE
WriteRow(w) ==
    /\ At(w, "row")
    /\ \/ /\ Succeed
          /\ programs' = [programs EXCEPT ![Rec(w).id] = UpsertedRow(w)]
          /\ Goto(w, "item_upserted")
       \/ /\ Fault
          /\ Goto(w, "item_failed")
          /\ UNCHANGED programs
    /\ UNCHANGED <<world, snapshots, opened, runs, items, locals, syncs, changes, history>>

\* Mutant: records that were skipped are counted too.
CountedAlways(outcome) == 1

\* What the record adds to the run's count of changed records.
Counted(outcome) == IF outcome = "unchanged" THEN 0 ELSE 1

\* The item that the INSERT of an outcome leaves: an unchanged record does
\* nothing on a conflict, the others overwrite.
ItemAfter(w, outcome) ==
    IF outcome = "unchanged" /\ items[run[w]][Rec(w).id] # "none"
    THEN items[run[w]][Rec(w).id]
    ELSE outcome

\* INSERT INTO ingestion_items of a record that did not fail so far
WriteItem(w, label, outcome) ==
    /\ At(w, label)
    /\ \/ /\ Succeed
          /\ items' = [items EXCEPT ![run[w]][Rec(w).id] = ItemAfter(w, outcome)]
          /\ count' = [count EXCEPT ![w] = @ + Counted(outcome)]
          /\ Goto(w, "record")
       \/ /\ Fault
          /\ Goto(w, "item_failed")
          /\ UNCHANGED <<items, count>>
    /\ UNCHANGED <<world, snapshots, programs, opened, runs, stage, run, batch, pos,
                   changed, cache, dup, syncs, changes, history>>

WriteItemUnchanged(w) == WriteItem(w, "item_unchanged", "unchanged")
WriteItemDuplicate(w) == WriteItem(w, "item_duplicate", "duplicate_of_youth_center")
WriteItemUpserted(w)  == WriteItem(w, "item_upserted", "upserted")

\* Mutant: a failed record is processed again.
RetryRecord(w) ==
    /\ At(w, "item_failed")
    /\ Goto(w, "snapshot")
    /\ UNCHANGED <<world, tables, locals, syncs, changes, faults, history>>

\* A statement of the record failed: note it (if that works) and go on.
WriteItemFailed(w) ==
    /\ At(w, "item_failed")
    /\ \/ Succeed /\ items' = [items EXCEPT ![run[w]][Rec(w).id] = "failed"]
       \/ Fault /\ UNCHANGED items
    /\ Goto(w, "record")
    /\ UNCHANGED <<world, snapshots, programs, opened, runs, locals, syncs, changes, history>>

-----------------------------------------------------------------------------
(* The environment                                                         *)

\* The process running the loop stops; what it wrote so far stays.
Crash(w) ==
    /\ pc[w] # "idle"
    /\ Fault
    /\ Goto(w, "idle")
    /\ UNCHANGED <<world, tables, locals, syncs, changes, history>>

\* The source publishes, edits or withdraws a record, or a second one of its id.
ChangeFeed(i) ==
    /\ changes < MaxChanges
    /\ changes' = changes + 1
    /\ \E S \in SUBSET Publishable[i] \ {feed[i]} : feed' = [feed EXCEPT ![i] = S]
    /\ UNCHANGED <<build, tables, pc, locals, syncs, faults, history>>

\* A new version of the normalizer is deployed between two syncs.
Deploy ==
    /\ build < MaxBuild
    /\ \A w \in Workers : At(w, "idle")
    /\ build' = build + 1
    /\ UNCHANGED <<feed, tables, pc, locals, syncs, changes, faults, history>>

Step(w) ==
    \/ EndSync(w) \/ OpenRun(w) \/ Fetch(w) \/ LoadCache(w)
    \/ CloseRun(w) \/ CloseFailedRun(w)
    \/ ReadSnapshot(w) \/ WriteSnapshot(w) \/ WriteLink(w) \/ WriteRow(w)
    \/ WriteItemUnchanged(w) \/ WriteItemDuplicate(w) \/ WriteItemUpserted(w)
    \/ WriteItemFailed(w)

Next ==
    \/ \E w \in Workers : StartSync(w) \/ Step(w) \/ Crash(w)
    \/ \E i \in Ids : ChangeFeed(i)
    \/ Deploy

Spec == Init /\ [][Next]_vars

\* tokio keeps driving a task that it has started.
FairSpec == Spec /\ \A w \in Workers : WF_vars(Step(w))

-----------------------------------------------------------------------------
(* Properties                                                              *)

\* The counts reported for a successful run agree with its items: it never has
\* more changed records than it reports, nor reports more than it fetched, and
\* the number is exact when every record fetched has an item of its own
\* (process_source adds up the Ok(true)s, each after the item's INSERT).
RunCountsMatchItems ==
    \A r \in RunIds : runs[r] # Absent =>
        (runs[r].status = "success" =>
            LET noted   == {i \in Ids : items[r][i] # "none"}
                written == {i \in Ids : items[r][i] \in {"upserted", "duplicate_of_youth_center"}}
            IN
            /\ Cardinality(written) <= runs[r].changed /\ runs[r].changed <= runs[r].total
            /\ Cardinality(noted) <= runs[r].total
            /\ Cardinality(noted) = runs[r].total => runs[r].changed = Cardinality(written))

\* If the run that last saved a changed snapshot of a record notes it as
\* upserted, the program row was written from that very payload: skipping the
\* record later, when its hash is unchanged, loses nothing.  Two loops that
\* process one record at the same time, or a batch that lists it twice, may
\* break this; nothing else does, not even failing statements and crashes.
UpsertedMeansCurrent ==
    \A i \in Ids \ contended :
        changedBy[i] # 0 /\ items[changedBy[i]][i] = "upserted"
            => programs[i] # Absent /\ programs[i].from = snapshots[i]

\* A run's row and items never change again once it is success or failed, and
\* a row of ingestion_runs never disappears.
ClosedRunsFrozen ==
    [][\A r \in RunIds : runs[r] # Absent =>
          /\ runs'[r] # Absent
          /\ runs[r].status # "running" => runs'[r] = runs[r] /\ items'[r] = items[r]]_vars

\* The tables of runs and items, seen as the ledger of runs.
Ledger == INSTANCE RunLedger WITH MaxTotal <- MaxBatch

\* The loops keep the ledger's promises, however they overlap, fail and crash:
\* a row of a run is opened, noted in and closed as RunLedger says, so that no
\* loop touches another's run, and every item is of the run's own source.
RunsRecorded == Ledger!Spec

\* How far a loop has come: its stage, the part of the run it is in, the
\* record it has taken up, and the statement it executes for that record.
Phase == [next |-> 0, fetch |-> 1, cache |-> 2, close_failed |-> 3, record |-> 3, snapshot |-> 3,
          row |-> 3, link |-> 3, item_unchanged |-> 3, item_duplicate |-> 3,
          item_upserted |-> 3, item_failed |-> 3]
Statement == [next |-> 0, fetch |-> 0, cache |-> 0, close_failed |-> 0, snapshot |-> 1,
              row |-> 2, link |-> 2, item_unchanged |-> 3, item_duplicate |-> 3,
              item_upserted |-> 3, item_failed |-> 4, record |-> 5]
Progress(w) ==
    <<stage[w], Phase[pc[w]], IF Phase[pc[w]] = 3 THEN pos[w] ELSE 0, Statement[pc[w]]>>

\* Lexicographic order
Before(p, q) == \E k \in 1..4 : p[k] < q[k] /\ \A j \in 1..(k - 1) : p[j] = q[j]

\* The loop comes further, past neither the end of its plan nor that of the
\* batch, which does not change while its records are handled.
Advances(w) ==
    /\ Before(Progress(w), Progress(w)')
    /\ stage'[w] <= Len(Plan[w]) + 1
    /\ Phase[pc'[w]] = 3 => pos'[w] <= Len(batch'[w])
    /\ Phase[pc[w]] = 3 /\ Phase[pc'[w]] = 3 => batch'[w] = batch[w]

\* A sync loop never goes back: each statement it executes, and each that fails,
\* brings it further in its plan, in the run or in the batch.  So a loop is over
\* after a number of statements that its plan and the batches fix.
LoopsAdvance ==
    [][\A w \in Workers : pc[w] # "idle" /\ pc'[w] # "idle" =>
          UNCHANGED <<pc[w], stage[w], pos[w], batch[w]>> \/ Advances(w)]_vars

\* Every sync loop comes to its end, whatever fails on the way: a failing
\* record or source does not keep the loop from the ones after it.
SyncFinishes == \A w \in Workers : pc[w] # "idle" ~> pc[w] = "idle"

\* "no backfill required for existing rows (populated on next ingestion run)":
\* at the end of a youth_center run every record it handled without failure has
\* a row written by the deployed normalizer.
NewFieldsPopulated ==
    \A w \in Workers :
        At(w, "record") /\ pos[w] = Len(batch[w]) /\ SourceAt(w) = "youth_center" =>
            \A i \in {batch[w][n].id : n \in DOMAIN batch[w]} :
                items[run[w]][i] \in {"upserted", "unchanged"} =>
                    programs[i] # Absent /\ programs[i].build = build

\* "refuses to use a refUrl found here as a deep link": at the end of a
\* youth_center run no row of a record it handled without failure has a link
\* that two records of the batch share.
SharedLinksNotServed ==
    \A w \in Workers :
        At(w, "record") /\ pos[w] = Len(batch[w]) /\ SourceAt(w) = "youth_center" =>
            \A i \in {batch[w][n].id : n \in DOMAIN batch[w]} :
                items[run[w]][i] \in {"upserted", "unchanged"} =>
                    programs[i] # Absent /\ programs[i].link \notin SharedLinks(batch[w])
=============================================================================
