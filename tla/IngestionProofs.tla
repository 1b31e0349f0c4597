--------------------------- MODULE IngestionProofs ---------------------------
(***************************************************************************)
(* Proofs about Ingestion, for any number of sync loops, records and runs. *)
(*                                                                         *)
(* SafeInv is inductive: every variable keeps its type, the loops' local   *)
(* variables agree with the tables, a row of ingestion_runs that is not    *)
(* opened yet is untouched, and a run that is being processed is open and  *)
(* held by one loop.  That finished runs are frozen follows from it.       *)
(*                                                                         *)
(* The second half says what the tables tell of one another.  NotedInv: a  *)
(* run's items are those of the records its loop is done with.  SerialInv: *)
(* what a loop has read and written for the record at hand still holds,    *)
(* unless another loop met it there.  CountInv: the change count is that   *)
(* of the items.                                                           *)
(***************************************************************************)
EXTENDS Ingestion, FiniteSetTheorems, SequenceTheorems, TLAPS

\* A step of loop w leaves the local state of the other loops alone.
OthersKept(w) ==
    \A v \in Workers \ {w} :
        /\ pc'[v] = pc[v] /\ stage'[v] = stage[v] /\ run'[v] = run[v]
        /\ batch'[v] = batch[v] /\ pos'[v] = pos[v] /\ Rec(v)' = Rec(v)
        /\ changed'[v] = changed[v] /\ cache'[v] = cache[v] /\ dup'[v] = dup[v]
        /\ count'[v] = count[v]

LoopStep(w) == StartSync(w) \/ Step(w) \/ Crash(w)

\* Each action of a loop assigns to that loop's own entries.
LEMMA OtherLoops ==
    ASSUME TypeOK, NEW w \in Workers, LoopStep(w)
    PROVE  OthersKept(w)
<1> USE DEF TypeOK, LoopsOK, OthersKept, Rec, Goto, locals
<1>1. CASE StartSync(w) BY <1>1 DEF StartSync
<1>2. CASE EndSync(w) BY <1>2 DEF EndSync
<1>3. CASE OpenRun(w) BY <1>3 DEF OpenRun
<1>4. CASE Fetch(w) BY <1>4 DEF Fetch
<1>5. CASE LoadCache(w) BY <1>5 DEF LoadCache
<1>6. CASE CloseRun(w) BY <1>6 DEF CloseRun
<1>7. CASE CloseFailedRun(w) BY <1>7 DEF CloseFailedRun
<1>8. CASE ReadSnapshot(w) BY <1>8 DEF ReadSnapshot
<1>9. CASE WriteSnapshot(w) BY <1>9 DEF WriteSnapshot
<1>10. CASE WriteLink(w) BY <1>10 DEF WriteLink
<1>11. CASE WriteRow(w) BY <1>11 DEF WriteRow
<1>12. ASSUME NEW l, NEW o, WriteItem(w, l, o) PROVE OthersKept(w) BY <1>12 DEF WriteItem
<1>13. CASE WriteItemFailed(w) BY <1>13 DEF WriteItemFailed
<1>14. CASE Crash(w) BY <1>14 DEF Crash
<1> QED BY <1>1, <1>2, <1>3, <1>4, <1>5, <1>6, <1>7, <1>8, <1>9, <1>10, <1>11, <1>12, <1>13,
           <1>14 DEF LoopStep, Step, WriteItemUnchanged, WriteItemDuplicate, WriteItemUpserted

-----------------------------------------------------------------------------
(* The invariants                                                          *)

\* What a loop's local variables say about the tables: the record being
\* processed belongs to the batch, and rows the loop refers to exist.
LocalsInvAt(w) ==
    /\ pc[w] \in Holding => stage[w] \in 1..Len(Plan[w])
    /\ pc[w] = "cache" => pos[w] = 0
    /\ pc[w] \in Processing \cup {"record"} => pos[w] \in 0..Len(batch[w])
    /\ pc[w] \in Processing => pos[w] # 0
    /\ \A e \in cache[w] : programs[e.id] # Absent
    /\ dup[w] # Absent => programs[dup[w].id] # Absent
    /\ pc[w] = "link" => dup[w] # Absent

LocalsInv == \A w \in Workers : LocalsInvAt(w)

\* Rows of ingestion_runs that are not opened yet are untouched.
FreshInv ==
    \A r \in RunIds : r > opened =>
        runs[r] = Absent /\ \A i \in Ids : items[r][i] = "none"

\* A loop holds an open run that no other loop holds.
OwnerInvAt(w) ==
    pc[w] \in Holding =>
        /\ run[w] \in 1..opened
        /\ runs[run[w]] # Absent
        /\ runs[run[w]].status = "running"
        /\ \A v \in Workers \ {w} : pc[v] \in Holding => run[v] # run[w]

OwnerInv == \A w \in Workers : OwnerInvAt(w)

SafeInv == TypeOK /\ LocalsInv /\ FreshInv /\ OwnerInv

-----------------------------------------------------------------------------
(* Frames: what an action leaves alone                                     *)

\* A step that leaves no program row absent again keeps the other loops' facts.
LEMMA LocalsFrame ==
    ASSUME TypeOK, LocalsInv, NEW w \in Workers, OthersKept(w),
           \A i \in Ids : programs[i] # Absent => programs'[i] # Absent,
           LocalsInvAt(w)'
    PROVE  LocalsInv'
<1> SUFFICES ASSUME NEW v \in Workers \ {w} PROVE LocalsInvAt(v)'
    BY DEF LocalsInv
<1>1. LocalsInvAt(v) BY DEF LocalsInv
<1>3. \A e \in cache[v] : e.id \in Ids BY DEF TypeOK, LoopsOK, CacheEntry
<1>4. dup[v] # Absent => dup[v].id \in Ids BY DEF TypeOK, LoopsOK, CacheEntry
<1> QED BY <1>1, <1>3, <1>4 DEF LocalsInvAt, OthersKept

\* A step that opens no run and leaves the held ones open keeps them held.
LEMMA OwnerFrame ==
    ASSUME TypeOK, OwnerInv, NEW w \in Workers, OthersKept(w),
           opened' = opened, runs' = runs, run' = run,
           pc'[w] \in Holding => pc[w] \in Holding
    PROVE  OwnerInv'
BY DEF OwnerInv, OwnerInvAt, OthersKept

\* The record at hand is in the batch.
LEMMA RecType ==
    ASSUME TypeOK, LocalsInv, NEW w \in Workers, pc[w] \in Processing
    PROVE  Rec(w) \in RawRecord /\ Rec(w).id \in Ids /\ Rec(w).from \in Payload
<1>1. batch[w] \in Seq(RawRecord) /\ pos[w] \in Nat BY DEF TypeOK, LoopsOK
<1>2. pos[w] \in 1..Len(batch[w]) BY <1>1 DEF LocalsInv, LocalsInvAt
<1>3. Rec(w) \in RawRecord BY <1>1, <1>2 DEF Rec
<1> QED BY <1>3 DEF RawRecord

\* Choosing a link gives one of the payload's links, none, or the detail page.
LEMMA OfficialLinkType ==
    ASSUME NEW r \in RawRecord, NEW b
    PROVE  OfficialLink(r, b) \in Links \cup {NoLink, DetailPage}
BY DEF OfficialLink, RawRecord, Payload

\* The run that a loop holds has a row.
LEMMA OwnedRun ==
    ASSUME TypeOK, OwnerInv, NEW w \in Workers, pc[w] \in Holding
    PROVE  run[w] \in RunIds /\ runs[run[w]] \in Run /\ run[w] <= opened
BY DEF TypeOK, TablesOK, LoopsOK, OwnerInv, OwnerInvAt, RunIds

\* An update of a function by a value of its range.
LEMMA ExceptType ==
    ASSUME NEW S, NEW U, NEW f \in [S -> U], NEW x \in S, NEW e \in U
    PROVE  [f EXCEPT ![x] = e] \in [S -> U]
OBVIOUS

\* The length of a batch is a number.
LEMMA BatchLength ==
    ASSUME TypeOK, NEW w \in Workers PROVE Len(batch[w]) \in Nat
BY DEF TypeOK, LoopsOK

\* The bounds are numbers.
LEMMA Bounds ==
    /\ MaxSyncs \in Nat /\ MaxRuns \in Nat /\ MaxChanges \in Nat /\ MaxFaults \in Nat
    /\ MaxBatch \in Nat /\ MaxBuild \in Nat \ {0}
BY ConstantsAssumption

\* The source of the stage a loop is at.
LEMMA SourceType ==
    ASSUME TypeOK, NEW w \in Workers, stage[w] <= Len(Plan[w])
    PROVE  SourceAt(w) \in Sources
<1>1. Plan[w] \in Seq(Sources) BY ConstantsAssumption
<1>2. stage[w] \in 1..Len(Plan[w]) BY <1>1 DEF TypeOK, LoopsOK
<1> QED BY <1>1, <1>2 DEF SourceAt

\* The duplicate cache is loaded from well-formed rows.
LEMMA CachedRows ==
    ASSUME TypeOK
    PROVE  ActiveYouthRows \subseteq CacheEntry
<1> SUFFICES ASSUME NEW i \in Ids, programs[i] # Absent
             PROVE  [id |-> i, title |-> programs[i].from.title, link |-> programs[i].link]
                        \in CacheEntry
    BY DEF ActiveYouthRows
<1>1. programs[i] \in Row BY DEF TypeOK, TablesOK
<1> QED BY <1>1 DEF Row, Payload, CacheEntry

\* The row that an upsert writes.
LEMMA UpsertedRowType ==
    ASSUME TypeOK, LocalsInv, NEW w \in Workers, WriteRow(w)
    PROVE  Rec(w).id \in Ids /\ UpsertedRow(w) \in Row /\ UpsertedRow(w) # Absent
<1>1. Rec(w) \in RawRecord /\ Rec(w).id \in Ids /\ Rec(w).from \in Payload BY RecType DEF WriteRow, At, Processing
<1>2. OfficialLink(Rec(w), batch[w]) \in Links \cup {NoLink, DetailPage}
    BY <1>1, OfficialLinkType
<1>3. (programs[Rec(w).id] # Absent => programs[Rec(w).id].active) \in BOOLEAN OBVIOUS
<1>4. build \in 1..MaxBuild BY DEF TypeOK, WorldOK
<1>5. UpsertedRow(w) \in Row BY <1>1, <1>2, <1>3, <1>4 DEF UpsertedRow, Row
<1> QED BY <1>1, <1>5, AbsentAssumption

\* The row that a change of the link leaves: there was one, and only its link is new.
LEMMA RelinkedRowType ==
    ASSUME TypeOK, LocalsInv, NEW w \in Workers, WriteLink(w)
    PROVE  /\ dup[w].id \in Ids /\ RelinkedRow(w) \in Row /\ RelinkedRow(w) # Absent
           /\ RelinkedRow(w).from = programs[dup[w].id].from
<1>1. Rec(w) \in RawRecord /\ Rec(w).id \in Ids /\ Rec(w).from \in Payload BY RecType DEF WriteLink, At, Processing
<1>2. OfficialLink(Rec(w), batch[w]) \in Links \cup {NoLink, DetailPage}
    BY <1>1, OfficialLinkType
<1>3. dup[w].id \in Ids /\ programs[dup[w].id] \in Row
    BY DEF TypeOK, LoopsOK, TablesOK, LocalsInv, LocalsInvAt, CacheEntry, WriteLink, At
<1>4. RelinkedRow(w) \in Row BY <1>2, <1>3 DEF RelinkedRow, Row
<1> QED BY <1>3, <1>4, AbsentAssumption DEF RelinkedRow

\* The tables, the loops' local state and the bounds keep their types.
LEMMA TablesStep ==
    ASSUME TypeOK, LocalsInv, OwnerInv, NEW w \in Workers, LoopStep(w) PROVE TablesOK'
<1>a. UNCHANGED tables => TablesOK' BY DEF TypeOK, TablesOK, tables
<1>1. CASE StartSync(w)
    BY <1>1, <1>a DEF StartSync
<1>2. CASE EndSync(w)
    BY <1>2, <1>a DEF EndSync
<1>3. CASE OpenRun(w)
    <2>1. CASE UNCHANGED <<opened, runs>> BY <1>3, <2>1 DEF TypeOK, TablesOK, OpenRun
    <2>2. CASE ~UNCHANGED <<opened, runs>>
        <3>1. SourceAt(w) \in Sources BY <1>3, SourceType DEF OpenRun
        <3>2. /\ opened' = opened + 1 /\ opened < MaxRuns
              /\ runs' = [runs EXCEPT ![opened + 1] =
                    [source |-> SourceAt(w), status |-> "running", total |-> 0, changed |-> 0]]
            BY <1>3, <2>2 DEF OpenRun
        <3>3. [source |-> SourceAt(w), status |-> "running", total |-> 0, changed |-> 0] \in Run
            BY <3>1 DEF Run
        <3>4. opened' \in 0..MaxRuns BY <3>2, Bounds DEF TypeOK, TablesOK
        <3>5. runs' \in [RunIds -> Run \cup {Absent}] BY <3>2, <3>3 DEF TypeOK, TablesOK
        <3> QED BY <1>3, <3>4, <3>5 DEF TypeOK, TablesOK, OpenRun
    <2> QED BY <2>1, <2>2
<1>4. CASE Fetch(w)
    BY <1>4, <1>a DEF Fetch
<1>5. CASE LoadCache(w)
    BY <1>5, <1>a DEF LoadCache
<1>6. CASE CloseRun(w)
    <2>1. run[w] \in RunIds /\ runs[run[w]] \in Run BY <1>6, OwnedRun DEF CloseRun, At, Holding
    <2>2. [source |-> runs[run[w]].source, status |-> "success",
           total |-> Len(batch[w]), changed |-> count[w]] \in Run
        BY <2>1, BatchLength DEF TypeOK, LoopsOK, Run
    <2>3. runs' = runs \/ runs' = [runs EXCEPT ![run[w]] =
                                      [source |-> runs[run[w]].source, status |-> "success",
                                       total |-> Len(batch[w]), changed |-> count[w]]]
        BY <1>6 DEF CloseRun
    <2>4. runs \in [RunIds -> Run \cup {Absent}] BY DEF TypeOK, TablesOK
    <2>5. runs' \in [RunIds -> Run \cup {Absent}] BY <2>1, <2>2, <2>3, <2>4, ExceptType
    <2> QED BY <1>6, <2>5 DEF TypeOK, TablesOK, CloseRun
<1>7. CASE CloseFailedRun(w)
    <2>1. run[w] \in RunIds /\ runs[run[w]] \in Run BY <1>7, OwnedRun DEF CloseFailedRun, At, Holding
    <2>2. [source |-> runs[run[w]].source, status |-> "failed",
           total |-> runs[run[w]].total, changed |-> runs[run[w]].changed] \in Run
        BY <2>1 DEF Run
    <2>3. runs' = runs \/ runs' = [runs EXCEPT ![run[w]] =
                                      [source |-> runs[run[w]].source, status |-> "failed",
                                       total |-> runs[run[w]].total, changed |-> runs[run[w]].changed]]
        BY <1>7 DEF CloseFailedRun
    <2>4. runs \in [RunIds -> Run \cup {Absent}] BY DEF TypeOK, TablesOK
    <2>5. runs' \in [RunIds -> Run \cup {Absent}] BY <2>1, <2>2, <2>3, <2>4, ExceptType
    <2> QED BY <1>7, <2>5 DEF TypeOK, TablesOK, CloseFailedRun
<1>8. CASE ReadSnapshot(w)
    BY <1>8, <1>a DEF ReadSnapshot
<1>9. CASE WriteSnapshot(w)
    <2>1. Rec(w).id \in Ids /\ Rec(w).from \in Payload BY <1>9, RecType DEF WriteSnapshot, At, Processing
    <2>2. snapshots' \in [Ids -> Payload \cup {Absent}] BY <1>9, <2>1 DEF TypeOK, TablesOK, WriteSnapshot
    <2> QED BY <1>9, <2>2 DEF TypeOK, TablesOK, WriteSnapshot
<1>10. CASE WriteLink(w)
    <2>1. dup[w].id \in Ids /\ RelinkedRow(w) \in Row BY <1>10, RelinkedRowType
    <2>2. programs' \in [Ids -> Row \cup {Absent}]
        BY <1>10, <2>1, ExceptType DEF TypeOK, TablesOK, WriteLink
    <2> QED BY <1>10, <2>2 DEF TypeOK, TablesOK, WriteLink
<1>11. CASE WriteRow(w)
    <2>1. Rec(w).id \in Ids /\ UpsertedRow(w) \in Row BY <1>11, UpsertedRowType
    <2>2. programs' \in [Ids -> Row \cup {Absent}]
        BY <1>11, <2>1, ExceptType DEF TypeOK, TablesOK, WriteRow
    <2> QED BY <1>11, <2>2 DEF TypeOK, TablesOK, WriteRow
<1>12. ASSUME NEW l \in Processing \cap Holding, NEW o \in Outcomes, WriteItem(w, l, o)
      PROVE  TablesOK'
    <2>1. items \in [RunIds -> [Ids -> Outcomes]] BY DEF TypeOK, TablesOK
    <2>2. run[w] \in RunIds /\ Rec(w).id \in Ids
        BY <1>12, OwnedRun, RecType DEF WriteItem, At
    <2>3. ItemAfter(w, o) \in Outcomes BY <2>1, <2>2 DEF ItemAfter
    <2>4. items' = items \/ items' = [items EXCEPT ![run[w]][Rec(w).id] = ItemAfter(w, o)]
        BY <1>12 DEF WriteItem
    <2>5. items' \in [RunIds -> [Ids -> Outcomes]] BY <2>1, <2>2, <2>3, <2>4
    <2> QED BY <1>12, <2>5 DEF WriteItem, TypeOK, TablesOK
<1>13. CASE WriteItemFailed(w)
    <2>1. items \in [RunIds -> [Ids -> Outcomes]] BY DEF TypeOK, TablesOK
    <2>2. items' \in [RunIds -> [Ids -> Outcomes]] BY <1>13, <2>1 DEF WriteItemFailed, Outcomes
    <2> QED BY <1>13, <2>2 DEF TypeOK, TablesOK, WriteItemFailed
<1>14. CASE Crash(w)
    BY <1>14, <1>a DEF Crash
<1> QED
    BY <1>1, <1>2, <1>3, <1>4, <1>5, <1>6, <1>7, <1>8, <1>9, <1>10, <1>11, <1>12, <1>13, <1>14
    DEF LoopStep, Step, WriteItemUnchanged, WriteItemDuplicate, WriteItemUpserted, Holding,
        Processing, Outcomes

\* What a source may return is a sequence of its records.
LEMMA ListingType ==
    ASSUME NEW S \in SUBSET RawRecord, NEW b \in Listings(S)
    PROVE  b \in Seq(RawRecord) /\ Repeated(b) \subseteq Ids
<1>1. PICK n \in 0..MaxBatch : b \in [1..n -> S] BY DEF Listings
<1>2. n \in Nat BY Bounds
<1>3. b \in [1..n -> RawRecord] BY <1>1
<1>4. b \in Seq(RawRecord) BY <1>2, <1>3, SeqDef
<1>5. \A k \in DOMAIN b : b[k].id \in Ids BY <1>3 DEF RawRecord
<1> QED BY <1>4, <1>5 DEF Repeated

\* The same for the variables of the loops ...
LEMMA LoopsStep ==
    ASSUME TypeOK, LocalsInv, NEW w \in Workers, LoopStep(w) PROVE LoopsOK'
<1>1. CASE StartSync(w)
    BY <1>1 DEF StartSync, TypeOK, LoopsOK, Goto, Labels, Holding, Processing, locals
<1>2. CASE EndSync(w)
    BY <1>2 DEF EndSync, TypeOK, LoopsOK, Goto, Labels, Holding, Processing, locals
<1>3. CASE OpenRun(w)
    <2>1. run' \in [Workers -> 0..MaxRuns]
        <3>1. opened < MaxRuns => opened + 1 \in 0..MaxRuns BY Bounds DEF TypeOK, TablesOK
        <3>2. run \in [Workers -> 0..MaxRuns] BY DEF TypeOK, LoopsOK
        <3> QED BY <1>3, <3>1, <3>2 DEF OpenRun
    <2>2. stage' \in [Workers -> Nat \ {0}]
        <3>1. stage \in [Workers -> Nat \ {0}] BY DEF TypeOK, LoopsOK
        <3>2. stage[w] + 1 \in Nat \ {0} BY <3>1
        <3> QED BY <1>3, <3>1, <3>2 DEF OpenRun
    <2>3. pc' \in [Workers -> Labels] BY <1>3 DEF TypeOK, LoopsOK, OpenRun, Goto, Labels, Holding
    <2>4. count' \in [Workers -> Nat]
        <3>1. count \in [Workers -> Nat] BY DEF TypeOK, LoopsOK
        <3> QED BY <1>3, <3>1 DEF OpenRun
    <2> QED BY <1>3, <2>1, <2>2, <2>3, <2>4 DEF TypeOK, LoopsOK, OpenRun
<1>4. CASE Fetch(w)
    <2>1. pc' \in [Workers -> Labels] BY <1>4 DEF TypeOK, LoopsOK, Fetch, Goto, Labels, Holding
    <2>2. batch' \in [Workers -> Seq(RawRecord)]
        <3>1. CASE UNCHANGED batch BY <3>1 DEF TypeOK, LoopsOK
        <3>2. CASE \E b \in Seq(RawRecord) : batch' = [batch EXCEPT ![w] = b]
            BY <3>2 DEF TypeOK, LoopsOK
        <3> QED BY <1>4, <3>1, <3>2, ListingType DEF Fetch
    <2>3. cache' \in [Workers -> SUBSET CacheEntry] BY <1>4 DEF TypeOK, LoopsOK, Fetch
    <2> QED BY <1>4, <2>1, <2>2, <2>3 DEF TypeOK, LoopsOK, Fetch
<1>5. CASE LoadCache(w)
    <2>1. pc' \in [Workers -> Labels] BY <1>5 DEF TypeOK, LoopsOK, LoadCache, Goto, Labels, Holding
    <2>2. cache' \in [Workers -> SUBSET CacheEntry] BY <1>5, CachedRows DEF TypeOK, LoopsOK, LoadCache
    <2> QED BY <1>5, <2>1, <2>2 DEF TypeOK, LoopsOK, LoadCache
<1>6. CASE CloseRun(w)
    BY <1>6 DEF CloseRun, TypeOK, LoopsOK, Goto, Labels, Holding, Processing, locals
<1>7. CASE CloseFailedRun(w)
    BY <1>7 DEF CloseFailedRun, TypeOK, LoopsOK, Goto, Labels, Holding, Processing, locals
<1>8. CASE ReadSnapshot(w)
    <2>1. pc' \in [Workers -> Labels] BY <1>8 DEF TypeOK, LoopsOK, ReadSnapshot, Goto, Labels, Holding, Processing
    <2>2. pos' \in [Workers -> Nat] BY <1>8 DEF TypeOK, LoopsOK, ReadSnapshot
    <2>3. changed' \in [Workers -> BOOLEAN] BY <1>8 DEF TypeOK, LoopsOK, ReadSnapshot
    <2> QED BY <1>8, <2>1, <2>2, <2>3 DEF TypeOK, LoopsOK, ReadSnapshot
<1>9. CASE WriteSnapshot(w)
    <2>1. pc' \in [Workers -> Labels] BY <1>9 DEF TypeOK, LoopsOK, WriteSnapshot, Goto, Labels, Holding
    <2>2. \A e \in Duplicates(w) : e \in CacheEntry BY DEF TypeOK, LoopsOK, Duplicates
    <2>3. dup' \in [Workers -> CacheEntry \cup {Absent}] BY <1>9, <2>2 DEF TypeOK, LoopsOK, WriteSnapshot
    <2> QED BY <1>9, <2>1, <2>3 DEF TypeOK, LoopsOK, WriteSnapshot
<1>10. CASE WriteLink(w)
    BY <1>10 DEF WriteLink, TypeOK, LoopsOK, Goto, Labels, Holding, Processing, locals
<1>11. CASE WriteRow(w)
    BY <1>11 DEF WriteRow, TypeOK, LoopsOK, Goto, Labels, Holding, Processing, locals
<1>12. ASSUME NEW l \in Processing \cap Holding, NEW o \in Outcomes, WriteItem(w, l, o)
      PROVE  LoopsOK'
    <2>1. pc' \in [Workers -> Labels]
        BY <1>12 DEF WriteItem, TypeOK, LoopsOK, Goto, Labels, Holding, Processing
    <2>2. count \in [Workers -> Nat] /\ count[w] \in Nat BY DEF TypeOK, LoopsOK
    <2>3. count' \in [Workers -> Nat] BY <1>12, <2>2 DEF WriteItem, Counted
    <2> QED BY <1>12, <2>1, <2>3 DEF WriteItem, TypeOK, LoopsOK
<1>13. CASE WriteItemFailed(w)
    BY <1>13 DEF WriteItemFailed, TypeOK, LoopsOK, Goto, Labels, Holding, Processing, locals
<1>14. CASE Crash(w)
    BY <1>14 DEF Crash, TypeOK, LoopsOK, Goto, Labels, Holding, Processing, locals
<1> QED
    BY <1>1, <1>2, <1>3, <1>4, <1>5, <1>6, <1>7, <1>8, <1>9, <1>10, <1>11, <1>12, <1>13, <1>14
    DEF LoopStep, Step, WriteItemUnchanged, WriteItemDuplicate, WriteItemUpserted, Holding,
        Processing, Outcomes

\* ... and for the counters and the history.
LEMMA HistoryStep ==
    ASSUME TypeOK, NEW w \in Workers, LoopStep(w) PROVE HistoryOK'
<1>1. CASE StartSync(w)
    BY <1>1, Bounds DEF StartSync, TypeOK, HistoryOK, Succeed, Fault, history
<1>2. CASE EndSync(w)
    BY <1>2, Bounds DEF EndSync, TypeOK, HistoryOK, Succeed, Fault, history
<1>3. CASE OpenRun(w)
    BY <1>3, Bounds DEF OpenRun, TypeOK, HistoryOK, Succeed, Fault, history
<1>4. CASE Fetch(w)
    <2>1. contended' \subseteq Ids BY <1>4, ListingType DEF TypeOK, HistoryOK, Fetch
    <2>2. (Succeed \/ Fault) => faults' \in 0..MaxFaults
        BY Bounds DEF TypeOK, HistoryOK, Succeed, Fault
    <2>3. Succeed \/ Fault BY <1>4 DEF Fetch
    <2> QED BY <1>4, <2>1, <2>2, <2>3 DEF TypeOK, HistoryOK, Fetch
<1>5. CASE LoadCache(w)
    BY <1>5, Bounds DEF LoadCache, TypeOK, HistoryOK, Succeed, Fault, history
<1>6. CASE CloseRun(w)
    BY <1>6, Bounds DEF CloseRun, TypeOK, HistoryOK, Succeed, Fault, history
<1>7. CASE CloseFailedRun(w)
    BY <1>7, Bounds DEF CloseFailedRun, TypeOK, HistoryOK, Succeed, Fault, history
<1>8. CASE ReadSnapshot(w)
    <2>1. contended' \subseteq Ids
        <3>1. batch[w][pos[w] + 1] \in RawRecord BY <1>8 DEF TypeOK, LoopsOK, ReadSnapshot
        <3>2. batch[w][pos[w] + 1].id \in Ids BY <3>1 DEF RawRecord
        <3> QED BY <1>8, <3>2 DEF TypeOK, HistoryOK, ReadSnapshot
    <2>2. faults' \in 0..MaxFaults BY <1>8, Bounds DEF TypeOK, HistoryOK, ReadSnapshot, Succeed, Fault
    <2> QED BY <1>8, <2>1, <2>2 DEF TypeOK, HistoryOK, ReadSnapshot
<1>9. CASE WriteSnapshot(w)
    <2>1. run[w] \in 0..MaxRuns BY DEF TypeOK, LoopsOK
    <2>2. changedBy' \in [Ids -> 0..MaxRuns] BY <1>9, <2>1 DEF TypeOK, HistoryOK, WriteSnapshot
    <2>3. faults' \in 0..MaxFaults BY <1>9, Bounds DEF TypeOK, HistoryOK, WriteSnapshot, Succeed, Fault
    <2> QED BY <1>9, <2>2, <2>3 DEF TypeOK, HistoryOK, WriteSnapshot
<1>10. CASE WriteLink(w)
    BY <1>10, Bounds DEF WriteLink, TypeOK, HistoryOK, Succeed, Fault, history
<1>11. CASE WriteRow(w)
    BY <1>11, Bounds DEF WriteRow, TypeOK, HistoryOK, Succeed, Fault, history
<1>12. ASSUME NEW l \in Processing \cap Holding, NEW o \in Outcomes, WriteItem(w, l, o)
      PROVE  HistoryOK'
    BY <1>12, Bounds DEF WriteItem, TypeOK, HistoryOK, Succeed, Fault, history
<1>13. CASE WriteItemFailed(w)
    BY <1>13, Bounds DEF WriteItemFailed, TypeOK, HistoryOK, Succeed, Fault, history
<1>14. CASE Crash(w)
    BY <1>14, Bounds DEF Crash, TypeOK, HistoryOK, Succeed, Fault, history
<1> QED
    BY <1>1, <1>2, <1>3, <1>4, <1>5, <1>6, <1>7, <1>8, <1>9, <1>10, <1>11, <1>12, <1>13, <1>14
    DEF LoopStep, Step, WriteItemUnchanged, WriteItemDuplicate, WriteItemUpserted, Holding,
        Processing, Outcomes

\* Together: every step keeps the types.
LEMMA TypeStep ==
    ASSUME TypeOK, LocalsInv, OwnerInv, NEW w \in Workers, LoopStep(w) PROVE TypeOK'
<1>1. UNCHANGED world
    BY DEF LoopStep, Step, StartSync, EndSync, OpenRun, Fetch, LoadCache, CloseRun, CloseFailedRun,
           ReadSnapshot, WriteSnapshot, WriteLink, WriteRow, WriteItemUnchanged,
           WriteItemDuplicate, WriteItemUpserted, WriteItem, WriteItemFailed, Crash
<1>2. WorldOK' BY <1>1 DEF TypeOK, WorldOK, world
<1> QED BY <1>2, TablesStep, LoopsStep, HistoryStep DEF TypeOK

\* A loop's local variables stay in step with the tables.
LEMMA LocalsStep ==
    ASSUME TypeOK, LocalsInv, NEW w \in Workers, LoopStep(w) PROVE LocalsInv'
<1>a. OthersKept(w) BY OtherLoops
<1>b. LocalsInvAt(w) BY DEF LocalsInv
<1>c. \A e \in cache[w] : e.id \in Ids BY DEF TypeOK, LoopsOK, CacheEntry
<1>d. dup[w] # Absent => dup[w].id \in Ids BY DEF TypeOK, LoopsOK, CacheEntry
<1>e. programs' = programs /\ LocalsInvAt(w)' => LocalsInv' BY <1>a, LocalsFrame
<1>1. CASE StartSync(w)
    BY <1>1, <1>b, <1>e DEF StartSync, At, Goto, TypeOK, LoopsOK, LocalsInvAt, Holding, Processing, locals, tables
<1>2. CASE EndSync(w)
    BY <1>2, <1>b, <1>e DEF EndSync, At, Goto, TypeOK, LoopsOK, LocalsInvAt, Holding, Processing, locals, tables
<1>3. CASE OpenRun(w)
    BY <1>3, <1>b, <1>e DEF OpenRun, At, Goto, TypeOK, LoopsOK, LocalsInvAt, Holding, Processing, locals, tables
<1>4. CASE Fetch(w)
    <2>1. pc[w] = "fetch" /\ pc'[w] \in {"record", "cache", "close_failed"} /\ programs' = programs
          /\ cache'[w] = {} /\ pos'[w] = 0 /\ UNCHANGED <<stage, dup>>
        BY <1>4 DEF Fetch, At, Goto, TypeOK, LoopsOK, tables
    <2>2. Len(batch'[w]) \in Nat BY LoopsStep DEF LoopsOK
    <2> QED BY <2>1, <2>2, <1>b, <1>e DEF LocalsInvAt, Holding, Processing
<1>5. CASE LoadCache(w)
    <2>1. pc[w] = "cache" /\ pc'[w] = "record" /\ programs' = programs
          /\ UNCHANGED <<stage, batch, pos, dup>>
        BY <1>5 DEF LoadCache, At, Goto, TypeOK, LoopsOK, tables
    <2>2. \A e \in cache'[w] : programs[e.id] # Absent
        <3>1. cache'[w] = cache[w] \/ cache'[w] = ActiveYouthRows
            BY <1>5 DEF LoadCache, TypeOK, LoopsOK
        <3>2. \A e \in ActiveYouthRows : programs[e.id] # Absent BY DEF ActiveYouthRows
        <3> QED BY <3>1, <3>2, <1>b DEF LocalsInvAt
    <2> QED BY <2>1, <2>2, <1>b, <1>e, BatchLength DEF LocalsInvAt, Holding, Processing
<1>6. CASE CloseRun(w)
    BY <1>6, <1>b, <1>e DEF CloseRun, At, Goto, TypeOK, LoopsOK, LocalsInvAt, Holding, Processing, locals, tables
<1>7. CASE CloseFailedRun(w)
    BY <1>7, <1>b, <1>e DEF CloseFailedRun, At, Goto, TypeOK, LoopsOK, LocalsInvAt, Holding, Processing, locals, tables
<1>8. CASE ReadSnapshot(w)
    BY <1>8, <1>b, <1>e DEF ReadSnapshot, At, Goto, TypeOK, LoopsOK, LocalsInvAt, Holding, Processing, locals, tables
<1>9. CASE WriteSnapshot(w)
    <2>1. /\ pc[w] = "snapshot" /\ pc'[w] \in Processing \ {"snapshot"} /\ programs' = programs
          /\ UNCHANGED <<stage, batch, pos, cache>>
        BY <1>9 DEF WriteSnapshot, At, Goto, TypeOK, LoopsOK, Processing
    <2>2. dup'[w] = dup[w] \/ dup'[w] \in cache[w]
        BY <1>9 DEF WriteSnapshot, Duplicates, TypeOK, LoopsOK
    <2>3. pc'[w] = "link" => dup'[w] \in cache[w]
        BY <1>9 DEF WriteSnapshot, Duplicates, Goto, TypeOK, LoopsOK
    <2>4. Absent \notin cache[w] BY AbsentAssumption DEF TypeOK, LoopsOK
    <2> QED BY <2>1, <2>2, <2>3, <2>4, <1>b, <1>e DEF LocalsInvAt, Holding, Processing
<1>10. CASE WriteLink(w)
    <2>1. pc[w] \in {"link", "row"} /\ pc'[w] \in {"item_duplicate", "item_upserted", "item_failed"}
          /\ UNCHANGED <<stage, batch, pos, cache, dup>>
        BY <1>10 DEF WriteLink, At, Goto, TypeOK, LoopsOK, locals
    <2>2. \A i \in Ids : programs[i] # Absent => programs'[i] # Absent
        <3>1. RelinkedRow(w) # Absent BY <1>10, RelinkedRowType
        <3>2. programs' = programs \/ programs' = [programs EXCEPT ![dup[w].id] = RelinkedRow(w)]
            BY <1>10 DEF WriteLink
        <3> QED BY <3>1, <3>2 DEF TypeOK, TablesOK
    <2>4. LocalsInvAt(w)' BY <2>1, <2>2, <1>b, <1>c, <1>d DEF LocalsInvAt, Holding, Processing
    <2> QED BY <2>2, <2>4, <1>a, LocalsFrame
<1>11. CASE WriteRow(w)
    <2>1. pc[w] \in {"link", "row"} /\ pc'[w] \in {"item_duplicate", "item_upserted", "item_failed"}
          /\ UNCHANGED <<stage, batch, pos, cache, dup>>
        BY <1>11 DEF WriteRow, At, Goto, TypeOK, LoopsOK, locals
    <2>2. \A i \in Ids : programs[i] # Absent => programs'[i] # Absent
        <3>1. UpsertedRow(w) # Absent BY <1>11, UpsertedRowType
        <3>2. programs' = programs \/ programs' = [programs EXCEPT ![Rec(w).id] = UpsertedRow(w)]
            BY <1>11 DEF WriteRow
        <3> QED BY <3>1, <3>2 DEF TypeOK, TablesOK
    <2>4. LocalsInvAt(w)' BY <2>1, <2>2, <1>b, <1>c, <1>d DEF LocalsInvAt, Holding, Processing
    <2> QED BY <2>2, <2>4, <1>a, LocalsFrame
<1>12. ASSUME NEW l \in Processing \cap Holding, NEW o \in Outcomes, WriteItem(w, l, o)
      PROVE  LocalsInv'
    BY <1>12, <1>b, <1>e DEF WriteItem, At, Goto, TypeOK, LoopsOK, LocalsInvAt, Holding, Processing, locals, tables
<1>13. CASE WriteItemFailed(w)
    BY <1>13, <1>b, <1>e DEF WriteItemFailed, At, Goto, TypeOK, LoopsOK, LocalsInvAt, Holding, Processing, locals, tables
<1>14. CASE Crash(w)
    BY <1>14, <1>b, <1>e DEF Crash, At, Goto, TypeOK, LoopsOK, LocalsInvAt, Holding, Processing, locals, tables
<1> QED
    BY <1>1, <1>2, <1>3, <1>4, <1>5, <1>6, <1>7, <1>8, <1>9, <1>10, <1>11, <1>12, <1>13, <1>14
    DEF LoopStep, Step, WriteItemUnchanged, WriteItemDuplicate, WriteItemUpserted, Holding,
        Processing, Outcomes

\* A step of loop w touches no run but the one it holds or the one it opens.
RunsKept(w) ==
    /\ opened' \in {opened, opened + 1}
    /\ \A r \in RunIds :
          /\ r # opened' \/ opened' = opened
          /\ r # run[w] \/ pc[w] \notin Holding
          => runs'[r] = runs[r] /\ items'[r] = items[r]

\* OpenRun is the only action that opens a row, and the others write to their run.
LEMMA OtherRuns ==
    ASSUME TypeOK, NEW w \in Workers, LoopStep(w) PROVE RunsKept(w)
<1>a. UNCHANGED <<opened, runs, items>> => RunsKept(w) BY DEF RunsKept
<1>1. CASE StartSync(w)
    BY <1>1, <1>a DEF StartSync, tables
<1>2. CASE EndSync(w)
    BY <1>2, <1>a DEF EndSync, tables
<1>3. CASE OpenRun(w)
    BY <1>3 DEF OpenRun, At, RunsKept, TypeOK, TablesOK, Holding
<1>4. CASE Fetch(w)
    BY <1>4, <1>a DEF Fetch, tables
<1>5. CASE LoadCache(w)
    BY <1>5, <1>a DEF LoadCache, tables
<1>6. CASE CloseRun(w)
    BY <1>6 DEF CloseRun, At, RunsKept, TypeOK, TablesOK, Holding
<1>7. CASE CloseFailedRun(w)
    BY <1>7 DEF CloseFailedRun, At, RunsKept, TypeOK, TablesOK, Holding
<1>8. CASE ReadSnapshot(w)
    BY <1>8, <1>a DEF ReadSnapshot, tables
<1>9. CASE WriteSnapshot(w)
    BY <1>9, <1>a DEF WriteSnapshot, tables
<1>10. CASE WriteLink(w)
    BY <1>10, <1>a DEF WriteLink, tables
<1>11. CASE WriteRow(w)
    BY <1>11, <1>a DEF WriteRow, tables
<1>12. ASSUME NEW l \in Processing \cap Holding, NEW o \in Outcomes, WriteItem(w, l, o)
      PROVE  RunsKept(w)
    BY <1>12 DEF WriteItem, At, RunsKept, TypeOK, TablesOK, Holding
<1>13. CASE WriteItemFailed(w)
    BY <1>13 DEF WriteItemFailed, At, RunsKept, TypeOK, TablesOK, Holding
<1>14. CASE Crash(w)
    BY <1>14, <1>a DEF Crash, tables
<1> QED
    BY <1>1, <1>2, <1>3, <1>4, <1>5, <1>6, <1>7, <1>8, <1>9, <1>10, <1>11, <1>12, <1>13, <1>14
    DEF LoopStep, Step, WriteItemUnchanged, WriteItemDuplicate, WriteItemUpserted, Holding,
        Processing, Outcomes

\* Nothing is written to a run before it is opened.
LEMMA FreshStep ==
    ASSUME TypeOK, FreshInv, OwnerInv, NEW w \in Workers, LoopStep(w) PROVE FreshInv'
<1>1. RunsKept(w) BY OtherRuns
<1>2. opened \in Nat /\ RunIds \subseteq Nat BY Bounds DEF TypeOK, TablesOK, RunIds
<1>3. pc[w] \in Holding => run[w] \in RunIds /\ run[w] <= opened BY OwnedRun
<1> SUFFICES ASSUME NEW r \in RunIds, r > opened'
             PROVE  runs'[r] = Absent /\ \A i \in Ids : items'[r][i] = "none"
    BY DEF FreshInv
<1>4. r > opened /\ r # opened' BY <1>1, <1>2 DEF RunsKept
<1>5. r # run[w] \/ pc[w] \notin Holding BY <1>2, <1>3, <1>4
<1>6. runs'[r] = runs[r] /\ items'[r] = items[r] BY <1>1, <1>4, <1>5 DEF RunsKept
<1> QED BY <1>4, <1>6 DEF FreshInv

\* A loop leaves its run when it closes it, and opens one that nobody has.
LEMMA OwnerStep ==
    ASSUME TypeOK, OwnerInv, NEW w \in Workers, LoopStep(w) PROVE OwnerInv'
<1>a. OthersKept(w) /\ RunsKept(w) BY OtherLoops, OtherRuns
<1>b. opened \in Nat /\ RunIds \subseteq Nat BY Bounds DEF TypeOK, TablesOK, RunIds
<1>c. UNCHANGED <<opened, runs, run>> /\ (pc'[w] \in Holding => pc[w] \in Holding) => OwnerInv'
    BY <1>a, OwnerFrame
<1>d. ASSUME OwnerInvAt(w)', pc'[w] \in Holding => run'[w] = opened'  /\ opened' = opened + 1
      PROVE  OwnerInv'
    <2> SUFFICES ASSUME NEW v \in Workers \ {w}, pc[v] \in Holding PROVE OwnerInvAt(v)'
        BY <1>a, <1>d DEF OwnerInv, OwnerInvAt, OthersKept
    <2>1. run[v] \in 1..opened /\ run[v] \in RunIds /\ OwnerInvAt(v) BY OwnedRun DEF OwnerInv, OwnerInvAt
    <2>2. pc[w] \in Holding => run[v] # run[w] BY <2>1 DEF OwnerInvAt
    <2>3. runs'[run[v]] = runs[run[v]] /\ run[v] \in 1..opened'
        BY <2>1, <2>2, <1>a, <1>b DEF RunsKept
    <2>4. pc'[w] \in Holding => run'[w] # run[v] BY <2>1, <1>b, <1>d
    <2> QED BY <2>1, <2>3, <2>4, <1>a DEF OwnerInvAt, OthersKept
<1>1. CASE StartSync(w)
    BY <1>1, <1>c DEF StartSync, At, Goto, TypeOK, LoopsOK, Holding, Processing, locals, tables
<1>2. CASE EndSync(w)
    BY <1>2, <1>c DEF EndSync, At, Goto, TypeOK, LoopsOK, Holding, Processing, locals, tables
<1>3. CASE OpenRun(w)
    <2>1. CASE UNCHANGED <<opened, runs, run, pc>> BY <2>1, <1>c
    <2>2. CASE ~UNCHANGED <<opened, runs, run, pc>>
        <3> DEFINE new == [source |-> SourceAt(w), status |-> "running",
                           total |-> 0, changed |-> 0]
        <3>1. /\ opened' = opened + 1 /\ opened < MaxRuns /\ run'[w] = opened'
              /\ runs' = [runs EXCEPT ![opened + 1] = new]
            BY <1>3, <2>2 DEF OpenRun, TypeOK, LoopsOK
        <3>2. new \in Run BY <1>3, SourceType DEF OpenRun, Run
        <3>3. new # Absent /\ new.status = "running" BY <3>2, AbsentAssumption
        <3>4. runs'[opened'] = new BY <3>1, <1>b, Bounds DEF TypeOK, TablesOK, RunIds
        <3>5. \A v \in Workers \ {w} : pc'[v] \in Holding => run'[v] \in 1..opened
            BY <1>a DEF OthersKept, OwnerInv, OwnerInvAt
        <3>6. OwnerInvAt(w)' BY <3>1, <3>3, <3>4, <3>5, <1>b DEF OwnerInvAt
        <3> QED BY <3>1, <3>6, <1>d
    <2> QED BY <2>1, <2>2
<1>4. CASE Fetch(w)
    BY <1>4, <1>c DEF Fetch, At, Goto, TypeOK, LoopsOK, Holding, Processing, locals, tables
<1>5. CASE LoadCache(w)
    BY <1>5, <1>c DEF LoadCache, At, Goto, TypeOK, LoopsOK, Holding, Processing, locals, tables
<1>6. CASE CloseRun(w)
    <2>1. pc'[w] \notin Holding BY <1>6 DEF CloseRun, Goto, TypeOK, LoopsOK, Holding
    <2> QED BY <2>1, <1>d DEF OwnerInvAt
<1>7. CASE CloseFailedRun(w)
    <2>1. pc'[w] \notin Holding BY <1>7 DEF CloseFailedRun, Goto, TypeOK, LoopsOK, Holding
    <2> QED BY <2>1, <1>d DEF OwnerInvAt
<1>8. CASE ReadSnapshot(w)
    BY <1>8, <1>c DEF ReadSnapshot, At, Goto, TypeOK, LoopsOK, Holding, Processing, locals, tables
<1>9. CASE WriteSnapshot(w)
    BY <1>9, <1>c DEF WriteSnapshot, At, Goto, TypeOK, LoopsOK, Holding, Processing, locals, tables
<1>10. CASE WriteLink(w)
    BY <1>10, <1>c DEF WriteLink, At, Goto, TypeOK, LoopsOK, Holding, Processing, locals, tables
<1>11. CASE WriteRow(w)
    BY <1>11, <1>c DEF WriteRow, At, Goto, TypeOK, LoopsOK, Holding, Processing, locals, tables
<1>12. ASSUME NEW l \in Processing \cap Holding, NEW o \in Outcomes, WriteItem(w, l, o)
      PROVE  OwnerInv'
    BY <1>12, <1>c DEF WriteItem, At, Goto, TypeOK, LoopsOK, Holding, Processing, locals, tables
<1>13. CASE WriteItemFailed(w)
    BY <1>13, <1>c DEF WriteItemFailed, At, Goto, TypeOK, LoopsOK, Holding, Processing, locals, tables
<1>14. CASE Crash(w)
    BY <1>14, <1>c DEF Crash, At, Goto, TypeOK, LoopsOK, Holding, Processing, locals, tables
<1> QED
    BY <1>1, <1>2, <1>3, <1>4, <1>5, <1>6, <1>7, <1>8, <1>9, <1>10, <1>11, <1>12, <1>13, <1>14
    DEF LoopStep, Step, WriteItemUnchanged, WriteItemDuplicate, WriteItemUpserted, Holding,
        Processing, Outcomes

\* The initial tables are empty and every loop is idle.
LEMMA SafeInit == ASSUME Init PROVE SafeInv
<1> USE ConstantsAssumption, AbsentAssumption DEF Init
<1>1. WorldOK BY DEF WorldOK
<1>2. TablesOK BY DEF TablesOK, RunIds, Outcomes
<1>3. LoopsOK BY DEF LoopsOK, Labels
<1>4. HistoryOK BY DEF HistoryOK
<1>5. LocalsInv BY DEF LocalsInv, LocalsInvAt, Holding, Processing
<1>6. FreshInv BY DEF FreshInv
<1>7. OwnerInv BY DEF OwnerInv, OwnerInvAt, Holding
<1> QED BY <1>1, <1>2, <1>3, <1>4, <1>5, <1>6, <1>7 DEF SafeInv, TypeOK

\* The environment's steps leave tables and loops alone.
EnvironmentStep == (\E i \in Ids : ChangeFeed(i)) \/ Deploy \/ UNCHANGED vars

\* Publishing and deploying change neither tables nor loops.
LEMMA EnvironmentFrame ==
    ASSUME EnvironmentStep
    PROVE  UNCHANGED <<tables, pc, locals, history>>
BY DEF EnvironmentStep, ChangeFeed, Deploy, vars, world

\* So they keep the invariant.
LEMMA SafeEnvironment == ASSUME SafeInv, EnvironmentStep PROVE SafeInv'
<1>1. UNCHANGED <<tables, pc, locals, history>> BY EnvironmentFrame
<1>2. TypeOK
    BY DEF SafeInv
<1>3. WorldOK'
    <2>1. CASE \E i \in Ids : ChangeFeed(i)
        <3>1. PICK i \in Ids : ChangeFeed(i) BY <2>1
        <3>2. Publishable[i] \subseteq Payload BY ConstantsAssumption
        <3>3. \E S \in SUBSET Payload : feed' = [feed EXCEPT ![i] = S]
            BY <3>1, <3>2 DEF ChangeFeed
        <3> QED BY <1>2, <3>1, <3>3 DEF ChangeFeed, TypeOK, WorldOK
    <2>2. CASE Deploy
        <3>1. build + 1 \in 1..MaxBuild BY <2>2, <1>2, Bounds DEF Deploy, TypeOK, WorldOK
        <3> QED BY <2>2, <3>1, <1>2 DEF Deploy, TypeOK, WorldOK
    <2>3. CASE UNCHANGED vars BY <2>3, <1>2 DEF vars, world, TypeOK, WorldOK
    <2> QED BY <2>1, <2>2, <2>3 DEF EnvironmentStep
<1>4. TablesOK' BY <1>1, <1>2 DEF tables, TypeOK, TablesOK
<1>5. LoopsOK' BY <1>1, <1>2 DEF locals, TypeOK, LoopsOK
<1>6. HistoryOK'
    BY <1>1, <1>2, Bounds
    DEF EnvironmentStep, ChangeFeed, Deploy, vars, history, TypeOK, HistoryOK
<1>7. LocalsInv' BY <1>1 DEF SafeInv, LocalsInv, LocalsInvAt, tables, locals
<1>8. FreshInv' BY <1>1 DEF SafeInv, FreshInv, tables
<1>9. OwnerInv' BY <1>1 DEF SafeInv, OwnerInv, OwnerInvAt, tables, locals
<1> QED BY <1>3, <1>4, <1>5, <1>6, <1>7, <1>8, <1>9 DEF SafeInv, TypeOK

\* A step is a loop's or the environment's.
LEMMA NextSteps ==
    ASSUME [Next]_vars
    PROVE  (\E w \in Workers : LoopStep(w)) \/ EnvironmentStep
BY DEF Next, LoopStep, EnvironmentStep

\* Every step keeps SafeInv.
LEMMA SafeStep == ASSUME SafeInv, [Next]_vars PROVE SafeInv'
<1>1. ASSUME NEW w \in Workers, LoopStep(w) PROVE SafeInv'
    BY <1>1, TypeStep, LocalsStep, FreshStep, OwnerStep DEF SafeInv
<1>2. CASE EnvironmentStep BY <1>2, SafeEnvironment
<1> QED BY <1>1, <1>2, NextSteps

\* The inductive invariant: types, locals, unopened runs and the owners of open runs.
THEOREM SafeInvariant == Spec => []SafeInv
BY SafeInit, SafeStep, PTL DEF Spec

\* Every variable keeps its type, and the loops what they know of the tables.
THEOREM TypeCorrect == Spec => []TypeOK
<1>1. SafeInv => TypeOK BY DEF SafeInv
<1> QED BY <1>1, SafeInvariant, PTL

\* One step of ClosedRunsFrozen.
LEMMA ClosedRunsStep ==
    ASSUME SafeInv, [Next]_vars, NEW r \in RunIds, runs[r] # Absent
    PROVE  /\ runs'[r] # Absent
           /\ runs[r].status # "running" => runs'[r] = runs[r] /\ items'[r] = items[r]
<1> USE DEF SafeInv
<1>1. ASSUME NEW w \in Workers, LoopStep(w) PROVE
          /\ runs'[r] # Absent
          /\ runs[r].status # "running" => runs'[r] = runs[r] /\ items'[r] = items[r]
    <2>1. RunsKept(w) BY <1>1, OtherRuns
    <2>2. r # opened + 1
        BY Bounds DEF FreshInv, TypeOK, TablesOK, RunIds
    <2>3. CASE r = run[w] /\ pc[w] \in Holding
        <3>1. runs[r].status = "running" BY <2>3 DEF OwnerInv, OwnerInvAt
        <3>2. runs[r] \in Run BY DEF TypeOK, TablesOK
        <3>3. CASE runs' = runs BY <3>1, <3>3
        <3>4. CASE OpenRun(w) BY <2>3, <3>4 DEF OpenRun, At, Holding
        <3>5. CASE CloseRun(w) /\ runs' # runs
            <4>1. runs'[r] = [source |-> runs[r].source, status |-> "success",
                              total |-> Len(batch[w]), changed |-> count[w]]
                BY <2>3, <3>5 DEF CloseRun, TypeOK, TablesOK
            <4>2. runs'[r] \in Run
                BY <3>2, <4>1, BatchLength DEF Run, TypeOK, LoopsOK
            <4> QED BY <3>1, <4>2, AbsentAssumption
        <3>6. CASE CloseFailedRun(w) /\ runs' # runs
            <4>1. runs'[r] = [source |-> runs[r].source, status |-> "failed",
                              total |-> runs[r].total, changed |-> runs[r].changed]
                BY <2>3, <3>6 DEF CloseFailedRun, TypeOK, TablesOK
            <4>2. runs'[r] \in Run BY <3>2, <4>1 DEF Run
            <4> QED BY <3>1, <4>2, AbsentAssumption
        <3>7. runs' = runs \/ OpenRun(w) \/ CloseRun(w) \/ CloseFailedRun(w)
            BY <1>1
            DEF LoopStep, Step, StartSync, EndSync, Fetch, LoadCache, ReadSnapshot, WriteSnapshot,
                WriteLink, WriteRow, WriteItemUnchanged, WriteItemDuplicate, WriteItemUpserted,
                WriteItem, WriteItemFailed, Crash, tables
        <3> QED BY <3>3, <3>4, <3>5, <3>6, <3>7
    <2>4. CASE r # run[w] \/ pc[w] \notin Holding
        BY <2>1, <2>2, <2>4 DEF RunsKept
    <2> QED BY <2>3, <2>4
<1>2. CASE EnvironmentStep BY <1>2, EnvironmentFrame DEF tables
<1> QED BY <1>1, <1>2, NextSteps

\* A finished run stays as it is: no loop holds it any more, and a new run gets
\* a row of its own.
THEOREM ClosedRunsStayFrozen == Spec => ClosedRunsFrozen
<1>1. SafeInv /\ [Next]_vars => [\A r \in RunIds : runs[r] # Absent =>
          /\ runs'[r] # Absent
          /\ runs[r].status # "running" => runs'[r] = runs[r] /\ items'[r] = items[r]]_vars
    BY ClosedRunsStep
<1> QED BY <1>1, SafeInvariant, PTL DEF Spec, ClosedRunsFrozen

-----------------------------------------------------------------------------
(* Loops advance                                                           *)

\* One component of the position grows and those before it stay.
LEMMA FurtherStage ==
    ASSUME NEW w \in Workers, stage[w] < stage'[w] PROVE Before(Progress(w), Progress(w)')
<1>1. Progress(w)[1] < Progress(w)'[1] BY DEF Progress
<1> QED BY <1>1 DEF Before

LEMMA FurtherPhase ==
    ASSUME NEW w \in Workers, stage[w] = stage'[w], Phase[pc[w]] < Phase[pc'[w]]
    PROVE  Before(Progress(w), Progress(w)')
<1>1. Progress(w)[1] = Progress(w)'[1] /\ Progress(w)[2] < Progress(w)'[2] BY DEF Progress
<1> QED BY <1>1 DEF Before

LEMMA FurtherRecord ==
    ASSUME NEW w \in Workers, stage[w] = stage'[w], Phase[pc[w]] = 3, Phase[pc'[w]] = 3,
           pos[w] < pos'[w]
    PROVE  Before(Progress(w), Progress(w)')
<1>1. /\ Progress(w)[1] = Progress(w)'[1] /\ Progress(w)[2] = Progress(w)'[2]
      /\ Progress(w)[3] < Progress(w)'[3]
    BY DEF Progress
<1> QED BY <1>1 DEF Before

LEMMA FurtherStatement ==
    ASSUME NEW w \in Workers, stage[w] = stage'[w], pos[w] = pos'[w],
           Phase[pc[w]] = 3, Phase[pc'[w]] = 3, Statement[pc[w]] < Statement[pc'[w]]
    PROVE  Before(Progress(w), Progress(w)')
<1>1. /\ Progress(w)[1] = Progress(w)'[1] /\ Progress(w)[2] = Progress(w)'[2]
      /\ Progress(w)[3] = Progress(w)'[3] /\ Progress(w)[4] < Progress(w)'[4]
    BY DEF Progress
<1> QED BY <1>1 DEF Before

\* Each statement of a loop that goes on brings it further.
LEMMA AdvanceStep ==
    ASSUME SafeInv, NEW w \in Workers, LoopStep(w), pc[w] # "idle", pc'[w] # "idle"
    PROVE  Advances(w)
<1>a. TypeOK /\ LocalsInvAt(w) BY DEF SafeInv, LocalsInv
<1>b. /\ stage[w] \in Nat /\ pos[w] \in Nat /\ Len(batch[w]) \in Nat /\ Len(Plan[w]) \in Nat
      /\ pc[w] \in Labels
    BY <1>a, BatchLength, ConstantsAssumption DEF TypeOK, LoopsOK
<1>p. /\ \A l \in Processing \cup {"record", "close_failed"} : Phase[l] = 3
      /\ Phase["next"] = 0 /\ Phase["fetch"] = 1 /\ Phase["cache"] = 2
    BY DEF Phase, Processing
<1>s. /\ Statement["snapshot"] = 1 /\ Statement["row"] = 2 /\ Statement["link"] = 2
      /\ \A l \in {"item_unchanged", "item_duplicate", "item_upserted"} : Statement[l] = 3
      /\ Statement["item_failed"] = 4 /\ Statement["record"] = 5
    BY DEF Statement
\* A statement of the record at hand.
<1>c. ASSUME pc[w] \in Processing, pc'[w] \in Processing \cup {"record"},
             UNCHANGED <<stage, pos, batch>>, Statement[pc[w]] < Statement[pc'[w]]
      PROVE  Advances(w)
    <2>1. stage[w] <= Len(Plan[w]) /\ pos[w] <= Len(batch[w])
        BY <1>a, <1>b, <1>c DEF LocalsInvAt, Holding, Processing
    <2>2. Phase[pc[w]] = 3 /\ Phase[pc'[w]] = 3 BY <1>c, <1>p
    <2>3. Before(Progress(w), Progress(w)') BY <1>c, <2>2, FurtherStatement
    <2> QED BY <1>b, <1>c, <2>1, <2>3 DEF Advances
\* The end of a source.
<1>d. ASSUME pc'[w] = "next", stage'[w] = stage[w] + 1, stage[w] <= Len(Plan[w])
      PROVE  Advances(w)
    <2>1. Before(Progress(w), Progress(w)') BY <1>b, <1>d, FurtherStage
    <2> QED BY <1>b, <1>d, <1>p, <2>1 DEF Advances
<1>1. ~StartSync(w) /\ ~EndSync(w) /\ ~Crash(w)
    BY <1>a DEF StartSync, EndSync, Crash, At, Goto, TypeOK, LoopsOK
<1>2. CASE OpenRun(w)
    <2>1. CASE pc' = pc
        BY <1>2, <2>1, <1>a, <1>b, <1>d DEF OpenRun, At, Goto, TypeOK, LoopsOK
    <2>2. CASE pc' # pc
        <3>1. pc[w] = "next" /\ pc'[w] = "fetch" /\ UNCHANGED stage /\ stage[w] <= Len(Plan[w])
            BY <1>2, <2>2, <1>a DEF OpenRun, At, Goto, TypeOK, LoopsOK
        <3>2. Before(Progress(w), Progress(w)') BY <3>1, <1>p, FurtherPhase
        <3> QED BY <3>1, <3>2, <1>b, <1>p DEF Advances
    <2> QED BY <2>1, <2>2
<1>3. CASE Fetch(w)
    <2>1. /\ pc[w] = "fetch" /\ pc'[w] \in {"cache", "record", "close_failed"}
          /\ UNCHANGED stage /\ pos'[w] = 0 /\ stage[w] <= Len(Plan[w])
        <3>1. pc[w] = "fetch" /\ UNCHANGED stage BY <1>3 DEF Fetch, At
        <3>2. pc'[w] \in {"cache", "record", "close_failed"}
            BY <1>3, <1>a DEF Fetch, Goto, TypeOK, LoopsOK
        <3>3. pos'[w] = 0 BY <1>3, <1>a DEF Fetch, TypeOK, LoopsOK
        <3>4. stage[w] <= Len(Plan[w]) BY <3>1, <1>a, <1>b DEF LocalsInvAt, Holding
        <3> QED BY <3>1, <3>2, <3>3, <3>4
    <2>2. Phase[pc[w]] < Phase[pc'[w]] /\ Phase[pc[w]] # 3 BY <2>1, <1>p
    <2>3. Before(Progress(w), Progress(w)') BY <2>1, <2>2, FurtherPhase
    <2>4. batch'[w] \in Seq(RawRecord) BY <1>3, LoopsStep DEF SafeInv, LoopsOK, LoopStep, Step
    <2>5. pos'[w] <= Len(batch'[w]) BY <2>1, <2>4
    <2> QED BY <2>1, <2>2, <2>3, <2>5, <1>b DEF Advances
<1>4. CASE LoadCache(w)
    <2>1. /\ pc[w] = "cache" /\ pc'[w] = "record" /\ UNCHANGED <<stage, pos, batch>>
          /\ stage[w] <= Len(Plan[w]) /\ pos[w] = 0
        BY <1>4, <1>a, <1>b DEF LoadCache, At, Goto, TypeOK, LoopsOK, LocalsInvAt, Holding
    <2>2. Before(Progress(w), Progress(w)') BY <2>1, <1>p, FurtherPhase
    <2> QED BY <2>1, <2>2, <1>b, <1>p DEF Advances
<1>5. CASE CloseRun(w)
    BY <1>5, <1>a, <1>b, <1>d DEF CloseRun, At, Goto, TypeOK, LoopsOK, LocalsInvAt, Holding
<1>6. CASE CloseFailedRun(w)
    BY <1>6, <1>a, <1>b, <1>d DEF CloseFailedRun, At, Goto, TypeOK, LoopsOK, LocalsInvAt, Holding
<1>7. CASE ReadSnapshot(w)
    <2>1. /\ pc[w] = "record" /\ pc'[w] \in {"snapshot", "item_failed"} /\ UNCHANGED <<stage, batch>>
          /\ pos'[w] = pos[w] + 1 /\ pos[w] < Len(batch[w]) /\ stage[w] <= Len(Plan[w])
        BY <1>7, <1>a, <1>b DEF ReadSnapshot, At, Goto, TypeOK, LoopsOK, LocalsInvAt, Holding
    <2>2. Phase[pc[w]] = 3 /\ Phase[pc'[w]] = 3 BY <2>1, <1>p DEF Processing
    <2>3. Before(Progress(w), Progress(w)') BY <2>1, <2>2, <1>b, FurtherRecord
    <2> QED BY <2>1, <2>3, <1>b DEF Advances
<1>8. CASE WriteSnapshot(w)
    <2>1. /\ pc[w] = "snapshot" /\ UNCHANGED <<stage, pos, batch>>
          /\ pc'[w] \in {"item_unchanged", "row", "link", "item_duplicate", "item_failed"}
        BY <1>8, <1>a DEF WriteSnapshot, At, Goto, TypeOK, LoopsOK
    <2> QED BY <2>1, <1>c, <1>s DEF Processing
<1>9. CASE WriteLink(w)
    <2>1. /\ pc[w] = "link" /\ UNCHANGED <<stage, pos, batch>>
          /\ pc'[w] \in {"item_duplicate", "item_failed"}
        BY <1>9, <1>a DEF WriteLink, At, Goto, TypeOK, LoopsOK, locals
    <2> QED BY <2>1, <1>c, <1>s DEF Processing
<1>10. CASE WriteRow(w)
    <2>1. /\ pc[w] = "row" /\ UNCHANGED <<stage, pos, batch>>
          /\ pc'[w] \in {"item_upserted", "item_failed"}
        BY <1>10, <1>a DEF WriteRow, At, Goto, TypeOK, LoopsOK, locals
    <2> QED BY <2>1, <1>c, <1>s DEF Processing
<1>11. ASSUME NEW l \in {"item_unchanged", "item_duplicate", "item_upserted"}, NEW o,
              WriteItem(w, l, o)
       PROVE  Advances(w)
    <2>1. /\ pc[w] = l /\ UNCHANGED <<stage, pos, batch>> /\ pc'[w] \in {"record", "item_failed"}
        BY <1>11, <1>a DEF WriteItem, At, Goto, TypeOK, LoopsOK
    <2> QED BY <2>1, <1>c, <1>s DEF Processing
<1>12. CASE WriteItemFailed(w)
    <2>1. pc[w] = "item_failed" /\ UNCHANGED <<stage, pos, batch>> /\ pc'[w] = "record"
        BY <1>12, <1>a DEF WriteItemFailed, At, Goto, TypeOK, LoopsOK, locals
    <2> QED BY <2>1, <1>c, <1>s DEF Processing
<1> QED BY <1>1, <1>2, <1>3, <1>4, <1>5, <1>6, <1>7, <1>8, <1>9, <1>10, <1>11, <1>12
        DEF LoopStep, Step, WriteItemUnchanged, WriteItemDuplicate, WriteItemUpserted

\* No loop ever goes back, so that every loop that is not stopped comes to the
\* end of its plan in finitely many statements.
THEOREM LoopsGoForward == Spec => LoopsAdvance
<1>1. SafeInv /\ [Next]_vars => [\A w \in Workers : pc[w] # "idle" /\ pc'[w] # "idle" =>
          UNCHANGED <<pc[w], stage[w], pos[w], batch[w]>> \/ Advances(w)]_vars
    <2> SUFFICES ASSUME SafeInv, [Next]_vars, NEW w \in Workers, pc[w] # "idle", pc'[w] # "idle"
                 PROVE  UNCHANGED <<pc[w], stage[w], pos[w], batch[w]>> \/ Advances(w)
        OBVIOUS
    <2>1. ASSUME NEW v \in Workers, LoopStep(v)
          PROVE  UNCHANGED <<pc[w], stage[w], pos[w], batch[w]>> \/ Advances(w)
        <3>1. CASE v = w BY <2>1, <3>1, AdvanceStep
        <3>2. CASE v # w
            <4>1. OthersKept(v) BY <2>1, OtherLoops DEF SafeInv
            <4> QED BY <3>2, <4>1 DEF OthersKept
        <3> QED BY <3>1, <3>2
    <2>2. CASE EnvironmentStep BY <2>2, EnvironmentFrame DEF locals
    <2> QED BY <2>1, <2>2, NextSteps
<1> QED BY <1>1, SafeInvariant, PTL DEF Spec, LoopsAdvance

-----------------------------------------------------------------------------
(* Which records a run has noted                                           *)

\* The records with an item in run r.
Noted(r) == {i \in Ids : items[r][i] # "none"}

\* The record that loop w's run has noted is not to come again in its batch.
DoneWith(w, i) == \A n \in (pos[w] + 1)..Len(batch[w]) : batch[w][n].id # i

\* The items of the run a loop holds are those of the records it is done with,
\* and the batch lists them once; but for contended ones.
NotedInvAt(w) ==
    /\ pc[w] \in {"fetch", "cache", "close_failed"} => Noted(run[w]) = {}
    /\ pc[w] \in Processing \cup {"record", "cache"} => Repeated(batch[w]) \subseteq contended
    /\ pc[w] \in Processing \cup {"record"} =>
           \A i \in Noted(run[w]) \ contended : DoneWith(w, i)
    /\ pc[w] \in Processing /\ Rec(w).id \notin contended
           => Rec(w).id \notin Noted(run[w])

NotedInv == \A w \in Workers : NotedInvAt(w)

\* The items of the runs that other loops hold do not change.
LEMMA OtherItems ==
    ASSUME SafeInv, NEW w \in Workers, LoopStep(w),
           NEW v \in Workers \ {w}, pc[v] \in Holding
    PROVE  items'[run[v]] = items[run[v]] /\ run'[v] = run[v]
<1>1. RunsKept(w) /\ OthersKept(w) BY OtherRuns, OtherLoops DEF SafeInv
<1>2. run[v] \in RunIds /\ run[v] <= opened BY OwnedRun DEF SafeInv
<1>3. opened \in Nat /\ RunIds \subseteq Nat BY Bounds DEF SafeInv, TypeOK, TablesOK, RunIds
<1>4. run[v] # opened' \/ opened' = opened BY <1>1, <1>2, <1>3 DEF RunsKept
<1>5. run[v] # run[w] \/ pc[w] \notin Holding BY DEF SafeInv, OwnerInv, OwnerInvAt
<1> QED BY <1>1, <1>2, <1>4, <1>5 DEF RunsKept, OthersKept

\* A loop that comes to process a record another one is processing contends it.
LEMMA Entering ==
    ASSUME TypeOK, NEW w \in Workers, LoopStep(w)
    PROVE  /\ contended \subseteq contended'
           /\ batch'[w] = batch[w] \/ pc'[w] \notin Processing
           /\ pc'[w] \in Processing =>
                 \/ pc[w] \in Processing /\ Rec(w)' = Rec(w)
                 \/ \A v \in Workers \ {w} :
                       pc[v] \in Processing /\ Rec(v).id = (Rec(w).id)' => (Rec(w).id)' \in contended'
<1>1. CASE StartSync(w)
    BY <1>1 DEF StartSync, At, Goto, TypeOK, LoopsOK, Processing, Rec, locals, history
<1>2. CASE EndSync(w)
    BY <1>2 DEF EndSync, At, Goto, TypeOK, LoopsOK, Processing, Rec, locals, history
<1>3. CASE OpenRun(w)
    BY <1>3 DEF OpenRun, At, Goto, TypeOK, LoopsOK, Processing, Rec, locals, history
<1>4. CASE Fetch(w)
    BY <1>4 DEF Fetch, At, Goto, TypeOK, LoopsOK, Processing, Rec, locals, history
<1>5. CASE LoadCache(w)
    BY <1>5 DEF LoadCache, At, Goto, TypeOK, LoopsOK, Processing, Rec, locals, history
<1>6. CASE CloseRun(w)
    BY <1>6 DEF CloseRun, At, Goto, TypeOK, LoopsOK, Processing, Rec, locals, history
<1>7. CASE CloseFailedRun(w)
    BY <1>7 DEF CloseFailedRun, At, Goto, TypeOK, LoopsOK, Processing, Rec, locals, history
<1>8. CASE ReadSnapshot(w)
    <2>1. batch' = batch /\ Rec(w)' = batch[w][pos[w] + 1]
          /\ contended' = contended \cup {j \in {batch[w][pos[w] + 1].id} :
                \E v \in Workers \ {w} : pc[v] \in Processing /\ Rec(v).id = j}
        BY <1>8 DEF ReadSnapshot, Rec, TypeOK, LoopsOK
    <2> QED BY <2>1
<1>9. CASE WriteSnapshot(w)
    BY <1>9 DEF WriteSnapshot, At, Goto, TypeOK, LoopsOK, Processing, Rec, locals, history
<1>10. CASE WriteLink(w)
    BY <1>10 DEF WriteLink, At, Goto, TypeOK, LoopsOK, Processing, Rec, locals, history
<1>11. CASE WriteRow(w)
    BY <1>11 DEF WriteRow, At, Goto, TypeOK, LoopsOK, Processing, Rec, locals, history
<1>12. ASSUME NEW l \in Holding \cap Processing, NEW o \in Outcomes, WriteItem(w, l, o)
        PROVE  /\ contended \subseteq contended'
               /\ batch'[w] = batch[w] \/ pc'[w] \notin Processing
               /\ pc'[w] \in Processing =>
                     \/ pc[w] \in Processing /\ Rec(w)' = Rec(w)
                     \/ \A v \in Workers \ {w} :
                           pc[v] \in Processing /\ Rec(v).id = (Rec(w).id)' => (Rec(w).id)' \in contended'
    BY <1>12 DEF WriteItem, At, Goto, TypeOK, LoopsOK, Processing, Rec, locals, history
<1>13. CASE WriteItemFailed(w)
    BY <1>13 DEF WriteItemFailed, At, Goto, TypeOK, LoopsOK, Processing, Rec, locals, history
<1>14. CASE Crash(w)
    BY <1>14 DEF Crash, At, Goto, TypeOK, LoopsOK, Processing, Rec, locals, history
<1> QED
    BY <1>1, <1>2, <1>3, <1>4, <1>5, <1>6, <1>7, <1>8, <1>9, <1>10, <1>11, <1>12, <1>13, <1>14
    DEF LoopStep, Step, WriteItemUnchanged, WriteItemDuplicate, WriteItemUpserted, Holding,
        Processing, Outcomes

\* ReadSnapshot takes a record that has no item yet; only then is its item written.
LEMMA NotedStep ==
    ASSUME SafeInv, NotedInv, NEW w \in Workers, LoopStep(w) PROVE NotedInv'
<1>a. TypeOK /\ LocalsInv /\ LocalsInvAt(w) /\ NotedInvAt(w)
    BY DEF SafeInv, LocalsInv, NotedInv
<1>b. OthersKept(w) /\ contended \subseteq contended' BY <1>a, OtherLoops, Entering
<1>c. ASSUME NotedInvAt(w)' PROVE NotedInv'
    <2> SUFFICES ASSUME NEW v \in Workers \ {w}, pc[v] \in Holding PROVE NotedInvAt(v)'
        BY <1>b, <1>c DEF NotedInv, NotedInvAt, OthersKept, Holding, Processing
    <2>1. Noted(run[v])' = Noted(run[v]) BY OtherItems DEF Noted
    <2>2. /\ Repeated(batch[v])' = Repeated(batch[v])
          /\ \A i : DoneWith(v, i)' = DoneWith(v, i)
        BY <1>b DEF Repeated, DoneWith, OthersKept
    <2>3. NotedInvAt(v) BY DEF NotedInv
    <2> QED BY <2>1, <2>2, <2>3, <1>b DEF NotedInvAt, OthersKept
<1>d. pc[w] \in Holding => run[w] \in RunIds BY OwnedRun DEF SafeInv
<1>e. ASSUME pc[w] \in Processing, pc'[w] \in Processing, UNCHANGED <<items, run, batch, pos>>
      PROVE  NotedInv'
    <2>1. /\ Noted(run[w])' = Noted(run[w]) /\ Repeated(batch[w])' = Repeated(batch[w])
          /\ Rec(w)' = Rec(w) /\ \A i : DoneWith(w, i)' = DoneWith(w, i)
        BY <1>e DEF Noted, Repeated, Rec, DoneWith
    <2> QED BY <1>e, <2>1, <1>a, <1>b, <1>c DEF NotedInvAt, Processing
<1>1. CASE StartSync(w)
    <2>1. pc'[w] \in {"idle", "next"} BY <1>1, <1>a DEF StartSync, Goto, TypeOK, LoopsOK
    <2> QED BY <2>1, <1>c DEF NotedInvAt, Processing
<1>2. CASE EndSync(w)
    <2>1. pc'[w] \in {"idle", "next"} BY <1>2, <1>a DEF EndSync, Goto, TypeOK, LoopsOK
    <2> QED BY <2>1, <1>c DEF NotedInvAt, Processing
<1>3. CASE OpenRun(w)
    <2>1. CASE pc'[w] = "next" BY <2>1, <1>c DEF NotedInvAt, Processing
    <2>2. CASE pc'[w] # "next"
        <3>1. pc'[w] = "fetch" /\ run'[w] = opened + 1 /\ items' = items /\ opened < MaxRuns
            BY <1>3, <2>2, <1>a DEF OpenRun, At, Goto, TypeOK, LoopsOK
        <3>2. Noted(opened + 1) = {}
            BY <3>1, Bounds DEF Noted, SafeInv, FreshInv, RunIds, TypeOK, TablesOK
        <3>3. Noted(run[w])' = {} BY <3>1, <3>2 DEF Noted
        <3> QED BY <3>1, <3>3, <1>c DEF NotedInvAt, Processing
    <2> QED BY <2>1, <2>2
<1>4. CASE Fetch(w)
    <2>1. pc[w] = "fetch" /\ items' = items /\ run' = run /\ pc'[w] \notin Processing
        BY <1>4, <1>a DEF Fetch, At, Goto, TypeOK, LoopsOK, tables, Processing
    <2>2. Noted(run[w])' = {} BY <2>1, <1>a DEF Noted, NotedInvAt
    <2>3. pc'[w] # "close_failed" => Repeated(batch[w])' \subseteq contended'
        <3> SUFFICES ASSUME pc'[w] # "close_failed" PROVE Repeated(batch[w])' \subseteq contended'
            OBVIOUS
        <3>1. PICK b : batch' = [batch EXCEPT ![w] = b] /\ contended' = contended \cup Repeated(b)
            BY <1>4, <1>a DEF Fetch, Goto, TypeOK, LoopsOK
        <3>2. batch'[w] = b BY <3>1, <1>a DEF TypeOK, LoopsOK
        <3>3. Repeated(batch[w])' = Repeated(b) BY <3>2 DEF Repeated
        <3> QED BY <3>1, <3>3
    <2>4. pc'[w] \in {"record", "cache", "close_failed"}
        BY <1>4, <1>a DEF Fetch, Goto, TypeOK, LoopsOK
    <2> QED BY <2>1, <2>2, <2>3, <2>4, <1>c DEF NotedInvAt
<1>5. CASE LoadCache(w)
    <2>1. pc[w] = "cache" /\ items' = items /\ UNCHANGED <<run, batch>> /\ pc'[w] \notin Processing
        BY <1>5, <1>a DEF LoadCache, At, Goto, TypeOK, LoopsOK, tables, Processing
    <2>2. Noted(run[w])' = {} BY <2>1, <1>a DEF Noted, NotedInvAt
    <2>3. Repeated(batch[w])' \subseteq contended'
        <3>1. Repeated(batch[w])' = Repeated(batch[w]) BY <2>1 DEF Repeated
        <3> QED BY <2>1, <3>1, <1>a, <1>b DEF NotedInvAt
    <2> QED BY <2>1, <2>2, <2>3, <1>c DEF NotedInvAt
<1>6. CASE CloseRun(w)
    <2>1. pc'[w] \in {"idle", "next"} BY <1>6, <1>a DEF CloseRun, Goto, TypeOK, LoopsOK
    <2> QED BY <2>1, <1>c DEF NotedInvAt, Processing
<1>7. CASE CloseFailedRun(w)
    <2>1. pc'[w] \in {"idle", "next"} BY <1>7, <1>a DEF CloseFailedRun, Goto, TypeOK, LoopsOK
    <2> QED BY <2>1, <1>c DEF NotedInvAt, Processing
<1>8. CASE ReadSnapshot(w)
    <2>1. pc[w] = "record" /\ items' = items /\ UNCHANGED <<run, batch>> /\ pc'[w] \in Processing
        BY <1>8, <1>a DEF ReadSnapshot, At, Goto, TypeOK, LoopsOK, tables, Processing
    <2>2. pos'[w] = pos[w] + 1 /\ pos[w] < Len(batch[w]) /\ pos[w] \in Nat /\ Len(batch[w]) \in Nat
        BY <1>8, <1>a, BatchLength DEF ReadSnapshot, TypeOK, LoopsOK
    <2>3. Noted(run[w])' = Noted(run[w]) /\ Repeated(batch[w])' = Repeated(batch[w])
        BY <2>1 DEF Noted, Repeated
    <2>4. \A i : DoneWith(w, i) => DoneWith(w, i)' /\ (Rec(w).id)' # i
        BY <2>1, <2>2 DEF DoneWith, Rec
    <2>5. pc'[w] \notin {"fetch", "cache", "close_failed"} BY <2>1 DEF Processing
    <2>6. NotedInvAt(w)' BY <2>1, <2>3, <2>4, <2>5, <1>a, <1>b DEF NotedInvAt
    <2> QED BY <2>6, <1>c
<1>9. CASE WriteSnapshot(w)
    BY <1>9, <1>a, <1>e DEF WriteSnapshot, At, Goto, TypeOK, LoopsOK, Processing
<1>10. CASE WriteLink(w)
    BY <1>10, <1>a, <1>e DEF WriteLink, At, Goto, TypeOK, LoopsOK, Processing, locals
<1>11. CASE WriteRow(w)
    BY <1>11, <1>a, <1>e DEF WriteRow, At, Goto, TypeOK, LoopsOK, Processing, locals
\* Writing an item notes the record at hand, which does not come again.
<1>f. ASSUME pc[w] \in Processing, UNCHANGED <<run, batch, pos>>, pc'[w] \in {"record", "item_failed"},
             Noted(run[w])' \subseteq Noted(run[w]) \cup {Rec(w).id},
             pc'[w] = "item_failed" => Noted(run[w])' = Noted(run[w])
      PROVE  NotedInv'
    <2>1. /\ Repeated(batch[w])' = Repeated(batch[w]) /\ Rec(w)' = Rec(w)
          /\ \A i : DoneWith(w, i)' = DoneWith(w, i)
        BY <1>f DEF Repeated, Rec, DoneWith
    <2>2. Rec(w).id \notin contended => DoneWith(w, Rec(w).id)
        <3>1. batch[w] \in Seq(RawRecord) /\ pos[w] \in 1..Len(batch[w]) /\ Repeated(batch[w]) \subseteq contended
            BY <1>a, <1>f, BatchLength DEF NotedInvAt, LocalsInvAt, TypeOK, LoopsOK
        <3> SUFFICES ASSUME NEW n \in (pos[w] + 1)..Len(batch[w]), batch[w][n].id = Rec(w).id
                     PROVE  Rec(w).id \in Repeated(batch[w])
            BY <3>1 DEF DoneWith
        <3>2. n \in DOMAIN batch[w] /\ pos[w] \in DOMAIN batch[w] /\ n # pos[w] BY <3>1
        <3> QED BY <3>2 DEF Repeated, Rec
    <2> QED BY <1>f, <2>1, <2>2, <1>a, <1>b, <1>c DEF NotedInvAt, Processing
<1>12. ASSUME NEW l \in Processing \cap Holding, NEW o \in Outcomes, WriteItem(w, l, o)
      PROVE  NotedInv'
    <2>1. pc[w] \in Processing /\ pc'[w] \in {"record", "item_failed"}
        BY <1>12, <1>a DEF WriteItem, At, Goto, TypeOK, LoopsOK, Processing
    <2>2. UNCHANGED <<run, batch, pos>> BY <1>12 DEF WriteItem
    <2>3. Noted(run[w])' \subseteq Noted(run[w]) \cup {Rec(w).id}
        BY <1>12, <2>1, <2>2, <1>a, <1>d DEF Noted, WriteItem, TypeOK, TablesOK, Holding, Processing
    <2>4. pc'[w] = "item_failed" => Noted(run[w])' = Noted(run[w])
        BY <1>12, <2>2, <1>a DEF Noted, WriteItem, Goto, TypeOK, LoopsOK
    <2> QED BY <2>1, <2>2, <2>3, <2>4, <1>f
<1>13. CASE WriteItemFailed(w)
    <2>1. pc[w] \in Processing /\ pc'[w] \in {"record", "item_failed"}
        BY <1>13, <1>a DEF WriteItemFailed, At, Goto, TypeOK, LoopsOK, Processing
    <2>2. UNCHANGED <<run, batch, pos>> BY <1>13 DEF WriteItemFailed, locals
    <2>3. Noted(run[w])' \subseteq Noted(run[w]) \cup {Rec(w).id}
        BY <1>13, <2>1, <2>2, <1>a, <1>d DEF Noted, WriteItemFailed, TypeOK, TablesOK, Holding, Processing
    <2>4. pc'[w] = "item_failed" => Noted(run[w])' = Noted(run[w])
        BY <1>13, <2>2, <1>a DEF Noted, WriteItemFailed, Goto, TypeOK, LoopsOK
    <2> QED BY <2>1, <2>2, <2>3, <2>4, <1>f
<1>14. CASE Crash(w)
    <2>1. pc'[w] \in {"idle", "next"} BY <1>14, <1>a DEF Crash, Goto, TypeOK, LoopsOK
    <2> QED BY <2>1, <1>c DEF NotedInvAt, Processing
<1> QED
    BY <1>1, <1>2, <1>3, <1>4, <1>5, <1>6, <1>7, <1>8, <1>9, <1>10, <1>11, <1>12, <1>13, <1>14
    DEF LoopStep, Step, WriteItemUnchanged, WriteItemDuplicate, WriteItemUpserted, Holding,
        Processing, Outcomes

-----------------------------------------------------------------------------
(* Snapshots and rows                                                      *)

\* As long as one loop at a time processes a record, what that loop has read
\* and written is still so when it executes its next statement.
SerialInvAt(w) ==
    pc[w] \in Processing /\ Rec(w).id \notin contended =>
        /\ \A v \in Workers \ {w} : pc[v] \in Processing => Rec(v).id # Rec(w).id
        /\ pc[w] = "snapshot" /\ ~changed[w] => snapshots[Rec(w).id] = Rec(w).from
        /\ pc[w] = "row" => snapshots[Rec(w).id] = Rec(w).from
        /\ pc[w] = "item_upserted" =>
               programs[Rec(w).id] # Absent /\ programs[Rec(w).id].from = snapshots[Rec(w).id]

SerialInv == \A w \in Workers : SerialInvAt(w)

RecordKept(i) ==
    /\ snapshots'[i] = snapshots[i]
    /\ programs[i] # Absent => programs'[i] # Absent /\ programs'[i].from = programs[i].from

\* The link of the row that a record duplicates is all that changes in that row.
LEMMA RelinkKeeps ==
    ASSUME TypeOK, LocalsInv, NEW w \in Workers, WriteLink(w), NEW i \in Ids
    PROVE  RecordKept(i)
<1>1. CASE programs' = programs BY <1>1 DEF RecordKept, WriteLink
<1>2. CASE programs' = [programs EXCEPT ![dup[w].id] = RelinkedRow(w)]
    <2>1. programs'[i] = IF i = dup[w].id THEN RelinkedRow(w) ELSE programs[i]
        BY <1>2 DEF TypeOK, TablesOK
    <2> QED BY <2>1, RelinkedRowType DEF RecordKept, WriteLink
<1> QED BY <1>1, <1>2 DEF WriteLink

\* A step of loop w touches the snapshot and the row of no record but its own,
\* except for the link of the row that its own record duplicates.
LEMMA OtherRecords ==
    ASSUME TypeOK, LocalsInv, NEW w \in Workers, LoopStep(w), NEW i \in Ids,
           pc[w] \in Processing => i # Rec(w).id
    PROVE  RecordKept(i)
<1>1. UNCHANGED <<snapshots, programs>> => RecordKept(i) BY DEF RecordKept
<1>2. CASE WriteSnapshot(w)
    BY <1>2 DEF WriteSnapshot, At, Processing, RecordKept, TypeOK, TablesOK
<1>3. CASE WriteRow(w)
    BY <1>3 DEF WriteRow, At, Processing, RecordKept, TypeOK, TablesOK
<1>4. CASE WriteLink(w) BY <1>4, RelinkKeeps
<1>5. \/ UNCHANGED <<snapshots, programs>>
      \/ WriteSnapshot(w) \/ WriteRow(w) \/ WriteLink(w)
    BY DEF LoopStep, Step, StartSync, EndSync, OpenRun, Fetch, LoadCache, CloseRun, CloseFailedRun,
           ReadSnapshot, WriteItemUnchanged, WriteItemDuplicate, WriteItemUpserted,
           WriteItem, WriteItemFailed, Crash, tables
<1> QED BY <1>1, <1>2, <1>3, <1>4, <1>5

\* A loop saves the payload it has read before it writes the row from it.
LEMMA SerialStep ==
    ASSUME SafeInv, SerialInv, NEW w \in Workers, LoopStep(w) PROVE SerialInv'
<1>a. TypeOK /\ LocalsInv /\ LocalsInvAt(w) /\ SerialInvAt(w)
    BY DEF SafeInv, LocalsInv, SerialInv
<1>b. OthersKept(w) BY <1>a, OtherLoops
<1>c. contended \subseteq contended' BY <1>a, Entering
\* No other loop is disturbed.
<1>d. ASSUME NEW v \in Workers \ {w} PROVE SerialInvAt(v)'
    <2> SUFFICES ASSUME pc[v] \in Processing, Rec(v).id \notin contended' PROVE SerialInvAt(v)'
        BY <1>b DEF SerialInvAt, OthersKept
    <2>1. SerialInvAt(v) /\ Rec(v).id \notin contended BY <1>c DEF SerialInv
    <2>2. Rec(v).id \in Ids BY <1>a, RecType
    <2>3. pc[w] \in Processing => Rec(w).id # Rec(v).id BY <2>1 DEF SerialInvAt
    <2>4. RecordKept(Rec(v).id) BY <2>2, <2>3, <1>a, OtherRecords
    <2>5. pc'[w] \in Processing => (Rec(w).id)' # Rec(v).id BY <2>3, <1>a, Entering
    <2>6. Rec(v)' = Rec(v) BY <1>b DEF OthersKept
    <2> QED BY <2>1, <2>4, <2>5, <2>6, <1>b DEF SerialInvAt, OthersKept, RecordKept
\* Nor does the loop itself enter a record that another one processes.
<1>e. pc'[w] \in Processing /\ (Rec(w).id)' \notin contended' =>
         \A v \in Workers \ {w} : pc'[v] \in Processing => (Rec(v).id)' # (Rec(w).id)'
    BY <1>a, <1>b, <1>c, Entering DEF SerialInvAt, OthersKept
<1>f. pc'[w] \notin {"snapshot", "row", "item_upserted"} => SerialInv'
    BY <1>d, <1>e DEF SerialInv, SerialInvAt
<1>g. ASSUME SerialInvAt(w)' PROVE SerialInv' BY <1>d, <1>g DEF SerialInv
<1>1. CASE StartSync(w)
    BY <1>1, <1>a, <1>f DEF StartSync, At, Goto, TypeOK, LoopsOK
<1>2. CASE EndSync(w)
    BY <1>2, <1>a, <1>f DEF EndSync, At, Goto, TypeOK, LoopsOK
<1>3. CASE OpenRun(w)
    BY <1>3, <1>a, <1>f DEF OpenRun, At, Goto, TypeOK, LoopsOK
<1>4. CASE Fetch(w)
    BY <1>4, <1>a, <1>f DEF Fetch, At, Goto, TypeOK, LoopsOK
<1>5. CASE LoadCache(w)
    BY <1>5, <1>a, <1>f DEF LoadCache, At, Goto, TypeOK, LoopsOK
<1>6. CASE CloseRun(w)
    BY <1>6, <1>a, <1>f DEF CloseRun, At, Goto, TypeOK, LoopsOK
<1>7. CASE CloseFailedRun(w)
    BY <1>7, <1>a, <1>f DEF CloseFailedRun, At, Goto, TypeOK, LoopsOK
<1>8. CASE ReadSnapshot(w)
    <2>1. CASE pc'[w] = "snapshot"
        <3>1. /\ Rec(w)' = batch[w][pos[w] + 1] /\ snapshots' = snapshots
              /\ changed'[w] = (snapshots[batch[w][pos[w] + 1].id] # batch[w][pos[w] + 1].from)
            BY <1>8, <2>1, <1>a DEF ReadSnapshot, Rec, Goto, TypeOK, LoopsOK, tables
        <3> QED BY <2>1, <3>1, <1>e, <1>g DEF SerialInvAt
    <2>2. CASE pc'[w] # "snapshot"
        BY <1>8, <2>2, <1>a, <1>f DEF ReadSnapshot, Goto, TypeOK, LoopsOK
    <2> QED BY <2>1, <2>2
<1>9. CASE WriteSnapshot(w)
    <2>1. CASE pc'[w] = "row"
        <3>1. Rec(w).id \in Ids BY <1>9, <1>a, RecType DEF WriteSnapshot, At, Processing
        <3>2. Rec(w)' = Rec(w) /\ snapshots'[Rec(w).id] = Rec(w).from
            BY <1>9, <2>1, <3>1, <1>a DEF WriteSnapshot, Rec, Goto, TypeOK, TablesOK, LoopsOK
        <3> QED BY <2>1, <3>2, <1>e, <1>g DEF SerialInvAt
    <2>2. CASE pc'[w] # "row"
        BY <1>9, <2>2, <1>a, <1>f DEF WriteSnapshot, Goto, TypeOK, LoopsOK
    <2> QED BY <2>1, <2>2
<1>10. CASE WriteLink(w)
    BY <1>10, <1>a, <1>f DEF WriteLink, At, Goto, TypeOK, LoopsOK
<1>11. CASE WriteRow(w)
    <2>1. CASE pc'[w] = "item_upserted"
        <3>1. Rec(w).id \in Ids /\ pc[w] = "row" /\ UpsertedRow(w) # Absent
            BY <1>11, <1>a, UpsertedRowType DEF WriteRow, At
        <3>2. Rec(w)' = Rec(w) /\ UNCHANGED <<snapshots, contended>>
              /\ programs' = [programs EXCEPT ![Rec(w).id] = UpsertedRow(w)]
            BY <1>11, <2>1, <1>a DEF WriteRow, Rec, Goto, TypeOK, LoopsOK, locals, history
        <3>3. programs'[Rec(w).id] = UpsertedRow(w) BY <3>1, <3>2, <1>a DEF TypeOK, TablesOK
        <3>4. UpsertedRow(w).from = Rec(w).from BY DEF UpsertedRow
        <3>5. Rec(w).id \notin contended => snapshots[Rec(w).id] = Rec(w).from
            BY <3>1, <1>a DEF SerialInvAt, Processing
        <3> QED BY <2>1, <3>1, <3>2, <3>3, <3>4, <3>5, <1>e, <1>g DEF SerialInvAt
    <2>2. CASE pc'[w] # "item_upserted"
        BY <1>11, <2>2, <1>a, <1>f DEF WriteRow, Goto, TypeOK, LoopsOK
    <2> QED BY <2>1, <2>2
<1>12. ASSUME NEW l \in Processing \cap Holding, NEW o \in Outcomes, WriteItem(w, l, o)
      PROVE  SerialInv'
    BY <1>12, <1>a, <1>f DEF WriteItem, At, Goto, TypeOK, LoopsOK
<1>13. CASE WriteItemFailed(w)
    BY <1>13, <1>a, <1>f DEF WriteItemFailed, At, Goto, TypeOK, LoopsOK
<1>14. CASE Crash(w)
    BY <1>14, <1>a, <1>f DEF Crash, At, Goto, TypeOK, LoopsOK
<1> QED
    BY <1>1, <1>2, <1>3, <1>4, <1>5, <1>6, <1>7, <1>8, <1>9, <1>10, <1>11, <1>12, <1>13, <1>14
    DEF LoopStep, Step, WriteItemUnchanged, WriteItemDuplicate, WriteItemUpserted, Holding,
        Processing, Outcomes

\* An item becomes "upserted" only by the loop that holds the run, on the record
\* it processes, right after it wrote that record's row.
LEMMA UpsertedBy ==
    ASSUME SafeInv, NEW w \in Workers, LoopStep(w), NEW r \in RunIds, NEW i \in Ids,
           items'[r][i] = "upserted"
    PROVE  \/ items[r][i] = "upserted"
           \/ pc[w] = "item_upserted" /\ r = run[w] /\ i = Rec(w).id /\ UNCHANGED <<snapshots, programs>>
<1>1. TypeOK BY DEF SafeInv
<1>2. ASSUME NEW l \in Labels, NEW o \in Outcomes, WriteItem(w, l, o), o = "upserted" => l = "item_upserted"
      PROVE  \/ items[r][i] = "upserted"
             \/ /\ pc[w] = "item_upserted" /\ r = run[w] /\ i = Rec(w).id
                /\ UNCHANGED <<snapshots, programs>>
    <2>1. pc[w] = l /\ UNCHANGED <<snapshots, programs>> BY <1>2 DEF WriteItem, At
    <2>2. CASE items' = items BY <2>2
    <2>3. CASE items' = [items EXCEPT ![run[w]][Rec(w).id] = ItemAfter(w, o)]
        <3>1. CASE r = run[w] /\ i = Rec(w).id
            <4>1. items'[r][i] = ItemAfter(w, o) BY <1>1, <2>3, <3>1 DEF TypeOK, TablesOK
            <4> QED BY <1>2, <2>1, <3>1, <4>1 DEF ItemAfter
        <3>2. CASE ~(r = run[w] /\ i = Rec(w).id)
            <4>1. items'[r][i] = items[r][i] BY <1>1, <2>3, <3>2 DEF TypeOK, TablesOK
            <4> QED BY <4>1
        <3> QED BY <3>1, <3>2
    <2> QED BY <1>2, <2>2, <2>3 DEF WriteItem
<1>3. CASE WriteItemFailed(w) BY <1>1, <1>3 DEF WriteItemFailed, TypeOK, TablesOK
<1>4. \/ items' = items \/ WriteItemUnchanged(w) \/ WriteItemDuplicate(w) \/ WriteItemUpserted(w)
      \/ WriteItemFailed(w)
    BY DEF LoopStep, Step, StartSync, EndSync, OpenRun, Fetch, LoadCache, CloseRun, CloseFailedRun,
           ReadSnapshot, WriteSnapshot, WriteLink, WriteRow, Crash, tables
<1> QED BY <1>2, <1>3, <1>4
        DEF WriteItemUnchanged, WriteItemDuplicate, WriteItemUpserted, Labels, Holding, Outcomes

\* Saving a changed snapshot starts a run's claim to the record; its item completes it.
LEMMA UpsertedStep ==
    ASSUME SafeInv, NotedInv, SerialInv, UpsertedMeansCurrent, NEW w \in Workers, LoopStep(w)
    PROVE  UpsertedMeansCurrent'
<1>1. TypeOK /\ LocalsInv /\ SerialInvAt(w) /\ NotedInvAt(w) BY DEF SafeInv, SerialInv, NotedInv
<1>2. SUFFICES ASSUME NEW i \in Ids \ contended', changedBy'[i] # 0,
                      items'[changedBy'[i]][i] = "upserted"
               PROVE  programs'[i] # Absent /\ programs'[i].from = snapshots'[i]
    BY DEF UpsertedMeansCurrent
<1>3. i \notin contended BY <1>1, Entering
<1>4. TypeOK' BY TypeStep DEF SafeInv
<1>5. changedBy'[i] \in RunIds BY <1>2, <1>4, Bounds DEF TypeOK, HistoryOK, RunIds
\* The record's snapshot is being saved by this very step.
<1>6. CASE WriteSnapshot(w) /\ i = Rec(w).id /\ faults' = faults
    <2>1. pc[w] = "snapshot" /\ items' = items /\ programs' = programs
          /\ snapshots' = [snapshots EXCEPT ![Rec(w).id] = Rec(w).from]
          /\ changedBy' = IF changed[w] THEN [changedBy EXCEPT ![Rec(w).id] = run[w]] ELSE changedBy
        BY <1>6, <1>1, Bounds DEF WriteSnapshot, At, Fault, TypeOK, HistoryOK
    <2>2. CASE changed[w]
        <3>1. changedBy'[i] = run[w] BY <2>1, <2>2, <1>6, <1>1 DEF TypeOK, HistoryOK
        <3>2. Rec(w).id \notin Noted(run[w]) BY <2>1, <1>1, <1>3, <1>6 DEF NotedInvAt, Processing
        <3> QED BY <1>2, <1>6, <2>1, <3>1, <3>2 DEF Noted
    <2>3. CASE ~changed[w]
        <3>1. snapshots[i] = Rec(w).from BY <2>1, <2>3, <1>1, <1>3, <1>6 DEF SerialInvAt, Processing
        <3>2. snapshots' = snapshots BY <2>1, <3>1, <1>1, <1>6 DEF TypeOK, TablesOK
        <3> QED BY <1>2, <1>3, <2>1, <2>3, <3>2 DEF UpsertedMeansCurrent
    <2> QED BY <2>2, <2>3
\* Its row is: the snapshot is the same payload, and the item is not yet written.
<1>7. CASE WriteRow(w) /\ i = Rec(w).id /\ programs' # programs
    <2>1. pc[w] = "row" /\ items' = items /\ snapshots' = snapshots /\ changedBy' = changedBy
          /\ pc'[w] = "item_upserted" /\ Rec(w)' = Rec(w) /\ contended' = contended
        BY <1>7, <1>1 DEF WriteRow, Rec, At, Goto, TypeOK, LoopsOK, locals, history
    <2>2. SerialInvAt(w)' BY SerialStep DEF SerialInv
    <2> QED BY <2>1, <2>2, <1>2, <1>7 DEF SerialInvAt, Processing
\* Neither is.
<1>8. CASE ~(WriteSnapshot(w) /\ i = Rec(w).id /\ faults' = faults)
           /\ ~(WriteRow(w) /\ i = Rec(w).id /\ programs' # programs)
    <2>1. changedBy'[i] = changedBy[i]
        BY <1>8, <1>1
        DEF LoopStep, Step, StartSync, EndSync, OpenRun, Fetch, LoadCache, CloseRun, CloseFailedRun,
            ReadSnapshot, WriteSnapshot, WriteLink, WriteRow, WriteItemUnchanged,
            WriteItemDuplicate, WriteItemUpserted, WriteItem, WriteItemFailed, Crash, Succeed,
            history, TypeOK, HistoryOK
    <2>2. RecordKept(i)
        <3>1. CASE pc[w] \in Processing => i # Rec(w).id BY <3>1, <1>1, OtherRecords
        <3>2. CASE pc[w] \in Processing /\ i = Rec(w).id
            <4>1. CASE UNCHANGED <<snapshots, programs>> BY <4>1 DEF RecordKept
            <4>2. CASE WriteLink(w) 
                BY <4>2, <1>1, RelinkKeeps
            <4>3. UNCHANGED <<snapshots, programs>> \/ WriteLink(w)
                BY <1>8, <3>2
                DEF LoopStep, Step, StartSync, EndSync, OpenRun, Fetch, LoadCache, CloseRun,
                    CloseFailedRun, ReadSnapshot, WriteSnapshot, WriteRow, WriteItemUnchanged,
                    WriteItemDuplicate, WriteItemUpserted, WriteItem, WriteItemFailed, Crash,
                    Succeed, tables
            <4> QED BY <4>1, <4>2, <4>3
        <3> QED BY <3>1, <3>2
    <2>3. CASE items[changedBy[i]][i] = "upserted"
        BY <2>1, <2>2, <2>3, <1>2, <1>3 DEF UpsertedMeansCurrent, RecordKept
    <2>4. CASE items[changedBy[i]][i] # "upserted"
        <3>1. pc[w] = "item_upserted" /\ i = Rec(w).id /\ UNCHANGED <<snapshots, programs>>
            BY <2>1, <2>4, <1>2, <1>5, UpsertedBy
        <3> QED BY <3>1, <1>1, <1>3 DEF SerialInvAt, Processing
    <2> QED BY <2>3, <2>4
<1> QED BY <1>6, <1>7, <1>8

\* Nothing is claimed at the start.
LEMMA CurrentInit == ASSUME Init PROVE NotedInv /\ SerialInv /\ UpsertedMeansCurrent
BY DEF Init, NotedInv, NotedInvAt, SerialInv, SerialInvAt, UpsertedMeansCurrent, Processing

\* Every step keeps the three invariants together.
LEMMA CurrentStep ==
    ASSUME SafeInv, NotedInv, SerialInv, UpsertedMeansCurrent, [Next]_vars
    PROVE  (NotedInv /\ SerialInv /\ UpsertedMeansCurrent)'
<1>1. ASSUME NEW w \in Workers, LoopStep(w)
      PROVE  (NotedInv /\ SerialInv /\ UpsertedMeansCurrent)'
    BY <1>1, NotedStep, SerialStep, UpsertedStep
<1>2. CASE EnvironmentStep
    <2>1. UNCHANGED <<tables, pc, locals, history>> BY <1>2, EnvironmentFrame
    <2>2. NotedInv' BY <2>1 DEF NotedInv, NotedInvAt, Noted, DoneWith, Rec, tables, locals, history
    <2>3. SerialInv' BY <2>1 DEF SerialInv, SerialInvAt, Rec, tables, locals, history
    <2>4. UpsertedMeansCurrent' BY <2>1 DEF UpsertedMeansCurrent, tables, history
    <2> QED BY <2>2, <2>3, <2>4
<1> QED BY <1>1, <1>2, NextSteps

\* While a loop processes a record that no one else touches, it has no item yet,
\* its snapshot is the payload at hand, and so is its row once it is written.
THEOREM RecordsSerial == Spec => [](NotedInv /\ SerialInv)
<1>1. Init => NotedInv /\ SerialInv /\ UpsertedMeansCurrent BY CurrentInit
<1>2. SafeInv /\ (NotedInv /\ SerialInv /\ UpsertedMeansCurrent) /\ [Next]_vars
          => (NotedInv /\ SerialInv /\ UpsertedMeansCurrent)'
    BY CurrentStep
<1> QED BY <1>1, <1>2, SafeInvariant, PTL DEF Spec

\* What a run reports as upserted is in the program's row, until a later run
\* saves a changed snapshot: the hash check never skips a record whose last
\* content was not stored, unless that was reported or two loops met on it.
THEOREM UpsertedRowsCurrent == Spec => []UpsertedMeansCurrent
<1>1. Init => NotedInv /\ SerialInv /\ UpsertedMeansCurrent BY CurrentInit
<1>2. SafeInv /\ (NotedInv /\ SerialInv /\ UpsertedMeansCurrent) /\ [Next]_vars
          => (NotedInv /\ SerialInv /\ UpsertedMeansCurrent)'
    BY CurrentStep
<1> QED BY <1>1, <1>2, SafeInvariant, PTL DEF Spec

-----------------------------------------------------------------------------
(* The counts                                                              *)

\* The records with an item in a run's row of items, and those noted as changed.
NotedIn(row)   == {i \in Ids : row[i] # "none"}
CountedIn(row) == {i \in Ids : row[i] \in {"upserted", "duplicate_of_youth_center"}}

\* What the items are when a loop has counted so many of n records as changed.
Counts(row, counted, n) ==
    /\ Cardinality(CountedIn(row)) <= counted /\ counted <= n
    /\ Cardinality(NotedIn(row)) <= n
    /\ Cardinality(NotedIn(row)) = n => counted = Cardinality(CountedIn(row))

\* The number of records of the batch that loop w is done with.
Handled(w) == IF pc[w] \in Processing THEN pos[w] - 1
              ELSE IF pc[w] = "record" THEN pos[w] ELSE 0

CountInvAt(w) == pc[w] \in Holding => Counts(items[run[w]], count[w], Handled(w))

CountInv == \A w \in Workers : CountInvAt(w)

\* The sets of items are finite.
LEMMA ItemSets ==
    ASSUME NEW row
    PROVE  /\ IsFiniteSet(NotedIn(row)) /\ IsFiniteSet(CountedIn(row))
           /\ Cardinality(NotedIn(row)) \in Nat /\ Cardinality(CountedIn(row)) \in Nat
BY ConstantsAssumption, FS_Subset, FS_CardinalityType DEF NotedIn, CountedIn

\* Row new is row with an item for i, which is counted (c = 1), or not or no more.
Adds(row, new, i, c) ==
    /\ \A j \in Ids : j # i => new[j] = row[j]
    /\ new[i] # "none"
    /\ c = 0 => new[i] = row[i] \/ i \notin CountedIn(new)
    /\ c = 1 => i \in CountedIn(new)

\* An item more, counted or not, for a record that may have had one already.
LEMMA CountsAdd ==
    ASSUME NEW row, NEW new, NEW i \in Ids, NEW k \in Nat, NEW n \in Nat, NEW c \in {0, 1},
           Counts(row, k, n), Adds(row, new, i, c)
    PROVE  Counts(new, k + c, n + 1)
<1> DEFINE N == NotedIn(row)  M == NotedIn(new)  C == CountedIn(row)  D == CountedIn(new)
<1>1. M = N \cup {i} /\ C \subseteq N BY DEF Adds, NotedIn, CountedIn
<1>2. /\ Cardinality(C) \in Nat /\ Cardinality(N) \in Nat
      /\ IsFiniteSet(C) /\ IsFiniteSet(N)
    BY ItemSets
<1>3. Cardinality(M) = IF i \in N THEN Cardinality(N) ELSE Cardinality(N) + 1
    <2>1. Cardinality(N \cup {i}) = IF i \in N THEN Cardinality(N) ELSE Cardinality(N) + 1
        BY <1>2, FS_AddElement
    <2> QED BY <1>1, <2>1
<1>4. CASE c = 1
    <2>1. D = C \cup {i} BY <1>4 DEF Adds, CountedIn
    <2>2. Cardinality(D) = IF i \in C THEN Cardinality(C) ELSE Cardinality(C) + 1
        BY <2>1, <1>2, FS_AddElement
    <2> HIDE DEF N, M, C, D
    <2> QED BY <1>1, <1>2, <1>3, <1>4, <2>2 DEF Counts, N, M, C, D
<1>5. CASE c = 0
    <2>1. D \subseteq C /\ (i \notin N => D = C) BY <1>5 DEF Adds, CountedIn, NotedIn
    <2>2. Cardinality(D) <= Cardinality(C) /\ Cardinality(D) \in Nat
        BY <2>1, <1>2, FS_Subset, FS_CardinalityType
    <2> QED BY <1>1, <1>2, <1>3, <1>5, <2>1, <2>2 DEF Counts
<1> QED BY <1>4, <1>5

\* A record without an item of its own does no harm.
LEMMA CountsSkip ==
    ASSUME NEW row, NEW k \in Nat, NEW n \in Nat, Counts(row, k, n)
    PROVE  Counts(row, k, n + 1)
BY ItemSets DEF Counts

\* The count goes up with the item that counts, and a new run starts at zero.
LEMMA CountStep ==
    ASSUME SafeInv, CountInv, NEW w \in Workers, LoopStep(w) PROVE CountInv'
<1>a. TypeOK /\ LocalsInv /\ CountInvAt(w) BY DEF SafeInv, CountInv
<1>b. OthersKept(w) BY <1>a, OtherLoops
<1>c. ASSUME CountInvAt(w)' PROVE CountInv'
    <2> SUFFICES ASSUME NEW v \in Workers \ {w}, pc[v] \in Holding PROVE CountInvAt(v)'
        BY <1>b, <1>c DEF CountInv, CountInvAt, OthersKept
    <2>1. items'[run'[v]] = items[run[v]] /\ count'[v] = count[v] BY <1>b, OtherItems DEF OthersKept
    <2>2. Handled(v)' = Handled(v) BY <1>b DEF Handled, OthersKept
    <2> QED BY <2>1, <2>2 DEF CountInv, CountInvAt
<1>d. pc[w] \in Holding => run[w] \in RunIds BY OwnedRun DEF SafeInv
<1>e. Handled(w) \in Nat /\ count[w] \in Nat
    BY <1>a DEF Handled, LocalsInv, LocalsInvAt, TypeOK, LoopsOK
<1>f. ASSUME UNCHANGED <<items, run, count>>, pc[w] \in Holding,
             Handled(w)' \in {Handled(w), Handled(w) + 1}
      PROVE  CountInv'
    BY <1>a, <1>c, <1>e, <1>f, CountsSkip DEF CountInvAt
<1>g. pc'[w] \notin Holding => CountInv' BY <1>c DEF CountInvAt
<1>1. CASE StartSync(w)
    BY <1>1, <1>a, <1>g DEF StartSync, Goto, TypeOK, LoopsOK, Holding
<1>2. CASE EndSync(w)
    BY <1>2, <1>a, <1>g DEF EndSync, Goto, TypeOK, LoopsOK, Holding
<1>3. CASE OpenRun(w)
    <2>1. CASE pc'[w] = "next" BY <2>1, <1>g DEF Holding
    <2>2. CASE pc'[w] # "next"
        <3>1. /\ run'[w] = opened + 1 /\ count'[w] = 0 /\ items' = items /\ opened < MaxRuns
              /\ pc'[w] = "fetch"
            BY <1>3, <2>2, <1>a DEF OpenRun, At, Goto, TypeOK, LoopsOK
        <3>2. NotedIn(items[opened + 1]) = {} /\ CountedIn(items[opened + 1]) = {}
            BY <3>1, Bounds DEF NotedIn, CountedIn, SafeInv, FreshInv, RunIds, TypeOK, TablesOK
        <3>3. Handled(w)' = 0 BY <3>1 DEF Handled, Processing
        <3> QED BY <3>1, <3>2, <3>3, <1>c, FS_EmptySet DEF CountInvAt, Counts
    <2> QED BY <2>1, <2>2
<1>4. CASE Fetch(w)
    <2>1. Handled(w)' = 0 /\ Handled(w) = 0 /\ pc[w] \in Holding
        BY <1>4, <1>a DEF Fetch, At, Goto, TypeOK, LoopsOK, Handled, Processing, Holding
    <2> QED BY <1>4, <2>1, <1>f DEF Fetch, tables
<1>5. CASE LoadCache(w)
    <2>1. Handled(w)' = 0 /\ Handled(w) = 0 /\ pc[w] \in Holding
        BY <1>5, <1>a
        DEF LoadCache, At, Goto, TypeOK, LoopsOK, LocalsInv, LocalsInvAt, Handled, Processing, Holding
    <2> QED BY <1>5, <2>1, <1>f DEF LoadCache, tables
<1>6. CASE CloseRun(w)
    BY <1>6, <1>a, <1>g DEF CloseRun, Goto, TypeOK, LoopsOK, Holding
<1>7. CASE CloseFailedRun(w)
    BY <1>7, <1>a, <1>g DEF CloseFailedRun, Goto, TypeOK, LoopsOK, Holding
<1>8. CASE ReadSnapshot(w)
    <2>1. pc[w] = "record" /\ pc'[w] \in Processing /\ pos'[w] = pos[w] + 1 /\ pos[w] \in Nat
        BY <1>8, <1>a DEF ReadSnapshot, At, Goto, TypeOK, LoopsOK, Processing
    <2>2. Handled(w)' = Handled(w) /\ pc[w] \in Holding
        BY <2>1 DEF Handled, Processing, Holding
    <2> QED BY <1>8, <2>2, <1>f DEF ReadSnapshot, tables
<1>9. CASE WriteSnapshot(w)
    <2>1. Handled(w)' = Handled(w) /\ pc[w] \in Holding
        BY <1>9, <1>a DEF WriteSnapshot, At, Goto, TypeOK, LoopsOK, Handled, Processing, Holding
    <2> QED BY <1>9, <2>1, <1>f DEF WriteSnapshot
<1>10. CASE WriteLink(w)
    <2>1. Handled(w)' = Handled(w) /\ pc[w] \in Holding
        BY <1>10, <1>a DEF WriteLink, At, Goto, TypeOK, LoopsOK, Handled, Processing, Holding, locals
    <2> QED BY <1>10, <2>1, <1>f DEF WriteLink, locals
<1>11. CASE WriteRow(w)
    <2>1. Handled(w)' = Handled(w) /\ pc[w] \in Holding
        BY <1>11, <1>a DEF WriteRow, At, Goto, TypeOK, LoopsOK, Handled, Processing, Holding, locals
    <2> QED BY <1>11, <2>1, <1>f DEF WriteRow, locals
\* The item of the record at hand is written, and the loop is done with it.
<1>h. ASSUME pc[w] \in Processing, pc'[w] = "record", UNCHANGED <<run, pos>>,
             NEW o \in Outcomes \ {"none"}, NEW c \in {0, 1},
             items' = [items EXCEPT ![run[w]][Rec(w).id] = o], count'[w] = count[w] + c,
             c = 0 => o = items[run[w]][Rec(w).id] \/ o \notin {"upserted", "duplicate_of_youth_center"},
             c = 1 => o \in {"upserted", "duplicate_of_youth_center"}
      PROVE  CountInv'
    <2>1. Rec(w).id \in Ids /\ pc[w] \in Holding BY <1>a, <1>h, RecType DEF Processing, Holding
    <2>2. Handled(w)' = Handled(w) + 1
        BY <1>a, <1>h DEF Handled, Processing, TypeOK, LoopsOK
    <2>3. items'[run[w]] = [items[run[w]] EXCEPT ![Rec(w).id] = o]
        BY <1>a, <1>d, <1>h, <2>1 DEF TypeOK, TablesOK
    <2>4. items[run[w]] \in [Ids -> Outcomes] BY <1>a, <1>d, <2>1 DEF TypeOK, TablesOK
    <2>5. items'[run[w]][Rec(w).id] = o
          /\ \A j \in Ids : j # Rec(w).id => items'[run[w]][j] = items[run[w]][j]
        BY <2>1, <2>3, <2>4
    <2>6. Counts(items[run[w]], count[w], Handled(w)) BY <1>a, <2>1 DEF CountInvAt
    <2>7. Counts(items'[run[w]], count[w] + c, Handled(w) + 1)
        <3>1. Rec(w).id \in CountedIn(items'[run[w]]) <=> o \in {"upserted", "duplicate_of_youth_center"}
            BY <2>1, <2>5 DEF CountedIn
        <3>2. Adds(items[run[w]], items'[run[w]], Rec(w).id, c) BY <1>h, <2>5, <3>1 DEF Adds
        <3>3. count[w] \in Nat /\ Handled(w) \in Nat /\ Rec(w).id \in Ids /\ c \in {0, 1}
            BY <1>e, <1>h, <2>1
        <3> QED BY <2>6, <3>2, <3>3, CountsAdd
    <2> QED BY <1>c, <1>h, <2>2, <2>7 DEF CountInvAt
<1>12. ASSUME NEW l \in Holding \cap Processing,
             NEW o \in {"unchanged", "upserted", "duplicate_of_youth_center"}, WriteItem(w, l, o)
      PROVE  CountInv'
    <2>1. pc[w] \in Holding /\ pc[w] \in Processing /\ UNCHANGED <<run, batch, pos>>
        BY <1>12 DEF WriteItem, At
    <2>2. CASE pc'[w] # "record"
        <3>1. UNCHANGED <<items, count>> /\ pc'[w] = "item_failed"
            BY <1>12, <2>2, <1>a DEF WriteItem, Goto, TypeOK, LoopsOK
        <3>2. Handled(w)' = Handled(w) BY <2>1, <3>1 DEF Handled, Processing
        <3> QED BY <2>1, <3>1, <3>2, <1>f
    <2>3. CASE pc'[w] = "record"
        <3>1. /\ items' = [items EXCEPT ![run[w]][Rec(w).id] = ItemAfter(w, o)]
              /\ count' = [count EXCEPT ![w] = @ + Counted(o)]
            BY <1>12, <2>3, <1>a DEF WriteItem, Goto, TypeOK, LoopsOK
        <3>2. Rec(w).id \in Ids /\ items[run[w]][Rec(w).id] \in Outcomes
            BY <2>1, <1>a, <1>d, RecType DEF TypeOK, TablesOK
        <3>3. ItemAfter(w, o) \in Outcomes \ {"none"} BY <3>2 DEF ItemAfter, Outcomes
        <3>4. count'[w] = count[w] + Counted(o) BY <3>1, <1>a DEF TypeOK, LoopsOK
        <3>5. Counted(o) \in {0, 1} BY DEF Counted
        <3>6. Counted(o) = 0 => ItemAfter(w, o) = items[run[w]][Rec(w).id]
                                \/ ItemAfter(w, o) \notin {"upserted", "duplicate_of_youth_center"}
            BY DEF Counted, ItemAfter
        <3>7. Counted(o) = 1 => ItemAfter(w, o) \in {"upserted", "duplicate_of_youth_center"}
            BY DEF Counted, ItemAfter
        <3> QED BY <2>1, <2>3, <3>1, <3>3, <3>4, <3>5, <3>6, <3>7, <1>h
    <2> QED BY <2>2, <2>3
<1>13. CASE WriteItemFailed(w)
    <2>1. /\ pc[w] \in Processing /\ pc[w] \in Holding /\ pc'[w] = "record"
          /\ UNCHANGED <<run, pos, count>>
        BY <1>13, <1>a DEF WriteItemFailed, At, Goto, TypeOK, LoopsOK, Holding, Processing, locals
    <2>2. CASE items' = items
        <3>1. Handled(w)' = Handled(w) + 1 BY <1>a, <2>1 DEF Handled, Processing, TypeOK, LoopsOK
        <3> QED BY <2>1, <2>2, <3>1, <1>f
    <2>3. CASE items' = [items EXCEPT ![run[w]][Rec(w).id] = "failed"]
        <3>1. count'[w] = count[w] + 0 BY <2>1, <1>e
        <3>2. "failed" \in Outcomes \ {"none"} BY DEF Outcomes
        <3>3. "failed" \notin {"upserted", "duplicate_of_youth_center"} OBVIOUS
        <3>4. 0 \in {0, 1} /\ ~(0 = 1) OBVIOUS
        <3> QED BY <2>1, <2>3, <3>1, <3>2, <3>3, <3>4, <1>h
    <2> QED BY <1>13, <2>2, <2>3 DEF WriteItemFailed
<1>14. CASE Crash(w)
    BY <1>14, <1>a, <1>g DEF Crash, Goto, TypeOK, LoopsOK, Holding
<1> QED
    BY <1>1, <1>2, <1>3, <1>4, <1>5, <1>6, <1>7, <1>8, <1>9, <1>10, <1>11, <1>12, <1>13, <1>14
    DEF LoopStep, Step, WriteItemUnchanged, WriteItemDuplicate, WriteItemUpserted, Holding,
        Processing, Outcomes

\* A run becomes successful with the count its loop has kept.
LEMMA CountsStep ==
    ASSUME SafeInv, CountInv, RunCountsMatchItems, [Next]_vars
    PROVE  RunCountsMatchItems'
<1>a. TypeOK /\ TypeOK' BY SafeStep DEF SafeInv
<1> SUFFICES ASSUME NEW r \in RunIds, runs'[r] # Absent, runs'[r].status = "success"
             PROVE  Counts(items'[r], runs'[r].changed, runs'[r].total)
    BY DEF RunCountsMatchItems, Counts, CountedIn, NotedIn
<1>1. CASE runs[r] # Absent /\ runs[r].status # "running"
    <2>1. runs'[r] = runs[r] /\ items'[r] = items[r] BY <1>1, ClosedRunsStep
    <2> QED BY <1>1, <2>1 DEF RunCountsMatchItems, Counts, CountedIn, NotedIn
<1>2. CASE ~(runs[r] # Absent /\ runs[r].status # "running")
    <2>1. PICK w \in Workers : CloseRun(w) /\ r = run[w] /\ runs' # runs
        <3>1. runs'[r] # runs[r] BY <1>2
        <3>2. ASSUME NEW w \in Workers, LoopStep(w) PROVE CloseRun(w) /\ r = run[w] /\ runs' # runs
            <4>1. CASE OpenRun(w)
                BY <3>1, <4>1, <1>a DEF OpenRun, TypeOK, TablesOK
            <4>2. CASE CloseFailedRun(w)
                BY <3>1, <4>2, <1>a DEF CloseFailedRun, TypeOK, TablesOK
            <4>3. CASE CloseRun(w)
                BY <3>1, <4>3, <1>a DEF CloseRun, TypeOK, TablesOK
            <4>4. OpenRun(w) \/ CloseRun(w) \/ CloseFailedRun(w)
                BY <3>1, <3>2
                DEF LoopStep, Step, StartSync, EndSync, Fetch, LoadCache, ReadSnapshot,
                    WriteSnapshot, WriteLink, WriteRow, WriteItemUnchanged, WriteItemDuplicate,
                    WriteItemUpserted, WriteItem, WriteItemFailed, Crash, tables
            <4> QED BY <4>1, <4>2, <4>3, <4>4
        <3>3. ~EnvironmentStep BY <3>1, EnvironmentFrame DEF tables
        <3> QED BY <3>2, <3>3, NextSteps
    <2>2. pc[w] = "record" /\ pos[w] = Len(batch[w]) /\ items' = items
        BY <2>1 DEF CloseRun, At
    <2>3. runs'[r].total = Len(batch[w]) /\ runs'[r].changed = count[w]
        BY <2>1, <1>a DEF CloseRun, TypeOK, TablesOK
    <2>4. Handled(w) = Len(batch[w]) BY <2>2 DEF Handled, Processing
    <2>5. Counts(items[run[w]], count[w], Handled(w)) BY <2>2 DEF CountInv, CountInvAt, Holding
    <2> QED BY <2>1, <2>2, <2>3, <2>4, <2>5
<1> QED BY <1>1, <1>2

\* A loop's change count agrees with the items it has written so far.
LEMMA CountsKept == Spec => []CountInv
<1>1. Init => CountInv BY DEF Init, CountInv, CountInvAt, Holding
<1>2. SafeInv /\ CountInv /\ [Next]_vars => CountInv'
    <2>1. CASE EnvironmentStep
        <3>1. UNCHANGED <<tables, pc, locals, history>> BY <2>1, EnvironmentFrame
        <3> QED BY <3>1 DEF CountInv, CountInvAt, Handled, tables, locals
    <2> QED BY <2>1, CountStep, NextSteps
<1> QED BY <1>1, <1>2, SafeInvariant, PTL DEF Spec

\* The change count of a successful run is the number of records it noted as
\* changed, and it never notes more records than it fetched.
THEOREM RunCountsCorrect == Spec => []RunCountsMatchItems
<1>1. Init => RunCountsMatchItems BY DEF Init, RunCountsMatchItems
<1>2. SafeInv /\ CountInv /\ RunCountsMatchItems /\ [Next]_vars => RunCountsMatchItems'
    BY CountsStep
<1> QED BY <1>1, <1>2, SafeInvariant, CountsKept, PTL DEF Spec

-----------------------------------------------------------------------------
(* Ingestion implements RunLedger                                          *)

\* The run a loop holds is of the source it is at and reports nothing yet; the
\* batch is of that source too, and no longer than a batch may be.
LedgerInvAt(w) ==
    /\ pc[w] \in Holding =>
          /\ runs[run[w]].source = SourceAt(w)
          /\ runs[run[w]].total = 0 /\ runs[run[w]].changed = 0
    /\ pc[w] \in Processing \cup {"record", "cache"} =>
          /\ Len(batch[w]) <= MaxBatch
          /\ \A n \in 1..Len(batch[w]) : SourceOf[batch[w][n].id] = SourceAt(w)

LedgerInv == \A w \in Workers : LedgerInvAt(w)

\* The rows of the runs that other loops hold do not change.
LEMMA OtherRows ==
    ASSUME SafeInv, NEW w \in Workers, LoopStep(w),
           NEW v \in Workers \ {w}, pc[v] \in Holding
    PROVE  runs'[run[v]] = runs[run[v]]
<1>1. RunsKept(w) BY OtherRuns DEF SafeInv
<1>2. run[v] \in RunIds /\ run[v] <= opened BY OwnedRun DEF SafeInv
<1>3. opened \in Nat /\ RunIds \subseteq Nat BY Bounds DEF SafeInv, TypeOK, TablesOK, RunIds
<1>4. run[v] # opened' \/ opened' = opened BY <1>1, <1>2, <1>3 DEF RunsKept
<1>5. run[v] # run[w] \/ pc[w] \notin Holding BY DEF SafeInv, OwnerInv, OwnerInvAt
<1> QED BY <1>1, <1>2, <1>4, <1>5 DEF RunsKept

\* What a source returns is no longer than a batch, and of that source.
LEMMA ListingOf ==
    ASSUME NEW S \in SUBSET RawRecord, NEW b \in Listings(S)
    PROVE  Len(b) <= MaxBatch /\ \A n \in 1..Len(b) : b[n] \in S
<1>1. PICK n \in 0..MaxBatch : b \in [1..n -> S] BY DEF Listings
<1>2. n \in Nat /\ MaxBatch \in Nat /\ n <= MaxBatch BY Bounds
<1>3. b \in Seq(S) /\ Len(b) = n BY <1>1, <1>2, SeqDef
<1> QED BY <1>1, <1>2, <1>3

\* OpenRun and Fetch establish it, and the stage changes only between runs.
LEMMA LedgerStep ==
    ASSUME SafeInv, LedgerInv, NEW w \in Workers, LoopStep(w) PROVE LedgerInv'
<1>a. TypeOK /\ LocalsInv /\ LedgerInvAt(w) BY DEF SafeInv, LedgerInv
<1>b. OthersKept(w) BY <1>a, OtherLoops
<1>c. ASSUME LedgerInvAt(w)' PROVE LedgerInv'
    <2> SUFFICES ASSUME NEW v \in Workers \ {w}, pc[v] \in Holding PROVE LedgerInvAt(v)'
        BY <1>b, <1>c DEF LedgerInv, LedgerInvAt, OthersKept, Holding, Processing
    <2>1. runs'[run[v]] = runs[run[v]] BY OtherRows
    <2>2. SourceAt(v)' = SourceAt(v) BY <1>b DEF SourceAt, OthersKept
    <2>3. LedgerInvAt(v) BY DEF LedgerInv
    <2> QED BY <2>1, <2>2, <2>3, <1>b DEF LedgerInvAt, OthersKept
<1>d. pc'[w] \notin Holding => LedgerInv' BY <1>c DEF LedgerInvAt, Holding, Processing
<1>e. ASSUME pc[w] \in Processing \cup {"record", "cache"}, UNCHANGED <<runs, run, stage, batch>>
      PROVE  LedgerInv'
    <2>1. SourceAt(w)' = SourceAt(w) BY <1>e DEF SourceAt
    <2> QED BY <2>1, <1>a, <1>c, <1>e DEF LedgerInvAt, Holding, Processing
<1>1. CASE StartSync(w)
    BY <1>1, <1>a, <1>d DEF StartSync, Goto, TypeOK, LoopsOK, Holding
<1>2. CASE EndSync(w)
    BY <1>2, <1>a, <1>d DEF EndSync, Goto, TypeOK, LoopsOK, Holding
<1>3. CASE OpenRun(w)
    <2>1. CASE pc'[w] \notin Holding BY <2>1, <1>d
    <2>2. CASE pc'[w] \in Holding
        <3>1. /\ pc'[w] = "fetch" /\ opened < MaxRuns /\ run'[w] = opened + 1 /\ stage' = stage
              /\ runs' = [runs EXCEPT ![opened + 1] = [source |-> SourceAt(w), status |-> "running",
                                                       total |-> 0, changed |-> 0]]
            BY <1>3, <2>2, <1>a DEF OpenRun, At, Goto, TypeOK, LoopsOK, Holding
        <3>2. opened + 1 \in RunIds BY <3>1, <1>a, Bounds DEF TypeOK, TablesOK, RunIds
        <3>3. runs'[run'[w]] = [source |-> SourceAt(w), status |-> "running",
                                total |-> 0, changed |-> 0]
            BY <3>1, <3>2, <1>a DEF TypeOK, TablesOK
        <3>4. SourceAt(w)' = SourceAt(w) BY <3>1 DEF SourceAt
        <3> QED BY <3>1, <3>3, <3>4, <1>c DEF LedgerInvAt, Processing
    <2> QED BY <2>1, <2>2
<1>4. CASE Fetch(w)
    <2>1. /\ pc[w] \in Holding /\ pc'[w] \in {"cache", "record", "close_failed"}
          /\ UNCHANGED <<runs, run, stage>>
        BY <1>4, <1>a DEF Fetch, At, Goto, TypeOK, LoopsOK, Holding, tables
    <2>2. SourceAt(w)' = SourceAt(w) BY <2>1 DEF SourceAt
    <2>3. CASE pc'[w] = "close_failed"
        BY <2>1, <2>2, <2>3, <1>a, <1>c DEF LedgerInvAt, Holding, Processing
    <2>4. CASE pc'[w] # "close_failed"
        <3> DEFINE published == {r \in RawRecord : SourceOf[r.id] = SourceAt(w) /\ r.from \in feed[r.id]}
        <3>1. PICK b \in Listings(published) : batch' = [batch EXCEPT ![w] = b]
            BY <1>4, <2>4, <1>a DEF Fetch, Goto, TypeOK, LoopsOK
        <3>2. batch'[w] = b BY <3>1, <1>a DEF TypeOK, LoopsOK
        <3>3. Len(b) <= MaxBatch /\ \A n \in 1..Len(b) : b[n] \in published BY <3>1, ListingOf
        <3> QED BY <2>1, <2>2, <3>2, <3>3, <1>a, <1>c DEF LedgerInvAt
    <2> QED BY <2>3, <2>4
<1>5. CASE LoadCache(w)
    BY <1>5, <1>e DEF LoadCache, At, tables
<1>6. CASE CloseRun(w)
    BY <1>6, <1>a, <1>d DEF CloseRun, Goto, TypeOK, LoopsOK, Holding
<1>7. CASE CloseFailedRun(w)
    BY <1>7, <1>a, <1>d DEF CloseFailedRun, Goto, TypeOK, LoopsOK, Holding
<1>8. CASE ReadSnapshot(w)
    BY <1>8, <1>e DEF ReadSnapshot, At, tables
<1>9. CASE WriteSnapshot(w)
    BY <1>9, <1>e DEF WriteSnapshot, At, Processing
<1>10. CASE WriteLink(w)
    BY <1>10, <1>e DEF WriteLink, At, Processing, locals
<1>11. CASE WriteRow(w)
    BY <1>11, <1>e DEF WriteRow, At, Processing, locals
<1>12. ASSUME NEW l \in Holding \cap Processing, NEW o \in Outcomes, WriteItem(w, l, o)
      PROVE  LedgerInv'
    BY <1>12, <1>e DEF WriteItem, At
<1>13. CASE WriteItemFailed(w)
    BY <1>13, <1>e DEF WriteItemFailed, At, Processing, locals
<1>14. CASE Crash(w)
    BY <1>14, <1>a, <1>d DEF Crash, Goto, TypeOK, LoopsOK, Holding
<1> QED
    BY <1>1, <1>2, <1>3, <1>4, <1>5, <1>6, <1>7, <1>8, <1>9, <1>10, <1>11, <1>12, <1>13, <1>14
    DEF LoopStep, Step, WriteItemUnchanged, WriteItemDuplicate, WriteItemUpserted, Holding,
        Processing, Outcomes

\* A run belongs to one source, which is that of every record handled in it.
THEOREM RunsOfOneSource == Spec => []LedgerInv
<1>1. Init => LedgerInv BY DEF Init, LedgerInv, LedgerInvAt, Holding, Processing
<1>2. SafeInv /\ LedgerInv /\ [Next]_vars => LedgerInv'
    <2>1. CASE EnvironmentStep
        <3>1. UNCHANGED <<tables, pc, locals, history>> BY <2>1, EnvironmentFrame
        <3> QED BY <3>1 DEF LedgerInv, LedgerInvAt, SourceAt, tables, locals
    <2> QED BY <2>1, LedgerStep, NextSteps
<1> QED BY <1>1, <1>2, SafeInvariant, PTL DEF Spec

\* The item that a statement writes is noted in the ledger, or was there before.
LEMMA NotesItem ==
    ASSUME SafeInv, LedgerInv, NEW w \in Workers, pc[w] \in Processing,
           NEW o \in {"unchanged", "upserted", "duplicate_of_youth_center", "failed"},
           runs' = runs, items' = [items EXCEPT ![run[w]][Rec(w).id] = o],
           o = "unchanged" => items[run[w]][Rec(w).id] \in {"none", "unchanged"}
    PROVE  [Ledger!Next]_<<runs, items>>
<1> DEFINE r == run[w]  i == Rec(w).id
<1>1. pc[w] \in Holding BY DEF Holding, Processing
<1>2. r \in RunIds /\ runs[r] # Absent /\ runs[r].status = "running"
    BY <1>1, OwnedRun DEF SafeInv, OwnerInv, OwnerInvAt
<1>3. i \in Ids BY RecType DEF SafeInv
<1>4. SourceOf[i] = runs[r].source
    <2>1. batch[w] \in Seq(RawRecord) /\ pos[w] \in 1..Len(batch[w])
        BY BatchLength DEF SafeInv, LocalsInv, LocalsInvAt, TypeOK, LoopsOK
    <2> QED BY <2>1, <1>1 DEF LedgerInv, LedgerInvAt, Rec
<1>5. CASE items[r][i] = o
    <2>1. items[r] \in [Ids -> Outcomes] /\ items \in [RunIds -> [Ids -> Outcomes]]
        BY <1>2 DEF SafeInv, TypeOK, TablesOK
    <2>2. [items[r] EXCEPT ![i] = o] = items[r] BY <1>5, <2>1
    <2>3. items' = items BY <2>1, <2>2
    <2> QED BY <2>3
<1>6. CASE items[r][i] # o
    <2>1. o = "unchanged" => i \notin Ledger!Noted(r) BY <1>6 DEF Ledger!Noted
    <2>2. Ledger!Note(r, i, o) BY <1>2, <1>4, <2>1 DEF Ledger!Note, Ledger!Running
    <2> QED BY <1>2, <1>3, <2>2 DEF Ledger!Next
<1> QED BY <1>5, <1>6

\* A step of a loop is a step of the ledger, or changes nothing of it.
LEMMA LedgerLoop ==
    ASSUME SafeInv, NotedInv, CountInv, LedgerInv, NEW w \in Workers, LoopStep(w)
    PROVE  [Ledger!Next]_<<runs, items>>
<1>a. TypeOK /\ LocalsInv /\ LocalsInvAt(w) BY DEF SafeInv, LocalsInv
<1>b. ASSUME pc[w] \in Holding
      PROVE  run[w] \in RunIds /\ Ledger!Running(run[w])
             /\ runs[run[w]].source = SourceAt(w) /\ runs[run[w]].total = 0 /\ runs[run[w]].changed = 0
    BY <1>b, OwnedRun DEF SafeInv, OwnerInv, OwnerInvAt, LedgerInv, LedgerInvAt, Ledger!Running
<1>1. CASE OpenRun(w) /\ runs' # runs
    <2>1. /\ opened < MaxRuns /\ items' = items
          /\ runs' = [runs EXCEPT ![opened + 1] = [source |-> SourceAt(w), status |-> "running",
                                                   total |-> 0, changed |-> 0]]
        BY <1>1 DEF OpenRun
    <2>2. opened + 1 \in RunIds /\ runs[opened + 1] = Absent
        BY <2>1, <1>a, Bounds DEF SafeInv, FreshInv, TypeOK, TablesOK, RunIds
    <2>3. SourceAt(w) \in Sources BY <1>1, <1>a, SourceType DEF OpenRun
    <2>4. Ledger!Open(opened + 1, SourceAt(w)) BY <2>1, <2>2 DEF Ledger!Open
    <2> QED BY <2>2, <2>3, <2>4 DEF Ledger!Next
<1>2. CASE CloseRun(w) /\ runs' # runs
    <2>1. /\ pc[w] = "record" /\ pos[w] = Len(batch[w]) /\ items' = items
          /\ runs' = [runs EXCEPT ![run[w]] =
                         [source |-> @.source, status |-> "success",
                          total |-> Len(batch[w]), changed |-> count[w]]]
        BY <1>2 DEF CloseRun, At
    <2>2. pc[w] \in Holding /\ Handled(w) = Len(batch[w]) BY <2>1 DEF Holding, Handled, Processing
    <2>3. Counts(items[run[w]], count[w], Len(batch[w])) BY <2>2 DEF CountInv, CountInvAt
    <2>4. /\ Ledger!Noted(run[w]) = NotedIn(items[run[w]])
          /\ Ledger!Written(run[w]) = CountedIn(items[run[w]])
        BY DEF Ledger!Noted, Ledger!Written, NotedIn, CountedIn
    <2>5. Len(batch[w]) \in 0..MaxBatch /\ count[w] \in 0..MaxBatch
        <3>1. Len(batch[w]) <= MaxBatch BY <2>1 DEF LedgerInv, LedgerInvAt
        <3>2. count[w] \in Nat /\ Len(batch[w]) \in Nat /\ MaxBatch \in Nat
            BY <1>a, BatchLength, Bounds DEF TypeOK, LoopsOK
        <3> QED BY <3>1, <3>2, <2>3 DEF Counts
    <2>6. Ledger!Succeed(run[w], Len(batch[w]), count[w])
        <3>1. runs' = [runs EXCEPT ![run[w]] =
                         [source |-> runs[run[w]].source, status |-> "success",
                          total |-> Len(batch[w]), changed |-> count[w]]]
            BY <2>1
        <3>2. \A S : Ledger!Cardinality(S) = Cardinality(S) BY DEF Ledger!Cardinality, Cardinality
        <3> QED BY <2>1, <2>2, <2>3, <2>4, <3>1, <3>2, <1>b DEF Ledger!Succeed, Counts
    <2> QED BY <2>2, <2>5, <2>6, <1>b DEF Ledger!Next
<1>3. CASE CloseFailedRun(w) /\ runs' # runs
    <2>1. /\ pc[w] = "close_failed" /\ pc[w] \in Holding /\ items' = items
          /\ runs' = [runs EXCEPT ![run[w]] =
                         [source |-> @.source, status |-> "failed",
                          total |-> @.total, changed |-> @.changed]]
        BY <1>3 DEF CloseFailedRun, At, Holding
    <2>2. Ledger!Noted(run[w]) = {} BY <2>1 DEF NotedInv, NotedInvAt, Noted, Ledger!Noted
    <2>3. runs' = [runs EXCEPT ![run[w]] = [source |-> runs[run[w]].source, status |-> "failed",
                                            total |-> 0, changed |-> 0]]
        BY <2>1, <1>b
    <2>4. Ledger!Fail(run[w]) BY <2>1, <2>2, <2>3, <1>b DEF Ledger!Fail
    <2> QED BY <2>1, <2>4, <1>b DEF Ledger!Next
<1>4. ASSUME NEW l \in Processing,
             NEW o \in {"unchanged", "upserted", "duplicate_of_youth_center"}, WriteItem(w, l, o)
      PROVE  [Ledger!Next]_<<runs, items>>
    <2>1. pc[w] \in Processing /\ runs' = runs BY <1>4 DEF WriteItem, At
    <2>2. CASE items' = items BY <2>1, <2>2
    <2>3. CASE items' = [items EXCEPT ![run[w]][Rec(w).id] = ItemAfter(w, o)]
        <3> DEFINE old == items[run[w]][Rec(w).id]
        <3>1. Rec(w).id \in Ids /\ run[w] \in RunIds
            BY <1>a, <1>b, <2>1, RecType DEF Holding, Processing
        <3>2. old \in Outcomes BY <3>1, <1>a DEF TypeOK, TablesOK
        <3>3. ItemAfter(w, o) \in {"unchanged", "upserted", "duplicate_of_youth_center", "failed"}
            BY <3>2 DEF ItemAfter, Outcomes
        <3>4. ItemAfter(w, o) = "unchanged" => old \in {"none", "unchanged"}
            BY DEF ItemAfter
        <3> QED BY <2>1, <2>3, <3>3, <3>4, NotesItem
    <2> QED BY <1>4, <2>2, <2>3 DEF WriteItem
<1>5. CASE WriteItemFailed(w)
    <2>1. pc[w] \in Processing /\ runs' = runs BY <1>5 DEF WriteItemFailed, At, Processing
    <2>2. CASE items' = items BY <2>1, <2>2
    <2>3. CASE items' = [items EXCEPT ![run[w]][Rec(w).id] = "failed"]
        BY <2>1, <2>3, NotesItem
    <2> QED BY <1>5, <2>2, <2>3 DEF WriteItemFailed
<1>6. CASE UNCHANGED <<runs, items>> BY <1>6
<1>7. \/ OpenRun(w) /\ runs' # runs
      \/ CloseRun(w) /\ runs' # runs
      \/ CloseFailedRun(w) /\ runs' # runs
      \/ WriteItem(w, "item_unchanged", "unchanged")
      \/ WriteItem(w, "item_duplicate", "duplicate_of_youth_center")
      \/ WriteItem(w, "item_upserted", "upserted")
      \/ WriteItemFailed(w) \/ UNCHANGED <<runs, items>>
    BY DEF LoopStep, Step, StartSync, EndSync, OpenRun, Fetch, LoadCache, CloseRun, CloseFailedRun,
           ReadSnapshot, WriteSnapshot, WriteLink, WriteRow, WriteItemUnchanged,
           WriteItemDuplicate, WriteItemUpserted, Crash, tables
<1> QED BY <1>1, <1>2, <1>3, <1>4, <1>5, <1>6, <1>7 DEF Processing

\* However many loops are in flight, and wherever statements fail or a process
\* stops, the tables of runs and items go through the ledger's steps only.
THEOREM ImplementsRunLedger == Spec => RunsRecorded
<1>1. Init => Ledger!Init BY DEF Init, Ledger!Init
<1>2. SafeInv /\ NotedInv /\ CountInv /\ LedgerInv /\ [Next]_vars => [Ledger!Next]_<<runs, items>>
    <2>1. CASE EnvironmentStep BY <2>1, EnvironmentFrame DEF tables
    <2> QED BY <2>1, LedgerLoop, NextSteps
<1>3. Spec => []NotedInv BY RecordsSerial, PTL
<1> QED BY <1>1, <1>2, <1>3, SafeInvariant, CountsKept, RunsOfOneSource, PTL
        DEF Spec, RunsRecorded, Ledger!Spec
=============================================================================
