------------------------------ MODULE VaultProofs ------------------------------
(* Proofs about Vault, for any number of documents, lists and incidents: the *)
(* encrypted files and the stored keys, the decrypted copies, the documents  *)
(* that are masked, the list of documents and the files of the directory, and*)
(* the type of all of it.                                                    *)
EXTENDS Vault, SequenceTheorems, TLAPS

\* The saves, whatever their documents, forms and lists are
SaveOf(D, F, C, L) == [pc: Phases, doc: D, form: F, consented: C, key: [KeyKinds -> Nat], docs: L]
SavesTyped == \E D, F, C, L : saves \in [Slots -> SaveOf(D, F, C, L)]

Counts == [docs: Nat, keys: Nat, incidents: SUBSET Incidents, raced: BOOLEAN]
Files == [DocIds -> [plain: BOOLEAN, enc: Nat \X Nat]]

Types ==
    /\ keyStore \in [KeyKinds -> Nat] /\ docFiles \in Files
    /\ vaultCount \in Counts /\ SavesTyped

HasMaster == {"salt", "newSalt", "encrypt", "unlink"}
HasSalt == {"encrypt", "unlink"}

\* A save that has a key holds the one that is stored.
HoldsOf(pc, key, store) ==
    /\ pc \in HasMaster => key["master"] = store["master"] /\ store["master"] # None
    /\ pc \in HasSalt => key["salt"] = store["salt"] /\ store["salt"] # None

Holds(s) == HoldsOf(saves[s].pc, saves[s].key, keyStore)

\* A file is under the stored keys, both of which there are.
UnderKeys(i) ==
    docFiles[i].enc # <<None, None>> =>
        /\ docFiles[i].enc = <<keyStore["master"], keyStore["salt"]>>
        /\ keyStore["master"] # None /\ keyStore["salt"] # None

KeysKept == ~vaultCount.raced => (\A s \in Slots : Holds(s)) /\ (\A i \in DocIds : UnderKeys(i))

KeyInv == Types /\ KeysKept

-----------------------------------------------------------------------------
(* The counters and the saves                                              *)

\* Nothing, or one incident
Counting == UNCHANGED vaultCount \/ \E e \in Incidents : Happens(e)

LEMMA CountingTypes ==
    ASSUME vaultCount \in Counts, Counting
    PROVE  vaultCount' \in Counts /\ vaultCount'.raced = vaultCount.raced
  <1>1. CASE UNCHANGED vaultCount
    BY <1>1
  <1>2. ASSUME NEW e \in Incidents, Happens(e)
        PROVE  vaultCount' \in Counts /\ vaultCount'.raced = vaultCount.raced
    <2>1. vaultCount' = [vaultCount EXCEPT !.incidents = vaultCount.incidents \cup {e}]
      BY <1>2 DEF Happens
    <2>2. vaultCount.incidents \cup {e} \in SUBSET Incidents
      BY <1>2 DEF Counts
    <2> QED  BY <2>1, <2>2 DEF Counts
  <1> QED  BY <1>1, <1>2 DEF Counting

LEMMA StepSave ==
    ASSUME SavesTyped, NEW s \in Slots, NEW pc \in Phases, Step(s, pc)
    PROVE  /\ SavesTyped' /\ saves'[s].pc = pc /\ saves'[s].key = saves[s].key
           /\ \A t \in Slots \ {s} : saves'[t] = saves[t]
  <1>1. PICK D, F, C, L : saves \in [Slots -> SaveOf(D, F, C, L)]
    BY DEF SavesTyped
  <1>2. saves' = [saves EXCEPT ![s] = [saves[s] EXCEPT !.pc = pc]]
    BY DEF Step
  <1>3. saves[s] \in SaveOf(D, F, C, L)
    BY <1>1
  <1>4. [saves[s] EXCEPT !.pc = pc] \in SaveOf(D, F, C, L)
    BY <1>3 DEF SaveOf
  <1>5. [saves[s] EXCEPT !.pc = pc].pc = pc /\ [saves[s] EXCEPT !.pc = pc].key = saves[s].key
    BY <1>3 DEF SaveOf
  <1>6. saves' \in [Slots -> SaveOf(D, F, C, L)]
    BY <1>1, <1>2, <1>4
  <1>7. saves'[s] = [saves[s] EXCEPT !.pc = pc] /\ \A t \in Slots \ {s} : saves'[t] = saves[t]
    BY <1>1, <1>2
  <1> QED  BY <1>5, <1>6, <1>7, Zenon DEF SavesTyped

\* A save that is replaced: by a new one, or by none
LEMMA NewSave ==
    ASSUME SavesTyped, NEW s \in Slots, NEW new, NEW D, NEW F, NEW C, NEW L, new \in SaveOf(D, F, C, L),
           saves' = [saves EXCEPT ![s] = new]
    PROVE  SavesTyped' /\ saves'[s] = new /\ \A t \in Slots \ {s} : saves'[t] = saves[t]
  <1>1. PICK D0, F0, C0, L0 : saves \in [Slots -> SaveOf(D0, F0, C0, L0)]
    BY DEF SavesTyped
  <1> DEFINE Both == SaveOf(D0 \cup D, F0 \cup F, C0 \cup C, L0 \cup L)
  <1>2. SaveOf(D0, F0, C0, L0) \subseteq Both /\ new \in Both
    BY DEF SaveOf
  <1>3. saves' \in [Slots -> Both]
    <2> HIDE DEF Both
    <2> QED  BY <1>1, <1>2
  <1>4. saves'[s] = new /\ \A t \in Slots \ {s} : saves'[t] = saves[t]
    BY <1>1
  <1> QED  BY <1>3, <1>4, Zenon DEF SavesTyped

LEMMA IdleIsTyped == IdleSave \in SaveOf({None}, {EmptyForm}, {FALSE}, {<<>>}) /\ IdleSave.pc = "idle"
  <1>1. [k \in KeyKinds |-> None] \in [KeyKinds -> Nat] /\ "idle" \in Phases
    BY DEF None, Phases
  <1> QED  BY <1>1 DEF SaveOf, IdleSave

LEMMA EndSave ==
    ASSUME SavesTyped, NEW s \in Slots, saves' = [saves EXCEPT ![s] = IdleSave]
    PROVE  SavesTyped' /\ saves'[s].pc = "idle" /\ \A t \in Slots \ {s} : saves'[t] = saves[t]
  <1>1. SavesTyped' /\ saves'[s] = IdleSave /\ \A t \in Slots \ {s} : saves'[t] = saves[t]
    BY IdleIsTyped, NewSave
  <1> QED  BY <1>1, IdleIsTyped

-----------------------------------------------------------------------------
(* Steps that make no key and encrypt nothing                              *)

\* Every save has the keys that one had before, or none yet.
NoNewKey ==
    \A s \in Slots :
        \/ saves'[s].pc \notin HasMaster
        \/ \E t \in Slots : /\ saves'[s].key = saves[t].key
                            /\ saves[t].pc \in HasMaster
                            /\ saves'[s].pc \in HasSalt => saves[t].pc \in HasSalt

\* Every file is as it was, or gone.
NoNewFile == \A i \in DocIds : docFiles'[i].enc \in {docFiles[i].enc, <<None, None>>}

LEMMA HoldsStays ==
    ASSUME NEW pc, NEW pc2, NEW key, NEW store, HoldsOf(pc, key, store),
           pc2 \in HasMaster => pc \in HasMaster, pc2 \in HasSalt => pc \in HasSalt
    PROVE  HoldsOf(pc2, key, store)
  BY Zenon DEF HoldsOf

LEMMA QuietKeeps ==
    ASSUME KeyInv, UNCHANGED keyStore, docFiles' \in Files, SavesTyped', vaultCount' \in Counts,
           vaultCount'.raced = vaultCount.raced, NoNewKey, NoNewFile
    PROVE  KeyInv'
  <1>1. Types'
    BY DEF KeyInv, Types
  <1>2. ASSUME ~vaultCount.raced PROVE (\A s \in Slots : Holds(s)') /\ (\A i \in DocIds : UnderKeys(i)')
    <2>1. ASSUME NEW s \in Slots PROVE Holds(s)'
      <3>1. HasSalt \subseteq HasMaster
        BY DEF HasSalt, HasMaster
      <3>2. CASE saves'[s].pc \notin HasMaster
        BY <3>1, <3>2, Zenon DEF Holds, HoldsOf
      <3>3. CASE saves'[s].pc \in HasMaster
        <4>1. PICK t \in Slots : /\ saves'[s].key = saves[t].key /\ saves[t].pc \in HasMaster
                                 /\ saves'[s].pc \in HasSalt => saves[t].pc \in HasSalt
          BY <3>3, Zenon DEF NoNewKey
        <4>2. Holds(t)
          BY <1>2 DEF KeyInv, KeysKept
        <4>3. HoldsOf(saves[t].pc, saves[t].key, keyStore)
          BY <4>2, Zenon DEF Holds
        <4>5. HoldsOf(saves'[s].pc, saves[t].key, keyStore)
          BY <4>1, <4>3, Zenon DEF HoldsOf
        <4>4. keyStore' = keyStore
          OBVIOUS
        <4> QED  BY <4>1, <4>5, <4>4 DEF Holds
      <3> QED  BY <3>2, <3>3
    <2>2. ASSUME NEW i \in DocIds PROVE UnderKeys(i)'
      <3>1. UnderKeys(i) /\ docFiles'[i].enc \in {docFiles[i].enc, <<None, None>>}
        BY <1>2 DEF KeyInv, KeysKept, NoNewFile
      <3> QED  BY <3>1 DEF UnderKeys
    <2> QED  BY <2>1, <2>2
  <1> QED  BY <1>1, <1>2 DEF KeyInv, KeysKept

LEMMA SameSaves == UNCHANGED saves /\ SavesTyped => SavesTyped' /\ NoNewKey
  <1> SUFFICES ASSUME UNCHANGED saves, SavesTyped PROVE SavesTyped' /\ NoNewKey
    OBVIOUS
  <1>1. SavesTyped'
    BY DEF SavesTyped
  <1> QED  BY <1>1, Zenon DEF NoNewKey

LEMMA SameFiles == UNCHANGED docFiles /\ docFiles \in Files => docFiles' \in Files /\ NoNewFile
  BY DEF NoNewFile

\* The steps of the screen, its dialogs and the shares
LEMMA FrameKeeps ==
    ASSUME KeyInv, Counting, UNCHANGED <<docFiles, keyStore, saves>>
    PROVE  KeyInv'
  <1>1. vaultCount \in Counts /\ docFiles \in Files /\ SavesTyped
    BY DEF KeyInv, Types
  <1>2. vaultCount' \in Counts /\ vaultCount'.raced = vaultCount.raced
    BY <1>1, CountingTypes
  <1> QED  BY <1>1, <1>2, SameSaves, SameFiles, QuietKeeps

LEMMA ScreenKeeps ==
    ASSUME KeyInv,
           \/ OpenVault \/ LoadDocuments \/ OpenDialog \/ CloseDialog
           \/ \E y \in TypesInPlay : SetSelectedType(y)
           \/ HandleAttachPress \/ ConsentModal \/ ConsentPersisted \/ PickFile \/ ScanPreview
           \/ ToggleMasked \/ FlushList
           \/ \E n \in 1..2 : \/ DecryptToTemp(n) \/ CloseSheet(n) \/ CleanTemp(n)
                               \/ \E i \in DocIds : StartShare(n, i)
           \/ QuarterPasses
    PROVE  KeyInv'
  <1>1. "failed" \in Incidents /\ "overlap" \in Incidents /\ "copyFailed" \in Incidents
    BY DEF Incidents
  <1>2. UNCHANGED <<docFiles, keyStore, saves>>
    BY DEF OpenVault, LoadDocuments, OpenDialog, CloseDialog, SetSelectedType, HandleAttachPress,
           ConsentModal, ConsentPersisted, PickFile, ScanPreview, ToggleMasked, FlushList,
           DecryptToTemp, CloseSheet, CleanTemp, StartShare, QuarterPasses
  <1>3. UNCHANGED vaultCount \/ Happens("failed") \/ Happens("overlap") \/ Happens("copyFailed")
    BY DEF OpenVault, LoadDocuments, OpenDialog, CloseDialog, SetSelectedType, HandleAttachPress,
           ConsentModal, ConsentPersisted, PickFile, ScanPreview, ToggleMasked, FlushList,
           DecryptToTemp, CloseSheet, CleanTemp, StartShare, QuarterPasses, Fails
  <1>4. Counting
    BY <1>1, <1>3 DEF Counting
  <1> QED  BY <1>2, <1>4, FrameKeeps

\* Leaving, restarting, the beginning and the end of a save, and deleting
LEMMA LeaveKeeps ==
    ASSUME KeyInv, LeaveVault
    PROVE  KeyInv'
  <1>1. vaultCount \in Counts /\ docFiles \in Files /\ SavesTyped /\ "left" \in Incidents
    BY DEF KeyInv, Types, Incidents
  <1>2. UNCHANGED <<docFiles, keyStore>>
    BY DEF LeaveVault
  <1>3. CASE saves["front"].pc = "idle"
    <2>1. UNCHANGED <<saves, vaultCount>>
      BY <1>3 DEF LeaveVault
    <2> QED  BY <1>2, <2>1, FrameKeeps DEF Counting
  <1>4. CASE saves["front"].pc # "idle"
    <2>1. /\ saves' = [front |-> IdleSave, left |-> [saves["front"] EXCEPT !.docs = screen.docs]]
          /\ Happens("left")
      BY <1>4 DEF LeaveVault
    <2>2. vaultCount' \in Counts /\ vaultCount'.raced = vaultCount.raced
      BY <1>1, <2>1, CountingTypes DEF Counting
    <2>3. SavesTyped' /\ NoNewKey
      <3>1. PICK D, F, C, L : saves \in [Slots -> SaveOf(D, F, C, L)]
        BY <1>1 DEF SavesTyped
      <3> DEFINE left == [saves["front"] EXCEPT !.docs = screen.docs]
      <3>2. "front" \in Slots /\ "left" \in Slots /\ \A t \in Slots : t = "front" \/ t = "left"
        BY DEF Slots
      <3>3. saves["front"] \in SaveOf(D, F, C, L)
        BY <3>1, <3>2
      <3>4. left \in SaveOf(D, F, C, L \cup {screen.docs}) /\ left.pc = saves["front"].pc /\ left.key = saves["front"].key
        BY <3>3 DEF SaveOf
      <3>5. IdleSave \in SaveOf({None}, {EmptyForm}, {FALSE}, {<<>>}) /\ IdleSave.pc = "idle"
        BY IdleIsTyped
      <3> DEFINE Both == SaveOf(D \cup {None}, F \cup {EmptyForm}, C \cup {FALSE}, L \cup {screen.docs} \cup {<<>>})
      <3>6. left \in Both /\ IdleSave \in Both
        BY <3>4, <3>5 DEF SaveOf
      <3>7. saves' = [front |-> IdleSave, left |-> left]
        BY <2>1
      <3> HIDE DEF Both, left
      <3>8. saves'["front"] = IdleSave /\ saves'["left"] = left
        BY <3>7
      <3>9. saves' \in [Slots -> Both]
        <4>1. saves' = [s \in {"front", "left"} |-> IF s = "front" THEN IdleSave ELSE left]
          BY <3>7
        <4> QED  BY <3>6, <4>1 DEF Slots
      <3>10. SavesTyped'
        BY <3>9, Zenon DEF SavesTyped, Both
      <3>11. NoNewKey
        BY <3>2, <3>4, <3>5, <3>8 DEF NoNewKey, HasMaster
      <3> QED  BY <3>10, <3>11
    <2> QED  BY <1>1, <1>2, <2>2, <2>3, SameFiles, QuietKeeps
  <1> QED  BY <1>3, <1>4

LEMMA RestartKeeps ==
    ASSUME KeyInv, RestartApp
    PROVE  KeyInv'
  <1>1. vaultCount \in Counts /\ docFiles \in Files /\ SavesTyped /\ "killed" \in Incidents
    BY DEF KeyInv, Types, Incidents
  <1>2. /\ UNCHANGED <<docFiles, keyStore>> /\ Happens("killed")
        /\ saves' = [s \in Slots |-> IdleSave]
    BY DEF RestartApp
  <1>3. vaultCount' \in Counts /\ vaultCount'.raced = vaultCount.raced
    BY <1>1, <1>2, CountingTypes DEF Counting
  <1>4. IdleSave \in SaveOf({None}, {EmptyForm}, {FALSE}, {<<>>}) /\ IdleSave.pc = "idle"
    BY IdleIsTyped
  <1>5. saves' \in [Slots -> SaveOf({None}, {EmptyForm}, {FALSE}, {<<>>})] /\ \A s \in Slots : saves'[s].pc = "idle"
    BY <1>2, <1>4
  <1>6. SavesTyped'
    BY <1>5, Zenon DEF SavesTyped
  <1>7. NoNewKey
    BY <1>5 DEF NoNewKey, HasMaster
  <1> QED  BY <1>1, <1>2, <1>3, <1>6, <1>7, SameFiles, QuietKeeps

\* A save that goes on without a new key, or ends
LEMMA GoingOn ==
    ASSUME SavesTyped, NEW s \in Slots, NEW pc \in Phases, Step(s, pc),
           pc \in HasMaster => saves[s].pc \in HasMaster, pc \in HasSalt => saves[s].pc \in HasSalt
    PROVE  SavesTyped' /\ NoNewKey
  <1>1. /\ SavesTyped' /\ saves'[s].pc = pc /\ saves'[s].key = saves[s].key
        /\ \A t \in Slots \ {s} : saves'[t] = saves[t]
    BY StepSave
  <1>2. \A t \in Slots : \/ saves'[t].pc \notin HasMaster
                         \/ /\ saves'[t].key = saves[t].key /\ saves[t].pc \in HasMaster
                            /\ saves'[t].pc \in HasSalt => saves[t].pc \in HasSalt
    BY <1>1
  <1> QED  BY <1>1, <1>2, Zenon DEF NoNewKey

LEMMA Ending ==
    ASSUME SavesTyped, NEW s \in Slots, saves' = [saves EXCEPT ![s] = IdleSave]
    PROVE  SavesTyped' /\ NoNewKey
  <1>1. SavesTyped' /\ saves'[s].pc = "idle" /\ \A t \in Slots \ {s} : saves'[t] = saves[t]
    BY EndSave
  <1>2. \A t \in Slots : saves'[t].pc \notin HasMaster \/ saves'[t] = saves[t]
    BY <1>1 DEF HasMaster
  <1> QED  BY <1>1, <1>2, Zenon DEF NoNewKey

LEMMA RemovingKeeps ==
    ASSUME KeyInv, NEW s \in Slots, Counting, UNCHANGED keyStore,
           docFiles' \in Files /\ NoNewFile,
           saves' = [saves EXCEPT ![s] = IdleSave]
    PROVE  KeyInv'
  <1>1. vaultCount \in Counts /\ SavesTyped
    BY DEF KeyInv, Types
  <1>2. vaultCount' \in Counts /\ vaultCount'.raced = vaultCount.raced
    BY <1>1, CountingTypes
  <1> QED  BY <1>1, <1>2, Ending, QuietKeeps

\* A document without its plain file, or with one
LEMMA PlainFile ==
    ASSUME docFiles \in Files, NEW i, NEW b \in BOOLEAN, docFiles' = [docFiles EXCEPT ![i].plain = b]
    PROVE  docFiles' \in Files /\ NoNewFile
  <1>1. \A j \in DocIds : docFiles[j] \in [plain: BOOLEAN, enc: Nat \X Nat]
    BY DEF Files
  <1>2. ASSUME NEW j \in DocIds
        PROVE  /\ [docFiles[j] EXCEPT !.plain = b] \in [plain: BOOLEAN, enc: Nat \X Nat]
               /\ [docFiles[j] EXCEPT !.plain = b].enc = docFiles[j].enc
    BY <1>1
  <1>3. docFiles' \in Files
    BY <1>2 DEF Files
  <1>4. \A j \in DocIds : docFiles'[j].enc = docFiles[j].enc
    BY <1>2 DEF Files
  <1> QED  BY <1>3, <1>4, Zenon DEF NoNewFile

\* A document with another encrypted file
LEMMA EncFile ==
    ASSUME docFiles \in Files, NEW i, NEW e \in Nat \X Nat, docFiles' = [docFiles EXCEPT ![i].enc = e]
    PROVE  docFiles' \in Files /\ \A j \in DocIds : docFiles'[j].enc \in {docFiles[j].enc, e}
  <1>1. \A j \in DocIds : docFiles[j] \in [plain: BOOLEAN, enc: Nat \X Nat]
    BY DEF Files
  <1>2. ASSUME NEW j \in DocIds
        PROVE  /\ [docFiles[j] EXCEPT !.enc = e] \in [plain: BOOLEAN, enc: Nat \X Nat]
               /\ [docFiles[j] EXCEPT !.enc = e].enc = e
    BY <1>1
  <1>3. docFiles' \in Files
    BY <1>2 DEF Files
  <1>4. \A j \in DocIds : docFiles'[j].enc \in {docFiles[j].enc, e}
    BY <1>2 DEF Files
  <1> QED  BY <1>3, <1>4

LEMMA CopyKeeps ==
    ASSUME KeyInv, NEW s \in Slots, CopyFile(s)
    PROVE  KeyInv'
  <1>1. /\ vaultCount \in Counts /\ docFiles \in Files /\ SavesTyped
        /\ UNCHANGED keyStore /\ "failed" \in Incidents /\ "master" \in Phases
    BY DEF KeyInv, Types, CopyFile, Incidents, Phases
  <1>2. CASE /\ docFiles' = [docFiles EXCEPT ![saves[s].doc].plain = TRUE]
             /\ Step(s, "master") /\ UNCHANGED vaultCount
    <2>1. docFiles' \in Files /\ NoNewFile
      BY <1>1, <1>2, PlainFile
    <2>2. SavesTyped' /\ NoNewKey
      BY <1>1, <1>2, GoingOn DEF HasMaster, HasSalt
    <2> QED  BY <1>1, <1>2, <2>1, <2>2, QuietKeeps
  <1>3. CASE saves' = [saves EXCEPT ![s] = IdleSave] /\ UNCHANGED docFiles /\ Fails
    <2>1. Counting
      BY <1>1, <1>3 DEF Counting, Fails
    <2> QED  BY <1>1, <1>3, <2>1, SameFiles, RemovingKeeps
  <1> QED  BY <1>2, <1>3 DEF CopyFile

LEMMA AddKeeps ==
    ASSUME KeyInv, NEW s \in Slots, UnlinkAndAdd(s) \/ FallBackToPlain(s)
    PROVE  KeyInv'
  <1>1. docFiles \in Files /\ "failed" \in Incidents
    BY DEF KeyInv, Types, Incidents
  <1>2. saves' = [saves EXCEPT ![s] = IdleSave] /\ UNCHANGED keyStore
    BY DEF UnlinkAndAdd, FallBackToPlain, Added
  <1>3. CASE UnlinkAndAdd(s)
    <2>1. docFiles' = [docFiles EXCEPT ![saves[s].doc].plain = FALSE] /\ Counting
      BY <1>3 DEF UnlinkAndAdd, Counting
    <2>2. docFiles' \in Files /\ NoNewFile
      BY <1>1, <2>1, PlainFile
    <2> QED  BY <1>2, <2>1, <2>2, RemovingKeeps
  <1>4. CASE FallBackToPlain(s)
    <2>1. UNCHANGED docFiles /\ Counting
      BY <1>1, <1>4 DEF FallBackToPlain, Counting, Fails
    <2> QED  BY <1>1, <1>2, <2>1, SameFiles, RemovingKeeps
  <1> QED  BY <1>3, <1>4

LEMMA DeleteKeeps ==
    ASSUME KeyInv, NEW n \in DocIds, HandleDelete(n)
    PROVE  KeyInv'
  <1>1. vaultCount \in Counts /\ docFiles \in Files /\ SavesTyped /\ "failed" \in Incidents
    BY DEF KeyInv, Types, Incidents
  <1>2. UNCHANGED <<keyStore, saves>> /\ Counting
    BY <1>1 DEF HandleDelete, Counting, Fails
  <1>3. vaultCount' \in Counts /\ vaultCount'.raced = vaultCount.raced
    BY <1>1, <1>2, CountingTypes
  <1> DEFINE d == screen.docs[n]
  <1>4. \/ docFiles' = [docFiles EXCEPT ![d.id].enc = <<None, None>>]
        \/ docFiles' = [docFiles EXCEPT ![d.id].plain = FALSE]
        \/ UNCHANGED docFiles
    BY Zenon DEF HandleDelete
  <1> HIDE DEF d
  <1>5. docFiles' \in Files /\ NoNewFile
    <2>1. CASE docFiles' = [docFiles EXCEPT ![d.id].enc = <<None, None>>]
      <3>1. <<None, None>> \in Nat \X Nat
        BY DEF None
      <3> QED  BY <1>1, <2>1, <3>1, EncFile DEF NoNewFile
    <2>2. CASE docFiles' = [docFiles EXCEPT ![d.id].plain = FALSE]
      BY <1>1, <2>2, PlainFile
    <2>3. CASE UNCHANGED docFiles
      BY <1>1, <2>3, SameFiles
    <2> QED  BY <1>4, <2>1, <2>2, <2>3
  <1> QED  BY <1>1, <1>2, <1>3, <1>5, SameSaves, QuietKeeps

-----------------------------------------------------------------------------
(* The steps that find a key, make one, and encrypt                        *)

LEMMA KeySave ==
    ASSUME SavesTyped, NEW s \in Slots, NEW k \in KeyKinds, NEW key \in Nat, NEW pc \in Phases,
           saves' = [saves EXCEPT ![s].key[k] = key, ![s].pc = pc]
    PROVE  /\ SavesTyped' /\ saves'[s].pc = pc /\ saves'[s].key = [saves[s].key EXCEPT ![k] = key]
           /\ saves[s].key \in [KeyKinds -> Nat]
           /\ \A t \in Slots \ {s} : saves'[t] = saves[t]
  <1>1. PICK D, F, C, L : saves \in [Slots -> SaveOf(D, F, C, L)]
    BY DEF SavesTyped
  <1>2. saves[s] \in SaveOf(D, F, C, L)
    BY <1>1
  <1> DEFINE new == [saves[s] EXCEPT !.key[k] = key, !.pc = pc]
  <1>3. /\ new \in SaveOf(D, F, C, L) /\ new.pc = pc /\ new.key = [saves[s].key EXCEPT ![k] = key]
        /\ saves[s].key \in [KeyKinds -> Nat]
    BY <1>2 DEF SaveOf
  <1>4. saves' = [saves EXCEPT ![s] = new]
    BY <1>1, <1>2
  <1> HIDE DEF new
  <1>5. SavesTyped' /\ saves'[s] = new /\ \A t \in Slots \ {s} : saves'[t] = saves[t]
    BY <1>3, <1>4, NewSave
  <1> QED  BY <1>3, <1>5

LEMMA ReadKeeps ==
    ASSUME KeyInv, NEW s \in Slots, NEW k \in KeyKinds, ReadKey(s, k)
    PROVE  KeyInv'
  <1> DEFINE pc == IF keyStore[k] = None THEN (IF k = "master" THEN "newMaster" ELSE "newSalt")
                   ELSE (IF k = "master" THEN "salt" ELSE "encrypt")
             old == saves[s].key
             key == keyStore[k]
             new == [old EXCEPT ![k] = key]
  <1>1. Types /\ UNCHANGED <<keyStore, docFiles, vaultCount>> /\ key \in Nat /\ pc \in Phases
        /\ saves[s].pc = k
    BY DEF KeyInv, Types, ReadKey, Phases
  <1>2. saves' = [saves EXCEPT ![s].key[k] = key, ![s].pc = pc]
    BY DEF ReadKey
  <1> HIDE DEF pc, key
  <1>3. /\ SavesTyped' /\ saves'[s].pc = pc /\ saves'[s].key = new
        /\ old \in [KeyKinds -> Nat] /\ \A t \in Slots \ {s} : saves'[t] = saves[t]
    <2>1. SavesTyped /\ key \in Nat /\ pc \in Phases
      BY <1>1 DEF Types
    <2> QED  BY <1>2, <2>1, KeySave
  <1>4. Types'
    BY <1>1, <1>3 DEF Types
  <1>5. ASSUME ~vaultCount.raced PROVE (\A t \in Slots : Holds(t)') /\ (\A i \in DocIds : UnderKeys(i)')
    <2>1. HoldsOf(saves[s].pc, old, keyStore) /\ \A t \in Slots : HoldsOf(saves[t].pc, saves[t].key, keyStore)
      BY <1>5 DEF KeyInv, KeysKept, Holds
    <2>2. HoldsOf(pc, new, keyStore)
      <3>1. CASE k = "master"
        BY <1>3, <3>1 DEF HoldsOf, HasMaster, HasSalt, pc, key, KeyKinds
      <3>2. CASE k = "salt"
        BY <1>1, <1>3, <2>1, <3>2 DEF HoldsOf, HasMaster, HasSalt, pc, key, KeyKinds
      <3> QED  BY <3>1, <3>2 DEF KeyKinds
    <2>3. ASSUME NEW t \in Slots PROVE Holds(t)'
      <3>1. CASE t = s
        BY <1>1, <1>3, <2>2, <3>1 DEF Holds
      <3>2. CASE t # s
        BY <1>1, <1>3, <2>1, <3>2 DEF Holds
      <3> QED  BY <3>1, <3>2
    <2>4. ASSUME NEW i \in DocIds PROVE UnderKeys(i)'
      BY <1>1, <1>5 DEF KeyInv, KeysKept, UnderKeys
    <2> QED  BY <2>3, <2>4
  <1>6. KeysKept'
    BY <1>1, <1>5 DEF KeysKept
  <1> QED  BY <1>4, <1>6 DEF KeyInv

\* A new key replaces none: then no save holds that key, and there is no file.
LEMMA WriteKeeps ==
    ASSUME KeyInv, NEW s \in Slots, NEW k \in KeyKinds, WriteKey(s, k)
    PROVE  KeyInv'
  <1> DEFINE key == vaultCount.keys + 1
             pc == IF k = "master" THEN "salt" ELSE "encrypt"
             old == saves[s].key
             new == [old EXCEPT ![k] = key]
             store == [keyStore EXCEPT ![k] = key]
  <1>1. Types /\ UNCHANGED docFiles /\ pc \in Phases
        /\ saves[s].pc = IF k = "master" THEN "newMaster" ELSE "newSalt"
    BY DEF KeyInv, WriteKey, Phases
  <1>2. /\ saves' = [saves EXCEPT ![s].key[k] = key, ![s].pc = pc] /\ keyStore' = store
        /\ vaultCount' = [vaultCount EXCEPT !.keys = key, !.raced = vaultCount.raced \/ keyStore[k] # None]
    BY DEF WriteKey
  <1>3. key \in Nat /\ key # None
    BY <1>1 DEF Types, Counts, None
  <1>4. vaultCount' \in Counts /\ (~vaultCount'.raced => ~vaultCount.raced /\ keyStore[k] = None)
    <2>1. vaultCount.raced \in BOOLEAN /\ vaultCount \in Counts
      BY <1>1 DEF Types, Counts
    <2>2. (vaultCount.raced \/ keyStore[k] # None) \in BOOLEAN
      OBVIOUS
    <2> QED  BY <1>2, <1>3, <2>1, <2>2 DEF Counts
  <1> HIDE DEF pc, key
  <1>5. /\ SavesTyped' /\ saves'[s].pc = pc /\ saves'[s].key = new
        /\ old \in [KeyKinds -> Nat] /\ \A t \in Slots \ {s} : saves'[t] = saves[t]
    BY <1>1, <1>2, <1>3, KeySave DEF Types
  <1>6. keyStore \in [KeyKinds -> Nat] /\ store \in [KeyKinds -> Nat]
    BY <1>1, <1>3 DEF Types
  <1>7. Types'
    BY <1>1, <1>2, <1>4, <1>5, <1>6 DEF Types
  <1>8. ASSUME ~vaultCount.raced, keyStore[k] = None
        PROVE (\A t \in Slots : Holds(t)') /\ (\A i \in DocIds : UnderKeys(i)')
    <2>1. HoldsOf(saves[s].pc, old, keyStore) /\ \A t \in Slots : HoldsOf(saves[t].pc, saves[t].key, keyStore)
      BY <1>8 DEF KeyInv, KeysKept, Holds
    <2>2. HoldsOf(pc, new, store)
      <3>1. CASE k = "master"
        BY <1>3, <1>5, <1>6, <3>1 DEF HoldsOf, HasMaster, HasSalt, pc, KeyKinds
      <3>2. CASE k = "salt"
        BY <1>1, <1>3, <1>5, <1>6, <2>1, <3>2 DEF HoldsOf, HasMaster, HasSalt, pc, KeyKinds
      <3> QED  BY <3>1, <3>2 DEF KeyKinds
    <2>3. ASSUME NEW t \in Slots PROVE HoldsOf(saves[t].pc, saves[t].key, store)
      <3>1. HoldsOf(saves[t].pc, saves[t].key, keyStore)
        BY <2>1
      <3>2. CASE k = "master"
        BY <1>6, <1>8, <3>1, <3>2 DEF HoldsOf, HasMaster, HasSalt, KeyKinds
      <3>3. CASE k = "salt"
        BY <1>6, <1>8, <3>1, <3>3 DEF HoldsOf, HasMaster, HasSalt, KeyKinds
      <3> QED  BY <3>2, <3>3 DEF KeyKinds
    <2>4. ASSUME NEW t \in Slots PROVE Holds(t)'
      <3>1. CASE t = s
        BY <1>2, <1>5, <2>2, <3>1 DEF Holds
      <3>2. CASE t # s
        BY <1>2, <1>5, <2>3, <3>2 DEF Holds
      <3> QED  BY <3>1, <3>2
    <2>5. ASSUME NEW i \in DocIds PROVE UnderKeys(i)'
      <3>1. UnderKeys(i)
        BY <1>8 DEF KeyInv, KeysKept
      <3>2. docFiles[i].enc = <<None, None>>
        BY <1>8, <3>1 DEF UnderKeys, KeyKinds
      <3> QED  BY <1>1, <3>2 DEF UnderKeys
    <2> QED  BY <2>4, <2>5
  <1>9. KeysKept'
    BY <1>4, <1>8 DEF KeysKept
  <1> QED  BY <1>7, <1>9 DEF KeyInv

LEMMA EncryptKeeps ==
    ASSUME KeyInv, NEW s \in Slots, EncryptFile(s)
    PROVE  KeyInv'
  <1> DEFINE e == <<saves[s].key["master"], saves[s].key["salt"]>>
  <1>1. Types /\ UNCHANGED <<keyStore, vaultCount>> /\ Step(s, "unlink") /\ "unlink" \in Phases
        /\ saves[s].pc = "encrypt"
    BY DEF KeyInv, EncryptFile, Phases
  <1>2. SavesTyped /\ docFiles \in Files
    BY <1>1 DEF Types
  <1>3. docFiles' = [docFiles EXCEPT ![saves[s].doc].enc = e]
    BY DEF EncryptFile
  <1>4. e \in Nat \X Nat
    <2>1. PICK D, F, C, L : saves \in [Slots -> SaveOf(D, F, C, L)]
      BY <1>2 DEF SavesTyped
    <2>2. saves[s].key \in [KeyKinds -> Nat]
      BY <2>1 DEF SaveOf
    <2> QED  BY <2>2 DEF KeyKinds
  <1> HIDE DEF e
  <1>5. docFiles' \in Files /\ \A j \in DocIds : docFiles'[j].enc \in {docFiles[j].enc, e}
    BY <1>2, <1>3, <1>4, EncFile
  <1>6. /\ SavesTyped' /\ saves'[s].pc = "unlink" /\ saves'[s].key = saves[s].key
        /\ \A t \in Slots \ {s} : saves'[t] = saves[t]
    BY <1>1, <1>2, StepSave
  <1>7. Types'
    BY <1>1, <1>5, <1>6 DEF Types
  <1>8. ASSUME ~vaultCount.raced PROVE (\A t \in Slots : Holds(t)') /\ (\A i \in DocIds : UnderKeys(i)')
    <2>1. \A t \in Slots : HoldsOf(saves[t].pc, saves[t].key, keyStore)
      BY <1>8 DEF KeyInv, KeysKept, Holds
    <2>2. HoldsOf(saves[s].pc, saves[s].key, keyStore)
      BY <2>1
    <2>3. HoldsOf("unlink", saves[s].key, keyStore)
      BY <1>1, <2>2 DEF HoldsOf, HasMaster, HasSalt
    <2>4. ASSUME NEW t \in Slots PROVE Holds(t)'
      <3>1. CASE t = s
        BY <1>1, <1>6, <2>3, <3>1 DEF Holds
      <3>2. CASE t # s
        BY <1>1, <1>6, <2>1, <3>2 DEF Holds
      <3> QED  BY <3>1, <3>2
    <2>5. e = <<keyStore["master"], keyStore["salt"]>> /\ keyStore["master"] # None /\ keyStore["salt"] # None
      BY <1>1, <2>2 DEF e, HoldsOf, HasMaster, HasSalt
    <2>6. ASSUME NEW i \in DocIds PROVE UnderKeys(i)'
      <3>1. UnderKeys(i)
        BY <1>8 DEF KeyInv, KeysKept
      <3>2. CASE docFiles'[i].enc = docFiles[i].enc
        BY <1>1, <3>1, <3>2 DEF UnderKeys
      <3>3. CASE docFiles'[i].enc = e
        BY <1>1, <2>5, <3>3 DEF UnderKeys
      <3> QED  BY <1>5, <3>2, <3>3
    <2> QED  BY <2>4, <2>6
  <1>9. KeysKept'
    BY <1>1, <1>8 DEF KeysKept
  <1> QED  BY <1>7, <1>9 DEF KeyInv

\* A save begins with nothing, or is over at once.
LEMMA BeginKeeps ==
    ASSUME KeyInv, HandleSave
    PROVE  KeyInv'
  <1> DEFINE v == [IdleSave EXCEPT !.pc = "copy", !.doc = vaultCount.docs + 1,
                                   !.form = form, !.consented = consent.agreed]
  <1>1. /\ vaultCount \in Counts /\ docFiles \in Files /\ SavesTyped /\ "front" \in Slots
        /\ UNCHANGED <<docFiles, keyStore>> /\ "copy" \in Phases
    BY DEF KeyInv, Types, HandleSave, Slots, Phases
  <1>2. vaultCount' = [vaultCount EXCEPT !.docs = vaultCount.docs + 1]
    BY DEF HandleSave
  <1>3. vaultCount' \in Counts /\ vaultCount'.raced = vaultCount.raced
    BY <1>1, <1>2 DEF Counts
  <1>4. saves' = [saves EXCEPT !["front"] = v] \/ saves' = [saves EXCEPT !["front"] = IdleSave]
    BY DEF HandleSave, Added
  <1>5. v \in SaveOf({vaultCount.docs + 1}, {form}, {consent.agreed}, {<<>>}) /\ v.pc = "copy"
    <2>1. IdleSave \in SaveOf({None}, {EmptyForm}, {FALSE}, {<<>>})
      BY IdleIsTyped
    <2> QED  BY <1>1, <2>1 DEF SaveOf
  <1>6. CASE saves' = [saves EXCEPT !["front"] = v]
    <2> HIDE DEF v
    <2>1. SavesTyped' /\ saves'["front"] = v /\ \A t \in Slots \ {"front"} : saves'[t] = saves[t]
      BY <1>1, <1>5, <1>6, NewSave
    <2>2. \A t \in Slots : saves'[t].pc \notin HasMaster \/ saves'[t] = saves[t]
      BY <1>5, <2>1 DEF HasMaster
    <2>3. NoNewKey
      BY <2>2, Zenon DEF NoNewKey
    <2> QED  BY <1>1, <1>3, <2>1, <2>3, SameFiles, QuietKeeps
  <1>7. CASE saves' = [saves EXCEPT !["front"] = IdleSave]
    BY <1>1, <1>3, <1>7, Ending, SameFiles, QuietKeeps
  <1> QED  BY <1>4, <1>6, <1>7

-----------------------------------------------------------------------------
(* The invariant and the theorem                                           *)

LEMMA KeyInit == VaultInit => KeyInv
  <1> SUFFICES ASSUME VaultInit PROVE KeyInv
    OBVIOUS
  <1>1. /\ docFiles = [i \in DocIds |-> [plain |-> FALSE, enc |-> <<None, None>>]]
        /\ keyStore = [k \in KeyKinds |-> None]
        /\ saves = [s \in Slots |-> IdleSave]
        /\ vaultCount = [docs |-> 0, keys |-> 0, incidents |-> {}, raced |-> FALSE]
    BY DEF VaultInit
  <1>2. vaultCount \in Counts
    BY <1>1 DEF Counts
  <1>3. docFiles \in Files /\ \A i \in DocIds : docFiles[i].enc = <<None, None>>
    BY <1>1 DEF Files, None
  <1>4. keyStore \in [KeyKinds -> Nat]
    BY <1>1 DEF None
  <1>5. saves \in [Slots -> SaveOf({None}, {EmptyForm}, {FALSE}, {<<>>})] /\ \A s \in Slots : saves[s].pc = "idle"
    BY <1>1, IdleIsTyped
  <1>6. SavesTyped
    BY <1>5, Zenon DEF SavesTyped
  <1>7. \A s \in Slots : Holds(s)
    BY <1>5 DEF Holds, HoldsOf, HasMaster, HasSalt
  <1>8. \A i \in DocIds : UnderKeys(i)
    BY <1>3, Zenon DEF UnderKeys
  <1> QED  BY <1>2, <1>3, <1>4, <1>6, <1>7, <1>8 DEF KeyInv, Types, KeysKept

LEMMA KeyStep == KeyInv /\ [VaultNext]_vaultVars => KeyInv'
  <1> SUFFICES ASSUME KeyInv, [VaultNext]_vaultVars PROVE KeyInv'
    OBVIOUS
  <1>1. CASE UNCHANGED vaultVars
    BY <1>1, FrameKeeps DEF vaultVars, Counting
  <1>2. ASSUME NEW s \in Slots,
               \/ CopyFile(s) \/ EncryptFile(s) \/ UnlinkAndAdd(s) \/ FallBackToPlain(s)
               \/ \E k \in KeyKinds : ReadKey(s, k) \/ WriteKey(s, k)
        PROVE  KeyInv'
    BY <1>2, CopyKeeps, EncryptKeeps, AddKeeps, ReadKeeps, WriteKeeps
  <1>3. ASSUME NEW n \in DocIds, HandleDelete(n) PROVE KeyInv'
    BY <1>3, DeleteKeeps
  <1>4. CASE LeaveVault \/ HandleSave \/ RestartApp
    BY <1>4, LeaveKeeps, BeginKeeps, RestartKeeps
  <1>5. CASE \/ OpenVault \/ LoadDocuments \/ OpenDialog \/ CloseDialog
             \/ \E y \in TypesInPlay : SetSelectedType(y)
             \/ HandleAttachPress \/ ConsentModal \/ ConsentPersisted \/ PickFile \/ ScanPreview
             \/ ToggleMasked \/ FlushList
             \/ \E n \in 1..2 : \/ DecryptToTemp(n) \/ CloseSheet(n) \/ CleanTemp(n)
                                 \/ \E i \in DocIds : StartShare(n, i)
             \/ QuarterPasses
    BY <1>5, ScreenKeeps
  <1> QED  BY <1>1, <1>2, <1>3, <1>4, <1>5, Zenon DEF VaultNext

\* Every encrypted file is under the two stored keys, as long as no key replaces one
\* (getOrCreateMasterKey, getOrCreateSalt, encryptFile): whatever fails, whenever the
\* screen is left or the app is killed, for any number of documents.
THEOREM FilesStayReadable == VaultSpec => []FilesUnderStoredKeys
  <1>1. VaultInit => KeyInv
    BY KeyInit
  <1>2. KeyInv /\ [VaultNext]_vaultVars => KeyInv'
    BY KeyStep
  <1>3. KeyInv => FilesUnderStoredKeys
    BY Zenon DEF KeyInv, KeysKept, UnderKeys, FilesUnderStoredKeys
  <1> QED  BY <1>1, <1>2, <1>3, PTL DEF VaultSpec

-----------------------------------------------------------------------------
(* Decrypted copies                                                        *)

SharePhases == {"idle", "decrypt", "sheet", "clean"}
\* A share that runs is of a document.
Shared ==
    /\ shares \in [1..2 -> [pc: SharePhases, id: DocIds \cup {None}]]
    /\ \A n \in 1..2 : shares[n].pc # "idle" => shares[n].id \in DocIds

\* A copy belongs to a share that will still delete it, or was left behind.
CleanedUp ==
    \A i \in docTemp.copies \ docTemp.stray :
        \E n \in 1..2 : shares[n].id = i /\ shares[n].pc \in {"sheet", "clean"}

Copied == docTemp \in [copies: SUBSET DocIds, stray: SUBSET DocIds]

LEMMA IncidentsStay == KeyInv /\ [VaultNext]_vaultVars => vaultCount.incidents \subseteq vaultCount'.incidents
  <1> SUFFICES ASSUME KeyInv, [VaultNext]_vaultVars
               PROVE  vaultCount.incidents \subseteq vaultCount'.incidents
    OBVIOUS
  <1>1. vaultCount \in Counts
    BY DEF KeyInv, Types
  <1>2. \/ UNCHANGED vaultCount
        \/ \E e : Happens(e)
        \/ vaultCount' = [vaultCount EXCEPT !.docs = vaultCount.docs + 1]
        \/ \E k, r : vaultCount' = [vaultCount EXCEPT !.keys = k, !.raced = r]
    <2>1. CASE UNCHANGED vaultVars
      BY <2>1 DEF vaultVars
    <2>2. ASSUME NEW s \in Slots, NEW k \in KeyKinds, WriteKey(s, k)
          PROVE  \E j, r : vaultCount' = [vaultCount EXCEPT !.keys = j, !.raced = r]
      BY <2>2, Zenon DEF WriteKey
    <2>3. CASE HandleSave
      BY <2>3 DEF HandleSave
    <2>4. ASSUME NEW s \in Slots,
                 \/ CopyFile(s) \/ EncryptFile(s) \/ UnlinkAndAdd(s) \/ FallBackToPlain(s)
                 \/ \E k \in KeyKinds : ReadKey(s, k)
          PROVE  UNCHANGED vaultCount \/ \E e : Happens(e)
      BY <2>4, Zenon DEF CopyFile, EncryptFile, UnlinkAndAdd, FallBackToPlain, ReadKey, Fails
    <2>5. ASSUME NEW n, \/ HandleDelete(n) \/ DecryptToTemp(n) \/ CloseSheet(n) \/ CleanTemp(n)
                        \/ \E i \in DocIds : StartShare(n, i)
          PROVE  UNCHANGED vaultCount \/ \E e : Happens(e)
      BY <2>5, Zenon DEF HandleDelete, DecryptToTemp, CloseSheet, CleanTemp, StartShare, Fails
    <2>6. CASE \/ OpenVault \/ LoadDocuments \/ LeaveVault \/ OpenDialog \/ CloseDialog
               \/ \E y \in TypesInPlay : SetSelectedType(y)
               \/ HandleAttachPress \/ ConsentModal \/ ConsentPersisted \/ PickFile \/ ScanPreview
               \/ ToggleMasked \/ FlushList \/ RestartApp \/ QuarterPasses
      BY <2>6, Zenon DEF OpenVault, LoadDocuments, LeaveVault, OpenDialog, CloseDialog, SetSelectedType,
         HandleAttachPress, ConsentModal, ConsentPersisted, PickFile, ScanPreview, ToggleMasked, FlushList,
         RestartApp, QuarterPasses, Fails
    <2> QED  BY <2>1, <2>2, <2>3, <2>4, <2>5, <2>6, Zenon DEF VaultNext
  <1>3. CASE UNCHANGED vaultCount
    BY <1>3
  <1>4. ASSUME NEW e, Happens(e) PROVE vaultCount.incidents \subseteq vaultCount'.incidents
    BY <1>1, <1>4 DEF Happens, Counts
  <1>5. CASE vaultCount' = [vaultCount EXCEPT !.docs = vaultCount.docs + 1]
    BY <1>1, <1>5 DEF Counts
  <1>6. ASSUME NEW k, NEW r, vaultCount' = [vaultCount EXCEPT !.keys = k, !.raced = r]
        PROVE  vaultCount.incidents \subseteq vaultCount'.incidents
    BY <1>1, <1>6 DEF Counts
  <1> QED  BY <1>2, <1>3, <1>4, <1>5, <1>6

CopyInv == Shared /\ Copied /\ CleanedUp

LEMMA CopyInit == VaultInit => CopyInv
  <1> SUFFICES ASSUME VaultInit PROVE CopyInv
    OBVIOUS
  <1>1. IdleShare \in [pc: SharePhases, id: DocIds \cup {None}] /\ IdleShare.pc = "idle"
    BY DEF IdleShare, SharePhases, None
  <1>2. Shared
    BY <1>1 DEF VaultInit, Shared
  <1>3. Copied /\ CleanedUp
    BY DEF VaultInit, CleanedUp, Copied
  <1> QED  BY <1>2, <1>3 DEF CopyInv

\* Share n goes on; no copy appears but its own, and its own only if it will delete it or
\* leaves it behind.
LEMMA ShareGoesOn ==
    ASSUME CopyInv, NEW n \in 1..2, NEW new \in [pc: SharePhases, id: DocIds \cup {None}],
           new.pc # "idle" => new.id \in DocIds, shares' = [shares EXCEPT ![n] = new], Copied',
           \A i \in docTemp'.copies \ docTemp'.stray :
               \/ i = new.id /\ new.pc \in {"sheet", "clean"}
               \/ /\ i \in docTemp.copies \ docTemp.stray
                  /\ ~(shares[n].pc \in {"sheet", "clean"} /\ shares[n].id = i)
    PROVE  CopyInv'
  <1>1. Shared
    BY DEF CopyInv
  <1>2. shares'[n] = new /\ \A m \in (1..2) \ {n} : shares'[m] = shares[m]
    BY <1>1 DEF Shared
  <1>3. Shared'
    BY <1>1, <1>2 DEF Shared
  <1>4. ASSUME NEW i \in docTemp'.copies \ docTemp'.stray
        PROVE  \E m \in 1..2 : shares'[m].id = i /\ shares'[m].pc \in {"sheet", "clean"}
    <2>1. CASE i = new.id /\ new.pc \in {"sheet", "clean"}
      BY <1>2, <2>1
    <2>2. CASE ~(i = new.id /\ new.pc \in {"sheet", "clean"})
      <3>1. i \in docTemp.copies \ docTemp.stray /\ ~(shares[n].pc \in {"sheet", "clean"} /\ shares[n].id = i)
        BY <1>4, <2>2
      <3>2. PICK m \in 1..2 : shares[m].id = i /\ shares[m].pc \in {"sheet", "clean"}
        BY <3>1 DEF CopyInv, CleanedUp
      <3> QED  BY <1>2, <3>1, <3>2
    <2> QED  BY <2>1, <2>2
  <1> QED  BY <1>3, <1>4 DEF CopyInv, CleanedUp

LEMMA CopyStep == CopyInv /\ [VaultNext]_vaultVars => CopyInv'
  <1> SUFFICES ASSUME CopyInv, [VaultNext]_vaultVars PROVE CopyInv'
    OBVIOUS
  <1> DEFINE Records == [pc: SharePhases, id: DocIds \cup {None}]
  <1>1. /\ \A n \in 1..2 : shares[n] \in Records /\ (shares[n].pc # "idle" => shares[n].id \in DocIds)
        /\ docTemp \in [copies: SUBSET DocIds, stray: SUBSET DocIds]
    BY DEF CopyInv, Shared, Copied
  <1>2. \A n \in 1..2, pc \in SharePhases :
            /\ [shares[n] EXCEPT !.pc = pc] \in Records
            /\ [shares[n] EXCEPT !.pc = pc].pc = pc /\ [shares[n] EXCEPT !.pc = pc].id = shares[n].id
    BY <1>1
  <1>3. \A p \in {"idle", "decrypt", "sheet", "clean"} : p \in SharePhases
    BY DEF SharePhases
  <1>4. IdleShare \in Records /\ IdleShare.pc = "idle"
    BY DEF IdleShare, SharePhases
  <1>5. CASE UNCHANGED <<docTemp, shares>>
    BY <1>5 DEF CopyInv, Shared, Copied, CleanedUp
  <1>6. ASSUME NEW n \in 1..2, NEW i \in DocIds, StartShare(n, i) PROVE CopyInv'
    <2> DEFINE new == [pc |-> "decrypt", id |-> i]
    <2>1. new \in Records /\ new.id = i
      BY <1>3
    <2>2. shares[n].pc = "idle" /\ docTemp' = docTemp /\ shares' = [shares EXCEPT ![n] = new]
      BY <1>6 DEF StartShare
    <2>3. Copied'
      BY <1>1, <2>2 DEF Copied
    <2> HIDE DEF new
    <2> QED  BY <2>1, <2>2, <2>3, ShareGoesOn
  \* A share that only ends, with a copy of its own left behind or none
  <1>7. ASSUME NEW n \in 1..2, shares' = [shares EXCEPT ![n] = IdleShare], Copied',
               \A i \in docTemp'.copies \ docTemp'.stray :
                   /\ i \in docTemp.copies \ docTemp.stray
                   /\ ~(shares[n].pc \in {"sheet", "clean"} /\ shares[n].id = i)
        PROVE  CopyInv'
    BY <1>4, <1>7, ShareGoesOn
  <1>8. ASSUME NEW n \in 1..2, DecryptToTemp(n) PROVE CopyInv'
    <2>1. shares[n].pc = "decrypt" /\ shares[n].id \in DocIds
      BY <1>1, <1>8 DEF DecryptToTemp
    <2>2. CASE docTemp' = docTemp /\ shares' = [shares EXCEPT ![n] = IdleShare]
      BY <1>1, <1>7, <2>1, <2>2 DEF Copied
    <2>3. CASE /\ docTemp' = [copies |-> docTemp.copies \cup {shares[n].id}, stray |-> docTemp.stray \cup {shares[n].id}]
               /\ shares' = [shares EXCEPT ![n] = IdleShare]
      <3>1. Copied'
        BY <1>1, <2>1, <2>3 DEF Copied
      <3>2. docTemp'.copies \ docTemp'.stray \subseteq docTemp.copies \ docTemp.stray
        BY <2>3
      <3> QED  BY <1>7, <2>1, <2>3, <3>1, <3>2
    <2>4. ASSUME NEW pc \in {"sheet", "clean"}, shares' = [shares EXCEPT ![n].pc = pc],
                 docTemp' = [docTemp EXCEPT !.copies = docTemp.copies \cup {shares[n].id}]
          PROVE  CopyInv'
      <3> DEFINE new == [shares[n] EXCEPT !.pc = pc]
      <3>1. new \in Records /\ new.id = shares[n].id /\ new.pc = pc
        BY <1>2, <1>3
      <3>2. shares' = [shares EXCEPT ![n] = new]
        BY <2>4
      <3>3. Copied' /\ docTemp'.copies = docTemp.copies \cup {shares[n].id} /\ docTemp'.stray = docTemp.stray
        BY <1>1, <2>1, <2>4 DEF Copied
      <3> HIDE DEF new
      <3> QED  BY <2>1, <3>1, <3>2, <3>3, ShareGoesOn
    <2> QED  BY <1>8, <2>2, <2>3, <2>4 DEF DecryptToTemp
  <1>9. ASSUME NEW n \in 1..2, CloseSheet(n) PROVE CopyInv'
    <2> DEFINE new == [shares[n] EXCEPT !.pc = "clean"]
    <2>1. new \in Records /\ new.id = shares[n].id /\ new.pc = "clean"
      BY <1>2, <1>3
    <2>2. docTemp' = docTemp /\ shares' = [shares EXCEPT ![n] = new] /\ shares[n].pc = "sheet"
      BY <1>9 DEF CloseSheet
    <2>3. Copied' /\ new.id \in DocIds
      BY <1>1, <2>1, <2>2 DEF Copied
    <2> HIDE DEF new
    <2> QED  BY <2>1, <2>2, <2>3, ShareGoesOn
  <1>10. ASSUME NEW n \in 1..2, CleanTemp(n) PROVE CopyInv'
    <2>1. shares' = [shares EXCEPT ![n] = IdleShare] /\ shares[n].pc = "clean" /\ shares[n].id \in DocIds
      BY <1>1, <1>10 DEF CleanTemp
    <2>2. CASE docTemp' = [copies |-> docTemp.copies \ {shares[n].id}, stray |-> docTemp.stray \ {shares[n].id}]
      <3>1. Copied'
        BY <1>1, <2>2 DEF Copied
      <3>2. \A i \in docTemp'.copies \ docTemp'.stray : i \in docTemp.copies \ docTemp.stray /\ i # shares[n].id
        BY <2>2
      <3> QED  BY <1>7, <2>1, <3>1, <3>2
    <2>3. CASE docTemp' = [docTemp EXCEPT !.stray = docTemp.stray \cup (docTemp.copies \cap {shares[n].id})]
      <3>1. Copied' /\ docTemp'.copies = docTemp.copies
            /\ docTemp'.stray = docTemp.stray \cup (docTemp.copies \cap {shares[n].id})
        BY <1>1, <2>1, <2>3 DEF Copied
      <3>2. \A i \in docTemp'.copies \ docTemp'.stray : i \in docTemp.copies \ docTemp.stray /\ i # shares[n].id
        BY <3>1
      <3> QED  BY <1>7, <2>1, <3>1, <3>2
    <2> QED  BY <1>10, <2>2, <2>3 DEF CleanTemp
  <1>11. CASE RestartApp
    <2>1. shares' = [n \in 1..2 |-> IdleShare] /\ docTemp' = [docTemp EXCEPT !.stray = docTemp.copies]
      BY <1>11 DEF RestartApp
    <2>2. Copied' /\ docTemp'.copies = docTemp'.stray
      BY <1>1, <2>1 DEF Copied
    <2>3. Shared'
      BY <1>4, <2>1 DEF Shared
    <2> QED  BY <2>2, <2>3 DEF CopyInv, CleanedUp
  <1>12. \/ UNCHANGED <<docTemp, shares>> \/ RestartApp
         \/ \E n \in 1..2 : \/ DecryptToTemp(n) \/ CloseSheet(n) \/ CleanTemp(n)
                            \/ \E i \in DocIds : StartShare(n, i)
    <2>1. CASE UNCHANGED vaultVars
      BY <2>1 DEF vaultVars
    <2>2. ASSUME NEW s \in Slots,
                 \/ CopyFile(s) \/ EncryptFile(s) \/ UnlinkAndAdd(s) \/ FallBackToPlain(s)
                 \/ \E k \in KeyKinds : ReadKey(s, k) \/ WriteKey(s, k)
          PROVE  UNCHANGED <<docTemp, shares>>
      BY <2>2 DEF CopyFile, EncryptFile, UnlinkAndAdd, FallBackToPlain, ReadKey, WriteKey
    <2>3. ASSUME NEW n \in DocIds, HandleDelete(n) PROVE UNCHANGED <<docTemp, shares>>
      BY <2>3 DEF HandleDelete
    <2>4. CASE \/ OpenVault \/ LoadDocuments \/ LeaveVault \/ OpenDialog \/ CloseDialog
               \/ \E y \in TypesInPlay : SetSelectedType(y)
               \/ HandleAttachPress \/ ConsentModal \/ ConsentPersisted \/ PickFile \/ ScanPreview
               \/ ToggleMasked \/ HandleSave \/ FlushList \/ QuarterPasses
      BY <2>4 DEF OpenVault, LoadDocuments, LeaveVault, OpenDialog, CloseDialog, SetSelectedType,
         HandleAttachPress, ConsentModal, ConsentPersisted, PickFile, ScanPreview, ToggleMasked,
         HandleSave, FlushList, QuarterPasses
    <2> QED  BY <2>1, <2>2, <2>3, <2>4, Zenon DEF VaultNext
  <1> QED  BY <1>5, <1>6, <1>8, <1>9, <1>10, <1>11, <1>12, Zenon

\* A decrypted copy of a document never outlives the share that made it, however shares
\* of the same or of different documents overlap, unless it is left behind by a call that
\* failed or by the end of the app (decryptFile and the finally block of handleShare).
THEOREM CopiesAreRemoved == VaultSpec => []TempCleared
  <1>1. VaultInit => CopyInv
    BY CopyInit
  <1>2. CopyInv /\ [VaultNext]_vaultVars => CopyInv'
    BY CopyStep
  <1>3. CopyInv => TempCleared
    BY DEF CopyInv, CleanedUp, TempCleared
  <1> QED  BY <1>1, <1>2, <1>3, PTL DEF VaultSpec

-----------------------------------------------------------------------------
(* The lists of documents                                                  *)

\* A document whose registration number is masked, or that has none or no file
MaskedDocs == {d \in Document : d.file # "none" /\ d.type \in RiskyTypes => d.confirmed}

\* A list with one more document in front
LEMMA OneMore ==
    ASSUME NEW S, NEW l \in Seq(S), NEW d \in S
    PROVE  /\ <<d>> \o l \in Seq(S) /\ Len(<<d>> \o l) = Len(l) + 1
           /\ (<<d>> \o l)[1] = d /\ \A n \in 1..Len(l) : (<<d>> \o l)[n + 1] = l[n]
  <1>1. <<d>> \in Seq(S) /\ Len(<<d>>) = 1
    OBVIOUS
  <1>2. /\ <<d>> \o l \in Seq(S) /\ Len(<<d>> \o l) = 1 + Len(l)
        /\ \A i \in 1..(1 + Len(l)) : (<<d>> \o l)[i] = IF i <= 1 THEN <<d>>[i] ELSE l[i - 1]
    BY <1>1, ConcatProperties
  <1>3. Len(l) \in Nat
    OBVIOUS
  <1> QED  BY <1>2, <1>3

\* A list with one document less
LEMMA OneLess ==
    ASSUME NEW S, NEW l \in Seq(S), NEW n \in DOMAIN l
    PROVE  /\ Without(l, n) \in Seq(S) /\ Len(Without(l, n)) = Len(l) - 1
           /\ \A m \in 1..(Len(l) - 1) : Without(l, n)[m] = IF m < n THEN l[m] ELSE l[m + 1]
  <1>1. Len(l) \in Nat /\ n \in 1..Len(l) /\ \A m \in 1..Len(l) : l[m] \in S
    OBVIOUS
  <1>2. /\ SubSeq(l, 1, n - 1) \in Seq(S) /\ Len(SubSeq(l, 1, n - 1)) = n - 1
        /\ \A i \in 1..(n - 1) : SubSeq(l, 1, n - 1)[i] = l[i]
    <2>1. /\ SubSeq(l, 1, n - 1) \in Seq(S)
          /\ Len(SubSeq(l, 1, n - 1)) = IF 1 <= n - 1 THEN n - 1 - 1 + 1 ELSE 0
          /\ \A i \in 1..(n - 1 - 1 + 1) : SubSeq(l, 1, n - 1)[i] = l[1 + i - 1]
      BY <1>1, SubSeqProperties
    <2> QED  BY <1>1, <2>1
  <1>3. /\ SubSeq(l, n + 1, Len(l)) \in Seq(S) /\ Len(SubSeq(l, n + 1, Len(l))) = Len(l) - n
        /\ \A i \in 1..(Len(l) - n) : SubSeq(l, n + 1, Len(l))[i] = l[n + i]
    <2>1. /\ SubSeq(l, n + 1, Len(l)) \in Seq(S)
          /\ Len(SubSeq(l, n + 1, Len(l))) = IF n + 1 <= Len(l) THEN Len(l) - (n + 1) + 1 ELSE 0
          /\ \A i \in 1..(Len(l) - (n + 1) + 1) : SubSeq(l, n + 1, Len(l))[i] = l[(n + 1) + i - 1]
      BY <1>1, SubSeqProperties
    <2> QED  BY <1>1, <2>1
  <1> DEFINE a == SubSeq(l, 1, n - 1)
             b == SubSeq(l, n + 1, Len(l))
  <1>4. Without(l, n) = a \o b
    BY DEF Without
  <1> HIDE DEF a, b
  <1>5. /\ a \o b \in Seq(S) /\ Len(a \o b) = Len(a) + Len(b)
        /\ \A i \in 1..(Len(a) + Len(b)) : (a \o b)[i] = IF i <= Len(a) THEN a[i] ELSE b[i - Len(a)]
    BY <1>2, <1>3, ConcatProperties DEF a, b
  <1>6. Len(a) = n - 1 /\ Len(b) = Len(l) - n
    BY <1>2, <1>3 DEF a, b
  <1>7. Len(a \o b) = Len(l) - 1
    BY <1>1, <1>5, <1>6
  <1>8. ASSUME NEW m \in 1..(Len(l) - 1) PROVE (a \o b)[m] = IF m < n THEN l[m] ELSE l[m + 1]
    <2>1. CASE m < n
      <3>0. m \in 1..(Len(a) + Len(b)) /\ m <= Len(a)
        BY <1>1, <1>6, <2>1
      <3>1. (a \o b)[m] = a[m]
        BY <1>5, <3>0, Zenon
      <3>2. a[m] = l[m]
        BY <1>1, <1>2, <2>1 DEF a
      <3> QED  BY <2>1, <3>1, <3>2
    <2>2. CASE ~(m < n)
      <3>0. m \in 1..(Len(a) + Len(b)) /\ ~(m <= Len(a))
        BY <1>1, <1>6, <2>2
      <3>1. (a \o b)[m] = b[m - Len(a)]
        BY <1>5, <3>0, Zenon
      <3>2. m - Len(a) \in 1..(Len(l) - n) /\ n + (m - Len(a)) = m + 1
        <4>1. n \in Nat /\ Len(l) \in Nat /\ m \in Nat /\ n <= m /\ m <= Len(l) - 1
          BY <1>1, <2>2
        <4> HIDE DEF a
        <4> QED  BY <1>6, <4>1
      <3>3. b[m - Len(a)] = l[m + 1]
        BY <1>3, <3>2 DEF b
      <3> QED  BY <2>2, <3>1, <3>3
    <2> QED  BY <2>1, <2>2
  <1> QED  BY <1>4, <1>5, <1>7, <1>8

\* The newest list when a list is written, and when one reaches the storage
LEMMA NewestWritten ==
    ASSUME NEW S, docWrites \in Seq(S), NEW l \in S, docWrites' = Append(docWrites, l)
    PROVE  docWrites' \in Seq(S) /\ NewestList' = l
  <1>1. /\ docWrites' \in Seq(S) /\ docWrites' # <<>> /\ Len(docWrites') = Len(docWrites) + 1
        /\ docWrites'[Len(docWrites) + 1] = l
    BY AppendProperties
  <1> QED  BY <1>1 DEF NewestList

LEMMA NewestFlushed ==
    ASSUME NEW S, docWrites \in Seq(S), FlushList
    PROVE  docList' \in S /\ docWrites' \in Seq(S) /\ NewestList' = NewestList
  <1>1. docWrites # <<>> /\ docList' = Head(docWrites) /\ docWrites' = Tail(docWrites)
    BY DEF FlushList
  <1> DEFINE t == Tail(docWrites)
  <1>2. /\ Head(docWrites) \in S /\ t \in Seq(S) /\ Len(t) = Len(docWrites) - 1
        /\ \A i \in 1..Len(t) : t[i] = docWrites[i + 1]
    BY <1>1, HeadTailProperties
  <1>3. Len(docWrites) \in Nat /\ Len(docWrites) > 0 /\ Head(docWrites) = docWrites[1]
    BY <1>1
  <1> HIDE DEF t
  <1>4. CASE t = <<>>
    <2>1. Len(t) = 0
      BY <1>4
    <2>2. Len(docWrites) = 1
      BY <1>2, <1>3, <2>1
    <2> QED  BY <1>1, <1>2, <1>3, <1>4, <2>2 DEF NewestList, t
  <1>5. CASE t # <<>>
    <2>1. Len(t) \in Nat /\ Len(t) > 0
      BY <1>2, <1>5, EmptySeq
    <2>2. t[Len(t)] = docWrites[Len(docWrites)]
      BY <1>2, <1>3, <2>1
    <2> QED  BY <1>1, <1>2, <1>5, <2>2 DEF NewestList, t
  <1> QED  BY <1>1, <1>2, <1>4, <1>5 DEF t

-----------------------------------------------------------------------------
(* Masked documents                                                        *)

\* A form whose tick was set with the file that is attached now
SeenForms == {f \in [type: DocumentTypes, file: BOOLEAN, masked: BOOLEAN, seen: BOOLEAN] : f.masked => f.seen}

\* A save under way makes a masked document.
MaskedSaves ==
    {v \in [pc: Phases, doc: DocIds \cup {None}, form: SeenForms, consented: BOOLEAN,
            key: [KeyKinds -> Nat], docs: Seq(MaskedDocs)] :
        v.pc # "idle" => v.doc \in DocIds /\ (v.form.type \in RiskyTypes => v.form.seen)}

Screens == [open: BOOLEAN, loading: BOOLEAN, docs: Seq(MaskedDocs), dialog: Dialogs]

ListsMasked == docList \in Seq(MaskedDocs) /\ docWrites \in Seq(Seq(MaskedDocs))
FormMasked == screen \in Screens /\ form \in SeenForms /\ consent \in [agreed: BOOLEAN, stored: BOOLEAN]
SavesMasked == saves \in [Slots -> MaskedSaves] /\ vaultCount.docs \in 0..MaxDocs

MaskInv == ListsMasked /\ FormMasked /\ SavesMasked

LEMMA EmptyTypes == /\ EmptyForm \in SeenForms /\ ClosedScreen \in Screens /\ IdleSave \in MaskedSaves
                    /\ "front" \in Slots /\ "left" \in Slots
  <1>1. EmptyForm \in SeenForms /\ "idle" \in Phases /\ "none" \in Dialogs
    BY DEF EmptyForm, SeenForms, DocumentTypes, Phases, Dialogs
  <1>2. <<>> \in Seq(MaskedDocs) /\ [k \in KeyKinds |-> None] \in [KeyKinds -> Nat]
    BY DEF None
  <1> QED  BY <1>1, <1>2 DEF ClosedScreen, Screens, IdleSave, MaskedSaves, Slots

\* The document of a save under way
LEMMA SavedIsMasked ==
    ASSUME NEW v \in MaskedSaves, v.pc # "idle", NEW kind \in {"plain", "enc"}
    PROVE  DocumentOf(v, kind) \in MaskedDocs
  <1>1. /\ v.doc \in DocIds /\ v.form \in SeenForms /\ v.consented \in BOOLEAN
        /\ v.form.type \in RiskyTypes => v.form.seen
    BY DEF MaskedSaves
  <1>2. v.form.type \in DocumentTypes /\ v.form.seen \in BOOLEAN
    BY <1>1 DEF SeenForms
  <1> HIDE DEF RiskyTypes
  <1> QED  BY <1>1, <1>2 DEF DocumentOf, MaskedDocs, Document

LEMMA CountStays ==
    ASSUME KeyInv, Counting
    PROVE  vaultCount'.docs = vaultCount.docs
  <1>1. vaultCount \in Counts
    BY DEF KeyInv, Types
  <1>2. ASSUME NEW e, Happens(e) PROVE vaultCount'.docs = vaultCount.docs
    BY <1>1, <1>2 DEF Happens, Counts
  <1> QED  BY <1>2 DEF Counting

\* The steps of the screen and its dialogs keep the lists and the saves.
LEMMA DialogMasks ==
    ASSUME KeyInv, MaskInv,
           \/ OpenVault \/ LoadDocuments \/ OpenDialog \/ CloseDialog
           \/ \E y \in TypesInPlay : SetSelectedType(y)
           \/ HandleAttachPress \/ ConsentModal \/ ConsentPersisted \/ PickFile \/ ScanPreview
           \/ ToggleMasked
    PROVE  MaskInv'
  <1>1. /\ UNCHANGED <<docList, docWrites, saves>> /\ Counting
    <2>1. "failed" \in Incidents
      BY DEF Incidents
    <2> QED  BY <2>1 DEF OpenVault, LoadDocuments, OpenDialog, CloseDialog, SetSelectedType,
               HandleAttachPress, ConsentModal, ConsentPersisted, PickFile, ScanPreview, ToggleMasked,
               Fails, Counting
  <1>2. ListsMasked' /\ SavesMasked'
    BY <1>1, CountStays DEF MaskInv, ListsMasked, SavesMasked
  <1>3. screen \in Screens /\ form \in SeenForms /\ consent \in [agreed: BOOLEAN, stored: BOOLEAN]
    BY DEF MaskInv, FormMasked
  <1>4. \A d \in Dialogs : [screen EXCEPT !.dialog = d] \in Screens
    BY <1>3 DEF Screens
  <1>5. /\ [form EXCEPT !.file = TRUE, !.masked = FALSE, !.seen = FALSE] \in SeenForms
        /\ [form EXCEPT !.masked = ~form.masked, !.seen = ~form.masked] \in SeenForms
        /\ [EmptyForm EXCEPT !.type = form.type] \in SeenForms
        /\ \A y \in DocumentTypes : [form EXCEPT !.type = y] \in SeenForms
    BY <1>3, EmptyTypes DEF SeenForms
  <1>6. /\ [consent EXCEPT !.agreed = TRUE] \in [agreed: BOOLEAN, stored: BOOLEAN]
        /\ [consent EXCEPT !.stored = TRUE] \in [agreed: BOOLEAN, stored: BOOLEAN]
    BY <1>3
  <1>7. \A d \in {"none", "form", "consent", "consentTicked", "agreeing", "options", "scanning", "scanned"} :
            d \in Dialogs
    BY DEF Dialogs
  <1>8. Picked => form' \in SeenForms
    BY <1>5 DEF Picked
  <1>9. NewestList \in Seq(MaskedDocs)
    BY DEF MaskInv, ListsMasked, NewestList
  <1>10. CASE OpenVault
    <2>1. [ClosedScreen EXCEPT !.open = TRUE, !.loading = TRUE] \in Screens
      BY EmptyTypes DEF Screens
    <2> QED  BY <1>2, <1>3, <1>10, <2>1, EmptyTypes DEF OpenVault, FormMasked, MaskInv
  <1>11. CASE LoadDocuments
    <2>1. [screen EXCEPT !.loading = FALSE, !.docs = NewestList] \in Screens
          /\ [screen EXCEPT !.loading = FALSE] \in Screens
      BY <1>3, <1>9 DEF Screens
    <2> QED  BY <1>2, <1>3, <1>11, <2>1 DEF LoadDocuments, FormMasked, MaskInv
  <1>12. CASE CloseDialog \/ ToggleMasked \/ \E y \in TypesInPlay : SetSelectedType(y)
    <2>1. TypesInPlay \subseteq DocumentTypes
      BY VaultAssumption
    <2>2. screen' \in Screens /\ form' \in SeenForms /\ UNCHANGED consent
      <3>1. CASE CloseDialog
        BY <1>3, <1>4, <1>5, <1>7, <3>1 DEF CloseDialog
      <3>2. CASE ToggleMasked
        BY <1>3, <1>4, <1>5, <1>7, <3>2 DEF ToggleMasked
      <3>3. CASE \E y \in TypesInPlay : SetSelectedType(y)
        BY <1>3, <1>4, <1>5, <1>7, <2>1, <3>3 DEF SetSelectedType
      <3> QED  BY <1>12, <3>1, <3>2, <3>3
    <2> QED  BY <1>2, <1>3, <2>2 DEF FormMasked, MaskInv
  <1>13. CASE OpenDialog \/ HandleAttachPress \/ PickFile \/ ScanPreview
    <2>1. screen' \in Screens /\ form' \in SeenForms /\ UNCHANGED consent
      BY <1>3, <1>4, <1>7, <1>8, <1>13 DEF OpenDialog, HandleAttachPress, PickFile, ScanPreview
    <2> QED  BY <1>2, <1>3, <2>1 DEF FormMasked, MaskInv
  <1>14. CASE ConsentModal \/ ConsentPersisted
    <2>1. screen' \in Screens /\ UNCHANGED form /\ consent' \in [agreed: BOOLEAN, stored: BOOLEAN]
      <3>1. CASE ConsentModal
        <4>1. /\ \E d \in {"consent", "consentTicked", "form", "agreeing"} : screen' = [screen EXCEPT !.dialog = d]
              /\ UNCHANGED form /\ (UNCHANGED consent \/ consent' = [consent EXCEPT !.agreed = TRUE])
          BY <3>1 DEF ConsentModal
        <4>2. screen' \in Screens
          BY <1>4, <1>7, <4>1
        <4>3. consent' \in [agreed: BOOLEAN, stored: BOOLEAN]
          BY <1>3, <1>6, <4>1
        <4> QED  BY <4>1, <4>2, <4>3
      <3>2. CASE ConsentPersisted
        <4>1. /\ screen' = [screen EXCEPT !.dialog = "options"]
              /\ UNCHANGED form /\ (UNCHANGED consent \/ consent' = [consent EXCEPT !.stored = TRUE])
          BY <3>2 DEF ConsentPersisted
        <4> QED  BY <1>3, <1>4, <1>6, <1>7, <4>1
      <3> QED  BY <1>14, <3>1, <3>2
    <2> QED  BY <1>2, <1>3, <2>1 DEF FormMasked, MaskInv
  <1> QED  BY <1>10, <1>11, <1>12, <1>13, <1>14

\* A save is replaced by one that is masked too.
LEMMA SaveMasks ==
    ASSUME SavesMasked, NEW s \in Slots, NEW new \in MaskedSaves, saves' = [saves EXCEPT ![s] = new],
           vaultCount'.docs \in 0..MaxDocs
    PROVE  SavesMasked'
  BY DEF SavesMasked

\* onAdd of a masked document
LEMMA AddedMasks ==
    ASSUME MaskInv, NEW s \in Slots, NEW d \in MaskedDocs, Added(s, d), UNCHANGED <<docList, consent>>,
           vaultCount'.docs \in 0..MaxDocs
    PROVE  MaskInv'
  <1>1. /\ docWrites \in Seq(Seq(MaskedDocs)) /\ screen \in Screens /\ form \in SeenForms
        /\ saves[s] \in MaskedSaves
    BY DEF MaskInv, ListsMasked, FormMasked, SavesMasked
  <1>2. saves[s].docs \in Seq(MaskedDocs) /\ screen.docs \in Seq(MaskedDocs)
    BY <1>1 DEF MaskedSaves, Screens
  <1>3. <<d>> \o saves[s].docs \in Seq(MaskedDocs) /\ <<d>> \o screen.docs \in Seq(MaskedDocs)
    BY <1>2, OneMore
  <1>4. SavesMasked'
    BY EmptyTypes, SaveMasks DEF Added, MaskInv
  <1>5. docWrites' \in Seq(Seq(MaskedDocs))
    <2>1. \A l \in Seq(MaskedDocs) : Append(docWrites, l) \in Seq(Seq(MaskedDocs))
      BY <1>1, AppendProperties
    <2>2. docWrites' = docWrites \/ \E l \in Seq(MaskedDocs) : docWrites' = Append(docWrites, l)
      BY <1>3, Zenon DEF Added
    <2> QED  BY <1>1, <2>1, <2>2
  <1>6. [screen EXCEPT !.docs = <<d>> \o screen.docs, !.dialog = "none"] \in Screens
    BY <1>1, <1>3 DEF Screens, Dialogs
  <1>7. screen' \in Screens /\ form' \in SeenForms
    BY <1>1, <1>6, EmptyTypes DEF Added
  <1> QED  BY <1>4, <1>5, <1>7 DEF MaskInv, ListsMasked, FormMasked

\* A document that is saved without a file, or a save that begins: handleSave
LEMMA BeginMasks ==
    ASSUME KeyInv, MaskInv, HandleSave
    PROVE  MaskInv'
  <1> DEFINE v == [IdleSave EXCEPT !.pc = "copy", !.doc = vaultCount.docs + 1,
                                   !.form = form, !.consented = consent.agreed]
  <1>1. /\ form \in SeenForms /\ consent \in [agreed: BOOLEAN, stored: BOOLEAN]
        /\ vaultCount \in Counts /\ vaultCount.docs \in 0..MaxDocs
    BY DEF KeyInv, Types, MaskInv, FormMasked, SavesMasked
  <1>2. vaultCount.docs < MaxDocs /\ vaultCount' = [vaultCount EXCEPT !.docs = vaultCount.docs + 1]
    BY DEF HandleSave
  <1>3. vaultCount'.docs = vaultCount.docs + 1 /\ vaultCount'.docs \in 0..MaxDocs
        /\ vaultCount.docs + 1 \in DocIds
    BY <1>1, <1>2, VaultAssumption DEF Counts, DocIds
  <1>4. form.file /\ form.type \in RiskyTypes => form.seen
    <2>1. ~SaveDisabled
      BY DEF HandleSave, Offers, AddDocModal
    <2> QED  BY <1>1, <2>1 DEF SaveDisabled, RequiresMasking, SeenForms
  <1>5. v \in [pc: Phases, doc: DocIds \cup {None}, form: SeenForms, consented: BOOLEAN,
               key: [KeyKinds -> Nat], docs: Seq(MaskedDocs)]
        /\ v.pc = "copy" /\ v.doc = vaultCount.docs + 1 /\ v.form = form /\ v.consented = consent.agreed
    <2>1. IdleSave \in MaskedSaves /\ "copy" \in Phases
      BY EmptyTypes DEF Phases
    <2> QED  BY <1>1, <1>3, <2>1 DEF MaskedSaves
  <1>6. CASE form.file
    <2>1. saves' = [saves EXCEPT !["front"] = v] /\ UNCHANGED <<docWrites, screen, form, docList, consent>>
      BY <1>6 DEF HandleSave
    <2> HIDE DEF v
    <2>2. v \in MaskedSaves
      BY <1>3, <1>4, <1>5, <1>6 DEF MaskedSaves
    <2>3. SavesMasked'
      BY <1>3, <2>1, <2>2, EmptyTypes, SaveMasks DEF MaskInv
    <2> QED  BY <2>1, <2>3 DEF MaskInv, ListsMasked, FormMasked
  <1>7. CASE ~form.file
    <2>1. Added("front", DocumentOf(v, "none")) /\ UNCHANGED <<docList, consent>>
      BY <1>7 DEF HandleSave
    <2> HIDE DEF v
    <2>2. DocumentOf(v, "none") \in MaskedDocs
      <3> HIDE DEF RiskyTypes
      <3> QED  BY <1>1, <1>3, <1>5 DEF DocumentOf, MaskedDocs, Document, SeenForms
    <2> QED  BY <1>3, <2>1, <2>2, EmptyTypes, AddedMasks
  <1> QED  BY <1>6, <1>7

\* A save goes on: another phase, another key.
LEMMA GoingOnMasks ==
    ASSUME KeyInv, MaskInv, NEW s \in Slots, NEW pc \in Phases, saves[s].pc # "idle",
           NEW key \in [KeyKinds -> Nat],
           saves' = [saves EXCEPT ![s] = [saves[s] EXCEPT !.key = key, !.pc = pc]],
           UNCHANGED <<docList, docWrites, screen, form, consent>>, vaultCount'.docs = vaultCount.docs
    PROVE  MaskInv'
  <1>1. saves[s] \in MaskedSaves
    BY DEF MaskInv, SavesMasked
  <1>2. [saves[s] EXCEPT !.key = key, !.pc = pc] \in MaskedSaves
    BY <1>1 DEF MaskedSaves
  <1>3. SavesMasked'
    BY <1>2, SaveMasks DEF MaskInv, SavesMasked
  <1> QED  BY <1>3 DEF MaskInv, ListsMasked, FormMasked

LEMMA SavingMasks ==
    ASSUME KeyInv, MaskInv, NEW s \in Slots,
           \/ CopyFile(s) \/ EncryptFile(s) \/ UnlinkAndAdd(s) \/ FallBackToPlain(s)
           \/ \E k \in KeyKinds : ReadKey(s, k) \/ WriteKey(s, k)
    PROVE  MaskInv'
  <1>1. /\ saves \in [Slots -> MaskedSaves] /\ saves[s] \in MaskedSaves /\ vaultCount \in Counts
        /\ keyStore \in [KeyKinds -> Nat] /\ vaultCount.docs \in 0..MaxDocs
    BY DEF MaskInv, SavesMasked, KeyInv, Types
  <1>2. saves[s].key \in [KeyKinds -> Nat]
    BY <1>1 DEF MaskedSaves
  <1>3. /\ saves[s].pc # "idle" /\ UNCHANGED <<docList, consent>>
        /\ vaultCount'.docs = vaultCount.docs
    <2>1. ASSUME NEW k \in KeyKinds, WriteKey(s, k) PROVE vaultCount'.docs = vaultCount.docs
      BY <1>1, <2>1 DEF WriteKey, Counts
    <2>2. ASSUME \/ CopyFile(s) \/ EncryptFile(s) \/ UnlinkAndAdd(s) \/ FallBackToPlain(s)
                 \/ \E k \in KeyKinds : ReadKey(s, k)
          PROVE  vaultCount'.docs = vaultCount.docs
      <3>1. Counting
        BY <2>2 DEF CopyFile, EncryptFile, UnlinkAndAdd, FallBackToPlain, ReadKey, Fails, Counting, Incidents
      <3> QED  BY <3>1, CountStays
    <2>3. saves[s].pc # "idle" /\ UNCHANGED <<docList, consent>>
      BY DEF CopyFile, EncryptFile, UnlinkAndAdd, FallBackToPlain, ReadKey, WriteKey, KeyKinds
    <2> QED  BY <2>1, <2>2, <2>3
  <1>4. CASE UnlinkAndAdd(s) \/ FallBackToPlain(s)
    <2>1. PICK kind \in {"plain", "enc"} : Added(s, DocumentOf(saves[s], kind))
      BY <1>4 DEF UnlinkAndAdd, FallBackToPlain
    <2>2. DocumentOf(saves[s], kind) \in MaskedDocs
      BY <1>1, <1>3, SavedIsMasked
    <2> QED  BY <1>1, <1>3, <2>1, <2>2, AddedMasks
  <1>5. CASE CopyFile(s) /\ saves' = [saves EXCEPT ![s] = IdleSave]
    <2>1. SavesMasked'
      BY <1>1, <1>3, <1>5, EmptyTypes, SaveMasks DEF MaskInv
    <2> QED  BY <1>3, <1>5, <2>1 DEF MaskInv, ListsMasked, FormMasked, CopyFile
  <1>6. CASE \/ CopyFile(s) /\ saves' # [saves EXCEPT ![s] = IdleSave]
             \/ EncryptFile(s)
    <2>1. PICK pc \in Phases : saves' = [saves EXCEPT ![s].pc = pc]
      BY <1>6 DEF CopyFile, EncryptFile, Step, Phases
    <2>2. [saves[s] EXCEPT !.pc = pc] = [saves[s] EXCEPT !.key = saves[s].key, !.pc = pc]
      BY <1>1 DEF MaskedSaves
    <2>3. UNCHANGED <<docList, docWrites, screen, form, consent>>
      BY <1>6 DEF CopyFile, EncryptFile
    <2> QED  BY <1>2, <1>3, <2>1, <2>2, <2>3, GoingOnMasks
  <1>7. ASSUME NEW k \in KeyKinds, ReadKey(s, k) \/ WriteKey(s, k) PROVE MaskInv'
    <2>1. PICK pc \in Phases, x \in Nat :
             saves' = [saves EXCEPT ![s] = [saves[s] EXCEPT !.key = [saves[s].key EXCEPT ![k] = x], !.pc = pc]]
      <3>1. keyStore[k] \in Nat /\ vaultCount.keys + 1 \in Nat
        BY <1>1 DEF Counts
      <3>2. {"newMaster", "newSalt", "salt", "encrypt"} \subseteq Phases
        BY DEF Phases
      <3>3. CASE ReadKey(s, k)
        <4> DEFINE pc == IF keyStore[k] = None THEN (IF k = "master" THEN "newMaster" ELSE "newSalt")
                         ELSE (IF k = "master" THEN "salt" ELSE "encrypt")
        <4>1. saves' = [saves EXCEPT ![s] = [saves[s] EXCEPT !.key = [saves[s].key EXCEPT ![k] = keyStore[k]], !.pc = pc]]
          BY <3>3, Zenon DEF ReadKey
        <4>2. pc \in Phases
          BY <3>2
        <4> HIDE DEF pc
        <4> QED  BY <3>1, <4>1, <4>2, Zenon
      <3>4. CASE WriteKey(s, k)
        <4> DEFINE pc == IF k = "master" THEN "salt" ELSE "encrypt"
        <4>1. saves' = [saves EXCEPT ![s] = [saves[s] EXCEPT !.key = [saves[s].key EXCEPT ![k] = vaultCount.keys + 1], !.pc = pc]]
          BY <3>4, Zenon DEF WriteKey
        <4>2. pc \in Phases
          BY <3>2
        <4> HIDE DEF pc
        <4> QED  BY <3>1, <4>1, <4>2, Zenon
      <3> QED  BY <1>7, <3>3, <3>4
    <2>2. [saves[s].key EXCEPT ![k] = x] \in [KeyKinds -> Nat]
      BY <1>2
    <2>3. UNCHANGED <<docList, docWrites, screen, form, consent>>
      BY <1>7 DEF ReadKey, WriteKey
    <2> QED  BY <1>3, <2>1, <2>2, <2>3, GoingOnMasks
  <1> QED  BY <1>4, <1>5, <1>6, <1>7

\* Leaving, deleting, writing the list, restarts and time
LEMMA OtherMasks ==
    ASSUME KeyInv, MaskInv, LeaveVault \/ (\E n \in DocIds : HandleDelete(n)) \/ FlushList \/ RestartApp \/ QuarterPasses
    PROVE  MaskInv'
  <1>1. /\ docList \in Seq(MaskedDocs) /\ docWrites \in Seq(Seq(MaskedDocs)) /\ screen \in Screens
        /\ form \in SeenForms /\ consent \in [agreed: BOOLEAN, stored: BOOLEAN]
        /\ saves \in [Slots -> MaskedSaves] /\ vaultCount.docs \in 0..MaxDocs
    BY DEF MaskInv, ListsMasked, FormMasked, SavesMasked
  <1>2. Counting
    BY DEF LeaveVault, HandleDelete, FlushList, RestartApp, QuarterPasses, Fails, Counting, Incidents
  <1>3. vaultCount'.docs \in 0..MaxDocs
    BY <1>1, <1>2, CountStays
  <1>4. CASE LeaveVault
    <2>1. screen' = ClosedScreen /\ UNCHANGED <<docList, docWrites, consent, form>>
      BY <1>4 DEF LeaveVault
    <2>2. saves' \in [Slots -> MaskedSaves]
      <3>1. CASE saves["front"].pc = "idle"
        BY <1>1, <1>4, <3>1 DEF LeaveVault
      <3>2. CASE saves["front"].pc # "idle"
        <4> DEFINE left == [saves["front"] EXCEPT !.docs = screen.docs]
        <4>1. saves["front"] \in MaskedSaves /\ screen.docs \in Seq(MaskedDocs)
          BY <1>1, EmptyTypes DEF Screens
        <4>2. left \in MaskedSaves
          BY <4>1 DEF MaskedSaves
        <4>3. saves' = [front |-> IdleSave, left |-> left]
          BY <1>4, <3>2 DEF LeaveVault
        <4> HIDE DEF left
        <4>4. saves' = [s \in {"front", "left"} |-> IF s = "front" THEN IdleSave ELSE left]
          BY <4>3
        <4> QED  BY <4>2, <4>4, EmptyTypes DEF Slots
      <3> QED  BY <3>1, <3>2
    <2> QED  BY <1>1, <1>3, <2>1, <2>2, EmptyTypes DEF MaskInv, ListsMasked, FormMasked, SavesMasked
  <1>5. ASSUME NEW n \in DocIds, HandleDelete(n) PROVE MaskInv'
    <2>1. /\ n \in DOMAIN screen.docs /\ screen.docs \in Seq(MaskedDocs)
          /\ screen' = [screen EXCEPT !.docs = Without(screen.docs, n)]
          /\ docWrites' = Append(docWrites, Without(screen.docs, n))
          /\ UNCHANGED <<docList, consent, form, saves>>
      BY <1>1, <1>5 DEF HandleDelete, Screens
    <2>2. Without(screen.docs, n) \in Seq(MaskedDocs)
      BY <2>1, OneLess
    <2>3. docWrites' \in Seq(Seq(MaskedDocs))
      BY <1>1, <2>1, <2>2, AppendProperties
    <2>4. screen' \in Screens
      BY <1>1, <2>1, <2>2 DEF Screens
    <2> QED  BY <1>1, <1>3, <2>1, <2>3, <2>4 DEF MaskInv, ListsMasked, FormMasked, SavesMasked
  <1>6. CASE FlushList
    <2>1. docList' \in Seq(MaskedDocs) /\ docWrites' \in Seq(Seq(MaskedDocs))
      BY <1>1, <1>6, NewestFlushed
    <2>2. UNCHANGED <<screen, form, consent, saves>>
      BY <1>6 DEF FlushList
    <2> QED  BY <1>1, <1>3, <2>1, <2>2 DEF MaskInv, ListsMasked, FormMasked, SavesMasked
  <1>7. CASE RestartApp
    <2>1. /\ docWrites' = <<>> /\ screen' = ClosedScreen /\ form' = EmptyForm /\ UNCHANGED docList
          /\ saves' = [s \in Slots |-> IdleSave] /\ consent' = [consent EXCEPT !.agreed = consent.stored]
      BY <1>7 DEF RestartApp
    <2>2. docWrites' \in Seq(Seq(MaskedDocs)) /\ consent' \in [agreed: BOOLEAN, stored: BOOLEAN]
          /\ saves' \in [Slots -> MaskedSaves]
      BY <1>1, <2>1, EmptyTypes
    <2> QED  BY <1>1, <1>3, <2>1, <2>2, EmptyTypes DEF MaskInv, ListsMasked, FormMasked, SavesMasked
  <1>8. CASE QuarterPasses
    <2>1. /\ docList' = [n \in DOMAIN docList |-> [docList[n] EXCEPT !.aged = TRUE]]
          /\ UNCHANGED <<docWrites, screen, form, consent, saves>>
      BY <1>8 DEF QuarterPasses
    <2>2. \A d \in MaskedDocs : [d EXCEPT !.aged = TRUE] \in MaskedDocs
      <3> HIDE DEF RiskyTypes
      <3> QED  BY DEF MaskedDocs, Document
    <2>3. docList' \in Seq(MaskedDocs)
      <3>1. docList \in [1..Len(docList) -> MaskedDocs] /\ Len(docList) \in Nat
        BY <1>1
      <3>2. docList' \in [1..Len(docList) -> MaskedDocs]
        BY <2>1, <2>2, <3>1
      <3> QED  BY <3>1, <3>2, SeqDef
    <2> QED  BY <1>1, <1>3, <2>1, <2>3 DEF MaskInv, ListsMasked, FormMasked, SavesMasked
  <1> QED  BY <1>4, <1>5, <1>6, <1>7, <1>8

LEMMA MaskInit == VaultInit => MaskInv
  <1> SUFFICES ASSUME VaultInit PROVE MaskInv
    OBVIOUS
  <1>1. docList = <<>> /\ docWrites = <<>> /\ consent = [agreed |-> FALSE, stored |-> FALSE]
        /\ screen = ClosedScreen /\ form = EmptyForm /\ saves = [s \in Slots |-> IdleSave]
    BY DEF VaultInit
  <1>2. vaultCount.docs \in 0..MaxDocs
    BY VaultAssumption DEF VaultInit
  <1>3. docWrites \in Seq(Seq(MaskedDocs)) /\ docList \in Seq(MaskedDocs)
    BY <1>1
  <1> QED  BY <1>1, <1>2, <1>3, EmptyTypes DEF MaskInv, ListsMasked, FormMasked, SavesMasked

\* A share changes nothing of this, and neither does a stuttering step.
LEMMA ShareMasks ==
    ASSUME KeyInv, MaskInv,
           \/ UNCHANGED vaultVars
           \/ \E n \in 1..2 : \/ DecryptToTemp(n) \/ CloseSheet(n) \/ CleanTemp(n)
                               \/ \E i \in DocIds : StartShare(n, i)
    PROVE  MaskInv'
  <1>1. UNCHANGED <<docList, docWrites, screen, form, consent, saves>> /\ Counting
    BY DEF vaultVars, DecryptToTemp, CloseSheet, CleanTemp, StartShare, Counting, Incidents
  <1>2. vaultCount'.docs = vaultCount.docs
    BY <1>1, CountStays
  <1> QED  BY <1>1, <1>2 DEF MaskInv, ListsMasked, FormMasked, SavesMasked

LEMMA MaskStep == KeyInv /\ MaskInv /\ [VaultNext]_vaultVars => MaskInv'
  <1> SUFFICES ASSUME KeyInv, MaskInv, [VaultNext]_vaultVars PROVE MaskInv'
    OBVIOUS
  <1>1. ASSUME NEW s \in Slots,
               \/ CopyFile(s) \/ EncryptFile(s) \/ UnlinkAndAdd(s) \/ FallBackToPlain(s)
               \/ \E k \in KeyKinds : ReadKey(s, k) \/ WriteKey(s, k)
        PROVE  MaskInv'
    BY <1>1, SavingMasks
  <1>2. CASE \/ UNCHANGED vaultVars
             \/ \E n \in 1..2 : \/ DecryptToTemp(n) \/ CloseSheet(n) \/ CleanTemp(n)
                                \/ \E i \in DocIds : StartShare(n, i)
    BY <1>2, ShareMasks
  <1>3. CASE LeaveVault \/ (\E n \in DocIds : HandleDelete(n)) \/ FlushList \/ RestartApp \/ QuarterPasses
    BY <1>3, OtherMasks
  <1>4. CASE HandleSave
    BY <1>4, BeginMasks
  <1>5. CASE \/ OpenVault \/ LoadDocuments \/ OpenDialog \/ CloseDialog
             \/ \E y \in TypesInPlay : SetSelectedType(y)
             \/ HandleAttachPress \/ ConsentModal \/ ConsentPersisted \/ PickFile \/ ScanPreview
             \/ ToggleMasked
    BY <1>5, DialogMasks
  <1> QED  BY <1>1, <1>2, <1>3, <1>4, <1>5, Zenon DEF VaultNext

\* A stored document of a type that carries a registration number, with a file, was
\* confirmed as masked while that very file was attached (handleSave, requiresMasking, and
\* every way to pick a file): whatever the order of picking, ticking and changing the type,
\* however saves fail, end late or race, and also after the app is killed.
THEOREM MaskingIsConfirmed == VaultSpec => []MaskingConfirmedForFile
  <1>1. VaultInit => KeyInv /\ MaskInv
    BY KeyInit, MaskInit
  <1>2. (KeyInv /\ MaskInv) /\ [VaultNext]_vaultVars => (KeyInv /\ MaskInv)'
    BY KeyStep, MaskStep
  <1>3. KeyInv /\ MaskInv => MaskingConfirmedForFile
    <2> SUFFICES ASSUME MaskInv PROVE MaskingConfirmedForFile
      OBVIOUS
    <2>1. NewestList \in Seq(MaskedDocs)
      BY DEF MaskInv, ListsMasked, NewestList
    <2>2. \A n \in DOMAIN NewestList : NewestList[n] \in MaskedDocs
      BY <2>1
    <2> HIDE DEF RiskyTypes
    <2> QED  BY <2>2, Zenon DEF MaskingConfirmedForFile, MaskedDocs
  <1> QED  BY <1>1, <1>2, <1>3, PTL DEF VaultSpec

-----------------------------------------------------------------------------
(* The list and the vault directory                                        *)

\* A save that has a master key has a real one.
Found == \A s \in Slots : saves[s].pc \in HasMaster => saves[s].key["master"] # None

Elems(l) == {l[n] : n \in DOMAIN l}
Unique(l) == \A m, n \in DOMAIN l : l[m].id = l[n].id => m = n

\* Nothing failed but with decrypted copies, no screen was left during a save, the app was
\* not killed.
Calm == vaultCount.incidents \subseteq {"overlap", "copyFailed"}

\* The only save is the one of the open screen, and of the newest document.
OneSave ==
    /\ saves["left"].pc = "idle"
    /\ saves["front"].pc # "idle" =>
          screen.open /\ ~screen.loading /\ saves["front"].doc = vaultCount.docs

\* The screen shows the newest list as soon as it has loaded one.
ShownIsNewest ==
    /\ ~screen.open \/ screen.loading => screen.dialog = "none" /\ screen.docs = <<>>
    /\ screen.open /\ ~screen.loading => screen.docs = NewestList

\* No two documents have the same number; that of a save under way is not listed yet.
Numbered ==
    /\ Unique(NewestList)
    /\ \A d \in Elems(NewestList) :
          d.id <= vaultCount.docs /\ (saves["front"].pc # "idle" => d.id < vaultCount.docs)

\* The file i belongs to a save that has made it, or to a document with a file, or is not there.
FileRight(i) ==
    IF saves["front"].pc # "idle" /\ saves["front"].doc = i
    THEN saves["front"].pc = "unlink" => docFiles[i].enc # <<None, None>>
    ELSE /\ ~docFiles[i].plain
         /\ docFiles[i].enc # <<None, None>> <=> \E d \in Elems(NewestList) : d.id = i /\ d.file = "enc"

Right == OneSave /\ ShownIsNewest /\ Numbered /\ \A i \in DocIds : FileRight(i)

FilesInv == Found /\ (Calm => Right)

\* The documents of a list, when one is added or taken away
LEMMA ElemsOneMore ==
    ASSUME NEW S, NEW l \in Seq(S), NEW d \in S, Unique(l), \A e \in Elems(l) : e.id # d.id
    PROVE  Elems(<<d>> \o l) = {d} \cup Elems(l) /\ Unique(<<d>> \o l)
  <1> DEFINE more == <<d>> \o l
  <1>1. /\ more \in Seq(S) /\ Len(more) = Len(l) + 1 /\ more[1] = d
        /\ \A n \in 1..Len(l) : more[n + 1] = l[n]
    BY OneMore
  <1>2. Len(l) \in Nat /\ DOMAIN l = 1..Len(l) /\ DOMAIN more = 1..(Len(l) + 1)
    BY <1>1, LenProperties
  <1> HIDE DEF more
  <1>3. \A n \in DOMAIN more : n = 1 \/ (n - 1 \in DOMAIN l /\ more[n] = l[n - 1])
    <2> SUFFICES ASSUME NEW n \in DOMAIN more, n # 1 PROVE n - 1 \in DOMAIN l /\ more[n] = l[n - 1]
      OBVIOUS
    <2>1. n - 1 \in 1..Len(l) /\ (n - 1) + 1 = n
      BY <1>2
    <2>2. more[(n - 1) + 1] = l[n - 1]
      BY <1>1, <2>1
    <2> QED  BY <1>2, <2>1, <2>2
  <1>4. Elems(more) \subseteq {d} \cup Elems(l)
    <2>1. ASSUME NEW n \in DOMAIN more PROVE more[n] = d \/ more[n] \in {l[k] : k \in DOMAIN l}
      BY <1>1, <1>3
    <2> QED  BY <2>1 DEF Elems
  <1>5. {d} \cup Elems(l) \subseteq Elems(more)
    <2>1. 1 \in DOMAIN more /\ \A n \in DOMAIN l : n + 1 \in DOMAIN more /\ more[n + 1] = l[n]
      BY <1>1, <1>2
    <2> QED  BY <1>1, <2>1 DEF Elems
  <1>6. Unique(more)
    <2> SUFFICES ASSUME NEW m \in DOMAIN more, NEW n \in DOMAIN more, more[m].id = more[n].id PROVE m = n
      BY DEF Unique
    <2>1. \A k \in DOMAIN more : k # 1 => k - 1 \in DOMAIN l /\ more[k] = l[k - 1] /\ more[k].id # d.id
      BY <1>3 DEF Elems
    <2>2. CASE m = 1 \/ n = 1
      BY <1>1, <2>1, <2>2
    <2>3. CASE m # 1 /\ n # 1
      <3>1. m - 1 = n - 1
        BY <2>1, <2>3 DEF Unique
      <3> QED  BY <1>2, <3>1
    <2> QED  BY <2>2, <2>3
  <1> QED  BY <1>4, <1>5, <1>6 DEF more

LEMMA ElemsOneLess ==
    ASSUME NEW S, NEW l \in Seq(S), NEW n \in DOMAIN l, Unique(l)
    PROVE  Elems(Without(l, n)) = Elems(l) \ {l[n]} /\ Unique(Without(l, n))
  <1> DEFINE less == Without(l, n)
             at(m) == IF m < n THEN m ELSE m + 1
  <1>1. /\ less \in Seq(S) /\ Len(less) = Len(l) - 1
        /\ \A m \in 1..(Len(l) - 1) : less[m] = l[at(m)]
    BY OneLess
  <1>2. Len(l) \in Nat /\ DOMAIN l = 1..Len(l) /\ DOMAIN less = 1..(Len(l) - 1) /\ n \in 1..Len(l)
    BY <1>1, LenProperties
  <1> HIDE DEF less
  <1>3. \A m \in DOMAIN less : at(m) \in DOMAIN l /\ at(m) # n /\ less[m] = l[at(m)]
    BY <1>1, <1>2
  <1>4. \A m \in DOMAIN l : m # n => \E k \in DOMAIN less : at(k) = m
    <2> SUFFICES ASSUME NEW m \in DOMAIN l, m # n PROVE \E k \in DOMAIN less : at(k) = m
      OBVIOUS
    <2>1. CASE m < n
      <3>1. m \in DOMAIN less /\ at(m) = m
        BY <1>2, <2>1
      <3> QED  BY <3>1
    <2>2. CASE ~(m < n)
      <3>1. m - 1 \in DOMAIN less /\ at(m - 1) = m
        BY <1>2, <2>2
      <3> QED  BY <3>1
    <2> QED  BY <2>1, <2>2
  <1>5. \A j, k \in DOMAIN less : at(j) = at(k) => j = k
    BY <1>2
  <1> HIDE DEF at
  <1>6. Elems(less) = Elems(l) \ {l[n]}
    <2>1. \A m \in DOMAIN l : l[m] = l[n] => m = n
      BY DEF Unique
    <2> QED  BY <1>3, <1>4, <2>1 DEF Elems
  <1>7. Unique(less)
    <2> SUFFICES ASSUME NEW j \in DOMAIN less, NEW k \in DOMAIN less, less[j].id = less[k].id PROVE j = k
      BY DEF Unique
    <2>1. at(j) = at(k)
      BY <1>3 DEF Unique
    <2> QED  BY <1>5, <2>1
  <1> QED  BY <1>6, <1>7 DEF less

\* The keys of the saves
LEMMA FoundStep == KeyInv /\ MaskInv /\ Found /\ [VaultNext]_vaultVars => Found'
  <1> SUFFICES ASSUME KeyInv, MaskInv, Found, [VaultNext]_vaultVars PROVE Found'
    OBVIOUS
  <1>1. /\ saves \in [Slots -> MaskedSaves] /\ keyStore \in [KeyKinds -> Nat] /\ vaultCount \in Counts
        /\ SavesTyped
    BY DEF MaskInv, SavesMasked, KeyInv, Types
  <1>2. \A s \in Slots : saves[s] \in MaskedSaves /\ saves[s].key \in [KeyKinds -> Nat]
    BY <1>1 DEF MaskedSaves
  <1>3. "idle" \notin HasMaster /\ "copy" \notin HasMaster /\ "master" \notin HasMaster /\ IdleSave.pc = "idle"
    BY DEF HasMaster, IdleSave
  <1>4. NoNewKey => Found'
    BY Zenon DEF NoNewKey, Found
  <1>5. CASE UNCHANGED saves
    BY <1>1, <1>4, <1>5, SameSaves
  <1>6. ASSUME NEW s \in Slots, saves' = [saves EXCEPT ![s] = IdleSave] PROVE Found'
    BY <1>1, <1>4, <1>6, Ending
  <1>7. ASSUME NEW s \in Slots, NEW new, new.pc \in HasMaster => new.key["master"] # None,
               saves' = [saves EXCEPT ![s] = new]
        PROVE  Found'
    BY <1>1, <1>7 DEF Found
  <1>8. ASSUME NEW s \in Slots, CopyFile(s) \/ EncryptFile(s) PROVE Found'
    <2>1. CASE saves' = [saves EXCEPT ![s] = IdleSave]
      BY <1>6, <2>1
    <2>2. CASE saves' # [saves EXCEPT ![s] = IdleSave]
      <3>1. PICK pc \in {"master", "unlink"} :
               saves' = [saves EXCEPT ![s].pc = pc] /\ (pc = "unlink" => saves[s].pc = "encrypt")
        BY <1>8, <2>2 DEF CopyFile, EncryptFile, Step
      <3> DEFINE new == [saves[s] EXCEPT !.pc = pc]
      <3>2. new.pc = pc /\ new.key = saves[s].key
        BY <1>2 DEF MaskedSaves
      <3>3. saves' = [saves EXCEPT ![s] = new]
        BY <3>1
      <3>4. new.pc \in HasMaster => new.key["master"] # None
        BY <1>3, <3>1, <3>2 DEF Found, HasMaster
      <3> HIDE DEF new
      <3> QED  BY <1>7, <3>3, <3>4
    <2> QED  BY <2>1, <2>2
  <1>9. ASSUME NEW s \in Slots, NEW k \in KeyKinds, ReadKey(s, k) \/ WriteKey(s, k) PROVE Found'
    <2>1. PICK x \in Nat, pc \in {"newMaster", "newSalt", "salt", "encrypt"} :
             /\ saves' = [saves EXCEPT ![s] = [saves[s] EXCEPT !.key = [saves[s].key EXCEPT ![k] = x], !.pc = pc]]
             /\ k = "master" /\ pc = "salt" => x # None
             /\ pc \in HasMaster /\ k # "master" => saves[s].pc \in HasMaster
             /\ k = "master" => pc \in {"newMaster", "salt"}
      <3>1. CASE ReadKey(s, k)
        <4> DEFINE pc == IF keyStore[k] = None THEN (IF k = "master" THEN "newMaster" ELSE "newSalt")
                         ELSE (IF k = "master" THEN "salt" ELSE "encrypt")
        <4>1. saves' = [saves EXCEPT ![s] = [saves[s] EXCEPT !.key = [saves[s].key EXCEPT ![k] = keyStore[k]], !.pc = pc]]
          BY <3>1, Zenon DEF ReadKey
        <4>2. saves[s].pc = k
          BY <3>1 DEF ReadKey
        <4>3. /\ pc \in {"newMaster", "newSalt", "salt", "encrypt"} /\ keyStore[k] \in Nat
              /\ k = "master" /\ pc = "salt" => keyStore[k] # None
              /\ k = "master" => pc \in {"newMaster", "salt"}
          BY <1>1
        <4>4. pc \in HasMaster /\ k # "master" => saves[s].pc \in HasMaster
          BY <4>2 DEF KeyKinds, HasMaster
        <4> HIDE DEF pc
        <4> QED  BY <4>1, <4>3, <4>4, Zenon
      <3>2. CASE WriteKey(s, k)
        <4> DEFINE pc == IF k = "master" THEN "salt" ELSE "encrypt"
                   x == vaultCount.keys + 1
        <4>1. saves' = [saves EXCEPT ![s] = [saves[s] EXCEPT !.key = [saves[s].key EXCEPT ![k] = x], !.pc = pc]]
          BY <3>2, Zenon DEF WriteKey
        <4>2. saves[s].pc = IF k = "master" THEN "newMaster" ELSE "newSalt"
          BY <3>2 DEF WriteKey
        <4>3. /\ pc \in {"newMaster", "newSalt", "salt", "encrypt"} /\ x \in Nat /\ x # None
              /\ k = "master" => pc \in {"newMaster", "salt"}
          BY <1>1 DEF Counts, None
        <4>4. pc \in HasMaster /\ k # "master" => saves[s].pc \in HasMaster
          BY <4>2 DEF HasMaster
        <4> HIDE DEF pc, x
        <4> QED  BY <4>1, <4>3, <4>4, Zenon
      <3> QED  BY <1>9, <3>1, <3>2
    <2> DEFINE key == [saves[s].key EXCEPT ![k] = x]
               new == [saves[s] EXCEPT !.key = key, !.pc = pc]
    <2>2. new.pc = pc /\ new.key = key
      BY <1>2 DEF MaskedSaves
    <2>3. key["master"] = IF k = "master" THEN x ELSE saves[s].key["master"]
      BY <1>2 DEF KeyKinds
    <2>4. saves' = [saves EXCEPT ![s] = new]
      BY <2>1
    <2> HIDE DEF key, new
    <2>5. new.pc \in HasMaster => new.key["master"] # None
      BY <2>1, <2>2, <2>3 DEF Found, HasMaster
    <2> QED  BY <1>7, <2>4, <2>5
  <1>10. CASE HandleSave
    <2> DEFINE v == [IdleSave EXCEPT !.pc = "copy", !.doc = vaultCount.docs + 1,
                                     !.form = form, !.consented = consent.agreed]
    <2>1. saves' = [saves EXCEPT !["front"] = v] \/ saves' = [saves EXCEPT !["front"] = IdleSave]
      BY <1>10 DEF HandleSave, Added
    <2>2. v.pc = "copy"
      BY DEF IdleSave
    <2> HIDE DEF v
    <2> QED  BY <1>3, <1>6, <1>7, <2>1, <2>2, EmptyTypes
  <1>11. CASE LeaveVault
    <2>1. CASE saves["front"].pc = "idle"
      BY <1>5, <1>11, <2>1 DEF LeaveVault
    <2>2. CASE saves["front"].pc # "idle"
      <3> DEFINE left == [saves["front"] EXCEPT !.docs = screen.docs]
      <3>1. left.pc = saves["front"].pc /\ left.key = saves["front"].key
        BY <1>2, EmptyTypes DEF MaskedSaves
      <3>2. saves' = [front |-> IdleSave, left |-> left]
        BY <1>11, <2>2 DEF LeaveVault
      <3> HIDE DEF left
      <3>3. saves'["front"] = IdleSave /\ saves'["left"] = left
        BY <3>2
      <3> QED  BY <1>3, <3>1, <3>3 DEF Found, Slots
    <2> QED  BY <2>1, <2>2
  <1>12. CASE RestartApp
    BY <1>3, <1>12 DEF RestartApp, Found
  <1>13. ASSUME NEW s \in Slots, UnlinkAndAdd(s) \/ FallBackToPlain(s) PROVE Found'
    BY <1>6, <1>13 DEF UnlinkAndAdd, FallBackToPlain, Added
  <1>14. CASE \/ UNCHANGED vaultVars
              \/ OpenVault \/ LoadDocuments \/ OpenDialog \/ CloseDialog
              \/ \E y \in TypesInPlay : SetSelectedType(y)
              \/ HandleAttachPress \/ ConsentModal \/ ConsentPersisted \/ PickFile \/ ScanPreview
              \/ ToggleMasked \/ (\E n \in DocIds : HandleDelete(n)) \/ FlushList
              \/ \E n \in 1..2 : \/ DecryptToTemp(n) \/ CloseSheet(n) \/ CleanTemp(n)
                                 \/ \E i \in DocIds : StartShare(n, i)
              \/ QuarterPasses
    <2>1. UNCHANGED saves
      BY <1>14, Zenon DEF vaultVars, OpenVault, LoadDocuments, OpenDialog, CloseDialog, SetSelectedType,
         HandleAttachPress, ConsentModal, ConsentPersisted, PickFile, ScanPreview, ToggleMasked,
         HandleDelete, FlushList, DecryptToTemp, CloseSheet, CleanTemp, StartShare, QuarterPasses
    <2> QED  BY <1>5, <2>1
  <1> QED  BY <1>8, <1>9, <1>10, <1>11, <1>12, <1>13, <1>14, Zenon DEF VaultNext

LEMMA NotCalm ==
    ASSUME vaultCount \in Counts, NEW e, e \notin {"overlap", "copyFailed"}, Happens(e)
    PROVE  ~Calm'
  BY DEF Happens, Counts, Calm

\* The screen changes, the files and the newest list do not.
LEMMA ScreenRight ==
    ASSUME Right, UNCHANGED <<docFiles, saves>>, NewestList' = NewestList, ShownIsNewest',
           vaultCount'.docs = vaultCount.docs,
           saves["front"].pc # "idle" => screen'.open /\ ~screen'.loading
    PROVE  Right'
  <1>1. OneSave' /\ Numbered'
    BY DEF Right, OneSave, Numbered
  <1>2. \A i \in DocIds : FileRight(i)'
    BY DEF Right, FileRight
  <1> QED  BY <1>1, <1>2 DEF Right

LEMMA DialogRight ==
    ASSUME KeyInv, MaskInv, Right, Calm',
           \/ OpenVault \/ LoadDocuments \/ LeaveVault \/ OpenDialog \/ CloseDialog
           \/ \E y \in TypesInPlay : SetSelectedType(y)
           \/ HandleAttachPress \/ ConsentModal \/ ConsentPersisted \/ PickFile \/ ScanPreview
           \/ ToggleMasked
    PROVE  Right'
  <1>1. vaultCount \in Counts /\ screen \in Screens
    BY DEF KeyInv, Types, MaskInv, FormMasked
  <1>2. ~Fails /\ ~Happens("left")
    BY <1>1, NotCalm DEF Fails
  <1>3. UNCHANGED <<docList, docWrites, docFiles, saves, vaultCount>>
    BY <1>2, Zenon DEF OpenVault, LoadDocuments, LeaveVault, OpenDialog, CloseDialog, SetSelectedType,
       HandleAttachPress, ConsentModal, ConsentPersisted, PickFile, ScanPreview, ToggleMasked
  <1>4. NewestList' = NewestList
    BY <1>3 DEF NewestList
  <1>5. ShownIsNewest /\ OneSave
    BY DEF Right
  <1>6. CASE OpenVault
    <2>1. screen' = [ClosedScreen EXCEPT !.open = TRUE, !.loading = TRUE] /\ ~screen.open
      BY <1>6 DEF OpenVault
    <2>2. screen'.loading /\ screen'.dialog = "none" /\ screen'.docs = <<>>
      BY <2>1 DEF ClosedScreen
    <2>3. ShownIsNewest'
      BY <2>2 DEF ShownIsNewest
    <2> QED  BY <1>3, <1>4, <1>5, <2>1, <2>3, ScreenRight DEF OneSave
  <1>7. CASE LoadDocuments
    <2>1. screen' = [screen EXCEPT !.loading = FALSE, !.docs = NewestList] /\ screen.open /\ screen.loading
      BY <1>2, <1>7 DEF LoadDocuments
    <2>2. screen'.open /\ ~screen'.loading /\ screen'.docs = NewestList
      BY <1>1, <2>1 DEF Screens
    <2>3. ShownIsNewest'
      BY <1>4, <2>2 DEF ShownIsNewest
    <2> QED  BY <1>3, <1>4, <2>2, <2>3, ScreenRight
  <1>8. CASE LeaveVault
    <2>1. screen' = ClosedScreen /\ saves["front"].pc = "idle"
      BY <1>2, <1>8 DEF LeaveVault
    <2>2. ShownIsNewest'
      BY <2>1 DEF ShownIsNewest, ClosedScreen
    <2> QED  BY <1>3, <1>4, <2>1, <2>2, ScreenRight
  <1>9. ASSUME NEW d \in Dialogs, screen' = [screen EXCEPT !.dialog = d], screen.open /\ ~screen.loading PROVE Right'
    <2>1. screen'.open = screen.open /\ screen'.loading = screen.loading /\ screen'.docs = screen.docs
      BY <1>1, <1>9 DEF Screens
    <2>2. ShownIsNewest'
      BY <1>4, <1>5, <1>9, <2>1 DEF ShownIsNewest
    <2> QED  BY <1>3, <1>4, <1>9, <2>1, <2>2, ScreenRight
  <1>10. CASE OpenDialog
    <2>1. screen.open /\ ~screen.loading
      BY <1>10 DEF OpenDialog, Dialog, VaultView
    <2>2. screen' = [screen EXCEPT !.dialog = "form"] /\ "form" \in Dialogs
      BY <1>10 DEF OpenDialog, Dialogs
    <2> QED  BY <1>9, <2>1, <2>2
  <1>11. CASE CloseDialog \/ HandleAttachPress \/ ConsentModal \/ ConsentPersisted \/ PickFile \/ ScanPreview
    <2>1. screen.open /\ screen.dialog # "none"
      BY <1>11 DEF CloseDialog, HandleAttachPress, ConsentModal, ConsentPersisted, PickFile, ScanPreview,
         Offers, Dialog
    <2>2. screen.open /\ ~screen.loading
      BY <1>5, <2>1 DEF ShownIsNewest
    <2>3. \E d \in Dialogs : screen' = [screen EXCEPT !.dialog = d]
      BY <1>11 DEF CloseDialog, HandleAttachPress, ConsentModal, ConsentPersisted, PickFile, ScanPreview, Dialogs
    <2> QED  BY <1>9, <2>2, <2>3
  <1>12. CASE ToggleMasked \/ \E y \in TypesInPlay : SetSelectedType(y)
    <2>1. UNCHANGED screen
      BY <1>12 DEF ToggleMasked, SetSelectedType
    <2>2. ShownIsNewest'
      BY <1>4, <1>5, <2>1 DEF ShownIsNewest
    <2> QED  BY <1>3, <1>4, <1>5, <2>1, <2>2, ScreenRight DEF OneSave
  <1> QED  BY <1>6, <1>7, <1>8, <1>10, <1>11, <1>12

\* Shares, and the list on its way to the storage
LEMMA QuietRight ==
    ASSUME KeyInv, MaskInv, Right, Calm',
           \/ UNCHANGED vaultVars \/ FlushList
           \/ \E n \in 1..2 : \/ DecryptToTemp(n) \/ CloseSheet(n) \/ CleanTemp(n)
                               \/ \E i \in DocIds : StartShare(n, i)
    PROVE  Right'
  <1>1. /\ UNCHANGED <<docFiles, screen, saves>>
        /\ Counting
    BY DEF vaultVars, FlushList, DecryptToTemp, CloseSheet, CleanTemp, StartShare, Counting, Incidents
  <1>2. NewestList' = NewestList
    <2>1. CASE FlushList
      BY <2>1, NewestFlushed DEF MaskInv, ListsMasked
    <2>2. CASE ~FlushList
      <3>1. UNCHANGED <<docList, docWrites>>
        BY <2>2 DEF vaultVars, DecryptToTemp, CloseSheet, CleanTemp, StartShare
      <3> QED  BY <3>1 DEF NewestList
    <2> QED  BY <2>1, <2>2
  <1>3. vaultCount'.docs = vaultCount.docs
    BY <1>1, CountStays
  <1>4. ShownIsNewest' /\ (saves["front"].pc # "idle" => screen'.open /\ ~screen'.loading)
    BY <1>1, <1>2 DEF Right, ShownIsNewest, OneSave
  <1> QED  BY <1>1, <1>2, <1>3, <1>4, ScreenRight

\* The save goes on: it may make the file of its own document.
LEMMA ProgressRight ==
    ASSUME MaskInv, Right, NEW new, saves' = [saves EXCEPT !["front"] = new], saves["front"].pc # "idle",
           new.pc # "idle", new.doc = saves["front"].doc,
           \A i \in DocIds : i # new.doc => docFiles'[i] = docFiles[i],
           new.pc = "unlink" => docFiles'[new.doc].enc # <<None, None>>,
           UNCHANGED <<docList, docWrites, screen>>, vaultCount'.docs = vaultCount.docs
    PROVE  Right'
  <1>1. NewestList' = NewestList
    BY DEF NewestList
  <1>2. saves'["front"] = new /\ saves'["left"] = saves["left"]
    BY DEF MaskInv, SavesMasked, Slots
  <1>3. OneSave' /\ Numbered' /\ ShownIsNewest'
    BY <1>1, <1>2 DEF Right, OneSave, Numbered, ShownIsNewest
  <1>4. \A i \in DocIds : FileRight(i)'
    BY <1>1, <1>2 DEF Right, FileRight
  <1> QED  BY <1>3, <1>4 DEF Right

LEMMA SavingRight ==
    ASSUME KeyInv, MaskInv, Found, Right, Calm', NEW s \in Slots,
           CopyFile(s) \/ EncryptFile(s) \/ \E k \in KeyKinds : ReadKey(s, k) \/ WriteKey(s, k)
    PROVE  Right'
  <1>1. /\ vaultCount \in Counts /\ docFiles \in Files /\ keyStore \in [KeyKinds -> Nat]
        /\ saves \in [Slots -> MaskedSaves]
    BY DEF KeyInv, Types, MaskInv, SavesMasked
  <1>2. ~Fails
    BY <1>1, NotCalm DEF Fails
  <1>3. saves[s].pc # "idle"
    BY DEF CopyFile, EncryptFile, ReadKey, WriteKey, KeyKinds
  <1>4. s = "front" /\ saves["front"] \in MaskedSaves /\ saves["front"].doc \in DocIds
    BY <1>1, <1>3 DEF Right, OneSave, Slots, MaskedSaves
  <1>5. UNCHANGED <<docList, docWrites, screen>>
    BY DEF CopyFile, EncryptFile, ReadKey, WriteKey
  <1> DEFINE v == saves["front"]
  <1>6. CASE CopyFile(s)
    <2> DEFINE new == [v EXCEPT !.pc = "master"]
    <2>1. /\ saves' = [saves EXCEPT !["front"] = new] /\ UNCHANGED vaultCount
          /\ docFiles' = [docFiles EXCEPT ![v.doc].plain = TRUE]
      BY <1>2, <1>4, <1>6 DEF CopyFile, Step
    <2>2. new.pc = "master" /\ new.doc = v.doc
      BY <1>4 DEF MaskedSaves
    <2>3. \A i \in DocIds : i # v.doc => docFiles'[i] = docFiles[i]
      BY <1>1, <2>1 DEF Files
    <2> HIDE DEF new
    <2> QED  BY <1>3, <1>4, <1>5, <2>1, <2>2, <2>3, ProgressRight
  <1>7. CASE EncryptFile(s)
    <2> DEFINE new == [v EXCEPT !.pc = "unlink"]
    <2>1. /\ saves' = [saves EXCEPT !["front"] = new] /\ UNCHANGED vaultCount /\ v.pc = "encrypt"
          /\ docFiles' = [docFiles EXCEPT ![v.doc].enc = <<v.key["master"], v.key["salt"]>>]
      BY <1>4, <1>7 DEF EncryptFile, Step
    <2>2. new.pc = "unlink" /\ new.doc = v.doc
      BY <1>4 DEF MaskedSaves
    <2>3. /\ \A i \in DocIds : i # v.doc => docFiles'[i] = docFiles[i]
          /\ docFiles'[v.doc].enc = <<v.key["master"], v.key["salt"]>>
      BY <1>1, <1>4, <2>1 DEF Files
    <2>4. v.key["master"] # None
      BY <1>4, <2>1 DEF Found, HasMaster
    <2>5. docFiles'[v.doc].enc # <<None, None>>
      BY <2>3, <2>4
    <2> HIDE DEF new
    <2> QED  BY <1>3, <1>4, <1>5, <2>1, <2>2, <2>3, <2>5, ProgressRight
  <1>8. ASSUME NEW k \in KeyKinds, ReadKey(s, k) \/ WriteKey(s, k) PROVE Right'
    <2>1. PICK pc, key : /\ saves' = [saves EXCEPT !["front"] = [v EXCEPT !.key = key, !.pc = pc]]
                         /\ pc \in {"newMaster", "newSalt", "salt", "encrypt"}
      <3>1. CASE ReadKey(s, k)
        <4> DEFINE pc == IF keyStore[k] = None THEN (IF k = "master" THEN "newMaster" ELSE "newSalt")
                         ELSE (IF k = "master" THEN "salt" ELSE "encrypt")
        <4>1. saves' = [saves EXCEPT !["front"] = [v EXCEPT !.key = [v.key EXCEPT ![k] = keyStore[k]], !.pc = pc]]
          BY <1>4, <3>1, Zenon DEF ReadKey
        <4>2. pc \in {"newMaster", "newSalt", "salt", "encrypt"}
          OBVIOUS
        <4> HIDE DEF pc
        <4> QED  BY <4>1, <4>2, Zenon
      <3>2. CASE WriteKey(s, k)
        <4> DEFINE pc == IF k = "master" THEN "salt" ELSE "encrypt"
        <4>0. saves' = [saves EXCEPT ![s] = [saves[s] EXCEPT !.key = [saves[s].key EXCEPT ![k] = vaultCount.keys + 1], !.pc = pc]]
          BY <3>2, Zenon DEF WriteKey
        <4>1. saves' = [saves EXCEPT !["front"] = [v EXCEPT !.key = [v.key EXCEPT ![k] = vaultCount.keys + 1], !.pc = pc]]
          BY <1>4, <4>0
        <4>2. pc \in {"newMaster", "newSalt", "salt", "encrypt"}
          OBVIOUS
        <4> HIDE DEF pc
        <4> QED  BY <4>1, <4>2, Zenon
      <3> QED  BY <1>8, <3>1, <3>2
    <2> DEFINE new == [v EXCEPT !.key = key, !.pc = pc]
    <2>2. new.pc = pc /\ new.doc = v.doc
      BY <1>4 DEF MaskedSaves
    <2>3. UNCHANGED docFiles /\ vaultCount'.docs = vaultCount.docs
      BY <1>1, <1>8 DEF ReadKey, WriteKey, Counts
    <2>4. saves' = [saves EXCEPT !["front"] = new]
      BY <2>1
    <2> HIDE DEF new
    <2> QED  BY <1>3, <1>4, <1>5, <2>1, <2>2, <2>3, <2>4, ProgressRight
  <1> QED  BY <1>6, <1>7, <1>8

\* The newest document is added; its file is there exactly when it says so.
LEMMA AddedRight ==
    ASSUME MaskInv, Right, NEW d \in MaskedDocs, Added("front", d), UNCHANGED docList,
           d.id = vaultCount'.docs, vaultCount.docs <= d.id, vaultCount.docs \in Nat,
           \A e \in Elems(NewestList) : e.id < d.id,
           screen.open, ~screen.loading, saves["front"].pc # "idle" => saves["front"].doc = d.id,
           \A i \in DocIds : i # d.id => docFiles'[i] = docFiles[i],
           ~docFiles'[d.id].plain, docFiles'[d.id].enc # <<None, None>> <=> d.file = "enc"
    PROVE  Right'
  <1>1. /\ docWrites \in Seq(Seq(MaskedDocs)) /\ screen \in Screens /\ saves \in [Slots -> MaskedSaves]
    BY DEF MaskInv, ListsMasked, FormMasked, SavesMasked
  <1>2. NewestList \in Seq(MaskedDocs) /\ screen.docs = NewestList /\ Unique(NewestList)
    BY DEF MaskInv, ListsMasked, NewestList, Right, ShownIsNewest, Numbered
  <1>3. \A e \in Elems(NewestList) : e \in MaskedDocs /\ e.id \in Nat
    BY <1>2 DEF Elems, MaskedDocs, Document, DocIds
  <1>4. d.id \in DocIds /\ d.id \in Nat
    BY DEF MaskedDocs, Document, DocIds
  <1>5. Elems(<<d>> \o NewestList) = {d} \cup Elems(NewestList) /\ Unique(<<d>> \o NewestList)
    <2>1. \A e \in Elems(NewestList) : e.id # d.id
      BY <1>3, <1>4
    <2> QED  BY <1>2, <2>1, ElemsOneMore
  <1>6. /\ docWrites' = Append(docWrites, <<d>> \o NewestList)
        /\ screen' = [screen EXCEPT !.docs = <<d>> \o NewestList, !.dialog = "none"]
        /\ saves' = [saves EXCEPT !["front"] = IdleSave]
    BY <1>2 DEF Added
  <1>7. NewestList' = <<d>> \o NewestList
    <2>1. <<d>> \o NewestList \in Seq(MaskedDocs)
      BY <1>2, OneMore
    <2> QED  BY <1>1, <1>6, <2>1, NewestWritten
  <1>8. screen'.open /\ ~screen'.loading /\ screen'.docs = NewestList'
    BY <1>1, <1>6, <1>7 DEF Screens
  <1>9. saves'["front"].pc = "idle" /\ saves'["left"] = saves["left"]
    BY <1>1, <1>6 DEF Slots, IdleSave
  <1>10. OneSave' /\ ShownIsNewest'
    BY <1>8, <1>9 DEF Right, OneSave, ShownIsNewest
  <1>11. Numbered'
    <2>1. \A e \in Elems(NewestList') : e.id <= vaultCount'.docs
      BY <1>3, <1>4, <1>5, <1>7
    <2> QED  BY <1>5, <1>7, <1>9, <2>1 DEF Numbered
  <1>12. ASSUME NEW i \in DocIds PROVE FileRight(i)'
    <2>1. Elems(NewestList') = {d} \cup Elems(NewestList)
      BY <1>5, <1>7
    <2>2. CASE i = d.id
      <3>1. (\E e \in Elems(NewestList') : e.id = i /\ e.file = "enc") <=> d.file = "enc"
        BY <1>3, <1>4, <2>1, <2>2
      <3> QED  BY <1>9, <2>2, <3>1 DEF FileRight
    <2>3. CASE i # d.id
      <3>1. (\E e \in Elems(NewestList') : e.id = i /\ e.file = "enc")
               <=> \E e \in Elems(NewestList) : e.id = i /\ e.file = "enc"
        BY <2>1, <2>3
      <3>2. /\ ~docFiles[i].plain
            /\ docFiles[i].enc # <<None, None>> <=> \E e \in Elems(NewestList) : e.id = i /\ e.file = "enc"
        BY <2>3 DEF Right, FileRight
      <3> QED  BY <1>9, <2>3, <3>1, <3>2 DEF FileRight
    <2> QED  BY <2>2, <2>3
  <1> QED  BY <1>10, <1>11, <1>12 DEF Right

LEMMA EndingRight ==
    ASSUME KeyInv, MaskInv, Right, Calm', NEW s \in Slots, UnlinkAndAdd(s) \/ FallBackToPlain(s)
    PROVE  Right'
  <1>1. /\ vaultCount \in Counts /\ docFiles \in Files /\ saves \in [Slots -> MaskedSaves]
        /\ NewestList \in Seq(MaskedDocs)
    BY DEF KeyInv, Types, MaskInv, SavesMasked, ListsMasked, NewestList
  <1>2. ~Fails
    BY <1>1, NotCalm DEF Fails
  <1>3. UnlinkAndAdd(s) /\ saves[s].pc = "unlink"
    BY <1>2 DEF UnlinkAndAdd, FallBackToPlain
  <1>4. s = "front" /\ saves["front"] \in MaskedSaves
    BY <1>1, <1>3 DEF Right, OneSave, Slots
  <1> DEFINE v == saves["front"]
             d == DocumentOf(v, "enc")
  <1>5. /\ docFiles' = [docFiles EXCEPT ![v.doc].plain = FALSE] /\ Added("front", d)
        /\ UNCHANGED <<docList, vaultCount>> /\ v.pc = "unlink"
    BY <1>3, <1>4 DEF UnlinkAndAdd
  <1>6. d \in MaskedDocs
    BY <1>4, <1>5, SavedIsMasked
  <1>7. d.id = v.doc /\ d.file = "enc" /\ v.doc \in DocIds
    BY <1>4, <1>5 DEF DocumentOf, MaskedSaves
  <1>8. /\ \A i \in DocIds : i # v.doc => docFiles'[i] = docFiles[i]
        /\ ~docFiles'[v.doc].plain /\ docFiles'[v.doc].enc = docFiles[v.doc].enc
    BY <1>1, <1>5, <1>7 DEF Files
  <1>9. docFiles[v.doc].enc # <<None, None>>
    BY <1>5, <1>7 DEF Right, FileRight
  <1>10. /\ v.doc = vaultCount.docs /\ screen.open /\ ~screen.loading
         /\ \A e \in Elems(NewestList) : e.id < vaultCount.docs
    BY <1>5 DEF Right, OneSave, Numbered
  <1>11. vaultCount.docs \in Nat
    BY <1>1 DEF Counts
  <1> HIDE DEF d
  <1> QED  BY <1>5, <1>6, <1>7, <1>8, <1>9, <1>10, <1>11, AddedRight

LEMMA BeginRight ==
    ASSUME KeyInv, MaskInv, Right, HandleSave
    PROVE  Right'
  <1> DEFINE v == [IdleSave EXCEPT !.pc = "copy", !.doc = vaultCount.docs + 1,
                                   !.form = form, !.consented = consent.agreed]
             d == DocumentOf(v, "none")
             next == vaultCount.docs + 1
  <1>1. /\ vaultCount \in Counts /\ docFiles \in Files /\ saves \in [Slots -> MaskedSaves]
        /\ NewestList \in Seq(MaskedDocs) /\ form \in SeenForms /\ consent \in [agreed: BOOLEAN, stored: BOOLEAN]
    BY DEF KeyInv, Types, MaskInv, SavesMasked, FormMasked, ListsMasked, NewestList
  <1>2. /\ vaultCount.docs \in Nat /\ next \in DocIds /\ vaultCount'.docs = next
    BY <1>1, VaultAssumption DEF HandleSave, Counts, DocIds
  <1>3. saves["front"].pc = "idle" /\ screen.open /\ screen.dialog # "none"
    BY DEF HandleSave, Offers, Dialog, AddDocModal, SaveDisabled
  <1>4. ~screen.loading
    BY <1>3 DEF Right, ShownIsNewest
  <1>5. \A e \in Elems(NewestList) : e.id \in Nat /\ e.id <= vaultCount.docs
    <2>1. \A e \in Elems(NewestList) : e \in MaskedDocs
      BY <1>1 DEF Elems
    <2> QED  BY <2>1 DEF Right, Numbered, MaskedDocs, Document, DocIds
  <1>6. ~docFiles[next].plain /\ docFiles[next].enc = <<None, None>>
    <2>1. \A e \in Elems(NewestList) : e.id # next
      BY <1>2, <1>5
    <2> QED  BY <1>2, <1>3, <2>1 DEF Right, FileRight
  <1>7. UNCHANGED <<docFiles, docList>>
    BY DEF HandleSave
  <1>8. v.pc = "copy" /\ v.doc = next /\ v.form = form /\ v.consented = consent.agreed
    BY DEF IdleSave
  <1>9. CASE form.file
    <2>1. saves' = [saves EXCEPT !["front"] = v] /\ UNCHANGED <<docWrites, screen>>
      BY <1>9 DEF HandleSave
    <2> HIDE DEF v
    <2>2. saves'["front"] = v /\ saves'["left"] = saves["left"]
      BY <1>1, <2>1 DEF Slots
    <2>3. NewestList' = NewestList
      BY <1>7, <2>1 DEF NewestList
    <2>4. OneSave' /\ ShownIsNewest'
      BY <1>2, <1>3, <1>4, <1>8, <2>1, <2>2, <2>3 DEF Right, OneSave, ShownIsNewest
    <2>5. Numbered'
      <3>1. \A e \in Elems(NewestList) : e.id <= next /\ e.id < next
        BY <1>2, <1>5
      <3> QED  BY <1>2, <2>3, <3>1 DEF Right, Numbered
    <2>6. \A i \in DocIds : FileRight(i)'
      BY <1>3, <1>7, <1>8, <2>2, <2>3 DEF Right, FileRight
    <2> QED  BY <2>4, <2>5, <2>6 DEF Right
  <1>10. CASE ~form.file
    <2>1. Added("front", d)
      BY <1>10 DEF HandleSave
    <2>2. d.id = next /\ d.file = "none"
      BY <1>8 DEF DocumentOf
    <2>3. d \in MaskedDocs
      <3> HIDE DEF RiskyTypes, v
      <3> QED  BY <1>1, <1>2, <1>8 DEF DocumentOf, MaskedDocs, Document, SeenForms
    <2>4. \A e \in Elems(NewestList) : e.id < d.id
      BY <1>2, <1>5, <2>2
    <2>5. vaultCount.docs <= d.id
      BY <1>2, <2>2
    <2>6. /\ ~docFiles'[d.id].plain /\ (docFiles'[d.id].enc # <<None, None>> <=> d.file = "enc")
          /\ \A i \in DocIds : i # d.id => docFiles'[i] = docFiles[i]
      BY <1>6, <1>7, <2>2
    <2>7. d.id = vaultCount'.docs
      BY <1>2, <2>2
    <2> HIDE DEF d, next
    <2> QED  BY <1>2, <1>3, <1>4, <1>7, <2>1, <2>3, <2>4, <2>5, <2>6, <2>7, AddedRight
  <1> QED  BY <1>9, <1>10

LEMMA DeleteRight ==
    ASSUME KeyInv, MaskInv, Right, Calm', NEW n \in DocIds, HandleDelete(n)
    PROVE  Right'
  <1> DEFINE d == screen.docs[n]
             rest == Without(screen.docs, n)
  <1>1. /\ vaultCount \in Counts /\ docFiles \in Files /\ screen \in Screens
        /\ NewestList \in Seq(MaskedDocs) /\ docWrites \in Seq(Seq(MaskedDocs))
    BY DEF KeyInv, Types, MaskInv, FormMasked, ListsMasked, NewestList
  <1>2. ~Fails
    BY <1>1, NotCalm DEF Fails
  <1>3. /\ n \in DOMAIN screen.docs /\ screen.open /\ screen.dialog = "none"
        /\ screen' = [screen EXCEPT !.docs = rest] /\ docWrites' = Append(docWrites, rest)
        /\ docFiles' = CASE d.file = "enc" -> [docFiles EXCEPT ![d.id].enc = <<None, None>>]
                         [] d.file = "plain" -> [docFiles EXCEPT ![d.id].plain = FALSE]
                         [] OTHER -> docFiles
        /\ UNCHANGED <<docList, saves, vaultCount>>
    BY <1>2 DEF HandleDelete, Dialog
  <1>4. ~screen.loading /\ screen.docs = NewestList
    <2>1. screen.docs # <<>>
      BY <1>3
    <2> QED  BY <1>3, <2>1 DEF Right, ShownIsNewest
  <1>5. Unique(NewestList) /\ d \in Elems(NewestList) /\ d \in MaskedDocs
    BY <1>1, <1>3, <1>4 DEF Right, Numbered, Elems
  <1>6. rest \in Seq(MaskedDocs) /\ Elems(rest) = Elems(NewestList) \ {d} /\ Unique(rest)
    BY <1>1, <1>3, <1>4, <1>5, OneLess, ElemsOneLess
  <1>7. NewestList' = rest
    BY <1>1, <1>3, <1>6, NewestWritten
  <1>8. \A e \in Elems(NewestList) : e.id = d.id => e = d
    BY <1>3, <1>4 DEF Right, Numbered, Unique, Elems
  <1>9. d.id \in DocIds /\ d.file \in {"none", "plain", "enc"}
    BY <1>5 DEF MaskedDocs, Document
  <1>10. /\ \A i \in DocIds : i # d.id => docFiles'[i] = docFiles[i]
         /\ docFiles'[d.id].plain => docFiles[d.id].plain
         /\ d.file = "enc" => docFiles'[d.id].enc = <<None, None>>
         /\ d.file # "enc" => docFiles'[d.id].enc = docFiles[d.id].enc
    <2>1. CASE d.file = "enc"
      <3>1. docFiles' = [docFiles EXCEPT ![d.id].enc = <<None, None>>]
        BY <1>3, <2>1
      <3> HIDE DEF d
      <3> QED  BY <1>1, <1>9, <2>1, <3>1 DEF Files
    <2>2. CASE d.file = "plain"
      <3>1. docFiles' = [docFiles EXCEPT ![d.id].plain = FALSE]
        BY <1>3, <2>2
      <3> HIDE DEF d
      <3> QED  BY <1>1, <1>9, <2>2, <3>1 DEF Files
    <2>3. CASE d.file = "none"
      BY <1>3, <2>3
    <2> QED  BY <1>9, <2>1, <2>2, <2>3
  <1>11. screen'.open = screen.open /\ screen'.loading = screen.loading /\ screen'.docs = rest
    BY <1>1, <1>3 DEF Screens
  <1> HIDE DEF d, rest
  <1>12. OneSave' /\ ShownIsNewest'
    BY <1>3, <1>4, <1>7, <1>11 DEF Right, OneSave, ShownIsNewest
  <1>13. Numbered'
    BY <1>3, <1>6, <1>7 DEF Right, Numbered
  <1>14. ASSUME NEW i \in DocIds PROVE FileRight(i)'
    <2>1. CASE i # d.id
      <3>1. (\E e \in Elems(NewestList') : e.id = i /\ e.file = "enc")
               <=> \E e \in Elems(NewestList) : e.id = i /\ e.file = "enc"
        BY <1>6, <1>7, <2>1
      <3> QED  BY <1>3, <1>10, <2>1, <3>1 DEF Right, FileRight
    <2>2. CASE i = d.id
      <3>1. ~(saves["front"].pc # "idle" /\ saves["front"].doc = i)
        <4> SUFFICES ASSUME saves["front"].pc # "idle", saves["front"].doc = i PROVE FALSE
          OBVIOUS
        <4>1. i = vaultCount.docs /\ i < vaultCount.docs
          BY <1>5, <2>2 DEF Right, OneSave, Numbered
        <4> QED  BY <1>1, <4>1 DEF Counts
      <3>2. ~docFiles[i].plain
            /\ (docFiles[i].enc # <<None, None>> <=> \E e \in Elems(NewestList) : e.id = i /\ e.file = "enc")
        BY <3>1 DEF Right, FileRight
      <3>3. (\E e \in Elems(NewestList) : e.id = i /\ e.file = "enc") <=> d.file = "enc"
        BY <1>5, <1>8, <2>2
      <3>4. ~\E e \in Elems(NewestList') : e.id = i /\ e.file = "enc"
        BY <1>6, <1>7, <1>8, <2>2
      <3>5. ~docFiles'[i].plain /\ docFiles'[i].enc = <<None, None>>
        BY <1>10, <2>2, <3>2, <3>3
      <3> QED  BY <1>3, <3>1, <3>4, <3>5 DEF FileRight
    <2> QED  BY <2>1, <2>2
  <1> QED  BY <1>12, <1>13, <1>14 DEF Right

LEMMA QuarterRight ==
    ASSUME KeyInv, MaskInv, Right, QuarterPasses
    PROVE  Right'
  <1>1. /\ docWrites = <<>> /\ ~screen.open
        /\ docList' = [n \in DOMAIN docList |-> [docList[n] EXCEPT !.aged = TRUE]]
        /\ UNCHANGED <<docWrites, docFiles, screen, saves, vaultCount>>
    BY DEF QuarterPasses
  <1>2. NewestList = docList /\ NewestList' = docList' /\ docList \in Seq(MaskedDocs)
    BY <1>1 DEF NewestList, MaskInv, ListsMasked
  <1>3. saves["front"].pc = "idle"
    BY <1>1 DEF Right, OneSave
  <1>4. /\ DOMAIN docList' = DOMAIN docList
        /\ \A n \in DOMAIN docList : docList'[n].id = docList[n].id /\ docList'[n].file = docList[n].file
    <2>1. \A n \in DOMAIN docList : docList[n] \in Document
      BY <1>2 DEF MaskedDocs
    <2>2. \A e \in Document : [e EXCEPT !.aged = TRUE].id = e.id /\ [e EXCEPT !.aged = TRUE].file = e.file
      BY DEF Document
    <2> QED  BY <1>1, <2>1, <2>2
  <1>5. OneSave' /\ ShownIsNewest'
    BY <1>1 DEF Right, OneSave, ShownIsNewest
  <1>6. Numbered'
    <2>1. Unique(docList')
      BY <1>2, <1>4 DEF Right, Numbered, Unique
    <2>2. \A e \in Elems(docList') : e.id <= vaultCount.docs
      BY <1>2, <1>4 DEF Right, Numbered, Elems
    <2> QED  BY <1>1, <1>2, <1>3, <2>1, <2>2 DEF Numbered
  <1>7. ASSUME NEW i \in DocIds PROVE FileRight(i)'
    <2>1. (\E e \in Elems(docList') : e.id = i /\ e.file = "enc")
             <=> \E e \in Elems(docList) : e.id = i /\ e.file = "enc"
      BY <1>4 DEF Elems
    <2> QED  BY <1>1, <1>2, <1>3, <2>1 DEF Right, FileRight
  <1> QED  BY <1>5, <1>6, <1>7 DEF Right

LEMMA RightInit == VaultInit => FilesInv
  <1> SUFFICES ASSUME VaultInit PROVE FilesInv
    OBVIOUS
  <1>1. /\ docList = <<>> /\ docWrites = <<>> /\ screen = ClosedScreen /\ saves = [s \in Slots |-> IdleSave]
        /\ docFiles = [i \in DocIds |-> [plain |-> FALSE, enc |-> <<None, None>>]]
    BY DEF VaultInit
  <1>2. \A s \in Slots : saves[s].pc = "idle"
    BY <1>1 DEF IdleSave
  <1>3. NewestList = <<>> /\ Elems(NewestList) = {} /\ Unique(NewestList)
    BY <1>1 DEF NewestList, Elems, Unique
  <1>4. Found
    BY <1>2 DEF Found, HasMaster
  <1>5. OneSave /\ ShownIsNewest /\ Numbered
    BY <1>1, <1>2, <1>3 DEF OneSave, ShownIsNewest, Numbered, ClosedScreen, Slots
  <1>6. \A i \in DocIds : FileRight(i)
    BY <1>1, <1>2, <1>3 DEF FileRight, Slots
  <1> QED  BY <1>4, <1>5, <1>6 DEF FilesInv, Right

LEMMA RightStep == KeyInv /\ MaskInv /\ FilesInv /\ [VaultNext]_vaultVars => FilesInv'
  <1> SUFFICES ASSUME KeyInv, MaskInv, FilesInv, [VaultNext]_vaultVars PROVE FilesInv'
    OBVIOUS
  <1>1. Found'
    BY FoundStep DEF FilesInv
  <1> SUFFICES ASSUME Calm' PROVE Right'
    BY <1>1 DEF FilesInv
  <1>2. Right /\ Found
    BY IncidentsStay DEF FilesInv, Calm
  <1>3. vaultCount \in Counts
    BY DEF KeyInv, Types
  <1>4. ~RestartApp
    BY <1>3, NotCalm DEF RestartApp
  <1>5. ASSUME NEW s \in Slots,
               \/ CopyFile(s) \/ EncryptFile(s) \/ UnlinkAndAdd(s) \/ FallBackToPlain(s)
               \/ \E k \in KeyKinds : ReadKey(s, k) \/ WriteKey(s, k)
        PROVE  Right'
    BY <1>2, <1>5, SavingRight, EndingRight
  <1>6. ASSUME NEW n \in DocIds, HandleDelete(n) PROVE Right'
    BY <1>2, <1>6, DeleteRight
  <1>7. CASE HandleSave \/ QuarterPasses
    BY <1>2, <1>7, BeginRight, QuarterRight
  <1>8. CASE \/ UNCHANGED vaultVars \/ FlushList
             \/ \E n \in 1..2 : \/ DecryptToTemp(n) \/ CloseSheet(n) \/ CleanTemp(n)
                                 \/ \E i \in DocIds : StartShare(n, i)
    BY <1>2, <1>8, QuietRight
  <1>9. CASE \/ OpenVault \/ LoadDocuments \/ LeaveVault \/ OpenDialog \/ CloseDialog
             \/ \E y \in TypesInPlay : SetSelectedType(y)
             \/ HandleAttachPress \/ ConsentModal \/ ConsentPersisted \/ PickFile \/ ScanPreview
             \/ ToggleMasked
    BY <1>2, <1>9, DialogRight
  <1> QED  BY <1>4, <1>5, <1>6, <1>7, <1>8, <1>9, Zenon DEF VaultNext

\* As long as nothing fails but the making and deleting of decrypted copies, no screen is
\* left during a save and the app is not killed, the newest list and the vault directory agree, document by document: the encrypted file is
\* there exactly when a listed document says so, and no plain copy stays behind
\* (handleSave, persistFile, encryptFile, handleDelete, saveDocuments and loadDocuments),
\* although the list is written without waiting for it and a share may run at any time.
THEOREM FilesFollowTheList == VaultSpec => []ListMatchesFiles
  <1>1. VaultInit => KeyInv /\ MaskInv /\ FilesInv
    BY KeyInit, MaskInit, RightInit
  <1>2. (KeyInv /\ MaskInv /\ FilesInv) /\ [VaultNext]_vaultVars => (KeyInv /\ MaskInv /\ FilesInv)'
    BY KeyStep, MaskStep, RightStep
  <1>3. KeyInv /\ MaskInv /\ FilesInv => ListMatchesFiles
    <2> SUFFICES ASSUME FilesInv, Calm, NEW i \in DocIds, ~Saving(i)
                 PROVE  LET d == {NewestList[n] : n \in {m \in DOMAIN NewestList : NewestList[m].id = i}}
                        IN  /\ ~docFiles[i].plain
                            /\ docFiles[i].enc # <<None, None>> <=> \E e \in d : e.file = "enc"
      BY DEF ListMatchesFiles, Calm
    <2>1. /\ ~docFiles[i].plain
          /\ docFiles[i].enc # <<None, None>> <=> \E d \in Elems(NewestList) : d.id = i /\ d.file = "enc"
      BY DEF FilesInv, Right, FileRight, Saving, Slots
    <2>2. (\E d \in Elems(NewestList) : d.id = i /\ d.file = "enc")
             <=> \E e \in {NewestList[n] : n \in {m \in DOMAIN NewestList : NewestList[m].id = i}} : e.file = "enc"
      BY DEF Elems
    <2> QED  BY <2>1, <2>2
  <1> QED  BY <1>1, <1>2, <1>3, PTL DEF VaultSpec

-----------------------------------------------------------------------------
(* The type of the vault: how long the lists are                           *)

\* The lists of at most n documents
ListsUpTo(n) == {l \in Seq(MaskedDocs) : Len(l) <= n}
UnderWay(s) == IF saves[s].pc = "idle" THEN 0 ELSE 1

\* A document is counted when its save begins and listed when it ends; so every list that
\* is stored, waiting or shown, and every one that a save will grow, is within the count.
\* Only an open screen that has loaded its list has a dialog, and a save of its own.
FitInv ==
    /\ docList \in ListsUpTo(vaultCount.docs) /\ docWrites \in Seq(ListsUpTo(vaultCount.docs))
    /\ Len(screen.docs) + UnderWay("front") <= vaultCount.docs
    /\ Len(saves["left"].docs) + UnderWay("left") <= vaultCount.docs
    /\ saves["front"].docs = <<>>
    /\ saves["front"].pc # "idle" \/ screen.dialog # "none" => screen.open /\ ~screen.loading

LEMMA ListsGrow == ASSUME NEW n \in Nat PROVE ListsUpTo(n) \subseteq ListsUpTo(n + 1) /\ Seq(ListsUpTo(n)) \subseteq Seq(ListsUpTo(n + 1))
  <1>1. ListsUpTo(n) \subseteq ListsUpTo(n + 1)
    BY DEF ListsUpTo
  <1> HIDE DEF ListsUpTo
  <1>2. ASSUME NEW l \in Seq(ListsUpTo(n)) PROVE l \in Seq(ListsUpTo(n + 1))
    <2>1. l \in [1..Len(l) -> ListsUpTo(n)] /\ Len(l) \in Nat
      BY <1>2
    <2>2. l \in [1..Len(l) -> ListsUpTo(n + 1)]
      BY <1>1, <2>1
    <2> QED  BY <2>1, <2>2, SeqDef
  <1> QED  BY <1>1, <1>2

LEMMA FitFacts ==
    ASSUME KeyInv, MaskInv, FitInv
    PROVE  /\ vaultCount \in Counts /\ vaultCount.docs \in Nat
           /\ screen \in Screens /\ screen.docs \in Seq(MaskedDocs) /\ Len(screen.docs) \in Nat
           /\ saves \in [Slots -> MaskedSaves]
           /\ \A s \in Slots : saves[s] \in MaskedSaves /\ saves[s].docs \in Seq(MaskedDocs) /\ Len(saves[s].docs) \in Nat
           /\ \A s \in Slots : Len(saves[s].docs) + UnderWay(s) <= vaultCount.docs
           /\ NewestList \in ListsUpTo(vaultCount.docs)
           /\ Slots = {"front", "left"} /\ IdleSave.pc = "idle" /\ IdleSave.docs = <<>>
  <1>1. vaultCount \in Counts /\ vaultCount.docs \in Nat /\ screen \in Screens /\ saves \in [Slots -> MaskedSaves]
    BY DEF KeyInv, Types, Counts, MaskInv, FormMasked, SavesMasked
  <1>2. screen.docs \in Seq(MaskedDocs) /\ Len(screen.docs) \in Nat
    BY <1>1 DEF Screens
  <1>3. \A s \in Slots : saves[s] \in MaskedSaves /\ saves[s].docs \in Seq(MaskedDocs) /\ Len(saves[s].docs) \in Nat
    BY <1>1 DEF MaskedSaves
  <1>4. NewestList \in ListsUpTo(vaultCount.docs)
    <2> HIDE DEF ListsUpTo
    <2> QED  BY DEF FitInv, NewestList
  <1>5. Slots = {"front", "left"} /\ IdleSave.pc = "idle" /\ IdleSave.docs = <<>>
    BY DEF Slots, IdleSave
  <1>6. \A s \in Slots : Len(saves[s].docs) + UnderWay(s) <= vaultCount.docs
    <2>1. Len(<<>>) = 0 /\ Len(screen.docs) >= 0 /\ UnderWay("front") \in 0..1
      BY <1>2 DEF UnderWay
    <2>2. Len(saves["front"].docs) + UnderWay("front") <= vaultCount.docs
      BY <1>1, <1>2, <2>1 DEF FitInv
    <2> QED  BY <1>5, <2>2 DEF FitInv
  <1> QED  BY <1>1, <1>2, <1>3, <1>4, <1>5, <1>6

\* The screen and its dialogs, the shares, and nothing
LEMMA DialogFits ==
    ASSUME KeyInv, MaskInv, FitInv,
           \/ OpenVault \/ LoadDocuments \/ OpenDialog \/ CloseDialog
           \/ \E y \in TypesInPlay : SetSelectedType(y)
           \/ HandleAttachPress \/ ConsentModal \/ ConsentPersisted \/ PickFile \/ ScanPreview
           \/ ToggleMasked \/ UNCHANGED vaultVars
           \/ \E n \in 1..2 : \/ DecryptToTemp(n) \/ CloseSheet(n) \/ CleanTemp(n)
                               \/ \E i \in DocIds : StartShare(n, i)
    PROVE  FitInv'
  <1>1. UNCHANGED <<docList, docWrites, saves>> /\ Counting
    <2>1. "failed" \in Incidents /\ "overlap" \in Incidents /\ "copyFailed" \in Incidents
      BY DEF Incidents
    <2> QED  BY <2>1 DEF OpenVault, LoadDocuments, OpenDialog, CloseDialog, SetSelectedType,
               HandleAttachPress, ConsentModal, ConsentPersisted, PickFile, ScanPreview, ToggleMasked,
               DecryptToTemp, CloseSheet, CleanTemp, StartShare, vaultVars, Fails, Counting
  <1>2. vaultCount'.docs = vaultCount.docs
    BY <1>1, CountStays
  <1>3. screen \in Screens /\ NewestList \in ListsUpTo(vaultCount.docs) /\ vaultCount.docs \in Nat
    BY FitFacts
  <1>4. /\ Len(screen'.docs) + UnderWay("front") <= vaultCount.docs
        /\ saves["front"].pc # "idle" \/ screen'.dialog # "none" => screen'.open /\ ~screen'.loading
    <2>1. CASE UNCHANGED screen
      BY <2>1 DEF FitInv
    <2>2. CASE OpenVault
      <3>1. screen'.docs = <<>> /\ screen'.dialog = "none" /\ ~screen.open
        BY <2>2 DEF OpenVault, ClosedScreen
      <3>2. saves["front"].pc = "idle" /\ Len(<<>>) = 0
        BY <3>1 DEF FitInv
      <3> QED  BY <1>3, <3>1, <3>2 DEF UnderWay
    <2>3. CASE LoadDocuments
      <3>1. /\ screen.open /\ screen.loading
            /\ \/ screen' = [screen EXCEPT !.loading = FALSE, !.docs = NewestList]
               \/ screen' = [screen EXCEPT !.loading = FALSE]
        BY <2>3 DEF LoadDocuments
      <3>2. saves["front"].pc = "idle" /\ screen.dialog = "none" /\ Len(NewestList) <= vaultCount.docs
        BY <1>3, <3>1 DEF FitInv, ListsUpTo
      <3>3. screen'.open /\ ~screen'.loading /\ screen'.docs \in {screen.docs, NewestList}
        BY <1>3, <3>1 DEF Screens
      <3> QED  BY <3>2, <3>3 DEF FitInv, UnderWay
    <2>4. ASSUME NEW d, screen' = [screen EXCEPT !.dialog = d], screen.open, ~screen.loading
          PROVE  /\ Len(screen'.docs) + UnderWay("front") <= vaultCount.docs
                 /\ saves["front"].pc # "idle" \/ screen'.dialog # "none" => screen'.open /\ ~screen'.loading
      BY <1>3, <2>4 DEF Screens, FitInv
    <2>5. CASE OpenDialog
      <3>1. screen' = [screen EXCEPT !.dialog = "form"] /\ screen.open /\ ~screen.loading
        BY <2>5 DEF OpenDialog, Dialog, VaultView
      <3> QED  BY <2>4, <3>1
    <2>6. CASE \/ CloseDialog \/ HandleAttachPress \/ ConsentModal \/ ConsentPersisted \/ PickFile \/ ScanPreview
      <3>1. screen.dialog # "none" /\ \E d : screen' = [screen EXCEPT !.dialog = d]
        BY <2>6, Zenon DEF CloseDialog, HandleAttachPress, ConsentModal, ConsentPersisted, PickFile, ScanPreview, Offers, Dialog
      <3> QED  BY <2>4, <3>1 DEF FitInv
    <2>7. CASE \/ \E y \in TypesInPlay : SetSelectedType(y)
               \/ ToggleMasked \/ UNCHANGED vaultVars
               \/ \E n \in 1..2 : \/ DecryptToTemp(n) \/ CloseSheet(n) \/ CleanTemp(n)
                                  \/ \E i \in DocIds : StartShare(n, i)
      BY <2>1, <2>7 DEF SetSelectedType, ToggleMasked, DecryptToTemp, CloseSheet, CleanTemp, StartShare, vaultVars
    <2> QED  BY <2>2, <2>3, <2>5, <2>6, <2>7
  <1> QED  BY <1>1, <1>2, <1>4 DEF FitInv, UnderWay

\* A save goes on, or ends with nothing.
LEMMA SaveFits ==
    ASSUME KeyInv, MaskInv, FitInv, NEW s \in Slots, NEW new, saves' = [saves EXCEPT ![s] = new],
           saves[s].pc # "idle", new = IdleSave \/ new.docs = saves[s].docs,
           UNCHANGED <<docList, docWrites, screen>>, vaultCount'.docs = vaultCount.docs
    PROVE  FitInv'
  <1>1. /\ saves \in [Slots -> MaskedSaves] /\ vaultCount.docs \in Nat /\ Slots = {"front", "left"}
        /\ IdleSave.pc = "idle" /\ IdleSave.docs = <<>> /\ Len(screen.docs) \in Nat /\ Len(saves["left"].docs) \in Nat
    BY FitFacts
  <1>2. saves'[s] = new /\ \A t \in Slots \ {s} : saves'[t] = saves[t]
    BY <1>1
  <1>3. UnderWay(s) = 1 /\ UnderWay(s)' \in 0..1 /\ \A t \in Slots \ {s} : UnderWay(t)' = UnderWay(t)
    BY <1>2 DEF UnderWay
  <1>4. Len(screen.docs) + UnderWay("front")' <= vaultCount.docs
    <2>1. UnderWay("front")' <= UnderWay("front") /\ UnderWay("front") \in 0..1 /\ UnderWay("front")' \in 0..1
      BY <1>1, <1>2, <1>3 DEF UnderWay
    <2> QED  BY <1>1, <2>1 DEF FitInv
  <1>5. Len(saves'["left"].docs) + UnderWay("left")' <= vaultCount.docs
    <2>1. CASE s = "front"
      BY <1>1, <1>2, <1>3, <2>1 DEF FitInv
    <2>2. CASE s = "left" /\ new = IdleSave
      <3>1. saves'["left"].docs = <<>> /\ UnderWay("left")' = 0 /\ Len(<<>>) = 0
        BY <1>1, <1>2, <2>2 DEF UnderWay
      <3> QED  BY <1>1, <3>1
    <2>3. CASE s = "left" /\ new.docs = saves[s].docs
      BY <1>1, <1>2, <1>3, <2>3 DEF FitInv
    <2> QED  BY <1>1, <2>1, <2>2, <2>3
  <1>6. saves'["front"].docs = <<>>
    BY <1>1, <1>2 DEF FitInv
  <1>7. saves'["front"].pc # "idle" => saves["front"].pc # "idle"
    BY <1>1, <1>2
  <1> QED  BY <1>4, <1>5, <1>6, <1>7 DEF FitInv, UnderWay

\* onAdd of a document, from a save under way or a form without a file
LEMMA AddedFits ==
    ASSUME KeyInv, MaskInv, FitInv, NEW s \in Slots, NEW d \in MaskedDocs, Added(s, d), UNCHANGED docList,
           vaultCount'.docs \in Nat, vaultCount.docs <= vaultCount'.docs,
           docWrites \in Seq(ListsUpTo(vaultCount'.docs)), docList \in ListsUpTo(vaultCount'.docs),
           Len(screen.docs) + (IF s = "front" THEN 1 ELSE UnderWay("front")) <= vaultCount'.docs,
           s = "left" => Len(saves["left"].docs) + 1 <= vaultCount'.docs,
           s = "front" => screen.open /\ ~screen.loading
    PROVE  FitInv'
  <1> DEFINE n == vaultCount'.docs
  <1>1. /\ saves \in [Slots -> MaskedSaves] /\ Slots = {"front", "left"} /\ vaultCount.docs \in Nat
        /\ IdleSave.pc = "idle" /\ IdleSave.docs = <<>> /\ screen \in Screens
        /\ screen.docs \in Seq(MaskedDocs) /\ Len(screen.docs) \in Nat
        /\ saves[s].docs \in Seq(MaskedDocs) /\ Len(saves[s].docs) \in Nat
        /\ Len(saves["left"].docs) \in Nat /\ Len(saves["left"].docs) + UnderWay("left") <= n
    <2>1. Len(saves["left"].docs) + UnderWay("left") <= vaultCount.docs
      BY DEF FitInv
    <2>2. UnderWay("left") \in 0..1
      BY DEF UnderWay
    <2> QED  BY <2>1, <2>2, FitFacts
  <1>2. saves' = [saves EXCEPT ![s] = IdleSave]
    BY DEF Added
  <1>3. saves'[s] = IdleSave /\ \A t \in Slots \ {s} : saves'[t] = saves[t]
    BY <1>1, <1>2
  <1>4. UnderWay(s)' = 0 /\ \A t \in Slots \ {s} : UnderWay(t)' = UnderWay(t)
    BY <1>1, <1>3 DEF UnderWay
  <1>5. /\ Len(saves'["left"].docs) + UnderWay("left")' <= n /\ saves'["front"].docs = <<>>
    <2>1. CASE s = "front"
      BY <1>1, <1>3, <1>4, <2>1
    <2>2. CASE s = "left"
      <3>1. Len(saves'["left"].docs) = 0 /\ UnderWay("left")' = 0
        BY <1>1, <1>3, <1>4, <2>2
      <3>2. saves'["front"].docs = <<>>
        BY <1>1, <1>3, <2>2 DEF FitInv
      <3> QED  BY <3>1, <3>2
    <2> QED  BY <1>1, <2>1, <2>2
  <1>6. \A l \in Seq(MaskedDocs) : Len(l) + 1 <= n =>
            /\ <<d>> \o l \in ListsUpTo(n) /\ Append(docWrites, <<d>> \o l) \in Seq(ListsUpTo(n))
            /\ Len(<<d>> \o l) = Len(l) + 1 /\ <<d>> \o l \in Seq(MaskedDocs)
    <2> SUFFICES ASSUME NEW l \in Seq(MaskedDocs), Len(l) + 1 <= n
                 PROVE  /\ <<d>> \o l \in ListsUpTo(n) /\ Append(docWrites, <<d>> \o l) \in Seq(ListsUpTo(n))
                        /\ Len(<<d>> \o l) = Len(l) + 1 /\ <<d>> \o l \in Seq(MaskedDocs)
      OBVIOUS
    <2> DEFINE k == <<d>> \o l
    <2>1. k \in Seq(MaskedDocs) /\ Len(k) = Len(l) + 1
      BY OneMore
    <2> HIDE DEF k
    <2>2. k \in ListsUpTo(n)
      BY <2>1 DEF ListsUpTo
    <2> HIDE DEF n
    <2>3. Append(docWrites, k) \in Seq(ListsUpTo(n))
      BY <2>2, AppendProperties DEF n
    <2> QED  BY <2>1, <2>2, <2>3 DEF k
  <1>7. CASE s = "front"
    <2> DEFINE k == <<d>> \o screen.docs
    <2>1. /\ docWrites' = Append(docWrites, k)
          /\ screen' = [screen EXCEPT !.docs = k, !.dialog = "none"]
      BY <1>7 DEF Added
    <2>2. Append(docWrites, k) \in Seq(ListsUpTo(n)) /\ Len(k) = Len(screen.docs) + 1 /\ Len(screen.docs) + 1 <= n
      BY <1>1, <1>6, <1>7
    <2> HIDE DEF k
    <2>3. screen'.docs = k /\ screen'.dialog = "none" /\ screen'.open = screen.open /\ screen'.loading = screen.loading
      BY <1>1, <2>1 DEF Screens
    <2>4. Len(screen'.docs) + UnderWay("front")' <= n
      BY <1>1, <1>4, <1>7, <2>2, <2>3
    <2>5. docWrites' \in Seq(ListsUpTo(n)) /\ docList' \in ListsUpTo(n) /\ screen'.open /\ ~screen'.loading
      BY <1>7, <2>1, <2>2, <2>3
    <2> QED  BY <1>5, <2>4, <2>5 DEF FitInv
  <1>8. CASE s = "left"
    <2>1. UNCHANGED screen /\ (docWrites' = Append(docWrites, <<d>> \o saves[s].docs) \/ UNCHANGED docWrites)
      BY <1>8 DEF Added
    <2>2. docWrites' \in Seq(ListsUpTo(n)) /\ docList' \in ListsUpTo(n)
      BY <1>1, <1>6, <1>8, <2>1
    <2>3. saves'["front"] = saves["front"] /\ UnderWay("front")' = UnderWay("front")
      BY <1>1, <1>3, <1>4, <1>8
    <2>4. Len(screen'.docs) + UnderWay("front")' <= n
      BY <1>8, <2>1, <2>3
    <2> QED  BY <1>5, <2>1, <2>2, <2>3, <2>4 DEF FitInv
  <1> QED  BY <1>1, <1>7, <1>8

\* The steps of a save
LEMMA SavingFits ==
    ASSUME KeyInv, MaskInv, FitInv, NEW s \in Slots,
           \/ CopyFile(s) \/ EncryptFile(s) \/ UnlinkAndAdd(s) \/ FallBackToPlain(s)
           \/ \E k \in KeyKinds : ReadKey(s, k) \/ WriteKey(s, k)
    PROVE  FitInv'
  <1>1. /\ saves[s] \in MaskedSaves /\ vaultCount \in Counts /\ vaultCount.docs \in Nat
        /\ \A t \in Slots : Len(saves[t].docs) + UnderWay(t) <= vaultCount.docs
        /\ Slots = {"front", "left"} /\ Len(screen.docs) \in Nat
    BY FitFacts
  <1>2. saves[s].pc # "idle" /\ UNCHANGED docList
    BY DEF CopyFile, EncryptFile, UnlinkAndAdd, FallBackToPlain, ReadKey, WriteKey, KeyKinds
  <1>3. vaultCount'.docs = vaultCount.docs
    <2>1. ASSUME NEW k \in KeyKinds, WriteKey(s, k) PROVE vaultCount'.docs = vaultCount.docs
      BY <1>1, <2>1 DEF WriteKey, Counts
    <2>2. ASSUME \/ CopyFile(s) \/ EncryptFile(s) \/ UnlinkAndAdd(s) \/ FallBackToPlain(s)
                 \/ \E k \in KeyKinds : ReadKey(s, k)
          PROVE  vaultCount'.docs = vaultCount.docs
      <3>1. Counting
        BY <2>2 DEF CopyFile, EncryptFile, UnlinkAndAdd, FallBackToPlain, ReadKey, Fails, Counting, Incidents
      <3> QED  BY <3>1, CountStays
    <2> QED  BY <2>1, <2>2
  <1>4. CASE UnlinkAndAdd(s) \/ FallBackToPlain(s)
    <2>1. PICK kind \in {"plain", "enc"} : Added(s, DocumentOf(saves[s], kind))
      BY <1>4 DEF UnlinkAndAdd, FallBackToPlain
    <2>2. DocumentOf(saves[s], kind) \in MaskedDocs
      BY <1>1, <1>2, SavedIsMasked
    <2>3. UnderWay(s) = 1
      BY <1>2 DEF UnderWay
    <2>4. Len(screen.docs) + (IF s = "front" THEN 1 ELSE UnderWay("front")) <= vaultCount'.docs
      BY <1>3, <2>3 DEF FitInv
    <2>5. s = "left" => Len(saves["left"].docs) + 1 <= vaultCount'.docs
      BY <1>1, <1>3, <2>3
    <2>6. s = "front" => screen.open /\ ~screen.loading
      BY <1>2 DEF FitInv
    <2>7. docWrites \in Seq(ListsUpTo(vaultCount'.docs)) /\ docList \in ListsUpTo(vaultCount'.docs)
      BY <1>3 DEF FitInv
    <2> QED  BY <1>1, <1>2, <1>3, <2>1, <2>2, <2>4, <2>5, <2>6, <2>7, AddedFits
  <1>5. CASE CopyFile(s) \/ EncryptFile(s)
    <2>1. saves' = [saves EXCEPT ![s] = IdleSave] \/ \E pc : saves' = [saves EXCEPT ![s] = [saves[s] EXCEPT !.pc = pc]]
      BY <1>5, Zenon DEF CopyFile, EncryptFile, Step
    <2>2. \A pc : [saves[s] EXCEPT !.pc = pc].docs = saves[s].docs
      BY <1>1 DEF MaskedSaves
    <2>3. UNCHANGED <<docList, docWrites, screen>>
      BY <1>5 DEF CopyFile, EncryptFile
    <2> QED  BY <1>2, <1>3, <2>1, <2>2, <2>3, SaveFits
  <1>6. ASSUME NEW k \in KeyKinds, ReadKey(s, k) \/ WriteKey(s, k) PROVE FitInv'
    <2>1. PICK x, pc : saves' = [saves EXCEPT ![s] = [saves[s] EXCEPT !.key = [saves[s].key EXCEPT ![k] = x], !.pc = pc]]
      <3>1. CASE ReadKey(s, k)
        <4> DEFINE p == IF keyStore[k] = None THEN (IF k = "master" THEN "newMaster" ELSE "newSalt")
                        ELSE (IF k = "master" THEN "salt" ELSE "encrypt")
        <4>1. saves' = [saves EXCEPT ![s] = [saves[s] EXCEPT !.key = [saves[s].key EXCEPT ![k] = keyStore[k]], !.pc = p]]
          BY <3>1, Zenon DEF ReadKey
        <4> HIDE DEF p
        <4> QED  BY <4>1, Zenon
      <3>2. CASE WriteKey(s, k)
        <4> DEFINE p == IF k = "master" THEN "salt" ELSE "encrypt"
                   x == vaultCount.keys + 1
        <4>1. saves' = [saves EXCEPT ![s] = [saves[s] EXCEPT !.key = [saves[s].key EXCEPT ![k] = x], !.pc = p]]
          BY <3>2, Zenon DEF WriteKey
        <4> HIDE DEF p, x
        <4> QED  BY <4>1, Zenon
      <3> QED  BY <1>6, <3>1, <3>2
    <2> DEFINE new == [saves[s] EXCEPT !.key = [saves[s].key EXCEPT ![k] = x], !.pc = pc]
    <2>2. new.docs = saves[s].docs /\ saves' = [saves EXCEPT ![s] = new]
      BY <1>1, <2>1 DEF MaskedSaves
    <2>3. UNCHANGED <<docList, docWrites, screen>>
      BY <1>6 DEF ReadKey, WriteKey
    <2> HIDE DEF new
    <2> QED  BY <1>2, <1>3, <2>2, <2>3, SaveFits
  <1> QED  BY <1>4, <1>5, <1>6

\* A save that begins, or a document without a file: handleSave
LEMMA BeginFits ==
    ASSUME KeyInv, MaskInv, FitInv, HandleSave
    PROVE  FitInv'
  <1> DEFINE v == [IdleSave EXCEPT !.pc = "copy", !.doc = vaultCount.docs + 1,
                                   !.form = form, !.consented = consent.agreed]
  <1>1. /\ saves \in [Slots -> MaskedSaves] /\ vaultCount \in Counts /\ vaultCount.docs \in Nat
        /\ Slots = {"front", "left"} /\ Len(screen.docs) \in Nat /\ IdleSave.docs = <<>>
    BY FitFacts
  <1>2. /\ screen.open /\ ~screen.loading /\ saves["front"].pc = "idle"
    <2>1. screen.dialog = "form" /\ ~SaveDisabled
      BY DEF HandleSave, Offers, AddDocModal, Dialog
    <2> QED  BY <2>1 DEF SaveDisabled, FitInv
  <1>3. vaultCount.docs < MaxDocs /\ vaultCount'.docs = vaultCount.docs + 1 /\ vaultCount'.docs \in Nat
    BY <1>1 DEF HandleSave, Counts
  <1>4. docWrites \in Seq(ListsUpTo(vaultCount'.docs)) /\ docList \in ListsUpTo(vaultCount'.docs)
    BY <1>1, <1>3, ListsGrow DEF FitInv
  <1>5. Len(screen.docs) + 1 <= vaultCount'.docs
    <2>1. Len(screen.docs) + UnderWay("front") <= vaultCount.docs /\ UnderWay("front") = 0
      BY <1>2 DEF FitInv, UnderWay
    <2> QED  BY <1>1, <1>3, <2>1
  <1>6. CASE form.file
    <2>1. saves' = [saves EXCEPT !["front"] = v] /\ UNCHANGED <<docWrites, screen, form, docList>>
      BY <1>6 DEF HandleSave
    <2>2. v.docs = <<>> /\ v.pc = "copy"
      BY DEF IdleSave
    <2> HIDE DEF v
    <2>3. saves'["front"] = v /\ saves'["left"] = saves["left"]
      BY <1>1, <2>1
    <2>4. UnderWay("front")' = 1 /\ UnderWay("left")' = UnderWay("left") /\ UnderWay("left") \in 0..1
      BY <2>2, <2>3 DEF UnderWay
    <2>5. Len(saves'["left"].docs) + UnderWay("left")' <= vaultCount'.docs
      <3>1. Len(saves["left"].docs) + UnderWay("left") <= vaultCount.docs /\ Len(saves["left"].docs) \in Nat
        BY FitFacts DEF FitInv
      <3> QED  BY <1>1, <1>3, <2>3, <2>4, <3>1
    <2>6. Len(screen'.docs) + UnderWay("front")' <= vaultCount'.docs
      BY <1>5, <2>1, <2>4
    <2> QED  BY <1>2, <1>4, <2>1, <2>2, <2>3, <2>5, <2>6 DEF FitInv
  <1>7. CASE ~form.file
    <2>1. Added("front", DocumentOf(v, "none")) /\ UNCHANGED <<docList, consent>>
      BY <1>7 DEF HandleSave
    <2>2. DocumentOf(v, "none") \in MaskedDocs
      <3>1. form \in SeenForms /\ consent \in [agreed: BOOLEAN, stored: BOOLEAN] /\ vaultCount.docs + 1 \in DocIds
        BY <1>1, <1>3, VaultAssumption DEF MaskInv, FormMasked, DocIds
      <3>2. v.doc = vaultCount.docs + 1 /\ v.form = form /\ v.consented = consent.agreed
        BY DEF IdleSave
      <3> HIDE DEF v, RiskyTypes
      <3> QED  BY <3>1, <3>2 DEF DocumentOf, MaskedDocs, Document, SeenForms
    <2> HIDE DEF v
    <2>3. /\ Len(screen.docs) + (IF "front" = "front" THEN 1 ELSE UnderWay("front")) <= vaultCount'.docs
          /\ "front" \in Slots /\ "front" # "left"
      BY <1>1, <1>5
    <2>4. vaultCount.docs <= vaultCount'.docs
      BY <1>1, <1>3
    <2> QED  BY <1>1, <1>2, <1>3, <1>4, <2>1, <2>2, <2>3, <2>4, AddedFits
  <1> QED  BY <1>6, <1>7

\* Leaving, deleting, writing the list, restarts and time
LEMMA OtherFits ==
    ASSUME KeyInv, MaskInv, FitInv,
           LeaveVault \/ (\E n \in DocIds : HandleDelete(n)) \/ FlushList \/ RestartApp \/ QuarterPasses
    PROVE  FitInv'
  <1>1. /\ saves \in [Slots -> MaskedSaves] /\ vaultCount.docs \in Nat /\ Slots = {"front", "left"}
        /\ IdleSave.docs = <<>> /\ IdleSave.pc = "idle" /\ screen \in Screens /\ screen.docs \in Seq(MaskedDocs)
        /\ Len(screen.docs) \in Nat
        /\ docList \in ListsUpTo(vaultCount.docs) /\ docWrites \in Seq(ListsUpTo(vaultCount.docs))
    BY FitFacts DEF FitInv
  <1>2. vaultCount'.docs = vaultCount.docs
    <2>1. Counting
      BY DEF LeaveVault, HandleDelete, FlushList, RestartApp, QuarterPasses, Fails, Counting, Incidents
    <2> QED  BY <2>1, CountStays
  <1>3. ClosedScreen.docs = <<>> /\ ClosedScreen.dialog = "none" /\ Len(<<>>) = 0
    BY DEF ClosedScreen
  <1>4. CASE LeaveVault
    <2>1. screen' = ClosedScreen /\ UNCHANGED <<docList, docWrites>>
      BY <1>4 DEF LeaveVault
    <2>2. CASE saves["front"].pc = "idle"
      <3>1. UNCHANGED saves
        BY <1>4, <2>2 DEF LeaveVault
      <3>2. UnderWay("front")' = 0 /\ UnderWay("left")' = UnderWay("left") /\ saves'["front"].pc = "idle"
        BY <2>2, <3>1 DEF UnderWay
      <3>3. Len(screen'.docs) + UnderWay("front")' <= vaultCount.docs
        BY <1>1, <1>3, <2>1, <3>2
      <3> QED  BY <1>1, <1>2, <1>3, <2>1, <3>1, <3>2, <3>3 DEF FitInv
    <2>3. CASE saves["front"].pc # "idle"
      <3> DEFINE left == [saves["front"] EXCEPT !.docs = screen.docs]
      <3>1. saves' = [front |-> IdleSave, left |-> left]
        BY <1>4, <2>3 DEF LeaveVault
      <3>2. left.docs = screen.docs /\ left.pc = saves["front"].pc
        BY <1>1 DEF MaskedSaves
      <3> HIDE DEF left
      <3>3. saves'["front"] = IdleSave /\ saves'["left"] = left
        BY <3>1
      <3>4. Len(saves'["left"].docs) + UnderWay("left")' <= vaultCount.docs
        BY <3>2, <3>3 DEF FitInv, UnderWay
      <3>5. UnderWay("front")' = 0
        BY <1>1, <3>3 DEF UnderWay
      <3> QED  BY <1>1, <1>2, <1>3, <2>1, <3>3, <3>4, <3>5 DEF FitInv
    <2> QED  BY <2>2, <2>3
  <1>5. ASSUME NEW n \in DocIds, HandleDelete(n) PROVE FitInv'
    <2> DEFINE rest == Without(screen.docs, n)
    <2>1. /\ n \in DOMAIN screen.docs /\ screen.open /\ screen.dialog = "none"
          /\ screen' = [screen EXCEPT !.docs = rest]
          /\ docWrites' = Append(docWrites, rest) /\ UNCHANGED <<docList, saves>>
      BY <1>5 DEF HandleDelete, Dialog
    <2>2. rest \in Seq(MaskedDocs) /\ Len(rest) = Len(screen.docs) - 1
      BY <1>1, <2>1, OneLess
    <2> HIDE DEF rest
    <2>3. Len(rest) <= vaultCount.docs /\ Len(rest) + UnderWay("front") <= vaultCount.docs
      <3>1. UnderWay("front") \in 0..1
        BY DEF UnderWay
      <3>2. Len(screen.docs) + UnderWay("front") <= vaultCount.docs
        BY DEF FitInv
      <3> QED  BY <1>1, <2>2, <3>1, <3>2
    <2>4. rest \in ListsUpTo(vaultCount.docs)
      BY <2>2, <2>3 DEF ListsUpTo
    <2>5. docWrites' \in Seq(ListsUpTo(vaultCount.docs))
      <3> HIDE DEF ListsUpTo
      <3> QED  BY <1>1, <2>1, <2>4, AppendProperties
    <2>6. /\ screen'.docs = rest /\ screen'.open = screen.open /\ screen'.loading = screen.loading
          /\ screen'.dialog = screen.dialog
      BY <1>1, <2>1 DEF Screens
    <2> QED  BY <1>1, <1>2, <2>1, <2>3, <2>5, <2>6 DEF FitInv, UnderWay
  <1>6. CASE FlushList
    <2>1. docList' \in ListsUpTo(vaultCount.docs) /\ docWrites' \in Seq(ListsUpTo(vaultCount.docs))
      BY <1>1, <1>6, NewestFlushed
    <2>2. UNCHANGED <<screen, saves>>
      BY <1>6 DEF FlushList
    <2> QED  BY <1>2, <2>1, <2>2 DEF FitInv, UnderWay
  <1>7. CASE RestartApp
    <2>1. docWrites' = <<>> /\ screen' = ClosedScreen /\ UNCHANGED docList /\ saves' = [s \in Slots |-> IdleSave]
      BY <1>7 DEF RestartApp
    <2>2. docWrites' \in Seq(ListsUpTo(vaultCount.docs)) /\ saves'["front"] = IdleSave /\ saves'["left"] = IdleSave
      BY <1>1, <2>1
    <2>3. UnderWay("front")' = 0 /\ UnderWay("left")' = 0
      BY <1>1, <2>2 DEF UnderWay
    <2> QED  BY <1>1, <1>2, <1>3, <2>1, <2>2, <2>3 DEF FitInv
  <1>8. CASE QuarterPasses
    <2>1. /\ docList' = [n \in DOMAIN docList |-> [docList[n] EXCEPT !.aged = TRUE]]
          /\ UNCHANGED <<docWrites, screen, saves>>
      BY <1>8 DEF QuarterPasses
    <2>2. docList' \in Seq(MaskedDocs)
      BY <1>8, OtherMasks DEF MaskInv, ListsMasked
    <2>3. docList \in Seq(MaskedDocs) /\ Len(docList) <= vaultCount.docs
      BY <1>1 DEF ListsUpTo
    <2>4. DOMAIN docList' = 1..Len(docList) /\ Len(docList) \in Nat
      BY <2>1, <2>3
    <2>5. Len(docList') = Len(docList)
      BY <2>2, <2>4, LenProperties
    <2>6. docList' \in ListsUpTo(vaultCount.docs)
      BY <2>2, <2>3, <2>5 DEF ListsUpTo
    <2> QED  BY <1>2, <2>1, <2>6 DEF FitInv, UnderWay
  <1> QED  BY <1>4, <1>5, <1>6, <1>7, <1>8

LEMMA FitInit == VaultInit => FitInv
  <1> SUFFICES ASSUME VaultInit PROVE FitInv
    OBVIOUS
  <1>1. /\ docList = <<>> /\ docWrites = <<>> /\ screen = ClosedScreen /\ saves = [s \in Slots |-> IdleSave]
        /\ vaultCount.docs = 0
    BY DEF VaultInit
  <1>2. saves["front"] = IdleSave /\ saves["left"] = IdleSave
    BY <1>1 DEF Slots
  <1>3. IdleSave.pc = "idle" /\ IdleSave.docs = <<>> /\ Len(<<>>) = 0 /\ ClosedScreen.docs = <<>> /\ ClosedScreen.dialog = "none"
    BY DEF IdleSave, ClosedScreen
  <1>4. docList \in ListsUpTo(0) /\ docWrites \in Seq(ListsUpTo(0))
    BY <1>1 DEF ListsUpTo
  <1>5. UnderWay("front") = 0 /\ UnderWay("left") = 0
    BY <1>2, <1>3 DEF UnderWay
  <1> QED  BY <1>1, <1>2, <1>3, <1>4, <1>5 DEF FitInv

LEMMA FitStep == KeyInv /\ MaskInv /\ FitInv /\ [VaultNext]_vaultVars => FitInv'
  <1> SUFFICES ASSUME KeyInv, MaskInv, FitInv, [VaultNext]_vaultVars PROVE FitInv'
    OBVIOUS
  <1>1. ASSUME NEW s \in Slots,
               \/ CopyFile(s) \/ EncryptFile(s) \/ UnlinkAndAdd(s) \/ FallBackToPlain(s)
               \/ \E k \in KeyKinds : ReadKey(s, k) \/ WriteKey(s, k)
        PROVE  FitInv'
    BY <1>1, SavingFits
  <1>2. CASE LeaveVault \/ (\E n \in DocIds : HandleDelete(n)) \/ FlushList \/ RestartApp \/ QuarterPasses
    BY <1>2, OtherFits
  <1>3. CASE HandleSave
    BY <1>3, BeginFits
  <1>4. CASE \/ OpenVault \/ LoadDocuments \/ OpenDialog \/ CloseDialog
             \/ \E y \in TypesInPlay : SetSelectedType(y)
             \/ HandleAttachPress \/ ConsentModal \/ ConsentPersisted \/ PickFile \/ ScanPreview
             \/ ToggleMasked \/ UNCHANGED vaultVars
             \/ \E n \in 1..2 : \/ DecryptToTemp(n) \/ CloseSheet(n) \/ CleanTemp(n)
                                \/ \E i \in DocIds : StartShare(n, i)
    BY <1>4, DialogFits
  <1> QED  BY <1>1, <1>2, <1>3, <1>4, Zenon DEF VaultNext

-----------------------------------------------------------------------------
(* The type of the vault: which keys there are                             *)

\* The keys a save in this phase may still make
ToDraw(pc) == CASE pc \in {"copy", "master", "newMaster"} -> 2
                [] pc \in {"salt", "newSalt"} -> 1
                [] pc \notin {"copy", "master", "newMaster", "salt", "newSalt"} -> 0

\* A save holds keys that were made, and really has those it has got.
WellKeyed(v, n) ==
    /\ v.key \in [KeyKinds -> 0..n]
    /\ v.pc \in HasMaster => v.key["master"] # None
    /\ v.pc \in HasSalt => v.key["salt"] # None

EncUpTo(n) == {<<None, None>>} \cup ((1..n) \X (1..n))

\* Every key anywhere was made, and each save makes two at most.
DrawInv ==
    /\ keyStore \in [KeyKinds -> 0..vaultCount.keys]
    /\ \A s \in Slots : WellKeyed(saves[s], vaultCount.keys)
    /\ \A i \in DocIds : docFiles[i].enc \in EncUpTo(vaultCount.keys)
    /\ vaultCount.keys + ToDraw(saves["front"].pc) + ToDraw(saves["left"].pc) <= 2 * vaultCount.docs

LEMMA DrawFacts ==
    ASSUME KeyInv, MaskInv
    PROVE  /\ vaultCount \in Counts /\ vaultCount.keys \in Nat /\ vaultCount.docs \in Nat
           /\ saves \in [Slots -> MaskedSaves] /\ Slots = {"front", "left"}
           /\ \A s \in Slots : saves[s] \in MaskedSaves /\ saves[s].key \in [KeyKinds -> Nat]
           /\ docFiles \in Files /\ keyStore \in [KeyKinds -> Nat]
           /\ IdleSave.pc = "idle" /\ ToDraw("idle") = 0
           /\ \A n \in Nat : WellKeyed(IdleSave, n)
           /\ \A pc : ToDraw(pc) \in 0..2
  <1>1. vaultCount \in Counts /\ vaultCount.keys \in Nat /\ vaultCount.docs \in Nat
        /\ docFiles \in Files /\ keyStore \in [KeyKinds -> Nat]
    BY DEF KeyInv, Types, Counts
  <1>2. saves \in [Slots -> MaskedSaves] /\ Slots = {"front", "left"}
    BY DEF MaskInv, SavesMasked, Slots
  <1>3. \A s \in Slots : saves[s] \in MaskedSaves /\ saves[s].key \in [KeyKinds -> Nat]
    BY <1>2 DEF MaskedSaves
  <1>4. IdleSave.pc = "idle" /\ IdleSave.key = [k \in KeyKinds |-> None]
    BY DEF IdleSave
  <1>5. \A n \in Nat : WellKeyed(IdleSave, n)
    BY <1>4 DEF WellKeyed, HasMaster, HasSalt, None
  <1>6. ToDraw("idle") = 0 /\ \A pc : ToDraw(pc) \in 0..2
    BY DEF ToDraw
  <1> QED  BY <1>1, <1>2, <1>3, <1>4, <1>5, <1>6

LEMMA KeyedGrow == ASSUME NEW v, NEW m \in Nat, NEW n \in Nat, m <= n
                   PROVE  /\ WellKeyed(v, m) => WellKeyed(v, n)
                          /\ EncUpTo(m) \subseteq EncUpTo(n)
  <1>1. EncUpTo(m) \subseteq EncUpTo(n)
    BY DEF EncUpTo
  <1>2. WellKeyed(v, m) => WellKeyed(v, n)
    <2> SUFFICES ASSUME WellKeyed(v, m) PROVE v.key \in [KeyKinds -> 0..n]
      BY DEF WellKeyed
    <2>1. v.key \in [KeyKinds -> 0..m] /\ 0..m \subseteq 0..n
      BY DEF WellKeyed
    <2> QED  BY <2>1
  <1> QED  BY <1>1, <1>2

\* One save goes on, begins or ends, within what it may still draw.
Draws(s, new) ==
    /\ saves' = [saves EXCEPT ![s] = new]
    /\ vaultCount'.keys \in Nat /\ vaultCount'.docs \in Nat /\ vaultCount.keys <= vaultCount'.keys
    /\ WellKeyed(new, vaultCount'.keys) /\ keyStore' \in [KeyKinds -> 0..vaultCount'.keys]
    /\ \A i \in DocIds : docFiles'[i].enc \in {docFiles[i].enc} \cup EncUpTo(vaultCount'.keys)
    /\ vaultCount'.keys + ToDraw(new.pc) + 2 * vaultCount.docs <=
           vaultCount.keys + ToDraw(saves[s].pc) + 2 * vaultCount'.docs

LEMMA OneSaveDraws ==
    ASSUME KeyInv, MaskInv, DrawInv, NEW s \in Slots, NEW new, Draws(s, new)
    PROVE  DrawInv'
  <1>0. /\ saves' = [saves EXCEPT ![s] = new]
        /\ vaultCount'.keys \in Nat /\ vaultCount'.docs \in Nat /\ vaultCount.keys <= vaultCount'.keys
        /\ WellKeyed(new, vaultCount'.keys) /\ keyStore' \in [KeyKinds -> 0..vaultCount'.keys]
        /\ \A i \in DocIds : docFiles'[i].enc \in {docFiles[i].enc} \cup EncUpTo(vaultCount'.keys)
        /\ vaultCount'.keys + ToDraw(new.pc) + 2 * vaultCount.docs <=
               vaultCount.keys + ToDraw(saves[s].pc) + 2 * vaultCount'.docs
    BY Zenon DEF Draws
  <1>1. /\ saves \in [Slots -> MaskedSaves] /\ Slots = {"front", "left"}
        /\ vaultCount.keys \in Nat /\ vaultCount.docs \in Nat
    BY DrawFacts
  <1>2. saves'[s] = new /\ \A t \in Slots \ {s} : saves'[t] = saves[t]
    BY <1>0, <1>1
  <1>3. \A t \in Slots : WellKeyed(saves'[t], vaultCount'.keys)
    <2> SUFFICES ASSUME NEW t \in Slots PROVE WellKeyed(saves'[t], vaultCount'.keys)
      OBVIOUS
    <2>1. CASE t = s
      BY <1>0, <1>2, <2>1
    <2>2. CASE t # s
      <3>1. saves'[t] = saves[t] /\ WellKeyed(saves[t], vaultCount.keys)
        BY <1>2, <2>2 DEF DrawInv
      <3> QED  BY <1>0, <1>1, <3>1, KeyedGrow
    <2> QED  BY <2>1, <2>2
  <1>4. \A i \in DocIds : docFiles'[i].enc \in EncUpTo(vaultCount'.keys)
    <2>1. EncUpTo(vaultCount.keys) \subseteq EncUpTo(vaultCount'.keys)
      BY <1>0, <1>1, KeyedGrow
    <2> HIDE DEF EncUpTo
    <2> QED  BY <1>0, <2>1 DEF DrawInv
  <1>5. vaultCount'.keys + ToDraw(saves'["front"].pc) + ToDraw(saves'["left"].pc) <= 2 * vaultCount'.docs
    <2>1. /\ \A pc : ToDraw(pc) \in 0..2
          /\ vaultCount.keys + ToDraw(saves["front"].pc) + ToDraw(saves["left"].pc) <= 2 * vaultCount.docs
      BY DrawFacts DEF DrawInv
    <2>2. CASE s = "front"
      <3>1. saves'["front"] = new /\ saves'["left"] = saves["left"]
        BY <1>1, <1>2, <2>2
      <3> HIDE DEF ToDraw
      <3> QED  BY <1>0, <1>1, <2>1, <2>2, <3>1
    <2>3. CASE s = "left"
      <3>1. saves'["left"] = new /\ saves'["front"] = saves["front"]
        BY <1>1, <1>2, <2>3
      <3> HIDE DEF ToDraw
      <3> QED  BY <1>0, <1>1, <2>1, <2>3, <3>1
    <2> QED  BY <1>1, <2>2, <2>3
  <1> QED  BY <1>0, <1>3, <1>4, <1>5 DEF DrawInv

\* No key is made and nothing begins.
LEMMA CountKeys ==
    ASSUME KeyInv, Counting
    PROVE  vaultCount'.docs = vaultCount.docs /\ vaultCount'.keys = vaultCount.keys
  <1>1. vaultCount \in Counts
    BY DEF KeyInv, Types
  <1>2. ASSUME NEW e, Happens(e) PROVE vaultCount'.docs = vaultCount.docs /\ vaultCount'.keys = vaultCount.keys
    BY <1>1, <1>2 DEF Happens, Counts
  <1> QED  BY <1>2 DEF Counting

LEMMA QuietDraws ==
    ASSUME KeyInv, MaskInv, DrawInv, Counting, UNCHANGED keyStore, NoNewFile,
           UNCHANGED saves \/ \E s \in Slots : saves' = [saves EXCEPT ![s] = IdleSave]
    PROVE  DrawInv'
  <1>1. vaultCount'.docs = vaultCount.docs /\ vaultCount'.keys = vaultCount.keys
    BY CountKeys
  <1>2. /\ saves \in [Slots -> MaskedSaves] /\ Slots = {"front", "left"}
        /\ vaultCount.keys \in Nat /\ vaultCount.docs \in Nat /\ IdleSave.pc = "idle" /\ ToDraw("idle") = 0
        /\ WellKeyed(IdleSave, vaultCount.keys) /\ \A pc : ToDraw(pc) \in 0..2
    BY DrawFacts
  <1>3. \A i \in DocIds : docFiles'[i].enc \in {docFiles[i].enc} \cup EncUpTo(vaultCount'.keys)
    BY DEF NoNewFile, EncUpTo
  <1>4. keyStore' \in [KeyKinds -> 0..vaultCount'.keys]
    BY <1>1 DEF DrawInv
  <1> HIDE DEF ToDraw
  <1>5. CASE UNCHANGED saves
    <2>1. saves' = [saves EXCEPT !["front"] = saves["front"]] /\ WellKeyed(saves["front"], vaultCount'.keys)
          /\ "front" \in Slots
      BY <1>1, <1>2, <1>5 DEF DrawInv
    <2>2. Draws("front", saves["front"])
      BY <1>1, <1>2, <1>3, <1>4, <2>1 DEF Draws
    <2> QED  BY <2>1, <2>2, OneSaveDraws
  <1>6. ASSUME NEW s \in Slots, saves' = [saves EXCEPT ![s] = IdleSave] PROVE DrawInv'
    <2>1. Draws(s, IdleSave)
      BY <1>1, <1>2, <1>3, <1>4, <1>6 DEF Draws
    <2> QED  BY <2>1, OneSaveDraws
  <1> QED  BY <1>5, <1>6

\* The steps of a save
LEMMA SavingDraws ==
    ASSUME KeyInv, MaskInv, DrawInv, NEW s \in Slots,
           \/ CopyFile(s) \/ EncryptFile(s) \/ UnlinkAndAdd(s) \/ FallBackToPlain(s)
           \/ \E k \in KeyKinds : ReadKey(s, k) \/ WriteKey(s, k)
    PROVE  DrawInv'
  <1> DEFINE n == vaultCount.keys
  <1>1. /\ vaultCount \in Counts /\ n \in Nat /\ vaultCount.docs \in Nat
        /\ saves \in [Slots -> MaskedSaves] /\ saves[s] \in MaskedSaves
        /\ saves[s].key \in [KeyKinds -> Nat] /\ docFiles \in Files
        /\ keyStore \in [KeyKinds -> 0..n] /\ WellKeyed(saves[s], n)
    BY DrawFacts DEF DrawInv
  <1>2. CASE UnlinkAndAdd(s) \/ FallBackToPlain(s)
    <2>1. saves' = [saves EXCEPT ![s] = IdleSave] /\ UNCHANGED keyStore
      BY <1>2 DEF UnlinkAndAdd, FallBackToPlain, Added
    <2>2. NoNewFile /\ Counting
      <3>1. CASE UnlinkAndAdd(s)
        <4>1. docFiles' = [docFiles EXCEPT ![saves[s].doc].plain = FALSE] /\ UNCHANGED vaultCount
          BY <3>1 DEF UnlinkAndAdd
        <4> QED  BY <1>1, <4>1, PlainFile DEF Counting
      <3>2. CASE FallBackToPlain(s)
        BY <1>1, <3>2, SameFiles DEF FallBackToPlain, Counting, Fails, Incidents
      <3> QED  BY <1>2, <3>1, <3>2
    <2> QED  BY <2>1, <2>2, QuietDraws
  <1>3. CASE CopyFile(s)
    <2>1. CASE saves' = [saves EXCEPT ![s] = IdleSave] /\ UNCHANGED docFiles /\ Fails
      <3>1. NoNewFile /\ Counting /\ UNCHANGED keyStore
        BY <1>1, <1>3, <2>1, SameFiles DEF Fails, Counting, Incidents, CopyFile
      <3> QED  BY <2>1, <3>1, QuietDraws
    <2>2. CASE /\ docFiles' = [docFiles EXCEPT ![saves[s].doc].plain = TRUE]
               /\ Step(s, "master") /\ UNCHANGED vaultCount
      <3> DEFINE new == [saves[s] EXCEPT !.pc = "master"]
      <3>1. new.pc = "master" /\ new.key = saves[s].key
        BY <1>1 DEF MaskedSaves
      <3>2. saves' = [saves EXCEPT ![s] = new] /\ saves[s].pc = "copy" /\ UNCHANGED keyStore
        BY <1>3, <2>2 DEF Step, CopyFile
      <3> HIDE DEF new
      <3>3. WellKeyed(new, n)
        BY <1>1, <3>1 DEF WellKeyed, HasMaster, HasSalt
      <3>4. ToDraw(new.pc) = 2 /\ ToDraw(saves[s].pc) = 2
        BY <3>1, <3>2 DEF ToDraw
      <3>5. \A i \in DocIds : docFiles'[i].enc \in {docFiles[i].enc} \cup EncUpTo(vaultCount'.keys)
        BY <1>1, <2>2, PlainFile DEF NoNewFile, EncUpTo
      <3>6. Draws(s, new)
        BY <1>1, <2>2, <3>2, <3>3, <3>4, <3>5 DEF Draws
      <3> QED  BY <3>6, OneSaveDraws
    <2> QED  BY <1>3, <2>1, <2>2 DEF CopyFile
  <1>4. CASE EncryptFile(s)
    <2> DEFINE new == [saves[s] EXCEPT !.pc = "unlink"]
               e == <<saves[s].key["master"], saves[s].key["salt"]>>
    <2>1. new.pc = "unlink" /\ new.key = saves[s].key
      BY <1>1 DEF MaskedSaves
    <2>2. /\ saves' = [saves EXCEPT ![s] = new] /\ saves[s].pc = "encrypt" /\ UNCHANGED <<keyStore, vaultCount>>
          /\ docFiles' = [docFiles EXCEPT ![saves[s].doc].enc = e]
      BY <1>4 DEF EncryptFile, Step
    <2>3. /\ e \in Nat \X Nat /\ e \in EncUpTo(n)
      <3>1. saves[s].key["master"] \in 1..n /\ saves[s].key["salt"] \in 1..n
        BY <1>1, <2>2 DEF WellKeyed, HasMaster, HasSalt, KeyKinds, None
      <3> QED  BY <1>1, <3>1 DEF EncUpTo
    <2> HIDE DEF new, e
    <2>4. WellKeyed(new, n)
      BY <1>1, <2>1, <2>2 DEF WellKeyed, HasMaster, HasSalt
    <2>5. ToDraw(new.pc) = 0 /\ ToDraw(saves[s].pc) = 0
      BY <2>1, <2>2 DEF ToDraw
    <2>6. \A i \in DocIds : docFiles'[i].enc \in {docFiles[i].enc} \cup EncUpTo(vaultCount'.keys)
      <3>1. \A i \in DocIds : docFiles'[i].enc \in {docFiles[i].enc, e}
        BY <1>1, <2>2, <2>3, EncFile
      <3> HIDE DEF EncUpTo
      <3> QED  BY <2>2, <2>3, <3>1
    <2>7. Draws(s, new)
      BY <1>1, <2>2, <2>4, <2>5, <2>6 DEF Draws
    <2> QED  BY <2>7, OneSaveDraws
  <1>5. ASSUME NEW k \in KeyKinds, ReadKey(s, k) PROVE DrawInv'
    <2> DEFINE pc == IF keyStore[k] = None THEN (IF k = "master" THEN "newMaster" ELSE "newSalt")
                     ELSE (IF k = "master" THEN "salt" ELSE "encrypt")
               key == [saves[s].key EXCEPT ![k] = keyStore[k]]
               new == [saves[s] EXCEPT !.key = key, !.pc = pc]
    <2>1. saves' = [saves EXCEPT ![s] = new] /\ saves[s].pc = k /\ UNCHANGED <<docFiles, keyStore, vaultCount>>
      BY <1>5, Zenon DEF ReadKey
    <2>2. new.key = key /\ new.pc = pc
      BY <1>1 DEF MaskedSaves
    <2>3. /\ key \in [KeyKinds -> 0..n] /\ key[k] = keyStore[k]
          /\ \A j \in KeyKinds \ {k} : key[j] = saves[s].key[j]
      BY <1>1 DEF WellKeyed
    <2>4. k = "master" \/ k = "salt"
      BY DEF KeyKinds
    <2> HIDE DEF new, key
    <2>5. WellKeyed(new, n)
      BY <1>1, <2>1, <2>2, <2>3, <2>4 DEF WellKeyed, HasMaster, HasSalt, KeyKinds
    <2>6. ToDraw(new.pc) <= ToDraw(saves[s].pc) /\ ToDraw(new.pc) \in 0..2 /\ ToDraw(saves[s].pc) \in 0..2
      BY <2>1, <2>2, <2>4 DEF ToDraw
    <2>7. \A i \in DocIds : docFiles'[i].enc \in {docFiles[i].enc} \cup EncUpTo(vaultCount'.keys)
      BY <2>1
    <2> HIDE DEF pc, ToDraw
    <2>8. Draws(s, new)
      BY <1>1, <2>1, <2>5, <2>6, <2>7 DEF Draws
    <2> QED  BY <2>8, OneSaveDraws
  <1>6. ASSUME NEW k \in KeyKinds, WriteKey(s, k) PROVE DrawInv'
    <2> DEFINE pc == IF k = "master" THEN "salt" ELSE "encrypt"
               key == [saves[s].key EXCEPT ![k] = n + 1]
               new == [saves[s] EXCEPT !.key = key, !.pc = pc]
    <2>0. saves' = [saves EXCEPT ![s] = new]
      BY <1>6, Zenon DEF WriteKey
    <2>1. /\ saves' = [saves EXCEPT ![s] = new] /\ UNCHANGED docFiles
          /\ saves[s].pc = IF k = "master" THEN "newMaster" ELSE "newSalt"
          /\ keyStore' = [keyStore EXCEPT ![k] = n + 1]
          /\ vaultCount' = [vaultCount EXCEPT !.keys = n + 1, !.raced = vaultCount.raced \/ keyStore[k] # None]
      <3> HIDE DEF new, key, pc
      <3> QED  BY <1>6, <2>0, Zenon DEF WriteKey
    <2>2. new.key = key /\ new.pc = pc
      BY <1>1 DEF MaskedSaves
    <2>3. vaultCount'.keys = n + 1 /\ vaultCount'.docs = vaultCount.docs
      BY <1>1, <2>1 DEF Counts
    <2>4. /\ key \in [KeyKinds -> 0..(n + 1)] /\ key[k] = n + 1
          /\ \A j \in KeyKinds \ {k} : key[j] = saves[s].key[j]
      BY <1>1 DEF WellKeyed
    <2>5. k = "master" \/ k = "salt"
      BY DEF KeyKinds
    <2> HIDE DEF new, key
    <2>6. WellKeyed(new, n + 1)
      BY <1>1, <2>1, <2>2, <2>4, <2>5 DEF WellKeyed, HasMaster, HasSalt, KeyKinds, None
    <2>7. ToDraw(new.pc) + 1 <= ToDraw(saves[s].pc) /\ ToDraw(new.pc) \in 0..2 /\ ToDraw(saves[s].pc) \in 0..2
      BY <2>1, <2>2, <2>5 DEF ToDraw
    <2>8. keyStore' \in [KeyKinds -> 0..(n + 1)]
      BY <1>1, <2>1
    <2>9. \A i \in DocIds : docFiles'[i].enc \in {docFiles[i].enc} \cup EncUpTo(vaultCount'.keys)
      BY <2>1
    <2> HIDE DEF pc, ToDraw
    <2>10. vaultCount'.keys + ToDraw(new.pc) + 2 * vaultCount.docs <=
               vaultCount.keys + ToDraw(saves[s].pc) + 2 * vaultCount'.docs
      BY <1>1, <2>3, <2>7
    <2>11. vaultCount'.keys \in Nat /\ vaultCount'.docs \in Nat /\ vaultCount.keys <= vaultCount'.keys
      BY <1>1, <2>3
    <2>12. WellKeyed(new, vaultCount'.keys) /\ keyStore' \in [KeyKinds -> 0..vaultCount'.keys]
      BY <2>3, <2>6, <2>8
    <2>13. Draws(s, new)
      BY <2>1, <2>9, <2>10, <2>11, <2>12, Zenon DEF Draws
    <2> QED  BY <2>13, OneSaveDraws
  <1> QED  BY <1>2, <1>3, <1>4, <1>5, <1>6

\* A save begins: two more keys may be made.
LEMMA BeginDraws ==
    ASSUME KeyInv, MaskInv, DrawInv, HandleSave
    PROVE  DrawInv'
  <1> DEFINE v == [IdleSave EXCEPT !.pc = "copy", !.doc = vaultCount.docs + 1,
                                   !.form = form, !.consented = consent.agreed]
  <1>1. /\ vaultCount \in Counts /\ vaultCount.keys \in Nat /\ vaultCount.docs \in Nat
        /\ IdleSave.pc = "idle" /\ ToDraw("idle") = 0 /\ WellKeyed(IdleSave, vaultCount.keys)
        /\ "front" \in Slots /\ keyStore \in [KeyKinds -> 0..vaultCount.keys]
    BY DrawFacts DEF DrawInv
  <1>2. vaultCount'.docs = vaultCount.docs + 1 /\ vaultCount'.keys = vaultCount.keys /\ UNCHANGED <<docFiles, keyStore>>
    BY <1>1 DEF HandleSave, Counts
  <1>3. saves["front"].pc = "idle"
    BY DEF HandleSave, Offers, AddDocModal, SaveDisabled
  <1>4. \A i \in DocIds : docFiles'[i].enc \in {docFiles[i].enc} \cup EncUpTo(vaultCount'.keys)
    BY <1>2
  <1>5. saves' = [saves EXCEPT !["front"] = v] \/ saves' = [saves EXCEPT !["front"] = IdleSave]
    BY DEF HandleSave, Added
  <1>6. v.pc = "copy" /\ v.key = IdleSave.key /\ ToDraw(v.pc) = 2
    BY DEF IdleSave, ToDraw
  <1> HIDE DEF v
  <1>7. WellKeyed(v, vaultCount.keys)
    BY <1>1, <1>6 DEF WellKeyed, HasMaster, HasSalt
  <1> HIDE DEF ToDraw
  <1>8. Draws("front", v) \/ Draws("front", IdleSave)
    BY <1>1, <1>2, <1>3, <1>4, <1>5, <1>6, <1>7 DEF Draws
  <1> QED  BY <1>1, <1>8, OneSaveDraws

\* A screen that is left hands over its save; a restart ends them all.
LEMMA LeaveDraws ==
    ASSUME KeyInv, MaskInv, DrawInv, LeaveVault \/ RestartApp
    PROVE  DrawInv'
  <1>1. /\ vaultCount.keys \in Nat /\ vaultCount.docs \in Nat /\ Slots = {"front", "left"}
        /\ \A s \in Slots : saves[s] \in MaskedSaves /\ docFiles \in Files
        /\ IdleSave.pc = "idle" /\ ToDraw("idle") = 0 /\ WellKeyed(IdleSave, vaultCount.keys)
        /\ \A pc : ToDraw(pc) \in 0..2
    BY DrawFacts
  <1>2. UNCHANGED <<docFiles, keyStore>> /\ Counting
    BY DEF LeaveVault, RestartApp, Counting, Incidents
  <1>3. vaultCount'.docs = vaultCount.docs /\ vaultCount'.keys = vaultCount.keys
    BY <1>2, CountKeys
  <1>4. CASE UNCHANGED saves
    BY <1>1, <1>2, <1>4, SameFiles, QuietDraws
  <1>5. CASE LeaveVault /\ saves["front"].pc # "idle"
    <2> DEFINE left == [saves["front"] EXCEPT !.docs = screen.docs]
    <2>1. saves' = [front |-> IdleSave, left |-> left] /\ saves["left"].pc = "idle"
      BY <1>5 DEF LeaveVault
    <2>2. left.pc = saves["front"].pc /\ left.key = saves["front"].key
      BY <1>1 DEF MaskedSaves
    <2> HIDE DEF left
    <2>3. saves'["front"] = IdleSave /\ saves'["left"] = left
      BY <2>1
    <2>4. WellKeyed(left, vaultCount.keys)
      BY <1>1, <2>2 DEF DrawInv, WellKeyed
    <2>5. \A s \in Slots : WellKeyed(saves'[s], vaultCount.keys)
      BY <1>1, <2>3, <2>4
    <2>6. vaultCount.keys + ToDraw(saves'["front"].pc) + ToDraw(saves'["left"].pc) <= 2 * vaultCount.docs
      <3> HIDE DEF ToDraw
      <3> QED  BY <1>1, <2>1, <2>2, <2>3 DEF DrawInv
    <2> QED  BY <1>2, <1>3, <2>5, <2>6 DEF DrawInv
  <1>6. CASE RestartApp
    <2>1. \A s \in Slots : saves'[s] = IdleSave
      BY <1>6 DEF RestartApp
    <2>2. \A s \in Slots : WellKeyed(saves'[s], vaultCount.keys)
      BY <1>1, <2>1
    <2>3. vaultCount.keys + ToDraw(saves'["front"].pc) + ToDraw(saves'["left"].pc) <= 2 * vaultCount.docs
      <3>1. /\ ToDraw(saves'["front"].pc) = 0 /\ ToDraw(saves'["left"].pc) = 0
            /\ ToDraw(saves["front"].pc) \in 0..2 /\ ToDraw(saves["left"].pc) \in 0..2
        BY <1>1, <2>1
      <3> HIDE DEF ToDraw
      <3> QED  BY <1>1, <3>1 DEF DrawInv
    <2> QED  BY <1>2, <1>3, <2>2, <2>3 DEF DrawInv
  <1> QED  BY <1>4, <1>5, <1>6 DEF LeaveVault

LEMMA DeleteDraws ==
    ASSUME KeyInv, MaskInv, DrawInv, NEW n \in DocIds, HandleDelete(n)
    PROVE  DrawInv'
  <1>1. docFiles \in Files
    BY DrawFacts
  <1>2. UNCHANGED <<keyStore, saves>> /\ Counting
    BY DEF HandleDelete, Counting, Fails, Incidents
  <1> DEFINE d == screen.docs[n]
  <1>3. \/ docFiles' = [docFiles EXCEPT ![d.id].enc = <<None, None>>]
        \/ docFiles' = [docFiles EXCEPT ![d.id].plain = FALSE]
        \/ UNCHANGED docFiles
    BY Zenon DEF HandleDelete
  <1> HIDE DEF d
  <1>4. NoNewFile
    <2>1. CASE docFiles' = [docFiles EXCEPT ![d.id].enc = <<None, None>>]
      <3>1. <<None, None>> \in Nat \X Nat
        BY DEF None
      <3> QED  BY <1>1, <2>1, <3>1, EncFile DEF NoNewFile
    <2>2. CASE docFiles' = [docFiles EXCEPT ![d.id].plain = FALSE]
      BY <1>1, <2>2, PlainFile
    <2>3. CASE UNCHANGED docFiles
      BY <1>1, <2>3, SameFiles
    <2> QED  BY <1>3, <2>1, <2>2, <2>3
  <1> QED  BY <1>2, <1>4, QuietDraws

LEMMA DrawInit == VaultInit => DrawInv
  <1> SUFFICES ASSUME VaultInit PROVE DrawInv
    OBVIOUS
  <1>1. /\ docFiles = [i \in DocIds |-> [plain |-> FALSE, enc |-> <<None, None>>]]
        /\ keyStore = [k \in KeyKinds |-> None] /\ saves = [s \in Slots |-> IdleSave]
        /\ vaultCount.docs = 0 /\ vaultCount.keys = 0
    BY DEF VaultInit
  <1>2. \A s \in Slots : saves[s] = IdleSave
    BY <1>1
  <1>3. IdleSave.pc = "idle" /\ IdleSave.key = [k \in KeyKinds |-> None] /\ ToDraw("idle") = 0
    BY DEF IdleSave, ToDraw
  <1>4. \A s \in Slots : WellKeyed(saves[s], 0)
    BY <1>2, <1>3 DEF WellKeyed, HasMaster, HasSalt, None
  <1>5. keyStore \in [KeyKinds -> 0..0]
    BY <1>1 DEF None
  <1>6. \A i \in DocIds : docFiles[i].enc \in EncUpTo(0)
    BY <1>1 DEF EncUpTo
  <1>7. "front" \in Slots /\ "left" \in Slots
    BY DEF Slots
  <1> QED  BY <1>1, <1>2, <1>3, <1>4, <1>5, <1>6, <1>7 DEF DrawInv

LEMMA DrawStep == KeyInv /\ MaskInv /\ DrawInv /\ [VaultNext]_vaultVars => DrawInv'
  <1> SUFFICES ASSUME KeyInv, MaskInv, DrawInv, [VaultNext]_vaultVars PROVE DrawInv'
    OBVIOUS
  <1>1. ASSUME NEW s \in Slots,
               \/ CopyFile(s) \/ EncryptFile(s) \/ UnlinkAndAdd(s) \/ FallBackToPlain(s)
               \/ \E k \in KeyKinds : ReadKey(s, k) \/ WriteKey(s, k)
        PROVE  DrawInv'
    BY <1>1, SavingDraws
  <1>2. CASE LeaveVault \/ RestartApp
    BY <1>2, LeaveDraws
  <1>3. CASE HandleSave
    BY <1>3, BeginDraws
  <1>4. ASSUME NEW n \in DocIds, HandleDelete(n) PROVE DrawInv'
    BY <1>4, DeleteDraws
  <1>5. CASE \/ UNCHANGED vaultVars
             \/ OpenVault \/ LoadDocuments \/ OpenDialog \/ CloseDialog
             \/ \E y \in TypesInPlay : SetSelectedType(y)
             \/ HandleAttachPress \/ ConsentModal \/ ConsentPersisted \/ PickFile \/ ScanPreview
             \/ ToggleMasked \/ FlushList \/ QuarterPasses
             \/ \E n \in 1..2 : \/ DecryptToTemp(n) \/ CloseSheet(n) \/ CleanTemp(n)
                                \/ \E i \in DocIds : StartShare(n, i)
    <2>1. UNCHANGED <<saves, keyStore, docFiles>>
      BY <1>5, Zenon DEF vaultVars, OpenVault, LoadDocuments, OpenDialog, CloseDialog, SetSelectedType,
         HandleAttachPress, ConsentModal, ConsentPersisted, PickFile, ScanPreview, ToggleMasked,
         FlushList, DecryptToTemp, CloseSheet, CleanTemp, StartShare, QuarterPasses
    <2>2. Counting
      <3>1. "failed" \in Incidents /\ "overlap" \in Incidents /\ "copyFailed" \in Incidents
        BY DEF Incidents
      <3> QED  BY <1>5, <3>1 DEF vaultVars, OpenVault, LoadDocuments, OpenDialog, CloseDialog, SetSelectedType,
               HandleAttachPress, ConsentModal, ConsentPersisted, PickFile, ScanPreview, ToggleMasked,
               FlushList, DecryptToTemp, CloseSheet, CleanTemp, StartShare, QuarterPasses, Fails, Counting
    <2> QED  BY <2>1, <2>2, DrawFacts, SameFiles, QuietDraws
  <1> QED  BY <1>1, <1>2, <1>3, <1>4, <1>5, Zenon DEF VaultNext

-----------------------------------------------------------------------------
(* The type of the vault                                                   *)

\* A short list of masked documents is a list of documents.
LEMMA ShortIsList ==
    ASSUME NEW l \in Seq(MaskedDocs), NEW n \in 0..MaxDocs, Len(l) <= n
    PROVE  l \in Lists
  <1>1. l \in [1..Len(l) -> MaskedDocs] /\ Len(l) \in 0..MaxDocs
    BY VaultAssumption
  <1>2. MaskedDocs \subseteq Document
    BY DEF MaskedDocs
  <1>3. l \in [1..Len(l) -> Document]
    BY <1>1, <1>2
  <1> QED  BY <1>1, <1>3, Zenon DEF Lists

LEMMA TypeFollows == KeyInv /\ MaskInv /\ FitInv /\ DrawInv /\ CopyInv => VaultTypeOK
  <1> SUFFICES ASSUME KeyInv, MaskInv, FitInv, DrawInv, CopyInv PROVE VaultTypeOK
    OBVIOUS
  <1> DEFINE n == vaultCount.docs
             k == vaultCount.keys
             Forms == [type: DocumentTypes, file: BOOLEAN, masked: BOOLEAN, seen: BOOLEAN]
  <1>1. /\ vaultCount \in Counts /\ n \in 0..MaxDocs /\ k \in Nat /\ MaxDocs \in Nat
        /\ docList \in ListsUpTo(n) /\ docWrites \in Seq(ListsUpTo(n))
        /\ screen \in Screens /\ screen.docs \in Seq(MaskedDocs) /\ form \in SeenForms
        /\ consent \in [agreed: BOOLEAN, stored: BOOLEAN]
        /\ saves \in [Slots -> MaskedSaves]
    BY FitFacts, DrawFacts, VaultAssumption DEF FitInv, MaskInv, FormMasked, SavesMasked
  <1>2. ListsUpTo(n) \subseteq Lists
    BY <1>1, ShortIsList DEF ListsUpTo
  <1>3. docList \in Lists /\ docWrites \in Seq(Lists)
    <2>1. docWrites \in [1..Len(docWrites) -> ListsUpTo(n)] /\ Len(docWrites) \in Nat
      BY <1>1
    <2> HIDE DEF ListsUpTo
    <2>2. docWrites \in [1..Len(docWrites) -> Lists]
      BY <1>2, <2>1
    <2> QED  BY <1>1, <1>2, <2>1, <2>2, SeqDef
  <1>4. k <= 2 * n
    <2>1. ToDraw(saves["front"].pc) \in 0..2 /\ ToDraw(saves["left"].pc) \in 0..2
      BY DrawFacts
    <2>2. k + ToDraw(saves["front"].pc) + ToDraw(saves["left"].pc) <= 2 * n
      BY DEF DrawInv
    <2> HIDE DEF ToDraw
    <2> QED  BY <1>1, <2>1, <2>2
  <1>5. 1..k \subseteq Keys /\ 0..k \subseteq Keys \cup {None} /\ k \in Keys \cup {None}
    <2>1. k <= 4 * MaxDocs
      BY <1>1, <1>4
    <2> HIDE DEF k
    <2> QED  BY <1>1, <2>1 DEF Keys, None
  <1>6. docFiles \in [DocIds -> [plain: BOOLEAN, enc: {<<None, None>>} \cup (Keys \X Keys)]]
    <2>1. docFiles \in [DocIds -> [plain: BOOLEAN, enc: Nat \X Nat]]
      BY DrawFacts DEF Files
    <2>2. ASSUME NEW i \in DocIds
          PROVE  docFiles[i] \in [plain: BOOLEAN, enc: {<<None, None>>} \cup (Keys \X Keys)]
      <3>1. docFiles[i] \in [plain: BOOLEAN, enc: Nat \X Nat] /\ docFiles[i].enc \in EncUpTo(k)
        BY <2>1 DEF DrawInv
      <3>2. docFiles[i].enc \in {<<None, None>>} \cup (Keys \X Keys)
        <4> HIDE DEF Keys
        <4> QED  BY <1>5, <3>1 DEF EncUpTo
      <3> QED  BY <3>1, <3>2
    <2> QED  BY <2>1, <2>2
  <1>7. keyStore \in [KeyKinds -> Keys \cup {None}]
    <2>1. keyStore \in [KeyKinds -> 0..k]
      BY DEF DrawInv
    <2> HIDE DEF Keys
    <2> QED  BY <1>5, <2>1
  <1>8. screen \in [open: BOOLEAN, loading: BOOLEAN, docs: Lists, dialog: Dialogs]
    <2>1. Len(screen.docs) <= n
      <3>1. Len(screen.docs) + UnderWay("front") <= n /\ Len(screen.docs) \in Nat
        BY FitFacts DEF FitInv
      <3>2. UnderWay("front") \in 0..1
        BY DEF UnderWay
      <3> QED  BY <1>1, <3>1, <3>2
    <2>2. screen.docs \in Lists
      BY <1>1, <2>1, ShortIsList
    <2> QED  BY <1>1, <2>2 DEF Screens
  <1>9. form \in Forms
    BY <1>1 DEF SeenForms
  <1>10. saves \in [Slots -> [pc: Phases, doc: DocIds \cup {None}, form: Forms, consented: BOOLEAN,
                              key: [KeyKinds -> Keys \cup {None}], docs: Lists]]
    <2>1. ASSUME NEW s \in Slots
          PROVE  saves[s] \in [pc: Phases, doc: DocIds \cup {None}, form: Forms, consented: BOOLEAN,
                               key: [KeyKinds -> Keys \cup {None}], docs: Lists]
      <3>1. saves[s] \in MaskedSaves /\ saves[s].docs \in Seq(MaskedDocs) /\ Len(saves[s].docs) <= n
        <4>1. /\ saves[s] \in MaskedSaves /\ saves[s].docs \in Seq(MaskedDocs)
              /\ Len(saves[s].docs) + UnderWay(s) <= n /\ Len(saves[s].docs) \in Nat
          BY FitFacts
        <4>2. UnderWay(s) \in 0..1
          BY DEF UnderWay
        <4> QED  BY <1>1, <4>1, <4>2
      <3>2. saves[s].docs \in Lists
        BY <1>1, <3>1, ShortIsList
      <3>3. saves[s].key \in [KeyKinds -> Keys \cup {None}]
        <4>1. saves[s].key \in [KeyKinds -> 0..k]
          BY DEF DrawInv, WellKeyed
        <4> HIDE DEF Keys
        <4> QED  BY <1>5, <4>1
      <3>4. saves[s].form \in Forms
        BY <3>1 DEF MaskedSaves, SeenForms
      <3> HIDE DEF Forms
      <3> QED  BY <3>1, <3>2, <3>3, <3>4 DEF MaskedSaves
    <2> HIDE DEF Forms
    <2> QED  BY <1>1, <2>1
  <1>11. shares \in [1..2 -> [pc: {"idle", "decrypt", "sheet", "clean"}, id: DocIds \cup {None}]] /\ docTemp \in [copies: SUBSET DocIds, stray: SUBSET DocIds]
    BY DEF CopyInv, Shared, Copied, SharePhases
  <1>12. vaultCount \in [docs: 0..MaxDocs, keys: Keys \cup {None}, incidents: SUBSET Incidents, raced: BOOLEAN]
    <2> HIDE DEF Keys
    <2> QED  BY <1>1, <1>5 DEF Counts
  <1> QED  BY <1>1, <1>3, <1>6, <1>7, <1>8, <1>9, <1>10, <1>11, <1>12, Zenon DEF VaultTypeOK

\* Whatever is stored, shown or under way has its type, for any number of documents: in
\* particular every list has at most as many documents as were ever saved, because a save
\* is counted before it lists its document, and there are at most two keys for each save,
\* because a save reads each key once before it makes it (getOrCreateMasterKey,
\* getOrCreateSalt).
THEOREM VaultIsTyped == VaultSpec => []VaultTypeOK
  <1> DEFINE Inv == KeyInv /\ MaskInv /\ FitInv /\ DrawInv /\ CopyInv
  <1>1. VaultInit => Inv
    BY KeyInit, MaskInit, FitInit, DrawInit, CopyInit
  <1>2. Inv /\ [VaultNext]_vaultVars => Inv'
    BY KeyStep, MaskStep, FitStep, DrawStep, CopyStep
  <1>3. Inv => VaultTypeOK
    BY TypeFollows
  <1> QED  BY <1>1, <1>2, <1>3, PTL DEF VaultSpec

=============================================================================
