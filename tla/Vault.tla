------------------------------- MODULE Vault -------------------------------
(***************************************************************************)
(* The document vault of the mobile client: document-vault.tsx, the keys   *)
(* and the files of lib/crypto.ts, the separate consent of                 *)
(* store/consent.ts, and the sharing of a document in auto-fill.tsx.       *)
(*                                                                         *)
(* Everything is asynchronous.  A save copies the file, finds or makes two *)
(* keys, encrypts, deletes the copy and adds the document to the list; it  *)
(* goes on when the dialog is closed and when the screen is left.  The     *)
(* list is written without waiting for it.  The app may be killed anywhere.*)
(*                                                                         *)
(* What is abstracted: documents are numbered, a key is the number of the  *)
(* draw that made it, an encrypted file is the pair of keys it was made    *)
(* with, and of the time a document was issued the model keeps whether it  *)
(* is 90 days ago.  One user is signed in throughout.                      *)
(***************************************************************************)
EXTENDS Integers, Sequences, FiniteSets

CONSTANTS
    TypesInPlay,   \* bound: the types of documents the user works with
    MaxDocs,       \* bound: documents that are ever made
    MaxWrites,     \* bound: lists waiting to be written
    MaxIncidents   \* bound: kinds of incidents in one behaviour, each once at most

VARIABLES
    docList,     \* AsyncStorage: the stored list of documents, newest first
    docWrites,   \* AsyncStorage: lists on their way into it, in order
    docFiles,    \* the vault directory: the plain and the encrypted file of a document
    docTemp,     \* the cache directory: documents with a decrypted copy in it, and those
                 \* of them whose copy was left behind (a history for TempCleared)
    keyStore,    \* SecureStore: the master key and the user's salt
    consent,     \* the consent to health documents: in memory, and persisted
    screen,      \* the vault screen: whether it is open, its list, its dialog
    form,        \* the add dialog: type, picked file, check box
    saves,       \* the saves in progress
    shares,      \* two shares: what each is doing with which document
    vaultCount   \* counters for the bounds, and what happened so far

vaultVars == <<docList, docWrites, docFiles, docTemp, keyStore, consent, screen,
               form, saves, shares, vaultCount>>

DocIds  == 1..MaxDocs
Keys    == 1..(4 * MaxDocs)
None    == 0                    \* no key, no document
Slots   == {"front", "left"}    \* the save of the open screen; one whose screen was left
KeyKinds == {"master", "salt"}

\* A call fails; making or deleting a decrypted copy fails; the app is killed; the screen
\* is left during a save; two shares overlap
Incidents == {"failed", "copyFailed", "killed", "left", "overlap"}

-----------------------------------------------------------------------------
(* The tables of document-vault.tsx                                        *)

DocumentTypes ==
    {"resident_register", "income_proof", "enrollment_cert", "leave_cert",
     "graduation_cert", "health_insurance", "family_relation", "bank_statement",
     "disability_cert", "other"}

\* DOC_TYPE_CONFIG: the types whose issuer has a page to open
HasIssuerUrl == {"resident_register", "income_proof", "health_insurance",
                 "family_relation", "disability_cert"}

\* Types that carry a resident registration number: is it shown in full by default?
RRN_MASKING_INFO == [resident_register |-> TRUE, family_relation |-> TRUE,
                     health_insurance |-> FALSE]
RiskyTypes == DOMAIN RRN_MASKING_INFO

BENEFIT_MATCH_RULES ==
    [ national_scholarship |-> {"income_proof", "enrollment_cert"},
      housing_separation   |-> {"resident_register", "income_proof"},
      leap_account         |-> {"income_proof"},
      busan_living         |-> {"resident_register", "income_proof"},
      hope_account         |-> {"resident_register", "income_proof", "enrollment_cert"},
      disabled_student     |-> {"disability_cert", "enrollment_cert"},
      work_scholarship     |-> {"enrollment_cert"},
      insurance_relief     |-> {"income_proof", "health_insurance"} ]

ASSUME VaultAssumption ==
    /\ MaxDocs \in Nat /\ MaxWrites \in Nat /\ MaxIncidents \in Nat
    /\ TypesInPlay \subseteq DocumentTypes /\ "resident_register" \in TypesInPlay

Document == [id: DocIds, type: DocumentTypes, file: {"none", "plain", "enc"},
             aged: BOOLEAN, confirmed: BOOLEAN, consented: BOOLEAN]

Lists == UNION {[1..n -> Document] : n \in 0..MaxDocs}
IdsOf(docs) == {docs[n].id : n \in DOMAIN docs}

-----------------------------------------------------------------------------
(* What the screens show and offer                                         *)

\* computeStatus: no document is ever given an expiry date.
DocStatus(d) == IF d.aged THEN "renewal_needed" ELSE "valid"

OwnedTypes(docs) == {d.type : d \in {docs[n] : n \in {m \in DOMAIN docs : DocStatus(docs[m]) = "valid"}}}
MatchedBenefits(docs) == {b \in DOMAIN BENEFIT_MATCH_RULES : BENEFIT_MATCH_RULES[b] \subseteq OwnedTypes(docs)}
RenewalCount(docs) == Cardinality({n \in DOMAIN docs : DocStatus(docs[n]) = "renewal_needed"})

\* A card: a long press deletes, a document that needs renewal links to its issuer
DocumentCard(d) == {"delete"} \cup
    IF DocStatus(d) = "renewal_needed" /\ d.type \in HasIssuerUrl THEN {"renew"} ELSE {}

\* The sections of the screen
VaultView ==
    IF screen.loading THEN {"spinner"}
    ELSE {"stats", "add"}
         \cup (IF RenewalCount(screen.docs) > 0 THEN {"renewalBanner"} ELSE {})
         \cup (IF screen.docs = <<>> THEN {"empty"} ELSE {"cards", "benefits", "fab"})

\* The add dialog: the confirmation of masking, and when saving is refused
RequiresMasking == form.file /\ form.type \in RiskyTypes
SaveDisabled == saves["front"].pc # "idle" \/ (RequiresMasking /\ ~form.masked)

AddDocModal ==
    {"types", "attach", "cancel"}
    \cup (IF form.type \in RiskyTypes THEN {"guidance"} ELSE {})
    \cup (IF RequiresMasking THEN {"maskingCheck"} ELSE {})
    \cup (IF SaveDisabled THEN {} ELSE {"save"})

Dialog(d)  == screen.open /\ screen.dialog = d
Offers(a)  == Dialog("form") /\ a \in AddDocModal

-----------------------------------------------------------------------------
(* States                                                                  *)

EmptyForm == [type |-> "resident_register", file |-> FALSE, masked |-> FALSE, seen |-> FALSE]
ClosedScreen == [open |-> FALSE, loading |-> FALSE, docs |-> <<>>, dialog |-> "none"]
IdleSave == [pc |-> "idle", doc |-> None, form |-> EmptyForm, consented |-> FALSE,
             key |-> [k \in KeyKinds |-> None], docs |-> <<>>]
IdleShare == [pc |-> "idle", id |-> None]

Phases == {"idle", "copy", "master", "newMaster", "salt", "newSalt", "encrypt", "unlink"}
Dialogs == {"none", "form", "consent", "consentTicked", "agreeing", "options", "scanning", "scanned"}

VaultTypeOK ==
    /\ docList \in Lists /\ docWrites \in Seq(Lists)
    /\ docFiles \in [DocIds -> [plain: BOOLEAN, enc: {<<None, None>>} \cup (Keys \X Keys)]]
    /\ docTemp \in [copies: SUBSET DocIds, stray: SUBSET DocIds]
    /\ keyStore \in [KeyKinds -> Keys \cup {None}]
    /\ consent \in [agreed: BOOLEAN, stored: BOOLEAN]
    /\ screen \in [open: BOOLEAN, loading: BOOLEAN, docs: Lists, dialog: Dialogs]
    /\ form \in [type: DocumentTypes, file: BOOLEAN, masked: BOOLEAN, seen: BOOLEAN]
    /\ saves \in [Slots -> [pc: Phases, doc: DocIds \cup {None},
                            form: [type: DocumentTypes, file: BOOLEAN, masked: BOOLEAN, seen: BOOLEAN],
                            consented: BOOLEAN, key: [KeyKinds -> Keys \cup {None}], docs: Lists]]
    /\ shares \in [1..2 -> [pc: {"idle", "decrypt", "sheet", "clean"}, id: DocIds \cup {None}]]
    /\ vaultCount \in [docs: 0..MaxDocs, keys: Keys \cup {None},
                       incidents: SUBSET Incidents, raced: BOOLEAN]

VaultInit ==
    /\ docList = <<>> /\ docWrites = <<>>
    /\ docFiles = [i \in DocIds |-> [plain |-> FALSE, enc |-> <<None, None>>]]
    /\ docTemp = [copies |-> {}, stray |-> {}]
    /\ keyStore = [k \in KeyKinds |-> None]
    /\ consent = [agreed |-> FALSE, stored |-> FALSE]
    /\ screen = ClosedScreen /\ form = EmptyForm
    /\ saves = [s \in Slots |-> IdleSave]
    /\ shares = [n \in 1..2 |-> IdleShare]
    \* raced: a key replaced another one
    /\ vaultCount = [docs |-> 0, keys |-> 0, incidents |-> {}, raced |-> FALSE]

\* AsyncStorage serves its calls in order: a read sees the latest write.
NewestList == IF docWrites = <<>> THEN docList ELSE docWrites[Len(docWrites)]

Happens(e) == /\ e \notin vaultCount.incidents
              /\ Cardinality(vaultCount.incidents) < MaxIncidents
              /\ vaultCount' = [vaultCount EXCEPT !.incidents = @ \cup {e}]
Fails == Happens("failed")

Saving(i) == \E s \in Slots : saves[s].pc # "idle" /\ saves[s].doc = i

CanWrite == Len(docWrites) < MaxWrites

-----------------------------------------------------------------------------
(* The screen and its dialogs                                              *)

\* DocumentVaultScreen mounts with an empty list and reads the stored one ...
OpenVault ==
    /\ ~screen.open /\ \A n \in 1..2 : shares[n].pc = "idle"
    /\ screen' = [ClosedScreen EXCEPT !.open = TRUE, !.loading = TRUE]
    /\ form' = EmptyForm
    /\ UNCHANGED <<docList, docWrites, docFiles, docTemp, keyStore, consent, saves, shares, vaultCount>>

\* ... which loadDocuments takes for empty when it cannot be read.
LoadDocuments ==
    /\ screen.open /\ screen.loading
    /\ \/ screen' = [screen EXCEPT !.loading = FALSE, !.docs = NewestList] /\ UNCHANGED vaultCount
       \/ screen' = [screen EXCEPT !.loading = FALSE] /\ Fails
    /\ UNCHANGED <<docList, docWrites, docFiles, docTemp, keyStore, consent, form, saves, shares>>

\* Leaving the screen does not stop its save: it goes on with the list it saw.
LeaveVault ==
    /\ screen.open /\ screen.dialog = "none"
    /\ saves["front"].pc # "idle" => saves["left"].pc = "idle"
    /\ screen' = ClosedScreen
    /\ IF saves["front"].pc = "idle" THEN UNCHANGED <<saves, vaultCount>>
       ELSE /\ saves' = [front |-> IdleSave, left |-> [saves["front"] EXCEPT !.docs = screen.docs]]
            /\ Happens("left")
    /\ UNCHANGED <<docList, docWrites, docFiles, docTemp, keyStore, consent, form, shares>>

\* The add buttons of the section, of the empty vault and of the list
OpenDialog ==
    /\ Dialog("none") /\ {"add", "empty", "fab"} \cap VaultView # {}
    /\ screen' = [screen EXCEPT !.dialog = "form"]
    /\ UNCHANGED <<docList, docWrites, docFiles, docTemp, keyStore, consent, form, saves, shares, vaultCount>>

\* handleClose forgets the file and the tick, and keeps the type.
CloseDialog ==
    /\ Offers("cancel")
    /\ screen' = [screen EXCEPT !.dialog = "none"]
    /\ form' = [EmptyForm EXCEPT !.type = form.type]
    /\ UNCHANGED <<docList, docWrites, docFiles, docTemp, keyStore, consent, saves, shares, vaultCount>>

\* A type chip: the picked file and the tick stay.
SetSelectedType(y) ==
    /\ Offers("types") /\ y # form.type
    /\ form' = [form EXCEPT !.type = y]
    /\ UNCHANGED <<docList, docWrites, docFiles, docTemp, keyStore, consent, screen, saves, shares, vaultCount>>

\* handleAttachPress
HandleAttachPress ==
    /\ Offers("attach")
    /\ screen' = [screen EXCEPT !.dialog =
          IF form.type = "health_insurance" /\ ~consent.agreed THEN "consent" ELSE "options"]
    /\ UNCHANGED <<docList, docWrites, docFiles, docTemp, keyStore, consent, form, saves, shares, vaultCount>>

\* HealthInsuranceConsentModal: a tick allows "agree"; declining closes it.
ConsentModal ==
    /\ \/ Dialog("consent") /\ screen' = [screen EXCEPT !.dialog = "consentTicked"] /\ UNCHANGED consent
       \/ Dialog("consentTicked") /\ screen' = [screen EXCEPT !.dialog = "consent"] /\ UNCHANGED consent
       \/ /\ Dialog("consent") \/ Dialog("consentTicked")
          /\ screen' = [screen EXCEPT !.dialog = "form"] /\ UNCHANGED consent
       \/ /\ Dialog("consentTicked")
          /\ screen' = [screen EXCEPT !.dialog = "agreeing"]
          /\ consent' = [consent EXCEPT !.agreed = TRUE]
    /\ UNCHANGED <<docList, docWrites, docFiles, docTemp, keyStore, form, saves, shares, vaultCount>>

\* agreeHealthInsurance has persisted the consent, or could not; the options follow.
ConsentPersisted ==
    /\ Dialog("agreeing")
    /\ screen' = [screen EXCEPT !.dialog = "options"]
    /\ \/ consent' = [consent EXCEPT !.stored = TRUE] /\ UNCHANGED vaultCount
       \/ UNCHANGED consent /\ Fails
    /\ UNCHANGED <<docList, docWrites, docFiles, docTemp, keyStore, form, saves, shares>>

\* Mutant: the tick stays.
PickedKeepingTick == form' = [form EXCEPT !.file = TRUE, !.seen = FALSE]

\* A file was picked (gallery, file picker, confirmed scan): the tick is taken back.
Picked == form' = [form EXCEPT !.file = TRUE, !.masked = FALSE, !.seen = FALSE]

\* showAddOptions, handleCamera, handleGallery, handleFilePicker; every way may be
\* cancelled or refused.
PickFile ==
    /\ Dialog("options")
    /\ \/ screen' = [screen EXCEPT !.dialog = "form"] /\ (Picked \/ UNCHANGED form)
       \/ screen' = [screen EXCEPT !.dialog = "scanning"] /\ UNCHANGED form
    /\ UNCHANGED <<docList, docWrites, docFiles, docTemp, keyStore, consent, saves, shares, vaultCount>>

\* ScanPreviewModal: the picture is processed (again when grayscale is switched, or
\* when a new one is taken); only a processed one can be confirmed.
ScanPreview ==
    /\ \/ Dialog("scanning") /\ screen' = [screen EXCEPT !.dialog = "scanned"] /\ UNCHANGED form
       \/ Dialog("scanned") /\ screen' = [screen EXCEPT !.dialog = "scanning"] /\ UNCHANGED form
       \/ Dialog("scanned") /\ screen' = [screen EXCEPT !.dialog = "form"] /\ Picked
       \/ /\ Dialog("scanning") \/ Dialog("scanned")       \* retake, then cancel the camera
          /\ screen' = [screen EXCEPT !.dialog = "form"] /\ UNCHANGED form
    /\ UNCHANGED <<docList, docWrites, docFiles, docTemp, keyStore, consent, saves, shares, vaultCount>>

\* The tick "the number is masked", seen with the file that is attached now
ToggleMasked ==
    /\ Offers("maskingCheck")
    /\ form' = [form EXCEPT !.masked = ~@, !.seen = ~form.masked]
    /\ UNCHANGED <<docList, docWrites, docFiles, docTemp, keyStore, consent, screen, saves, shares, vaultCount>>

-----------------------------------------------------------------------------
(* A save                                                                  *)

\* Mutant: the document is added a second time.
AddedTwice(s, d) ==
    /\ CanWrite
    /\ saves' = [saves EXCEPT ![s] = IdleSave]
    /\ docWrites' = Append(docWrites, <<d, d>> \o screen.docs)
    /\ screen' = [screen EXCEPT !.docs = <<d, d>> \o @, !.dialog = "none"]
    /\ form' = EmptyForm

\* onAdd of document d, from a save: the list of the screen that began it grows and is
\* written; the form is reset and the dialog closed.  React may or may not run the
\* state update of a screen that was left.
Added(s, d) ==
    /\ CanWrite
    /\ saves' = [saves EXCEPT ![s] = IdleSave]
    /\ IF s = "front"
       THEN /\ docWrites' = Append(docWrites, <<d>> \o screen.docs)
            /\ screen' = [screen EXCEPT !.docs = <<d>> \o @, !.dialog = "none"]
            /\ form' = EmptyForm
       ELSE /\ docWrites' = Append(docWrites, <<d>> \o saves[s].docs) \/ UNCHANGED docWrites
            /\ UNCHANGED <<screen, form>>

DocumentOf(v, kind) ==
    [id |-> v.doc, type |-> v.form.type, file |-> kind, aged |-> FALSE,
     confirmed |-> v.form.seen, consented |-> v.consented]

Step(s, pc) == saves' = [saves EXCEPT ![s].pc = pc]

\* handleSave, with a file: the rest follows in steps; without one: at once.
HandleSave ==
    /\ Offers("save") /\ vaultCount.docs < MaxDocs
    /\ vaultCount' = [vaultCount EXCEPT !.docs = @ + 1]
    /\ LET v == [IdleSave EXCEPT !.pc = "copy", !.doc = vaultCount.docs + 1,
                                 !.form = form, !.consented = consent.agreed]
       IN  IF form.file
           THEN saves' = [saves EXCEPT !["front"] = v] /\ UNCHANGED <<docWrites, screen, form>>
           ELSE Added("front", DocumentOf(v, "none"))
    /\ UNCHANGED <<docList, docFiles, docTemp, keyStore, consent, shares>>

\* persistFile copies the picked file; when that fails nothing is saved.
CopyFile(s) ==
    /\ saves[s].pc = "copy"
    /\ \/ /\ docFiles' = [docFiles EXCEPT ![saves[s].doc].plain = TRUE]
          /\ Step(s, "master") /\ UNCHANGED vaultCount
       \/ saves' = [saves EXCEPT ![s] = IdleSave] /\ UNCHANGED docFiles /\ Fails
    /\ UNCHANGED <<docList, docWrites, docTemp, keyStore, consent, screen, form, shares>>

\* Mutant: the salt is read under the name of the master key.
ReadMasterKey(s, k) ==
    /\ saves[s].pc = k
    /\ saves' = [saves EXCEPT
          ![s].key[k] = keyStore["master"],
          ![s].pc = IF keyStore["master"] = None THEN (IF k = "master" THEN "newMaster" ELSE "newSalt")
                    ELSE (IF k = "master" THEN "salt" ELSE "encrypt")]
    /\ UNCHANGED <<docList, docWrites, docFiles, docTemp, keyStore, consent, screen, form, shares, vaultCount>>

\* getOrCreateMasterKey, getOrCreateSalt: read, and when there is none draw one, ...
ReadKey(s, k) ==
    /\ saves[s].pc = k
    /\ saves' = [saves EXCEPT
          ![s].key[k] = keyStore[k],
          ![s].pc = IF keyStore[k] = None THEN (IF k = "master" THEN "newMaster" ELSE "newSalt")
                    ELSE (IF k = "master" THEN "salt" ELSE "encrypt")]
    /\ UNCHANGED <<docList, docWrites, docFiles, docTemp, keyStore, consent, screen, form, shares, vaultCount>>

\* ... store it, and only then use it.
WriteKey(s, k) ==
    /\ saves[s].pc = IF k = "master" THEN "newMaster" ELSE "newSalt"
    /\ LET key == vaultCount.keys + 1
       IN  /\ keyStore' = [keyStore EXCEPT ![k] = key]
           /\ saves' = [saves EXCEPT ![s].key[k] = key,
                                     ![s].pc = IF k = "master" THEN "salt" ELSE "encrypt"]
           /\ vaultCount' = [vaultCount EXCEPT !.keys = key, !.raced = @ \/ keyStore[k] # None]
    /\ UNCHANGED <<docList, docWrites, docFiles, docTemp, consent, screen, form, shares>>

\* generateEncryptionKey and encryptFile: the file under both keys
EncryptFile(s) ==
    /\ saves[s].pc = "encrypt"
    /\ docFiles' = [docFiles EXCEPT ![saves[s].doc].enc = <<saves[s].key["master"], saves[s].key["salt"]>>]
    /\ Step(s, "unlink")
    /\ UNCHANGED <<docList, docWrites, docTemp, keyStore, consent, screen, form, shares, vaultCount>>

\* Mutant: the plain copy stays.
AddOnly(s) ==
    /\ saves[s].pc = "unlink"
    /\ Added(s, DocumentOf(saves[s], "enc"))
    /\ UNCHANGED <<docList, docFiles, docTemp, keyStore, consent, shares, vaultCount>>

\* The plain copy is deleted and the document added as encrypted.
UnlinkAndAdd(s) ==
    /\ saves[s].pc = "unlink"
    /\ docFiles' = [docFiles EXCEPT ![saves[s].doc].plain = FALSE]
    /\ Added(s, DocumentOf(saves[s], "enc"))
    /\ UNCHANGED <<docList, docTemp, keyStore, consent, shares, vaultCount>>

\* Whatever fails after the copy is caught: the document is added with the plain copy.
FallBackToPlain(s) ==
    /\ saves[s].pc \in Phases \ {"idle", "copy"} /\ Fails
    /\ Added(s, DocumentOf(saves[s], "plain"))
    /\ UNCHANGED <<docList, docFiles, docTemp, keyStore, consent, shares>>

\* The filter of handleDelete by the id of the n-th document: no two have the same id.
Without(docs, n) == SubSeq(docs, 1, n - 1) \o SubSeq(docs, n + 1, Len(docs))

\* handleDelete: the list without the document is written, its file deleted if possible.
HandleDelete(n) ==
    /\ Dialog("none") /\ n \in DOMAIN screen.docs /\ CanWrite
    /\ "delete" \in DocumentCard(screen.docs[n])
    /\ LET d == screen.docs[n]
           rest == Without(screen.docs, n)
       IN  /\ screen' = [screen EXCEPT !.docs = rest]
           /\ docWrites' = Append(docWrites, rest)
           /\ \/ /\ docFiles' = CASE d.file = "enc" -> [docFiles EXCEPT ![d.id].enc = <<None, None>>]
                                  [] d.file = "plain" -> [docFiles EXCEPT ![d.id].plain = FALSE]
                                  [] OTHER -> docFiles
                 /\ UNCHANGED vaultCount
              \/ d.file # "none" /\ UNCHANGED docFiles /\ Fails
    /\ UNCHANGED <<docList, docTemp, keyStore, consent, form, saves, shares>>

\* AsyncStorage writes the lists in the order of the calls.
FlushList ==
    /\ docWrites # <<>>
    /\ docList' = Head(docWrites) /\ docWrites' = Tail(docWrites)
    /\ UNCHANGED <<docFiles, docTemp, keyStore, consent, screen, form, saves, shares, vaultCount>>

-----------------------------------------------------------------------------
(* Sharing (VaultSection of auto-fill.tsx), restarts and time              *)

\* handleShare of a document with an encrypted file.  The list it comes from is cached
\* for 30 seconds: the document may be deleted by now, and decryptFile then throws.
\* (The vault itself is not open meanwhile: what could be deleted there in between is
\* already covered by the cached list.)
StartShare(n, i) ==
    /\ ~screen.open /\ shares[n].pc = "idle" /\ i <= vaultCount.docs /\ ~Saving(i)
    /\ \A m \in DOMAIN NewestList : NewestList[m].id = i => NewestList[m].file = "enc"
    /\ IF n = 1 THEN UNCHANGED vaultCount ELSE shares[1].pc # "idle" /\ Happens("overlap")
    /\ shares' = [shares EXCEPT ![n] = [pc |-> "decrypt", id |-> i]]
    /\ UNCHANGED <<docList, docWrites, docFiles, docTemp, keyStore, consent, screen, form, saves>>

\* Mutant: a share that cannot be shown is not cleaned up.
DecryptOrGiveUp(n) ==
    /\ shares[n].pc = "decrypt" /\ docFiles[shares[n].id].enc # <<None, None>>
    /\ docTemp' = [docTemp EXCEPT !.copies = @ \cup {shares[n].id}]
    /\ shares' = IF \E m \in 1..2 : shares[m].pc = "sheet"
                 THEN [shares EXCEPT ![n] = IdleShare] ELSE [shares EXCEPT ![n].pc = "sheet"]
    /\ UNCHANGED <<docList, docWrites, docFiles, keyStore, consent, screen, form, saves, vaultCount>>

\* decryptFile: it throws without the encrypted file, and when a call fails; a write that
\* fails may leave a part of the copy, and handleShare deletes only a finished one.
DecryptToTemp(n) ==
    /\ shares[n].pc = "decrypt"
    /\ \/ /\ docFiles[shares[n].id].enc = <<None, None>>
          /\ shares' = [shares EXCEPT ![n] = IdleShare] /\ UNCHANGED <<docTemp, vaultCount>>
       \/ /\ docFiles[shares[n].id].enc # <<None, None>>
          /\ docTemp' = [docTemp EXCEPT !.copies = @ \cup {shares[n].id}]
          \* one share sheet at a time: a second one fails and is cleaned up at once
          /\ shares' = [shares EXCEPT ![n].pc =
               IF \E m \in 1..2 : shares[m].pc = "sheet" THEN "clean" ELSE "sheet"]
          /\ UNCHANGED vaultCount
       \/ /\ docFiles[shares[n].id].enc # <<None, None>> /\ Happens("copyFailed")
          /\ shares' = [shares EXCEPT ![n] = IdleShare]
          /\ docTemp' \in {docTemp, [copies |-> docTemp.copies \cup {shares[n].id},
                                    stray |-> docTemp.stray \cup {shares[n].id}]}
    /\ UNCHANGED <<docList, docWrites, docFiles, keyStore, consent, screen, form, saves>>

CloseSheet(n) ==
    /\ shares[n].pc = "sheet"
    /\ shares' = [shares EXCEPT ![n].pc = "clean"]
    /\ UNCHANGED <<docList, docWrites, docFiles, docTemp, keyStore, consent, screen, form, saves, vaultCount>>

\* The finally block of handleShare deletes the copy, or fails to.
CleanTemp(n) ==
    /\ shares[n].pc = "clean"
    /\ shares' = [shares EXCEPT ![n] = IdleShare]
    /\ \/ /\ docTemp' = [copies |-> docTemp.copies \ {shares[n].id},
                         stray |-> docTemp.stray \ {shares[n].id}]
          /\ UNCHANGED vaultCount
       \/ /\ docTemp' = [docTemp EXCEPT !.stray = @ \cup (docTemp.copies \cap {shares[n].id})]
          /\ Happens("copyFailed")
    /\ UNCHANGED <<docList, docWrites, docFiles, keyStore, consent, screen, form, saves>>

\* The app is killed and started again: what was in memory is gone, loadConsent reads.
RestartApp ==
    /\ Happens("killed")
    /\ docWrites' = <<>> /\ screen' = ClosedScreen /\ form' = EmptyForm
    /\ saves' = [s \in Slots |-> IdleSave] /\ shares' = [n \in 1..2 |-> IdleShare]
    /\ consent' = [consent EXCEPT !.agreed = consent.stored]
    /\ docTemp' = [docTemp EXCEPT !.stray = docTemp.copies]
    /\ UNCHANGED <<docList, docFiles, keyStore>>

\* The user comes back after 90 days (not in the middle of anything).
QuarterPasses ==
    /\ ~screen.open /\ docWrites = <<>> /\ \A x \in Slots : saves[x].pc = "idle"
    /\ \A n \in 1..2 : shares[n].pc = "idle"
    /\ docList' = [n \in DOMAIN docList |-> [docList[n] EXCEPT !.aged = TRUE]]
    /\ UNCHANGED <<docWrites, docFiles, docTemp, keyStore, consent, screen, form, saves, shares, vaultCount>>

VaultNext ==
    \/ OpenVault \/ LoadDocuments \/ LeaveVault \/ OpenDialog \/ CloseDialog
    \/ \E y \in TypesInPlay : SetSelectedType(y)
    \/ HandleAttachPress \/ ConsentModal \/ ConsentPersisted \/ PickFile \/ ScanPreview
    \/ ToggleMasked \/ HandleSave
    \/ \E s \in Slots : \/ CopyFile(s) \/ EncryptFile(s) \/ UnlinkAndAdd(s) \/ FallBackToPlain(s)
                        \/ \E k \in KeyKinds : ReadKey(s, k) \/ WriteKey(s, k)
    \/ \E n \in DocIds : HandleDelete(n)
    \/ FlushList
    \/ \E n \in 1..2 : \/ DecryptToTemp(n) \/ CloseSheet(n) \/ CleanTemp(n)
                       \/ \E i \in DocIds : StartShare(n, i)
    \/ RestartApp \/ QuarterPasses

VaultSpec == VaultInit /\ [][VaultNext]_vaultVars

-----------------------------------------------------------------------------
(* Properties                                                              *)

\* Every encrypted file can be decrypted: it is under the two keys that are stored, also
\* after a crash or a failure at any point of a save.  (Two saves that make the first
\* key at the same time are the exception: the second key replaces the first.)
FilesUnderStoredKeys ==
    ~vaultCount.raced =>
        \A i \in DocIds : docFiles[i].enc # <<None, None>> =>
            docFiles[i].enc = <<keyStore["master"], keyStore["salt"]>>

\* As long as no save or deletion of a document fails, no screen is left during a save and
\* the app is not killed, the newest list and the vault directory agree: a listed document
\* with a file has exactly its encrypted file, and a file belongs to a listed document or
\* to a save in progress.  No plain copy stays behind, no file is lost, none is kept after
\* its document is deleted.
ListMatchesFiles ==
    vaultCount.incidents \subseteq {"overlap", "copyFailed"} =>
        \A i \in DocIds : Saving(i) \/
            LET d == {NewestList[n] : n \in {m \in DOMAIN NewestList : NewestList[m].id = i}}
            IN  /\ ~docFiles[i].plain
                /\ docFiles[i].enc # <<None, None>> <=> \E e \in d : e.file = "enc"

\* A decrypted copy in the cache directory belongs to a share that still runs, or it was
\* left behind: making or deleting it failed, or the app was killed, and no share of the
\* document has deleted it since.  However shares overlap, none forgets its copy otherwise.
TempCleared == docTemp.copies \subseteq {shares[n].id : n \in 1..2} \cup docTemp.stray

\* handleSave, about documents that carry a registration number: one that is stored with
\* a file was confirmed as masked while that very file was attached.
MaskingConfirmedForFile ==
    \A n \in DOMAIN NewestList :
        LET d == NewestList[n] IN d.file # "none" /\ d.type \in RiskyTypes => d.confirmed

\* The consent dialog says of a user who declines: "this document only cannot be kept".
\* So a health document stored with a file has its consent.
HealthFilesConsented ==
    \A n \in DOMAIN NewestList :
        LET d == NewestList[n] IN d.file # "none" /\ d.type = "health_insurance" => d.consented

=============================================================================
