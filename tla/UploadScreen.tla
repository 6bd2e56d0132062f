---------------------------- MODULE UploadScreen ----------------------------
(***************************************************************************)
(* handleUpload of Documents.tsx: the guardians' public keys are read one  *)
(* after the other, the document key is shared among them, the ciphertext  *)
(* is pinned and mirrored, and the document is put on chain; offline, a    *)
(* draft is queued instead.  Every await is a place where a guardian may   *)
(* register another key, the upload may be aborted or the tab closed.  The *)
(* abort button acts on the stage last rendered.  The n-th upload draws    *)
(* the n-th document key.                                                  *)
(***************************************************************************)
EXTENDS Naturals, Sequences, FiniteSets

CONSTANTS
    VaultGuardians, \* guardians of the vault, in order
    MaxUploads,     \* bound on uploads
    MaxVersions     \* bound on the keys a guardian registers

ASSUME UploadConstants ==
    /\ Len(VaultGuardians) \in Nat \ {0} /\ DOMAIN VaultGuardians = 1..Len(VaultGuardians)
    /\ MaxUploads \in Nat \ {0} /\ MaxVersions \in Nat \ {0}

Members == DOMAIN VaultGuardians
Versions == 0..MaxVersions

VARIABLES
    pubKeys,    \* [Members -> Versions]: key registered on chain, 0 for none
    job,        \* the running upload
    shown,      \* uploadStage as rendered
    cids,       \* uploads whose ciphertext is pinned
    mirrors,    \* background copies: [key, state]
    entries,    \* documents on chain, by id: [key, shares, since]
    docKeys,    \* keyStoreService: [id, key]
    drafts,     \* the offline queue
    keyNotice   \* key dialog: [doc, confirmed], doc 0 when closed

uploadVars == <<pubKeys, job, shown, cids, mirrors, entries, docKeys, drafts, keyNotice>>

Blanks == [i \in Members |-> 0]
NoNotice == [doc |-> 0, confirmed |-> FALSE]
Job(stage, key) == [stage |-> stage, key |-> key, asked |-> 0, got |-> Blanks, since |-> Blanks, aborted |-> FALSE]

UploadInit ==
    /\ pubKeys \in [Members -> {0, 1}]
    /\ job = Job("idle", 0) /\ shown = "idle"
    /\ cids = {} /\ mirrors = {} /\ entries = <<>> /\ docKeys = {} /\ drafts = {}
    /\ keyNotice = NoNotice

\* setUploadStage
StageOf(stage) == CASE stage \in {"keys", "sealing"}       -> "encrypting"
                    [] stage \in {"drafting", "uploading"} -> "uploading_ipfs"
                    [] stage = "submitting"                -> "submitting_tx"
                    [] OTHER                               -> "idle"

\* The finally block, also reached by every throw.
Finish == job' = [Job("idle", job.key) EXCEPT !.aborted = job.aborted]

\* The button is disabled while an upload is shown.
HandleUpload ==
    /\ job.stage = "idle" /\ shown = "idle" /\ job.key < MaxUploads
    /\ job' = [Job("keys", job.key + 1) EXCEPT !.since = pubKeys]
    /\ UNCHANGED <<pubKeys, shown, cids, mirrors, entries, docKeys, drafts, keyNotice>>

\* getUserPublicKey of the next guardian; a failed read gives the empty key.
ReadGuardianKey(fails) ==
    /\ job.stage = "keys" /\ job.asked < Len(VaultGuardians)
    /\ LET i == job.asked + 1 IN
       job' = [job EXCEPT !.asked = i, !.got[i] = IF fails THEN 0 ELSE pubKeys[i]]
    /\ UNCHANGED <<pubKeys, shown, cids, mirrors, entries, docKeys, drafts, keyNotice>>

MissingKeys == {i \in Members : job.got[i] = 0}

\* With a key missing the upload throws; else the document key is drawn and its shares sealed.
SealShares ==
    /\ job.stage = "keys" /\ job.asked = Len(VaultGuardians)
    /\ IF MissingKeys # {} THEN Finish ELSE job' = [job EXCEPT !.stage = "sealing"]
    /\ UNCHANGED <<pubKeys, shown, cids, mirrors, entries, docKeys, drafts, keyNotice>>

\* The shares are sealed: navigator.onLine decides between the upload and the draft.
ChooseRoute(onLine) ==
    /\ job.stage = "sealing"
    /\ job' = [job EXCEPT !.stage = IF onLine THEN "uploading" ELSE "drafting"]
    /\ UNCHANGED <<pubKeys, shown, cids, mirrors, entries, docKeys, drafts, keyNotice>>

(* enqueueAction; without a key of the user's own it throws.  The signal   *)
(* of the abort button is not looked at.                                   *)
SaveDraft(ownKey) ==
    /\ job.stage = "drafting" /\ Finish
    /\ drafts' = IF ownKey THEN drafts \cup {[key |-> job.key, shares |-> job.got]} ELSE drafts
    /\ UNCHANGED <<pubKeys, shown, cids, mirrors, entries, docKeys, keyNotice>>

(* encryptAndUploadFile: pinned, rejected, or pinned with the answer lost; *)
(* an aborted signal rejects it.  The mirrors start when it resolves.      *)
PinCiphertext(isPinned, answered) ==
    /\ job.stage = "uploading" /\ (answered => isPinned /\ ~job.aborted)
    /\ cids' = IF isPinned THEN cids \cup {job.key} ELSE cids
    /\ IF answered
       THEN /\ job' = [job EXCEPT !.stage = "submitting"]
            /\ mirrors' = mirrors \cup {[key |-> job.key, state |-> "running"]}
       ELSE Finish /\ UNCHANGED mirrors
    /\ UNCHANGED <<pubKeys, shown, entries, docKeys, drafts, keyNotice>>

\* keyStoreService.set, in sessionStorage
Stored(id, key) == {k \in docKeys : k.id # id} \cup {[id |-> id, key |-> key]}

(* addDocument: the transaction is mined or not, and returns the id, no    *)
(* id, or throws.  The key is stored only with an id.                      *)
SubmitDocument(mined, hasId) ==
    /\ job.stage = "submitting" /\ (hasId => mined) /\ Finish
    /\ entries' = IF mined THEN Append(entries, [key |-> job.key, shares |-> job.got, since |-> job.since])
                  ELSE entries
    /\ IF hasId
       THEN /\ docKeys' = Stored(Len(entries) + 1, job.key)
            /\ keyNotice' = [doc |-> Len(entries) + 1, confirmed |-> FALSE]
       ELSE UNCHANGED <<docKeys, keyNotice>>
    /\ UNCHANGED <<pubKeys, shown, cids, mirrors, drafts>>

Render ==
    /\ shown # StageOf(job.stage) /\ shown' = StageOf(job.stage)
    /\ UNCHANGED <<pubKeys, job, cids, mirrors, entries, docKeys, drafts, keyNotice>>

(* handleAbortUpload, on what is rendered: the signal reaches the pinning  *)
(* request and the mirrors of the upload.                                  *)
Abortable == shown \in {"encrypting", "uploading_ipfs"}
HandleAbortUpload ==
    /\ Abortable /\ ~job.aborted
    /\ job' = [job EXCEPT !.aborted = TRUE]
    /\ mirrors' = {IF m.key = job.key /\ m.state = "running" THEN [m EXCEPT !.state = "ended"] ELSE m : m \in mirrors}
    /\ UNCHANGED <<pubKeys, shown, cids, entries, docKeys, drafts, keyNotice>>

\* backupDocument ends; a failure is only logged, and one provider's does not stop the other.
MirrorEnds(m) ==
    /\ m \in mirrors /\ m.state = "running"
    /\ mirrors' = (mirrors \ {m}) \cup {[m EXCEPT !.state = "ended"]}
    /\ UNCHANGED <<pubKeys, job, shown, cids, entries, docKeys, drafts, keyNotice>>

\* The checkbox of the key dialog, and handleCloseKeyModal, which insists on it.
ConfirmBackup ==
    /\ keyNotice.doc # 0 /\ keyNotice' = [keyNotice EXCEPT !.confirmed = ~@]
    /\ UNCHANGED <<pubKeys, job, shown, cids, mirrors, entries, docKeys, drafts>>
HandleCloseKeyModal ==
    /\ keyNotice.confirmed /\ keyNotice' = NoNotice
    /\ UNCHANGED <<pubKeys, job, shown, cids, mirrors, entries, docKeys, drafts>>

\* A guardian registers a first or another key.
RegisterKey(i) ==
    /\ pubKeys[i] < MaxVersions /\ pubKeys' = [pubKeys EXCEPT ![i] = @ + 1]
    /\ UNCHANGED <<job, shown, cids, mirrors, entries, docKeys, drafts, keyNotice>>

\* The tab is closed and opened again: sessionStorage and what is in flight are gone.
CloseUploadTab ==
    /\ job.stage # "idle" \/ docKeys # {}
    /\ Finish /\ shown' = "idle" /\ docKeys' = {} /\ keyNotice' = NoNotice
    /\ mirrors' = {m \in mirrors : m.state # "running"}
    /\ UNCHANGED <<pubKeys, cids, entries, drafts>>

UploadNext ==
    \/ HandleUpload \/ SealShares \/ Render \/ HandleAbortUpload
    \/ ConfirmBackup \/ HandleCloseKeyModal \/ CloseUploadTab
    \/ \E b \in BOOLEAN : ReadGuardianKey(b) \/ ChooseRoute(b) \/ SaveDraft(b)
    \/ \E a, b \in BOOLEAN : PinCiphertext(a, b) \/ SubmitDocument(a, b)
    \/ \E m \in mirrors : MirrorEnds(m)
    \/ \E i \in Members : RegisterKey(i)

---------------------------------------------------------------------------

\* Type invariant of the upload.
UploadTypeOK ==
    /\ pubKeys \in [Members -> Versions] /\ job.got \in [Members -> Versions] /\ job.key \in 0..MaxUploads
    /\ shown \in {"idle", "encrypting", "uploading_ipfs", "submitting_tx"}
    /\ cids \subseteq 1..MaxUploads /\ keyNotice.doc \in 0..Len(entries)

(* Whatever happens between two awaits, a document on chain is complete:   *)
(* its ciphertext is pinned, and every guardian of the vault holds a share *)
(* of its key sealed to a key that was registered while the upload ran; so *)
(* it can be opened even if the tab closed before its key was stored.      *)
EntriesAreRecoverable ==
    \A d \in DOMAIN entries :
        /\ entries[d].key \in cids
        /\ \A i \in Members : /\ entries[d].shares[i] # 0 /\ entries[d].shares[i] <= pubKeys[i]
                              /\ entries[d].since[i] <= entries[d].shares[i]

(* The key kept, and offered for backup, under an id is that document's;   *)
(* an upload ends in at most one place, as one document or as one draft;   *)
(* and a mirror belongs to a pinned ciphertext.                            *)
UploadsKeepApart ==
    /\ \A k \in docKeys : entries[k.id].key = k.key
    /\ keyNotice.doc # 0 => \E k \in docKeys : k.id = keyNotice.doc
    /\ \A c, d \in DOMAIN entries : entries[c].key = entries[d].key => c = d
    /\ {entries[d].key : d \in DOMAIN entries} \cap {f.key : f \in drafts} = {}
    /\ \A m \in mirrors : m.key \in cids

(* An upload aborted before its ciphertext was pinned is never put on      *)
(* chain: an abort that comes later reaches the mirrors alone.             *)
AbortStopsUpload ==
    job.stage = "submitting" /\ job.aborted =>
        \E m \in mirrors : m.key = job.key /\ m.state = "ended"
=============================================================================
