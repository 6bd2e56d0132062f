--------------------------- MODULE DocumentBackup ---------------------------
(***************************************************************************)
(* Where the ciphertext of a document is kept: the pin on IPFS, made       *)
(* directly or through the signing proxy, and the copies that              *)
(* backupDocument makes with Filecoin and Arweave afterwards, whose        *)
(* references are merged into one record of localStorage.  fetchDocument   *)
(* asks IPFS first and then the recorded copies.  Requests to the proxy    *)
(* travel, may arrive late or twice; providers lose what was never         *)
(* anchored; the page may be closed between an upload and its record.      *)
(***************************************************************************)
EXTENDS Naturals, Sequences, FiniteSets

CONSTANTS
    Papers,         \* documents
    MaxSkew,        \* seconds a signature is valid (maxSkewSec)
    MaxStoreClock,  \* bound on the clock
    MaxLosses,      \* copies lost, providers down, pages closed
    MaxBackups,     \* backups ever begun
    MaxReads,       \* downloads ever begun
    MaxSends        \* requests ever sent to Pinata or the proxy

ASSUME BackupConstants ==
    /\ MaxSkew \in Nat /\ MaxStoreClock \in Nat
    /\ MaxLosses \in Nat /\ MaxSends \in Nat /\ MaxBackups \in Nat /\ MaxReads \in Nat

VARIABLES
    storeClock,
    proxied,    \* IPFS_PROXY_URL is set
    wire,       \* requests on their way to the proxy
    signed,     \* what the client signed: [op, doc, at]
    forwarded,  \* what the proxy passed on: [op, doc, at, when]
    ipfsPins,       \* documents pinned on IPFS
    copies,     \* uploads a provider took: [doc, provider, ref]
    anchored,   \* those of them that are in a block or in an active deal
    refs,       \* localStorage: [Papers -> set of references, one per provider at most]
    backups,    \* backups under way: [id, doc, todo]
    reads,      \* downloads under way: [id, doc, stage, named, sure]
    failedReads,\* downloads that ended with StorageProviderFetchError
    report,     \* what verifyArchival last said: [doc, provider]
    losses, begun

storeSide  == <<copies, anchored, refs, backups>>
readSide   == <<reads, failedReads, report>>
backupVars == <<storeClock, proxied, wire, signed, forwarded, ipfsPins, storeSide, readSide,
                losses, begun>>

BackupInit ==
    /\ storeClock = 0 /\ proxied \in BOOLEAN /\ wire = {} /\ signed = {} /\ forwarded = {}
    /\ ipfsPins = {} /\ copies = {} /\ anchored = {} /\ refs = [d \in Papers |-> {}]
    /\ backups = {} /\ reads = {} /\ failedReads = {} /\ report = {} /\ losses = 0
    /\ begun = [backups |-> 0, reads |-> 0, sends |-> 0]

Loses == losses < MaxLosses /\ losses' = losses + 1

Request(op, doc, hasHeader) == [op |-> op, doc |-> doc, at |-> storeClock, header |-> hasHeader]

\* Pinata itself: what the request does once it got there.
Pinned(op, doc) == IF op = "pin" THEN ipfsPins \cup {doc} ELSE ipfsPins \ {doc}

(* uploadFile and unpin sign the request for the proxy, uploadStream sends *)
(* it without the header; without a proxy the request goes to Pinata.      *)
Send(op, doc, hasHeader) ==
    /\ begun.sends < MaxSends /\ begun' = [begun EXCEPT !.sends = @ + 1]
    /\ IF proxied
       THEN /\ wire' = wire \cup {Request(op, doc, hasHeader)}
            /\ signed' = IF hasHeader THEN signed \cup {[op |-> op, doc |-> doc, at |-> storeClock]}
                         ELSE signed
            /\ UNCHANGED ipfsPins
       ELSE ipfsPins' = Pinned(op, doc) /\ UNCHANGED <<wire, signed>>
    /\ UNCHANGED <<storeClock, proxied, forwarded, storeSide, readSide, losses>>

UploadFile(doc)   == doc \notin ipfsPins /\ Send("pin", doc, TRUE)
UploadStream(doc) == doc \notin ipfsPins /\ Send("pin", doc, FALSE)
UnpinFile(doc)    == doc \in ipfsPins /\ Send("unpin", doc, TRUE)

(* authorizeProxyRequest: the signature covers time, method and path; of a *)
(* multipart request it does not cover the body.                           *)
ProxyAuthorizes(q) == q.header /\ storeClock - q.at <= MaxSkew

\* The request arrives, and maybe arrives once more later.
ProxyReceives(q, again) ==
    /\ q \in wire
    /\ wire' = IF again THEN wire ELSE wire \ {q}
    /\ IF ProxyAuthorizes(q)
       THEN /\ forwarded' = forwarded \cup {[op |-> q.op, doc |-> q.doc, at |-> q.at, when |-> storeClock]}
            /\ ipfsPins' = Pinned(q.op, q.doc)
       ELSE UNCHANGED <<forwarded, ipfsPins>>
    /\ UNCHANGED <<storeClock, proxied, signed, storeSide, readSide, losses, begun>>

RequestLost(q) ==
    /\ q \in wire /\ wire' = wire \ {q} /\ Loses
    /\ UNCHANGED <<storeClock, proxied, signed, forwarded, ipfsPins, storeSide, readSide, begun>>

\* getConfiguredBackupProviders: Filecoin needs an API key.
Configured(withKey) == IF withKey THEN <<"filecoin", "arweave">> ELSE <<"arweave">>

\* backupDocument: the configured providers, one after the other.
BackupDocument(doc, withKey) ==
    /\ doc \in ipfsPins /\ begun.backups < MaxBackups
    /\ begun' = [begun EXCEPT !.backups = @ + 1]
    /\ backups' = backups \cup {[id |-> begun.backups + 1, doc |-> doc, todo |-> Configured(withKey)]}
    /\ UNCHANGED <<storeClock, proxied, wire, signed, forwarded, ipfsPins, copies, anchored, refs,
                   readSide, losses>>

Done(b) == (backups \ {b}) \cup
           {[b EXCEPT !.todo = Tail(b.todo)] : x \in {y \in {1} : Len(b.todo) > 1}}

\* recordBackupRefs reads, merges and writes in one turn of the event loop.
Merged(doc, c) == {r \in refs[doc] : r.provider # c.provider} \cup {c}

\* The provider takes the upload; recorded is whether localStorage takes the reference.
UploadToProvider(b, recorded) ==
    LET c == [doc |-> b.doc, provider |-> Head(b.todo), ref |-> b.id] IN
    /\ copies' = copies \cup {c}
    /\ IF recorded THEN refs' = [refs EXCEPT ![b.doc] = Merged(b.doc, c)] /\ UNCHANGED losses
       ELSE Loses /\ UNCHANGED refs
    /\ backups' = Done(b)
    /\ UNCHANGED <<storeClock, proxied, wire, signed, forwarded, ipfsPins, anchored, readSide, begun>>

\* One provider failing is noted in the report, the next one is tried.
UploadRejected(b) ==
    /\ Loses /\ backups' = Done(b)
    /\ UNCHANGED <<storeClock, proxied, wire, signed, forwarded, ipfsPins, copies, anchored, refs,
                   readSide, begun>>

CloseTab ==
    /\ Loses /\ backups' = {} /\ reads' = {}
    /\ UNCHANGED <<storeClock, proxied, wire, signed, forwarded, ipfsPins, copies, anchored, refs,
                   failedReads, report, begun>>

Anchor(c) ==
    /\ c \in copies \ anchored /\ anchored' = anchored \cup {c}
    /\ UNCHANGED <<storeClock, proxied, wire, signed, forwarded, ipfsPins, copies, refs, backups,
                   readSide, losses, begun>>

\* Providers whose recorded copy a download can fetch.
Reachable(doc) == {c.provider : c \in refs[doc] \cap copies}

\* The references a download works with: it reads the record once IPFS has failed.
Record(r) == IF r.stage = "ipfs" THEN refs[r.doc] ELSE r.named

\* A copy that was accepted but never anchored is dropped.
DropCopy(c) ==
    /\ Loses /\ c \in copies \ anchored
    /\ copies' = copies \ {c}
    /\ reads' = {[r EXCEPT !.sure = IF c \in Record(r) THEN @ \ {c.provider} ELSE @] : r \in reads}
    /\ UNCHANGED <<storeClock, proxied, wire, signed, forwarded, ipfsPins, anchored, refs, backups,
                   failedReads, report, begun>>

FetchDocument(doc) ==
    /\ begun.reads < MaxReads
    /\ begun' = [begun EXCEPT !.reads = @ + 1]
    /\ reads' = reads \cup {[id |-> begun.reads + 1, doc |-> doc, stage |-> "ipfs",
                             named |-> {}, sure |-> Reachable(doc)]}
    /\ UNCHANGED <<storeClock, proxied, wire, signed, forwarded, ipfsPins, storeSide, failedReads,
                   report, losses>>

After(stage) ==
    IF stage = "ipfs" THEN "arweave" ELSE IF stage = "arweave" THEN "filecoin" ELSE "failed"

\* IPFS has the pin, or the provider of this stage the copy its reference names.
Served(r) ==
    IF r.stage = "ipfs" THEN r.doc \in ipfsPins
    ELSE {c \in r.named : c.provider = r.stage} \cap copies # {}

ReadServed(r) ==
    /\ Served(r) /\ reads' = reads \ {r}
    /\ UNCHANGED <<storeClock, proxied, wire, signed, forwarded, ipfsPins, storeSide, failedReads,
                   report, losses, begun>>

(* The source of this stage does not have it, or, counted as a loss, does  *)
(* not answer although it has; the next one is asked.                      *)
ReadNext(r) ==
    /\ IF Served(r) THEN Loses ELSE UNCHANGED losses
    /\ reads' = (reads \ {r}) \cup
         (IF After(r.stage) = "failed" THEN {}
          ELSE {[r EXCEPT !.stage = After(r.stage), !.named = Record(r), !.sure = IF Served(r) THEN @ \ {r.stage} ELSE @]})
    /\ failedReads' = IF After(r.stage) # "failed" THEN failedReads
                      ELSE failedReads \cup {IF Served(r) THEN r.sure \ {r.stage} ELSE r.sure}
    /\ UNCHANGED <<storeClock, proxied, wire, signed, forwarded, ipfsPins, storeSide, report, begun>>

\* checkProofOfStorage: accepted is not archived.
Archived(doc) == refs[doc] \cap anchored

VerifyArchival(doc) ==
    /\ report' = {r \in report : r.doc # doc} \cup
         {[doc |-> doc, provider |-> c.provider] : c \in Archived(doc)}
    /\ UNCHANGED <<storeClock, proxied, wire, signed, forwarded, ipfsPins, storeSide, reads, failedReads,
                   losses, begun>>

\* Only requests under way make the time matter.
StoreTick ==
    /\ wire # {}
    /\ storeClock < MaxStoreClock /\ storeClock' = storeClock + 1
    /\ UNCHANGED <<proxied, wire, signed, forwarded, ipfsPins, storeSide, readSide, losses, begun>>

BackupNext ==
    \/ StoreTick \/ CloseTab
    \/ \E doc \in Papers :
          \/ UploadFile(doc) \/ UploadStream(doc) \/ UnpinFile(doc)
          \/ \E k \in BOOLEAN : BackupDocument(doc, k)
          \/ FetchDocument(doc) \/ VerifyArchival(doc)
    \/ \E q \in wire : RequestLost(q) \/ \E b \in BOOLEAN : ProxyReceives(q, b)
    \/ \E b \in backups : UploadRejected(b) \/ \E k \in BOOLEAN : UploadToProvider(b, k)
    \/ \E c \in copies : Anchor(c) \/ DropCopy(c)
    \/ \E r \in reads : ReadServed(r) \/ ReadNext(r)

-----------------------------------------------------------------------------
\* References name the copies of their own document, one per provider.
BackupTypeOK ==
    /\ anchored \subseteq copies /\ ipfsPins \subseteq Papers
    /\ \A d \in Papers : \A r, s \in refs[d] :
          r.doc = d /\ (r.provider = s.provider => r = s)

(* A download that gives up had nothing to count on: every provider with a *)
(* recorded copy when it began lost it or refused to answer meanwhile.     *)
FetchFindsCopies == \A left \in failedReads : left = {}

(* The proxy forwards what a client signed, for the same operation and     *)
(* document, and no longer than the skew after it was signed, however late *)
(* or often the request arrives.                                           *)
ForwardedWasSigned ==
    \A f \in forwarded :
        /\ [op |-> f.op, doc |-> f.doc, at |-> f.at] \in signed
        /\ f.when - f.at <= MaxSkew

\* What verifyArchival calls archived is anchored; such copies are never lost.
ArchivedIsAnchored ==
    \A r \in report : \E c \in anchored : c.doc = r.doc /\ c.provider = r.provider
=============================================================================
