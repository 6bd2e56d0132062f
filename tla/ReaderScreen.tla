---------------------------- MODULE ReaderScreen ----------------------------
(***************************************************************************)
(* The screens that open documents (AccessCenter.tsx, and the rows of      *)
(* Documents.tsx): loadData, key packages, the key inbox, requests and     *)
(* opening.  Every handler keeps the account of the render it was made in  *)
(* across its awaits, a load that arrives late replaces what is shown, and *)
(* the keys of a tab outlive a change of account.  Answers of              *)
(* hasActiveAccess are cached (contract.service.ts).                       *)
(***************************************************************************)
EXTENDS Naturals, Sequences, FiniteSets, SequencesExt

CONSTANTS
    Readers,        \* accounts of the wallet
    PassHolders,    \* those with an access pass
    VaultCreator,   \* creator of the vault
    ReaderDocs,     \* documents of the vault
    Nobody,         \* no account is connected
    MaxLoads,       \* bound on loads in flight
    MaxClicks,      \* bound on what the user does
    MaxDecisions    \* bound on what the guardians do

ASSUME ReaderConstants ==
    /\ PassHolders \subseteq Readers /\ Nobody \notin Readers
    /\ {MaxLoads, MaxClicks, MaxDecisions} \subseteq Nat

VARIABLES
    rights,     \* on chain: [Readers \X ReaderDocs -> status of the latest request]
    reader,     \* account connected, or Nobody
    page,       \* the screen that is mounted
    rows,       \* what it shows: documents with access, and latest requests
    loading,    \* loads in flight
    answers,    \* hasActiveAccessCache: [of, doc, yes]
    tabKeys,    \* documents whose key is in sessionStorage
    inboxRun,   \* handleFetchInboxKeys
    opening,    \* handleView or handleDownload
    budget,     \* [clicks, decisions] so far
    unpins,     \* pairs whose envelopes the screen had unpinned
    ever,       \* decisions so far: <<account, document, status>>
    opened,     \* pairs <<account, document>> opened
    taken       \* pairs whose key was taken from the inbox

readerVars == <<rights, reader, page, rows, loading, answers, tabKeys, inboxRun, opening, budget, unpins, ever, opened, taken>>

Requested == {"none", "pending", "approved", "rejected"}
NoRequests == [d \in ReaderDocs |-> "none"]
Empty == [active |-> {}, latest |-> NoRequests]
Load(a) == [of |-> a, active |-> {}, latest |-> NoRequests, got |-> {}]
NoFetch == [of |-> Nobody, todo |-> <<>>, at |-> "idle", latest |-> NoRequests, imported |-> FALSE]
NoOpening == [of |-> Nobody, doc |-> 0, at |-> "idle"]

ReaderInit ==
    /\ rights \in [Readers \X ReaderDocs -> {"none", "approved"}]
    /\ reader \in Readers /\ page \in {"access", "documents"}
    /\ rows = Empty /\ loading = {Load(reader)} /\ answers = {} /\ tabKeys \in SUBSET ReaderDocs
    /\ inboxRun = NoFetch /\ opening = NoOpening
    /\ budget = [clicks |-> 0, decisions |-> 0]
    /\ ever = {<<p[1], p[2], rights[p]>> : p \in Readers \X ReaderDocs}
    /\ unpins = {} /\ opened = {} /\ taken = {}

Click == budget.clicks < MaxClicks /\ budget' = [budget EXCEPT !.clicks = @ + 1]

\* hasActiveAccess: the cached answer, or the chain's, which is cached.
Answer(a, d) ==
    IF \E c \in answers : c.of = a /\ c.doc = d
    THEN (CHOOSE c \in answers : c.of = a /\ c.doc = d).yes
    ELSE rights[<<a, d>>] = "approved"
Answered(a, ds) == answers \cup {[of |-> a, doc |-> d, yes |-> Answer(a, d)] : d \in ds}

\* An entry of the cache is past its time to live.
AnswerExpires ==
    /\ \E c \in answers : answers' = answers \ {c}
    /\ UNCHANGED <<rights, reader, page, rows, loading, tabKeys, inboxRun, opening, budget, unpins, ever, opened, taken>>

---------------------------------------------------------------------------
(* loadData; without an account it empties the screen.                     *)
StartLoad(a) ==
    /\ Cardinality(loading) < MaxLoads
    /\ loading' = IF a = Nobody THEN loading ELSE loading \cup {Load(a)}

\* getActiveAccessMap and getLatestRequestsForUser: at once on one screen, one after the other on the other.
ReadAccess(l) ==
    /\ l \in loading /\ "active" \notin l.got
    /\ loading' = (loading \ {l}) \cup {[l EXCEPT !.active = {d \in ReaderDocs : Answer(l.of, d)}, !.got = @ \cup {"active"}]}
    /\ answers' = Answered(l.of, ReaderDocs)
    /\ UNCHANGED <<rights, reader, page, rows, tabKeys, inboxRun, opening, budget, unpins, ever, opened, taken>>
ReadRequests(l) ==
    /\ l \in loading /\ "latest" \notin l.got /\ (page = "documents" => "active" \in l.got)
    /\ loading' = (loading \ {l}) \cup {[l EXCEPT !.latest = [d \in ReaderDocs |-> rights[<<l.of, d>>]], !.got = @ \cup {"latest"}]}
    /\ UNCHANGED <<rights, reader, page, rows, answers, tabKeys, inboxRun, opening, budget, unpins, ever, opened, taken>>

\* The setters at the end of loadData, whoever is connected by then.
LoadLands(l) ==
    /\ l \in loading /\ l.got = {"active", "latest"}
    /\ loading' = loading \ {l} /\ rows' = [active |-> l.active, latest |-> l.latest]
    /\ UNCHANGED <<rights, reader, page, answers, tabKeys, inboxRun, opening, budget, unpins, ever, opened, taken>>

\* A load fails: AccessCenter keeps what it shows, Documents clears the maps.
LoadFails(l) ==
    /\ l \in loading /\ loading' = loading \ {l}
    /\ rows' = IF page = "access" THEN rows ELSE Empty
    /\ UNCHANGED <<rights, reader, page, answers, tabKeys, inboxRun, opening, budget, unpins, ever, opened, taken>>

(* Another account, or none: the effect loads again; without an account    *)
(* Documents clears its maps and AccessCenter does nothing.                *)
ChangeAccount(a) ==
    /\ a # reader /\ Click /\ reader' = a /\ StartLoad(a)
    /\ rows' = IF a = Nobody /\ page = "documents" THEN Empty ELSE rows
    /\ answers' = IF a = Nobody THEN {} ELSE answers
    /\ UNCHANGED <<rights, page, tabKeys, inboxRun, opening, unpins, ever, opened, taken>>

\* The other screen is mounted: what it shows and its loads start afresh, handlers run on.
Navigate ==
    /\ Click /\ page' = IF page = "access" THEN "documents" ELSE "access"
    /\ rows' = Empty /\ loading' = IF reader = Nobody THEN {} ELSE {Load(reader)}
    /\ UNCHANGED <<rights, reader, answers, tabKeys, inboxRun, opening, unpins, ever, opened, taken>>

---------------------------------------------------------------------------
\* A key package: sealed to an account, issued for one or for anybody, from this contract or not.
Packages == {p \in [doc : ReaderDocs, sealed : BOOLEAN, to : Readers \cup {Nobody}, ours : BOOLEAN] : p.sealed => p.to # Nobody}

\* handleImportKeyBackup; only AccessCenter opens a sealed key.
Accepts(p) == p.ours /\ p.to \in {Nobody, reader} /\ (p.sealed => page = "access")
ImportKeyBackup(p) ==
    /\ Click
    /\ IF Accepts(p) THEN tabKeys' = tabKeys \cup {p.doc} /\ StartLoad(reader) ELSE UNCHANGED <<tabKeys, loading>>
    /\ rows' = IF Accepts(p) /\ reader = Nobody THEN Empty ELSE rows
    /\ UNCHANGED <<rights, reader, page, answers, inboxRun, opening, unpins, ever, opened, taken>>

\* Envelopes of the inbox: readable with the account's key, unreadable, or of another contract or chain.
Envelopes == [doc : ReaderDocs, issued : {1, 2}, kind : {"readable", "unreadable", "foreign"}]

\* latestByDoc: for each document the newest envelope, of equals the last, in order of appearance.
KeepLatest(m, e) ==
    IF \E i \in DOMAIN m : m[i].doc = e.doc
    THEN [i \in DOMAIN m |-> IF m[i].doc = e.doc /\ m[i].issued <= e.issued THEN e ELSE m[i]]
    ELSE Append(m, e)
LatestByDoc(list) == FoldLeft(KeepLatest, <<>>, list)

\* handleFetchInboxKeys keeps the requests last loaded for its whole run.
FetchInboxKeys(list) ==
    /\ page = "access" /\ reader # Nobody /\ inboxRun.at = "idle" /\ Click
    /\ inboxRun' = [of |-> reader, todo |-> LatestByDoc(list), at |-> "check", latest |-> rows.latest, imported |-> FALSE]
    /\ UNCHANGED <<rights, reader, page, rows, loading, answers, tabKeys, opening, unpins, ever, opened, taken>>

Skip == inboxRun' = [inboxRun EXCEPT !.todo = Tail(@), !.at = "check"]

(* An envelope of another contract or chain is skipped, the others ask     *)
(* hasActiveAccess; without access the envelope is skipped, and unpinned   *)
(* if the request kept since the click was rejected (KeyInbox.tla).        *)
CheckEnvelope ==
    /\ inboxRun.at = "check" /\ inboxRun.todo # <<>>
    /\ LET e == Head(inboxRun.todo) IN
       IF e.kind = "foreign" THEN Skip /\ UNCHANGED <<answers, unpins>>
       ELSE /\ answers' = Answered(inboxRun.of, {e.doc})
            /\ IF Answer(inboxRun.of, e.doc)
               THEN inboxRun' = [inboxRun EXCEPT !.at = "unseal"] /\ UNCHANGED unpins
               ELSE /\ Skip
                    /\ unpins' = IF inboxRun.latest[e.doc] = "rejected" THEN unpins \cup {<<inboxRun.of, e.doc>>} ELSE unpins
    /\ UNCHANGED <<rights, reader, page, rows, loading, tabKeys, opening, budget, ever, opened, taken>>

\* The key is unsealed with the account's own key and stored for the tab, or skipped.
StoreEnvelope ==
    /\ inboxRun.at = "unseal"
    /\ LET e == Head(inboxRun.todo) IN
       IF e.kind = "readable"
       THEN /\ tabKeys' = tabKeys \cup {e.doc} /\ taken' = taken \cup {<<inboxRun.of, e.doc>>}
            /\ inboxRun' = [inboxRun EXCEPT !.todo = Tail(@), !.at = "check", !.imported = TRUE]
       ELSE Skip /\ UNCHANGED <<tabKeys, taken>>
    /\ UNCHANGED <<rights, reader, page, rows, loading, answers, opening, budget, unpins, ever, opened>>

\* With a key imported the screen loads again, for the account of the fetch.
FetchEnds ==
    /\ inboxRun.at = "check" /\ inboxRun.todo = <<>> /\ inboxRun' = NoFetch
    /\ IF inboxRun.imported THEN StartLoad(inboxRun.of) ELSE UNCHANGED loading
    /\ UNCHANGED <<rights, reader, page, rows, answers, tabKeys, opening, budget, unpins, ever, opened, taken>>

---------------------------------------------------------------------------
\* resolveAccessState, for a request that has not expired.
ResolveAccessState(active, hasKey, hasPass, latest, isCreator) ==
    CASE isCreator           -> IF hasKey THEN "ready" ELSE "approved_key_missing"
      [] ~isCreator /\ ~hasPass -> "no_pass"
      [] ~isCreator /\ hasPass /\ active -> IF hasKey THEN "ready" ELSE "approved_key_missing"
      [] ~isCreator /\ hasPass /\ ~active ->
             CASE latest = "pending"  -> "request_pending"
               [] latest = "rejected" -> "request_rejected"
               [] OTHER               -> "can_request"

\* The state of a row, with the account now connected, and canDecrypt of Documents.
RowState(d) == ResolveAccessState(d \in rows.active, d \in tabKeys, reader \in PassHolders, rows.latest[d], reader = VaultCreator)
CanDecrypt(d) == IF page = "access" THEN RowState(d) = "ready" ELSE d \in rows.active /\ d \in tabKeys
CanRequest(d) == IF page = "access" THEN RowState(d) \in {"can_request", "request_rejected"}
                 ELSE d \notin rows.active /\ rows.latest[d] # "pending"

\* handleRequestAccess: AccessCenter asks for the pass first; the contract refuses a second live request.
RequestAccess(d, fails) ==
    /\ reader # Nobody /\ CanRequest(d) /\ Click
    /\ LET a == reader
           sent == ~fails /\ a \in PassHolders /\ rights[<<a, d>>] \notin {"pending", "approved"} IN
       /\ rights' = IF sent THEN [rights EXCEPT ![<<a, d>>] = "pending"] ELSE rights
       /\ IF sent THEN StartLoad(a) ELSE UNCHANGED loading
    /\ UNCHANGED <<reader, page, rows, answers, tabKeys, inboxRun, opening, unpins, ever, opened, taken>>

\* The guardians decide a request, or access ends.
Decide(a, d, s) ==
    /\ budget.decisions < MaxDecisions /\ budget' = [budget EXCEPT !.decisions = @ + 1]
    /\ \/ rights[<<a, d>>] = "pending" /\ s \in {"approved", "rejected"}
       \/ rights[<<a, d>>] = "approved" /\ s = "rejected"
    /\ rights' = [rights EXCEPT ![<<a, d>>] = s]
    /\ ever' = ever \cup {<<a, d, s>>}
    /\ UNCHANGED <<reader, page, rows, loading, answers, tabKeys, inboxRun, opening, unpins, opened, taken>>

\* handleView and handleDownload, on a row that can be decrypted as shown.
OpenDocument(d) ==
    /\ reader # Nobody /\ opening.at = "idle" /\ CanDecrypt(d) /\ Click
    /\ opening' = [of |-> reader, doc |-> d, at |-> "check"]
    /\ UNCHANGED <<rights, reader, page, rows, loading, answers, tabKeys, inboxRun, unpins, ever, opened, taken>>

\* Mutant: the access shown in the row is taken for granted.
Allowed_Shown(a, d) == d \in rows.active

\* decryptFileFromIPFS asks again; Documents corrects its row.
Allowed(a, d) == Answer(a, d)
CheckAccess ==
    /\ opening.at = "check"
    /\ LET a == opening.of
           d == opening.doc IN
       /\ answers' = Answered(a, {d})
       /\ rows' = IF page = "access" THEN rows
                  ELSE [rows EXCEPT !.active = IF Answer(a, d) THEN @ \cup {d} ELSE @ \ {d}]
       /\ opening' = IF Allowed(a, d) /\ d \in tabKeys THEN [opening EXCEPT !.at = "fetch"] ELSE NoOpening
    /\ UNCHANGED <<rights, reader, page, loading, tabKeys, inboxRun, budget, unpins, ever, opened, taken>>

\* The ciphertext arrives and is decrypted, or the download fails.
Decrypt(fails) ==
    /\ opening.at = "fetch" /\ opening' = NoOpening
    /\ opened' = IF fails THEN opened ELSE opened \cup {<<opening.of, opening.doc>>}
    /\ UNCHANGED <<rights, reader, page, rows, loading, answers, tabKeys, inboxRun, budget, unpins, ever, taken>>

ReaderNext ==
    \/ \E l \in loading : ReadAccess(l) \/ ReadRequests(l) \/ LoadLands(l) \/ LoadFails(l)
    \/ \E a \in Readers \cup {Nobody} : ChangeAccount(a)
    \/ AnswerExpires \/ Navigate \/ CheckEnvelope \/ StoreEnvelope \/ FetchEnds \/ CheckAccess
    \/ \E p \in Packages : ImportKeyBackup(p)
    \/ \E list \in UNION {[1..n -> Envelopes] : n \in 0..2} : FetchInboxKeys(list)
    \/ \E d \in ReaderDocs : OpenDocument(d) \/ \E b \in BOOLEAN : RequestAccess(d, b)
    \/ \E a \in Readers, d \in ReaderDocs, s \in Requested : Decide(a, d, s)
    \/ \E b \in BOOLEAN : Decrypt(b)

---------------------------------------------------------------------------

\* Type invariant of the readers' screens.
ReaderTypeOK ==
    /\ rights \in [Readers \X ReaderDocs -> Requested] /\ reader \in Readers \cup {Nobody}
    /\ rows.active \subseteq ReaderDocs /\ tabKeys \subseteq ReaderDocs
    /\ \A c1, c2 \in answers : c1.of = c2.of /\ c1.doc = c2.doc => c1 = c2

(* However stale the screen and whoever used the tab before, an account    *)
(* opens a document, or takes its key from the inbox, only if the contract *)
(* at some time gave access to that very account (decryptFileFromIPFS,     *)
(* handleFetchInboxKeys).                                                  *)
ReadersHadAccess == \A p \in opened \cup taken : <<p[1], p[2], "approved">> \in ever

(* Envelopes of a document are unpinned only after a request for it was    *)
(* rejected.  It need not be the reader's own: the request consulted is    *)
(* the one on the screen, which may come from a load of another account.   *)
UnpinsFollowRejection == \A p \in unpins : \E a \in Readers : <<a, p[2], "rejected">> \in ever
=============================================================================
