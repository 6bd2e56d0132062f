------------------------------ MODULE KeyInbox ------------------------------
(***************************************************************************)
(* Key envelopes on IPFS: guardians pin one for a beneficiary and document *)
(* (sendKeyEnvelope), the beneficiary lists and fetches them page by page  *)
(* (fetchBeneficiaryInbox), and the collector unpins those of requests     *)
(* that were rejected or expired, or that are old (runGarbageCollection).  *)
(* Pages are cut out of a list, newest pin first, that changes between two *)
(* requests.  One beneficiary's requests are followed; envelopes of other  *)
(* beneficiaries share the list.                                           *)
(***************************************************************************)
EXTENDS Naturals, FiniteSets

CONSTANTS
    InboxDocs,      \* documents
    PageLimit,      \* rows per page
    MaxPages,       \* pages read at most
    MaxMatches,     \* envelopes listed at most
    MaxAge,         \* age at which the sweep over everything unpins
    MaxPins,        \* envelopes ever pinned
    MaxInboxTime    \* last time of the model

ASSUME InboxConstants ==
    /\ PageLimit \in Nat \ {0} /\ MaxPages \in Nat \ {0} /\ MaxMatches \in Nat \ {0}
    /\ MaxAge \in Nat /\ MaxPins \in Nat /\ MaxInboxTime \in Nat

VARIABLES
    pins,       \* rows of the pin list; the newest has the largest hash
    pinned,     \* number of envelopes pinned so far
    status,     \* latest request of the beneficiary, per document
    day,        \* time
    list,       \* the listing in progress, or the inbox last shown
    sweep,      \* documents the collector has found dead and not yet handled
    doomed,     \* hashes the collector is about to unpin
    changed     \* a request changed while a collection was under way

inboxVars == <<pins, pinned, status, day, list, sweep, doomed, changed>>

Statuses == {"none", "pending", "approved", "rejected"}
Idle     == [for |-> "none", doc |-> 0, page |-> 0, count |-> 0, found |-> {}, start |-> {},
             unpinned |-> FALSE]

InboxInit ==
    /\ pins = {} /\ pinned = 0 /\ day = 0
    /\ status = [d \in InboxDocs |-> "none"]
    /\ list = Idle /\ sweep = {} /\ doomed = {} /\ changed = FALSE

ListDone   == list.for \in {"none", "shown"}
Collecting == sweep # {} \/ doomed # {} \/ list.for = "collect"

\* The contract: a request is filed, decided, or expires (which counts as rejected).
RequestChanges(d, s) ==
    /\ \/ status[d] \in {"none", "rejected"} /\ s = "pending"
       \/ status[d] = "pending" /\ s \in {"approved", "rejected"}
       \/ status[d] = "approved" /\ s = "rejected"
    /\ status' = [status EXCEPT ![d] = s]
    /\ changed' = (changed \/ Collecting)
    /\ UNCHANGED <<pins, pinned, day, list, sweep, doomed>>

(* sendKeyEnvelope, which does not look at the request's status.  A pinning *)
(* call that timed out is sent again, so one document can have several      *)
(* envelopes; mine is false for other beneficiaries.                        *)
SendKeyEnvelope(d, mine) ==
    /\ pinned < MaxPins
    /\ pinned' = pinned + 1
    /\ pins' = pins \cup {[hash |-> pinned + 1, doc |-> d, mine |-> mine, day |-> day]}
    /\ UNCHANGED <<status, day, list, sweep, doomed, changed>>

PassDay ==
    /\ day < MaxInboxTime /\ day' = day + 1
    /\ UNCHANGED <<pins, pinned, status, list, sweep, doomed, changed>>

\* A listing begins: for the inbox, for one dead document, or over everything.
Begin(for, doc) ==
    list' = [for |-> for, doc |-> doc, page |-> 0, count |-> 0, found |-> {},
             start |-> IF for = "inbox" THEN {r.hash : r \in {x \in pins : x.mine}} ELSE {},
             unpinned |-> FALSE]

OpenInbox ==
    /\ ListDone /\ Begin("inbox", 0)
    /\ UNCHANGED <<pins, pinned, status, day, sweep, doomed, changed>>

\* isRequestExpiredOrRejected, on the latest request
Dead(d) == status[d] = "rejected"

\* runGarbageCollection for an account: the latest requests are read once, for all documents.
CollectDocuments ==
    /\ ~Collecting /\ ListDone
    /\ sweep' = {d \in InboxDocs : Dead(d)} /\ sweep' # {}
    /\ changed' = FALSE
    /\ UNCHANGED <<pins, pinned, status, day, list, doomed>>

FindEnvelopes(d) ==
    /\ d \in sweep /\ ListDone /\ doomed = {}
    /\ sweep' = sweep \ {d} /\ Begin("collect", d)
    /\ UNCHANGED <<pins, pinned, status, day, doomed, changed>>

\* runGarbageCollection without an account: all envelopes, old ones go.
CollectOld ==
    /\ ~Collecting /\ ListDone
    /\ Begin("old", 0)
    /\ UNCHANGED <<pins, pinned, status, day, sweep, doomed, changed>>

\* Mutant: the collector takes the beneficiary's envelopes of any document.
Matches_AnyDoc(row) == list.for \in {"inbox", "collect"} => row.mine
Matches(row) ==
    CASE list.for = "inbox"   -> row.mine
      [] list.for = "collect" -> row.mine /\ row.doc = list.doc
      [] OTHER                -> TRUE

\* How many of the rows come before row r, newest first.
Before(r, rows) == Cardinality({x \in rows : x.hash > r.hash})

PageOf(p)    == {r \in pins : p * PageLimit <= Before(r, pins) /\ Before(r, pins) < (p + 1) * PageLimit}
PageEmpty(p) == Cardinality(pins) <= p * PageLimit

(* Rows of the page that match, in their order, until there are enough.  A *)
(* row that moved to a later page meanwhile is taken and counted again.    *)
Matching  == {r \in PageOf(list.page) : Matches(r)}
TakenRows == {r \in Matching : list.count + Before(r, Matching) < MaxMatches}

\* One request for a page.
ReadPage ==
    /\ ~ListDone /\ list.page < MaxPages /\ list.count < MaxMatches
    /\ ~PageEmpty(list.page)
    /\ list' = [list EXCEPT !.page = @ + 1, !.count = @ + Cardinality(TakenRows), !.found = @ \cup TakenRows]
    /\ UNCHANGED <<pins, pinned, status, day, sweep, doomed, changed>>

Hashes(rows) == {r.hash : r \in rows}

\* Envelopes of the listing that the collector unpins.
Condemned ==
    CASE list.for = "collect" -> Hashes(list.found)
      [] list.for = "old"     -> Hashes({x \in list.found : day - x.day > MaxAge})
      [] OTHER                -> {}

(* The listing ends at an empty page, at the last page or with enough rows. *)
(* The inbox fetches what was found (a failed fetch is left out).          *)
EndListing ==
    /\ ~ListDone
    /\ list.page = MaxPages \/ list.count >= MaxMatches \/ PageEmpty(list.page)
    /\ doomed' = doomed \cup Condemned
    /\ list' = IF list.for = "inbox" THEN [list EXCEPT !.for = "shown"] ELSE Idle
    /\ UNCHANGED <<pins, pinned, status, day, sweep, changed>>

\* unpinKeyEnvelope; a failure is noted in the report and not tried again.
Unpin(h) ==
    /\ h \in doomed
    /\ doomed' = doomed \ {h}
    /\ \/ /\ pins' = {r \in pins : r.hash # h}
          /\ list' = [list EXCEPT !.unpinned = TRUE]
       \/ UNCHANGED <<pins, list>>
    /\ UNCHANGED <<pinned, status, day, sweep, changed>>

InboxNext ==
    \/ \E d \in InboxDocs, s \in Statuses : RequestChanges(d, s)
    \/ \E d \in InboxDocs, mine \in BOOLEAN : SendKeyEnvelope(d, mine)
    \/ PassDay \/ OpenInbox \/ CollectDocuments \/ CollectOld \/ ReadPage \/ EndListing
    \/ \E d \in InboxDocs : FindEnvelopes(d)
    \/ \E h \in 1 .. MaxPins : Unpin(h)

InboxSpec == InboxInit /\ [][InboxNext]_inboxVars

-----------------------------------------------------------------------------
\* Every row of the pin list has a hash of its own and a listing keeps its bounds.
InboxTypeOK ==
    /\ \A r, x \in pins : r.hash \in 1 .. pinned /\ (r.hash = x.hash => r = x)
    /\ list.page \in 0 .. MaxPages /\ list.count \in 0 .. MaxMatches
    /\ status \in [InboxDocs -> Statuses]

(* A listing misses nothing that was pinned when it began and lies within  *)
(* the pages it may read, unless it is full or something was unpinned      *)
(* meanwhile: new pins only push rows to later pages.                      *)
ListingMissesNothing ==
    list.for = "shown" /\ ~list.unpinned /\ list.count < MaxMatches /\ list.page < MaxPages
        => list.start \subseteq Hashes(list.found)

(* The collector unpins an envelope of the beneficiary only when its       *)
(* request is dead or it is old, unless the request was filed anew or      *)
(* decided while the collection was under way.                             *)
UnpinsOnlyDead ==
    [][\A r \in pins :
          r.mine /\ r.hash \notin Hashes(pins') =>
              Dead(r.doc) \/ changed \/ day - r.day > MaxAge]_inboxVars
=============================================================================
