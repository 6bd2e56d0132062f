------------------------- MODULE AccessRequestsProofs -------------------------
(***************************************************************************)
(* Proofs about AccessRequests for any number of accounts, documents,      *)
(* requests and delegations: an account has one live request per document, *)
(* an approval is counted once, a request is decided by as many distinct   *)
(* guardians as the threshold asks for, and a grant rests on a pass and an *)
(* approved request.                                                       *)
(***************************************************************************)
EXTENDS AccessRequests, FiniteSetTheorems, TLAPS

-----------------------------------------------------------------------------
(* The inductive invariant                                                 *)

\* A request that was made.
Request == [doc : Docs, requester : Addr, approvedBy : Seq(Addr),
            hasApproved : SUBSET Addr, signers : SUBSET Addr,
            status : Status \ {"NONE"}, expiresAt : Nat]

\* The approvals of q are of accounts of G other than the requester, each
\* counted once.
Counted(q, G) ==
    /\ Range(q.approvedBy) = q.hasApproved
    /\ Len(q.approvedBy) = Cardinality(q.hasApproved)
    /\ q.hasApproved \cup q.signers \subseteq G \ {q.requester}

\* A pending request has no aggregated signature.
Sound(q, G) ==
    \/ q = NoRequest
    \/ /\ q \in Request /\ Counted(q, G)
       /\ q.status = "PENDING" => q.signers = {}

\* Before the vault exists it has no guardians, invited, present or former.
GuardiansInv ==
    /\ invited \subseteq Candidates /\ members \subseteq Candidates /\ former \subseteq Candidates
    /\ threshold \in Nat
    /\ threshold = 0 => invited = {} /\ members = {} /\ former = {}

KeysInv ==
    /\ compromised \subseteq Addr /\ blsKeys \subseteq Addr
    /\ delegations \subseteq Delegation /\ IsFiniteSet(delegations)
    /\ revokedNonces \subseteq Addr \X Nat

\* The ids above the counter are free, requests are about documents that
\* exist, and a live request is the latest of its account and document.
RecordsInv ==
    /\ time \in Nat
    /\ requestIdCounter \in 0 .. MaxRequests
    /\ latestRequestId \in [Docs -> [Addr -> 0 .. MaxRequests]]
    /\ requests \in [Ids -> {NoRequest} \cup Request]
    /\ \A r \in Ids :
         /\ Sound(requests[r], members \cup former)
         /\ r > requestIdCounter => requests[r] = NoRequest
         /\ requests[r] # NoRequest => uploader[requests[r].doc] # Nobody
         /\ Live(r) => latestRequestId[requests[r].doc][requests[r].requester] = r

\* Only documents that exist are granted.
GrantsInv ==
    /\ uploader \in [Docs -> Addr \cup {Nobody}]
    /\ granted \subseteq Docs \X Addr /\ holders \subseteq Addr
    /\ \A d \in Docs, u \in Addr : <<d, u>> \in granted => uploader[d] # Nobody
    /\ GrantsAreDecided

RequestInv == GuardiansInv /\ KeysInv /\ RecordsInv /\ GrantsInv

-----------------------------------------------------------------------------
(* One request                                                             *)

\* The request u makes for d, open until t.
NewRequest(d, u, t) ==
    [NoRequest EXCEPT !.doc = d, !.requester = u, !.status = "PENDING", !.expiresAt = t]

\* A request that is made has no approvals yet.
LEMMA NewRequestSound ==
    ASSUME NEW d \in Docs, NEW u \in Addr, NEW t \in Nat, NEW G
    PROVE  /\ NewRequest(d, u, t) \in Request /\ Counted(NewRequest(d, u, t), G)
           /\ NewRequest(d, u, t).doc = d /\ NewRequest(d, u, t).requester = u
           /\ NewRequest(d, u, t).signers = {}
<1> DEFINE q == NewRequest(d, u, t)
<1>1. q \in [doc : {d}, requester : {u}, approvedBy : {<<>>}, hasApproved : {{}},
             signers : {{}}, status : {"PENDING"}, expiresAt : {t}]
  BY DEF NewRequest, NoRequest
<1> HIDE DEF q
<1>1a. <<>> \in Seq(Addr) /\ {} \in SUBSET Addr /\ "PENDING" \in Status \ {"NONE"}
  BY DEF Status
<1>2. q \in Request
  BY <1>1, <1>1a DEF Request
<1>3. Range(<<>>) = {} /\ Len(<<>>) = 0
  BY DEF Range
<1>4. Cardinality({}) = 0
  BY FS_EmptySet
<1>5. Counted(q, G)
  BY <1>1, <1>3, <1>4 DEF Counted
<1>6. q.doc = d /\ q.requester = u /\ q.signers = {}
  BY <1>1
<1> QED
  BY <1>2, <1>5, <1>6 DEF q

\* What an approval, an aggregated signature and a decision write.
WithApproval(q, g) == [q EXCEPT !.approvedBy = Append(@, g), !.hasApproved = @ \cup {g}]
WithSigners(q, S) == [q EXCEPT !.signers = S]
WithStatus(q, st) == [q EXCEPT !.status = st]

\* An account that has not approved yet and is not the requester is one more
\* approval.
LEMMA ApprovedSound ==
    ASSUME NEW G, NEW q \in Request, Counted(q, G),
           NEW g \in G \cap Addr, g # q.requester, g \notin q.hasApproved
    PROVE  LET p == WithApproval(q, g)
           IN  /\ p \in Request /\ Counted(p, G)
               /\ p.doc = q.doc /\ p.requester = q.requester /\ p.status = q.status
               /\ p.expiresAt = q.expiresAt /\ p.signers = q.signers
<1> DEFINE list == Append(q.approvedBy, g)
           set == q.hasApproved \cup {g}
           p == WithApproval(q, g)
<1>1. /\ q.approvedBy \in Seq(Addr) /\ q.hasApproved \subseteq Addr /\ q.doc \in Docs
      /\ q.requester \in Addr /\ q.expiresAt \in Nat /\ q.signers \in SUBSET Addr
      /\ q.status \in Status \ {"NONE"}
  BY DEF Request
<1>2. p \in [doc : {q.doc}, requester : {q.requester}, approvedBy : {list},
             hasApproved : {set}, signers : {q.signers}, status : {q.status},
             expiresAt : {q.expiresAt}]
  BY DEF Request, WithApproval
<1>3. list \in Seq(Addr) /\ set \subseteq Addr
  BY <1>1
<1> HIDE DEF p
<1>4. p \in Request
  BY <1>1, <1>2, <1>3 DEF Request
<1>5. Len(list) = Len(q.approvedBy) + 1
  BY <1>1
<1>6. Range(list) = Range(q.approvedBy) \cup {g}
  <2>1. /\ Len(q.approvedBy) \in Nat
        /\ DOMAIN q.approvedBy = 1 .. Len(q.approvedBy)
        /\ DOMAIN list = 1 .. (Len(q.approvedBy) + 1)
        /\ \A i \in 1 .. Len(q.approvedBy) : list[i] = q.approvedBy[i]
        /\ list[Len(q.approvedBy) + 1] = g
    BY <1>1
  <2> HIDE DEF list
  <2>2. \A y \in Range(list) : y \in Range(q.approvedBy) \cup {g}
    BY <2>1 DEF Range
  <2>3. g \in Range(list)
    BY <2>1 DEF Range
  <2>4. \A y \in Range(q.approvedBy) : y \in Range(list)
    BY <2>1 DEF Range
  <2> QED
    BY <2>2, <2>3, <2>4
<1>7. IsFiniteSet(q.hasApproved)
  BY <1>1, RequestAssumptions, FS_Subset
<1>8. Cardinality(set) = Cardinality(q.hasApproved) + 1
  BY <1>7, FS_AddElement
<1>9. Range(list) = set /\ Len(list) = Cardinality(set)
  BY <1>5, <1>6, <1>8 DEF Counted
<1>10. set \cup q.signers \subseteq G \ {q.requester}
  BY DEF Counted
<1> HIDE DEF list, set
<1>11. Counted(p, G)
  BY <1>2, <1>9, <1>10 DEF Counted
<1> QED
  BY <1>2, <1>4, <1>11 DEF p

\* An aggregated signature leaves the approvals alone.
LEMMA SignedSound ==
    ASSUME NEW G, NEW q \in Request, Counted(q, G),
           NEW S \in SUBSET Addr, S \subseteq G \ {q.requester}
    PROVE  LET p == WithSigners(q, S)
           IN  /\ p \in Request /\ Counted(p, G)
               /\ p.doc = q.doc /\ p.requester = q.requester /\ p.signers = S
<1> DEFINE p == WithSigners(q, S)
<1>1. p \in [doc : {q.doc}, requester : {q.requester}, approvedBy : {q.approvedBy},
             hasApproved : {q.hasApproved}, signers : {S}, status : {q.status},
             expiresAt : {q.expiresAt}]
  BY DEF Request, WithSigners
<1> HIDE DEF p
<1>2. p \in Request
  BY <1>1 DEF Request
<1>3. Counted(p, G)
  BY <1>1 DEF Counted
<1> QED
  BY <1>1, <1>2, <1>3 DEF p

\* A decision changes the status only.
LEMMA StatusSound ==
    ASSUME NEW G, NEW q \in Request, Counted(q, G), NEW st \in {"APPROVED", "REJECTED"}
    PROVE  LET p == WithStatus(q, st)
           IN  /\ p \in Request /\ Counted(p, G)
               /\ p.doc = q.doc /\ p.requester = q.requester /\ p.signers = q.signers
               /\ p.approvedBy = q.approvedBy /\ p.status = st
<1> DEFINE p == WithStatus(q, st)
<1>1. p \in [doc : {q.doc}, requester : {q.requester}, approvedBy : {q.approvedBy},
             hasApproved : {q.hasApproved}, signers : {q.signers}, status : {st},
             expiresAt : {q.expiresAt}]
  BY DEF Request, WithStatus
<1> HIDE DEF p
<1>2. p \in Request
  BY <1>1 DEF Request, Status
<1>3. Counted(p, G)
  BY <1>1 DEF Counted
<1> QED
  BY <1>1, <1>2, <1>3 DEF p

-----------------------------------------------------------------------------
(* Guardians, passes and time                                              *)

\* A step of the governance keeps what is known of the guardians, and who was
\* ever one stays a present or former one.
LEMMA GovernanceKeeps ==
    ASSUME GuardiansInv, GS!Next
    PROVE  GuardiansInv' /\ members \cup former \subseteq members' \cup former'
<1>1. CASE \E a \in Candidates, guests \in SUBSET Candidates : GS!Found(a, guests)
  <2>1. PICK a \in Candidates, guests \in SUBSET Candidates : GS!Found(a, guests)
    BY <1>1
  <2>2. /\ members = {} /\ former = {} /\ members' = {a} /\ invited' = guests \ {a}
        /\ former' = former /\ \E n : threshold' \in 1 .. n
    BY <2>1 DEF GS!Found, GuardiansInv
  <2>3. threshold' \in Nat /\ threshold' # 0
    BY <2>2
  <2> QED
    BY <2>2, <2>3 DEF GuardiansInv
<1>2. CASE \E a \in Candidates : GS!Join(a)
  <2>1. PICK a \in Candidates : GS!Join(a)
    BY <1>2
  <2>2. threshold # 0
    BY <2>1 DEF GS!Join, GuardiansInv
  <2> QED
    BY <2>1, <2>2 DEF GS!Join, GuardiansInv
<1>3. CASE \E leaving \in SUBSET Candidates : GS!Reconfigure(leaving)
  <2>1. PICK leaving \in SUBSET Candidates : GS!Reconfigure(leaving)
    BY <1>3
  <2>2. threshold' = threshold \/ \E n : threshold' \in 1 .. n
    BY <2>1 DEF GS!Reconfigure
  <2>3. threshold' \in Nat /\ (threshold' = 0 => threshold = 0)
    BY <2>2 DEF GuardiansInv
  <2> QED
    BY <2>1, <2>3 DEF GS!Reconfigure, GuardiansInv
<1> QED
  BY <1>1, <1>2, <1>3 DEF GS!Next

\* More accounts that count, and a later time, leave the records in order.
LEMMA RecordsKept ==
    ASSUME RecordsInv, UNCHANGED requestVars, time' \in Nat, time' >= time,
           members \cup former \subseteq members' \cup former',
           uploader \in [Docs -> Addr \cup {Nobody}],
           \A d \in Docs : uploader[d] # Nobody => uploader'[d] # Nobody
    PROVE  RecordsInv'
<1>1. UNCHANGED <<requests, requestIdCounter, latestRequestId>>
  BY DEF requestVars
<1>2. ASSUME NEW r \in Ids
      PROVE  /\ Sound(requests[r], members' \cup former')
             /\ Live(r)' => Live(r)
             /\ requests[r] # NoRequest => uploader'[requests[r].doc] # Nobody
  <2>1. Sound(requests[r], members \cup former)
        /\ (requests[r] # NoRequest => uploader[requests[r].doc] # Nobody)
    BY DEF RecordsInv
  <2>2. Sound(requests[r], members' \cup former')
    BY <2>1 DEF Sound, Counted
  <2>3. requests[r] # NoRequest => requests[r].doc \in Docs
    BY <2>1 DEF Sound, Request
  <2>4. Live(r)' => Live(r)
    <3>1. requests[r].expiresAt \in Nat /\ time \in Nat
      BY <2>1 DEF Sound, Request, NoRequest, RecordsInv
    <3> QED
      BY <1>1, <3>1 DEF Live
  <2> QED
    BY <2>1, <2>2, <2>3, <2>4
<1> QED
  BY <1>1, <1>2 DEF RecordsInv

\* Grants that end, and passes handed out or given up with all grants of the
\* account, leave every grant with a pass and an approved request.
LEMMA GrantsKept ==
    ASSUME GrantsInv, UNCHANGED <<requests, uploader>>,
           granted' \subseteq granted, holders' \subseteq Addr,
           \A p \in granted' : p[2] \in holders => p[2] \in holders'
    PROVE  GrantsInv'
<1>1. ASSUME NEW d \in Docs, NEW u \in Addr, <<d, u>> \in granted'
      PROVE  <<d, u>> \in granted /\ (u \in holders => u \in holders')
  <2>1. <<d, u>>[2] = u
    OBVIOUS
  <2> QED
    BY <1>1, <2>1
<1>2. GrantsAreDecided'
  BY <1>1 DEF GrantsInv, GrantsAreDecided
<1> QED
  BY <1>1, <1>2 DEF GrantsInv

\* Passes are minted, transferred and burnt; a burn or a transfer of the last
\* pass ends all grants of the account.
LEMMA PassesKeepGrants ==
    ASSUME GrantsInv, Passes
    PROVE  GrantsInv'
<1>0. Requesters \subseteq Addr /\ UNCHANGED <<requests, uploader>>
  BY RequestAssumptions DEF Passes, requestVars
<1>1. PICK u \in Requesters : \/ AG!Receive(u)
                              \/ AG!GiveUp(u)
                              \/ \E w \in Requesters : AG!HandOver(u, w)
  BY DEF Passes
<1>2. CASE AG!Receive(u)
  BY <1>0, <1>2, GrantsKept DEF AG!Receive, GrantsInv
<1>3. CASE AG!GiveUp(u)
  <2>1. /\ granted' \subseteq granted /\ holders' \subseteq Addr
        /\ \A p \in granted' : p[2] # u
    BY <1>3 DEF AG!GiveUp, AG!GrantsOf, GrantsInv
  <2> QED
    BY <1>0, <1>3, <2>1, GrantsKept DEF AG!GiveUp
<1>4. CASE \E w \in Requesters : AG!HandOver(u, w)
  <2>1. PICK w \in Requesters : AG!HandOver(u, w)
    BY <1>4
  <2>2. /\ granted' \subseteq granted /\ holders' \subseteq Addr
        /\ \A p \in granted' : p[2] # u
    BY <1>0, <2>1 DEF AG!HandOver, AG!GrantsOf, GrantsInv
  <2> QED
    BY <1>0, <2>1, <2>2, GrantsKept DEF AG!HandOver
<1> QED
  BY <1>1, <1>2, <1>3, <1>4

\* revokeAccess forgets grants, and what is left was decided.
LEMMA RevokeAccessKeepsGrants ==
    ASSUME GrantsInv, NEW a \in Addr, NEW d \in Docs, NEW u \in Addr, RevokeAccess(a, d, u)
    PROVE  GrantsInv'
<1>1. granted' \subseteq granted /\ holders' = holders /\ UNCHANGED <<requests, uploader>>
  BY DEF RevokeAccess, AG!Revoke, AG!GrantsOf, requestVars
<1> QED
  BY <1>1, GrantsKept DEF GrantsInv

\* A document is granted to the one who uploads it; no one had it before.
LEMMA AddDocumentKeeps ==
    ASSUME RequestInv, NEW a \in Addr, NEW d \in Docs, AddDocument(a, d)
    PROVE  GrantsInv' /\ RecordsInv'
<1>1. /\ uploader[d] = Nobody /\ uploader' = [uploader EXCEPT ![d] = a]
      /\ granted' = granted \cup {<<d, a>>} /\ holders' = holders
      /\ UNCHANGED <<guardianVars, time, requestVars>> /\ Nobody \notin Addr
  BY RequestAssumptions DEF AddDocument, AG!Grant
<1>2. /\ uploader \in [Docs -> Addr \cup {Nobody}]
      /\ uploader' \in [Docs -> Addr \cup {Nobody}]
      /\ \A x \in Docs : uploader'[x] = IF x = d THEN a ELSE uploader[x]
  BY <1>1 DEF RequestInv, GrantsInv
<1>3. RecordsInv'
  <2>1. \A x \in Docs : uploader[x] # Nobody => uploader'[x] # Nobody
    BY <1>1, <1>2
  <2>2. time' \in Nat /\ time' >= time /\ members' = members /\ former' = former
    BY <1>1 DEF RequestInv, RecordsInv, guardianVars
  <2> QED
    BY <1>1, <1>2, <2>1, <2>2, RecordsKept DEF RequestInv
<1>4. ASSUME NEW x \in Docs, NEW u \in Addr, <<x, u>> \in granted'
      PROVE  (x = d /\ u = a) \/ (x # d /\ <<x, u>> \in granted)
  BY <1>1, <1>4 DEF RequestInv, GrantsInv
<1>5. \A x \in Docs, u \in Addr : <<x, u>> \in granted' => uploader'[x] # Nobody
  BY <1>1, <1>2, <1>4 DEF RequestInv, GrantsInv
<1>6. requests' = requests
  BY <1>1 DEF requestVars
<1>7. GrantsAreDecided'
  BY <1>1, <1>2, <1>4, <1>6 DEF RequestInv, GrantsInv, GrantsAreDecided
<1>8. granted' \subseteq Docs \X Addr /\ holders' \subseteq Addr
  BY <1>1 DEF RequestInv, GrantsInv
<1> QED
  BY <1>2, <1>3, <1>5, <1>7, <1>8 DEF GrantsInv

-----------------------------------------------------------------------------
(* Requests and decisions                                                  *)

\* Facts about the records that every decision needs.
LEMMA LiveIsRequest ==
    ASSUME RecordsInv, NEW r \in Ids, Live(r)
    PROVE  /\ requests[r] \in Request /\ Counted(requests[r], members \cup former)
           /\ requests[r].status = "PENDING" /\ requests[r].signers = {}
           /\ requests[r] # NoRequest /\ r <= requestIdCounter
<1>1. Sound(requests[r], members \cup former) /\ requests[r].status = "PENDING"
  BY DEF RecordsInv, Live
<1>2. requests[r] # NoRequest
  BY <1>1 DEF NoRequest
<1>3. requests[r] \in Request /\ Counted(requests[r], members \cup former)
  BY <1>1, <1>2 DEF Sound
<1>4. ~(r > requestIdCounter) /\ r \in Nat /\ requestIdCounter \in Nat
  BY <1>2, RequestAssumptions DEF RecordsInv, Ids
<1> QED
  BY <1>1, <1>2, <1>3, <1>4 DEF Sound

\* A new request takes a free id; the one before it was not live.
LEMMA RequestAccessKeeps ==
    ASSUME RequestInv, NEW u \in Addr, NEW d \in Docs, RequestAccess(u, d)
    PROVE  /\ RecordsInv' /\ GrantsInv'
           /\ requests[requestIdCounter + 1] = NoRequest
<1> DEFINE r == requestIdCounter + 1
           G == members \cup former
           q == NewRequest(d, u, time + RequestTTL)
<1>1. /\ uploader[d] # Nobody /\ NoPending(d, u) /\ r \in Ids
      /\ requestIdCounter' = r /\ requests' = [requests EXCEPT ![r] = q]
      /\ latestRequestId' = [latestRequestId EXCEPT ![d][u] = r]
      /\ UNCHANGED <<members, former, granted, holders, time, uploader>>
  BY DEF RequestAccess, NewRequest, guardianVars, passVars
<1>2. /\ time \in Nat /\ requestIdCounter \in 0 .. MaxRequests /\ MaxRequests \in Nat
      /\ time + RequestTTL \in Nat
      /\ latestRequestId \in [Docs -> [Addr -> 0 .. MaxRequests]]
      /\ requests \in [Ids -> {NoRequest} \cup Request]
  BY RequestAssumptions DEF RequestInv, RecordsInv
<1>3. q \in Request /\ Counted(q, G) /\ q.doc = d /\ q.requester = u /\ q.signers = {}
  BY <1>2, NewRequestSound
<1> HIDE DEF q
<1>4. r \in Nat /\ r \in 1 .. MaxRequests /\ r > requestIdCounter
  BY <1>1, <1>2 DEF Ids
<1>5. requests[r] = NoRequest
  BY <1>1, <1>4 DEF RequestInv, RecordsInv
<1>6. /\ requests' \in [Ids -> {NoRequest} \cup Request]
      /\ \A s \in Ids : requests'[s] = IF s = r THEN q ELSE requests[s]
  BY <1>1, <1>2, <1>3
<1>7. /\ latestRequestId' \in [Docs -> [Addr -> 0 .. MaxRequests]]
      /\ latestRequestId'[d][u] = r
      /\ \A x \in Docs, w \in Addr : (x # d \/ w # u) =>
           latestRequestId'[x][w] = latestRequestId[x][w]
  <2> HIDE DEF r
  <2>0. latestRequestId' = [latestRequestId EXCEPT ![d] = [latestRequestId[d] EXCEPT ![u] = r]]
        /\ r \in 0 .. MaxRequests
    BY <1>1, <1>2, <1>4
  <2>1. [latestRequestId[d] EXCEPT ![u] = r] \in [Addr -> 0 .. MaxRequests]
    BY <1>2, <2>0
  <2>2. latestRequestId' \in [Docs -> [Addr -> 0 .. MaxRequests]]
    BY <1>2, <2>0, <2>1
  <2> QED
    BY <1>2, <2>0, <2>2
<1> HIDE DEF r
<1>8. ASSUME NEW s \in Ids
      PROVE  /\ Sound(requests'[s], members' \cup former')
             /\ s > requestIdCounter' => requests'[s] = NoRequest
             /\ requests'[s] # NoRequest => uploader'[requests'[s].doc] # Nobody
             /\ Live(s)' => latestRequestId'[requests'[s].doc][requests'[s].requester] = s
  <2>1. CASE s = r
    BY <1>1, <1>3, <1>4, <1>6, <1>7, <2>1 DEF Sound
  <2>2. CASE s # r
    <3>1. requests'[s] = requests[s]
      BY <1>6, <2>2
    <3>2. /\ Sound(requests[s], members \cup former)
          /\ s > requestIdCounter => requests[s] = NoRequest
          /\ requests[s] # NoRequest => uploader[requests[s].doc] # Nobody
          /\ Live(s) => latestRequestId[requests[s].doc][requests[s].requester] = s
      BY DEF RequestInv, RecordsInv
    <3>3. s > requestIdCounter' => s > requestIdCounter
      BY <1>1, <1>2, <1>4 DEF Ids, r
    <3>4. ASSUME Live(s)'
          PROVE  latestRequestId'[requests'[s].doc][requests'[s].requester] = s
      <4>1. Live(s)
        BY <1>1, <3>1, <3>4 DEF Live
      <4>2. /\ latestRequestId[requests[s].doc][requests[s].requester] = s
            /\ requests[s].doc \in Docs /\ requests[s].requester \in Addr
        BY <3>2, <4>1, LiveIsRequest DEF RequestInv, Request
      <4>3. requests[s].doc # d \/ requests[s].requester # u
        <5>1. s # 0
          BY DEF Ids
        <5> QED
          BY <1>1, <4>1, <4>2, <5>1 DEF NoPending
      <4> QED
        BY <1>7, <3>1, <4>2, <4>3
    <3> QED
      BY <1>1, <3>1, <3>2, <3>3, <3>4
  <2> QED
    BY <2>1, <2>2
<1>9. RecordsInv'
  <2>1. time' \in Nat /\ requestIdCounter' \in 0 .. MaxRequests
    BY <1>1, <1>2, <1>4
  <2> QED
    BY <1>6, <1>7, <1>8, <2>1 DEF RecordsInv
<1>10. GrantsAreDecided'
  <2>1. \A s \in Ids : requests[s].status = "APPROVED" => requests'[s] = requests[s]
    BY <1>5, <1>6 DEF NoRequest
  <2> QED
    BY <1>1, <2>1 DEF RequestInv, GrantsInv, GrantsAreDecided
<1>11. GrantsInv'
  BY <1>1, <1>10 DEF RequestInv, GrantsInv
<1> QED
  BY <1>5, <1>9, <1>11 DEF r

\* What an approval makes of request r: p, counted as before, decided only
\* with a quorum, and granted exactly when it was approved for an account that
\* holds a pass.
Settles(r, p) ==
    /\ requests' = [requests EXCEPT ![r] = p]
    /\ p \in Request /\ Counted(p, members \cup former)
    /\ p.status = "PENDING" => p.signers = {}
    /\ p.doc = requests[r].doc /\ p.requester = requests[r].requester
    /\ p.status = "PENDING" => p.expiresAt = requests[r].expiresAt
    /\ p.status # "PENDING" => Cardinality(Voters(p)) >= threshold
    /\ \/ /\ p.status = "APPROVED" /\ p.requester \in holders
          /\ granted' = granted \cup {<<p.doc, p.requester>>} /\ holders' = holders
       \/ p.status # "APPROVED" /\ UNCHANGED passVars
    /\ UNCHANGED <<guardianVars, time, uploader, requestIdCounter, latestRequestId, keyVars>>

\* Deciding a live request keeps the records and changes no other decision.
LEMMA SettlesKeeps ==
    ASSUME RequestInv, NEW r \in Ids, Live(r), NEW p, Settles(r, p)
    PROVE  /\ RecordsInv' /\ GrantsInv'
           /\ \A s \in Ids :
                /\ Decided(s) => Cardinality(Voters(requests'[s])) >= threshold
                /\ requests[s].status \in {"APPROVED", "REJECTED"} => UNCHANGED requests[s]
<1>1. /\ requests[r] \in Request /\ requests[r].status = "PENDING"
      /\ requests[r] # NoRequest /\ r <= requestIdCounter
  BY LiveIsRequest DEF RequestInv
<1>2. requests \in [Ids -> {NoRequest} \cup Request]
  BY DEF RequestInv, RecordsInv
<1>3. /\ p \in Request /\ Counted(p, members \cup former)
      /\ p.status = "PENDING" => p.signers = {}
      /\ p.doc = requests[r].doc /\ p.requester = requests[r].requester
      /\ p.doc \in Docs /\ p.requester \in Addr
      /\ UNCHANGED <<members, former, time, uploader, requestIdCounter, latestRequestId>>
  BY DEF Settles, guardianVars, Request
<1>4. /\ requests' \in [Ids -> {NoRequest} \cup Request]
      /\ requests'[r] = p
      /\ \A s \in Ids : s # r => requests'[s] = requests[s]
  BY <1>2, <1>3 DEF Settles
<1>5. Live(r)' => Live(r)
  BY <1>3, <1>4 DEF Settles, Live
<1>6. ASSUME NEW s \in Ids
      PROVE  /\ Sound(requests'[s], members' \cup former')
             /\ s > requestIdCounter' => requests'[s] = NoRequest
             /\ requests'[s] # NoRequest => uploader'[requests'[s].doc] # Nobody
             /\ Live(s)' => latestRequestId'[requests'[s].doc][requests'[s].requester] = s
  <2>0. /\ Sound(requests[s], members \cup former)
        /\ s > requestIdCounter => requests[s] = NoRequest
        /\ requests[s] # NoRequest => uploader[requests[s].doc] # Nobody
        /\ Live(s) => latestRequestId[requests[s].doc][requests[s].requester] = s
    BY DEF RequestInv, RecordsInv
  <2>1. CASE s = r
    BY <1>1, <1>3, <1>4, <2>0, <2>1 DEF Sound
  <2>2. CASE s # r
    BY <1>3, <1>4, <2>0, <2>2 DEF Live
  <2> QED
    BY <2>1, <2>2
<1>7. RecordsInv'
  BY <1>3, <1>4, <1>6 DEF RequestInv, RecordsInv
<1>8. \A s \in Ids : requests[s].status \in {"APPROVED", "REJECTED"} => requests'[s] = requests[s]
  BY <1>1, <1>4
<1>9. ASSUME NEW s \in Ids, Decided(s)
      PROVE  Cardinality(Voters(requests'[s])) >= threshold
  BY <1>4, <1>9 DEF Decided, Settles
<1>10. uploader[p.doc] # Nobody
  BY <1>1, <1>3 DEF RequestInv, RecordsInv
<1>11. ASSUME NEW d \in Docs, NEW u \in Addr, <<d, u>> \in granted', <<d, u>> \notin granted
       PROVE  /\ d = p.doc /\ u = p.requester /\ p.status = "APPROVED" /\ u \in holders
  BY <1>3, <1>11 DEF Settles, passVars
<1>12. holders' = holders /\ granted' \subseteq Docs \X Addr
  BY <1>3 DEF Settles, passVars, RequestInv, GrantsInv
<1>13. GrantsAreDecided'
  <2> SUFFICES ASSUME NEW d \in Docs, NEW u \in Addr, <<d, u>> \in granted', u # uploader'[d]
               PROVE  /\ u \in holders'
                      /\ \E s \in Ids : requests'[s].doc = d /\ requests'[s].requester = u
                                          /\ requests'[s].status = "APPROVED"
    BY DEF GrantsAreDecided
  <2>1. CASE <<d, u>> \in granted
    BY <1>3, <1>8, <1>12, <2>1 DEF RequestInv, GrantsInv, GrantsAreDecided
  <2>2. CASE <<d, u>> \notin granted
    BY <1>4, <1>11, <1>12, <2>2
  <2> QED
    BY <2>1, <2>2
<1>14. GrantsInv'
  BY <1>3, <1>10, <1>11, <1>12, <1>13 DEF RequestInv, GrantsInv
<1> QED
  BY <1>7, <1>8, <1>9, <1>14

\* A request with its quorum is settled.
LEMMA DecideSettles ==
    ASSUME RequestInv, NEW r \in Ids, Live(r), NEW q \in Request,
           Counted(q, members \cup former),
           q.doc = requests[r].doc, q.requester = requests[r].requester,
           Cardinality(Voters(q)) >= threshold, Decide([id |-> r, to |-> q]),
           UNCHANGED <<guardianVars, time, uploader, requestIdCounter, latestRequestId, keyVars>>
    PROVE  \E p : Settles(r, p)
<1> DEFINE G == members \cup former
<1>1. ASSUME NEW st \in {"APPROVED", "REJECTED"}
      PROVE  LET p == WithStatus(q, st)
             IN  /\ p \in Request /\ Counted(p, members \cup former)
                 /\ p.doc = q.doc /\ p.requester = q.requester /\ p.status = st
                 /\ Cardinality(Voters(p)) >= threshold
  <2> HIDE DEF G
  <2>1. LET p == WithStatus(q, st)
        IN  /\ p \in Request /\ Counted(p, G)
            /\ p.doc = q.doc /\ p.requester = q.requester /\ p.signers = q.signers
            /\ p.approvedBy = q.approvedBy /\ p.status = st
    BY StatusSound DEF G
  <2>2. Voters(WithStatus(q, st)) = Voters(q)
    BY <2>1 DEF Voters
  <2> QED
    BY <2>1, <2>2 DEF G
<1>2. CASE q.requester \in holders
  <2>1. requests' = [requests EXCEPT ![r] = WithStatus(q, "APPROVED")]
        /\ granted' = granted \cup {<<q.doc, q.requester>>} /\ holders' = holders
    BY <1>2 DEF Decide, WithStatus, AG!Grant
  <2>2. Settles(r, WithStatus(q, "APPROVED"))
    BY <1>1, <1>2, <2>1 DEF Settles
  <2> QED
    BY <2>2
<1>3. CASE q.requester \notin holders
  <2>1. requests' = [requests EXCEPT ![r] = WithStatus(q, "REJECTED")] /\ UNCHANGED passVars
    BY <1>3 DEF Decide, WithStatus
  <2>2. Settles(r, WithStatus(q, "REJECTED"))
    BY <1>1, <1>3, <2>1 DEF Settles
  <2> QED
    BY <2>2
<1> QED
  BY <1>2, <1>3

\* An approval in the name of a guardian, its own or by delegation.
LEMMA ApproveSettles ==
    ASSUME RequestInv, NEW r \in Ids, NEW g, Approve(r, g)
    PROVE  Live(r) /\ \E p : Settles(r, p)
<1> DEFINE q == requests[r]
           to == WithApproval(q, g)
           G == members \cup former
<1>1. Live(r) /\ MayApprove(r, g)
  BY DEF Approve
<1>2. q \in Request /\ Counted(q, G) /\ q.status = "PENDING" /\ q.signers = {}
  BY <1>1, LiveIsRequest DEF RequestInv
<1>3. g \in G \cap Addr /\ g # q.requester /\ g \notin q.hasApproved
  BY <1>1, RequestAssumptions DEF MayApprove, RequestInv, GuardiansInv
<1> HIDE DEF q, G
<1>4. /\ to \in Request /\ Counted(to, G)
      /\ to.doc = q.doc /\ to.requester = q.requester /\ to.status = q.status
      /\ to.expiresAt = q.expiresAt /\ to.signers = q.signers
  BY <1>2, <1>3, ApprovedSound
<1>5. /\ UNCHANGED <<guardianVars, time, uploader, requestIdCounter, latestRequestId, keyVars>>
      /\ \/ /\ ~Reached(Len(to.approvedBy))
            /\ requests' = [requests EXCEPT ![r] = to]
            /\ UNCHANGED passVars
         \/ /\ Reached(Len(to.approvedBy))
            /\ Decide([id |-> r, to |-> to])
  BY DEF Approve, WithApproval, q
<1>6. Cardinality(Voters(to)) = Len(to.approvedBy)
  BY <1>2, <1>4 DEF Voters, Counted
<1> HIDE DEF to
<1>7. CASE Reached(Len(to.approvedBy))
  <2>1. Decide([id |-> r, to |-> to]) /\ Cardinality(Voters(to)) >= threshold
    BY <1>5, <1>6, <1>7 DEF Reached
  <2> QED
    BY <1>1, <1>4, <1>5, <2>1, DecideSettles DEF q, G
<1>8. CASE ~Reached(Len(to.approvedBy))
  <2>1. Settles(r, to)
    BY <1>2, <1>4, <1>5, <1>8 DEF Settles, q, G
  <2> QED
    BY <1>1, <2>1
<1> QED
  BY <1>7, <1>8

\* An aggregated signature of as many guardians as the threshold asks for.
LEMMA ApproveBLSSettles ==
    ASSUME RequestInv, NEW r \in Ids, NEW signers \in SUBSET Addr, ApproveAccessBLS(r, signers)
    PROVE  Live(r) /\ \E p : Settles(r, p)
<1> DEFINE q == requests[r]
           to == WithSigners(q, signers)
           G == members \cup former
<1>1. Live(r) /\ ValidSigners(r, signers)
  BY DEF ApproveAccessBLS
<1>2. q \in Request /\ Counted(q, G)
  BY <1>1, LiveIsRequest DEF RequestInv
<1>3. signers \subseteq G \ {q.requester} /\ Cardinality(signers) >= threshold
  BY <1>1 DEF ValidSigners, Reached
<1>4. /\ UNCHANGED <<guardianVars, time, uploader, requestIdCounter, latestRequestId, keyVars>>
      /\ Decide([id |-> r, to |-> to])
  BY DEF ApproveAccessBLS, WithSigners
<1> HIDE DEF q, G
<1>5. /\ to \in Request /\ Counted(to, G)
      /\ to.doc = q.doc /\ to.requester = q.requester /\ to.signers = signers
  BY <1>2, <1>3, SignedSound
<1> HIDE DEF to
<1>6. Cardinality(Voters(to)) >= threshold
  <2>1. CASE signers # {}
    BY <1>3, <1>5, <2>1 DEF Voters
  <2>2. CASE signers = {}
    <3>1. threshold = 0
      BY <1>3, <2>2, FS_EmptySet DEF RequestInv, GuardiansInv
    <3>2. Voters(to) = to.hasApproved /\ to.hasApproved \subseteq Addr
      BY <1>5, <2>2 DEF Voters, Counted, Request
    <3>3. IsFiniteSet(to.hasApproved)
      BY <3>2, RequestAssumptions, FS_Subset
    <3>4. Cardinality(to.hasApproved) \in Nat
      BY <3>3, FS_CardinalityType
    <3> QED
      BY <3>1, <3>2, <3>4
  <2> QED
    BY <2>1, <2>2
<1> QED
  BY <1>1, <1>4, <1>5, <1>6, DecideSettles DEF q, G

-----------------------------------------------------------------------------
(* The theorems                                                            *)

\* What a step may do to the requests: the body of DecidedByThreshold.
DecisionsKept ==
    \A r \in Ids :
      /\ Decided(r) => Cardinality(Voters(requests'[r])) >= threshold
      /\ requests[r].status \in {"APPROVED", "REJECTED"} => UNCHANGED requests[r]

\* A step that leaves the requests alone decides nothing.
LEMMA QuietDecisions ==
    ASSUME UNCHANGED requests
    PROVE  DecisionsKept
BY DEF DecisionsKept, Decided

\* Keys are registered and revoked, delegations signed and revoked.
LEMMA KeyStepKeeps ==
    ASSUME RequestInv,
           \/ \E a \in Addr :
                \/ RegisterPublicKey(a)
                \/ \E sharing \in SUBSET KeySharers : RevokeKey(a, sharing)
                \/ RegisterGuardianBLSKey(a)
           \/ \E g \in Delegators, delegate \in Delegates, life \in Lifetimes :
                SignDelegation(g, delegate, life)
           \/ \E s \in delegations : RevokeDelegation(s)
    PROVE  /\ KeysInv'
           /\ UNCHANGED <<guardianVars, passVars, time, uploader, requestVars>>
<1>1. ASSUME NEW a \in Addr, RegisterPublicKey(a)
      PROVE  KeysInv' /\ UNCHANGED <<guardianVars, passVars, time, uploader, requestVars>>
  BY <1>1 DEF RegisterPublicKey, RequestInv, KeysInv
<1>2. ASSUME NEW a \in Addr, NEW sharing \in SUBSET KeySharers, RevokeKey(a, sharing)
      PROVE  KeysInv' /\ UNCHANGED <<guardianVars, passVars, time, uploader, requestVars>>
  BY <1>2, RequestAssumptions DEF RevokeKey, RequestInv, KeysInv
<1>3. ASSUME NEW a \in Addr, RegisterGuardianBLSKey(a)
      PROVE  KeysInv' /\ UNCHANGED <<guardianVars, passVars, time, uploader, requestVars>>
  BY <1>3 DEF RegisterGuardianBLSKey, RequestInv, KeysInv
<1>4. ASSUME NEW g \in Delegators, NEW delegate \in Delegates, NEW life \in Lifetimes,
             SignDelegation(g, delegate, life)
      PROVE  KeysInv' /\ UNCHANGED <<guardianVars, passVars, time, uploader, requestVars>>
  <2> DEFINE s == [guardian |-> g, delegate |-> delegate, validUntil |-> time + life,
                   nonce |-> Cardinality(delegations) + 1]
  <2>1. delegations' = delegations \cup {s}
        /\ UNCHANGED <<guardianVars, passVars, time, uploader, requestVars>>
        /\ UNCHANGED <<compromised, blsKeys, revokedNonces>>
    BY <1>4 DEF SignDelegation
  <2>2. /\ delegations \subseteq Delegation /\ IsFiniteSet(delegations)
        /\ g \in Addr /\ delegate \in Addr /\ life \in Nat /\ time \in Nat
    BY RequestAssumptions DEF RequestInv, KeysInv, RecordsInv
  <2>3. Cardinality(delegations) \in Nat
    BY <2>2, FS_CardinalityType
  <2>4. s \in Delegation
    BY <2>2, <2>3 DEF Delegation
  <2> HIDE DEF s
  <2>5. IsFiniteSet(delegations \cup {s})
    BY <2>2, FS_AddElement
  <2> QED
    BY <2>1, <2>2, <2>4, <2>5 DEF RequestInv, KeysInv
<1>5. ASSUME NEW s \in delegations, RevokeDelegation(s)
      PROVE  KeysInv' /\ UNCHANGED <<guardianVars, passVars, time, uploader, requestVars>>
  <2>1. s \in Delegation
    BY DEF RequestInv, KeysInv
  <2>2. <<s.guardian, s.nonce>> \in Addr \X Nat
    BY <2>1 DEF Delegation
  <2> QED
    BY <1>5, <2>2 DEF RevokeDelegation, RequestInv, KeysInv
<1> QED
  BY <1>1, <1>2, <1>3, <1>4, <1>5

\* Every step keeps the invariant and every decision that was made.
LEMMA StepKeeps ==
    ASSUME RequestInv, [Next]_vars
    PROVE  RequestInv' /\ DecisionsKept
<1> USE DEF guardianVars, passVars, requestVars, keyVars
<1>0. time \in Nat /\ uploader \in [Docs -> Addr \cup {Nobody}]
  BY DEF RequestInv, RecordsInv, GrantsInv
<1>1. ASSUME UNCHANGED <<guardianVars, passVars, time, uploader, requestVars>>
      PROVE  GuardiansInv' /\ RecordsInv' /\ GrantsInv' /\ DecisionsKept
  <2>1. GuardiansInv'
    BY <1>1 DEF RequestInv, GuardiansInv
  <2>2. RecordsInv'
    BY <1>0, <1>1, RecordsKept DEF RequestInv
  <2>3. GrantsInv'
    BY <1>1, GrantsKept DEF RequestInv, GrantsInv
  <2> QED
    BY <1>1, <2>1, <2>2, <2>3, QuietDecisions
<1>2. ASSUME UNCHANGED keyVars PROVE KeysInv'
  BY <1>2 DEF RequestInv, KeysInv
<1>3. ASSUME UNCHANGED guardianVars PROVE GuardiansInv'
  BY <1>3 DEF RequestInv, GuardiansInv
<1>4. CASE UNCHANGED vars
  BY <1>1, <1>2, <1>4 DEF vars, RequestInv
<1>5. CASE Governance
  <2>1. /\ UNCHANGED <<passVars, time, uploader, requestVars, keyVars>>
        /\ GuardiansInv' /\ members \cup former \subseteq members' \cup former'
    BY <1>5, GovernanceKeeps DEF Governance, RequestInv
  <2>2. RecordsInv'
    BY <1>0, <2>1, RecordsKept DEF RequestInv
  <2>3. GrantsInv'
    BY <2>1, GrantsKept DEF RequestInv, GrantsInv
  <2> QED
    BY <1>2, <2>1, <2>2, <2>3, QuietDecisions DEF RequestInv
<1>6. CASE Passes
  <2>1. UNCHANGED <<guardianVars, time, uploader, requestVars, keyVars>>
    BY <1>6 DEF Passes
  <2>2. RecordsInv'
    BY <1>0, <2>1, RecordsKept DEF RequestInv
  <2>3. GrantsInv'
    BY <1>6, PassesKeepGrants DEF RequestInv
  <2> QED
    BY <1>2, <1>3, <2>1, <2>2, <2>3, QuietDecisions DEF RequestInv
<1>7. CASE Tick
  <2>1. UNCHANGED <<guardianVars, passVars, uploader, requestVars, keyVars>>
        /\ time' \in Nat /\ time' >= time
    BY <1>0, <1>7 DEF Tick
  <2>2. RecordsInv'
    BY <1>0, <2>1, RecordsKept DEF RequestInv
  <2>3. GrantsInv'
    BY <2>1, GrantsKept DEF RequestInv, GrantsInv
  <2> QED
    BY <1>2, <1>3, <2>1, <2>2, <2>3, QuietDecisions DEF RequestInv
<1>8. ASSUME NEW a \in Addr, NEW d \in Docs, AddDocument(a, d)
      PROVE  RequestInv' /\ DecisionsKept
  <2>1. UNCHANGED <<guardianVars, requestVars, keyVars>>
    BY <1>8 DEF AddDocument
  <2> QED
    BY <1>2, <1>3, <1>8, <2>1, AddDocumentKeeps, QuietDecisions DEF RequestInv
<1>9. ASSUME NEW a \in Addr, NEW d \in Docs, RequestAccess(a, d)
      PROVE  RequestInv' /\ DecisionsKept
  <2>1. /\ UNCHANGED <<guardianVars, keyVars>>
        /\ RecordsInv' /\ GrantsInv' /\ requests[requestIdCounter + 1] = NoRequest
    BY <1>9, RequestAccessKeeps DEF RequestAccess
  <2>2. \A r \in Ids : r # requestIdCounter + 1 => requests'[r] = requests[r]
    BY <1>9 DEF RequestAccess, RequestInv, RecordsInv
  <2>3. DecisionsKept
    BY <2>1, <2>2 DEF DecisionsKept, Decided, NoRequest
  <2> QED
    BY <1>2, <1>3, <2>1, <2>3 DEF RequestInv
<1>10. ASSUME NEW a \in Addr, NEW d \in Docs, NEW u \in Addr, RevokeAccess(a, d, u)
       PROVE  RequestInv' /\ DecisionsKept
  <2>1. UNCHANGED <<guardianVars, time, uploader, requestVars, keyVars>>
    BY <1>10 DEF RevokeAccess
  <2>2. RecordsInv'
    BY <1>0, <2>1, RecordsKept DEF RequestInv
  <2>3. GrantsInv'
    BY <1>10, RevokeAccessKeepsGrants DEF RequestInv
  <2> QED
    BY <1>2, <1>3, <2>1, <2>2, <2>3, QuietDecisions DEF RequestInv
<1>11. ASSUME NEW r \in Ids, Live(r) /\ \E p : Settles(r, p)
       PROVE  RequestInv' /\ DecisionsKept
  <2>1. PICK p : Settles(r, p)
    BY <1>11
  <2>2. UNCHANGED <<guardianVars, keyVars>>
    BY <2>1 DEF Settles
  <2>3. RecordsInv' /\ GrantsInv' /\ DecisionsKept
    BY <1>11, <2>1, SettlesKeeps DEF DecisionsKept
  <2> QED
    BY <1>2, <1>3, <2>2, <2>3 DEF RequestInv
<1>12. ASSUME NEW r \in Ids,
              \/ \E g \in Addr : ApproveAccess(r, g)
              \/ \E s \in delegations : ApproveAccessDelegated(r, s)
              \/ \E signers \in SUBSET Addr : ApproveAccessBLS(r, signers)
       PROVE  RequestInv' /\ DecisionsKept
  BY <1>11, <1>12, ApproveSettles, ApproveBLSSettles DEF ApproveAccess, ApproveAccessDelegated
<1>13. CASE \/ \E a \in Addr :
                 \/ RegisterPublicKey(a)
                 \/ \E sharing \in SUBSET KeySharers : RevokeKey(a, sharing)
                 \/ RegisterGuardianBLSKey(a)
            \/ \E g \in Delegators, delegate \in Delegates, life \in Lifetimes :
                 SignDelegation(g, delegate, life)
            \/ \E s \in delegations : RevokeDelegation(s)
  BY <1>1, <1>13, KeyStepKeeps DEF RequestInv
<1> QED
  BY <1>4, <1>5, <1>6, <1>7, <1>8, <1>9, <1>10, <1>12, <1>13 DEF Next

\* The first state of the vault satisfies the invariant.
LEMMA InitHolds ==
    ASSUME Init
    PROVE  RequestInv
<1>1. GuardiansInv
  BY DEF Init, GS!Init, GuardiansInv
<1>2. KeysInv
  BY FS_EmptySet DEF Init, KeysInv
<1>3. GrantsInv
  BY DEF Init, AG!Init, GrantsInv, GrantsAreDecided
<1>4. /\ time = 1 /\ requestIdCounter = 0 /\ MaxRequests \in Nat
      /\ requests = [r \in Ids |-> NoRequest]
      /\ latestRequestId \in [Docs -> [Addr -> 0 .. MaxRequests]]
  BY RequestAssumptions DEF Init
<1>5. ASSUME NEW r \in Ids PROVE requests[r] = NoRequest /\ ~Live(r)
  BY <1>4 DEF Live, NoRequest
<1>6. RecordsInv
  BY <1>4, <1>5 DEF RecordsInv, Sound
<1> QED
  BY <1>1, <1>2, <1>3, <1>6 DEF RequestInv

\* The inductive invariant of the requests: guardians and keys have their
\* types, ids above the counter are free, a live request is the latest of its
\* account and document, approvals are counted once, grants are decided.
THEOREM RequestsSafe == Spec => []RequestInv
<1>1. RequestInv /\ [Next]_vars => RequestInv'
  BY StepKeeps
<1>2. Init => RequestInv
  BY InitHolds
<1> QED
  BY <1>1, <1>2, PTL DEF Spec

\* Requests, approvals, delegations and the passes they rest on have their
\* types, for any number of accounts, documents and requests.
THEOREM TypeCorrect == Spec => []TypeOK
<1>1. RequestInv => TypeOK
  <2> SUFFICES ASSUME RequestInv PROVE TypeOK
    OBVIOUS
  <2>1. members \subseteq Addr
    BY RequestAssumptions DEF RequestInv, GuardiansInv
  <2>2. \A r \in Ids : requests[r] = NoRequest \/ requests[r] \in Request
    BY DEF RequestInv, RecordsInv
  <2> QED
    BY <2>1, <2>2 DEF TypeOK, Request, RequestInv, GuardiansInv, KeysInv, RecordsInv, GrantsInv
<1> QED
  BY RequestsSafe, <1>1, PTL

\* requestAccess looks at latestRequestId only; still an account never has two
\* requests for a document that guardians can decide on.
THEOREM OneLive == Spec => []OneLiveRequest
<1>1. RequestInv => OneLiveRequest
  BY DEF RequestInv, RecordsInv, OneLiveRequest
<1> QED
  BY RequestsSafe, <1>1, PTL

\* Approved directly, by delegation or by an aggregated signature: a guardian
\* counts once, the requester never, no one else at all.
THEOREM ApprovalsCorrect == Spec => []ApprovalsAreDistinct
<1>1. RequestInv => ApprovalsAreDistinct
  <2> SUFFICES ASSUME RequestInv, NEW r \in Ids PROVE Counted(requests[r], members \cup former)
    BY DEF ApprovalsAreDistinct, Counted
  <2>1. Sound(requests[r], members \cup former)
    BY DEF RequestInv, RecordsInv
  <2>2. Range(<<>>) = {} /\ Len(<<>>) = 0 /\ Cardinality({}) = 0
    BY FS_EmptySet DEF Range
  <2>3. Counted(NoRequest, members \cup former)
    BY <2>2 DEF Counted, NoRequest
  <2> QED
    BY <2>1, <2>3 DEF Sound
<1> QED
  BY RequestsSafe, <1>1, PTL

\* Whoever is not the uploader has a grant only with a pass and an approved
\* request, however passes are given up, handed over and received again.
THEOREM GrantsCorrect == Spec => []GrantsAreDecided
<1>1. RequestInv => GrantsAreDecided
  BY DEF RequestInv, GrantsInv
<1> QED
  BY RequestsSafe, <1>1, PTL

\* A request is decided by at least as many distinct accounts as the threshold
\* of that moment, and a decision is final.
THEOREM DecisionsCorrect == Spec => DecidedByThreshold
<1>1. RequestInv /\ [Next]_vars => [DecisionsKept]_vars
  BY StepKeeps
<1> QED
  BY RequestsSafe, <1>1, PTL DEF Spec, DecidedByThreshold, DecisionsKept

=============================================================================
