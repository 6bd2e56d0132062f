---------------------------- MODULE AccessRequests ----------------------------
(***************************************************************************)
(* How an account obtains access to a document of one vault in             *)
(* contracts/SpooVault.sol: requestAccess, the approvals of guardians      *)
(* (approveAccess, approveAccessFHE, by delegation, by an aggregated BLS   *)
(* signature), and what they depend on: encryption keys and their          *)
(* revocation, BLS keys, signed delegations.                               *)
(*                                                                         *)
(* The guardians are the abstract specification GuardianSet and the passes *)
(* and grants the abstract specification AccessGrants, which               *)
(* GuardianGovernance and AccessPasses implement.  Key shares travel with  *)
(* approvals but decide nothing here (a share that does not match its      *)
(* commitment reverts); ShareRefresh is about them.                        *)
(***************************************************************************)
EXTENDS Naturals, Sequences, FiniteSets, Functions

CONSTANTS
    Addr, Nobody,    \* accounts; address(0)
    Candidates,      \* the accounts that are or may become guardians
    Requesters,      \* the accounts that receive passes and request access
    Delegators,      \* the accounts that sign delegations
    Delegates,       \* the accounts they are signed for
    KeySharers,      \* the accounts whose key someone else has registered too
    Docs,
    RequestTTL,      \* 3 days
    Lifetimes,       \* how long the delegations that are signed stay valid
    MaxRequests,     \* bound on the requests
    MaxKeyEvents,    \* bound on keys registered, revoked and delegations
    MaxLateEvents,   \* the same once there is a second request
    MaxTime          \* bound on the clock

ASSUME RequestAssumptions ==
    /\ IsFiniteSet(Addr) /\ Nobody \notin Addr
    /\ Candidates \subseteq Addr /\ Delegators \cup Delegates \subseteq Addr
    /\ KeySharers \subseteq Addr /\ Requesters \subseteq Addr
    /\ RequestTTL \in Nat \ {0} /\ Lifetimes \subseteq Nat
    /\ MaxRequests \in Nat /\ MaxKeyEvents \in Nat /\ MaxLateEvents \in Nat /\ MaxTime \in Nat

VARIABLES
    invited, members, former, threshold,   \* the vault's guardians
    granted, holders,    \* standing grants and accounts with a pass
    time,
    uploader,            \* documents[d].uploadedBy
    requests,            \* accessRequests
    requestIdCounter,    \* _requestIdCounter
    latestRequestId,     \* latestRequestId[d][u]
    compromised,         \* accounts whose registered key is blacklisted
    blsKeys,             \* accounts with a registered BLS key
    delegations,         \* external: the delegations signed so far
    revokedNonces        \* revokedNonces, as pairs <<guardian, nonce>>

guardianVars == <<invited, members, former, threshold>>
passVars == <<granted, holders>>
requestVars == <<requests, requestIdCounter, latestRequestId>>
keyVars == <<compromised, blsKeys, delegations, revokedNonces>>
vars == <<guardianVars, passVars, time, uploader, requestVars, keyVars>>

GS == INSTANCE GuardianSet WITH Addr <- Candidates
AG == INSTANCE AccessGrants

Ids == 1 .. MaxRequests
KeyEvents == Cardinality(compromised) + Cardinality(blsKeys)
               + Cardinality(delegations) + Cardinality(revokedNonces)
\* Bound: requests after the first are explored with fewer key events.
RequestRoom == requestIdCounter = 0 \/ KeyEvents <= MaxLateEvents
Status == {"NONE", "PENDING", "APPROVED", "REJECTED"}
NoRequest == [doc |-> Nobody, requester |-> Nobody, approvedBy |-> <<>>,
              hasApproved |-> {}, signers |-> {}, status |-> "NONE",
              expiresAt |-> 0]
Delegation == [guardian : Addr, delegate : Addr, validUntil : Nat, nonce : Nat]

\* Types. Requests, approvals, delegations and the passes they rest on have their types.
TypeOK ==
    /\ members \subseteq Addr /\ holders \subseteq Addr
    /\ threshold \in Nat /\ time \in Nat
    /\ granted \subseteq Docs \X Addr
    /\ uploader \in [Docs -> Addr \cup {Nobody}]
    /\ \A r \in Ids :
         requests[r] = NoRequest \/
         requests[r] \in [doc : Docs, requester : Addr, approvedBy : Seq(Addr),
                          hasApproved : SUBSET Addr, signers : SUBSET Addr,
                          status : Status \ {"NONE"}, expiresAt : Nat]
    /\ requestIdCounter \in 0 .. MaxRequests
    /\ latestRequestId \in [Docs -> [Addr -> 0 .. MaxRequests]]
    /\ compromised \subseteq Addr /\ blsKeys \subseteq Addr
    /\ delegations \subseteq Delegation
    /\ revokedNonces \subseteq Addr \X Nat

Init ==
    /\ GS!Init /\ AG!Init
    /\ time = 1
    /\ uploader = [d \in Docs |-> Nobody]
    /\ requests = [r \in Ids |-> NoRequest]
    /\ requestIdCounter = 0
    /\ latestRequestId = [d \in Docs |-> [u \in Addr |-> 0]]
    /\ compromised = {} /\ blsKeys = {}
    /\ delegations = {} /\ revokedNonces = {}

-----------------------------------------------------------------------------
(* Requests                                                                *)

\* _hasActiveAccess
HasActiveAccess(d, u) == u \in members \/ (<<d, u>> \in granted /\ u \in holders)

Live(r) == requests[r].status = "PENDING" /\ requests[r].expiresAt > time

\* Mutant: an earlier request that is still pending is ignored.
NoPending_Ignored(d, u) == TRUE

NoPending(d, u) == latestRequestId[d][u] # 0 => ~Live(latestRequestId[d][u])

\* Mutant: the request is stored without its requester.
RequestAccess_NoRequester(u, d) ==
    LET r == requestIdCounter + 1
    IN  /\ uploader[d] # Nobody
        /\ ~HasActiveAccess(d, u)
        /\ u \in holders
        /\ NoPending(d, u)
        /\ r \in Ids /\ RequestRoom
        /\ requestIdCounter' = r
        /\ requests' = [requests EXCEPT ![r] =
             [NoRequest EXCEPT !.doc = d, !.status = "PENDING",
                               !.expiresAt = time + RequestTTL]]
        /\ latestRequestId' = [latestRequestId EXCEPT ![d][u] = r]
        /\ UNCHANGED <<guardianVars, passVars, time, uploader, keyVars>>

\* The release condition of d (see ProofOfLife and EmergencyVrf) may hold or
\* not at any time: a request while it does not is no step.
RequestAccess(u, d) ==
    LET r == requestIdCounter + 1
    IN  /\ uploader[d] # Nobody
        /\ ~HasActiveAccess(d, u)
        /\ u \in holders
        /\ NoPending(d, u)
        /\ r \in Ids /\ RequestRoom
        /\ requestIdCounter' = r
        /\ requests' = [requests EXCEPT ![r] =
             [NoRequest EXCEPT !.doc = d, !.requester = u, !.status = "PENDING",
                               !.expiresAt = time + RequestTTL]]
        /\ latestRequestId' = [latestRequestId EXCEPT ![d][u] = r]
        /\ UNCHANGED <<guardianVars, passVars, time, uploader, keyVars>>

-----------------------------------------------------------------------------
(* Approvals                                                               *)

\* Mutant: the requester is granted access whether it has a pass or not.
Decide_AnyPass(req) ==
    /\ requests' = [requests EXCEPT ![req.id] = [req.to EXCEPT !.status = "APPROVED"]]
    /\ AG!Grant(req.to.doc, req.to.requester)

\* A request that has its quorum is approved and granted, or rejected when the
\* requester has no pass any more.
Decide(req) ==
    \/ /\ req.to.requester \in holders
       /\ requests' = [requests EXCEPT ![req.id] = [req.to EXCEPT !.status = "APPROVED"]]
       /\ AG!Grant(req.to.doc, req.to.requester)
    \/ /\ req.to.requester \notin holders
       /\ requests' = [requests EXCEPT ![req.id] = [req.to EXCEPT !.status = "REJECTED"]]
       /\ UNCHANGED passVars

Reached(n) == n >= threshold

\* Mutant: an approval that was given before is counted again.
MayApprove_Again(r, g) ==
    /\ g # requests[r].requester
    /\ g \in members
    /\ g \notin compromised

\* The checks of _approveAccess, approveAccessFHE and _approveAccessDelegated.
MayApprove(r, g) ==
    /\ g # requests[r].requester
    /\ g \in members
    /\ g \notin requests[r].hasApproved
    /\ g \notin compromised

\* One approval in the name of guardian g.
Approve(r, g) ==
    LET to == [requests[r] EXCEPT !.approvedBy = Append(@, g),
                                  !.hasApproved = @ \cup {g}]
    IN  /\ Live(r)
        /\ MayApprove(r, g)
        /\ \/ /\ ~Reached(Len(to.approvedBy))
              /\ requests' = [requests EXCEPT ![r] = to]
              /\ UNCHANGED passVars
           \/ /\ Reached(Len(to.approvedBy))
              /\ Decide([id |-> r, to |-> to])
        /\ UNCHANGED <<guardianVars, time, uploader, requestIdCounter, latestRequestId, keyVars>>

\* approveAccess and approveAccessFHE
ApproveAccess(r, g) == Approve(r, g)

\* verifyDelegation, the signature being one of those signed
VerifyDelegation(s) ==
    /\ time <= s.validUntil
    /\ <<s.guardian, s.nonce>> \notin revokedNonces
    /\ s.guardian \in members

\* approveAccessByDelegation and approveAccessDelegated, called by the delegate
ApproveAccessDelegated(r, s) ==
    /\ s.delegate # requests[r].requester
    /\ VerifyDelegation(s)
    /\ Approve(r, s.guardian)

\* Mutant: the requester may be among the signers.
ValidSigners_Self(r, signers) ==
    /\ Reached(Cardinality(signers))
    /\ signers \subseteq members \cap blsKeys

\* _processBLSGuardians: addresses in ascending order, so a set.
ValidSigners(r, signers) ==
    /\ Reached(Cardinality(signers))
    /\ signers \subseteq members \cap blsKeys
    /\ requests[r].requester \notin signers

\* approveAccessBLS: the signers decide at once; hasApprovedRequest and
\* approvedBy are left alone.
ApproveAccessBLS(r, signers) ==
    /\ Live(r)
    /\ ValidSigners(r, signers)
    /\ Decide([id |-> r, to |-> [requests[r] EXCEPT !.signers = signers]])
    /\ UNCHANGED <<guardianVars, time, uploader, requestIdCounter, latestRequestId, keyVars>>

-----------------------------------------------------------------------------
(* Keys and delegations                                                    *)

KeyRoom == KeyEvents < IF requestIdCounter > 1 THEN MaxLateEvents ELSE MaxKeyEvents

\* registerPublicKey with a key that is not blacklisted.
RegisterPublicKey(a) ==
    /\ compromised' = compromised \ {a}
    /\ UNCHANGED <<guardianVars, passVars, time, uploader, requestVars,
                   blsKeys, delegations, revokedNonces>>

\* revokeKey: a moves to a fresh key; the old one is blacklisted, also for the
\* accounts that have registered the same key.
RevokeKey(a, sharing) ==
    /\ KeyRoom
    /\ a \notin compromised \cup sharing
    /\ compromised' = compromised \cup sharing
    /\ UNCHANGED <<guardianVars, passVars, time, uploader, requestVars,
                   blsKeys, delegations, revokedNonces>>

RegisterGuardianBLSKey(a) ==
    /\ KeyRoom
    /\ a \in members
    /\ blsKeys' = blsKeys \cup {a}
    /\ UNCHANGED <<guardianVars, passVars, time, uploader, requestVars,
                   compromised, delegations, revokedNonces>>

\* external: guardian g signs a GuardianDelegation with a new nonce.
SignDelegation(g, delegate, life) ==
    LET n == Cardinality(delegations) + 1
    IN  /\ KeyRoom
        /\ delegations' = delegations \cup
             {[guardian |-> g, delegate |-> delegate,
               validUntil |-> time + life, nonce |-> n]}
        /\ UNCHANGED <<guardianVars, passVars, time, uploader, requestVars, compromised, blsKeys, revokedNonces>>

RevokeDelegation(s) ==
    /\ KeyRoom
    /\ revokedNonces' = revokedNonces \cup {<<s.guardian, s.nonce>>}
    /\ UNCHANGED <<guardianVars, passVars, time, uploader, requestVars,
                   compromised, blsKeys, delegations>>

-----------------------------------------------------------------------------
(* The rest of the vault                                                   *)

Governance ==
    /\ GS!Next
    /\ UNCHANGED <<passVars, time, uploader, requestVars, keyVars>>

AddDocument(a, d) ==
    /\ a \in members
    /\ uploader[d] = Nobody
    /\ uploader' = [uploader EXCEPT ![d] = a]
    /\ AG!Grant(d, a)
    /\ UNCHANGED <<guardianVars, time, requestVars, keyVars>>

RevokeAccess(a, d, u) ==
    /\ a \in members
    /\ uploader[d] # Nobody
    /\ AG!Revoke(d, u)
    /\ UNCHANGED <<guardianVars, time, uploader, requestVars, keyVars>>

\* mintAccessToken, transfers and burnAccessToken
Passes ==
    /\ \E u \in Requesters : \/ members # {} /\ AG!Receive(u)
                             \/ AG!GiveUp(u)
                             \/ \E w \in Requesters : AG!HandOver(u, w)
    /\ UNCHANGED <<guardianVars, time, uploader, requestVars, keyVars>>

Tick ==
    /\ time < MaxTime
    /\ time' = time + 1
    /\ UNCHANGED <<guardianVars, passVars, uploader, requestVars, keyVars>>

Next ==
    \/ Governance \/ Passes \/ Tick
    \/ \E a \in Addr, d \in Docs :
         \/ AddDocument(a, d)
         \/ RequestAccess(a, d)
         \/ \E u \in Addr : RevokeAccess(a, d, u)
    \/ \E r \in Ids :
         \/ \E g \in Addr : ApproveAccess(r, g)
         \/ \E s \in delegations : ApproveAccessDelegated(r, s)
         \/ \E signers \in SUBSET Addr : ApproveAccessBLS(r, signers)
    \/ \E a \in Addr :
         \/ RegisterPublicKey(a)
         \/ \E sharing \in SUBSET KeySharers : RevokeKey(a, sharing)
         \/ RegisterGuardianBLSKey(a)
    \/ \E g \in Delegators, delegate \in Delegates, life \in Lifetimes :
         SignDelegation(g, delegate, life)
    \/ \E s \in delegations : RevokeDelegation(s)

Spec == Init /\ [][Next]_vars

-----------------------------------------------------------------------------
(* Properties                                                              *)

\* requestAccess looks at the latest request only, and a request that ran out
\* is never closed: still an account has at most one request per document that
\* guardians can decide on.
OneLiveRequest ==
    \A r, s \in Ids :
      Live(r) /\ Live(s) /\ requests[r].doc = requests[s].doc
        /\ requests[r].requester = requests[s].requester => r = s

\* Whichever of the four ways the approvals come in, a guardian is counted
\* once, the requester never, and no one else at all.
ApprovalsAreDistinct ==
    \A r \in Ids :
      LET q == requests[r]
      IN  /\ Range(q.approvedBy) = q.hasApproved
          /\ Len(q.approvedBy) = Cardinality(q.hasApproved)
          /\ q.hasApproved \cup q.signers \subseteq (members \cup former) \ {q.requester}

\* An account other than the uploader has a standing grant only with a pass
\* and an approved request: a quorum reached after the pass was given up, or
\* given up and received again, does not bring a grant back.
GrantsAreDecided ==
    \A d \in Docs, u \in Addr :
      <<d, u>> \in granted /\ u # uploader[d] =>
        /\ u \in holders
        /\ \E r \in Ids : requests[r].doc = d /\ requests[r].requester = u
                            /\ requests[r].status = "APPROVED"

Voters(q) == IF q.signers # {} THEN q.signers ELSE Range(q.approvedBy)

Decided(r) == requests[r].status = "PENDING" /\ requests[r].status' # "PENDING"

\* A request is decided by as many distinct accounts as the threshold of that
\* moment asks for, and a decided request never changes again.
DecidedByThreshold ==
    [][\A r \in Ids :
         /\ Decided(r) => Cardinality(Voters(requests'[r])) >= threshold
         /\ requests[r].status \in {"APPROVED", "REJECTED"} => UNCHANGED requests[r]]_vars

=============================================================================
