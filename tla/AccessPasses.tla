----------------------------- MODULE AccessPasses -----------------------------
(***************************************************************************)
(* The access passes (ERC-721 tokens) of one vault and the document grants *)
(* that hang on them in contracts/SpooVault.sol: mintAccessToken,          *)
(* transfers, burnAccessToken, the hook _update, the access versions,      *)
(* _addDocument's and the guardians' grants, revokeAccess and the opt-in   *)
(* broadcast of revocations.                                               *)
(*                                                                         *)
(* How guardians decide on a grant is AccessRequests; here it is an input. *)
(***************************************************************************)
EXTENDS Naturals, FiniteSets

CONSTANTS
    Addr, Nobody,    \* accounts; address(0)
    Docs,
    MaxToken,        \* bound on the tokens minted
    MaxVersion       \* bound on the access version of an account

ASSUME PassAssumptions ==
    /\ IsFiniteSet(Addr)
    /\ Nobody \notin Addr
    /\ MaxToken \in Nat /\ MaxVersion \in Nat

VARIABLES
    invited, members, former, threshold,   \* the vault's guardians
    tokenOwner,        \* ownerOf; Nobody before the mint and after the burn
    tokenIdCounter,    \* _tokenIdCounter
    balance,           \* _ownedVaultTokenBalance[u][vault]
    supply,            \* _activeTokenSupply
    version,           \* _vaultAccessVersion[vault][u]
    uploaded,          \* the documents that exist
    hasAccess,         \* hasAccess[d]
    docVersion,        \* _documentAccessVersion[d][u]
    broadcasting,      \* crossChainRevocationEnabled[vault]
    revocationNonce    \* documentRevocationNonce[d][u]

guardianVars == <<invited, members, former, threshold>>
tokenVars == <<tokenOwner, tokenIdCounter, balance, supply>>
grantVars == <<uploaded, hasAccess, docVersion>>
crossVars == <<broadcasting, revocationNonce>>
vars == <<guardianVars, tokenVars, version, grantVars, crossVars>>

GS == INSTANCE GuardianSet

Tokens == 1 .. MaxToken

\* Types. The storage of SpooVault.sol that passes, grants and versions live in has its
\* types, with versions within the bound of the model.
TypeOK ==
    /\ members \subseteq Addr
    /\ tokenOwner \in [Tokens -> Addr \cup {Nobody}]
    /\ tokenIdCounter \in 0 .. MaxToken
    /\ balance \in [Addr -> 0 .. MaxToken]
    /\ supply \in 0 .. MaxToken
    /\ version \in [Addr -> Nat]
    /\ uploaded \subseteq Docs
    /\ hasAccess \in [Docs -> SUBSET Addr]
    /\ docVersion \in [Docs -> [Addr -> Nat]]
    /\ broadcasting \in BOOLEAN
    /\ revocationNonce \in [Docs -> [Addr -> Nat]]

Init ==
    /\ GS!Init
    /\ tokenOwner = [t \in Tokens |-> Nobody]
    /\ tokenIdCounter = 0
    /\ balance = [u \in Addr |-> 0]
    /\ supply = 0
    /\ version = [u \in Addr |-> 0]
    /\ uploaded = {}
    /\ hasAccess = [d \in Docs |-> {}]
    /\ docVersion = [d \in Docs |-> [u \in Addr |-> 0]]
    /\ broadcasting = FALSE
    /\ revocationNonce = [d \in Docs |-> [u \in Addr |-> 0]]

-----------------------------------------------------------------------------
(* Versions and grants                                                     *)

\* _currentAccessVersion
CurrentVersion(u) == IF version[u] = 0 THEN 1 ELSE version[u]

\* _grantAccess
GrantAccess(d, u) ==
    /\ hasAccess' = [hasAccess EXCEPT ![d] = @ \cup {u}]
    /\ docVersion' = [docVersion EXCEPT ![d][u] = CurrentVersion(u)]

OwnsToken(u) == balance[u] > 0

Granted(d, u) == u \in hasAccess[d] /\ docVersion[d][u] = CurrentVersion(u)

\* _hasActiveAccess
HasActiveAccess(d, u) == u \in members \/ (Granted(d, u) /\ OwnsToken(u))

-----------------------------------------------------------------------------
(* The hook of every mint, transfer and burn                               *)

\* Mutant: the balance of the receiver is not credited on a transfer.
NewBalance_MintOnly(from, to) ==
    LET taken == [u \in Addr |-> IF u = from /\ balance[u] > 0
                                 THEN balance[u] - 1 ELSE balance[u]]
    IN  [u \in Addr |-> IF u = to /\ from = Nobody THEN taken[u] + 1 ELSE taken[u]]

NewBalance(from, to) ==
    LET taken == [u \in Addr |-> IF u = from /\ balance[u] > 0
                                 THEN balance[u] - 1 ELSE balance[u]]
    IN  [u \in Addr |-> IF u = to THEN taken[u] + 1 ELSE taken[u]]

\* Mutant: the version is not started when the first pass is received.
NewVersion_LateStart(from, to) ==
    [u \in Addr |-> IF u = from /\ NewBalance(from, to)[u] = 0
                    THEN version[u] + 1 ELSE version[u]]

\* A first receipt starts the version at 1; running out of passes moves it on.
NewVersion(from, to) ==
    LET started == [u \in Addr |-> IF u = to /\ version[u] = 0 THEN 1 ELSE version[u]]
    IN  [u \in Addr |-> IF u = from /\ NewBalance(from, to)[u] = 0
                        THEN started[u] + 1 ELSE started[u]]

\* Mutant: a transfer is counted as a mint.
NewSupply_Transfer(from, to) ==
    IF to = Nobody /\ supply > 0 THEN supply - 1 ELSE supply + 1

NewSupply(from, to) ==
    LET minted == IF from = Nobody THEN supply + 1 ELSE supply
    IN  IF to = Nobody /\ minted > 0 THEN minted - 1 ELSE minted

\* _update
Update(to, t) ==
    LET from == tokenOwner[t]
    IN  /\ \A u \in Addr : NewVersion(from, to)[u] <= MaxVersion
        /\ tokenOwner' = [tokenOwner EXCEPT ![t] = to]
        /\ balance' = NewBalance(from, to)
        /\ supply' = NewSupply(from, to)
        /\ version' = NewVersion(from, to)

MintAccessToken(a, to) ==
    /\ a \in members
    /\ tokenIdCounter < MaxToken
    /\ tokenIdCounter' = tokenIdCounter + 1
    /\ Update(to, tokenIdCounter + 1)
    /\ UNCHANGED <<guardianVars, grantVars, crossVars>>

\* external: ERC-721 transfer by the owner or an operator, to itself included.
TransferToken(t, to) ==
    /\ tokenOwner[t] # Nobody
    /\ Update(to, t)
    /\ UNCHANGED <<guardianVars, tokenIdCounter, grantVars, crossVars>>

BurnAccessToken(t) ==
    /\ tokenOwner[t] # Nobody
    /\ Update(Nobody, t)
    /\ UNCHANGED <<guardianVars, tokenIdCounter, grantVars, crossVars>>

-----------------------------------------------------------------------------

Governance ==
    /\ GS!Next
    /\ UNCHANGED <<tokenVars, version, grantVars, crossVars>>

\* _addDocument: the uploader is granted the document.
AddDocument(a, d) ==
    /\ a \in members
    /\ d \notin uploaded
    /\ uploaded' = uploaded \cup {d}
    /\ GrantAccess(d, a)
    /\ UNCHANGED <<guardianVars, tokenVars, version, crossVars>>

\* An access request of u reaches its quorum while u owns a pass.
ApproveRequest(d, u) ==
    /\ d \in uploaded
    /\ members # {}
    /\ OwnsToken(u)
    /\ GrantAccess(d, u)
    /\ UNCHANGED <<guardianVars, tokenVars, version, uploaded, crossVars>>

\* Mutant: the flag of the document is cleared, the version is not moved.
RevokeAccess_OneDocument(a, d, u) ==
    /\ a \in members
    /\ d \in uploaded
    /\ hasAccess' = [hasAccess EXCEPT ![d] = @ \ {u}]
    /\ docVersion' = [docVersion EXCEPT ![d][u] = 0]
    /\ UNCHANGED <<guardianVars, tokenVars, version, uploaded, crossVars>>

RevokeAccess(a, d, u) ==
    /\ a \in members
    /\ d \in uploaded
    /\ version[u] < MaxVersion
    /\ hasAccess' = [hasAccess EXCEPT ![d] = @ \ {u}]
    /\ docVersion' = [docVersion EXCEPT ![d][u] = 0]
    /\ version' = [version EXCEPT ![u] = @ + 1]
    /\ revocationNonce' = IF broadcasting
                          THEN [revocationNonce EXCEPT ![d][u] = @ + 1]
                          ELSE revocationNonce
    /\ UNCHANGED <<guardianVars, tokenVars, uploaded, broadcasting>>

\* setCrossChainRevocationEnabled by the creator of the vault.
SetCrossChainRevocationEnabled(on) ==
    /\ threshold # 0
    /\ broadcasting' = on
    /\ UNCHANGED <<guardianVars, tokenVars, version, grantVars, revocationNonce>>

Next ==
    \/ Governance
    \/ \E a, to \in Addr : MintAccessToken(a, to)
    \/ \E t \in Tokens : BurnAccessToken(t) \/ \E to \in Addr : TransferToken(t, to)
    \/ \E a \in Addr, d \in Docs : AddDocument(a, d)
    \/ \E u \in Addr, d \in Docs : ApproveRequest(d, u)
    \/ \E a, u \in Addr, d \in Docs : RevokeAccess(a, d, u)
    \/ \E on \in BOOLEAN : SetCrossChainRevocationEnabled(on)

Spec == Init /\ [][Next]_vars

-----------------------------------------------------------------------------
(* Properties                                                              *)

\* The counters kept by _update agree with the owners of the tokens: each
\* account's balance for the vault, and the active supply.
CountersMatchOwners ==
    /\ \A u \in Addr : balance[u] = Cardinality({t \in Tokens : tokenOwner[t] = u})
    /\ supply = Cardinality({t \in Tokens : tokenOwner[t] # Nobody})

\* No grant is ahead of the version of its account, and the version of an
\* account with a pass has started: so a grant once left behind by a bump is
\* never met by the version again.
VersionsBound ==
    /\ \A d \in Docs, u \in Addr : docVersion[d][u] <= CurrentVersion(u)
    /\ \A u \in Addr : OwnsToken(u) => version[u] >= 1

AG == INSTANCE AccessGrants WITH
        granted <- {p \in Docs \X Addr : Granted(p[1], p[2])},
        holders <- {u \in Addr : OwnsToken(u)}

\* Versions and balances implement the promise of AccessGrants: "Access
\* versions let us invalidate all prior document grants for a user+vault in
\* O(1)", for accounts that hold a pass.
ImplementsAccessGrants == AG!Spec

\* "Access versions let us invalidate all prior document grants for a
\* user+vault in O(1)": after revokeAccess no grant of the account is left.
RevocationIsTotal ==
    [][\A a, u \in Addr, d \in Docs :
         RevokeAccess(a, d, u) => \A e \in Docs : ~Granted(e, u)']_vars

=============================================================================
