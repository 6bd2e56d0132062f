------------------------------- MODULE VaultViews -------------------------------
(***************************************************************************)
(* The lists contract.service.ts builds for the pages: vaults, passes,     *)
(* pending approvals and recent activity.  Each starts from event logs and *)
(* is filtered by view calls; getVault is answered from a cache that only  *)
(* the account's own acceptance of an invitation clears.                   *)
(***************************************************************************)
EXTENDS Naturals, Sequences, FiniteSets, Functions

CONSTANTS
    Me, Others,       \* the connected account, and the other accounts
    MaxEvents,        \* bound on the events of the contract
    ScanDepth,        \* VITE_PENDING_REQUEST_SCAN_DEPTH
    PendingLimit,     \* of fetchPendingApprovalsForGuardian
    Limit, PerEventTail  \* of getRecentActivity

ASSUME VaultViewsAssumptions ==
    /\ Me \notin Others
    /\ {MaxEvents, ScanDepth, PendingLimit, Limit, PerEventTail} \subseteq Nat \ {0}
    /\ PerEventTail >= Limit               \* max(limit * 6, 40)

Accounts == Others \cup {Me}
Burned == "burned"

VARIABLES
    events,        \* logs, oldest first: [name, id, who]
    vault,         \* vault id -> [creator, guardians]
    pass,          \* token id -> [vault, owner]
    doc,           \* document id -> vault id
    ask,           \* request id -> [doc, approved, open]
    vaultCache     \* getVaultCache: vault id -> guardians last read, or Uncached

viewVars == <<events, vault, pass, doc, ask, vaultCache>>
Uncached == {"uncached"}
Event(name, id, who) == [name |-> name, id |-> id, who |-> who]

ViewsInit ==
    /\ events = <<>> /\ vault = <<>> /\ pass = <<>> /\ doc = <<>> /\ ask = <<>>
    /\ vaultCache = <<>>

Emit(e) == Len(events) < MaxEvents /\ events' = Append(events, e)

--------------------------------------------------------------------------------
(* What the contract does for any account (external, see GuardianGovernance,*)
(* AccessPasses and AccessRequests).                                       *)

VaultCreated(a) ==
    /\ Emit(Event("VaultCreated", Len(vault) + 1, a))
    /\ vault' = Append(vault, [creator |-> a, guardians |-> {}])
    /\ vaultCache' = Append(vaultCache, Uncached)
    /\ UNCHANGED <<pass, doc, ask>>

InviteAccepted(v, a) ==
    /\ a \notin vault[v].guardians
    /\ Emit(Event("GuardianAdded", v, a))
    /\ vault' = [vault EXCEPT ![v].guardians = @ \cup {a}]
    /\ UNCHANGED <<pass, doc, ask>>

GuardianRemoved(v, a) ==
    /\ a \in vault[v].guardians
    /\ vault' = [vault EXCEPT ![v].guardians = @ \ {a}]
    /\ UNCHANGED <<events, pass, doc, ask, vaultCache>>

PassMinted(v, a) ==
    /\ Emit(Event("NFTMinted", Len(pass) + 1, a))
    /\ pass' = Append(pass, [vault |-> v, owner |-> a])
    /\ UNCHANGED <<vault, doc, ask, vaultCache>>

PassMoved(t, a) ==
    /\ pass[t].owner \notin {a, Burned}
    /\ pass' = [pass EXCEPT ![t].owner = a]
    /\ UNCHANGED <<events, vault, doc, ask, vaultCache>>

DocumentAdded(v, a) ==
    /\ Emit(Event("DocumentAdded", Len(doc) + 1, a))
    /\ doc' = Append(doc, v)
    /\ UNCHANGED <<vault, pass, ask, vaultCache>>

AccessRequested(d, a) ==
    /\ Emit(Event("AccessRequested", Len(ask) + 1, a))
    /\ ask' = Append(ask, [doc |-> d, approved |-> {}, open |-> TRUE])
    /\ UNCHANGED <<vault, pass, doc, vaultCache>>

RequestApproved(r, g) ==
    /\ ask[r].open /\ g \in vault[doc[ask[r].doc]].guardians \ ask[r].approved
    /\ ask' = [ask EXCEPT ![r].approved = @ \cup {g}]
    /\ UNCHANGED <<events, vault, pass, doc, vaultCache>>

\* Decided or expired.
RequestCloses(r) ==
    /\ ask[r].open
    /\ ask' = [ask EXCEPT ![r].open = FALSE]
    /\ UNCHANGED <<events, vault, pass, doc, vaultCache>>

--------------------------------------------------------------------------------
(* The client.                                                             *)

\* acceptGuardianInvite waits for the receipt and invalidates the vault's entry.
AcceptGuardianInvite(v) ==
    InviteAccepted(v, Me) /\ vaultCache' = [vaultCache EXCEPT ![v] = Uncached]

CachedGuardians(v) == IF vaultCache[v] = Uncached THEN vault[v].guardians ELSE vaultCache[v]

\* cachedGetVault fills the entry when a list is built, and the entry expires.
CachedGetVault(v) ==
    /\ vaultCache[v] = Uncached
    /\ vaultCache' = [vaultCache EXCEPT ![v] = vault[v].guardians]
    /\ UNCHANGED <<events, vault, pass, doc, ask>>
EntryExpires(v) ==
    /\ vaultCache[v] # Uncached
    /\ vaultCache' = [vaultCache EXCEPT ![v] = Uncached]
    /\ UNCHANGED <<events, vault, pass, doc, ask>>

Logged(name, who) == {e.id : e \in {f \in Range(events) : f.name = name /\ f.who = who}}

\* Creator or guardian.  The third test, contract.hasVaultToken, always throws:
\* CONTRACT_ABI has no such function, and the error counts as "no token".
IsMember(a, v) == vault[v].creator = a \/ a \in CachedGuardians(v)

FetchVaultsForAccount(a) ==
    {v \in Logged("VaultCreated", a) \cup Logged("GuardianAdded", a)
           \cup {pass[t].vault : t \in Logged("NFTMinted", a)} : IsMember(a, v)}

\* Passes minted to the account and still owned by it.
FetchUserTokens(a) == {t \in Logged("NFTMinted", a) : pass[t].owner = a}

\* The documents logged for the vaults, twenty vaults to a query.
FetchDocumentsForVaults(vs) ==
    {e.id : e \in {f \in Range(events) : f.name = "DocumentAdded" /\ doc[f.id] \in vs}}

\* The contract call throws (see IsMember): the list of tokens decides.
HasVaultToken(a, v) == \E t \in FetchUserTokens(a) : pass[t].vault = v

\* ownerOf throws for a burned token.
ActivePassCount(v) ==
    Cardinality({t \in {e.id : e \in {f \in Range(events) : f.name = "NFTMinted"}} :
                    pass[t].vault = v /\ pass[t].owner # Burned})

\* A list of logs is the set of its places; slice(-n) keeps the newest.
Named(names) == {i \in DOMAIN events : events[i].name \in names}
Newest(s, n) == {i \in s : Cardinality({j \in s : j > i}) < n}

\* From the newest of the requests scanned down, until the list is full.
PendingApprovals(g) ==
    Newest({r \in {events[i].id : i \in Newest(Named({"AccessRequested"}), ScanDepth)} :
                g \notin ask[r].approved /\ ask[r].open /\ g \in CachedGuardians(doc[ask[r].doc])},
           PendingLimit)

Candidates(name) == Newest(Named({name}), PerEventTail)

\* The newest events among the newest of each kind.
Shown == {"VaultCreated", "DocumentAdded", "AccessRequested", "NFTMinted"}
RecentActivity == Newest(UNION {Candidates(name) : name \in Shown}, Limit)

ViewsNext ==
    \/ \E a \in Accounts : VaultCreated(a)
    \/ \E v \in DOMAIN vault :
         \/ CachedGetVault(v) \/ EntryExpires(v) \/ AcceptGuardianInvite(v)
         \/ \E a \in Others : InviteAccepted(v, a) /\ UNCHANGED vaultCache
         \/ \E a \in Accounts : GuardianRemoved(v, a) \/ PassMinted(v, a) \/ DocumentAdded(v, a)
    \/ \E t \in DOMAIN pass, a \in Accounts \cup {Burned} : PassMoved(t, a)
    \/ \E d \in DOMAIN doc, a \in Accounts : AccessRequested(d, a)
    \/ \E r \in DOMAIN ask : RequestCloses(r) \/ \E g \in Accounts : RequestApproved(r, g)

ViewsSpec == ViewsInit /\ [][ViewsNext]_viewVars

--------------------------------------------------------------------------------
\* Type invariant of the contract's records and the cached vaults.
ViewsTypeOK ==
    /\ Len(events) <= MaxEvents /\ Len(vaultCache) = Len(vault)
    /\ \A v \in DOMAIN vault : vault[v].creator \in Accounts /\ vault[v].guardians \subseteq Accounts
    /\ \A t \in DOMAIN pass : pass[t].vault \in DOMAIN vault
    /\ \A r \in DOMAIN ask : ask[r].doc \in DOMAIN doc

\* The connected account's list has every vault it created or guards, with its
\* documents, its own acceptances included at once; a vault it no longer guards
\* is there only while the cached vault is stale.
OwnVaultsListed ==
    LET mine == {v \in DOMAIN vault : vault[v].creator = Me \/ Me \in vault[v].guardians}
    IN /\ mine \subseteq FetchVaultsForAccount(Me)
       /\ {d \in DOMAIN doc : doc[d] \in mine} \subseteq FetchDocumentsForVaults(FetchVaultsForAccount(Me))
       /\ \A v \in FetchVaultsForAccount(Me) \ mine : vaultCache[v] \notin {Uncached, vault[v].guardians}

\* What hasVaultToken confirms is true on chain, and passes that never moved
\* are all counted: the number of passes of a vault is exact.
PassesShownAreHeld ==
    \A v \in DOMAIN vault :
        /\ ActivePassCount(v) = Cardinality({t \in DOMAIN pass : pass[t].vault = v /\ pass[t].owner # Burned})
        /\ \A a \in Accounts : HasVaultToken(a, v) => \E t \in DOMAIN pass : pass[t] = [vault |-> v, owner |-> a]

\* Nothing a guardian cannot decide is offered to it, unless the cached vault is
\* stale; and every open request it has still to decide is offered while it is
\* among the last ScanDepth requests, or the list is full of newer ones.
PendingAreActionable ==
    LET offered == PendingApprovals(Me) IN
    \A r \in DOMAIN ask :
        LET v == doc[ask[r].doc]
            due == /\ ask[r].open /\ Me \in vault[v].guardians \ ask[r].approved
                   /\ r + ScanDepth > Len(ask)
        IN vaultCache[v] \in {Uncached, vault[v].guardians} =>
             /\ r \in offered => due
             /\ due => r \in offered \/ Cardinality({s \in offered : s > r}) = PendingLimit

\* Looking at the tail of each kind of event loses none of the newest events.
ActivityIsNewest == RecentActivity = Newest(Named(Shown), Limit)
================================================================================
