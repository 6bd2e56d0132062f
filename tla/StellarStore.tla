------------------------------ MODULE StellarStore ------------------------------
(***************************************************************************)
(* The local store of stellar.service.ts, used while no Soroban contract   *)
(* is configured: every operation reads a key of the store, changes it and *)
(* saves it without an await in between, so each one is a step.  The       *)
(* connected account changes under the screens that show what it may do,   *)
(* and fetchEmergencyUnlockSchedules of contract.service.ts has awaits     *)
(* between reading a schedule and fulfilling it.                           *)
(***************************************************************************)
EXTENDS Naturals, Sequences, FiniteSets

CONSTANTS
    Users,        \* Stellar accounts
    Confirmation, \* MOCK_EMERGENCY_CONFIRMATION_MS
    BaseDelay,    \* MOCK_EMERGENCY_BASE_DELAY_SEC
    Jitter,       \* possible values of the random part of the delay
    MaxStoreTime, MaxRequests, MaxEmergencies  \* bounds

ASSUME StellarStoreAssumptions ==
    /\ {Confirmation, BaseDelay, MaxStoreTime, MaxRequests, MaxEmergencies} \subseteq Nat
    /\ Jitter \subseteq Nat /\ Jitter # {}

VARIABLES
    connected,     \* activeAccount
    vaultsDb,      \* "vaults": creator, guardians, threshold
    invitesDb,     \* "invites" not yet accepted: guardian and vault
    documentsDb,   \* "documents": vault, uploader, guardians holding a share
    requestsDb,    \* "requests"
    tokensDb,      \* "tokens": owner and vault
    keeperDb,      \* "keeper_authorizations": the keepers authorised
    unlockDb,      \* "emergency_unlocks" of vault 1, or None
    storeClock,
    shown,         \* the approvals listed on screen and for whom
    fetching,      \* what the running schedule fetch read
    batched,       \* history: requests decided by approveAccessBLS
    misdirected    \* history: approvals given from a list of another account

NoUnlock == [emergencyMode |-> FALSE, cycle |-> 0, requestedAt |-> 0, requested |-> FALSE,
             fulfilled |-> FALSE, unlockAt |-> 0]

db == <<vaultsDb, invitesDb, documentsDb, requestsDb, tokensDb, keeperDb>>
screen == <<shown, batched, misdirected>>
unlock == <<unlockDb, storeClock, fetching>>
storeVars == <<connected, db, screen, unlock>>

StoreInit ==
    /\ connected \in Users
    /\ vaultsDb = <<>> /\ invitesDb = {} /\ documentsDb = <<>> /\ requestsDb = <<>>
    /\ tokensDb = {} /\ keeperDb = {} /\ unlockDb = NoUnlock
    /\ storeClock = 0
    /\ shown = [for |-> connected, requests |-> {}]
    /\ fetching = "idle" /\ batched = {} /\ misdirected = {}

VaultOfDoc(d) == documentsDb[d].vault

CreateVault(invited, threshold) ==
    /\ Len(vaultsDb) < 1
    /\ vaultsDb' = Append(vaultsDb, [creator |-> connected, guardians |-> {connected},
                                     threshold |-> threshold])
    /\ invitesDb' = invitesDb \cup
           {[guardian |-> g, vault |-> Len(vaultsDb) + 1] : g \in invited \ {connected}}
    /\ UNCHANGED <<connected, documentsDb, requestsDb, tokensDb, keeperDb>> /\ UNCHANGED <<screen, unlock>>

\* No invitation is needed, and an expired one serves.
AcceptInvite(v) ==
    /\ invitesDb' = invitesDb \ {[guardian |-> connected, vault |-> v]}
    /\ vaultsDb' = [vaultsDb EXCEPT ![v].guardians = @ \cup {connected}]
    /\ UNCHANGED <<connected, documentsDb, requestsDb, tokensDb, keeperDb>> /\ UNCHANGED <<screen, unlock>>

StoreDocument(v, holders) ==
    /\ Len(documentsDb) < 1
    /\ documentsDb' = Append(documentsDb, [vault |-> v, by |-> connected, shares |-> holders])
    /\ UNCHANGED <<connected, vaultsDb, invitesDb, requestsDb, tokensDb, keeperDb>> /\ UNCHANGED <<screen, unlock>>

StoreRequest(d) ==
    /\ Len(requestsDb) < MaxRequests
    /\ requestsDb' = Append(requestsDb, [doc |-> d, requester |-> connected, approvedBy |-> {},
                                         approved |-> FALSE, shares |-> {}])
    /\ UNCHANGED <<connected, vaultsDb, invitesDb, documentsDb, tokensDb, keeperDb>> /\ UNCHANGED <<screen, unlock>>

\* fetchPendingApprovalsForGuardian
PendingFor(u) ==
    {r \in DOMAIN requestsDb :
        /\ ~requestsDb[r].approved /\ u \notin requestsDb[r].approvedBy
        /\ u \in vaultsDb[VaultOfDoc(requestsDb[r].doc)].guardians}

ListApprovals ==
    /\ shown' = [for |-> connected, requests |-> PendingFor(connected)]
    /\ UNCHANGED <<connected, db, batched, misdirected, unlock>>

Decided(r, by) == Cardinality(by) >= vaultsDb[VaultOfDoc(requestsDb[r].doc)].threshold

\* The approver is the account connected when the button is pressed; the store
\* does not ask whether it is a guardian.
StoreApprove(r, withShare) ==
    /\ connected \notin requestsDb[r].approvedBy
    /\ LET by == requestsDb[r].approvedBy \cup {connected}
       IN requestsDb' = [requestsDb EXCEPT ![r].approvedBy = by,
                             ![r].approved = @ \/ Decided(r, by),
                             ![r].shares = IF withShare THEN @ \cup {connected} ELSE @]
    /\ UNCHANGED <<connected, vaultsDb, invitesDb, documentsDb, tokensDb, keeperDb>>

ApproveListed(r, withShare) ==
    /\ r \in shown.requests
    /\ StoreApprove(r, withShare)
    /\ misdirected' = IF shown.for = connected THEN misdirected ELSE misdirected \cup {<<connected, r>>}
    /\ UNCHANGED <<shown, batched, unlock>>

\* approveAccessBLS: approved whatever the threshold.
ApproveBatch(r, guardians) ==
    /\ requestsDb' = [requestsDb EXCEPT ![r].approvedBy = @ \cup guardians, ![r].approved = TRUE,
                                        ![r].shares = @ \cup guardians]
    /\ batched' = batched \cup {r}
    /\ UNCHANGED <<connected, vaultsDb, invitesDb, documentsDb, tokensDb, keeperDb>>
    /\ UNCHANGED <<shown, misdirected, unlock>>

MintToken(v, u) ==
    /\ tokensDb' = tokensDb \cup {[owner |-> u, vault |-> v]} /\ tokensDb' # tokensDb
    /\ UNCHANGED <<connected, vaultsDb, invitesDb, documentsDb, requestsDb, keeperDb>> /\ UNCHANGED <<screen, unlock>>

AuthorizeKeeper(u) ==
    /\ keeperDb' = {u} /\ keeperDb' # keeperDb
    /\ UNCHANGED <<connected, vaultsDb, invitesDb, documentsDb, requestsDb, tokensDb>> /\ UNCHANGED <<screen, unlock>>

RevokeKeeperAuthorization ==
    /\ keeperDb # {} /\ keeperDb' = {}
    /\ UNCHANGED <<connected, vaultsDb, invitesDb, documentsDb, requestsDb, tokensDb>> /\ UNCHANGED <<screen, unlock>>

StoreEmergency(enabled) ==
    /\ enabled => /\ unlockDb.cycle < MaxEmergencies
                  /\ ~(unlockDb.requested /\ ~unlockDb.fulfilled)
    /\ unlockDb' = [unlockDb EXCEPT !.emergencyMode = enabled, !.requested = enabled,
                        !.fulfilled = FALSE, !.unlockAt = 0,
                        !.cycle = IF enabled THEN @ + 1 ELSE @,
                        !.requestedAt = IF enabled THEN storeClock ELSE @]
    /\ UNCHANGED <<connected, db, screen, storeClock, fetching>>

Fulfillable == unlockDb.emergencyMode /\ unlockDb.requested /\ ~unlockDb.fulfilled

Confirmed == storeClock >= unlockDb.requestedAt + Confirmation

FetchReads ==
    /\ fetching = "idle"
    /\ fetching' = IF unlockDb.requested /\ ~unlockDb.fulfilled THEN "unfulfilled" ELSE "idle"
    /\ UNCHANGED <<connected, db, screen, unlockDb, storeClock>>

\* fulfillEmergencyUnlockDelay as the fetch calls it; a refusal is swallowed.
FetchFulfils(jitter) ==
    /\ fetching = "unfulfilled"
    /\ fetching' = "idle"
    /\ unlockDb' = IF Fulfillable /\ Confirmed
                   THEN [unlockDb EXCEPT !.fulfilled = TRUE,
                                         !.unlockAt = storeClock + BaseDelay + jitter]
                   ELSE unlockDb
    /\ UNCHANGED <<connected, db, screen, storeClock>>

\* A second screen fetches at the same time and is quicker.
OtherFetch(jitter) ==
    /\ Fulfillable /\ Confirmed
    /\ unlockDb' = [unlockDb EXCEPT !.fulfilled = TRUE, !.unlockAt = storeClock + BaseDelay + jitter]
    /\ UNCHANGED <<connected, db, screen, storeClock, fetching>>

SwitchConnected(u) ==
    /\ u # connected /\ connected' = u
    /\ UNCHANGED <<db, screen, unlock>>

StoreTick ==
    /\ storeClock < MaxStoreTime /\ storeClock' = storeClock + 1
    /\ UNCHANGED <<connected, db, screen, unlockDb, fetching>>

StoreNext ==
    \/ \E invited \in SUBSET Users, t \in 1 .. 2 : CreateVault(invited, t)
    \/ \E v \in DOMAIN vaultsDb :
          \/ AcceptInvite(v)
          \/ StoreDocument(v, vaultsDb[v].guardians)
    \/ \E d \in DOMAIN documentsDb : StoreRequest(d)
    \/ \E r \in DOMAIN requestsDb :
          \/ \E b \in BOOLEAN : ApproveListed(r, b)
          \/ \E g \in SUBSET Users \ {{}} : ApproveBatch(r, g)
    \/ \E u \in Users : SwitchConnected(u)
    \/ ListApprovals

\* Tokens, keepers and emergency schedules share no table with the rest, so the
\* two parts are explored apart.
UnlockNext ==
    \/ \E u \in Users : MintToken(1, u) \/ AuthorizeKeeper(u)
    \/ RevokeKeeperAuthorization
    \/ \E b \in BOOLEAN : StoreEmergency(b)
    \/ FetchReads \/ StoreTick
    \/ \E j \in Jitter : FetchFulfils(j) \/ OtherFetch(j)

StoreSpec == StoreInit /\ [][StoreNext \/ UnlockNext]_storeVars

--------------------------------------------------------------------------------
\* Type invariant of the store.
StoreTypeOK ==
    /\ connected \in Users
    /\ \A r \in DOMAIN requestsDb : requestsDb[r].doc \in DOMAIN documentsDb
    /\ \A r \in DOMAIN requestsDb : requestsDb[r].shares \subseteq requestsDb[r].approvedBy
    /\ \A d \in DOMAIN documentsDb : VaultOfDoc(d) \in DOMAIN vaultsDb
    /\ unlockDb.requested => unlockDb.emergencyMode

\* An approved request was approved by as many guardians of its vault as the
\* vault's threshold, unless guardians signed it as a batch or an approval was
\* given from a list of another account (approveAccess asks for neither).
ApprovedByGuardians ==
    \A r \in DOMAIN requestsDb :
        LET vault == vaultsDb[VaultOfDoc(requestsDb[r].doc)]
            doubtful == {u \in Users : <<u, r>> \in misdirected}
        IN requestsDb[r].approved /\ r \notin batched
              => /\ Cardinality(requestsDb[r].approvedBy) >= vault.threshold
                 /\ requestsDb[r].approvedBy \ doubtful \subseteq vault.guardians

\* A drawn unlock time leaves the confirmation window and the base delay.
UnlockIsDelayed ==
    unlockDb.fulfilled => unlockDb.unlockAt >= unlockDb.requestedAt + Confirmation + BaseDelay

\* However many screens fetch the schedule, the delay of one emergency is drawn once.
UnlockDrawnOnce ==
    [][unlockDb.fulfilled /\ unlockDb'.fulfilled /\ unlockDb'.cycle = unlockDb.cycle
        => unlockDb'.unlockAt = unlockDb.unlockAt]_storeVars
================================================================================
