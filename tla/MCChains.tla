-------------------------------- MODULE MCChains --------------------------------
(* What the application reads from and writes to the two chains, for TLC:   *)
(* event logs and the views built on them, the local Stellar store, Soroban *)
(* calls and the Soroban contract, the bridge between the chains, sponsored *)
(* operations, the scripts that keep entries and vaults alive and the       *)
(* screens of the readers.  They share no state: each behaviour is one of a *)
(* single part, and the others keep their first state.                      *)
EXTENDS EventLogs, VaultViews, StellarStore, SorobanCalls, CrossChain, GasSponsorship, Upkeep,
        ReaderScreen, SorobanVault

VARIABLE part

Parts ==
    {"logs", "views", "store", "unlock", "soroban", "revocations", "approvals", "beats",
     "identities", "gas", "ttl", "keepers", "reader", "access", "tokens", "release", "upgrade"}

ChainsInit ==
    /\ part \in Parts
    /\ LogsInit /\ ViewsInit /\ StoreInit /\ SorobanInit /\ CrossInit /\ GasInit
    /\ UpkeepInit /\ ReaderInit /\ SorobanVaultInit
    /\ part # "logs" => deploy = CHOOSE b \in DeployBlocks : TRUE
    /\ part \notin {"store", "unlock"} => connected = CHOOSE u \in Users : TRUE
    /\ part # "soroban" => freighter = CHOOSE a \in SorobanAccounts : TRUE
    /\ part # "reader" => /\ reader = CHOOSE a \in Readers : TRUE
                          /\ page = "access" /\ tabKeys = {}
                          /\ rights = [p \in Readers \X ReaderDocs |-> "none"]
    /\ part # "ttl" => live = [e \in Entries |-> TtlThreshold]

LogsStep ==
    /\ part = "logs" /\ LogsNext
    /\ UNCHANGED <<part, viewVars, storeVars, sorobanVars, crossVars, gasVars, upkeepVars,
                   readerVars, sorobanVaultVars>>
ViewsStep ==
    /\ part = "views" /\ ViewsNext
    /\ UNCHANGED <<part, logVars, storeVars, sorobanVars, crossVars, gasVars, upkeepVars,
                   readerVars, sorobanVaultVars>>
StoreStep ==
    /\ \/ part = "store" /\ StoreNext
       \/ part = "unlock" /\ UnlockNext
    /\ UNCHANGED <<part, logVars, viewVars, sorobanVars, crossVars, gasVars, upkeepVars,
                   readerVars, sorobanVaultVars>>
SorobanStep ==
    /\ part = "soroban" /\ SorobanNext
    /\ UNCHANGED <<part, logVars, viewVars, storeVars, crossVars, gasVars, upkeepVars,
                   readerVars, sorobanVaultVars>>
CrossStep ==
    /\ \/ part = "revocations" /\ RelayNext
       \/ part = "approvals" /\ ApprovalNext
       \/ part = "beats" /\ BeatNext
       \/ part = "identities" /\ IdentityNext
    /\ UNCHANGED <<part, logVars, viewVars, storeVars, sorobanVars, gasVars, upkeepVars,
                   readerVars, sorobanVaultVars>>
GasStep ==
    /\ part = "gas" /\ GasNext
    /\ UNCHANGED <<part, logVars, viewVars, storeVars, sorobanVars, crossVars, upkeepVars,
                   readerVars, sorobanVaultVars>>
UpkeepStep ==
    /\ \/ part = "ttl" /\ TtlNext
       \/ part = "keepers" /\ KeeperNext
    /\ UNCHANGED <<part, logVars, viewVars, storeVars, sorobanVars, crossVars, gasVars, readerVars,
                   sorobanVaultVars>>

ReaderStep ==
    /\ part = "reader" /\ ReaderNext
    /\ UNCHANGED <<part, logVars, viewVars, storeVars, sorobanVars, crossVars, gasVars, upkeepVars,
                   sorobanVaultVars>>

VaultStep ==
    /\ \/ part = "access" /\ AccessNext
       \/ part = "tokens" /\ TokensNext
       \/ part = "release" /\ ReleaseNext
       \/ part = "upgrade" /\ UpgradeNext
    /\ UNCHANGED <<part, logVars, viewVars, storeVars, sorobanVars, crossVars, gasVars, upkeepVars,
                   readerVars>>

ChainsNext ==
    \/ LogsStep \/ ViewsStep \/ StoreStep \/ SorobanStep \/ CrossStep
    \/ GasStep \/ UpkeepStep \/ ReaderStep \/ VaultStep

ChainsSpec ==
    /\ ChainsInit
    /\ [][ChainsNext]_<<part, logVars, viewVars, storeVars, sorobanVars, crossVars, gasVars,
                        upkeepVars, readerVars, sorobanVaultVars>>

\* The type invariants of the parts.
ChainsTypeOK ==
    /\ LogsTypeOK /\ ViewsTypeOK /\ StoreTypeOK /\ SorobanTypeOK
    /\ CrossTypeOK /\ GasTypeOK /\ UpkeepTypeOK /\ ReaderTypeOK /\ SorobanVaultTypeOK

(* Event logs are listed once each; the vaults, passes, approvals and       *)
(* activity shown are those the contract has (contract.service.ts); and a   *)
(* screen that shows what is no longer so opens no document and takes no    *)
(* key for an account that never had access (AccessCenter.tsx,              *)
(* Documents.tsx).                                                          *)
ViewsAreComplete ==
    /\ LogsListedOnce /\ OwnVaultsListed /\ PassesShownAreHeld /\ PendingAreActionable /\ ActivityIsNewest
    /\ ReadersHadAccess /\ UnpinsFollowRejection

(* What a Stellar call reports is what the ledger or the local store did    *)
(* (stellar.service.ts); and in the Soroban contract (lib.rs) every request *)
(* that is approved was decided by enough guardians, balances are the       *)
(* tokens held, emergencies wait and upgrades are agreed on.                *)
StellarIsTruthful ==
    /\ OutcomesAreTrue /\ ReturnedIdIsOwn /\ NoTwoWithOneSequence
    /\ ApprovedByGuardians /\ UnlockIsDelayed
    /\ ApprovalsDecide /\ TokensAreCounted /\ EmergenciesWait /\ UpgradesAreAgreed

\* Nothing that is relayed, drawn or decided a second time, late or out of
\* order, undoes what came after it (crossChainRelayer.service.ts, lib.rs).
RelaysNeverUndo ==
    /\ [](RevocationsAppliedInOrder /\ ApprovalRelayedOnce /\ IdentitiesRoundTrip)
    /\ HeartbeatsOnlyExtend /\ UnlockDrawnOnce
    /\ AccessComesFromDecisions /\ UnlocksStand

\* Sponsored operations stay within what was paid for, entries and vaults
\* within the time that was bought for them (SpooPaymaster.sol, the TTL and
\* keeper scripts).
BudgetsHold ==
    /\ DepositBacksBalances /\ OverdrawnOnlyByBundles /\ PaidByItsOwnVault /\ RateLimitHolds
    /\ part = "ttl" => EntriesKeptAlive
    /\ part = "keepers" => VaultsKeptAlive

=============================================================================
