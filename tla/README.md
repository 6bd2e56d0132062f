# ChainGuard: TLA+ verification project

ChainGuard is a document vault that survives its owner.  An owner creates a
vault, invites guardians, uploads encrypted documents and splits the document
key among the guardians; readers ask for access and guardians approve; release
conditions (any time, while alive, in an emergency, after death) gate requests.
The same vault exists twice, as Solidity contracts (`contracts/`) and as a
Soroban contract (`contracts-stellar/`), joined by identity registries, a
revocation bridge and off-chain relayers; a TypeScript client (`src/`) does the
cryptography, the key handling and the storage.

This directory holds TLA+ modules for the parts with state worth arguing about,
TLC configurations that check them on small instances, and TLAPS proofs.

## 1. Inventory

### Smart contracts, EVM (`contracts/`)

| Component | State | Operations | What is hard | What makes it correct |
|---|---|---|---|---|
| Guardian membership and governance (`SpooVault.sol`, `libraries/SpooVaultAdminLogic.sol`) | guardian array and mapping, threshold, invitations, removal and threshold proposals, votes | createVault, acceptGuardianInvite, propose/approve removal, propose/approve threshold, queue, cancel, execute | several proposals in flight against a changing guardian list; expiry and re-proposal; veto against timelock | list and mapping agree; a removed guardian stays out; nothing executes without votes, queue time and an unvetoed proposal |
| Access control (`SpooVault.sol`) | access tokens, per-vault token balances, access versions, documents, requests, grants, delegations, BLS keys | mint, burn, transfer, addDocument, requestAccess, five ways to approve, revokeAccess, revokeDelegation | grants invalidated lazily by versions; requests that outlive tokens, guardians and thresholds | an active reader holds a token and a grant of the current version; one open request per reader and document; approvals are distinct guardians |
| Proof of life and release (`SpooVault.sol`) | release state, block timestamp ring buffer, keeper authorisation | configureVaultRelease, proveLife, authorizeKeeperBySig, revokeKeeper, proveLifeByKeeper, setEmergencyMode | ring wraparound, median of noisy samples, replayed signatures | post-death release only after the inactivity period; the ring holds the latest samples |
| Emergency unlock delay (`libraries/EmergencyVrfLogic.sol`) | VRF configuration, request ids per vault, unlock time and block, epoch | configureVrf, setEmergencyMode, rawFulfillRandomWords, setEmergencyJitterWindow | late, duplicate and unknown randomness callbacks; coordinator rotation | an emergency document opens only after the delay derived for this emergency |
| Proactive share refresh (`libraries/SpooVaultAdminLogic.sol`) | reshare session, epoch, submissions, encrypted shares | startShareRefresh, submitZeroShareCommitment, applyShareRefresh, setDocumentVSSCommitments | guardians join and leave during a session; deadlines | an epoch ends only when every guardian contributed; shares and epoch move together |
| Paymaster, ZK verifier, VDF verifier, identity registry, ERC-6551 account, Axelar bridge | deposits and sponsorship counters, roots and nullifiers, linked identities, token-bound accounts, processed messages | see the sources | replay, budget limits, ordering of cross-chain messages | each message, proof or signature is used once |
| BLS, Ed25519, FHE, StrKey libraries | none | pure functions | arithmetic | out of TLC's reach except for their control flow |

### Smart contract, Soroban (`contracts-stellar/src/`)

`lib.rs` repeats vaults, guardians, documents and requests with ledger
sequence numbers for time, adds upgrade governance, storage TTLs and
cross-chain revocation; `identity_registry.rs` links accounts; `zk_verifier.rs`,
`bls.rs` and `threshold_sig.rs` are cryptography around small state.

### Off-chain services

The notification relayer (`relayer/`: listeners, queue, notifier, guardian
resolver; modelled), the Soroban TTL relayer, event gateway, Pinata and push proxies and
keeper relays (`scripts/`).  Hard here: crash and restart between reading an
event and delivering its notification, retry with backoff, duplicate delivery,
rate limits and queues at their bounds.

### Client (`src/`)

Key handling (`features/auth/services`: keyring, session lock, key rotation, key
inbox, envelope garbage collection), chain access
(`features/blockchain/services`: contract and Stellar services, event indexer
and watcher, user operations, cross-chain relayer), storage
(`features/documents/services`: erasure coding, gateways with failover),
cryptography (`core/crypto`: secret sharing, proactive resharing, streaming
encryption, worker pool) and React UI.  Hard here: callbacks that arrive after
the session is locked or the account changed, worker pools at their limit,
failover among providers, caches that go stale.

## 2. Plan

Done, in this order (most important behaviour first):

1. `GuardianSet`, `GuardianGovernance`: who may decide anything at all.
2. `EmergencyVrf`, `ProofOfLife`: when documents open.
3. `ShareRefresh` over `GuardianSet`: the key material of the guardians.
4. `AccessGrants`, `AccessPasses`, then `AccessRequests` over `GuardianSet` and
   `AccessGrants`: who may read.
5. `RelayQueue`, `NotificationRelay`: the off-chain path from a request to the
   guardians.
6. The client: `ContractClient`, `EventLogs`, `VaultViews`, `WalletSession`,
   `StellarStore`, `SorobanCalls`, `EventIndex`, `ReaderScreen`, `UploadScreen`.
7. Keys and bytes: `KeyCustody`, `KeyRotation`, `KeyInbox`, `SecretSharing`,
   `ErasureCode` over `Galois256`, `StreamCipher`, `TimeLock`, `DocumentBackup`,
   `GatewayPool`, `CryptoWorkers`.
8. Between the chains and around them: `CrossChain`, `GasSponsorship`, `Upkeep`.
9. `SorobanVault`: the vault on the other chain, with rules of its own for
   approval, release and upgrades.

10. Proofs (section 5): every safety property of every passing run but
    `SecretsComeBack`, whose arithmetic is out of the prover's reach.

Left: the parts listed in section 7.

## 3. Modules and the code

Contracts run one call at a time, and a call that reverts changes nothing.  So
an action is one whole external call with everything it calls, its guard the
conjunction of the checks that do not revert, and the interleaving is that of
the callers.  `block.timestamp` and `block.number` move in actions of their own
(`Tick`, `NewBlock`); 0 stands for "not set" where the code uses 0 so.  All
mappings are keyed by the vault, so a module is about one vault unless two of
them can meet (`EmergencyVrf`).

| Module | Code | State | Actions |
|---|---|---|---|
| `GuardianGovernance` | `SpooVault.createVault`, `acceptGuardianInvite`; `SpooVaultAdminLogic` lines 105-363 and 469-487 | guardian array, `isGuardian`, threshold, invitations, two maps of proposals and two of votes | `CreateVault`, `AcceptGuardianInvite`, `ProposeGuardianRemoval`, `ApproveGuardianRemoval`, `ProposeThresholdUpdate`, `ApproveThresholdUpdate`, `QueueVaultReconfiguration`, `CancelVaultReconfiguration`, `ExecuteVaultReconfiguration`, `Tick` |
| `GuardianSet` | abstract: what governance promises | invited, members, former, threshold | `Found`, `Join`, `Reconfigure` |
| `EmergencyVrf` | `EmergencyVrfLogic.sol`; `setEmergencyMode`, `configureVrf`, `setEmergencyJitterWindow` | request maps, epochs, unlock times and blocks, coordinator; history of requests | one per call, `Fulfil` for the coordinator's callback (any coordinator, any id, any word, any number of times) |
| `ProofOfLife` | `SpooVault` lines 753-924, 2203-2213 | release state, timestamp ring (head, count), keeper authorisation and nonces; signatures in circulation | one per call, `SignAuthorization` for the owner's wallet |
| `ShareRefresh` | `startShareRefresh`, `submitZeroShareCommitment`, `_applyShareRefresh`, `setDocumentVSSCommitments` | session, epoch, submissions, shares and commitments by the epoch they belong to | one per call; `Governance` is a step of `GuardianSet` |
| `AccessPasses` | `_update`, `mintAccessToken`, `burnAccessToken`, ERC-721 transfer, `_grantAccess`, `_hasActiveAccess`, `revokeAccess` | token owners, balances, supply, versions, grants with their versions, revocation nonces | one per call |
| `AccessGrants` | abstract: what passes and versions promise | standing grants, holders | `Receive`, `GiveUp`, `HandOver`, `Grant`, `Revoke` |
| `AccessRequests` | `requestAccess`, `approveAccess` and its encrypted, FHE, delegated and BLS forms, key and delegation calls | requests with approvals, keys, delegations | one per call; `Governance`, `Passes` and `RevokeAccess` are steps of `GuardianSet` and `AccessGrants` |
| `RelayQueue` | `relayer/queue.ts` | jobs, finished and dead ids, the job in flight, the journal | `Enqueue`, `Pump`, `BackoffEnds`, `Succeed`, `Fail`, `Halt`, `Load` |
| `NotificationRelay` | `relayer/main.ts`, `listeners.ts`, `guardianResolver.ts`, `notifier.ts` over `RelayQueue` | chain logs, cursors, seen events, events being resolved, jobs being queued | `Emit`, `Start`, `Crash`, `Stop`, `Exit`, `Poll`, `Resolve`, `ResolveFails`, `EnqueueNext`, `Pump`, `Deliver`, `DeliverAndCrash`, `DeliveryFails` |
| `ContractClient` | `contract.service.ts`: writes, receipts, offline queue, `TtlCache` | what the chain has, what each endpoint has seen, cache entries, fetches in flight, intents | read hit, read miss, answer, settle; send, mine, wait for a receipt at each endpoint, queue, replay; another account's write |
| `EventLogs` | `getEventLogs` with its persisted window | chain head, heads of the endpoints, stored prefix, queries in flight | block mined, endpoint catches up, query begins, answers, fails |
| `VaultViews` | the lists built from logs and view calls | vaults, documents, passes, requests, log, cached vaults | the contract's calls; what the pages compute is defined on the state |
| `WalletSession` | `Web3Context.tsx`, the account watcher of `stellar.service.ts` | session, wallet, checks in flight, retry timer, suppression flag | connect, disconnect, wallet events, timers, each await of a check |
| `EventIndex` | `sorobanEventIndexer`, `sorobanEventWatcher`, `soroban-event-gateway.mjs` | ledgers, stored events, cursor in memory and in IndexedDB, polling loops, socket | start, stop, poll, fetched, put, failure, socket message and reconnection |
| `GatewayPool` | both IPFS gateway clients | circuits, backoff, requests per download | one per answer, failure, probe and download |
| `CryptoWorkers` | worker pool, Argon2 worker, both workers | pending requests, workers, messages each way | post, handle, respond, crash, terminate, run inline |
| `StellarStore` | local store of `stellar.service.ts` | vaults, requests, emergency schedule, connected account | one per service call |
| `SorobanCalls` | `executeSorobanCall` | calls with their stage, ledger sequence number, wire | simulate, sign, submit, apply, drop, poll, give up |
| `SorobanVault` | `contracts-stellar/src/lib.rs`, `threshold_sig.rs`, for one vault | ledger time and sequence, guardians and invitations, documents, requests and approvals, tokens and balances, release state and emergency schedule, admins and proposal | one per entry point, under its name |
| `CrossChain` | relayer, heartbeat and identity services; the receiving calls of `lib.rs` | messages, nonces, replay tables in memory, both clocks, links | sign, relay, arrive (again, late), restart, register |
| `GasSponsorship` | `SpooPaymaster.sol`, `userOp.service.ts` | balances, deposit, rate windows, operations of a bundle | deposit, withdraw, validate, execute and charge, window passes |
| `Upkeep` | TTL relayer, both keeper scripts | lifetimes, cycles in flight, sequence number, last proof of life | scan, submit a batch, retry, tick; heartbeat run |
| `DocumentBackup` | `storageProvider`, `ipfs` services, `pinata-proxy.mjs` and its guard | copies, references, reads in flight, used signatures | pin, back up, anchor, lose, fetch from each provider in turn, sign and send |
| `Galois256`, `ErasureCode` | `erasureCoding.service.ts` | payload, shards, nodes, what was fetched | pin shard, fetch shard, rebuild, audit |
| `SecretSharing` | `secrets.service.ts`, `proactiveSecretSharing.ts` | polynomial, shares, commitments, zero polynomials | generate a zero polynomial, apply the refresh |
| `StreamCipher` | `streamingCrypto.service.ts` | file, frames on the wire, where the connection ends, what arrived and is buffered, accepted plaintext | encrypt a piece, flush; peek, deliver a piece of any length, parse header and frame, end of the body |
| `TimeLock` | `vdf.ts`, `VDFVerifier.sol` | modulus, digests, lockbox, damage, outcome | seal, alter, open |
| `KeyCustody` | keyring, OPAQUE client and server, session lock, passkeys | record, cached key, tasks with their stage, credential, tokens, attempts | generate, save, unlock, delete, lock, close, restart; each await of a task |
| `KeyRotation` | `keyRotation.service.ts` | keys and revocations per chain, envelopes, stage of the rotation | begin, re-encrypt, revoke, register, save, fail |
| `KeyInbox` | `keyInbox`, `keyEnvelopeGC` services | pins, requests, page being read, what was listed | send, list a page, unpin, file and decide requests |
| `UploadScreen` | `handleUpload` and the key dialog of `Documents.tsx` | job with its stage, pinned and mirrored files, chain, drafts, guardians' keys | one per await, abort, closed tab |
| `ReaderScreen` | `AccessCenter.tsx`, the rows of `Documents.tsx` | account, rows shown, loads, inbox fetch and opening in flight, keys of the tab | one per await and per handler, change of account |

The composition goes through the abstract specifications: `ShareRefresh` and
`AccessRequests` take membership changes as arbitrary steps of `GuardianSet`,
and `AccessRequests` takes passes and revocations as arbitrary steps of
`AccessGrants`.  What they show therefore holds for everything
`GuardianGovernance` and `AccessPasses` do, since those implement the two.

Data is abstracted to what the properties tell apart: a share is the epoch it
belongs to, a signature is the record that was signed, a random word is a
number, a document is a name, an event is its chain and position, a job is an
event and a guardian, and a job's time is "due" or "waiting".  Ciphertext is
counted in bytes, a key is a number, a hash is a value drawn once.  Only
where the arithmetic is the point is it kept: GF(256) with the code's own
tables in `Galois256`, a field of five elements in `SecretSharing`, moduli of
two small primes in `TimeLock`.

In the relayer one Node.js process interleaves callbacks; only awaits separate
steps.  An action runs from one await to the next: `Pump` ends where the handler
is awaited and `Succeed` or `Fail` begin where it returns, so `Enqueue` may come
between, and the index and the job object that the code keeps across the await
are kept in `inFlight`.  The browser modules follow the same rule: a variable
holds every call in flight with what it read before its await, and any other
handler may run in between.  The loop that queues the jobs of an event has no await,
so no other callback runs while `building` is not empty, but a crash may.

## 4. Runs

Components that meet are composed through shared state or an abstract
specification, as above.  Components that do not meet are checked side by side
in one run: `MCServices`, `MCChains`, `MCDocuments` and `MCRelease` choose in
the initial state which part a behaviour is about and leave the others at their
first state, so that the state space is the sum and not the product of the
parts.  The properties of such a run are conjunctions of the parts' properties,
each defined and explained in its own module.

Passing runs:

| Run | Bounds | Shows |
|---|---|---|
| `governance` | two accounts, both removable, threshold proposal 2, time to 3, proposals and invitations live 2, timelock 1 | array and mapping agree, removed guardians stay out, votes are honest and nothing executes undecided (`VotesDecide`), and the whole implements `GuardianSet` |
| `release` | two vaults, two coordinators that are swapped at any time, two requests, time and blocks to 3; for proofs of life one vault, two keepers, ring of four, five samples, blocks with 0, 1 and 2 seconds between them | request maps agree, no emergency opens before its own delay, a schedule is set once, a vault does not wait for ever; the ring holds the latest samples across the wrap, the median is central and not 0, keepers have consent, no call unlocks a vault |
| `passes` | two accounts, two documents, two tokens, versions to 2 | counters match owners, versions bound grants, and the whole implements `AccessGrants` |
| `requests` | three accounts, two requests, up to three key or delegation events (one once there are two requests), time to 2 | one live request per reader and document; approvals are distinct guardians whichever way they come and reach the threshold of the moment; grants come from approved requests of holders |
| `relay` | one guardian, two blocks or events on two chains, sweeps of 1, two attempts, one finished id remembered, one crash or stop, two failed writes | one record per job, the journal loses nothing, no guardian is told twice without a fault, sweeps leave no gap, and jobs are settled while the process stays up |
| `services` | one own and one foreign write, two wallets and three user actions, two ledgers (three for the watcher), two starts and two failed polls, two gateways and downloads, a pool of two with two calls and one crash | cached values are stale only by overlap, a reported write was mined, a repeated write means a lost one; cursors skip nothing, a quiet session shows the wallet's account; a failed download tried every gateway; and reads, connections, events, downloads and derivations come to an end |
| `chains` | three blocks, four contract events, two users and accounts, nonces to 3 with two restarts, two approvals and beats, two sponsored vaults with three operations, three entries of which two are scanned, two vaults with deadlines, two readers with two loads, clicks and a decision; one Soroban vault of three accounts with two requests for a document by one reader, two tokens, two emergencies in four ledgers, four votes on two hashes | logs are listed once, lists are complete, a screen of a former account opens nothing for it; Soroban calls report what the ledger did; in the Soroban vault requests are decided by enough distinct guardians or signatures, access comes from no old decision, balances are the tokens held, emergencies wait and upgrades are agreed on; nothing relayed twice or late undoes what came after; budgets, rate limits and lifetimes hold |
| `documents` | three accounts and two refreshes; threshold 2 of 3 over five elements; two data and two parity shards of up to three bytes; files up to four bytes in pieces of one to three; one loss, one backup; two PINs, keys and tasks; two rotations with two faults; two pins on pages of one; two uploads by two guardians with two versions of their keys | an uploaded document is recoverable whatever interrupted the upload, a copy still there is found and a stream is accepted only whole (`DocumentsAreWhole`); threshold shares recover the key, shards rebuild the payload, locks open with an honest proof (`SecretsComeBack`); submissions are counted and shares current, PIN, keys and envelopes stay usable (`KeysStayUsable`) |

Runs in which TLC finds the stated property violated (each is listed under
`findings` with the line it quotes):

| Run | Shows |
|---|---|
| `governance_last` | `CannotRemoveOnlyGuardian` is checked when a removal is proposed, not when it is executed: two removals queued together empty the vault |
| `emergency_disabled` | `setEmergencyMode` without a coordinator leaves the schedule of the previous emergency behind; it counts again when a coordinator is configured |
| `passes_revoke` | the first bump of a version that never started moves 0 to 1, which 0 is read as, so the other grants of an uploader without a pass survive a revocation |
| `stream_split` | the decryptor reads a frame's length from the first buffered chunk alone; an intact stream cut inside a length field is rejected |

Every passing property has a mutant, an operator next to the definition it
changes (`RemoveGuardian_PopOnly` beside `RemoveGuardian`), under which TLC finds
it violated.

Many properties say what holds in spite of a weakness of the code, and name the
weakness as their exception: `StaleOnlyByOverlap` allows the one overlap that
puts an old value back, `CursorSkipsNothing` the event whose write the store
refused, `OverdrawnOnlyByBundles` the operations validated together,
`RotationSettlesEverywhere` the rotation that was reported as failed.  The
exceptions are collected in section 6.

### Bounds

Each bound is the least at which the hard case happens.  Two guardians are
enough for concurrent proposals, a veto race and the last-guardian case; time to
3 with a timelock of 1 and a lifetime of 2 lets a proposal expire and be made
again.  Two coordinators and two vaults are needed for a crossed and for a late
callback.  Five samples wrap a ring of four.  Three accounts give a session with
a contributor that leaves, one that joins and one that stays.  Two tokens and
two documents give a self-transfer, the loss of the last and of the last but one
pass, and a revocation with another grant standing.  In `relay` one finished id
remembered makes the memory overflow at the second job, and two failed writes
cover a failure before and after a restart; with one guardian an event has one
job, so a crash within the loop over several jobs is reached only by the proof.

In `services` two starts give two polling loops at once, and a threshold of one
failure opens a circuit while another download still waits for the same gateway.
In `chains` nonces to 3 give a message between two others, two calls share one
sequence number, and three operations against a limit of two in a window of two
meet the limit and its reset; a cycle as long as the interval overlaps with the
next.  With at most four events on file, a scan of one, a pending list of one and
two events of each kind, every list of `VaultViews` is once cut off and once
complete.  In the Soroban vault two open requests of one reader are what a revocation can
fall between, one ledger lets invitations, requests and the owner's silence
expire, and four ledgers are a request, its confirmation and the whole delay of
a second emergency.  In `documents` frames of two bytes with a length field of two make every
cut of header, length and frame happen; two data and two parity shards have all
six ways to rebuild; pages of one row and two pins make rows move between pages.
Payload bytes are drawn from a sample of two (7 and 200); the arithmetic is
linear, so what matters is the set of shards that arrived, which is exhaustive.

Symmetry is used where the accounts are interchangeable and no liveness property
is checked (`governance`, `documents`).  Deadlock is not checked
anywhere: time, requests, tokens or logs reach their bound and nothing need
happen to a vault.

### Fairness

The contracts promise nothing by themselves: somebody must call.  Fairness
appears in three runs.  `release`: `WF(Fulfil)`, the oracle's promise that a
coordinator answers; the deployer's rotation is not assumed to stop, hence the
escape `Orphaned` in `RequestsAreAnswered`.  `NotificationRelay`: weak fairness
of the loop that queues jobs, of `Pump` (a timer re-armed after every tick), of
the end of a backoff (the clock), and of `Deliver \/ DeliveryFails` (every
request to a channel carries a timeout).  Nothing is assumed about restarts,
listeners, the registry of contacts or which of success and failure happens, so
`JobsAreSettled` promises a job an end only while the process is up and not
stopping.

`services` states fairness part by part.  The browser runs queued messages,
timers fire and awaited wallet, IndexedDB and network calls return one way or
the other (weak fairness of the disjunction, so success is not assumed).  Every
gateway request carries a timeout.  Only the contract client needs strong
fairness: a page reads again and again, and `ReadsCatchUp` is about the case in
which endpoints that fail now and then do not fail every time.  Nothing is
assumed about users, other accounts, crashes or the order of answers.

## 5. Proofs

Eight modules hold proofs, each for every value of the constants that satisfies
the named assumptions of the modules it is about.  The assumptions say that
bounds are naturals, that limits and intervals the code divides by or counts
with are positive, that sets of accounts are finite and that markers such as
`Nobody` are not accounts.  Every inductive invariant below was checked by TLC
with the constants of its run before it was proved.

**`GuardianGovernanceProofs`** (`GovernanceAssumptions`): `TypeCorrect`,
`ListConsistent`, `RemovalIsFinal`, `VotesCorrect`,
`VaultImplementsGuardianSet`.  List and mapping are not inductive by
themselves: `_removeGuardian` searches the array for the account, so one must
know that an open removal is about a current guardian; a removed guardian stays
out only because its invitation was consumed; and both need that nothing is on
file before `createVault`.  `MembershipInv` adds these three facts
(`OpenRemovalsAreOfGuardians`, `InvitesSpent`, `NothingBeforeVault`).  The
swap-and-pop is treated by lemmas of its own: it keeps the array free of
repetitions and removes exactly the account in question.  `VotingInv` says of
every proposal that its list of approvals repeats nobody, that those on it have
voted and are or were guardians, and that it was created, queued and executed in
that order with the timelock between; with `MembershipInv` it gives
`GovernanceInv` of `GuardianGovernance` and so `VotesDecide`.  For the
refinement, accepting an invitation is a `Join`, an execution a `Reconfigure`
and every other call a stutter; `GovernanceInv` excludes that an execution
brings back a former guardian or sets the threshold to 0.

**`ReleaseProofs`** (`EmergencyAssumptions`,
`NoVaultAssumption`, `LifeAssumptions`): for the emergency delay
`RequestMapsCorrect`, `FulfilledOnce`, `DelayCorrect`, and for the proof of life
`RingCorrect`, `ConsentCorrect`, `DelaysCorrect`.  `EmergencyInv` joins the maps
with the facts that a drawn schedule has a request, that the mode was switched on
in the past and that only coordinators issue requests; `DelayInv` counts every
schedule from the last switching on.  `DelayCorrect` has the hypothesis
`NoCoordinator \notin Configurable`, that `configureVrf` is never given
`address(0)`; the run `emergency_disabled` shows that without it the property is
false.  `LifeInv` reads the ring backwards from its head: going back `j` places,
modulo its size, finds the `j`-th latest sample, which is what
`getMedianBlockInterval` relies on after the ring has wrapped.  `LifeCorrect` is
the whole of `LifeIsRecorded` and `ReleaseTyped` all of `ReleaseTypeOK`.  What the
insertion sort of the intervals computes is shown without the library's
induction, by a least counterexample over its equation (`SortEquation`): the
output is in order, and every place of the input has a place of its own in the
output with the same value.  Hence at most half of the intervals lie on either
side of the middle one, which is `MedianIsCentral`.  `OrderInv` adds that samples
are in the order of their times, so that intervals are naturals.

**`AccessPassesProofs`** (`PassAssumptions`): `TypeCorrect`,
`CountersCorrect`, `VersionsCorrect`, `VersionsImplementGrants`.  `PassInv` is
type correctness with the two invariants; the counters are about cardinalities,
so the lemmas say by how much a mint, a transfer (to oneself too) and a burn
change the number of tokens of an account.  For the refinement every action is
matched with a step of `AccessGrants`: `VersionsBound` is what makes a bump
leave all grants behind for a holder, and what lets a bump from 0 keep some for
an account without a pass, which is exactly what `Revoke` allows.

**`AccessRequestsProofs`** (`RequestAssumptions`): `TypeCorrect`, `OneLive`,
`ApprovalsCorrect`, `GrantsCorrect`, `DecisionsCorrect`.  `RequestInv` has four
parts.  `RecordsInv` is the one the rest hangs on: ids above the counter are
free, a request is about a document that exists, its approvals are distinct
present or former guardians other than the requester, and a live request is the
latest of its account and document.  `OneLiveRequest` alone is not inductive,
since an expired request stays on file as pending.  `GuardiansInv`, `KeysInv` and
`GrantsInv` hold the abstract steps of `GuardianSet` and `AccessGrants` to what
the requests assume of them.

**`NotificationRelayProofs`** (`RelayAssumptions`): `TypeCorrect`,
`RecordsCorrect`, `JournalDurable`, `SweepsCorrect`, `OnceCorrect`.  `RelayInv`
says of memory and journal alike that a job is in one place, that the index of a
running handler names its job, and that while the process runs every journaled
job is in memory or settled (delivered or dead-lettered).  The last part is what
a failed write could break: the journal is then older than memory, and it is
replaced only by a memory that still holds every job it had, except settled
ones.  `StepSafe` proves for each action both the invariant and that the journal
loses nothing, so that the action property follows from the same lemma.
`SweepInv` adds that cursors do not run ahead of the logs.  `OnceInv` says that
until a crash, a failed write or more deliveries than are remembered, the journal
lists exactly what was delivered and memory agrees with it.

**`ServicesProofs`** (the assumptions of the services): `ClientCorrect`,
`FollowersCorrect`, `DownloadsCorrect`, `ServicesTyped`.  The services share no
state, so `ServicesInv` is one invariant per service.  For writes, `Accounted`
counts the transactions of a write that took effect or still may; for reads,
`Current` bounds what a call that no clear overtook may have seen.
`FollowsWallet` says what the checks in flight have read while none overlapped
and none failed.  `Covered` says that a known event before a cursor is stored or
in the batch a loop is writing; only with it is the persisted cursor inductive,
since the cursor in memory moves first.  Least and largest elements of sets of
ledgers come from the least-number principle of `NaturalsInduction`.

**`ChainsProofs`** (the assumptions of the modules of `MCChains`):
`RelaysCorrect`, `BudgetsCorrect`, `StellarCorrect`, `ViewsCorrect`,
`ChainsTyped`.  `ChainsInv` is one invariant per part.

- `CrossInv`: the nonces Stellar applied are none above its own; a message the
  relayer's memory does not hold was relayed at most once per restart; whatever a
  heartbeat was sent for was recorded on the EVM no later; bindings are one to
  one.
- `GasInv`: the deposit backs the balances, whose sum is a fold.  `SumChanges`
  says how a sum follows one of its terms; it is proved by a least counterexample,
  because the library's induction is out of the provers' reach.  `PledgeInv` says
  that until two operations of a bundle had one sponsor, each still to run has a
  sponsor of its own who can pay.  `RateKept` counts the operations inside the
  running window and in the span before it, from which no span of one window holds
  more than two windows' worth.
- `TtlInv`: for every ledger `t` up to the start of the newest cycle, an entry
  that was not given up lives over the threshold counted from `t`, or the first
  cycle that began at `t` or later is still going to see to it.  The statement for
  all `t`, not only for the newest cycle, is what overlapping cycles need: a
  younger one may finish before an older one.  `KeeperInv` is the same for vaults
  and runs.
- `ScheduleInv`, `LifeInv`, `PaperInv`: drawn delays, signs of life of the past,
  and the form of requests, from which the action properties of the local store
  and of the Soroban contract follow.
- `CallsInv`: what each stage of a Soroban call says about the ledger and the
  sequence numbers taken, from which a reported outcome is the call's own.
- `StoreInv`, `VoteInv`: the guardians recorded as having approved a request are
  exactly those in `approved_by`, each once, and a decided request met its
  threshold or spent a nonce of its own; `NonceInv` counts those.
- `WaitInv`, `TokenInv`, `UpgradeInv`: what was drawn for an emergency counts from
  its last switching on, in ledgers after the confirmations; either balance of an
  account is the number of tokens it holds, also when a token is passed to
  oneself; the approvals of the open upgrade are the last votes cast, in a row.
- `LogsInv`: the chunks a query asks for are a division of its range with
  remainder, so every block is in exactly one; the cached list is right on the
  range it claims to know.
- `ViewsInv`: log and records agree.  Ids are numbered without gaps, creator and
  guardians of a vault are in the log, a request's rank among the requests is the
  number of later ones, and a vault cached without the account is one it does not
  guard.  The lists
  on the pages are the newest `n` of a set of places; `NewestFit`, `NewestFull`
  and `NewestOrFull` say when such a list is complete, and from them the union of
  the newest of each kind contains the newest of all.
- `ReaderInv`: a cached yes was true once, a row shown as rejected was rejected for
  somebody, and a handler past its check acts for an account that had access.
- `UpkeepInv`: a cycle extends only what it scanned, within its attempts, and a
  keeper run is at one vault it has still to do; with the invariants above it gives
  the types.

**`DocumentsProofs`** (the assumptions of the modules of `MCDocuments`):
`DocumentsTyped`, `DocumentsWhole`, `KeysCorrect`, all from `PartsCorrect`.
`PartsInv` is one invariant per part.  `KeysCorrect` has the hypothesis
`ClientShares`: `addDocument` is given shares of guardians only, and
`applyShareRefresh` no empty ones.  That is what the client passes and what the run
`documents` takes; without it `SharesAreCurrent` is false (section 6).  The other
theorems do not need it.

- `RefreshInv`: accounts go from invited to member to former and never back, the
  counter of submissions is the number of those on file, and only the coming epoch
  has any.  `SharesInv` adds that shares are on file for guardians and former ones
  alone.  Joining needs both: whoever joins was never a guardian, so has no share
  to go stale.
- `CustodyInv`: while nothing overlapped, one operation at most is under way, and
  the stored envelope opens with the server's credential except between the
  server's answer and the write of the record; there the operation itself carries
  what the server has (`PinInv`).  After a quiet lock no task and no key is left
  (`LockInv`).
- `RotInv`: a call still on its way to a chain would revoke the key the keyring
  holds before the rotation is done, or one that chain revoked already.  This is
  why late calls of a failed rotation do not disturb the next one.
- `InboxInv`: a row that was there when a listing began is found or lies behind the
  pages read.  Its place is the number of rows before it, which a new pin never
  lowers (`StillToCome`).  What the collector is after was dead when the requests
  were read, or is old (`CollectsDead`).
- `BackupInv`: whatever a download counts on is still with a provider it has to
  ask, under the reference it goes by; what carries a header was signed.
- `UploadInv`: keys read were registered since the upload began, the key of the
  upload under way is nowhere on chain or in the queue, and what is submitted is
  pinned.
- `StreamInv`: all frames are full until the last, which is not; what was handed on
  are the first frames, and a stream that ended has all of them.  A stream cut
  between two frames ends with a full frame, so it does not pass for the file.
  The size of a stream is the number of its bytes as a set, so that no induction
  over the frames is needed.

Only model-checked, and why:

- Liveness (`RequestsAreAnswered`, `JobsAreSettled`, `EverythingSettles`) is out
  of the prover's reach.
- `SecretsComeBack` is about what sums and products over a polynomial, a matrix
  over GF(256) or a chain of squarings compute: the definitions are folds and
  recursive functions, and every statement about their value is an induction over
  data.

## 6. Observations

Met while modelling, without a run of their own:

- `hasApprovedRemoval` outlives a veto and an expiry: those who voted once
  cannot vote for the removal when it is proposed again, which may then never
  reach its quorum.
- Votes and access approvals of guardians that were removed since still count.
- `MIN_POST_DEATH_BLOCK_DELTA` is declared and not used.
- `addDocument` accepts shares for accounts that are not guardians; such a share is
  stale when the account joins after a refresh (`OutsiderShares`).
- `applyShareRefresh` accepts an empty share and then leaves the commitment of the
  share before it on file (`BlankShares`).
- `setDocumentVSSCommitments` may replace the commitment of the secret itself.
- `relayer/main.ts` says that a resolution failure must not lose the event; the
  event is marked as seen before, and only a restart that replays it helps.
- The EVM listener without a start block begins at the head: requests filed
  while the relayer was down are not noticed.
- `SpooVaultAdminLogic.applyShareRefresh` has no caller.
- A refresh can be applied although a current guardian never submitted:
  `applyShareRefresh` compares numbers (`SpooVault.sol:1335`, against the comment
  at 1274), and a contributor that was removed stands in for it.

Contract client and Stellar client:

- `CONTRACT_ABI` lacks `hasVaultToken`, `registerGuardianBLSKey`,
  `getGuardianBLSKey` and `approveAccessBLS`, which the service calls.
- `waitForTransaction` resolves for a reverted transaction, and
  `isDelegationNonceRevoked` answers false on an RPC error.
- A read in flight while a write clears the cache puts the old value back;
  the comment of `burnAccessToken` (1025-1029) does not count on it, and
  `approveAccessBLS` clears nothing.
- `executeSorobanCall` returns the simulation's result: of two overlapping calls
  one may report the other's id unless the sequence number stops it.
- The polling account watcher misses a change and change back between polls.

Soroban contract:

- `configure_vault_release` does not renew the proof of life as the EVM contract
  does: shortening the period may release at once (the exception in
  `UnlocksStand`).
- `approve_access` lets a guardian approve its own request, which the BLS and
  FHE calls refuse; a reader may have several open requests for a document, so
  one decided after a revocation gives access again.
- The keys of `approve_access_threshold` are those of the caller's list and are
  not compared with the guardians, and `verify_threshold_signatures` lets anyone
  use up a nonce.
- The access version is bumped by a revocation and compared nowhere, and the
  threshold may exceed the guardians that accepted.

Event indexer:

- The cursor moves before the event is stored (`sorobanEventIndexer.service.ts`
  418): a refused write skips the event.
- A batch of events with unknown topics never moves the cursor.
- The failure counter is not reset by `start`, and a watcher that has seen no
  event restarts at the latest ledger.

Storage and gateways:

- `ipfsGateway.service.ts` counts an HTTP error twice (289, 301), and the
  winner's body is aborted by the signal it shares with the losers
  (`ipfsGateway.ts:392`).
- `uploadStream` sends no signature header, so the proxy refuses it; and
  `pinata-proxy.mjs` uses three functions of its guard without importing them.
- A newer reference without an anchor replaces an anchored one.
- `buildDefaultNodes` always includes the read-only `ipfs.io`, so the default
  nodes do not tolerate the two failures the documentation promises; and
  `verifyShards` blames healthy shards when a parity shard is corrupt.

Keys:

- Deleting a key pair without a token leaves the server's credential; an unlock
  in flight caches the key again after a lock.
- A rotation that failed half way is refused for ever when it is tried again,
  because the old key is revoked on one chain; documents rotated before may then
  not open.
- The collector's comment says "not active" (`keyEnvelopeGC.service.ts:236`);
  activity is not looked at.
- `CryptoWorkerService` posts to a worker whose second handler ignores the
  request (`crypto.worker.ts:158`): such calls never settle, `reencryptEnvelopeAsync`
  among them.  `argon2Worker.service.ts:36` names a file that is not there.
- A time lock sealed with another `challengeBits` than the default opens only
  when the two challenges happen to agree.

Screens:

- The offline draft stores the file itself, base64-encoded, where the comment
  (`Documents.tsx` 696-699) speaks of an encrypted payload; an abort during the
  offline route is accepted and the draft is queued all the same.
- A document whose receipt is lost has its key nowhere but in the guardians'
  shares.
- `Documents.tsx` (308) rejects the beneficiary packages it exports; only
  `AccessCenter.tsx` imports them.  `AccessCenter.decryptMetadata` does not
  unwrap what `Documents.tsx:681` writes.
- A late load of a former account replaces the rows, and the inbox handler
  unpins by requests as they were last loaded.
- The newest envelope of a document hides older ones, also when it cannot be read.

Scripts:

- Vaults and entries with ids above `maxEntries` are never scanned by the TTL
  relayer.

Paymaster:

- A limit of 0 set by `setRateLimits` still lets one operation per window
  through, because a new window starts its count at 1 without looking at the
  limit; the model takes the limits positive, as the defaults are.

## 7. Not modelled

- Of the Soroban contract: shares, ciphertexts and their FHE sums, which it
  stores and returns, the access registry it notifies, ZK nullifiers and
  `migrate`.  Entry lifetimes are in `Upkeep`, and the calls that receive from the
  other chain in `CrossChain`.
- Identity registries, Axelar bridge, token-bound accounts, ZK verifiers: each is
  a guarded assignment around cryptography, without a protocol of its own.
- Signature schemes, hashes, ciphers, curve, pairing and homomorphic arithmetic,
  the OPAQUE exchange, mnemonics, and the hash-chain time lock
  (`vdfTimelock.service.ts`): no state, and out of TLC's reach.
- `setRateLimits` of the paymaster, pinning of JSON and listing through the
  Pinata proxy, PIR decoys of the gateway client, conversions to and from ScVal.
- `services/offline/*` is used by the client and not part of the repository; it
  is modelled from its use, as an external queue.
- Gas, events' texts, token URIs, layout, analytics and landing pages, service
  worker, deployment and test tooling.
