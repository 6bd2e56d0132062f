------------------------------- MODULE CrossChain -------------------------------
(***************************************************************************)
(* What crosses from Avalanche to Stellar: approval and revocation         *)
(* messages through crossChainRelayer.service.ts, whose replay tables live *)
(* in memory; heartbeats signed and sent by crossChainHeartbeat.service.ts *)
(* and accepted by the Soroban contract; and identity.service.ts, which    *)
(* says which addresses belong together.                                   *)
(***************************************************************************)
EXTENDS Naturals, Sequences, FiniteSets

CONSTANTS
    MaxNonce,        \* bound on revocations of one grant
    MaxRestarts,     \* bound on restarts of the relayer
    Approvals,       \* nonces of the approval messages of one guardian
    ApprovalTtl,     \* DEFAULT_APPROVAL_MESSAGE_TTL_MS
    Slack,           \* seconds a heartbeat may be ahead of the ledger
    MaxBridgeTime,
    Beats,           \* heartbeats sent
    EvmAddrs, StellarAddrs

ASSUME CrossChainAssumptions ==
    {MaxNonce, MaxRestarts, ApprovalTtl, Slack, MaxBridgeTime} \cup Approvals \subseteq Nat

VARIABLES
    bridgeClock, restarts,
    issued,             \* revocation nonces signed on Avalanche
    lastRevocationNonce,\* in the relayer's memory
    relaying,           \* accepted messages whose relay call is awaited
    sorobanNonce, sorobanAccess, appliedNonces,
    approvalAt,         \* when each approval message was signed, or Unsigned
    processedHashes, lastApprovalNonce,   \* in the relayer's memory
    approvalRelays, lateRelay,
    beat, evmProof, lastProof, lastProofSequence,
    registry

Unsigned == 0

relayVars == <<restarts, issued, lastRevocationNonce, relaying, sorobanNonce, sorobanAccess,
               appliedNonces, approvalAt, processedHashes, lastApprovalNonce, approvalRelays, lateRelay>>
beatVars == <<beat, evmProof, lastProof, lastProofSequence>>
crossVars == <<bridgeClock, relayVars, beatVars, registry>>

CrossInit ==
    /\ bridgeClock = 1 /\ restarts = 0
    /\ issued = {} /\ lastRevocationNonce = 0 /\ relaying = {}
    /\ sorobanNonce = 0 /\ sorobanAccess = TRUE /\ appliedNonces = <<>>
    /\ approvalAt = [a \in Approvals |-> Unsigned] /\ processedHashes = {} /\ lastApprovalNonce = 0
    /\ approvalRelays = [a \in Approvals |-> 0] /\ lateRelay = FALSE
    /\ beat = [b \in Beats |-> [stage |-> "idle", at |-> 0]]
    /\ evmProof = 0 /\ lastProof = 0 /\ lastProofSequence = 0
    /\ registry = {}

BridgeTick ==
    /\ bridgeClock < MaxBridgeTime /\ bridgeClock' = bridgeClock + 1
    /\ UNCHANGED <<relayVars, beatVars, registry>>

--------------------------------------------------------------------------------
CrossRest == UNCHANGED <<bridgeClock, beatVars, registry>>

\* A guardian revokes on Avalanche and signs the broadcast.
IssueRevocation ==
    /\ Cardinality(issued) < MaxNonce /\ issued' = issued \cup {Cardinality(issued) + 1}
    /\ UNCHANGED <<restarts, lastRevocationNonce, relaying, sorobanNonce, sorobanAccess,
                   appliedNonces, approvalAt, processedHashes, lastApprovalNonce, approvalRelays, lateRelay>> /\ CrossRest

\* processRevocationBroadcast: a message may come twice and in any order; it is
\* remembered before it is relayed.
ProcessRevocation(n) ==
    /\ n \in issued /\ n > lastRevocationNonce
    /\ lastRevocationNonce' = n /\ relaying' = relaying \cup {n}
    /\ UNCHANGED <<restarts, issued, sorobanNonce, sorobanAccess, appliedNonces, approvalAt,
                   processedHashes, lastApprovalNonce, approvalRelays, lateRelay>> /\ CrossRest

Fresh(n) == n > sorobanNonce

\* relay_revoke_access
RelayRevocation(n) ==
    /\ n \in relaying /\ Fresh(n)
    /\ relaying' = relaying \ {n}
    /\ sorobanNonce' = n /\ sorobanAccess' = FALSE
    /\ appliedNonces' = Append(appliedNonces, n)
    /\ UNCHANGED <<restarts, issued, lastRevocationNonce, approvalAt, processedHashes, lastApprovalNonce,
                   approvalRelays, lateRelay>> /\ CrossRest

\* The call rejects; the relayer keeps no list of what it still has to send.
RelayFails(n) ==
    /\ n \in relaying /\ relaying' = relaying \ {n}
    /\ UNCHANGED <<restarts, issued, lastRevocationNonce, sorobanNonce, sorobanAccess,
                   appliedNonces, approvalAt, processedHashes, lastApprovalNonce, approvalRelays, lateRelay>> /\ CrossRest

\* Guardians approve the beneficiary again on Stellar.
GrantAgain ==
    /\ ~sorobanAccess /\ sorobanAccess' = TRUE
    /\ UNCHANGED <<restarts, issued, lastRevocationNonce, relaying, sorobanNonce,
                   appliedNonces, approvalAt, processedHashes, lastApprovalNonce, approvalRelays, lateRelay>> /\ CrossRest

RestartRelayer ==
    /\ restarts < MaxRestarts /\ restarts' = restarts + 1
    /\ lastRevocationNonce' = 0 /\ relaying' = {} /\ processedHashes' = {} /\ lastApprovalNonce' = 0
    /\ UNCHANGED <<issued, sorobanNonce, sorobanAccess, appliedNonces, approvalAt,
                   approvalRelays, lateRelay>> /\ CrossRest

SignApproval(a) ==
    /\ approvalAt[a] = Unsigned /\ approvalAt' = [approvalAt EXCEPT ![a] = bridgeClock]
    /\ UNCHANGED <<restarts, issued, lastRevocationNonce, relaying, sorobanNonce, sorobanAccess,
                   appliedNonces, processedHashes, lastApprovalNonce, approvalRelays, lateRelay>> /\ CrossRest

Expired(a) == bridgeClock > approvalAt[a] + ApprovalTtl

\* The hash is known, or the guardian's nonce is not higher than the last one.
Replayed(a) == a \in processedHashes \/ a <= lastApprovalNonce

\* processMessage and relayApprovalToSoroban of one message, delivered any number of times.
ProcessApproval(a) ==
    /\ approvalAt[a] # Unsigned /\ ~Expired(a) /\ ~Replayed(a)
    /\ processedHashes' = processedHashes \cup {a} /\ lastApprovalNonce' = a
    /\ approvalRelays' = [approvalRelays EXCEPT ![a] = @ + 1]
    /\ lateRelay' = (lateRelay \/ bridgeClock - approvalAt[a] > ApprovalTtl)
    /\ UNCHANGED <<restarts, issued, lastRevocationNonce, relaying, sorobanNonce, sorobanAccess,
                   appliedNonces, approvalAt>> /\ CrossRest

RelayNext ==
    \/ IssueRevocation \/ GrantAgain \/ RestartRelayer
    \/ \E n \in issued : ProcessRevocation(n) \/ RelayRevocation(n) \/ RelayFails(n)

ApprovalNext ==
    \/ \E a \in Approvals : SignApproval(a) \/ ProcessApproval(a)
    \/ RestartRelayer \/ BridgeTick

--------------------------------------------------------------------------------
\* synchronizeHeartbeat: the time is read and signed first, then recorded on
\* Avalanche, then sent to Stellar; a rejection ends it where it is.
Stage(b, from, to) == beat[b].stage = from /\ beat' = [beat EXCEPT ![b].stage = to]

SignBeat(b) ==
    /\ beat[b].stage = "idle"
    /\ beat' = [beat EXCEPT ![b] = [stage |-> "signed", at |-> bridgeClock]]
    /\ UNCHANGED <<bridgeClock, relayVars, evmProof, lastProof, lastProofSequence, registry>>

RecordBeat(b) ==
    /\ Stage(b, "signed", "recorded")
    /\ evmProof' = bridgeClock
    /\ UNCHANGED <<bridgeClock, relayVars, lastProof, lastProofSequence, registry>>

BeatFails(b) ==
    /\ Stage(b, "signed", "failed")
    /\ UNCHANGED <<bridgeClock, relayVars, evmProof, lastProof, lastProofSequence, registry>>

\* Mutant: an older heartbeat is taken.
Newer_Any(b) == TRUE
Newer(b) == beat[b].at > lastProof

Sendable(b) == beat[b].stage \in {"recorded", "synced"}

\* sync_proof_of_life: the signed time, with the sequence number of the arrival.
\* A transaction the client gave up on may arrive later, or never.
SyncBeat(b) ==
    /\ Sendable(b) /\ Newer(b) /\ beat[b].at <= bridgeClock + Slack
    /\ beat' = [beat EXCEPT ![b].stage = "synced"]
    /\ lastProof' = beat[b].at /\ lastProofSequence' = bridgeClock
    /\ UNCHANGED <<bridgeClock, relayVars, evmProof, registry>>

\* prove_life on Stellar itself.
ProveLife ==
    /\ lastProof < bridgeClock
    /\ lastProof' = bridgeClock /\ lastProofSequence' = bridgeClock
    /\ UNCHANGED <<bridgeClock, relayVars, beat, evmProof, registry>>

BeatNext ==
    \/ \E b \in Beats : SignBeat(b) \/ RecordBeat(b) \/ BeatFails(b) \/ SyncBeat(b)
    \/ ProveLife \/ BridgeTick

--------------------------------------------------------------------------------
\* registerIdentity
Conflicts(e, s) == \E b \in registry : (b.evm = e /\ b.stellar # s) \/ (b.stellar = s /\ b.evm # e)

RegisterIdentity(e, s) ==
    /\ ~Conflicts(e, s)
    /\ registry' = registry \cup {[evm |-> e, stellar |-> s]} /\ registry' # registry
    /\ UNCHANGED <<bridgeClock, relayVars, beatVars>>

\* Array.find returns one of the matches.
ResolveStellar(e) == {b.stellar : b \in {x \in registry : x.evm = e}}
ResolveEvm(s) == {b.evm : b \in {x \in registry : x.stellar = s}}

ClearIdentities == registry # {} /\ registry' = {} /\ UNCHANGED <<bridgeClock, relayVars, beatVars>>

IdentityNext ==
    \/ \E e \in EvmAddrs, s \in StellarAddrs : RegisterIdentity(e, s)
    \/ ClearIdentities

CrossSpec == CrossInit /\ [][RelayNext \/ ApprovalNext \/ BeatNext \/ IdentityNext]_crossVars

--------------------------------------------------------------------------------
\* Type invariant.
CrossTypeOK ==
    /\ relaying \subseteq issued /\ lastRevocationNonce \in 0 .. MaxNonce
    /\ lastProof <= bridgeClock + Slack /\ lastProofSequence <= bridgeClock
    /\ registry \subseteq [evm : EvmAddrs, stellar : StellarAddrs]

\* However often the relayer restarts and messages are repeated, Stellar applies a
\* revocation once, and never an older one after a newer one, which could undo a
\* grant made since.
RevocationsAppliedInOrder ==
    \A i, j \in DOMAIN appliedNonces : i < j => appliedNonces[i] < appliedNonces[j]

\* One lifetime of the relayer relays an approval message once, and none does after
\* the message has expired.
ApprovalRelayedOnce == ~lateRelay /\ \A a \in Approvals : approvalRelays[a] <= restarts + 1

\* A heartbeat Stellar accepts is one Avalanche has recorded, and never one older
\* than what Stellar already has: neither of its two clocks runs back.
HeartbeatsOnlyExtend ==
    [][/\ lastProof' >= lastProof /\ lastProofSequence' >= lastProofSequence
       /\ \A b \in Beats : beat'[b].stage = "synced" => beat'[b].at <= evmProof']_crossVars

\* Each address resolves to one address of the other chain, which resolves back.
IdentitiesRoundTrip ==
    \A e \in EvmAddrs : \A s \in ResolveStellar(e) : ResolveEvm(s) = {e} /\ ResolveStellar(e) = {s}
================================================================================
