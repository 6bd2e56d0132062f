------------------------------ MODULE ChainsProofs ------------------------------
(***************************************************************************)
(* Proofs about what crosses and pays for the two chains (MCChains), for   *)
(* every value of the constants: the bridge, sponsored operations, the     *)
(* scripts that keep entries and vaults alive, the local store, Soroban    *)
(* calls, life, access, tokens, approvals and upgrades in the Soroban      *)
(* contract, event logs and the lists made of them, readers' screens, and  *)
(* the types of them all.  The parts share no state, so each has an        *)
(* inductive invariant of its own.                                         *)
(***************************************************************************)
EXTENDS MCChains, NaturalsInduction, FiniteSetTheorems, TLAPS

-----------------------------------------------------------------------------
(* The bridge.                                                             *)

\* Nonces are numbered without gaps; Stellar has applied none above its own.
RevocationInv ==
    /\ \E n \in 0 .. MaxNonce : issued = 1 .. n
    /\ lastRevocationNonce \in 0 .. MaxNonce /\ relaying \subseteq issued
    /\ sorobanNonce \in Nat /\ appliedNonces \in Seq(Nat)
    /\ \A i \in DOMAIN appliedNonces : appliedNonces[i] <= sorobanNonce
    /\ RevocationsAppliedInOrder

\* A message the relayer's memory does not hold was relayed at most once for
\* every restart there was.
ApprovalInv ==
    /\ restarts \in Nat /\ lastApprovalNonce \in Nat
    /\ approvalAt \in [Approvals -> Nat] /\ approvalRelays \in [Approvals -> Nat]
    /\ lateRelay = FALSE
    /\ \A a \in Approvals :
          /\ approvalRelays[a] <= restarts + 1
          /\ a > lastApprovalNonce => approvalRelays[a] <= restarts

BeatRecs == [stage : {"idle", "signed", "recorded", "failed", "synced"}, at : Nat]

\* What was signed was signed in the past, and what Avalanche recorded it
\* recorded no earlier than it was signed.
BeatInv ==
    /\ bridgeClock \in Nat /\ evmProof \in 0 .. bridgeClock
    /\ lastProof \in 0 .. (bridgeClock + Slack) /\ lastProofSequence \in 0 .. bridgeClock
    /\ beat \in [Beats -> BeatRecs]
    /\ \A b \in Beats : beat[b].at <= bridgeClock /\ (Sendable(b) => beat[b].at <= evmProof)

\* No two bindings share an address.
RegistryInv ==
    /\ registry \subseteq [evm : EvmAddrs, stellar : StellarAddrs]
    /\ \A x, y \in registry : x.evm = y.evm <=> x.stellar = y.stellar

CrossInv == RevocationInv /\ ApprovalInv /\ BeatInv /\ RegistryInv

CrossNext == RelayNext \/ ApprovalNext \/ BeatNext \/ IdentityNext

\* Initially nothing has crossed.
LEMMA CrossInitial == CrossInit => CrossInv
<1> USE CrossChainAssumptions
<1> SUFFICES ASSUME CrossInit PROVE CrossInv OBVIOUS
<1>1. RevocationInv
  <2>1. issued = 1 .. 0 /\ 0 \in 0 .. MaxNonce BY DEF CrossInit
  <2> QED BY <2>1 DEF CrossInit, RevocationInv, RevocationsAppliedInOrder
<1>2. ApprovalInv BY DEF CrossInit, ApprovalInv, Unsigned
<1>3. BeatInv
  <2>1. beat \in [Beats -> BeatRecs] /\ \A b \in Beats : beat[b].at = 0 /\ ~Sendable(b)
    BY DEF CrossInit, BeatRecs, Sendable
  <2> QED BY <2>1 DEF CrossInit, BeatInv
<1>4. RegistryInv BY DEF CrossInit, RegistryInv
<1> QED BY <1>1, <1>2, <1>3, <1>4 DEF CrossInv

\* However messages are repeated, reordered or lost and the relayer restarted,
\* the nonces Stellar applies grow.
LEMMA RevocationStep == RevocationInv /\ [CrossNext]_crossVars => RevocationInv'
<1> USE CrossChainAssumptions
<1> SUFFICES ASSUME RevocationInv, [CrossNext]_crossVars PROVE RevocationInv' OBVIOUS
<1> DEFINE rev == <<issued, lastRevocationNonce, relaying, sorobanNonce, appliedNonces>>
<1>1. CASE UNCHANGED rev BY <1>1 DEF RevocationInv, RevocationsAppliedInOrder
<1>2. PICK n \in 0 .. MaxNonce : issued = 1 .. n BY DEF RevocationInv
<1>3. CASE IssueRevocation
  <2>1. Cardinality(issued) = n BY <1>2, FS_Interval
  <2>2. n < MaxNonce /\ issued' = issued \cup {n + 1} BY <1>3, <2>1 DEF IssueRevocation
  <2>3. n + 1 \in 0 .. MaxNonce /\ issued' = 1 .. (n + 1)
    <3>1. n \in Nat /\ MaxNonce \in Nat OBVIOUS
    <3>2. (1 .. n) \cup {n + 1} = 1 .. (n + 1) BY <3>1
    <3> QED BY <1>2, <2>2, <3>1, <3>2
  <2> QED BY <1>2, <1>3, <2>3 DEF IssueRevocation, RevocationInv, RevocationsAppliedInOrder
<1>4. ASSUME NEW k \in issued, ProcessRevocation(k) PROVE RevocationInv'
  <2>1. k \in 0 .. MaxNonce BY <1>2
  <2>2. lastRevocationNonce' = k /\ relaying' = relaying \cup {k}
        /\ UNCHANGED <<issued, sorobanNonce, appliedNonces>>
    BY <1>4 DEF ProcessRevocation
  <2> QED BY <2>1, <2>2 DEF RevocationInv, RevocationsAppliedInOrder
<1>5. ASSUME NEW k \in issued, RelayRevocation(k) PROVE RevocationInv'
  <2>1. k \in Nat /\ k > sorobanNonce BY <1>2, <1>5 DEF RelayRevocation, Fresh
  <2>2. appliedNonces' = Append(appliedNonces, k) /\ sorobanNonce' = k /\ relaying' \subseteq issued'
        /\ issued' = issued /\ lastRevocationNonce' = lastRevocationNonce
    BY <1>5 DEF RelayRevocation, RevocationInv
  <2>3. appliedNonces \in Seq(Nat) /\ sorobanNonce \in Nat BY DEF RevocationInv
  <2>4. appliedNonces' \in Seq(Nat) /\ \A i \in DOMAIN appliedNonces' :
            appliedNonces'[i] = IF i \in DOMAIN appliedNonces THEN appliedNonces[i] ELSE k
    BY <2>1, <2>2, <2>3
  <2>5. \A i, j \in DOMAIN appliedNonces' : i < j => i \in DOMAIN appliedNonces
    BY <2>2, <2>3
  <2>6. \A i \in DOMAIN appliedNonces : appliedNonces[i] \in Nat /\ appliedNonces[i] < k
    BY <2>1, <2>3 DEF RevocationInv
  <2>7. RevocationsAppliedInOrder' BY <2>4, <2>5, <2>6 DEF RevocationInv, RevocationsAppliedInOrder
  <2>8. \A i \in DOMAIN appliedNonces' : appliedNonces'[i] <= sorobanNonce' BY <2>1, <2>2, <2>4, <2>6
  <2> QED BY <1>2, <2>1, <2>2, <2>4, <2>7, <2>8 DEF RevocationInv
<1>6. ASSUME NEW k \in issued, RelayFails(k) PROVE RevocationInv'
  BY <1>6 DEF RelayFails, RevocationInv, RevocationsAppliedInOrder
<1>7. CASE RestartRelayer BY <1>7 DEF RestartRelayer, RevocationInv, RevocationsAppliedInOrder
<1>8. CASE GrantAgain BY <1>1, <1>8 DEF GrantAgain
<1>9. CASE RelayNext BY <1>3, <1>4, <1>5, <1>6, <1>7, <1>8, <1>9 DEF RelayNext
<1>10. CASE ApprovalNext
  BY <1>1, <1>7, <1>10 DEF ApprovalNext, SignApproval, ProcessApproval, BridgeTick, relayVars
<1>11. CASE BeatNext
  BY <1>1, <1>11 DEF BeatNext, SignBeat, RecordBeat, BeatFails, SyncBeat, ProveLife, BridgeTick, relayVars
<1>12. CASE IdentityNext
  BY <1>1, <1>12 DEF IdentityNext, RegisterIdentity, ClearIdentities, relayVars
<1>13. CASE UNCHANGED crossVars BY <1>1, <1>13 DEF crossVars, relayVars
<1> QED BY <1>9, <1>10, <1>11, <1>12, <1>13 DEF CrossNext

\* A lifetime of the relayer relays a message once, and before it expires.
LEMMA ApprovalStep == ApprovalInv /\ BeatInv /\ [CrossNext]_crossVars => ApprovalInv'
<1> USE CrossChainAssumptions
<1> SUFFICES ASSUME ApprovalInv, BeatInv, [CrossNext]_crossVars PROVE ApprovalInv' OBVIOUS
<1> DEFINE app == <<restarts, lastApprovalNonce, approvalAt, approvalRelays, lateRelay>>
<1>0. bridgeClock \in Nat BY DEF BeatInv
<1>1. CASE UNCHANGED app BY <1>1 DEF ApprovalInv
<1>2. CASE RestartRelayer BY <1>2 DEF RestartRelayer, ApprovalInv
<1>3. ASSUME NEW a \in Approvals, SignApproval(a) PROVE ApprovalInv'
  BY <1>0, <1>3 DEF SignApproval, ApprovalInv
<1>4. ASSUME NEW a \in Approvals, ProcessApproval(a) PROVE ApprovalInv'
  <2>1. a \in Nat /\ a > lastApprovalNonce /\ lastApprovalNonce' = a /\ restarts' = restarts
        /\ approvalAt' = approvalAt /\ approvalRelays' = [approvalRelays EXCEPT ![a] = @ + 1]
    BY <1>4 DEF ProcessApproval, Replayed, ApprovalInv
  <2>2. ~(bridgeClock - approvalAt[a] > ApprovalTtl)
    <3>1. approvalAt[a] \in Nat /\ ApprovalTtl \in Nat BY DEF ApprovalInv
    <3>2. ~(bridgeClock > approvalAt[a] + ApprovalTtl) BY <1>4 DEF ProcessApproval, Expired
    <3> QED BY <1>0, <3>1, <3>2
  <2>3. lateRelay' = FALSE
    <3>1. lateRelay' = (lateRelay \/ bridgeClock - approvalAt[a] > ApprovalTtl)
      BY <1>4, Zenon DEF ProcessApproval
    <3>2. lateRelay = FALSE BY DEF ApprovalInv
    <3> QED BY <2>2, <3>1, <3>2
  <2> QED BY <2>1, <2>3 DEF ApprovalInv
<1>5. CASE RelayNext
  BY <1>1, <1>2, <1>5 DEF RelayNext, IssueRevocation, GrantAgain, ProcessRevocation, RelayRevocation, RelayFails
<1>6. CASE ApprovalNext BY <1>1, <1>2, <1>3, <1>4, <1>6 DEF ApprovalNext, BridgeTick, relayVars
<1>7. CASE BeatNext
  BY <1>1, <1>7 DEF BeatNext, SignBeat, RecordBeat, BeatFails, SyncBeat, ProveLife, BridgeTick, relayVars
<1>8. CASE IdentityNext BY <1>1, <1>8 DEF IdentityNext, RegisterIdentity, ClearIdentities, relayVars
<1>9. CASE UNCHANGED crossVars BY <1>1, <1>9 DEF crossVars, relayVars
<1> QED BY <1>5, <1>6, <1>7, <1>8, <1>9 DEF CrossNext

\* What a step of a heartbeat may do to the two clocks of Stellar.
BeatsExtend ==
    /\ lastProof' >= lastProof /\ lastProofSequence' >= lastProofSequence
    /\ \A b \in Beats : beat'[b].stage = "synced" => beat'[b].at <= evmProof'

\* Heartbeats arrive late, again or never, and extend the life of the vault only.
LEMMA BeatStep == BeatInv /\ [CrossNext]_crossVars => BeatInv' /\ BeatsExtend
<1> USE CrossChainAssumptions
<1> SUFFICES ASSUME BeatInv, [CrossNext]_crossVars PROVE BeatInv' /\ BeatsExtend OBVIOUS
<1> DEFINE clocks == <<bridgeClock, evmProof, lastProof, lastProofSequence>>
<1>1. CASE UNCHANGED <<bridgeClock, beatVars>>
  BY <1>1 DEF BeatInv, BeatsExtend, beatVars, Sendable
<1>2. CASE BridgeTick
  <2>1. bridgeClock' = bridgeClock + 1
        /\ UNCHANGED <<beat, evmProof, lastProof, lastProofSequence>>
    BY <1>2 DEF BridgeTick, beatVars
  <2>2. \A b \in Beats : beat[b].at \in Nat BY DEF BeatInv, BeatRecs
  <2>3. Slack \in Nat OBVIOUS
  <2>4. /\ bridgeClock' \in Nat /\ evmProof' \in 0 .. bridgeClock'
        /\ lastProof' \in 0 .. (bridgeClock' + Slack) /\ lastProofSequence' \in 0 .. bridgeClock'
    BY <2>1, <2>3 DEF BeatInv
  <2>5. \A b \in Beats : beat[b].at <= bridgeClock' BY <2>1, <2>2 DEF BeatInv
  <2>6. \A b \in Beats : Sendable(b) => beat[b].at <= evmProof BY DEF BeatInv
  <2>7. lastProof >= lastProof /\ lastProofSequence >= lastProofSequence BY DEF BeatInv
  <2> QED BY <2>1, <2>4, <2>5, <2>6, <2>7 DEF BeatInv, BeatsExtend, Sendable
<1>3. CASE ProveLife
  BY <1>3 DEF ProveLife, BeatInv, BeatsExtend, Sendable
<1>4. ASSUME NEW b \in Beats, SignBeat(b) PROVE BeatInv' /\ BeatsExtend
  <2>1. beat' = [beat EXCEPT ![b] = [stage |-> "signed", at |-> bridgeClock]] /\ UNCHANGED clocks
    BY <1>4 DEF SignBeat
  <2>2. [stage |-> "signed", at |-> bridgeClock] \in BeatRecs BY DEF BeatInv, BeatRecs
  <2> QED BY <2>1, <2>2 DEF BeatInv, BeatsExtend, Sendable
<1>5. ASSUME NEW b \in Beats, BeatFails(b) PROVE BeatInv' /\ BeatsExtend
  BY <1>5 DEF BeatFails, Stage, BeatInv, BeatsExtend, Sendable, BeatRecs
<1>6. ASSUME NEW b \in Beats, RecordBeat(b) PROVE BeatInv' /\ BeatsExtend
  BY <1>6 DEF RecordBeat, Stage, BeatInv, BeatsExtend, Sendable, BeatRecs
<1>7. ASSUME NEW b \in Beats, SyncBeat(b) PROVE BeatInv' /\ BeatsExtend
  BY <1>7 DEF SyncBeat, Newer, BeatInv, BeatsExtend, Sendable, BeatRecs
<1>8. CASE RelayNext
  BY <1>1, <1>8 DEF RelayNext, IssueRevocation, GrantAgain, RestartRelayer, ProcessRevocation,
                    RelayRevocation, RelayFails, CrossRest
<1>9. CASE ApprovalNext
  BY <1>1, <1>2, <1>9 DEF ApprovalNext, SignApproval, ProcessApproval, RestartRelayer, CrossRest
<1>10. CASE BeatNext BY <1>2, <1>3, <1>4, <1>5, <1>6, <1>7, <1>10 DEF BeatNext
<1>11. CASE IdentityNext BY <1>1, <1>11 DEF IdentityNext, RegisterIdentity, ClearIdentities
<1>12. CASE UNCHANGED crossVars BY <1>1, <1>12 DEF crossVars
<1> QED BY <1>8, <1>9, <1>10, <1>11, <1>12 DEF CrossNext

\* registerIdentity refuses a binding of an address that is bound otherwise.
LEMMA RegistryStep == RegistryInv /\ [CrossNext]_crossVars => RegistryInv'
<1> SUFFICES ASSUME RegistryInv, [CrossNext]_crossVars PROVE RegistryInv' OBVIOUS
<1>1. CASE UNCHANGED registry BY <1>1 DEF RegistryInv
<1>2. ASSUME NEW e \in EvmAddrs, NEW s \in StellarAddrs, RegisterIdentity(e, s) PROVE RegistryInv'
  BY <1>2 DEF RegisterIdentity, Conflicts, RegistryInv
<1>3. CASE ClearIdentities BY <1>3 DEF ClearIdentities, RegistryInv
<1>4. CASE RelayNext
  BY <1>1, <1>4 DEF RelayNext, IssueRevocation, GrantAgain, RestartRelayer, ProcessRevocation,
                    RelayRevocation, RelayFails, CrossRest
<1>5. CASE ApprovalNext
  BY <1>1, <1>5 DEF ApprovalNext, SignApproval, ProcessApproval, RestartRelayer, BridgeTick, CrossRest
<1>6. CASE BeatNext
  BY <1>1, <1>6 DEF BeatNext, SignBeat, RecordBeat, BeatFails, SyncBeat, ProveLife, BridgeTick
<1>7. CASE IdentityNext BY <1>2, <1>3, <1>7 DEF IdentityNext
<1>8. CASE UNCHANGED crossVars BY <1>1, <1>8 DEF crossVars
<1> QED BY <1>4, <1>5, <1>6, <1>7, <1>8 DEF CrossNext

\* The bridge keeps its invariant.
LEMMA CrossStepKeeps == CrossInv /\ [CrossNext]_crossVars => CrossInv' /\ BeatsExtend
BY RevocationStep, ApprovalStep, BeatStep, RegistryStep DEF CrossInv

\* What the invariant says of the state.
LEMMA CrossCorrect ==
    CrossInv => /\ CrossTypeOK
                /\ RevocationsAppliedInOrder /\ ApprovalRelayedOnce /\ IdentitiesRoundTrip
<1> USE CrossChainAssumptions
<1> SUFFICES ASSUME CrossInv
             PROVE  /\ CrossTypeOK
                    /\ RevocationsAppliedInOrder /\ ApprovalRelayedOnce /\ IdentitiesRoundTrip
  OBVIOUS
<1>1. CrossTypeOK BY DEF CrossInv, RevocationInv, BeatInv, RegistryInv, CrossTypeOK
<1>2. RevocationsAppliedInOrder BY DEF CrossInv, RevocationInv
<1>3. ApprovalRelayedOnce BY DEF CrossInv, ApprovalInv, ApprovalRelayedOnce
<1>4. IdentitiesRoundTrip
  <2> SUFFICES ASSUME NEW e \in EvmAddrs, NEW s \in ResolveStellar(e)
               PROVE  ResolveEvm(s) = {e} /\ ResolveStellar(e) = {s}
    BY DEF IdentitiesRoundTrip
  <2>1. PICK b \in registry : b.evm = e /\ b.stellar = s BY DEF ResolveStellar
  <2>2. \A x \in registry : x.evm = e <=> x.stellar = s BY <2>1 DEF CrossInv, RegistryInv
  <2> QED BY <2>1, <2>2 DEF ResolveStellar, ResolveEvm
<1> QED BY <1>1, <1>2, <1>3, <1>4
-----------------------------------------------------------------------------
(* Sums over finite sets.                                                  *)

Pick(s) == CHOOSE x \in s : TRUE

\* The equation that defines a sum by taking away one element after the other.
SumsUp(F, S, it) ==
    it = [s \in SUBSET S |-> IF s = {} THEN 0 ELSE F[Pick(s)] + it[s \ {Pick(s)}]]

SumOf(F, S) == MapThenSumSet(LAMBDA x : F[x], S)

\* A nonempty set of naturals has a least element.
LEMMA NatMin == ASSUME NEW T \in SUBSET Nat, T # {} PROVE \E x \in T : \A y \in T : x <= y
<1> DEFINE R == OpToRel(<, Nat)
<1>1. \E x \in T : \A y \in T : ~(<<y, x>> \in R)
  BY NatLessThanWellFounded, WFMin, Zenon
<1>2. \A x, y \in Nat : x < y => <<x, y>> \in R
  BY Zenon DEF OpToRel
<1> HIDE DEF R
<1>3. PICK x \in T : \A y \in T : ~(<<y, x>> \in R) BY <1>1
<1>4. \A y \in T : ~(y < x) BY <1>2, <1>3, Zenon
<1>5. \A y \in T : x <= y BY <1>4
<1> QED BY <1>5

Small(S, n) == {s \in SUBSET S : Cardinality(s) <= n}

SumsUpTo(F, S, n, it) ==
    it = [s \in Small(S, n) |-> IF s = {} THEN 0 ELSE F[Pick(s)] + it[s \ {Pick(s)}]]

\* Taking one element away leaves a smaller set.
LEMMA PickSmaller ==
    ASSUME NEW S, IsFiniteSet(S), NEW s \in SUBSET S, s # {}
    PROVE  /\ Pick(s) \in s /\ s \ {Pick(s)} \in SUBSET S
           /\ Cardinality(s) \in Nat \ {0} /\ Cardinality(s \ {Pick(s)}) = Cardinality(s) - 1
<1>1. Pick(s) \in s BY DEF Pick
<1>2. IsFiniteSet(s) BY FS_Subset
<1>3. Cardinality(s) \in Nat /\ Cardinality(s) # 0 BY <1>2, FS_CardinalityType, FS_EmptySet
<1>4. Cardinality(s \ {Pick(s)}) = Cardinality(s) - 1 BY <1>1, <1>2, FS_RemoveElement
<1> QED BY <1>1, <1>3, <1>4

\* Sums exist for sets of every size.
LEMMA SumsExist ==
    ASSUME NEW S, IsFiniteSet(S), NEW F PROVE \A n \in Nat : \E it : SumsUpTo(F, S, n, it)
<1> DEFINE Bad == {n \in Nat : ~\E it : SumsUpTo(F, S, n, it)}
<1> SUFFICES ASSUME Bad # {} PROVE FALSE OBVIOUS
<1>1. PICK n \in Bad : \A m \in Bad : n <= m BY NatMin
<1>2. CASE n = 0
  <2> DEFINE it == [s \in Small(S, 0) |-> 0]
  <2>1. \A s \in Small(S, 0) : s = {}
    <3> TAKE s \in Small(S, 0)
    <3>1. s \in SUBSET S /\ Cardinality(s) <= 0 BY DEF Small
    <3>2. s # {} => Cardinality(s) \in Nat \ {0} BY <3>1, PickSmaller, Zenon
    <3> QED BY <3>1, <3>2
  <2>2. SumsUpTo(F, S, 0, it) BY <2>1 DEF SumsUpTo
  <2> QED BY <1>1, <1>2, <2>2
<1>3. CASE n # 0
  <2>1. n - 1 \in Nat /\ n - 1 \notin Bad BY <1>1, <1>3
  <2>2. PICK f : SumsUpTo(F, S, n - 1, f) BY <2>1
  <2> DEFINE it == [s \in Small(S, n) |-> IF s = {} THEN 0 ELSE F[Pick(s)] + f[s \ {Pick(s)}]]
  <2>3. \A s \in Small(S, n) : s # {} => s \ {Pick(s)} \in Small(S, n - 1) /\ s \ {Pick(s)} \in Small(S, n)
    <3> SUFFICES ASSUME NEW s \in Small(S, n), s # {}
                 PROVE  s \ {Pick(s)} \in Small(S, n - 1) /\ s \ {Pick(s)} \in Small(S, n)
      OBVIOUS
    <3>1. s \in SUBSET S /\ Cardinality(s) <= n BY DEF Small
    <3>2. s \ {Pick(s)} \in SUBSET S /\ Cardinality(s) \in Nat /\ Cardinality(s \ {Pick(s)}) = Cardinality(s) - 1
      BY <3>1, PickSmaller
    <3> QED BY <3>1, <3>2 DEF Small
  <2>4. \A s \in Small(S, n - 1) :
            s \in Small(S, n) /\ f[s] = IF s = {} THEN 0 ELSE F[Pick(s)] + f[s \ {Pick(s)}]
    <3> TAKE s \in Small(S, n - 1)
    <3>1. s \in SUBSET S /\ Cardinality(s) <= n - 1 BY DEF Small
    <3>2. IsFiniteSet(s) BY <3>1, FS_Subset
    <3>3. Cardinality(s) \in Nat BY <3>2, FS_CardinalityType
    <3>4. s \in Small(S, n) BY <3>1, <3>3 DEF Small
    <3> QED BY <2>2, <3>4 DEF SumsUpTo
  <2>5. \A s \in Small(S, n - 1) : it[s] = f[s] BY <2>4
  <2>6. \A s \in Small(S, n) : it[s] = IF s = {} THEN 0 ELSE F[Pick(s)] + it[s \ {Pick(s)}]
    BY <2>3, <2>5
  <2>7. it = [s \in Small(S, n) |-> it[s]] OBVIOUS
  <2> HIDE DEF it
  <2>8. SumsUpTo(F, S, n, it) BY <2>6, <2>7 DEF SumsUpTo
  <2> QED BY <1>1, <2>8
<1> QED BY <1>2, <1>3

\* A sum is what its equation says.
LEMMA SumEquation ==
    ASSUME NEW S, IsFiniteSet(S), NEW F
    PROVE  \E it : SumsUp(F, S, it) /\ SumOf(F, S) = it[S]
<1>1. PICK f : SumsUpTo(F, S, Cardinality(S), f) BY SumsExist, FS_CardinalityType
<1>2. Small(S, Cardinality(S)) = SUBSET S
  <2>1. \A s \in SUBSET S : Cardinality(s) <= Cardinality(S) BY FS_Subset
  <2> QED BY <2>1 DEF Small
<1>3. SumsUp(F, S, f) BY <1>1, <1>2 DEF SumsUp, SumsUpTo
<1>4. SumsUp(F, S, CHOOSE it : SumsUp(F, S, it)) BY <1>3
<1>5. SumOf(F, S) = (CHOOSE it : SumsUp(F, S, it))[S]
  BY DEF SumOf, SumsUp, MapThenSumSet, MapThenFoldSet, Pick
<1> QED BY <1>4, <1>5

\* A sum of naturals is a natural, and it changes by as much as one summand does.
LEMMA SumChanges ==
    ASSUME NEW S, IsFiniteSet(S), NEW F \in [S -> Nat], NEW G \in [S -> Nat], NEW v \in S,
           \A x \in S \ {v} : G[x] = F[x]
    PROVE  /\ SumOf(F, S) \in Nat /\ SumOf(G, S) \in Nat
           /\ SumOf(G, S) + F[v] = SumOf(F, S) + G[v]
<1>1. PICK f : SumsUp(F, S, f) /\ SumOf(F, S) = f[S] BY SumEquation
<1>2. PICK g : SumsUp(G, S, g) /\ SumOf(G, S) = g[S] BY SumEquation
<1>3. \A s \in SUBSET S : f[s] = IF s = {} THEN 0 ELSE F[Pick(s)] + f[s \ {Pick(s)}]
  BY <1>1 DEF SumsUp
<1>4. \A s \in SUBSET S : g[s] = IF s = {} THEN 0 ELSE G[Pick(s)] + g[s \ {Pick(s)}]
  BY <1>2 DEF SumsUp
<1> DEFINE Good(s) == /\ f[s] \in Nat /\ g[s] \in Nat
                      /\ v \in s => g[s] + F[v] = f[s] + G[v]
                      /\ v \notin s => g[s] = f[s]
           Bad == {n \in Nat : \E s \in SUBSET S : Cardinality(s) = n /\ ~Good(s)}
<1>5. \A s \in SUBSET S : Good(s)
  <2> SUFFICES ASSUME NEW t \in SUBSET S, ~Good(t) PROVE FALSE OBVIOUS
  <2>1. Cardinality(t) \in Bad
    <3>1. IsFiniteSet(t) BY FS_Subset
    <3>2. Cardinality(t) \in Nat BY <3>1, FS_CardinalityType
    <3> QED BY <3>2
  <2>2. PICK n \in Bad : \A m \in Bad : n <= m
    <3>1. Bad \in SUBSET Nat /\ Bad # {} BY <2>1
    <3> HIDE DEF Bad
    <3> QED BY <3>1, NatMin
  <2>3. PICK s \in SUBSET S : Cardinality(s) = n /\ ~Good(s) BY <2>2
  <2>4. s # {}
    <3> SUFFICES ASSUME s = {} PROVE Good(s) BY <2>3
    <3>1. f[s] = 0 /\ g[s] = 0 BY <1>3, <1>4
    <3> QED BY <3>1
  <2>5. /\ Pick(s) \in s /\ s \ {Pick(s)} \in SUBSET S
        /\ n \in Nat \ {0} /\ Cardinality(s \ {Pick(s)}) = n - 1
    BY <2>3, <2>4, PickSmaller
  <2> DEFINE p == Pick(s)
             r == s \ {Pick(s)}
  <2>6. n - 1 \in Nat /\ n - 1 \notin Bad
    <3>1. n - 1 \in Nat /\ ~(n <= n - 1) BY <2>5
    <3> QED BY <2>2, <3>1
  <2>7. Good(r) BY <2>5, <2>6
  <2>8. f[s] = F[p] + f[r] /\ g[s] = G[p] + g[r] BY <1>3, <1>4, <2>4
  <2>9. p \in S /\ p \in s /\ p \notin r /\ F[p] \in Nat /\ G[p] \in Nat /\ F[v] \in Nat /\ G[v] \in Nat
    BY <2>5
  <2>10. f[s] \in Nat /\ g[s] \in Nat BY <2>7, <2>8, <2>9
  <2>11. CASE p = v
    <3>1. v \notin r /\ v \in s BY <2>9, <2>11
    <3>2. g[r] = f[r] /\ f[r] \in Nat BY <2>7, <3>1
    <3> HIDE DEF p, r
    <3>3. g[s] + F[v] = f[s] + G[v] BY <2>8, <2>9, <2>11, <3>2
    <3> QED BY <2>3, <2>10, <3>1, <3>3
  <2>12. CASE p # v
    <3>1. G[p] = F[p] /\ (v \in r <=> v \in s) BY <2>9, <2>12
    <3>2. /\ f[r] \in Nat /\ g[r] \in Nat
          /\ v \in s => g[r] + F[v] = f[r] + G[v]
          /\ v \notin s => g[r] = f[r]
      BY <2>7, <3>1
    <3> HIDE DEF p, r
    <3>3. v \in s => g[s] + F[v] = f[s] + G[v] BY <2>8, <2>9, <3>1, <3>2
    <3>4. v \notin s => g[s] = f[s] BY <2>8, <3>1, <3>2
    <3> QED BY <2>3, <2>10, <3>3, <3>4
  <2> QED BY <2>11, <2>12
<1>6. Good(S) BY <1>5
<1> QED BY <1>1, <1>2, <1>6

\* A sum of zeros is zero.
LEMMA SumOfZeros == ASSUME NEW S, IsFiniteSet(S) PROVE SumOf([x \in S |-> 0], S) = 0
<1> DEFINE F == [x \in S |-> 0]
<1>1. PICK f : SumsUp(F, S, f) /\ SumOf(F, S) = f[S] BY SumEquation
<1>2. \A s \in SUBSET S : f[s] = IF s = {} THEN 0 ELSE F[Pick(s)] + f[s \ {Pick(s)}]
  BY <1>1 DEF SumsUp
<1> DEFINE Bad == {n \in Nat : \E s \in SUBSET S : Cardinality(s) = n /\ f[s] # 0}
<1>3. \A s \in SUBSET S : f[s] = 0
  <2> SUFFICES ASSUME NEW t \in SUBSET S, f[t] # 0 PROVE FALSE OBVIOUS
  <2>1. Cardinality(t) \in Bad
    <3>1. IsFiniteSet(t) BY FS_Subset
    <3>2. Cardinality(t) \in Nat BY <3>1, FS_CardinalityType
    <3> QED BY <3>2
  <2>2. PICK n \in Bad : \A m \in Bad : n <= m
    <3>1. Bad \in SUBSET Nat /\ Bad # {} BY <2>1
    <3> HIDE DEF Bad
    <3> QED BY <3>1, NatMin
  <2>3. PICK s \in SUBSET S : Cardinality(s) = n /\ f[s] # 0 BY <2>2
  <2>4. s # {} BY <1>2, <2>3
  <2>5. /\ Pick(s) \in s /\ s \ {Pick(s)} \in SUBSET S
        /\ n \in Nat \ {0} /\ Cardinality(s \ {Pick(s)}) = n - 1
    BY <2>3, <2>4, PickSmaller
  <2>6. n - 1 \in Nat /\ n - 1 \notin Bad
    <3>1. n - 1 \in Nat /\ ~(n <= n - 1) BY <2>5
    <3> QED BY <2>2, <3>1
  <2>7. f[s \ {Pick(s)}] = 0 BY <2>5, <2>6
  <2>8. f[s] = F[Pick(s)] + f[s \ {Pick(s)}] BY <1>2, <2>4
  <2>9. F[Pick(s)] = 0 BY <2>5
  <2> QED BY <2>3, <2>7, <2>8, <2>9
<1> QED BY <1>1, <1>3

\* A sum of naturals is a natural.
LEMMA SumIsNatural == ASSUME NEW S, IsFiniteSet(S), NEW F \in [S -> Nat] PROVE SumOf(F, S) \in Nat
<1>1. CASE S = {}
  <2>1. F = [x \in S |-> 0] BY <1>1
  <2> QED BY <2>1, SumOfZeros
<1>2. CASE S # {}
  <2>1. PICK v \in S : TRUE BY <1>2
  <2> QED BY <2>1, SumChanges
<1> QED BY <1>1, <1>2
-----------------------------------------------------------------------------
(* Sponsored operations.                                                   *)

Contexts == [op : UserOps, vault : SponsoredVaults, isVaultBalance : BOOLEAN]
Charges == [about : SponsoredVaults \cup {0}, vault : SponsoredVaults]

GasTypes ==
    /\ deposit \in Nat /\ creatorSponsorBalance \in Nat /\ shortfall \in Nat
    /\ vaultSponsorBalances \in [SponsoredVaults -> Nat]
    /\ bundle \in Seq(Contexts) /\ Len(bundle) <= 2
    /\ running \in BOOLEAN /\ pledgedTwice \in BOOLEAN
    /\ executed \in Seq(Charges)

BalanceOf(c, vaults, creator) == IF c.isVaultBalance THEN vaults[c.vault] ELSE creator

SponsorBalance(c) == BalanceOf(c, vaultSponsorBalances, creatorSponsorBalance)

SameSponsor(c, d) == c.isVaultBalance = d.isVaultBalance /\ (c.isVaultBalance => c.vault = d.vault)

\* Until two operations of a bundle had one sponsor, every operation still to
\* run has a sponsor of its own who can pay all that it may cost.
PledgeInv ==
    ~pledgedTwice =>
        /\ shortfall = 0
        /\ \A i \in DOMAIN bundle : SponsorBalance(bundle[i]) >= MaxCost
        /\ \A i, j \in DOMAIN bundle : i # j => ~SameSponsor(bundle[i], bundle[j])

\* The vault charged is that of the request, before and after the operation ran.
ChargeInv ==
    /\ \A i \in DOMAIN bundle : bundle[i].op.about # 0 => bundle[i].vault = bundle[i].op.about
    /\ PaidByItsOwnVault

\* What the rates of the guardians are made of.
RateTypes ==
    /\ gasClock \in Nat
    /\ guardianWindowStart \in [Guardians -> Nat] /\ guardianOpCount \in [Guardians -> 0 .. OpsPerWindow]
    /\ vaultWindowStart \in [SponsoredVaults -> Nat]
    /\ vaultOpCount \in [SponsoredVaults -> 0 .. VaultOpsPerWindow]
    /\ sponsored \in [Guardians -> Seq(Nat)]

\* The operations of s within the window that began at start, and those of the
\* span of one window before it.
Inside(s, start) == {j \in DOMAIN s : s[j] >= start}
Before(s, start) == {j \in DOMAIN s : s[j] < start /\ s[j] + RateWindow > start}

Span(s, i) == {j \in DOMAIN s : s[j] >= s[i] /\ s[j] < s[i] + RateWindow}

\* A guardian's counter is the number of operations of the window, and the
\* window before it had no more than the limit either.
RateKept(s, start, count, clock) ==
    /\ start <= clock
    /\ \A j \in DOMAIN s : s[j] <= clock /\ s[j] < start + RateWindow
    /\ Cardinality(Inside(s, start)) <= count
    /\ Cardinality(Before(s, start)) <= OpsPerWindow
    /\ \A i \in DOMAIN s : Cardinality(Span(s, i)) <= 2 * OpsPerWindow

RateInv ==
    \A g \in Guardians : RateKept(sponsored[g], guardianWindowStart[g], guardianOpCount[g], gasClock)

\* The sets of operations are finite.
LEMMA OpsFinite ==
    ASSUME NEW s \in Seq(Nat), NEW S \in SUBSET DOMAIN s
    PROVE  IsFiniteSet(S) /\ Cardinality(S) \in Nat
<1>1. DOMAIN s = 1 .. Len(s) /\ Len(s) \in Nat OBVIOUS
<1>2. IsFiniteSet(1 .. Len(s)) BY <1>1, FS_Interval
<1>3. IsFiniteSet(S) BY <1>1, <1>2, FS_Subset
<1> QED BY <1>3, FS_CardinalityType

\* A span of one window that reaches into the present covers operations of the
\* present window and of the span before it only.
LEMMA SpanBound ==
    ASSUME NEW s \in Seq(Nat), NEW start \in Nat, NEW clock \in Nat, NEW i \in DOMAIN s,
           start <= clock, clock < s[i] + RateWindow,
           Cardinality(Inside(s, start)) <= OpsPerWindow, Cardinality(Before(s, start)) <= OpsPerWindow
    PROVE  Cardinality(Span(s, i)) <= 2 * OpsPerWindow
<1> USE GasAssumptions
<1> DEFINE U == Before(s, start) \cup Inside(s, start)
<1>1. Span(s, i) \subseteq U BY SMTT(30) DEF Span, Before, Inside
<1>2. U \subseteq DOMAIN s /\ Before(s, start) \subseteq DOMAIN s /\ Inside(s, start) \subseteq DOMAIN s
      /\ Before(s, start) \cap Inside(s, start) \subseteq DOMAIN s
  BY DEF Before, Inside
<1>3. Cardinality(U) = Cardinality(Before(s, start)) + Cardinality(Inside(s, start))
                       - Cardinality(Before(s, start) \cap Inside(s, start))
  BY <1>2, OpsFinite, FS_Union
<1>4. /\ Cardinality(U) \in Nat /\ Cardinality(Before(s, start)) \in Nat
      /\ Cardinality(Inside(s, start)) \in Nat
      /\ Cardinality(Before(s, start) \cap Inside(s, start)) \in Nat
  BY <1>2, OpsFinite
<1>5. Cardinality(Span(s, i)) <= Cardinality(U) BY <1>1, <1>2, OpsFinite, FS_Subset
<1>6. Cardinality(Span(s, i)) \in Nat
  <2>1. Span(s, i) \subseteq DOMAIN s BY <1>1, <1>2
  <2> QED BY <2>1, OpsFinite
<1> HIDE DEF U
<1> QED BY <1>3, <1>4, <1>5, <1>6, SMTT(30)

\* One more operation in the present window, or the first of a new one.
LEMMA OneMore ==
    ASSUME NEW s \in Seq(Nat), NEW start \in Nat, NEW count \in 0 .. OpsPerWindow, NEW clock \in Nat,
           RateKept(s, start, count, clock)
    PROVE  /\ clock >= start + RateWindow => RateKept(Append(s, clock), clock, 1, clock)
           /\ clock < start + RateWindow /\ count < OpsPerWindow
                => RateKept(Append(s, clock), start, count + 1, clock)
<1> USE GasAssumptions
<1> DEFINE n == Len(s)
           t == Append(s, clock)
<1>1. n \in Nat /\ t \in Seq(Nat) /\ DOMAIN s = 1 .. n /\ DOMAIN t = 1 .. (n + 1) /\ t[n + 1] = clock
      /\ \A j \in 1 .. n : t[j] = s[j] /\ s[j] \in Nat
  BY SMTT(30)
<1>2. /\ start <= clock
      /\ \A j \in DOMAIN s : s[j] <= clock /\ s[j] < start + RateWindow
      /\ Cardinality(Inside(s, start)) <= count
      /\ Cardinality(Before(s, start)) <= OpsPerWindow
      /\ \A i \in DOMAIN s : Cardinality(Span(s, i)) <= 2 * OpsPerWindow
  BY DEF RateKept
<1>3. Inside(s, start) \subseteq DOMAIN s /\ Before(s, start) \subseteq DOMAIN s BY DEF Inside, Before
<1>4. ASSUME NEW st \in Nat, NEW c \in 0 .. OpsPerWindow, st <= clock, clock < st + RateWindow,
             \A j \in DOMAIN s : s[j] < st + RateWindow,
             Cardinality(Inside(t, st)) <= c, Cardinality(Before(t, st)) <= OpsPerWindow
      PROVE  RateKept(t, st, c, clock)
  <2>1. \A j \in DOMAIN t : t[j] <= clock /\ t[j] < st + RateWindow
    BY <1>1, <1>2, <1>4, SMTT(30)
  <2>2. ASSUME NEW i \in DOMAIN t PROVE Cardinality(Span(t, i)) <= 2 * OpsPerWindow
    <3>1. CASE clock < t[i] + RateWindow
      <4>1. Inside(t, st) \subseteq DOMAIN t BY DEF Inside
      <4>2. Cardinality(Inside(t, st)) <= OpsPerWindow 
        <5>1. Cardinality(Inside(t, st)) \in Nat BY <1>1, <4>1, OpsFinite
        <5> QED BY <1>4, <5>1
      <4> HIDE DEF t
      <4> QED BY <1>1, <1>4, <2>2, <3>1, <4>2, SpanBound
    <3>2. CASE ~(clock < t[i] + RateWindow)
      <4>1. i \in DOMAIN s /\ t[i] = s[i] BY <1>1, <2>2, <3>2
      <4>2. Span(t, i) = Span(s, i) BY <1>1, <3>2, <4>1, SMTT(30) DEF Span
      <4> QED BY <1>2, <4>1, <4>2
    <3> QED BY <3>1, <3>2
  <2> HIDE DEF t
  <2> QED BY <1>4, <2>1, <2>2 DEF RateKept
<1>5. CASE clock >= start + RateWindow
  <2>1. Inside(t, clock) = {n + 1}
    <3>1. ASSUME NEW j \in 1 .. n PROVE t[j] < clock
      <4>1. s[j] < start + RateWindow /\ s[j] \in Nat /\ t[j] = s[j] BY <1>1, <1>2
      <4>2. RateWindow \in Nat OBVIOUS
      <4> HIDE DEF t
      <4> QED BY <1>5, <4>1, <4>2, SMTT(30)
    <3>2. \A j \in DOMAIN t : t[j] >= clock <=> j = n + 1 BY <1>1, <3>1, SMTT(30)
    <3> HIDE DEF t
    <3> QED BY <1>1, <3>2 DEF Inside
  <2>2. Cardinality(Inside(t, clock)) <= 1
    <3>1. Cardinality({n + 1}) = 1 BY FS_Singleton
    <3> HIDE DEF t, n
    <3> QED BY <2>1, <3>1
  <2>3. Before(t, clock) \subseteq Inside(s, start) BY <1>1, <1>2, <1>5, SMTT(30) DEF Before, Inside
  <2>4. Cardinality(Before(t, clock)) <= Cardinality(Inside(s, start))
    BY <1>3, <2>3, OpsFinite, FS_Subset
  <2>5. Cardinality(Before(t, clock)) <= OpsPerWindow
    <3>1. Before(t, clock) \subseteq DOMAIN t BY DEF Before
    <3>2. Cardinality(Before(t, clock)) \in Nat BY <1>1, <3>1, OpsFinite
    <3>3. Cardinality(Inside(s, start)) \in Nat BY <1>3, OpsFinite
    <3> QED BY <1>2, <2>4, <3>2, <3>3
  <2>6. \A j \in DOMAIN s : s[j] < clock + RateWindow BY <1>1, <1>2, SMTT(30)
  <2>7. 1 \in 0 .. OpsPerWindow /\ clock < clock + RateWindow OBVIOUS
  <2> HIDE DEF t
  <2>8. RateKept(t, clock, 1, clock) 
    <3>1. clock <= clock BY DEF t
    <3> QED BY <1>4, <2>2, <2>5, <2>6, <2>7, <3>1
  <2> QED BY <1>5, <2>8 DEF t
<1>6. CASE clock < start + RateWindow /\ count < OpsPerWindow
  <2>1. Inside(t, start) = Inside(s, start) \cup {n + 1} BY <1>1, <1>2, SMTT(30) DEF Inside
  <2>2. Cardinality(Inside(t, start)) <= count + 1
    <3>1. IsFiniteSet(Inside(s, start)) /\ Cardinality(Inside(s, start)) \in Nat BY <1>3, OpsFinite
    <3>2. Cardinality(Inside(t, start)) <= Cardinality(Inside(s, start)) + 1
      <4>1. Cardinality(Inside(s, start) \cup {n + 1}) =
              IF n + 1 \in Inside(s, start) THEN Cardinality(Inside(s, start))
              ELSE Cardinality(Inside(s, start)) + 1
        BY <3>1, FS_AddElement
      <4> HIDE DEF t, n
      <4> QED BY <2>1, <3>1, <4>1
    <3>3. Inside(t, start) \subseteq DOMAIN t BY DEF Inside
    <3>4. Cardinality(Inside(t, start)) \in Nat BY <1>1, <3>3, OpsFinite
    <3> QED BY <1>2, <3>1, <3>2, <3>4
  <2>3. Before(t, start) = Before(s, start) BY <1>1, <1>2 DEF Before
  <2>4. count + 1 \in 0 .. OpsPerWindow BY <1>6
  <2> HIDE DEF t
  <2>5. RateKept(t, start, count + 1, clock) BY <1>2, <1>4, <1>6, <2>2, <2>3, <2>4
  <2> QED BY <1>6, <2>5 DEF t
<1> QED
  <2> HIDE DEF t
  <2> QED BY <1>5, <1>6, <1>2, <1>1 DEF t

\* Nothing is sponsored at first.
LEMMA GasInitial == GasInit => GasTypes /\ DepositBacksBalances /\ PledgeInv /\ ChargeInv /\ RateTypes /\ RateInv
<1> USE GasAssumptions
<1> SUFFICES ASSUME GasInit
             PROVE  GasTypes /\ DepositBacksBalances /\ PledgeInv /\ ChargeInv /\ RateTypes /\ RateInv
  OBVIOUS
<1>1. GasTypes
  <2>1. <<>> \in Seq(Contexts) /\ <<>> \in Seq(Charges) /\ Len(<<>>) <= 2 OBVIOUS
  <2>2. vaultSponsorBalances \in [SponsoredVaults -> Nat] /\ deposit \in Nat
        /\ creatorSponsorBalance \in Nat /\ shortfall \in Nat
    BY DEF GasInit
  <2>3. bundle = <<>> /\ executed = <<>> /\ running = FALSE /\ pledgedTwice = FALSE
    BY Zenon DEF GasInit
  <2> QED BY <2>1, <2>2, <2>3 DEF GasTypes
<1>2. DepositBacksBalances
  <2>1. SumOf(vaultSponsorBalances, SponsoredVaults) = 0 BY SumOfZeros DEF GasInit
  <2>2. Owed = creatorSponsorBalance + SumOf(vaultSponsorBalances, SponsoredVaults) BY DEF Owed, SumOf
  <2>3. Len(bundle) = 0 /\ MaxCost * 0 = 0 BY DEF GasInit
  <2> QED BY <2>1, <2>2, <2>3 DEF GasInit, DepositBacksBalances
<1>3. PledgeInv BY DEF GasInit, PledgeInv
<1>4. ChargeInv BY DEF GasInit, ChargeInv, PaidByItsOwnVault
<1>5. RateTypes BY DEF GasInit, RateTypes
<1>6. ASSUME NEW g \in Guardians
      PROVE RateKept(sponsored[g], guardianWindowStart[g], guardianOpCount[g], gasClock)
  <2>1. sponsored[g] = <<>> /\ guardianWindowStart[g] = 0 /\ guardianOpCount[g] = 0 /\ gasClock \in Nat
    BY DEF GasInit
  <2>2. Inside(<<>>, 0) = {} /\ Before(<<>>, 0) = {} BY DEF Inside, Before
  <2>3. Cardinality({}) = 0 BY FS_EmptySet
  <2>4. DOMAIN <<>> = {} OBVIOUS
  <2>5. 0 <= gasClock /\ 0 <= 0 /\ 0 <= OpsPerWindow BY <2>1
  <2>6. RateKept(<<>>, 0, 0, gasClock) BY <2>2, <2>3, <2>4, <2>5 DEF RateKept
  <2> QED BY <2>1, <2>6
<1> QED BY <1>1, <1>2, <1>3, <1>4, <1>5, <1>6 DEF RateInv

\* The operation that was validated belongs to the vault it resolves to.
LEMMA ResolvedVault ==
    ASSUME NEW op \in UserOps, ResolveVaultId(op) # 0
    PROVE  /\ ResolveVaultId(op) \in SponsoredVaults
           /\ op.about # 0 => ResolveVaultId(op) = op.about
BY DEF UserOps, ResolveVaultId

\* Deposits, charges and prefunds keep their types.
LEMMA GasTypesStep == GasTypes /\ [GasNext]_gasVars => GasTypes'
<1> USE GasAssumptions
<1> SUFFICES ASSUME GasTypes, [GasNext]_gasVars PROVE GasTypes' OBVIOUS
<1>1. ASSUME NEW v \in SponsoredVaults, DepositForVault(v) PROVE GasTypes'
  BY <1>1, SMTT(30) DEF DepositForVault, GasTypes
<1>2. ASSUME NEW v \in SponsoredVaults, NEW a \in 1 .. MaxCost, WithdrawVaultDeposit(v, a) PROVE GasTypes'
  BY <1>2 DEF WithdrawVaultDeposit, GasTypes
<1>3. CASE DepositForCreator BY <1>3, SMTT(30) DEF DepositForCreator, GasTypes
<1>4. ASSUME NEW a \in 1 .. MaxCost, WithdrawCreatorDeposit(a) PROVE GasTypes'
  BY <1>4 DEF WithdrawCreatorDeposit, GasTypes
<1>5. ASSUME NEW op \in UserOps, ValidateOp(op) PROVE GasTypes'
  <2> DEFINE v == ResolveVaultId(op)
             own == Sponsors(vaultSponsorBalances[v])
             c == [op |-> op, vault |-> v, isVaultBalance |-> own]
  <2>1. v \in SponsoredVaults BY <1>5, ResolvedVault DEF ValidateOp
  <2>2. own \in BOOLEAN BY DEF Sponsors
  <2>3. c \in Contexts BY <2>1, <2>2 DEF Contexts
  <2>4. bundle' = Append(bundle, c) /\ Len(bundle) < 2 /\ deposit' = deposit - MaxCost /\ deposit >= MaxCost
        /\ UNCHANGED <<creatorSponsorBalance, shortfall, vaultSponsorBalances, running, executed>>
    BY <1>5 DEF ValidateOp
  <2>5. pledgedTwice' \in BOOLEAN
    <3>1. pledgedTwice' = (pledgedTwice \/ \E i \in DOMAIN bundle :
                       bundle[i].isVaultBalance = own /\ (own => bundle[i].vault = v))
      BY <1>5, Zenon DEF ValidateOp
    <3> QED BY <3>1
  <2> HIDE DEF c, own, v
  <2> QED BY <2>3, <2>4, <2>5 DEF GasTypes
<1>6. CASE RunBundle BY <1>6 DEF RunBundle, GasTypes
<1>7. CASE GasTick BY <1>7 DEF GasTick, GasTypes
<1>8. ASSUME NEW cost \in 1 .. MaxCost, PostOp(cost) PROVE GasTypes'
  <2> DEFINE c == Head(bundle)
  <2>1. bundle # <<>> /\ bundle' = Tail(bundle) /\ running' = (Len(bundle) > 1)
        /\ deposit' = deposit + MaxCost - cost /\ pledgedTwice' = pledgedTwice
    BY <1>8 DEF PostOp
  <2>2. c \in Contexts BY <2>1 DEF GasTypes
  <2>3. c.vault \in SponsoredVaults /\ c.op.about \in SponsoredVaults \cup {0} /\ c.isVaultBalance \in BOOLEAN
    BY <2>2 DEF Contexts, UserOps
  <2>4. bundle' \in Seq(Contexts) /\ Len(bundle') <= 2 BY <2>1 DEF GasTypes
  <2>5. executed' \in Seq(Charges)
    <3>1. executed' = Append(executed, [about |-> c.op.about, vault |-> c.vault]) BY <1>8 DEF PostOp
    <3>2. [about |-> c.op.about, vault |-> c.vault] \in Charges BY <2>3 DEF Charges
    <3> QED BY <3>1, <3>2 DEF GasTypes
  <2>6. vaultSponsorBalances' \in [SponsoredVaults -> Nat]
    <3>1. vaultSponsorBalances' = IF c.isVaultBalance
             THEN [vaultSponsorBalances EXCEPT ![c.vault] = Left(@, cost)] ELSE vaultSponsorBalances
      BY <1>8 DEF PostOp
    <3>2. Left(vaultSponsorBalances[c.vault], cost) \in Nat BY <2>3 DEF GasTypes, Left
    <3> QED BY <2>3, <3>1, <3>2 DEF GasTypes
  <2>7. creatorSponsorBalance' \in Nat
    <3>1. creatorSponsorBalance' = IF c.isVaultBalance THEN creatorSponsorBalance
                                   ELSE Left(creatorSponsorBalance, cost)
      BY <1>8 DEF PostOp
    <3> QED BY <3>1 DEF GasTypes, Left
  <2>8. shortfall' \in Nat
    <3>1. shortfall' = shortfall + Over(SponsorBalance(c), cost) BY <1>8 DEF PostOp, SponsorBalance, BalanceOf
    <3>2. SponsorBalance(c) \in Nat BY <2>3 DEF GasTypes, SponsorBalance, BalanceOf
    <3>3. Over(SponsorBalance(c), cost) \in Nat BY <3>2 DEF Over
    <3> QED BY <3>1, <3>3 DEF GasTypes
  <2>9. deposit' \in Nat /\ running' \in BOOLEAN BY <2>1 DEF GasTypes
  <2> QED BY <2>1, <2>4, <2>5, <2>6, <2>7, <2>8, <2>9 DEF GasTypes
<1>9. CASE UNCHANGED gasVars BY <1>9 DEF gasVars, GasTypes
<1> QED BY <1>1, <1>2, <1>3, <1>4, <1>5, <1>6, <1>7, <1>8, <1>9 DEF GasNext

\* What is owed, as a sum.
LEMMA OwedIs == Owed = creatorSponsorBalance + SumOf(vaultSponsorBalances, SponsoredVaults)
BY DEF Owed, SumOf

\* What is owed is a number, and follows the balance of one sponsor.
LEMMA OwedChanges ==
    ASSUME GasTypes, GasTypes', NEW v \in SponsoredVaults,
           \A x \in SponsoredVaults \ {v} : vaultSponsorBalances'[x] = vaultSponsorBalances[x]
    PROVE  /\ Owed \in Nat /\ Owed' \in Nat
           /\ Owed' + creatorSponsorBalance + vaultSponsorBalances[v]
                = Owed + creatorSponsorBalance' + vaultSponsorBalances'[v]
<1>1. /\ vaultSponsorBalances \in [SponsoredVaults -> Nat] /\ vaultSponsorBalances' \in [SponsoredVaults -> Nat]
      /\ creatorSponsorBalance \in Nat /\ creatorSponsorBalance' \in Nat
  BY DEF GasTypes
<1>2. /\ SumOf(vaultSponsorBalances, SponsoredVaults) \in Nat
      /\ SumOf(vaultSponsorBalances', SponsoredVaults) \in Nat
      /\ SumOf(vaultSponsorBalances', SponsoredVaults) + vaultSponsorBalances[v]
           = SumOf(vaultSponsorBalances, SponsoredVaults) + vaultSponsorBalances'[v]
  BY <1>1, GasAssumptions, SumChanges
<1>3. Owed' = creatorSponsorBalance' + SumOf(vaultSponsorBalances', SponsoredVaults)
  BY DEF Owed, SumOf, MapThenSumSet, MapThenFoldSet
<1>4. vaultSponsorBalances[v] \in Nat /\ vaultSponsorBalances'[v] \in Nat BY <1>1
<1> QED BY <1>1, <1>2, <1>3, <1>4, OwedIs

\* With no vault at all only the creator is owed anything.
LEMMA OwedCreator ==
    ASSUME GasTypes, GasTypes', UNCHANGED vaultSponsorBalances
    PROVE  Owed' + creatorSponsorBalance = Owed + creatorSponsorBalance'
<1>1. Owed' = creatorSponsorBalance' + SumOf(vaultSponsorBalances, SponsoredVaults)
  BY DEF Owed, SumOf, MapThenSumSet, MapThenFoldSet
<1>2. SumOf(vaultSponsorBalances, SponsoredVaults) \in Nat BY GasAssumptions, SumIsNatural DEF GasTypes
<1> QED BY <1>1, <1>2, OwedIs, SMTT(30) DEF GasTypes

\* The prefund of one more operation.
LEMMA OnePrefund ==
    ASSUME NEW n \in Nat PROVE MaxCost * n \in Nat /\ MaxCost * (n + 1) = MaxCost * n + MaxCost
BY GasAssumptions

\* A step of deposits and balances alone keeps the deposit equal to what is owed.
LEMMA StillBacked ==
    ASSUME GasTypes, GasTypes', DepositBacksBalances, UNCHANGED <<bundle, shortfall>>,
           deposit' + Owed = deposit + Owed', Owed \in Nat, Owed' \in Nat
    PROVE  DepositBacksBalances'
<1>1. Len(bundle) \in Nat /\ deposit \in Nat /\ deposit' \in Nat /\ shortfall \in Nat BY DEF GasTypes
<1>2. MaxCost * Len(bundle) \in Nat BY <1>1, OnePrefund
<1>3. deposit + MaxCost * Len(bundle) + shortfall = Owed BY DEF DepositBacksBalances
<1> DEFINE p == MaxCost * Len(bundle)
<1>4. p' = p OBVIOUS
<1> HIDE DEF p
<1>5. deposit' + p + shortfall = Owed' BY <1>1, <1>2, <1>3, SMTT(30) DEF p
<1> QED BY <1>4, <1>5 DEF DepositBacksBalances, p

\* Every payment moves the deposit and one balance alike, or is a shortfall.
LEMMA DepositStep == GasTypes /\ GasTypes' /\ DepositBacksBalances /\ [GasNext]_gasVars => DepositBacksBalances'
<1> SUFFICES ASSUME GasTypes, GasTypes', DepositBacksBalances, [GasNext]_gasVars PROVE DepositBacksBalances'
  OBVIOUS
<1>0. /\ deposit \in Nat /\ deposit' \in Nat /\ creatorSponsorBalance \in Nat /\ creatorSponsorBalance' \in Nat
      /\ vaultSponsorBalances \in [SponsoredVaults -> Nat] /\ vaultSponsorBalances' \in [SponsoredVaults -> Nat]
      /\ shortfall \in Nat /\ shortfall' \in Nat
  BY DEF GasTypes
<1>a. Owed \in Nat /\ Owed' \in Nat
  <2>1. Owed' = creatorSponsorBalance' + SumOf(vaultSponsorBalances', SponsoredVaults)
    BY DEF Owed, SumOf, MapThenSumSet, MapThenFoldSet
  <2>2. SumOf(vaultSponsorBalances, SponsoredVaults) \in Nat /\ SumOf(vaultSponsorBalances', SponsoredVaults) \in Nat
    BY <1>0, GasAssumptions, SumIsNatural
  <2> QED BY <1>0, <2>1, <2>2, OwedIs
<1>c. /\ deposit \in Nat /\ deposit' \in Nat /\ creatorSponsorBalance \in Nat
      /\ creatorSponsorBalance' \in Nat /\ shortfall \in Nat
  BY <1>0
<1>d. PICK o \in Nat : o = Owed BY <1>a
<1>e. PICK o1 \in Nat : o1 = Owed' BY <1>a
<1>b. Len(bundle) \in Nat BY DEF GasTypes
<1>1. ASSUME NEW v \in SponsoredVaults, DepositForVault(v) PROVE DepositBacksBalances'
  <2>1. /\ deposit' = deposit + MaxCost /\ vaultSponsorBalances'[v] = vaultSponsorBalances[v] + MaxCost
        /\ creatorSponsorBalance' = creatorSponsorBalance /\ UNCHANGED <<bundle, shortfall>>
        /\ \A x \in SponsoredVaults \ {v} : vaultSponsorBalances'[x] = vaultSponsorBalances[x]
    BY <1>0, <1>1 DEF DepositForVault
  <2>2. Owed' + creatorSponsorBalance + vaultSponsorBalances[v]
          = Owed + creatorSponsorBalance' + vaultSponsorBalances'[v]
    BY <2>1, OwedChanges
  <2>3. vaultSponsorBalances[v] \in Nat /\ vaultSponsorBalances'[v] \in Nat /\ MaxCost \in Nat
    BY <1>0, GasAssumptions
  <2>4. deposit' + creatorSponsorBalance + vaultSponsorBalances[v]
          = deposit + creatorSponsorBalance' + vaultSponsorBalances'[v]
    BY <1>0, <2>1, <2>3
  <2>5. deposit' + Owed = deposit + Owed' 
    <3>1. PICK b \in Nat : b = vaultSponsorBalances[v] BY <2>3
    <3>2. PICK b1 \in Nat : b1 = vaultSponsorBalances'[v] BY <2>3
    <3>3. Owed' + creatorSponsorBalance + b = Owed + creatorSponsorBalance' + b1 BY <2>2, <3>1, <3>2
    <3>4. deposit' + creatorSponsorBalance + b = deposit + creatorSponsorBalance' + b1 BY <2>4, <3>1, <3>2
    <3>5. b1 = b + MaxCost /\ MaxCost \in Nat /\ creatorSponsorBalance' = creatorSponsorBalance
      BY <2>1, <2>3, <3>1, <3>2
    <3>6. o1 + creatorSponsorBalance + b = o + creatorSponsorBalance + (b + MaxCost)
      BY <1>d, <1>e, <3>3, <3>5
    <3>7. o1 = o + MaxCost BY <1>c, <3>5, <3>6
    <3>8. deposit' + o = deposit + o1 BY <1>c, <2>1, <3>5, <3>7
    <3> QED BY <1>d, <1>e, <3>8
  <2> QED BY <1>a, <2>1, <2>5, StillBacked
<1>2. ASSUME NEW v \in SponsoredVaults, NEW a \in 1 .. MaxCost, WithdrawVaultDeposit(v, a)
      PROVE  DepositBacksBalances'
  <2>1. /\ deposit' = deposit - a /\ vaultSponsorBalances'[v] = vaultSponsorBalances[v] - a
        /\ creatorSponsorBalance' = creatorSponsorBalance /\ UNCHANGED <<bundle, shortfall>>
        /\ \A x \in SponsoredVaults \ {v} : vaultSponsorBalances'[x] = vaultSponsorBalances[x]
    BY <1>0, <1>2, GasAssumptions DEF WithdrawVaultDeposit
  <2>2. Owed' + creatorSponsorBalance + vaultSponsorBalances[v]
          = Owed + creatorSponsorBalance' + vaultSponsorBalances'[v]
    BY <2>1, OwedChanges
  <2>3. vaultSponsorBalances[v] \in Nat /\ vaultSponsorBalances'[v] \in Nat /\ MaxCost \in Nat
    BY <1>0, GasAssumptions
  <2>4. deposit' + creatorSponsorBalance + vaultSponsorBalances[v]
          = deposit + creatorSponsorBalance' + vaultSponsorBalances'[v]
    BY <1>0, <2>1, <2>3
  <2>5. deposit' + Owed = deposit + Owed' 
    <3>1. PICK b \in Nat : b = vaultSponsorBalances[v] BY <2>3
    <3>2. PICK b1 \in Nat : b1 = vaultSponsorBalances'[v] BY <2>3
    <3>3. Owed' + creatorSponsorBalance + b = Owed + creatorSponsorBalance' + b1 BY <2>2, <3>1, <3>2
    <3>4. deposit' + creatorSponsorBalance + b = deposit + creatorSponsorBalance' + b1 BY <2>4, <3>1, <3>2
    <3> QED BY <1>a, <1>c, <3>3, <3>4
  <2> QED BY <1>a, <2>1, <2>5, StillBacked
<1>3. CASE DepositForCreator
  <2>1. /\ deposit' = deposit + MaxCost /\ creatorSponsorBalance' = creatorSponsorBalance + MaxCost
        /\ UNCHANGED <<vaultSponsorBalances, bundle, shortfall>>
    BY <1>3 DEF DepositForCreator
  <2>2. Owed' + creatorSponsorBalance = Owed + creatorSponsorBalance' BY <2>1, OwedCreator
  <2>3. deposit' + creatorSponsorBalance = deposit + creatorSponsorBalance' BY <1>c, <2>1, GasAssumptions
  <2>4. deposit' + Owed = deposit + Owed' BY <1>a, <1>c, <2>2, <2>3
  <2> QED BY <1>a, <2>1, <2>4, StillBacked
<1>4. ASSUME NEW a \in 1 .. MaxCost, WithdrawCreatorDeposit(a) PROVE DepositBacksBalances'
  <2>1. /\ deposit' = deposit - a /\ creatorSponsorBalance' = creatorSponsorBalance - a
        /\ UNCHANGED <<vaultSponsorBalances, bundle, shortfall>>
    BY <1>4 DEF WithdrawCreatorDeposit
  <2>2. Owed' + creatorSponsorBalance = Owed + creatorSponsorBalance' BY <2>1, OwedCreator
  <2>3. deposit' + creatorSponsorBalance = deposit + creatorSponsorBalance' BY <1>c, <2>1, GasAssumptions
  <2>4. deposit' + Owed = deposit + Owed' BY <1>a, <1>c, <2>2, <2>3
  <2> QED BY <1>a, <2>1, <2>4, StillBacked
<1>5. ASSUME NEW op \in UserOps, ValidateOp(op) PROVE DepositBacksBalances'
  <2>1. /\ deposit' = deposit - MaxCost
        /\ creatorSponsorBalance' = creatorSponsorBalance /\ shortfall' = shortfall
        /\ UNCHANGED vaultSponsorBalances
    BY <1>5 DEF ValidateOp
  <2>2. Len(bundle') = Len(bundle) + 1 BY <1>5 DEF ValidateOp, GasTypes
  <2>4. Owed' = Owed BY <2>1 DEF Owed, MapThenSumSet, MapThenFoldSet
  <2>5. MaxCost * Len(bundle) \in Nat /\ MaxCost * Len(bundle') = MaxCost * Len(bundle) + MaxCost
    BY <1>b, <2>2, OnePrefund
  <2>6. deposit' + MaxCost * Len(bundle') + shortfall' = deposit + MaxCost * Len(bundle) + shortfall
    BY <1>c, <2>1, <2>5, GasAssumptions
  <2> QED BY <2>4, <2>6 DEF DepositBacksBalances
<1>6. CASE RunBundle \/ GasTick \/ UNCHANGED gasVars
  <2>1. /\ deposit' = deposit /\ creatorSponsorBalance' = creatorSponsorBalance
        /\ UNCHANGED <<vaultSponsorBalances, bundle, shortfall>>
    BY <1>6 DEF RunBundle, GasTick, gasVars
  <2>2. Owed' + creatorSponsorBalance = Owed + creatorSponsorBalance' BY <2>1, OwedCreator
  <2>3. deposit' + creatorSponsorBalance = deposit + creatorSponsorBalance' BY <1>c, <2>1, GasAssumptions
  <2>4. deposit' + Owed = deposit + Owed' BY <1>a, <1>c, <2>2, <2>3
  <2> QED BY <1>a, <2>1, <2>4, StillBacked
<1>7. ASSUME NEW cost \in 1 .. MaxCost, PostOp(cost) PROVE DepositBacksBalances'
  <2> DEFINE c == Head(bundle)
             balance == SponsorBalance(c)
  <2>1. bundle # <<>> /\ bundle' = Tail(bundle) /\ deposit' = deposit + MaxCost - cost
        /\ shortfall' = shortfall + Over(balance, cost)
    BY <1>7 DEF PostOp, SponsorBalance, BalanceOf
  <2>2. c \in Contexts BY <2>1 DEF GasTypes
  <2>3. c.vault \in SponsoredVaults /\ c.isVaultBalance \in BOOLEAN BY <2>2 DEF Contexts
  <2>4. balance \in Nat BY <1>0, <2>3 DEF SponsorBalance, BalanceOf
  <2>5. Len(bundle') \in Nat /\ Len(bundle) = Len(bundle') + 1
    <3>1. bundle \in Seq(Contexts) BY DEF GasTypes
    <3> QED BY <2>1, <3>1
  <2>6. MaxCost * Len(bundle') \in Nat /\ MaxCost * Len(bundle) = MaxCost * Len(bundle') + MaxCost
    BY <2>5, OnePrefund
  <2>7. Owed' + balance = Owed + Left(balance, cost)
    <3>1. CASE c.isVaultBalance
      <4>1. /\ vaultSponsorBalances' = [vaultSponsorBalances EXCEPT ![c.vault] = Left(@, cost)]
            /\ UNCHANGED creatorSponsorBalance /\ balance = vaultSponsorBalances[c.vault]
        BY <1>7, <3>1 DEF PostOp, SponsorBalance, BalanceOf
      <4>2. /\ vaultSponsorBalances'[c.vault] = Left(balance, cost)
            /\ \A x \in SponsoredVaults \ {c.vault} : vaultSponsorBalances'[x] = vaultSponsorBalances[x]
        BY <1>0, <2>3, <4>1
      <4>3. Owed' + creatorSponsorBalance + vaultSponsorBalances[c.vault]
              = Owed + creatorSponsorBalance' + vaultSponsorBalances'[c.vault]
        BY <2>3, <4>2, OwedChanges
      <4>4. Left(balance, cost) \in Nat BY <2>4 DEF Left
      <4> HIDE DEF c, balance
      <4> QED BY <1>0, <1>a, <2>4, <4>1, <4>2, <4>3, <4>4
    <3>2. CASE ~c.isVaultBalance
      <4>1. /\ UNCHANGED vaultSponsorBalances
            /\ creatorSponsorBalance' = Left(creatorSponsorBalance, cost) /\ balance = creatorSponsorBalance
        BY <1>7, <3>2 DEF PostOp, SponsorBalance, BalanceOf
      <4>2. Owed' + creatorSponsorBalance = Owed + creatorSponsorBalance' BY <4>1, OwedCreator
      <4> HIDE DEF c, balance
      <4> QED BY <4>1, <4>2
    <3> QED BY <3>1, <3>2
  <2>8. /\ Left(balance, cost) \in Nat /\ Over(balance, cost) \in Nat
        /\ balance + Over(balance, cost) = Left(balance, cost) + cost
    BY <2>4, GasAssumptions DEF Left, Over
  <2>9. deposit + MaxCost * Len(bundle) + shortfall = Owed BY DEF DepositBacksBalances
  <2> HIDE DEF c, balance
  <2>10. deposit' + MaxCost * Len(bundle') + shortfall' = Owed'
    <3>0. MaxCost \in Nat /\ cost \in Nat BY GasAssumptions
    <3>1. deposit + (MaxCost * Len(bundle') + MaxCost) + shortfall = Owed BY <2>6, <2>9
    <3>2. PICK p \in Nat : p = MaxCost * Len(bundle') BY <2>6
    <3>3. PICK left \in Nat : left = Left(balance, cost) BY <2>8
    <3>4. PICK over \in Nat : over = Over(balance, cost) BY <2>8
    <3>5. deposit + (p + MaxCost) + shortfall = Owed /\ Owed' + balance = Owed + left
          /\ balance + over = left + cost
      BY <2>7, <2>8, <3>1, <3>2, <3>3, <3>4
    <3>6. PICK b \in Nat : b = balance BY <2>4
    <3>7. deposit + (p + MaxCost) + shortfall = o /\ o1 + b = o + left /\ b + over = left + cost
      BY <1>d, <1>e, <3>5, <3>6
    <3>8. o1 = (deposit + MaxCost - cost) + p + (shortfall + over) BY <1>c, <3>0, <3>7
    <3>10. Owed' = (deposit + MaxCost - cost) + p + (shortfall + over) BY <1>e, <3>8
    <3> QED BY <2>1, <3>2, <3>4, <3>10
  <2> QED BY <2>10 DEF DepositBacksBalances
<1> QED BY <1>1, <1>2, <1>3, <1>4, <1>5, <1>6, <1>7 DEF GasNext

\* Sponsors are only promised what they have while each pays for one operation.
LEMMA PledgeStep == GasTypes /\ PledgeInv /\ [GasNext]_gasVars => PledgeInv'
<1> SUFFICES ASSUME GasTypes, PledgeInv, [GasNext]_gasVars PROVE PledgeInv' OBVIOUS
<1>0. MaxCost \in Nat BY GasAssumptions
<1>1. ASSUME bundle = <<>>, UNCHANGED <<bundle, shortfall, pledgedTwice>> PROVE PledgeInv'
  BY <1>1 DEF PledgeInv
<1>2. ASSUME UNCHANGED <<bundle, shortfall, pledgedTwice, vaultSponsorBalances, creatorSponsorBalance>>
      PROVE PledgeInv'
  BY <1>2 DEF PledgeInv, SponsorBalance, BalanceOf, SameSponsor
<1>3. ASSUME NEW v \in SponsoredVaults, DepositForVault(v) PROVE PledgeInv'
  BY <1>1, <1>3 DEF DepositForVault
<1>4. ASSUME NEW v \in SponsoredVaults, NEW a \in 1 .. MaxCost, WithdrawVaultDeposit(v, a) PROVE PledgeInv'
  BY <1>1, <1>4 DEF WithdrawVaultDeposit
<1>5. CASE DepositForCreator BY <1>1, <1>5 DEF DepositForCreator
<1>6. ASSUME NEW a \in 1 .. MaxCost, WithdrawCreatorDeposit(a) PROVE PledgeInv'
  BY <1>1, <1>6 DEF WithdrawCreatorDeposit
<1>7. ASSUME NEW op \in UserOps, ValidateOp(op) PROVE PledgeInv'
  <2> DEFINE v == ResolveVaultId(op)
             own == Sponsors(vaultSponsorBalances[v])
             c == [op |-> op, vault |-> v, isVaultBalance |-> own]
             n == Len(bundle)
  <2> SUFFICES ASSUME ~pledgedTwice'
               PROVE  /\ shortfall' = 0
                      /\ \A i \in DOMAIN bundle' : BalanceOf(bundle'[i], vaultSponsorBalances', creatorSponsorBalance') >= MaxCost
                      /\ \A i, j \in DOMAIN bundle' : i # j => ~SameSponsor(bundle'[i], bundle'[j])
    BY DEF PledgeInv, SameSponsor, SponsorBalance
  <2>1. pledgedTwice' = (pledgedTwice \/ \E i \in DOMAIN bundle :
                       bundle[i].isVaultBalance = own /\ (own => bundle[i].vault = v))
    BY <1>7, Zenon DEF ValidateOp
  <2>2. ~pledgedTwice BY <2>1, Zenon
  <2>3. \A i \in DOMAIN bundle : ~(bundle[i].isVaultBalance = own /\ (own => bundle[i].vault = v))
    BY <2>1, Zenon
  <2>4. own \in BOOLEAN BY DEF Sponsors
  <2>5. c.isVaultBalance = own /\ c.vault = v BY Zenon
  <2>6. \A i \in DOMAIN bundle : ~SameSponsor(bundle[i], c) /\ ~SameSponsor(c, bundle[i])
    <3> TAKE i \in DOMAIN bundle
    <3>1. bundle[i] \in Contexts BY DEF GasTypes
    <3>2. bundle[i].isVaultBalance \in BOOLEAN BY <3>1 DEF Contexts
    <3>3. ~(bundle[i].isVaultBalance = own /\ (own => bundle[i].vault = v)) BY <2>3
    <3> HIDE DEF c, own
    <3> QED BY <2>4, <2>5, <3>2, <3>3, Zenon DEF SameSponsor
  <2>7. bundle' = Append(bundle, c) /\ shortfall' = shortfall
        /\ vaultSponsorBalances' = vaultSponsorBalances /\ creatorSponsorBalance' = creatorSponsorBalance
    BY <1>7 DEF ValidateOp
  <2>8. SponsorBalance(c) >= MaxCost
    <3>1. own \/ Sponsors(creatorSponsorBalance) BY <1>7 DEF ValidateOp
    <3>2. CASE own
      <4>1. SponsorBalance(c) = vaultSponsorBalances[v] BY <2>5, <3>2, Zenon DEF SponsorBalance, BalanceOf
      <4> QED BY <3>2, <4>1 DEF Sponsors
    <3>3. CASE ~own
      <4>1. SponsorBalance(c) = creatorSponsorBalance BY <2>5, <3>3, Zenon DEF SponsorBalance, BalanceOf
      <4> QED BY <3>1, <3>3, <4>1 DEF Sponsors
    <3> QED BY <3>2, <3>3
  <2> HIDE DEF c, own, v
  <2>9. n \in Nat /\ bundle \in Seq(Contexts) BY DEF GasTypes
  <2>10. DOMAIN bundle = 1 .. n /\ DOMAIN bundle' = 1 .. (n + 1) /\ bundle'[n + 1] = c
         /\ \A i \in 1 .. n : bundle'[i] = bundle[i]
    <3>1. Len(bundle') = n + 1 BY <2>7, <2>9
    <3> QED BY <2>7, <2>9, <3>1
  <2>11. /\ shortfall = 0
         /\ \A i \in DOMAIN bundle : SponsorBalance(bundle[i]) >= MaxCost
         /\ \A i, j \in DOMAIN bundle : i # j => ~SameSponsor(bundle[i], bundle[j])
    BY <2>2 DEF PledgeInv
  <2>13. ASSUME NEW i \in DOMAIN bundle' PROVE BalanceOf(bundle'[i], vaultSponsorBalances', creatorSponsorBalance') >= MaxCost
    <3>1. BalanceOf(bundle'[i], vaultSponsorBalances', creatorSponsorBalance') = SponsorBalance(bundle'[i])
      BY <2>7 DEF SponsorBalance
    <3>2. CASE i = n + 1 BY <2>8, <2>10, <3>1, <3>2
    <3>3. CASE i # n + 1
      <4>1. i \in DOMAIN bundle /\ bundle'[i] = bundle[i] BY <2>9, <2>10, <3>3
      <4> QED BY <2>11, <3>1, <4>1
    <3> QED BY <3>2, <3>3
  <2>14. ASSUME NEW i \in DOMAIN bundle', NEW j \in DOMAIN bundle', i # j
         PROVE ~SameSponsor(bundle'[i], bundle'[j])
    <3>1. \A k \in DOMAIN bundle' : k = n + 1 \/ (k \in DOMAIN bundle /\ bundle'[k] = bundle[k])
      BY <2>9, <2>10
    <3> QED BY <2>6, <2>10, <2>11, <2>14, <3>1
  <2> QED BY <2>7, <2>11, <2>13, <2>14
<1>8. CASE RunBundle BY <1>2, <1>8 DEF RunBundle
<1>9. CASE GasTick BY <1>2, <1>9 DEF GasTick
<1>10. ASSUME NEW cost \in 1 .. MaxCost, PostOp(cost) PROVE PledgeInv'
  <2> DEFINE c == Head(bundle)
             n == Len(bundle)
  <2> SUFFICES ASSUME ~pledgedTwice'
               PROVE  /\ shortfall' = 0
                      /\ \A i \in DOMAIN bundle' : BalanceOf(bundle'[i], vaultSponsorBalances', creatorSponsorBalance') >= MaxCost
                      /\ \A i, j \in DOMAIN bundle' : i # j => ~SameSponsor(bundle'[i], bundle'[j])
    BY DEF PledgeInv, SameSponsor, SponsorBalance
  <2>1. bundle # <<>> /\ bundle' = Tail(bundle) /\ pledgedTwice' = pledgedTwice
        /\ shortfall' = shortfall + Over(SponsorBalance(c), cost)
    BY <1>10 DEF PostOp, SponsorBalance, BalanceOf
  <2>2. n \in Nat \ {0} /\ bundle \in Seq(Contexts) /\ DOMAIN bundle = 1 .. n /\ c = bundle[1]
        /\ DOMAIN bundle' = 1 .. (n - 1) /\ \A i \in 1 .. (n - 1) : bundle'[i] = bundle[i + 1]
    <3>1. bundle \in Seq(Contexts) BY DEF GasTypes
    <3> QED BY <2>1, <3>1
  <2>3. /\ shortfall = 0
        /\ \A i \in DOMAIN bundle : SponsorBalance(bundle[i]) >= MaxCost
        /\ \A i, j \in DOMAIN bundle : i # j => ~SameSponsor(bundle[i], bundle[j])
    BY <2>1 DEF PledgeInv
  <2>4. \A i \in DOMAIN bundle : bundle[i] \in Contexts BY <2>2
  <2>5. \A i \in DOMAIN bundle : bundle[i].vault \in SponsoredVaults /\ bundle[i].isVaultBalance \in BOOLEAN
    BY <2>4 DEF Contexts
  <2>6. SponsorBalance(c) \in Nat /\ SponsorBalance(c) >= MaxCost
    <3>1. 1 \in DOMAIN bundle BY <2>2
    <3> QED BY <2>2, <2>3, <2>5, <3>1 DEF SponsorBalance, BalanceOf, GasTypes
  <2>7. shortfall' = 0
    <3>1. Over(SponsorBalance(c), cost) = 0 BY <1>0, <2>6 DEF Over
    <3> QED BY <2>1, <2>3, <3>1
  <2>8. \A i \in DOMAIN bundle' : i + 1 \in DOMAIN bundle /\ bundle'[i] = bundle[i + 1] /\ i + 1 # 1
    BY <2>2
  <2>9. ASSUME NEW i \in DOMAIN bundle' PROVE BalanceOf(bundle'[i], vaultSponsorBalances', creatorSponsorBalance') >= MaxCost
    <3> DEFINE d == bundle[i + 1]
    <3>0. 1 \in DOMAIN bundle /\ i + 1 \in DOMAIN bundle BY <2>2, <2>8
    <3>1. bundle'[i] = d /\ ~SameSponsor(c, d) /\ SponsorBalance(d) >= MaxCost
      BY <2>2, <2>3, <2>8, <3>0
    <3>2. d.vault \in SponsoredVaults /\ d.isVaultBalance \in BOOLEAN /\ c.isVaultBalance \in BOOLEAN
          /\ c.vault \in SponsoredVaults
      BY <2>2, <2>5, <3>0
    <3> HIDE DEF c, d
    <3>3. /\ vaultSponsorBalances' = IF c.isVaultBalance
             THEN [vaultSponsorBalances EXCEPT ![c.vault] = Left(@, cost)] ELSE vaultSponsorBalances
          /\ creatorSponsorBalance' = IF c.isVaultBalance THEN creatorSponsorBalance
                                      ELSE Left(creatorSponsorBalance, cost)
      BY <1>10 DEF PostOp, c
    <3>4. CASE d.isVaultBalance
      <4>1. c.isVaultBalance => c.vault # d.vault BY <3>1, <3>2, <3>4 DEF SameSponsor
      <4>2. vaultSponsorBalances'[d.vault] = vaultSponsorBalances[d.vault]
        BY <3>2, <3>3, <4>1 DEF GasTypes
      <4> QED BY <3>1, <3>4, <4>2 DEF SponsorBalance, BalanceOf
    <3>5. CASE ~d.isVaultBalance
      <4>1. c.isVaultBalance BY <3>1, <3>2, <3>5 DEF SameSponsor
      <4> QED BY <3>1, <3>3, <3>5, <4>1 DEF SponsorBalance, BalanceOf
    <3> QED BY <3>4, <3>5
  <2>10. ASSUME NEW i \in DOMAIN bundle', NEW j \in DOMAIN bundle', i # j
         PROVE ~SameSponsor(bundle'[i], bundle'[j])
    <3>1. i \in Int /\ j \in Int BY <2>2
    <3>2. i + 1 # j + 1 BY <2>10, <3>1
    <3> QED BY <2>3, <2>8, <3>2
  <2> QED BY <2>7, <2>9, <2>10
<1>11. CASE UNCHANGED gasVars BY <1>2, <1>11 DEF gasVars
<1> QED BY <1>3, <1>4, <1>5, <1>6, <1>7, <1>8, <1>9, <1>10, <1>11 DEF GasNext

\* The vault charged stays the one validated.
LEMMA ChargeStep == GasTypes /\ ChargeInv /\ [GasNext]_gasVars => ChargeInv'
<1> SUFFICES ASSUME GasTypes, ChargeInv, [GasNext]_gasVars PROVE ChargeInv' OBVIOUS
<1>1. CASE UNCHANGED <<bundle, executed>> BY <1>1 DEF ChargeInv, PaidByItsOwnVault
<1>2. ASSUME NEW op \in UserOps, ValidateOp(op) PROVE ChargeInv'
  <2> DEFINE v == ResolveVaultId(op)
             c == [op |-> op, vault |-> v, isVaultBalance |-> Sponsors(vaultSponsorBalances[v])]
             n == Len(bundle)
  <2>1. op.about # 0 => v = op.about BY <1>2, ResolvedVault DEF ValidateOp
  <2>2. c.op = op /\ c.vault = v BY Zenon
  <2>3. bundle' = Append(bundle, c) /\ executed' = executed BY <1>2 DEF ValidateOp
  <2> HIDE DEF c, v
  <2>4. n \in Nat /\ bundle \in Seq(Contexts) BY DEF GasTypes
  <2>5. DOMAIN bundle = 1 .. n /\ DOMAIN bundle' = 1 .. (n + 1) /\ bundle'[n + 1] = c
        /\ \A i \in 1 .. n : bundle'[i] = bundle[i]
    <3>1. Len(bundle') = n + 1 BY <2>3, <2>4
    <3> QED BY <2>3, <2>4, <3>1
  <2>6. \A i \in DOMAIN bundle' : i = n + 1 \/ (i \in DOMAIN bundle /\ bundle'[i] = bundle[i])
    BY <2>4, <2>5
  <2>7. \A i \in DOMAIN bundle' : bundle'[i].op.about # 0 => bundle'[i].vault = bundle'[i].op.about
    BY <2>1, <2>2, <2>5, <2>6 DEF ChargeInv
  <2> QED BY <2>3, <2>7 DEF ChargeInv, PaidByItsOwnVault
<1>3. ASSUME NEW cost \in 1 .. MaxCost, PostOp(cost) PROVE ChargeInv'
  <2> DEFINE c == Head(bundle)
             e == [about |-> c.op.about, vault |-> c.vault]
             n == Len(bundle)
             m == Len(executed)
  <2>1. bundle # <<>> /\ bundle' = Tail(bundle) /\ executed' = Append(executed, e) BY <1>3 DEF PostOp
  <2>2. n \in Nat \ {0} /\ DOMAIN bundle = 1 .. n /\ c = bundle[1]
        /\ DOMAIN bundle' = 1 .. (n - 1) /\ \A i \in 1 .. (n - 1) : bundle'[i] = bundle[i + 1]
    <3>1. bundle \in Seq(Contexts) BY DEF GasTypes
    <3> QED BY <2>1, <3>1
  <2>3. e.about # 0 => e.vault = e.about
    <3>1. 1 \in DOMAIN bundle BY <2>2
    <3> QED BY <2>2, <3>1 DEF ChargeInv
  <2> HIDE DEF c, e
  <2>4. m \in Nat /\ executed \in Seq(Charges) BY DEF GasTypes
  <2>5. \A i \in DOMAIN executed' : executed'[i] = e \/ (i \in DOMAIN executed /\ executed'[i] = executed[i])
    <3>1. Len(executed') = m + 1 /\ DOMAIN executed' = 1 .. (m + 1) /\ DOMAIN executed = 1 .. m
      BY <2>1, <2>4
    <3> QED BY <2>1, <2>4, <3>1
  <2>6. \A i \in DOMAIN bundle' : i + 1 \in DOMAIN bundle /\ bundle'[i] = bundle[i + 1] BY <2>2
  <2>7. \A i \in DOMAIN bundle' : bundle'[i].op.about # 0 => bundle'[i].vault = bundle'[i].op.about
    BY <2>6 DEF ChargeInv
  <2>8. PaidByItsOwnVault' BY <2>3, <2>5 DEF ChargeInv, PaidByItsOwnVault
  <2> QED BY <2>7, <2>8 DEF ChargeInv
<1> QED BY <1>1, <1>2, <1>3 DEF GasNext, DepositForVault, WithdrawVaultDeposit, DepositForCreator,
                                WithdrawCreatorDeposit, RunBundle, GasTick, gasVars

\* Windows begin in the past and no counter passes its limit.
LEMMA RateTypesStep == RateTypes /\ [GasNext]_gasVars => RateTypes'
<1> SUFFICES ASSUME RateTypes, [GasNext]_gasVars PROVE RateTypes' OBVIOUS
<1>0. /\ OpsPerWindow \in Nat \ {0} /\ VaultOpsPerWindow \in Nat \ {0} /\ RateWindow \in Nat
  BY GasAssumptions
<1>1. CASE UNCHANGED <<gasClock, rates, sponsored>> BY <1>1 DEF RateTypes, rates
<1>2. CASE GasTick BY <1>2 DEF GasTick, RateTypes, rates
<1>3. ASSUME NEW op \in UserOps, ValidateOp(op) PROVE RateTypes'
  <2> DEFINE g == op.sender
             v == ResolveVaultId(op)
  <2>1. g \in Guardians /\ v \in SponsoredVaults BY <1>3, ResolvedVault DEF UserOps, ValidateOp
  <2>2. EnforceRateLimits(g, v) /\ gasClock' = gasClock
        /\ sponsored' = [sponsored EXCEPT ![g] = Append(@, gasClock)]
    BY <1>3 DEF ValidateOp
  <2> HIDE DEF g, v
  <2>3. gasClock \in Nat BY DEF RateTypes
  <2>4. guardianWindowStart' \in [Guardians -> Nat] /\ vaultWindowStart' \in [SponsoredVaults -> Nat]
    BY <2>1, <2>2, <2>3 DEF EnforceRateLimits, RateTypes
  <2>5. guardianOpCount' \in [Guardians -> 0 .. OpsPerWindow]
    <3>1. guardianOpCount' = [guardianOpCount EXCEPT ![g] =
              IF NewWindow(guardianWindowStart[g]) THEN 1 ELSE guardianOpCount[g] + 1]
      BY <2>2 DEF EnforceRateLimits
    <3>2. NewWindow(guardianWindowStart[g]) \/ guardianOpCount[g] < OpsPerWindow
      BY <2>2 DEF EnforceRateLimits, BelowLimit
    <3>3. guardianOpCount[g] \in 0 .. OpsPerWindow BY <2>1 DEF RateTypes
    <3>4. (IF NewWindow(guardianWindowStart[g]) THEN 1 ELSE guardianOpCount[g] + 1) \in 0 .. OpsPerWindow
      BY <1>0, <3>2, <3>3
    <3> QED BY <2>1, <3>1, <3>4 DEF RateTypes
  <2>6. vaultOpCount' \in [SponsoredVaults -> 0 .. VaultOpsPerWindow]
    <3>1. vaultOpCount' = [vaultOpCount EXCEPT ![v] =
              IF NewWindow(vaultWindowStart[v]) THEN 1 ELSE vaultOpCount[v] + 1]
      BY <2>2 DEF EnforceRateLimits
    <3>2. NewWindow(vaultWindowStart[v]) \/ vaultOpCount[v] < VaultOpsPerWindow
      BY <2>2 DEF EnforceRateLimits, BelowLimit
    <3>3. vaultOpCount[v] \in 0 .. VaultOpsPerWindow BY <2>1 DEF RateTypes
    <3>4. (IF NewWindow(vaultWindowStart[v]) THEN 1 ELSE vaultOpCount[v] + 1) \in 0 .. VaultOpsPerWindow
      BY <1>0, <3>2, <3>3
    <3> QED BY <2>1, <3>1, <3>4 DEF RateTypes
  <2>7. sponsored' \in [Guardians -> Seq(Nat)]
    <3>1. sponsored[g] \in Seq(Nat) BY <2>1 DEF RateTypes
    <3>2. Append(sponsored[g], gasClock) \in Seq(Nat) BY <2>3, <3>1
    <3> QED BY <2>1, <2>2, <3>2 DEF RateTypes
  <2> QED BY <2>2, <2>3, <2>4, <2>5, <2>6, <2>7 DEF RateTypes
<1> QED BY <1>1, <1>2, <1>3 DEF GasNext, DepositForVault, WithdrawVaultDeposit, DepositForCreator,
                                WithdrawCreatorDeposit, RunBundle, PostOp, gasVars

\* No span of one window holds more than two windows' worth of operations.
LEMMA RateStep == RateTypes /\ RateInv /\ [GasNext]_gasVars => RateInv'
<1> SUFFICES ASSUME RateTypes, RateInv, [GasNext]_gasVars PROVE RateInv' OBVIOUS
<1>1. CASE UNCHANGED <<gasClock, rates, sponsored>> BY <1>1 DEF RateInv, rates
<1>2. CASE GasTick
  <2>1. gasClock' = gasClock + 1 /\ UNCHANGED <<guardianWindowStart, guardianOpCount, sponsored>>
    BY <1>2 DEF GasTick, rates
  <2> SUFFICES ASSUME NEW g \in Guardians
               PROVE  RateKept(sponsored[g], guardianWindowStart[g], guardianOpCount[g], gasClock + 1)
    BY <2>1 DEF RateInv
  <2>2. RateKept(sponsored[g], guardianWindowStart[g], guardianOpCount[g], gasClock) BY DEF RateInv
  <2>3. gasClock \in Nat /\ guardianWindowStart[g] \in Nat /\ sponsored[g] \in Seq(Nat) BY DEF RateTypes
  <2>4. guardianWindowStart[g] <= gasClock + 1 BY <2>2, <2>3 DEF RateKept
  <2>5. \A j \in DOMAIN sponsored[g] : sponsored[g][j] <= gasClock + 1
    <3> TAKE j \in DOMAIN sponsored[g]
    <3>1. sponsored[g][j] \in Nat BY <2>3
    <3>2. sponsored[g][j] <= gasClock BY <2>2 DEF RateKept
    <3> QED BY <2>3, <3>1, <3>2
  <2> QED BY <2>2, <2>4, <2>5 DEF RateKept
<1>3. ASSUME NEW op \in UserOps, ValidateOp(op) PROVE RateInv'
  <2> DEFINE g == op.sender
             v == ResolveVaultId(op)
  <2>1. g \in Guardians BY DEF UserOps
  <2>2. EnforceRateLimits(g, v) /\ gasClock' = gasClock
        /\ sponsored' = [sponsored EXCEPT ![g] = Append(@, gasClock)]
    BY <1>3 DEF ValidateOp
  <2> HIDE DEF g, v
  <2> SUFFICES ASSUME NEW h \in Guardians
               PROVE  RateKept(sponsored'[h], guardianWindowStart'[h], guardianOpCount'[h], gasClock)
    BY <2>2 DEF RateInv
  <2>3. RateKept(sponsored[h], guardianWindowStart[h], guardianOpCount[h], gasClock) BY DEF RateInv
  <2>4. CASE h # g
    <3>1. sponsored'[h] = sponsored[h] /\ guardianWindowStart'[h] = guardianWindowStart[h]
          /\ guardianOpCount'[h] = guardianOpCount[h]
      BY <2>1, <2>2, <2>4 DEF EnforceRateLimits, RateTypes
    <3> QED BY <2>3, <3>1
  <2>5. CASE h = g
    <3>1. /\ sponsored'[h] = Append(sponsored[h], gasClock)
          /\ guardianWindowStart'[h] = IF NewWindow(guardianWindowStart[h]) THEN gasClock
                                       ELSE guardianWindowStart[h]
          /\ guardianOpCount'[h] = IF NewWindow(guardianWindowStart[h]) THEN 1 ELSE guardianOpCount[h] + 1
      BY <2>1, <2>2, <2>5 DEF EnforceRateLimits, RateTypes
    <3>2. NewWindow(guardianWindowStart[h]) \/ guardianOpCount[h] < OpsPerWindow
      BY <2>2, <2>5 DEF EnforceRateLimits, BelowLimit
    <3>3. gasClock \in Nat /\ guardianWindowStart[h] \in Nat /\ sponsored[h] \in Seq(Nat)
          /\ guardianOpCount[h] \in 0 .. OpsPerWindow
      BY DEF RateTypes
    <3>4. /\ gasClock >= guardianWindowStart[h] + RateWindow
               => RateKept(Append(sponsored[h], gasClock), gasClock, 1, gasClock)
          /\ gasClock < guardianWindowStart[h] + RateWindow /\ guardianOpCount[h] < OpsPerWindow
               => RateKept(Append(sponsored[h], gasClock), guardianWindowStart[h], guardianOpCount[h] + 1, gasClock)
      BY <2>3, <3>3, OneMore
    <3>5. RateWindow \in Nat BY GasAssumptions
    <3>6. CASE NewWindow(guardianWindowStart[h]) BY <3>1, <3>4, <3>6 DEF NewWindow
    <3>7. CASE ~NewWindow(guardianWindowStart[h])
      <4>1. gasClock < guardianWindowStart[h] + RateWindow BY <3>3, <3>5, <3>7 DEF NewWindow
      <4> QED BY <3>1, <3>2, <3>4, <3>7, <4>1
    <3> QED BY <3>6, <3>7
  <2> QED BY <2>4, <2>5
<1> QED BY <1>1, <1>2, <1>3 DEF GasNext, DepositForVault, WithdrawVaultDeposit, DepositForCreator,
                                WithdrawCreatorDeposit, RunBundle, PostOp, gasVars

GasInv == GasTypes /\ DepositBacksBalances /\ PledgeInv /\ ChargeInv /\ RateTypes /\ RateInv

\* Sponsoring keeps its invariant.
LEMMA GasStepKeeps == GasInv /\ [GasNext]_gasVars => GasInv'
BY GasTypesStep, DepositStep, PledgeStep, ChargeStep, RateTypesStep, RateStep DEF GasInv

\* What the invariant says of the state.
LEMMA GasCorrect ==
    GasInv => /\ GasTypeOK /\ DepositBacksBalances /\ OverdrawnOnlyByBundles
              /\ PaidByItsOwnVault /\ RateLimitHolds
<1> SUFFICES ASSUME GasInv
             PROVE  /\ GasTypeOK /\ DepositBacksBalances /\ OverdrawnOnlyByBundles
                    /\ PaidByItsOwnVault /\ RateLimitHolds
  OBVIOUS
<1>1. GasTypeOK
  <2>1. \A g \in Guardians : guardianOpCount[g] \in 0 .. OpsPerWindow BY DEF GasInv, RateTypes
  <2>2. \A v \in SponsoredVaults : vaultOpCount[v] \in 0 .. VaultOpsPerWindow BY DEF GasInv, RateTypes
  <2> QED BY <2>1, <2>2 DEF GasInv, GasTypes, GasTypeOK
<1>2. OverdrawnOnlyByBundles
  <2>1. shortfall > 0 => shortfall # 0 BY DEF GasInv, GasTypes
  <2> QED BY <2>1 DEF GasInv, PledgeInv, OverdrawnOnlyByBundles
<1>3. RateLimitHolds BY DEF GasInv, RateInv, RateKept, Span, RateLimitHolds
<1> QED BY <1>1, <1>2, <1>3 DEF GasInv, ChargeInv
-----------------------------------------------------------------------------
(* Keeping entries and vaults alive.                                       *)

CycleRecs == [latest : Nat, next : Nat \ {0}, todo : SUBSET Nat, seq : Nat, tries : Nat]

\* Cycle c has yet to look at entry e, or to extend it.
Pending(c, e) == e >= c.next \/ e \in c.todo

\* The life of e reaches over the threshold, counted from ledger t, or the first
\* cycle that began at t or later is still going to see to it.
Served(e, t) ==
    \/ live[e] >= t + TtlThreshold
    \/ \E c \in cycles : Pending(c, e) /\ t <= c.latest /\ c.latest < t + PollInterval

TtlTypes ==
    /\ now \in Nat /\ lastCycle \in Nat /\ lastCycle <= now /\ now <= lastCycle + PollInterval
    /\ live \in [Entries -> Nat] /\ cycles \subseteq CycleRecs /\ sequence \in Nat
    /\ \A c \in cycles : /\ PollInterval <= c.latest /\ c.latest <= lastCycle
                         /\ now <= c.latest + CycleTime

AllServed == \A e \in Scanned \ gaveUp : \A t \in 0 .. lastCycle : Served(e, t)

TtlInv == TtlTypes /\ (PollInterval + CycleTime <= TtlThreshold => AllServed)

\* A cycle scans entries there are.
LEMMA ScannedAreEntries ==
    /\ Scanned \subseteq Entries /\ Entries \subseteq Nat
    /\ \E m \in Nat : Scanned = 1 .. m
<1>0. EntryCount \in Nat /\ MaxEntries \in Nat BY UpkeepConstants
<1> DEFINE S == {EntryCount, MaxEntries}
<1>1. \E x \in S : \A y \in S : x <= y BY <1>0
<1>2. Min(S) \in S /\ \A y \in S : Min(S) <= y BY <1>1 DEF Min
<1>3. Min(S) \in Nat /\ Min(S) <= EntryCount BY <1>0, <1>2
<1> HIDE DEF S
<1>4. \A m \in Nat : m <= EntryCount => 1 .. m \subseteq 1 .. EntryCount BY <1>0
<1>5. 1 .. Min(S) \subseteq 1 .. EntryCount /\ 1 .. EntryCount \subseteq Nat BY <1>0, <1>3, <1>4
<1> QED BY <1>3, <1>5 DEF Scanned, Entries, S

\* While every entry is served none has run out.
LEMMA ServedLive ==
    ASSUME TtlTypes, PollInterval + CycleTime <= TtlThreshold, NEW e \in Entries,
           \A t \in 0 .. lastCycle : Served(e, t)
    PROVE  live[e] >= now
<1>0. /\ PollInterval \in Nat \ {0} /\ CycleTime \in Nat /\ TtlThreshold \in Nat \ {0}
      /\ now \in Nat /\ lastCycle \in Nat /\ lastCycle <= now /\ now <= lastCycle + PollInterval
      /\ live[e] \in Nat
  BY UpkeepConstants DEF TtlTypes
<1> SUFFICES ASSUME live[e] < now PROVE FALSE BY <1>0
<1> DEFINE t == IF live[e] + 1 >= TtlThreshold THEN live[e] + 1 - TtlThreshold ELSE 0
<1>1. t \in 0 .. lastCycle BY <1>0
<1>2. t \in Nat /\ live[e] < t + TtlThreshold /\ (t # 0 => t + TtlThreshold = live[e] + 1) BY <1>0
<1>3. Served(e, t) BY <1>1
<1> HIDE DEF t
<1>4. PICK c \in cycles : t <= c.latest /\ c.latest < t + PollInterval BY <1>0, <1>2, <1>3 DEF Served
<1>5. c.latest \in Nat /\ PollInterval <= c.latest /\ now <= c.latest + CycleTime
  BY <1>4 DEF TtlTypes, CycleRecs
<1> QED BY <1>0, <1>2, <1>4, <1>5

\* At first every entry lives as long as the threshold asks.
LEMMA TtlInitial == UpkeepInit => TtlInv
<1> SUFFICES ASSUME UpkeepInit PROVE TtlInv OBVIOUS
<1>0. TtlThreshold \in Nat /\ PollInterval \in Nat \ {0} BY UpkeepConstants
<1>1. now = 0 /\ lastCycle = 0 /\ cycles = {} /\ sequence = 0
      /\ live \in [Entries -> {TtlThreshold, TtlThreshold + 1}]
  BY DEF UpkeepInit
<1>2. \A e \in Entries : live[e] \in Nat /\ live[e] >= TtlThreshold BY <1>0, <1>1
<1>3. TtlTypes BY <1>0, <1>1, <1>2 DEF TtlTypes
<1>4. AllServed
  <2> SUFFICES ASSUME NEW e \in Scanned, NEW t \in 0 .. lastCycle PROVE Served(e, t) BY DEF AllServed
  <2>1. t = 0 BY <1>1
  <2> QED BY <1>0, <1>2, <2>1, ScannedAreEntries DEF Served
<1> QED BY <1>3, <1>4 DEF TtlInv

CycleSteps(c) ==
    \/ ScanEntry(c) \/ ScanFails(c) \/ CountFails(c) \/ Prepare(c) \/ Send(c)
    \/ SendFails(c) \/ GiveUp(c) \/ EndCycle(c)

\* Cycles keep their pace.
LEMMA TtlTypesStep == TtlTypes /\ [TtlNext]_upkeepVars => TtlTypes'
<1> SUFFICES ASSUME TtlTypes, [TtlNext]_upkeepVars PROVE TtlTypes' OBVIOUS
<1>0. /\ PollInterval \in Nat \ {0} /\ CycleTime \in Nat /\ TtlThreshold \in Nat \ {0} /\ MaxTtl \in Nat
      /\ MaxEntries \in Nat
  BY UpkeepConstants
<1>1. CASE UNCHANGED <<now, ttlVars>> BY <1>1 DEF TtlTypes, ttlVars
<1>2. CASE TtlTick
  <2>1. now' = now + 1 /\ UNCHANGED ttlVars BY <1>2 DEF TtlTick
  <2>2. now < lastCycle + PollInterval /\ \A c \in cycles : now < c.latest + CycleTime BY <1>2 DEF TtlTick
  <2>3. \A c \in cycles : c.latest \in Nat BY DEF TtlTypes, CycleRecs
  <2>4. \A c \in cycles : now + 1 <= c.latest + CycleTime BY <1>0, <2>2, <2>3 DEF TtlTypes
  <2>5. now + 1 \in Nat /\ lastCycle <= now + 1 /\ now + 1 <= lastCycle + PollInterval
    BY <1>0, <2>2 DEF TtlTypes
  <2> QED BY <2>1, <2>4, <2>5 DEF TtlTypes, ttlVars
<1>3. CASE StartCycle
  <2> DEFINE d == [latest |-> now, next |-> 1, todo |-> {}, seq |-> sequence, tries |-> 0]
  <2>1. now = lastCycle + PollInterval /\ lastCycle' = now /\ cycles' = cycles \cup {d}
        /\ now' = now /\ live' = live /\ sequence' = sequence
    BY <1>3 DEF StartCycle
  <2>2. d \in CycleRecs /\ d.latest = now BY DEF CycleRecs, TtlTypes
  <2> HIDE DEF d
  <2>3. \A c \in cycles : c.latest \in Nat /\ c.latest <= lastCycle BY DEF TtlTypes, CycleRecs
  <2>4. now \in Nat /\ lastCycle \in Nat /\ PollInterval <= now /\ now <= now + CycleTime
        /\ now <= now + PollInterval /\ now <= now
    BY <1>0, <2>1 DEF TtlTypes
  <2>5. \A c \in cycles : c.latest <= now BY <1>0, <2>1, <2>3, <2>4
  <2> QED BY <2>1, <2>2, <2>4, <2>5 DEF TtlTypes
<1>4. ASSUME NEW c \in cycles, CycleSteps(c) PROVE TtlTypes'
  <2>1. UNCHANGED <<now, lastCycle>>
    BY <1>4 DEF CycleSteps, ScanEntry, ScanFails, CountFails, Prepare, Send, SendFails, GiveUp, EndCycle
  <2>2. c \in CycleRecs BY DEF TtlTypes
  <2>3. \A d \in CycleRecs : d.latest = c.latest /\ Becomes(c, d) =>
            /\ cycles' \subseteq CycleRecs
            /\ \A x \in cycles' : /\ PollInterval <= x.latest /\ x.latest <= lastCycle
                                  /\ now <= x.latest + CycleTime
    BY DEF TtlTypes, Becomes
  <2>4. sequence' \in Nat /\ live' \in [Entries -> Nat]
    <3>1. sequence + 1 \in Nat /\ now + MaxTtl \in Nat BY <1>0 DEF TtlTypes
    <3>2. Extended(c) => live' \in [Entries -> Nat] BY <3>1 DEF Extended, TtlTypes
    <3> QED BY <1>4, <3>1, <3>2 DEF TtlTypes, CycleSteps, ScanEntry, ScanFails, CountFails, Prepare, Send,
                                   SendFails, GiveUp, EndCycle
  <2>5. CASE EndCycle(c) BY <2>1, <2>4, <2>5 DEF EndCycle, TtlTypes
  <2>6. CASE ~EndCycle(c)
    <3>1. Scanned \subseteq Nat BY ScannedAreEntries
    <3>2. \E d \in CycleRecs : d.latest = c.latest /\ Becomes(c, d)
      <4>1. CASE ScanEntry(c)
        <5> DEFINE q == IF live[c.next] >= now /\ Low(c.next, c.latest) THEN c.todo \cup {c.next} ELSE c.todo
                   d == [c EXCEPT !.next = @ + 1, !.todo = q]
        <5>1. Becomes(c, d) BY <4>1 DEF ScanEntry
        <5>2. c.next + 1 \in Nat \ {0} /\ q \in SUBSET Nat BY <2>2 DEF CycleRecs
        <5> HIDE DEF q
        <5>3. \A n \in Nat \ {0}, s \in SUBSET Nat :
                 /\ [c EXCEPT !.next = n, !.todo = s] \in CycleRecs
                 /\ [c EXCEPT !.next = n, !.todo = s].latest = c.latest
          BY <2>2 DEF CycleRecs
        <5>4. d \in CycleRecs /\ d.latest = c.latest BY <5>2, <5>3
        <5> QED BY <5>1, <5>4
      <4>2. CASE ScanFails(c)
        <5> DEFINE d == [c EXCEPT !.next = @ + 1]
        <5>1. Becomes(c, d) BY <4>2 DEF ScanFails
        <5>2. d \in CycleRecs /\ d.latest = c.latest BY <2>2 DEF CycleRecs
        <5> QED BY <5>1, <5>2
      <4>3. CASE CountFails(c)
        <5> DEFINE d == [c EXCEPT !.next = MaxEntries + 1]
        <5>1. Becomes(c, d) BY <4>3 DEF CountFails
        <5>2. d \in CycleRecs /\ d.latest = c.latest BY <1>0, <2>2 DEF CycleRecs
        <5> QED BY <5>1, <5>2
      <4>4. CASE Prepare(c)
        <5> DEFINE d == [c EXCEPT !.seq = sequence + 1]
        <5>1. Becomes(c, d) BY <4>4 DEF Prepare
        <5>2. d \in CycleRecs /\ d.latest = c.latest BY <2>2 DEF CycleRecs, TtlTypes
        <5> QED BY <5>1, <5>2
      <4>5. CASE Send(c)
        <5> DEFINE d == [c EXCEPT !.todo = TtlLeft(c), !.tries = 0, !.seq = 0]
        <5>1. Becomes(c, d) BY <4>5 DEF Send
        <5>2. d \in CycleRecs /\ d.latest = c.latest BY <2>2 DEF CycleRecs, TtlLeft
        <5> QED BY <5>1, <5>2
      <4>6. CASE SendFails(c)
        <5> DEFINE d == [c EXCEPT !.tries = @ + 1, !.seq = 0]
        <5>1. Becomes(c, d) BY <4>6 DEF SendFails
        <5>2. c.tries + 1 \in Nat BY <2>2 DEF CycleRecs
        <5>3. \A n \in Nat : /\ [c EXCEPT !.tries = n, !.seq = 0] \in CycleRecs
                              /\ [c EXCEPT !.tries = n, !.seq = 0].latest = c.latest
          BY <2>2 DEF CycleRecs
        <5>4. d \in CycleRecs /\ d.latest = c.latest BY <5>2, <5>3
        <5> QED BY <5>1, <5>4
      <4>7. CASE GiveUp(c)
        <5> DEFINE d == [c EXCEPT !.todo = TtlLeft(c), !.tries = 0]
        <5>1. Becomes(c, d) BY <4>7 DEF GiveUp
        <5>2. d \in CycleRecs /\ d.latest = c.latest BY <2>2 DEF CycleRecs, TtlLeft
        <5> QED BY <5>1, <5>2
      <4> QED BY <1>4, <2>6, <4>1, <4>2, <4>3, <4>4, <4>5, <4>6, <4>7 DEF CycleSteps
    <3> QED BY <2>1, <2>3, <2>4, <3>2 DEF TtlTypes
  <2> QED BY <2>5, <2>6
<1> QED BY <1>1, <1>2, <1>3, <1>4 DEF TtlNext, upkeepVars, CycleSteps

\* Whether cycles overlap, compete for the sequence number or repeat what was
\* done, an entry that was not given up is seen to by every cycle.
LEMMA ServedStep ==
    ASSUME TtlTypes, PollInterval + CycleTime <= TtlThreshold, AllServed, [TtlNext]_upkeepVars
    PROVE  AllServed'
<1>0. /\ PollInterval \in Nat \ {0} /\ CycleTime \in Nat /\ TtlThreshold \in Nat \ {0} /\ MaxTtl \in Nat
      /\ MaxTtl > TtlThreshold /\ MaxEntries \in Nat /\ now \in Nat /\ lastCycle \in Nat /\ lastCycle <= now
  BY UpkeepConstants DEF TtlTypes
<1>1. CASE UNCHANGED ttlVars BY <1>1 DEF AllServed, Served, ttlVars
<1>2. CASE TtlTick BY <1>1, <1>2 DEF TtlTick
<1>3. CASE StartCycle
  <2> DEFINE d == [latest |-> now, next |-> 1, todo |-> {}, seq |-> sequence, tries |-> 0]
  <2>1. now = lastCycle + PollInterval /\ lastCycle' = now /\ cycles' = cycles \cup {d}
        /\ live' = live /\ gaveUp' = gaveUp
    BY <1>3 DEF StartCycle
  <2>2. d \in cycles' /\ d.latest = now /\ d.next = 1 BY <2>1
  <2> HIDE DEF d
  <2> SUFFICES ASSUME NEW e \in Scanned \ gaveUp, NEW t \in 0 .. now PROVE Served(e, t)'
    BY <2>1 DEF AllServed
  <2>3. CASE t <= lastCycle
    <3>1. t \in 0 .. lastCycle BY <1>0, <2>3
    <3>2. Served(e, t) BY <3>1 DEF AllServed
    <3> QED BY <2>1, <3>2 DEF Served
  <2>4. CASE ~(t <= lastCycle)
    <3>1. t <= now /\ now < t + PollInterval BY <1>0, <2>1, <2>4
    <3>2. e \in Nat /\ e >= 1 BY ScannedAreEntries DEF Entries, Scanned
    <3>3. Pending(d, e) BY <2>2, <3>2 DEF Pending
    <3> QED BY <2>2, <3>1, <3>3 DEF Served
  <2> QED BY <2>3, <2>4
<1>4. ASSUME NEW c \in cycles, CycleSteps(c) PROVE AllServed'
  <2>1. c \in CycleRecs /\ c.latest \in Nat /\ c.next \in Nat \ {0} BY DEF TtlTypes, CycleRecs
  <2>2. lastCycle' = lastCycle /\ now' = now /\ gaveUp \subseteq gaveUp'
    BY <1>4 DEF CycleSteps, ScanEntry, ScanFails, CountFails, Prepare, Send, SendFails, GiveUp, EndCycle
  <2> SUFFICES ASSUME NEW e \in Scanned, e \notin gaveUp', NEW t \in 0 .. lastCycle PROVE Served(e, t)'
    BY <2>2 DEF AllServed
  <2>3. e \in Entries /\ e \in Nat /\ e \notin gaveUp BY <2>2, ScannedAreEntries
  <2>4. \A u \in 0 .. lastCycle : Served(e, u) BY <2>3 DEF AllServed
  <2>5. live[e] \in Nat /\ live[e] >= now BY <1>0, <2>3, <2>4, ServedLive DEF TtlTypes
  <2>6. Served(e, t) BY <2>4
  \* whatever is extended lives over the threshold
  <2>7. live'[e] = live[e] \/ live'[e] >= t + TtlThreshold
    <3>1. now + MaxTtl \in Nat /\ now + MaxTtl >= t + TtlThreshold BY <1>0
    <3>2. Extended(c) => live'[e] = live[e] \/ live'[e] = now + MaxTtl BY <2>3 DEF Extended
    <3> QED BY <1>4, <3>1, <3>2 DEF CycleSteps, ScanEntry, ScanFails, CountFails, Prepare, Send, SendFails,
                                   GiveUp, EndCycle
  \* it is enough that the cycle keeps e in view or has seen that it lives
  <2>8. ASSUME NEW d, Becomes(c, d), d.latest = c.latest,
               Pending(c, e) => Pending(d, e) \/ live'[e] >= c.latest + TtlThreshold
        PROVE  Served(e, t)'
    <3>1. CASE live'[e] >= t + TtlThreshold BY <3>1 DEF Served
    <3>2. CASE live'[e] = live[e] /\ ~(live[e] >= t + TtlThreshold)
      <4>1. PICK x \in cycles : Pending(x, e) /\ t <= x.latest /\ x.latest < t + PollInterval
        BY <2>6, <3>2 DEF Served
      <4>2. CASE x # c
        <5>1. x \in cycles' BY <2>8, <4>2 DEF Becomes
        <5> QED BY <4>1, <5>1 DEF Served
      <4>3. CASE x = c /\ Pending(d, e)
        <5>1. d \in cycles' BY <2>8 DEF Becomes
        <5> QED BY <2>8, <4>1, <4>3, <5>1 DEF Served
      <4>4. CASE x = c /\ live'[e] >= c.latest + TtlThreshold
        <5>1. live[e] >= t + TtlThreshold BY <1>0, <2>1, <2>5, <3>2, <4>1, <4>4
        <5> QED BY <3>2, <5>1
      <4> QED BY <2>8, <4>1, <4>2, <4>3, <4>4
    <3> QED BY <2>7, <3>1, <3>2
  <2>9. CASE ScanEntry(c)
    <3> DEFINE q == IF live[c.next] >= now /\ Low(c.next, c.latest) THEN c.todo \cup {c.next} ELSE c.todo
               d == [c EXCEPT !.next = @ + 1, !.todo = q]
    <3>1. Becomes(c, d) /\ live' = live BY <2>9 DEF ScanEntry
    <3>2. d.latest = c.latest /\ d.next = c.next + 1 /\ d.todo = q BY <2>1 DEF CycleRecs
    <3> HIDE DEF d
    <3>3. Pending(c, e) => Pending(d, e) \/ live'[e] >= c.latest + TtlThreshold
      <4>1. CASE e \in c.todo BY <3>2, <4>1 DEF Pending
      <4>2. CASE e >= c.next /\ e # c.next
        <5>1. e >= c.next + 1 BY <2>1, <2>3, <4>2
        <5> QED BY <3>2, <5>1 DEF Pending
      <4>3. CASE e = c.next
        <5>1. CASE Low(e, c.latest) BY <2>5, <3>2, <4>3, <5>1 DEF Pending
        <5>2. CASE ~Low(e, c.latest) BY <1>0, <2>1, <2>5, <3>1, <5>2 DEF Low
        <5> QED BY <5>1, <5>2
      <4> QED BY <4>1, <4>2, <4>3 DEF Pending
    <3> QED BY <2>8, <3>1, <3>2, <3>3
  <2>10. CASE ScanFails(c)
    <3> DEFINE d == [c EXCEPT !.next = @ + 1]
    <3>1. Becomes(c, d) /\ e # c.next BY <2>10 DEF ScanFails
    <3>2. d.latest = c.latest /\ d.next = c.next + 1 /\ d.todo = c.todo BY <2>1 DEF CycleRecs
    <3> HIDE DEF d
    <3>3. Pending(c, e) => Pending(d, e) BY <2>1, <2>3, <3>1, <3>2 DEF Pending
    <3> QED BY <2>8, <3>1, <3>2, <3>3
  <2>11. ~CountFails(c) BY DEF CountFails
  <2>12. CASE Prepare(c)
    <3> DEFINE d == [c EXCEPT !.seq = sequence + 1]
    <3>1. Becomes(c, d) BY <2>12 DEF Prepare
    <3>2. d.latest = c.latest /\ d.next = c.next /\ d.todo = c.todo BY <2>1 DEF CycleRecs
    <3> HIDE DEF d
    <3> QED BY <2>8, <3>1, <3>2 DEF Pending
  <2>13. CASE Send(c)
    <3> DEFINE d == [c EXCEPT !.todo = TtlLeft(c), !.tries = 0, !.seq = 0]
    <3>1. Becomes(c, d) /\ Extended(c) BY <2>13 DEF Send
    <3>2. d.latest = c.latest /\ d.next = c.next /\ d.todo = c.todo \ Batch(c)
      BY <2>1 DEF CycleRecs, TtlLeft
    <3> HIDE DEF d
    <3>3. e \in Batch(c) => live'[e] = now + MaxTtl BY <2>3, <2>5, <3>1 DEF Extended
    <3>4. c.latest <= lastCycle BY DEF TtlTypes
    <3>5. e \in Batch(c) => live'[e] >= c.latest + TtlThreshold BY <1>0, <2>1, <3>3, <3>4
    <3> QED BY <2>8, <3>1, <3>2, <3>5 DEF Pending
  <2>14. CASE SendFails(c)
    <3> DEFINE d == [c EXCEPT !.tries = @ + 1, !.seq = 0]
    <3>1. Becomes(c, d) BY <2>14 DEF SendFails
    <3>2. d.latest = c.latest /\ d.next = c.next /\ d.todo = c.todo BY <2>1 DEF CycleRecs
    <3> HIDE DEF d
    <3> QED BY <2>8, <3>1, <3>2 DEF Pending
  <2>15. CASE GiveUp(c)
    <3> DEFINE d == [c EXCEPT !.todo = TtlLeft(c), !.tries = 0]
    <3>1. Becomes(c, d) /\ e \notin Batch(c) BY <2>15 DEF GiveUp
    <3>2. d.latest = c.latest /\ d.next = c.next /\ d.todo = c.todo \ Batch(c)
      BY <2>1 DEF CycleRecs, TtlLeft
    <3> HIDE DEF d
    <3> QED BY <2>8, <3>1, <3>2 DEF Pending
  <2>16. CASE EndCycle(c)
    <3>1. c.next \notin Scanned /\ c.todo = {} /\ cycles' = cycles \ {c} /\ live' = live
      BY <2>16 DEF EndCycle
    <3>2. CASE live[e] >= t + TtlThreshold BY <3>1, <3>2 DEF Served
    <3>3. ASSUME NEW x \in cycles, Pending(x, e), t <= x.latest, x.latest < t + PollInterval
          PROVE  Served(e, t)'
      <4>1. CASE x # c BY <3>1, <3>3, <4>1 DEF Served
      <4>2. CASE x = c
        <5>1. e >= c.next BY <3>1, <3>3, <4>2 DEF Pending
        <5>2. PICK m \in Nat : Scanned = 1 .. m BY ScannedAreEntries
        <5>3. c.next \in 1 .. m BY <2>1, <2>3, <5>1, <5>2
        <5> QED BY <3>1, <5>2, <5>3
      <4> QED BY <4>1, <4>2
    <3> QED BY <2>6, <3>2, <3>3 DEF Served
  <2> QED BY <1>4, <2>9, <2>10, <2>11, <2>12, <2>13, <2>14, <2>15, <2>16 DEF CycleSteps
<1> QED BY <1>1, <1>2, <1>3, <1>4 DEF TtlNext, upkeepVars, CycleSteps

\* The relayer keeps its invariant.
LEMMA TtlStepKeeps == TtlInv /\ [TtlNext]_upkeepVars => TtlInv'
BY TtlTypesStep, ServedStep DEF TtlInv

\* What the invariant says of the entries.
LEMMA TtlCorrect == TtlInv => EntriesKeptAlive
<1> SUFFICES ASSUME TtlInv, PollInterval + CycleTime <= TtlThreshold, NEW e \in Scanned, live[e] < now,
                    e \notin gaveUp
             PROVE  FALSE
  BY DEF EntriesKeptAlive
<1>1. e \in Entries /\ TtlTypes /\ \A t \in 0 .. lastCycle : Served(e, t)
  BY ScannedAreEntries DEF TtlInv, AllServed
<1>2. live[e] >= now BY <1>1, ServedLive
<1>3. live[e] \in Nat /\ now \in Nat BY <1>1 DEF TtlTypes
<1> QED BY <1>2, <1>3

KeeperTypes ==
    /\ now \in Nat /\ lastRun \in Nat /\ lastRun <= now /\ now <= lastRun + RunInterval
    /\ keeperBeat \in [Vaults -> Nat] /\ \A v \in Vaults : keeperBeat[v] <= lastRun
    /\ granted \subseteq Vaults
    /\ run \in [chain : {"evm", "soroban"}, rest : SUBSET Vaults, due : SUBSET Vaults]
    /\ run.due \subseteq run.rest /\ (run.rest # {} => now = lastRun)

\* A vault the run has served, or left alone, had a heartbeat in the half period
\* before the run began; one it has yet to come to is not yet inactive.
Attended(v) ==
    /\ v \notin run.rest => 2 * (lastRun - keeperBeat[v]) <= Inactivity
    /\ v \in run.rest => now - keeperBeat[v] <= Inactivity

KeeperInv ==
    /\ KeeperTypes
    /\ 2 * RunInterval <= Inactivity => \A v \in granted \ skipped : Attended(v)

\* At first every vault has just been heard of.
LEMMA KeeperInitial == UpkeepInit => KeeperInv
<1> SUFFICES ASSUME UpkeepInit PROVE KeeperInv OBVIOUS
<1>0. RunInterval \in Nat /\ Inactivity \in Nat BY UpkeepConstants
<1>1. now = 0 /\ lastRun = 0 /\ keeperBeat = [v \in Vaults |-> 0] /\ granted = Vaults /\ run = NoRun
  BY DEF UpkeepInit
<1>2. run \in [chain : {"evm", "soroban"}, rest : SUBSET Vaults, due : SUBSET Vaults]
      /\ run.rest = {} /\ run.due = {}
  BY <1>1 DEF NoRun
<1>3. KeeperTypes BY <1>0, <1>1, <1>2 DEF KeeperTypes
<1>4. \A v \in Vaults : Attended(v) BY <1>0, <1>1, <1>2 DEF Attended
<1> QED BY <1>1, <1>3, <1>4 DEF KeeperInv

\* A run starts when it is due and meets every vault in time.
LEMMA KeeperStepKeeps == KeeperInv /\ [KeeperNext]_upkeepVars => KeeperInv'
<1> SUFFICES ASSUME KeeperInv, [KeeperNext]_upkeepVars PROVE KeeperInv' OBVIOUS
<1>0. /\ RunInterval \in Nat \ {0} /\ Inactivity \in Nat /\ now \in Nat /\ lastRun \in Nat
      /\ \A v \in Vaults : keeperBeat[v] \in Nat /\ keeperBeat[v] <= lastRun
      /\ run \in [chain : {"evm", "soroban"}, rest : SUBSET Vaults, due : SUBSET Vaults]
      /\ KeeperTypes
  BY UpkeepConstants DEF KeeperInv, KeeperTypes
<1> DEFINE rest == UNCHANGED <<now, lastRun>>
<1>1. CASE UNCHANGED <<now, keeperVars>> BY <1>1 DEF KeeperInv, KeeperTypes, Attended, keeperVars
<1>2. CASE KeeperTick
  <2>1. now' = now + 1 /\ run.rest = {} /\ now < lastRun + RunInterval
        /\ UNCHANGED <<keeperBeat, granted, run, lastRun, skipped>>
    BY <1>2 DEF KeeperTick, keeperVars
  <2>2. KeeperTypes' BY <1>0, <2>1 DEF KeeperTypes
  <2> QED BY <2>1, <2>2 DEF KeeperInv, Attended
<1>3. ASSUME NEW chain \in {"evm", "soroban"}, StartRun(chain) PROVE KeeperInv'
  <2>1. now = lastRun + RunInterval /\ lastRun' = now /\ run.rest = {} /\ now' = now
        /\ run' = [chain |-> chain, rest |-> Vaults, due |-> {}] /\ UNCHANGED <<keeperBeat, granted, skipped>>
    BY <1>3 DEF StartRun
  <2>2. run'.rest = Vaults /\ run'.due = {}
        /\ run' \in [chain : {"evm", "soroban"}, rest : SUBSET Vaults, due : SUBSET Vaults]
    BY <2>1
  <2>3. now <= now + RunInterval /\ now <= now /\ \A v \in Vaults : keeperBeat[v] <= now BY <1>0, <2>1
  <2>4. KeeperTypes' BY <1>0, <2>1, <2>2, <2>3 DEF KeeperTypes
  <2>5. ASSUME 2 * RunInterval <= Inactivity, NEW v \in granted \ skipped PROVE Attended(v)'
    <3>1. v \in Vaults BY <1>0 DEF KeeperTypes
    <3>2. 2 * (lastRun - keeperBeat[v]) <= Inactivity BY <2>1, <2>5 DEF KeeperInv, Attended
    <3>3. now - keeperBeat[v] <= Inactivity BY <1>0, <2>1, <2>5, <3>1, <3>2
    <3> QED BY <2>1, <2>2, <3>1, <3>3 DEF Attended
  <2> QED BY <2>1, <2>4, <2>5 DEF KeeperInv
<1>4. ASSUME NEW v \in Vaults, Check(v) PROVE KeeperInv'
  <2>1. v \in run.rest /\ run.due = {} /\ now = lastRun
        /\ UNCHANGED <<now, lastRun, keeperBeat, granted, skipped>>
    BY <1>0, <1>4 DEF Check, First, KeeperTypes
  <2>2. CASE v \in granted /\ Due(v)
    <3>1. run' = [run EXCEPT !.due = {v}] BY <1>4, <2>2 DEF Check
    <3>2. run'.rest = run.rest /\ run'.due = {v}
          /\ run' \in [chain : {"evm", "soroban"}, rest : SUBSET Vaults, due : SUBSET Vaults]
      BY <1>0, <3>1
    <3>3. KeeperTypes' BY <1>0, <2>1, <3>2 DEF KeeperTypes
    <3> QED BY <2>1, <3>2, <3>3 DEF KeeperInv, Attended
  <2>3. CASE ~(v \in granted /\ Due(v))
    <3>1. run' = [run EXCEPT !.rest = @ \ {v}] BY <1>4, <2>3 DEF Check
    <3>2. run'.rest = run.rest \ {v} /\ run'.due = {}
          /\ run' \in [chain : {"evm", "soroban"}, rest : SUBSET Vaults, due : SUBSET Vaults]
      BY <1>0, <2>1, <3>1
    <3>3. KeeperTypes' BY <1>0, <2>1, <3>2 DEF KeeperTypes
    <3>4. v \in granted => 2 * (lastRun - keeperBeat[v]) <= Inactivity BY <1>0, <2>1, <2>3 DEF Due
    <3> QED BY <2>1, <3>2, <3>3, <3>4 DEF KeeperInv, Attended
  <2> QED BY <2>2, <2>3
<1>5. ASSUME NEW v \in Vaults, Beat(v) PROVE KeeperInv'
  <2>1. v \in run.rest /\ now = lastRun /\ UNCHANGED <<now, lastRun, granted, skipped>>
        /\ keeperBeat' = [keeperBeat EXCEPT ![v] = now]
        /\ run' = [run EXCEPT !.due = {}, !.rest = @ \ {v}]
    BY <1>0, <1>5 DEF Beat, KeeperTypes
  <2>2. run'.rest = run.rest \ {v} /\ run'.due = {}
        /\ run' \in [chain : {"evm", "soroban"}, rest : SUBSET Vaults, due : SUBSET Vaults]
    BY <1>0, <2>1
  <2>3. keeperBeat' \in [Vaults -> Nat] /\ \A w \in Vaults : keeperBeat'[w] = IF w = v THEN lastRun ELSE keeperBeat[w]
    BY <1>0, <2>1 DEF KeeperTypes
  <2>4. KeeperTypes' BY <1>0, <2>1, <2>2, <2>3 DEF KeeperTypes
  <2>5. ASSUME 2 * RunInterval <= Inactivity, NEW w \in granted \ skipped PROVE Attended(w)'
    <3>1. w \in Vaults /\ Attended(w) BY <1>0, <2>5 DEF KeeperTypes, KeeperInv
    <3>2. CASE w = v
      <4>1. keeperBeat'[w] = lastRun /\ 2 * (lastRun - lastRun) <= Inactivity BY <1>0, <2>3, <3>1, <3>2
      <4> QED BY <2>1, <2>2, <3>2, <4>1 DEF Attended
    <3>3. CASE w # v BY <2>1, <2>2, <2>3, <3>1, <3>3 DEF Attended
    <3> QED BY <3>2, <3>3
  <2> QED BY <2>1, <2>4, <2>5 DEF KeeperInv
<1>6. ASSUME NEW v \in Vaults, KeeperFails(v) PROVE KeeperInv'
  <2>1. skipped' = skipped \cup run.rest /\ run' = NoRun /\ UNCHANGED <<now, lastRun, keeperBeat, granted>>
    BY <1>6 DEF KeeperFails
  <2>2. run'.rest = {} /\ run'.due = {}
        /\ run' \in [chain : {"evm", "soroban"}, rest : SUBSET Vaults, due : SUBSET Vaults]
    BY <2>1 DEF NoRun
  <2>3. KeeperTypes' BY <1>0, <2>1, <2>2 DEF KeeperTypes
  <2> QED BY <2>1, <2>2, <2>3 DEF KeeperInv, Attended
<1>7. ASSUME NEW v \in Vaults, Revoke(v) PROVE KeeperInv'
  BY <1>7 DEF Revoke, KeeperInv, KeeperTypes, Attended
<1> QED BY <1>1, <1>2, <1>3, <1>4, <1>5, <1>6, <1>7 DEF KeeperNext, upkeepVars

\* What the invariant says of the vaults.
LEMMA KeeperCorrect == KeeperInv => VaultsKeptAlive
<1> SUFFICES ASSUME KeeperInv, 2 * RunInterval <= Inactivity, NEW v \in granted \ skipped
             PROVE  now - keeperBeat[v] <= Inactivity
  BY DEF VaultsKeptAlive
<1>0. RunInterval \in Nat /\ Inactivity \in Nat BY UpkeepConstants
<1>1. /\ v \in Vaults /\ now \in Nat /\ lastRun \in Nat /\ keeperBeat[v] \in Nat
      /\ now <= lastRun + RunInterval
  BY DEF KeeperInv, KeeperTypes
<1>2. Attended(v) BY DEF KeeperInv
<1> QED BY <1>0, <1>1, <1>2 DEF Attended
-----------------------------------------------------------------------------
(* The emergency schedule of the local store.                              *)

UnlockRecs == [emergencyMode : BOOLEAN, cycle : Nat, requestedAt : Nat, requested : BOOLEAN,
               fulfilled : BOOLEAN, unlockAt : Nat]

\* Every delay that was drawn was drawn after the confirmation window.
ScheduleInv ==
    /\ unlockDb \in UnlockRecs /\ storeClock \in Nat /\ unlockDb.requestedAt <= storeClock
    /\ UnlockIsDelayed

ScheduleNext == StoreNext \/ UnlockNext

\* What a step may do to a delay that was drawn.
DrawnOnce ==
    unlockDb.fulfilled /\ unlockDb'.fulfilled /\ unlockDb'.cycle = unlockDb.cycle
        => unlockDb'.unlockAt = unlockDb.unlockAt

\* Initially no emergency is on.
LEMMA ScheduleInitial == StoreInit => ScheduleInv
<1> SUFFICES ASSUME StoreInit PROVE ScheduleInv OBVIOUS
<1>1. unlockDb = NoUnlock /\ storeClock = 0 BY DEF StoreInit
<1>2. unlockDb \in UnlockRecs /\ unlockDb.requestedAt = 0 /\ unlockDb.fulfilled = FALSE
  BY <1>1 DEF NoUnlock, UnlockRecs
<1> QED BY <1>1, <1>2 DEF ScheduleInv, UnlockIsDelayed

\* Whichever screen comes first draws the delay, and no other draws it again.
LEMMA ScheduleStep == ScheduleInv /\ [ScheduleNext]_storeVars => ScheduleInv' /\ DrawnOnce
<1> SUFFICES ASSUME ScheduleInv, [ScheduleNext]_storeVars PROVE ScheduleInv' /\ DrawnOnce OBVIOUS
<1>0. /\ Confirmation \in Nat /\ BaseDelay \in Nat /\ \A j \in Jitter : j \in Nat
      /\ unlockDb \in UnlockRecs /\ storeClock \in Nat
  BY StellarStoreAssumptions DEF ScheduleInv
<1>1. CASE UNCHANGED <<unlockDb, storeClock>> BY <1>1 DEF ScheduleInv, UnlockIsDelayed, DrawnOnce
<1>2. CASE StoreTick
  <2>1. storeClock' = storeClock + 1 /\ unlockDb' = unlockDb BY <1>2 DEF StoreTick
  <2>2. storeClock + 1 \in Nat /\ unlockDb.requestedAt <= storeClock + 1
    <3>1. unlockDb.requestedAt \in Nat BY <1>0 DEF UnlockRecs
    <3> QED BY <1>0, <3>1 DEF ScheduleInv
  <2> QED BY <2>1, <2>2 DEF ScheduleInv, UnlockIsDelayed, DrawnOnce
<1>3. ASSUME NEW b \in BOOLEAN, StoreEmergency(b) PROVE ScheduleInv' /\ DrawnOnce
  <2> DEFINE n == IF b THEN unlockDb.cycle + 1 ELSE unlockDb.cycle
             at == IF b THEN storeClock ELSE unlockDb.requestedAt
  <2>1. storeClock' = storeClock
        /\ unlockDb' = [unlockDb EXCEPT !.emergencyMode = b, !.requested = b, !.fulfilled = FALSE,
                            !.unlockAt = 0, !.cycle = n, !.requestedAt = at]
    BY <1>3 DEF StoreEmergency
  <2>2. n \in Nat /\ at \in Nat /\ at <= storeClock BY <1>0 DEF ScheduleInv, UnlockRecs
  <2> HIDE DEF n, at
  <2>3. unlockDb' \in UnlockRecs /\ unlockDb'.fulfilled = FALSE /\ unlockDb'.requestedAt = at
    BY <1>0, <2>1, <2>2 DEF UnlockRecs
  <2> QED BY <1>0, <2>1, <2>2, <2>3 DEF ScheduleInv, UnlockIsDelayed, DrawnOnce
<1>4. ASSUME NEW j \in Jitter, Fulfillable, Confirmed, storeClock' = storeClock,
             unlockDb' = [unlockDb EXCEPT !.fulfilled = TRUE, !.unlockAt = storeClock + BaseDelay + j]
      PROVE  ScheduleInv' /\ DrawnOnce
  <2>1. storeClock + BaseDelay + j \in Nat BY <1>0
  <2>2. unlockDb' \in UnlockRecs /\ unlockDb'.unlockAt = storeClock + BaseDelay + j
        /\ unlockDb'.requestedAt = unlockDb.requestedAt /\ unlockDb.requestedAt \in Nat
    BY <1>0, <1>4, <2>1 DEF UnlockRecs
  <2>3. storeClock + BaseDelay + j >= unlockDb.requestedAt + Confirmation + BaseDelay
    BY <1>0, <1>4, <2>2 DEF Confirmed
  <2>4. ~unlockDb.fulfilled BY <1>4 DEF Fulfillable
  <2> QED BY <1>4, <2>2, <2>3, <2>4 DEF ScheduleInv, UnlockIsDelayed, DrawnOnce
<1>5. ASSUME NEW j \in Jitter, FetchFulfils(j) \/ OtherFetch(j) PROVE ScheduleInv' /\ DrawnOnce
  BY <1>1, <1>4, <1>5 DEF FetchFulfils, OtherFetch
<1>6. CASE StoreNext
  BY <1>1, <1>6 DEF StoreNext, CreateVault, AcceptInvite, StoreDocument, StoreRequest, ApproveListed,
                    StoreApprove, ApproveBatch, SwitchConnected, ListApprovals, unlock
<1>7. CASE UnlockNext
  BY <1>1, <1>2, <1>3, <1>5, <1>7 DEF UnlockNext, MintToken, AuthorizeKeeper, RevokeKeeperAuthorization,
                                      FetchReads, unlock
<1> QED BY <1>1, <1>6, <1>7 DEF ScheduleNext, storeVars, unlock

-----------------------------------------------------------------------------
(* Approvals in the local store.                                           *)

StoredVaults == [creator : Users, guardians : SUBSET Users, threshold : Nat]
StoredDocs == [vault : Nat, by : Users, shares : SUBSET Users]
StoredRequests ==
    [doc : Nat, requester : Users, approvedBy : SUBSET Users, approved : BOOLEAN, shares : SUBSET Users]

StoreTypes ==
    /\ connected \in Users
    /\ vaultsDb \in Seq(StoredVaults) /\ documentsDb \in Seq(StoredDocs)
    /\ requestsDb \in Seq(StoredRequests)
    /\ \A d \in DOMAIN documentsDb : documentsDb[d].vault \in DOMAIN vaultsDb
    /\ \A r \in DOMAIN requestsDb : /\ requestsDb[r].doc \in DOMAIN documentsDb
                                    /\ requestsDb[r].shares \subseteq requestsDb[r].approvedBy
    /\ unlockDb.requested => unlockDb.emergencyMode

VaultFor(r) == vaultsDb[VaultOfDoc(requestsDb[r].doc)]

\* Approvals are the guardians', except those given from another account's list;
\* the list shown was made for a guardian of the vaults of its requests.
ApproversInv ==
    /\ \A r \in shown.requests : r \in DOMAIN requestsDb /\ shown.for \in VaultFor(r).guardians
    /\ \A r \in DOMAIN requestsDb \ batched :
          /\ IsFiniteSet(requestsDb[r].approvedBy)
          /\ \A u \in requestsDb[r].approvedBy : <<u, r>> \in misdirected \/ u \in VaultFor(r).guardians
          /\ requestsDb[r].approved => Cardinality(requestsDb[r].approvedBy) >= VaultFor(r).threshold

StoreInv == StoreTypes /\ ApproversInv

\* The store is empty at first.
LEMMA StoreInitial == StoreInit => StoreInv
BY DEF StoreInit, StoreInv, StoreTypes, ApproversInv, NoUnlock

\* What a sequence has after one more entry.
LEMMA OneMoreRow ==
    ASSUME NEW S, NEW s \in Seq(S), NEW e \in S
    PROVE  /\ Append(s, e) \in Seq(S) /\ DOMAIN Append(s, e) = DOMAIN s \cup {Len(s) + 1}
           /\ Len(s) + 1 \notin DOMAIN s /\ Len(s) \in Nat
           /\ \A i \in DOMAIN s : Append(s, e)[i] = s[i] /\ s[i] \in S
           /\ Append(s, e)[Len(s) + 1] = e
<1>1. /\ Append(s, e) \in Seq(S) /\ DOMAIN Append(s, e) = 1 .. (Len(s) + 1) /\ DOMAIN s = 1 .. Len(s)
      /\ Len(s) \in Nat
  OBVIOUS
<1>2. \A i \in DOMAIN s : Append(s, e)[i] = s[i]
  OBVIOUS
<1>3. Append(s, e)[Len(s) + 1] = e
  OBVIOUS
<1>4. \A i \in DOMAIN s : s[i] \in S
  OBVIOUS
<1> QED
  BY <1>1, <1>2, <1>3, <1>4

\* What a sequence has after one entry was replaced.
LEMMA OneRowReplaced ==
    ASSUME NEW S, NEW s \in Seq(S), NEW i \in DOMAIN s, NEW e \in S
    PROVE  /\ [s EXCEPT ![i] = e] \in Seq(S) /\ DOMAIN [s EXCEPT ![i] = e] = DOMAIN s
           /\ Len([s EXCEPT ![i] = e]) = Len(s)
           /\ [s EXCEPT ![i] = e][i] = e
           /\ \A j \in DOMAIN s \ {i} : [s EXCEPT ![i] = e][j] = s[j] /\ s[j] \in S
OBVIOUS

\* Vaults, documents and requests are added, and guardians to a vault.
LEMMA StoreGrows ==
    ASSUME StoreInv,
           \/ \E invited \in SUBSET Users, t \in 1 .. 2 : CreateVault(invited, t)
           \/ \E v \in DOMAIN vaultsDb : AcceptInvite(v) \/ StoreDocument(v, vaultsDb[v].guardians)
           \/ \E d \in DOMAIN documentsDb : StoreRequest(d)
    PROVE  StoreInv'
<1>1. StoreTypes /\ ApproversInv
  BY DEF StoreInv
<1>2. ASSUME NEW invited \in SUBSET Users, NEW t \in 1 .. 2, CreateVault(invited, t) PROVE StoreInv'
  <2>1. PICK e \in StoredVaults : vaultsDb' = Append(vaultsDb, e)
    <3>1. [creator |-> connected, guardians |-> {connected}, threshold |-> t] \in StoredVaults
      BY <1>1 DEF StoreTypes, StoredVaults
    <3> QED
      BY <1>2, <3>1 DEF CreateVault
  <2>2. /\ vaultsDb' \in Seq(StoredVaults)
        /\ \A v \in DOMAIN vaultsDb : v \in DOMAIN vaultsDb' /\ vaultsDb'[v] = vaultsDb[v]
    BY <1>1, <2>1, OneMoreRow DEF StoreTypes
  <2>3. /\ connected' = connected /\ documentsDb' = documentsDb /\ requestsDb' = requestsDb /\ unlockDb' = unlockDb
        /\ shown' = shown /\ batched' = batched /\ misdirected' = misdirected
    BY <1>2 DEF CreateVault, screen, unlock
  <2>4. StoreTypes'
    BY <1>1, <2>2, <2>3 DEF StoreTypes
  <2>5. \A r \in DOMAIN requestsDb : VaultFor(r)' = VaultFor(r)
    BY <1>1, <2>2, <2>3 DEF StoreTypes, VaultFor, VaultOfDoc
  <2>6. ApproversInv'
    BY <1>1, <2>3, <2>5 DEF ApproversInv
  <2> QED
    BY <2>4, <2>6 DEF StoreInv
<1>3. ASSUME NEW v \in DOMAIN vaultsDb, AcceptInvite(v) PROVE StoreInv'
  <2>0. vaultsDb \in Seq(StoredVaults) /\ vaultsDb[v] \in StoredVaults
    BY <1>1 DEF StoreTypes
  <2>1. PICK e \in StoredVaults : /\ vaultsDb' = [vaultsDb EXCEPT ![v] = e]
                                  /\ vaultsDb[v].guardians \in SUBSET e.guardians /\ e.threshold = vaultsDb[v].threshold
    <3>1. vaultsDb' = [vaultsDb EXCEPT ![v].guardians = @ \cup {connected}]
      BY <1>3 DEF AcceptInvite
    <3> DEFINE e == [vaultsDb[v] EXCEPT !.guardians = @ \cup {connected}]
    <3>2. e \in StoredVaults /\ vaultsDb[v].guardians \in SUBSET e.guardians /\ e.threshold = vaultsDb[v].threshold
      BY <1>1, <2>0 DEF StoredVaults, StoreTypes
    <3>3. vaultsDb' = [vaultsDb EXCEPT ![v] = e]
      BY <2>0, <3>1
    <3> QED
      BY <3>2, <3>3
  <2>2. vaultsDb' \in Seq(StoredVaults) /\ DOMAIN vaultsDb' = DOMAIN vaultsDb
        /\ \A w \in DOMAIN vaultsDb : vaultsDb[w].guardians \in SUBSET vaultsDb'[w].guardians
                                      /\ vaultsDb'[w].threshold = vaultsDb[w].threshold
    BY <2>0, <2>1, OneRowReplaced
  <2>3. /\ connected' = connected /\ documentsDb' = documentsDb /\ requestsDb' = requestsDb /\ unlockDb' = unlockDb
        /\ shown' = shown /\ batched' = batched /\ misdirected' = misdirected
    BY <1>3 DEF AcceptInvite, screen, unlock
  <2>4. StoreTypes'
    BY <1>1, <2>2, <2>3 DEF StoreTypes
  <2>5. \A r \in DOMAIN requestsDb : VaultFor(r).guardians \in SUBSET VaultFor(r)'.guardians
                                     /\ VaultFor(r)'.threshold = VaultFor(r).threshold
    BY <1>1, <2>2, <2>3 DEF StoreTypes, VaultFor, VaultOfDoc
  <2>6. ApproversInv'
    BY <1>1, <2>3, <2>5 DEF ApproversInv
  <2> QED
    BY <2>4, <2>6 DEF StoreInv
<1>4. ASSUME NEW v \in DOMAIN vaultsDb, StoreDocument(v, vaultsDb[v].guardians) PROVE StoreInv'
  <2>0. vaultsDb \in Seq(StoredVaults) /\ vaultsDb[v] \in StoredVaults /\ v \in Nat /\ connected \in Users
    BY <1>1 DEF StoreTypes
  <2>1. PICK e \in StoredDocs : documentsDb' = Append(documentsDb, e) /\ e.vault = v
    <3>1. [vault |-> v, by |-> connected, shares |-> vaultsDb[v].guardians] \in StoredDocs
      BY <2>0 DEF StoredDocs, StoredVaults
    <3> QED
      BY <1>4, <3>1 DEF StoreDocument
  <2>2. /\ documentsDb' \in Seq(StoredDocs) /\ DOMAIN documentsDb' = DOMAIN documentsDb \cup {Len(documentsDb) + 1}
        /\ \A d \in DOMAIN documentsDb : d \in DOMAIN documentsDb' /\ documentsDb'[d] = documentsDb[d]
        /\ documentsDb'[Len(documentsDb) + 1].vault = v
    BY <1>1, <2>1, OneMoreRow DEF StoreTypes
  <2>3. /\ connected' = connected /\ vaultsDb' = vaultsDb /\ requestsDb' = requestsDb /\ unlockDb' = unlockDb
        /\ shown' = shown /\ batched' = batched /\ misdirected' = misdirected
    BY <1>4 DEF StoreDocument, screen, unlock
  <2>4. StoreTypes'
    BY <1>1, <2>0, <2>2, <2>3 DEF StoreTypes
  <2>5. \A r \in DOMAIN requestsDb : VaultFor(r)' = VaultFor(r)
    BY <1>1, <2>2, <2>3 DEF StoreTypes, VaultFor, VaultOfDoc
  <2>6. ApproversInv'
    BY <1>1, <2>3, <2>5 DEF ApproversInv
  <2> QED
    BY <2>4, <2>6 DEF StoreInv
<1>5. ASSUME NEW d \in DOMAIN documentsDb, StoreRequest(d) PROVE StoreInv'
  <2>0. documentsDb \in Seq(StoredDocs) /\ d \in Nat /\ connected \in Users
    BY <1>1 DEF StoreTypes
  <2>1. PICK e \in StoredRequests : /\ requestsDb' = Append(requestsDb, e)
                                    /\ e.doc = d /\ e.approvedBy = {} /\ e.shares = {} /\ ~e.approved
    <3>1. [doc |-> d, requester |-> connected, approvedBy |-> {}, approved |-> FALSE, shares |-> {}] \in StoredRequests
      BY <2>0 DEF StoredRequests
    <3> QED
      BY <1>5, <3>1 DEF StoreRequest
  <2>2. /\ requestsDb' \in Seq(StoredRequests) /\ DOMAIN requestsDb' = DOMAIN requestsDb \cup {Len(requestsDb) + 1}
        /\ \A r \in DOMAIN requestsDb : r \in DOMAIN requestsDb' /\ requestsDb'[r] = requestsDb[r]
        /\ requestsDb'[Len(requestsDb) + 1] = e
    BY <1>1, <2>1, OneMoreRow DEF StoreTypes
  <2>3. /\ connected' = connected /\ vaultsDb' = vaultsDb /\ documentsDb' = documentsDb /\ unlockDb' = unlockDb
        /\ shown' = shown /\ batched' = batched /\ misdirected' = misdirected
    BY <1>5 DEF StoreRequest, screen, unlock
  <2>4. StoreTypes'
    BY <1>1, <2>0, <2>1, <2>2, <2>3 DEF StoreTypes
  <2>5. \A r \in DOMAIN requestsDb : VaultFor(r)' = VaultFor(r)
    BY <2>2, <2>3 DEF VaultFor, VaultOfDoc
  <2>6. IsFiniteSet({})
    BY FS_EmptySet
  <2>7. ApproversInv'
    BY <1>1, <2>1, <2>2, <2>3, <2>5, <2>6 DEF ApproversInv
  <2> QED
    BY <2>4, <2>7 DEF StoreInv
<1> QED
  BY <1>2, <1>3, <1>4, <1>5

\* An approval of one account from the list shown, or of a batch of guardians.
LEMMA StoreDecides ==
    ASSUME StoreInv, NEW r \in DOMAIN requestsDb,
           (\E b \in BOOLEAN : ApproveListed(r, b)) \/ (\E g \in SUBSET Users \ {{}} : ApproveBatch(r, g))
    PROVE  StoreInv'
<1>1. StoreTypes /\ ApproversInv
  BY DEF StoreInv
<1>2. requestsDb \in Seq(StoredRequests) /\ requestsDb[r] \in StoredRequests /\ connected \in Users
  BY <1>1 DEF StoreTypes
<1>3. connected' = connected /\ vaultsDb' = vaultsDb /\ documentsDb' = documentsDb /\ unlockDb' = unlockDb /\ shown' = shown
  BY DEF ApproveListed, StoreApprove, ApproveBatch, unlock
<1>4. ASSUME NEW b \in BOOLEAN, ApproveListed(r, b) PROVE StoreInv'
  <2>1. PICK q \in StoredRequests :
           /\ requestsDb' = [requestsDb EXCEPT ![r] = q]
           /\ q.doc = requestsDb[r].doc /\ q.shares \subseteq q.approvedBy
           /\ q.approvedBy = requestsDb[r].approvedBy \cup {connected}
           /\ q.approved = (requestsDb[r].approved \/ Decided(r, q.approvedBy))
    <3> DEFINE by == requestsDb[r].approvedBy \cup {connected}
               q == [requestsDb[r] EXCEPT !.approvedBy = by, !.approved = @ \/ Decided(r, by),
                                          !.shares = IF b THEN @ \cup {connected} ELSE @]
    <3>1. requestsDb' = [requestsDb EXCEPT ![r] = q]
      BY <1>2, <1>4 DEF ApproveListed, StoreApprove
    <3>2. Decided(r, by) \in BOOLEAN
      BY DEF Decided
    <3>3. by \in SUBSET Users /\ requestsDb[r].shares \subseteq requestsDb[r].approvedBy
      BY <1>1, <1>2 DEF StoreTypes, StoredRequests
    <3> HIDE DEF by
    <3>4. q \in StoredRequests /\ q.approvedBy = by /\ q.approved = (requestsDb[r].approved \/ Decided(r, by)) /\ q.doc = requestsDb[r].doc
      BY <1>2, <3>2, <3>3 DEF StoredRequests
    <3>5. q.shares \subseteq by
      BY <1>2, <3>3 DEF StoredRequests, by
    <3> HIDE DEF q
    <3> QED
      BY <3>1, <3>4, <3>5 DEF by
  <2>2. /\ requestsDb' \in Seq(StoredRequests) /\ DOMAIN requestsDb' = DOMAIN requestsDb /\ requestsDb'[r] = q
        /\ \A s \in DOMAIN requestsDb \ {r} : requestsDb'[s] = requestsDb[s]
    BY <1>2, <2>1, OneRowReplaced
  <2>3. /\ batched' = batched /\ r \in shown.requests
        /\ misdirected \in SUBSET misdirected' /\ (shown.for = connected \/ <<connected, r>> \in misdirected')
    BY <1>4 DEF ApproveListed
  <2>4. StoreTypes'
    BY <1>1, <1>3, <2>1, <2>2 DEF StoreTypes
  <2>5. \A s \in DOMAIN requestsDb : VaultFor(s)' = VaultFor(s)
    BY <1>3, <2>1, <2>2 DEF VaultFor, VaultOfDoc
  <2>6. connected \in VaultFor(r).guardians \/ <<connected, r>> \in misdirected'
    BY <1>1, <2>3 DEF ApproversInv
  <2>7. ASSUME r \notin batched
        PROVE  /\ IsFiniteSet(q.approvedBy)
               /\ q.approved => Cardinality(q.approvedBy) >= VaultFor(r).threshold
    <3>1. IsFiniteSet(requestsDb[r].approvedBy)
      BY <1>1, <2>7 DEF ApproversInv
    <3> DEFINE old == requestsDb[r].approvedBy
    <3>2. /\ IsFiniteSet(q.approvedBy) /\ Cardinality(q.approvedBy) \in Nat /\ Cardinality(old) \in Nat
          /\ Cardinality(q.approvedBy) >= Cardinality(old)
      <4>1. q.approvedBy = old \cup {connected} /\ IsFiniteSet(old)
        BY <2>1, <3>1
      <4> HIDE DEF old
      <4>2. /\ IsFiniteSet(old \cup {connected}) /\ Cardinality(old) \in Nat
            /\ \/ Cardinality(old \cup {connected}) = Cardinality(old)
               \/ Cardinality(old \cup {connected}) = Cardinality(old) + 1
        BY <4>1, FS_AddElement, FS_CardinalityType
      <4> QED
        BY <4>1, <4>2
    <3>3. requestsDb[r].approved => Cardinality(requestsDb[r].approvedBy) >= VaultFor(r).threshold
      BY <1>1, <2>7 DEF ApproversInv
    <3>4. Decided(r, q.approvedBy) => Cardinality(q.approvedBy) >= VaultFor(r).threshold
      BY DEF Decided, VaultFor
    <3>5. VaultFor(r).threshold \in Nat
      <4>1. vaultsDb \in Seq(StoredVaults) /\ VaultOfDoc(requestsDb[r].doc) \in DOMAIN vaultsDb
        BY <1>1 DEF StoreTypes, VaultOfDoc
      <4>2. VaultFor(r) \in StoredVaults
        BY <4>1 DEF VaultFor
      <4> QED
        BY <4>2 DEF StoredVaults
    <3>6. requestsDb[r].approved => Cardinality(q.approvedBy) >= VaultFor(r).threshold
      BY <3>2, <3>3, <3>5
    <3> QED
      BY <2>1, <3>2, <3>4, <3>6
  <2>8. ApproversInv'
    <3>1. \A s \in shown'.requests : s \in DOMAIN requestsDb' /\ shown'.for \in VaultFor(s)'.guardians
      BY <1>1, <1>3, <2>2, <2>5 DEF ApproversInv
    <3>2. ASSUME NEW s \in DOMAIN requestsDb' \ batched'
          PROVE  /\ IsFiniteSet(requestsDb'[s].approvedBy)
                 /\ \A u \in requestsDb'[s].approvedBy : <<u, s>> \in misdirected' \/ u \in VaultFor(s)'.guardians
                 /\ requestsDb'[s].approved => Cardinality(requestsDb'[s].approvedBy) >= VaultFor(s)'.threshold
      <4>1. CASE s = r
        <5>1. \A u \in q.approvedBy : u \in requestsDb[r].approvedBy \/ u = connected
          BY <2>1
        <5>2. \A u \in requestsDb[r].approvedBy : <<u, r>> \in misdirected \/ u \in VaultFor(r).guardians
          BY <1>1, <2>3, <3>2, <4>1 DEF ApproversInv
        <5> QED
          BY <2>2, <2>3, <2>5, <2>6, <2>7, <3>2, <4>1, <5>1, <5>2
      <4>2. CASE s # r
        BY <1>1, <2>2, <2>3, <2>5, <4>2 DEF ApproversInv
      <4> QED
        BY <4>1, <4>2
    <3> QED
      BY <3>1, <3>2 DEF ApproversInv
  <2> QED
    BY <2>4, <2>8 DEF StoreInv
<1>5. ASSUME NEW g \in SUBSET Users, ApproveBatch(r, g) PROVE StoreInv'
  <2>1. PICK q \in StoredRequests : /\ requestsDb' = [requestsDb EXCEPT ![r] = q]
                                    /\ q.doc = requestsDb[r].doc /\ q.shares \subseteq q.approvedBy
    <3> DEFINE q == [requestsDb[r] EXCEPT !.approvedBy = @ \cup g, !.approved = TRUE, !.shares = @ \cup g]
    <3>1. requestsDb' = [requestsDb EXCEPT ![r] = q]
      BY <1>2, <1>5 DEF ApproveBatch
    <3>2. requestsDb[r].shares \subseteq requestsDb[r].approvedBy
      BY <1>1 DEF StoreTypes
    <3>3. q \in StoredRequests /\ q.doc = requestsDb[r].doc /\ q.shares \subseteq q.approvedBy
      BY <1>2, <3>2 DEF StoredRequests
    <3> HIDE DEF q
    <3> QED
      BY <3>1, <3>3
  <2>2. /\ requestsDb' \in Seq(StoredRequests) /\ DOMAIN requestsDb' = DOMAIN requestsDb /\ requestsDb'[r] = q
        /\ \A s \in DOMAIN requestsDb \ {r} : requestsDb'[s] = requestsDb[s]
    BY <1>2, <2>1, OneRowReplaced
  <2>3. batched' = batched \cup {r} /\ misdirected' = misdirected
    BY <1>5 DEF ApproveBatch
  <2>4. StoreTypes'
    BY <1>1, <1>3, <2>1, <2>2 DEF StoreTypes
  <2>5. \A s \in DOMAIN requestsDb : VaultFor(s)' = VaultFor(s)
    BY <1>3, <2>1, <2>2 DEF VaultFor, VaultOfDoc
  <2>6. ApproversInv'
    BY <1>1, <1>3, <2>2, <2>3, <2>5 DEF ApproversInv
  <2> QED
    BY <2>4, <2>6 DEF StoreInv
<1> QED
  BY <1>4, <1>5

\* Every step of the store keeps the invariant.
LEMMA StoreStepKeeps == ScheduleInv /\ StoreInv /\ [ScheduleNext]_storeVars => StoreInv'
<1> SUFFICES ASSUME ScheduleInv, StoreInv, [ScheduleNext]_storeVars PROVE StoreInv'
  OBVIOUS
<1>1. StoreTypes /\ ApproversInv
  BY DEF StoreInv
<1>2. ASSUME NEW u \in Users, connected' \in {connected, u}, vaultsDb' = vaultsDb, documentsDb' = documentsDb,
             requestsDb' = requestsDb, shown' = shown, batched' = batched, misdirected' = misdirected,
             unlockDb'.requested => unlockDb'.emergencyMode
      PROVE  StoreInv'
  BY <1>1, <1>2 DEF StoreInv, StoreTypes, ApproversInv, VaultFor, VaultOfDoc
<1>3. connected \in Users
  BY <1>1 DEF StoreTypes
<1>4. CASE UNCHANGED storeVars
  BY <1>1, <1>2, <1>3, <1>4 DEF storeVars, db, screen, unlock, StoreTypes
<1>5. CASE \/ \E invited \in SUBSET Users, t \in 1 .. 2 : CreateVault(invited, t)
           \/ \E v \in DOMAIN vaultsDb : AcceptInvite(v) \/ StoreDocument(v, vaultsDb[v].guardians)
           \/ \E d \in DOMAIN documentsDb : StoreRequest(d)
  BY <1>5, StoreGrows
<1>6. ASSUME NEW r \in DOMAIN requestsDb,
             (\E b \in BOOLEAN : ApproveListed(r, b)) \/ (\E g \in SUBSET Users \ {{}} : ApproveBatch(r, g))
      PROVE  StoreInv'
  BY <1>6, StoreDecides
<1>7. ASSUME NEW u \in Users, SwitchConnected(u) PROVE StoreInv'
  BY <1>1, <1>2, <1>7 DEF SwitchConnected, db, screen, unlock, StoreTypes
<1>8. CASE ListApprovals
  <2>1. /\ connected' = connected /\ vaultsDb' = vaultsDb /\ documentsDb' = documentsDb /\ requestsDb' = requestsDb
        /\ batched' = batched /\ misdirected' = misdirected /\ unlockDb' = unlockDb
        /\ shown' = [for |-> connected, requests |-> PendingFor(connected)]
    BY <1>8 DEF ListApprovals, db, unlock
  <2>2. \A r \in PendingFor(connected) : r \in DOMAIN requestsDb /\ connected \in VaultFor(r).guardians
    BY DEF PendingFor, VaultFor
  <2> QED
    BY <1>1, <2>1, <2>2 DEF StoreInv, StoreTypes, ApproversInv, VaultFor, VaultOfDoc
<1>9. CASE UnlockNext
  <2>1. /\ connected' = connected /\ vaultsDb' = vaultsDb /\ documentsDb' = documentsDb /\ requestsDb' = requestsDb
        /\ batched' = batched /\ misdirected' = misdirected /\ shown' = shown
    BY <1>9 DEF UnlockNext, MintToken, AuthorizeKeeper, RevokeKeeperAuthorization, StoreEmergency, FetchReads,
                StoreTick, FetchFulfils, OtherFetch, db, screen, unlock
  <2>2. unlockDb'.requested => unlockDb'.emergencyMode
    <3>1. unlockDb \in UnlockRecs /\ (unlockDb.requested => unlockDb.emergencyMode)
      BY <1>1 DEF ScheduleInv, StoreTypes
    <3>2. \/ unlockDb' = unlockDb
          \/ \E b \in BOOLEAN : StoreEmergency(b)
          \/ \E n : unlockDb' = [unlockDb EXCEPT !.fulfilled = TRUE, !.unlockAt = n]
      BY <1>9 DEF UnlockNext, MintToken, AuthorizeKeeper, RevokeKeeperAuthorization, FetchReads,
                  StoreTick, FetchFulfils, OtherFetch, unlock
    <3>3. ASSUME NEW b \in BOOLEAN, StoreEmergency(b) PROVE unlockDb'.requested => unlockDb'.emergencyMode
      BY <3>1, <3>3 DEF StoreEmergency, UnlockRecs
    <3>4. ASSUME NEW n, unlockDb' = [unlockDb EXCEPT !.fulfilled = TRUE, !.unlockAt = n]
          PROVE  unlockDb'.requested => unlockDb'.emergencyMode
      BY <3>1, <3>4 DEF UnlockRecs
    <3> QED
      BY <3>1, <3>2, <3>3, <3>4
  <2> QED
    BY <1>2, <1>3, <2>1, <2>2
<1> QED
  BY <1>4, <1>5, <1>6, <1>7, <1>8, <1>9 DEF ScheduleNext, StoreNext

\* Approved means approved by enough guardians.
LEMMA StoreCorrect == StoreInv => StoreTypeOK /\ ApprovedByGuardians
<1> SUFFICES ASSUME StoreInv PROVE StoreTypeOK /\ ApprovedByGuardians
  OBVIOUS
<1>1. StoreTypeOK
  BY DEF StoreInv, StoreTypes, StoreTypeOK, VaultOfDoc
<1>2. ASSUME NEW r \in DOMAIN requestsDb, requestsDb[r].approved, r \notin batched
      PROVE  /\ Cardinality(requestsDb[r].approvedBy) >= VaultFor(r).threshold
             /\ requestsDb[r].approvedBy \ {u \in Users : <<u, r>> \in misdirected} \subseteq VaultFor(r).guardians
  <2>1. requestsDb[r].approvedBy \in SUBSET Users
    <3>1. requestsDb \in Seq(StoredRequests)
      BY DEF StoreInv, StoreTypes
    <3>2. requestsDb[r] \in StoredRequests
      BY <3>1
    <3> QED
      BY <3>2 DEF StoredRequests
  <2> QED
    BY <1>2, <2>1 DEF StoreInv, ApproversInv
<1> QED
  BY <1>1, <1>2 DEF ApprovedByGuardians, VaultFor

-----------------------------------------------------------------------------
(* Soroban calls.                                                          *)

Callers == SorobanAccounts \cup {"-"}

Stages == {"idle", "invoked", "sourced", "simulated", "sent"} \cup Ended

CallRecs == [stage : Stages, caller : Callers, source : Callers, seq : Nat, ret : Nat, polls : Nat]

CallTypes ==
    /\ freighter \in SorobanAccounts /\ active \in SorobanAccounts
    /\ call \in [Calls -> CallRecs]
    /\ ledger \in Seq([by : Callers \cup {"other"}, call : Calls \cup {0}])
    /\ seqNo \in [SorobanAccounts -> Nat]
    /\ wire \in SUBSET [call : Calls, signer : SorobanAccounts]

Reached == {"sent", "ok", "timeout"}

\* What the stage of a call says of the ledger and of the wire.  A transaction is
\* submitted once; a call has one entry at most, and none while it is on the wire.
StageInv ==
    /\ \A t \in wire : call[t.call].stage \in {"sent", "timeout"} /\ ~OnLedger(t.call)
    /\ \A t, u \in wire : t.call = u.call => t = u
    /\ \A c \in Calls : call[c].polls <= MaxPolls
    /\ \A c \in Calls : OnLedger(c) => call[c].stage \in Reached
    /\ \A c \in Calls : call[c].stage = "ok" => OnLedger(c)
    /\ \A i \in DOMAIN ledger : ledger[i].call \in Calls => ledger[i].by = call[ledger[i].call].caller
    /\ \A i, j \in DOMAIN ledger : ledger[i].call \in Calls /\ ledger[i].call = ledger[j].call => i = j

\* What the simulation returned: the next id until another entry is created, then
\* the id of the call's own entry.
RetInv ==
    \A c \in Calls :
        /\ call[c].stage \in {"idle", "invoked", "sourced"} => call[c].ret = 0
        /\ call[c].stage \in {"simulated"} \cup Reached => call[c].ret # 0
        /\ (c \notin overtaken /\ call[c].ret # 0) =>
              IF OnLedger(c) THEN call[c].ret \in DOMAIN ledger /\ ledger[call[c].ret].call = c
              ELSE call[c].ret = Len(ledger) + 1

\* An entry used up the sequence number of its call.
SequenceInv ==
    /\ \A c \in Calls : OnLedger(c) => call[c].source \in SorobanAccounts /\ call[c].seq <= seqNo[call[c].source]
    /\ NoTwoWithOneSequence

CallsInv == CallTypes /\ StageInv /\ RetInv /\ SequenceInv

\* No call has been made at first.
LEMMA CallsInitial == SorobanInit => CallsInv
<1> SUFFICES ASSUME SorobanInit PROVE CallsInv
  OBVIOUS
<1>1. CallTypes
  BY DEF SorobanInit, CallTypes, CallRecs, Start0, Stages, Callers
<1>2. StageInv
  BY SorobanAssumptions DEF SorobanInit, StageInv, OnLedger, Start0, Reached
<1>3. RetInv
  BY DEF SorobanInit, RetInv, OnLedger, Start0, Reached
<1>4. SequenceInv
  BY DEF SorobanInit, SequenceInv, NoTwoWithOneSequence, OnLedger, Start0
<1> QED
  BY <1>1, <1>2, <1>3, <1>4 DEF CallsInv

\* The steps of one call before its transaction is out.
LEMMA CallsStep1 ==
    ASSUME CallsInv, NEW c \in Calls, Invoke(c) \/ Source(c) \/ Simulate(c) \/ Fails(c)
    PROVE  CallsInv'
<1>1. CallTypes /\ StageInv /\ RetInv /\ SequenceInv
  BY DEF CallsInv
<1>2. /\ ledger' = ledger /\ wire' = wire /\ seqNo' = seqNo /\ overtaken' = overtaken
      /\ freighter' = freighter /\ active' = active
  BY DEF Invoke, Source, Simulate, Fails
<1>3. PICK k \in CallRecs : /\ call' = [call EXCEPT ![c] = k]
                            /\ call[c].stage \in {"idle", "invoked", "sourced", "simulated"}
                            /\ k.stage \in {"invoked", "sourced", "simulated", "failed"} 
                            /\ k.polls = call[c].polls
                            /\ k.stage \in {"invoked", "sourced"} => k.ret = 0
                            /\ k.stage = "simulated" => k.ret # 0
                            /\ k.ret \in {call[c].ret, Len(ledger) + 1}
  <2>0. call[c] \in CallRecs /\ call \in [Calls -> CallRecs] /\ active \in SorobanAccounts /\ seqNo[active] \in Nat
        /\ Len(ledger) + 1 \in Nat /\ Len(ledger) + 1 # 0
    BY <1>1 DEF CallTypes
  <2>1. CASE Invoke(c)
    <3> DEFINE k == [call[c] EXCEPT !.stage = "invoked", !.caller = active]
    <3>1. k \in CallRecs /\ call' = [call EXCEPT ![c] = k]
      BY <2>0, <2>1 DEF Invoke, CallRecs, Stages, Callers
    <3>2. call[c].stage = "idle" /\ k.stage = "invoked" /\ k.polls = call[c].polls /\ k.ret = 0 /\ k.ret = call[c].ret
      BY <1>1, <2>0, <2>1 DEF Invoke, CallRecs, RetInv
    <3> QED
      BY <3>1, <3>2
  <2>2. CASE Source(c)
    <3>0. PICK n \in Nat : n = seqNo[active] + 1
      BY <2>0
    <3> DEFINE k == [call[c] EXCEPT !.stage = "sourced", !.source = active, !.seq = n]
    <3>1. k \in CallRecs /\ call' = [call EXCEPT ![c] = k]
      <4>1. k \in CallRecs
        BY <2>0 DEF CallRecs, Stages, Callers
      <4>2. call' = [call EXCEPT ![c] = k]
        BY <2>0, <2>2, <3>0 DEF Source
      <4> QED
        BY <4>1, <4>2
    <3>2. call[c].stage = "invoked" /\ k.stage = "sourced" /\ k.polls = call[c].polls /\ k.ret = 0 /\ k.ret = call[c].ret
      BY <1>1, <2>0, <2>2 DEF Source, CallRecs, RetInv
    <3> QED
      BY <3>1, <3>2
  <2>3. CASE Simulate(c)
    <3> DEFINE k == [call[c] EXCEPT !.stage = "simulated", !.ret = Len(ledger) + 1]
    <3>1. k \in CallRecs /\ call' = [call EXCEPT ![c] = k]
      BY <2>0, <2>3 DEF Simulate, Retval, CallRecs, Stages, Callers
    <3>2. call[c].stage = "sourced" /\ k.stage = "simulated" /\ k.polls = call[c].polls /\ k.ret # 0 /\ k.ret = Len(ledger) + 1
      BY <2>0, <2>3 DEF Simulate, CallRecs
    <3> QED
      BY <3>1, <3>2
  <2>4. CASE Fails(c)
    <3> DEFINE k == [call[c] EXCEPT !.stage = "failed"]
    <3>1. k \in CallRecs /\ call' = [call EXCEPT ![c] = k]
      BY <2>0, <2>4 DEF Fails, CallRecs, Stages, Callers, Ended
    <3>2. call[c].stage \in {"invoked", "sourced", "simulated"} /\ k.stage = "failed" /\ k.polls = call[c].polls /\ k.ret = call[c].ret
      BY <2>0, <2>4 DEF Fails, CallRecs
    <3> QED
      BY <3>1, <3>2
  <2> QED
    BY <2>1, <2>2, <2>3, <2>4
<1>4. call' \in [Calls -> CallRecs] /\ call'[c] = k /\ \A d \in Calls \ {c} : call'[d] = call[d]
  BY <1>1, <1>3 DEF CallTypes
<1>5. \A d : OnLedger(d)' <=> OnLedger(d)
  BY <1>2 DEF OnLedger
<1>6. ~OnLedger(c) /\ \A t \in wire : t.call # c
  BY <1>1, <1>3 DEF StageInv, Reached
<1>7. CallTypes'
  BY <1>1, <1>2, <1>4 DEF CallTypes
<1>8. StageInv'
  <2>1. \A t \in wire' : call'[t.call].stage \in {"sent", "timeout"} /\ ~OnLedger(t.call)'
    BY <1>1, <1>2, <1>4, <1>5, <1>6 DEF StageInv, CallTypes
  <2>2. \A i \in DOMAIN ledger' : ledger'[i].call \in Calls => ledger'[i].by = call'[ledger'[i].call].caller
    BY <1>1, <1>2, <1>4, <1>6 DEF StageInv, OnLedger
  <2>3. \A d \in Calls : /\ call'[d].polls <= MaxPolls
                         /\ OnLedger(d)' => call'[d].stage \in Reached
                         /\ call'[d].stage = "ok" => OnLedger(d)'
    BY <1>1, <1>3, <1>4, <1>5, <1>6 DEF StageInv, Reached
  <2> QED
    BY <1>1, <1>2, <2>1, <2>2, <2>3 DEF StageInv
<1>9. RetInv'
  <2>1. c \notin overtaken /\ k.ret # 0 => k.ret = Len(ledger) + 1
    BY <1>1, <1>3, <1>6 DEF RetInv
  <2>2. ASSUME NEW d \in Calls
        PROVE  /\ call'[d].stage \in {"idle", "invoked", "sourced"} => call'[d].ret = 0
               /\ call'[d].stage \in {"simulated"} \cup Reached => call'[d].ret # 0
               /\ (d \notin overtaken' /\ call'[d].ret # 0) =>
                     IF OnLedger(d)' THEN call'[d].ret \in DOMAIN ledger' /\ ledger'[call'[d].ret].call = d
                     ELSE call'[d].ret = Len(ledger') + 1
    <3>1. CASE d = c
      BY <1>2, <1>3, <1>4, <1>5, <1>6, <2>1, <3>1 DEF Reached
    <3>2. CASE d # c
      BY <1>1, <1>2, <1>4, <1>5, <3>2 DEF RetInv
    <3> QED
      BY <3>1, <3>2
  <2> QED
    BY <2>2 DEF RetInv
<1>10. SequenceInv'
  <2>1. \A d \in Calls : OnLedger(d)' => OnLedger(d) /\ d # c /\ call'[d] = call[d]
    BY <1>4, <1>5, <1>6
  <2> QED
    BY <1>1, <1>2, <2>1 DEF SequenceInv, NoTwoWithOneSequence
<1> QED
  BY <1>7, <1>8, <1>9, <1>10 DEF CallsInv

\* What submitting and polling make of a call and of the wire.
MovesTo(c, k) ==
    /\ call' = [call EXCEPT ![c] = k] /\ k.polls <= MaxPolls /\ k.ret = call[c].ret
    /\ k.caller = call[c].caller /\ k.source = call[c].source /\ k.seq = call[c].seq
    /\ \/ /\ call[c].stage = "simulated" /\ k.stage = "sent"
          /\ wire' = wire \cup {[call |-> c, signer |-> freighter]}
       \/ /\ call[c].stage = "sent" /\ wire' = wire
          /\ \/ k.stage = "ok" /\ OnLedger(c)
             \/ k.stage = "failed" /\ ~OnLedger(c) /\ ~OnWire(c)
             \/ k.stage \in {"sent", "timeout"}

\* Submitting and polling keep the invariant.
LEMMA CallMoves ==
    ASSUME CallTypes, StageInv, NEW c \in Calls, Submit(c) \/ Poll(c)
    PROVE  \E k \in CallRecs : MovesTo(c, k)
<1>0. /\ call[c] \in CallRecs /\ call \in [Calls -> CallRecs] /\ call[c].polls \in Nat
      /\ MaxPolls \in Nat /\ call[c].polls <= MaxPolls
  BY SorobanAssumptions DEF CallTypes, CallRecs, StageInv
<1>1. ASSUME NEW s \in {"sent", "ok", "failed", "timeout"}, call' = [call EXCEPT ![c].stage = s],
             \/ call[c].stage = "simulated" /\ s = "sent" /\ wire' = wire \cup {[call |-> c, signer |-> freighter]}
             \/ /\ call[c].stage = "sent" /\ wire' = wire
                /\ \/ s = "ok" /\ OnLedger(c)
                   \/ s = "failed" /\ ~OnLedger(c) /\ ~OnWire(c)
                   \/ s = "timeout"
      PROVE  \E k \in CallRecs : MovesTo(c, k)
  <2> DEFINE k == [call[c] EXCEPT !.stage = s]
  <2>1. k \in CallRecs /\ call' = [call EXCEPT ![c] = k]
    BY <1>0, <1>1 DEF CallRecs, Stages, Ended
  <2>2. /\ k.polls = call[c].polls /\ k.ret = call[c].ret /\ k.stage = s
        /\ k.caller = call[c].caller /\ k.source = call[c].source /\ k.seq = call[c].seq
    BY <1>0 DEF CallRecs
  <2> HIDE DEF k
  <2>3. MovesTo(c, k)
    BY <1>0, <1>1, <2>1, <2>2 DEF MovesTo
  <2> QED
    BY <2>1, <2>3
<1>2. ASSUME call' = [call EXCEPT ![c].polls = @ + 1], call[c].polls < MaxPolls, call[c].stage = "sent", wire' = wire
      PROVE  \E k \in CallRecs : MovesTo(c, k)
  <2>0. PICK n \in Nat : n = call[c].polls + 1 /\ n <= MaxPolls
    BY <1>0, <1>2
  <2> DEFINE k == [call[c] EXCEPT !.polls = n]
  <2>1. k \in CallRecs /\ call' = [call EXCEPT ![c] = k]
    BY <1>0, <1>2, <2>0 DEF CallRecs
  <2>2. /\ k.polls = n /\ k.ret = call[c].ret /\ k.stage = "sent"
        /\ k.caller = call[c].caller /\ k.source = call[c].source /\ k.seq = call[c].seq
    BY <1>0, <1>2 DEF CallRecs
  <2> HIDE DEF k
  <2>3. MovesTo(c, k)
    BY <1>2, <2>0, <2>1, <2>2 DEF MovesTo
  <2> QED
    BY <2>1, <2>3
<1>3. CASE Submit(c)
  BY <1>1, <1>3 DEF Submit
<1>4. CASE Poll(c)
  BY <1>1, <1>2, <1>4 DEF Poll, FailedStatus
<1> QED
  BY <1>3, <1>4

\* Sending a transaction and polling for its result.
LEMMA CallsStep2 ==
    ASSUME CallsInv, NEW c \in Calls, Submit(c) \/ Poll(c)
    PROVE  CallsInv'
<1>1. CallTypes /\ StageInv /\ RetInv /\ SequenceInv
  BY DEF CallsInv
<1>2. /\ ledger' = ledger /\ seqNo' = seqNo /\ overtaken' = overtaken
      /\ freighter' = freighter /\ active' = active
  BY DEF Submit, Poll
<1>3. PICK k \in CallRecs : MovesTo(c, k)
  BY <1>1, CallMoves
<1>4. call' \in [Calls -> CallRecs] /\ call'[c] = k /\ \A d \in Calls \ {c} : call'[d] = call[d]
  BY <1>1, <1>3 DEF CallTypes, MovesTo
<1>5. \A d : OnLedger(d)' <=> OnLedger(d)
  BY <1>2 DEF OnLedger
<1>6. \A d \in Calls : /\ call'[d].ret = call[d].ret /\ call'[d].caller = call[d].caller
                       /\ call'[d].source = call[d].source /\ call'[d].seq = call[d].seq
  BY <1>3, <1>4 DEF MovesTo
<1>7. wire' \in SUBSET [call : Calls, signer : SorobanAccounts]
      /\ \A t \in wire' : t \in wire \/ (call[c].stage = "simulated" /\ t = [call |-> c, signer |-> freighter])
  <2>1. PICK t \in [call : Calls, signer : SorobanAccounts] : t = [call |-> c, signer |-> freighter]
    BY <1>1 DEF CallTypes
  <2>2. wire' = wire \/ (call[c].stage = "simulated" /\ wire' = wire \cup {t})
    BY <1>3, <2>1 DEF MovesTo
  <2>3. wire \in SUBSET [call : Calls, signer : SorobanAccounts]
    BY <1>1 DEF CallTypes
  <2>4. wire' \in SUBSET [call : Calls, signer : SorobanAccounts]
    BY <2>2, <2>3
  <2>5. \A u \in wire' : u \in wire \/ (call[c].stage = "simulated" /\ u = t)
    BY <2>2
  <2> QED
    BY <2>1, <2>4, <2>5
<1>8. call[c].stage = "simulated" => (~OnLedger(c) /\ \A t \in wire : t.call # c)
  BY <1>1 DEF StageInv, Reached
<1>9. CallTypes'
  BY <1>1, <1>2, <1>4, <1>7 DEF CallTypes
<1>10. StageInv'
  <2>1. ASSUME NEW t \in wire' PROVE call'[t.call].stage \in {"sent", "timeout"} /\ ~OnLedger(t.call)'
    <3>1. CASE t \in wire /\ t.call # c
      BY <1>1, <1>4, <1>5, <1>7, <3>1 DEF StageInv
    <3>2. CASE t \in wire /\ t.call = c
      BY <1>1, <1>3, <1>4, <1>5, <3>2 DEF StageInv, MovesTo, OnWire
    <3>3. CASE t \notin wire
      BY <1>3, <1>4, <1>5, <1>7, <1>8, <3>3 DEF MovesTo
    <3> QED
      BY <3>1, <3>2, <3>3
  <2>2. \A t, u \in wire' : t.call = u.call => t = u
    BY <1>1, <1>7, <1>8 DEF StageInv
  <2>3. \A i \in DOMAIN ledger' : ledger'[i].call \in Calls => ledger'[i].by = call'[ledger'[i].call].caller
    BY <1>1, <1>2, <1>6 DEF StageInv
  <2>4. \A d \in Calls : /\ call'[d].polls <= MaxPolls
                         /\ OnLedger(d)' => call'[d].stage \in Reached
                         /\ call'[d].stage = "ok" => OnLedger(d)'
    BY <1>1, <1>3, <1>4, <1>5 DEF StageInv, Reached, MovesTo
  <2> QED
    BY <1>1, <1>2, <2>1, <2>2, <2>3, <2>4 DEF StageInv
<1>11. RetInv'
  <2>1. \A d \in Calls : /\ call'[d].stage \in {"idle", "invoked", "sourced"} => call[d].stage \in {"idle", "invoked", "sourced"}
                         /\ call'[d].stage \in {"simulated"} \cup Reached => call[d].stage \in {"simulated"} \cup Reached
    BY <1>3, <1>4 DEF MovesTo, Reached
  <2> QED
    BY <1>1, <1>2, <1>5, <1>6, <2>1 DEF RetInv
<1>12. SequenceInv'
  BY <1>1, <1>2, <1>5, <1>6 DEF SequenceInv, NoTwoWithOneSequence
<1> QED
  BY <1>9, <1>10, <1>11, <1>12 DEF CallsInv

\* Entries of the ledger after one more.
LEMMA OneEntryMore ==
    ASSUME NEW s, ledger \in Seq(s), NEW e \in s, ledger' = Append(ledger, e)
    PROVE  /\ ledger' \in Seq(s) /\ Len(ledger') = Len(ledger) + 1 /\ Len(ledger) \in Nat
           /\ DOMAIN ledger = 1 .. Len(ledger) /\ DOMAIN ledger' = 1 .. (Len(ledger) + 1)
           /\ \A i \in DOMAIN ledger : ledger'[i] = ledger[i]
           /\ ledger'[Len(ledger) + 1] = e
           /\ \A d : OnLedger(d)' <=> OnLedger(d) \/ e.call = d
<1>1. /\ ledger' \in Seq(s) /\ Len(ledger') = Len(ledger) + 1 /\ Len(ledger) \in Nat
      /\ DOMAIN ledger = 1 .. Len(ledger) /\ DOMAIN ledger' = 1 .. (Len(ledger) + 1)
      /\ \A i \in DOMAIN ledger : ledger'[i] = ledger[i]
      /\ ledger'[Len(ledger) + 1] = e
  OBVIOUS
<1>2. DOMAIN ledger' = DOMAIN ledger \cup {Len(ledger) + 1}
  BY <1>1
<1>3. \A d : OnLedger(d)' <=> OnLedger(d) \/ e.call = d
  BY <1>1, <1>2 DEF OnLedger
<1> QED
  BY <1>1, <1>3

\* What a creation does, by a transaction of a call or by another client.
Adds(e) ==
    /\ Creates(e, e.call) /\ freighter' = freighter /\ active' = active /\ call' = call
    /\ e.call \in Calls => /\ ~OnLedger(e.call) /\ e.by = call[e.call].caller
                           /\ call[e.call].stage \in {"sent", "timeout"}
                           /\ call[e.call].source \in SorobanAccounts
                           /\ call[e.call].seq = seqNo[call[e.call].source] + 1
                           /\ seqNo' = [seqNo EXCEPT ![call[e.call].source] = @ + 1]
                           /\ wire' \in SUBSET wire /\ \A t \in wire' : t.call # e.call
    /\ e.call \notin Calls => seqNo' = seqNo /\ wire' = wire

Entry == [by : Callers \cup {"other"}, call : Calls \cup {0}]

\* A transaction that lands extends the ledger by its entry.
LEMMA EntryAdded ==
    ASSUME CallTypes, StageInv, (\E t \in wire : Apply(t)) \/ OtherCreates
    PROVE  \E e \in Entry : Adds(e)
<1>1. CASE OtherCreates
  <2>1. PICK e \in Entry : e = [by |-> "other", call |-> 0]
    BY DEF Entry
  <2>2. e.call = 0 /\ e.call \notin Calls
    BY <2>1, SorobanAssumptions
  <2>3. Adds(e)
    BY <1>1, <2>1, <2>2 DEF OtherCreates, Adds
  <2> QED
    BY <2>3
<1>2. ASSUME NEW t \in wire, Apply(t) PROVE \E e \in Entry : Adds(e)
  <2>1. t.call \in Calls /\ t.signer \in SorobanAccounts /\ call[t.call] \in CallRecs
    BY DEF CallTypes
  <2>2. PICK e \in Entry : e = [by |-> call[t.call].caller, call |-> t.call]
    BY <2>1 DEF Entry, CallRecs
  <2>3. e.call = t.call /\ e.by = call[t.call].caller
    BY <2>2
  <2>4. /\ call[t.call].source = t.signer /\ call[t.call].seq = seqNo[call[t.call].source] + 1
        /\ Creates(e, e.call) /\ freighter' = freighter /\ active' = active /\ call' = call
        /\ seqNo' = [seqNo EXCEPT ![call[e.call].source] = @ + 1] /\ wire' = wire \ {t}
    BY <1>2, <2>2, <2>3 DEF Apply, Valid
  <2>5. ~OnLedger(t.call) /\ call[t.call].stage \in {"sent", "timeout"} /\ \A u \in wire \ {t} : u.call # t.call
    BY DEF StageInv
  <2>6. Adds(e)
    BY <2>1, <2>3, <2>4, <2>5 DEF Adds
  <2> QED
    BY <2>6
<1> QED
  BY <1>1, <1>2

\* An entry is created.
LEMMA CallsStep3 ==
    ASSUME CallsInv, (\E t \in wire : Apply(t)) \/ OtherCreates
    PROVE  CallsInv'
<1>1. CallTypes /\ StageInv /\ RetInv /\ SequenceInv
  BY DEF CallsInv
<1>2. PICK e \in Entry : Adds(e)
  BY <1>1, EntryAdded
<1>3. ledger \in Seq(Entry) /\ ledger' = Append(ledger, e) /\ call' = call
  BY <1>1, <1>2 DEF CallTypes, Entry, Adds, Creates
<1>4. /\ ledger' \in Seq(Entry) /\ Len(ledger') = Len(ledger) + 1 /\ Len(ledger) \in Nat
      /\ DOMAIN ledger = 1 .. Len(ledger) /\ DOMAIN ledger' = 1 .. (Len(ledger) + 1)
      /\ \A i \in DOMAIN ledger : ledger'[i] = ledger[i]
      /\ ledger'[Len(ledger) + 1] = e
      /\ \A d : OnLedger(d)' <=> OnLedger(d) \/ e.call = d
  BY <1>3, OneEntryMore
<1>5. wire' \in SUBSET wire /\ \A t \in wire' : t.call # e.call
  <2>1. e.call \notin Calls => \A t \in wire : t.call # e.call
    BY <1>1 DEF CallTypes
  <2> QED
    BY <1>2, <2>1 DEF Adds
<1>6. /\ seqNo' \in [SorobanAccounts -> Nat] /\ \A a \in SorobanAccounts : seqNo[a] \in Nat /\ seqNo'[a] >= seqNo[a]
      /\ e.call \in Calls => seqNo'[call[e.call].source] = seqNo[call[e.call].source] + 1
  <2>1. seqNo \in [SorobanAccounts -> Nat]
    BY <1>1 DEF CallTypes
  <2>2. CASE e.call \in Calls
    <3>1. PICK a \in SorobanAccounts : a = call[e.call].source /\ seqNo' = [seqNo EXCEPT ![a] = @ + 1]
      BY <1>2, <2>2 DEF Adds
    <3> QED
      BY <2>1, <2>2, <3>1
  <2>3. CASE e.call \notin Calls
    BY <1>2, <2>1, <2>3 DEF Adds
  <2> QED
    BY <2>2, <2>3
<1>7. CallTypes'
  BY <1>1, <1>2, <1>3, <1>4, <1>5, <1>6 DEF CallTypes, Entry, Adds
<1>8. StageInv'
  <2>1. \A t \in wire' : call'[t.call].stage \in {"sent", "timeout"} /\ ~OnLedger(t.call)'
    BY <1>1, <1>3, <1>4, <1>5 DEF StageInv
  <2>2. \A t, u \in wire' : t.call = u.call => t = u
    BY <1>1, <1>5 DEF StageInv
  <2>3. \A i \in DOMAIN ledger' : \/ i \in DOMAIN ledger /\ ledger'[i] = ledger[i]
                                  \/ i = Len(ledger) + 1 /\ ledger'[i] = e
    <3>1. DOMAIN ledger' = DOMAIN ledger \cup {Len(ledger) + 1}
      BY <1>4
    <3> QED
      BY <1>4, <3>1
  <2>4. \A i \in DOMAIN ledger' : ledger'[i].call \in Calls => ledger'[i].by = call'[ledger'[i].call].caller
    BY <1>1, <1>2, <1>3, <2>3 DEF StageInv, Adds
  <2>5. \A d \in Calls : /\ call'[d].polls <= MaxPolls
                         /\ OnLedger(d)' => call'[d].stage \in Reached
                         /\ call'[d].stage = "ok" => OnLedger(d)'
    BY <1>1, <1>2, <1>3, <1>4 DEF StageInv, Reached, Adds
  <2>6. e.call \in Calls => \A i \in DOMAIN ledger : ledger[i].call # e.call
    BY <1>2 DEF Adds, OnLedger
  <2>7. \A i, j \in DOMAIN ledger' : ledger'[i].call \in Calls /\ ledger'[i].call = ledger'[j].call => i = j
    BY <1>1, <2>3, <2>6 DEF StageInv
  <2> QED
    BY <2>1, <2>2, <2>4, <2>5, <2>7 DEF StageInv
<1>9. RetInv'
  <2>1. ASSUME NEW d \in Calls
        PROVE  /\ call'[d].stage \in {"idle", "invoked", "sourced"} => call'[d].ret = 0
               /\ call'[d].stage \in {"simulated"} \cup Reached => call'[d].ret # 0
               /\ (d \notin overtaken' /\ call'[d].ret # 0) =>
                     IF OnLedger(d)' THEN call'[d].ret \in DOMAIN ledger' /\ ledger'[call'[d].ret].call = d
                     ELSE call'[d].ret = Len(ledger') + 1
    <3>0. /\ call'[d].stage \in {"idle", "invoked", "sourced"} => call'[d].ret = 0
          /\ call'[d].stage \in {"simulated"} \cup Reached => call'[d].ret # 0
      BY <1>1, <1>3 DEF RetInv
    <3>1. overtaken \in SUBSET overtaken'
          /\ (d # e.call /\ call[d].ret # 0 /\ ~OnLedger(d) => d \in overtaken')
      BY <1>2 DEF Adds, Creates, OnLedger
    <3>2. CASE d = e.call
      <4>1. ~OnLedger(d) /\ OnLedger(d)'
        BY <1>2, <1>4, <3>2 DEF Adds
      <4>2. (d \notin overtaken /\ call[d].ret # 0) => call[d].ret = Len(ledger) + 1
        BY <1>1, <4>1 DEF RetInv
      <4>3. Len(ledger) + 1 \in DOMAIN ledger' /\ ledger'[Len(ledger) + 1].call = d
        BY <1>4, <3>2
      <4> QED
        BY <1>3, <3>0, <3>1, <4>1, <4>2, <4>3
    <3>3. CASE d # e.call
      <4>1. OnLedger(d)' <=> OnLedger(d)
        BY <1>4, <3>3
      <4>2. OnLedger(d) /\ d \notin overtaken' /\ call[d].ret # 0
               => call[d].ret \in DOMAIN ledger /\ ledger[call[d].ret].call = d
        BY <1>1, <3>1 DEF RetInv
      <4>3. \A i \in DOMAIN ledger : i \in DOMAIN ledger' /\ ledger'[i] = ledger[i]
        BY <1>4
      <4> QED
        BY <1>3, <3>0, <3>1, <3>3, <4>1, <4>2, <4>3
    <3> QED
      BY <3>2, <3>3
  <2> QED
    BY <2>1 DEF RetInv
<1>10. SequenceInv'
  <2>0. \A d \in Calls : call[d].seq \in Nat
    BY <1>1 DEF CallTypes, CallRecs
  <2>1. ASSUME NEW d \in Calls, OnLedger(d)'
        PROVE  call[d].source \in SorobanAccounts /\ call[d].seq <= seqNo'[call[d].source]
    <3>1. CASE OnLedger(d)
      <4>1. call[d].source \in SorobanAccounts /\ call[d].seq <= seqNo[call[d].source]
        BY <1>1, <3>1 DEF SequenceInv
      <4>2. PICK a \in SorobanAccounts : a = call[d].source
        BY <4>1
      <4>3. seqNo'[a] \in Nat /\ seqNo[a] \in Nat /\ seqNo'[a] >= seqNo[a]
        BY <1>6
      <4> QED
        BY <2>0, <4>1, <4>2, <4>3
    <3>2. CASE d = e.call
      BY <1>2, <1>6, <2>0, <3>2 DEF Adds
    <3> QED
      BY <1>4, <2>1, <3>1, <3>2
  <2>2. ASSUME NEW d \in Calls, OnLedger(d), e.call \in Calls, call[d].source = call[e.call].source
        PROVE  call[d].seq # call[e.call].seq
    <3>1. call[d].source \in SorobanAccounts /\ call[d].seq <= seqNo[call[d].source]
      BY <1>1, <2>2 DEF SequenceInv
    <3>2. call[e.call].seq = seqNo[call[d].source] + 1
      BY <1>2, <2>2 DEF Adds
    <3> QED
      BY <1>6, <2>0, <3>1, <3>2
  <2>3. NoTwoWithOneSequence'
    BY <1>1, <1>3, <1>4, <2>2 DEF SequenceInv, NoTwoWithOneSequence
  <2> QED
    BY <1>3, <2>1, <2>3 DEF SequenceInv
<1> QED
  BY <1>7, <1>8, <1>9, <1>10 DEF CallsInv

\* Every step of a call, of the network and of the wallet keeps the invariant.
LEMMA CallsStep == CallsInv /\ [SorobanNext]_sorobanVars => CallsInv'
<1> SUFFICES ASSUME CallsInv, [SorobanNext]_sorobanVars PROVE CallsInv'
  OBVIOUS
<1>1. CASE UNCHANGED sorobanVars
  BY <1>1 DEF sorobanVars, CallsInv, CallTypes, StageInv, RetInv, SequenceInv, NoTwoWithOneSequence, OnLedger
<1>2. ASSUME NEW c \in Calls, Invoke(c) \/ Source(c) \/ Simulate(c) \/ Fails(c) PROVE CallsInv'
  BY <1>2, CallsStep1
<1>3. ASSUME NEW c \in Calls, Submit(c) \/ Poll(c) PROVE CallsInv'
  BY <1>3, CallsStep2
<1>4. CASE (\E t \in wire : Apply(t)) \/ OtherCreates
  BY <1>4, CallsStep3
<1>5. ASSUME NEW t \in wire, Drop(t) PROVE CallsInv'
  BY <1>5 DEF Drop, CallsInv, CallTypes, StageInv, RetInv, SequenceInv, NoTwoWithOneSequence, OnLedger
<1>6. CASE (\E a \in SorobanAccounts : SwitchFreighter(a)) \/ Follow
  <2>1. /\ call' = call /\ ledger' = ledger /\ seqNo' = seqNo /\ wire' = wire /\ overtaken' = overtaken
        /\ freighter' \in SorobanAccounts /\ active' \in SorobanAccounts
    BY <1>6 DEF SwitchFreighter, Follow, CallsInv, CallTypes
  <2> QED
    BY <2>1 DEF CallsInv, CallTypes, StageInv, RetInv, SequenceInv, NoTwoWithOneSequence, OnLedger
<1> QED
  BY <1>1, <1>2, <1>3, <1>4, <1>5, <1>6 DEF SorobanNext

\* What a call reports is what the ledger did.
LEMMA CallsCorrect == CallsInv => SorobanTypeOK /\ OutcomesAreTrue /\ ReturnedIdIsOwn /\ NoTwoWithOneSequence
<1> SUFFICES ASSUME CallsInv PROVE SorobanTypeOK /\ OutcomesAreTrue /\ ReturnedIdIsOwn /\ NoTwoWithOneSequence
  OBVIOUS
<1>1. CallTypes /\ StageInv /\ RetInv /\ SequenceInv
  BY DEF CallsInv
<1>2. SorobanTypeOK
  BY <1>1, SorobanAssumptions DEF CallTypes, CallRecs, Stages, StageInv, SorobanTypeOK
<1>3. ASSUME NEW c \in Calls, call[c].stage = "ok"
      PROVE  \E i \in DOMAIN ledger : ledger[i] = [by |-> call[c].caller, call |-> c]
  <2>1. PICK i \in DOMAIN ledger : ledger[i].call = c /\ ledger[i].by = call[c].caller
    BY <1>1, <1>3 DEF StageInv, OnLedger
  <2>2. ledger \in Seq(Entry)
    BY <1>1 DEF CallTypes, Entry
  <2>3. ledger[i] \in Entry
    BY <2>2
  <2> QED
    BY <2>1, <2>3 DEF Entry
<1>4. ASSUME NEW c \in Calls, call[c].stage = "failed" PROVE ~OnLedger(c) /\ ~OnWire(c)
  BY <1>1, <1>4 DEF StageInv, Reached, OnWire
<1>5. ReturnedIdIsOwn
  BY <1>1 DEF ReturnedIdIsOwn, RetInv, StageInv, Reached
<1> QED
  BY <1>1, <1>2, <1>3, <1>4, <1>5 DEF OutcomesAreTrue, SequenceInv

-----------------------------------------------------------------------------
(* The Soroban contract.                                                   *)

ReleaseRecs == [emergency : BOOLEAN, period : Nat, last : Nat, lastSeq : Nat]
ScheduleRecs == [cycle : Nat, asked : Nat, fulfilled : BOOLEAN, at : Nat, seq : Nat]

\* The ledger goes on, signs of life are of the past and schedules are of
\* emergencies that began.
LifeInv ==
    /\ tip \in [time : Nat, seq : Nat] /\ release \in ReleaseRecs /\ cycle \in Nat
    /\ window \in Nat \ {0}
    /\ release.last <= tip.time /\ release.lastSeq <= tip.seq
    /\ schedule # Nil => schedule \in ScheduleRecs /\ schedule.cycle <= cycle

\* A request has the fields of the source's Request.
Formed(q) ==
    q = [doc |-> q.doc, requester |-> q.requester, approved_by |-> q.approved_by,
         status |-> q.status, expires |-> q.expires]

PaperInv ==
    /\ papers \in Seq([by : Folk, condition : Conditions])
    /\ asked \in Seq({asked[r] : r \in DOMAIN asked}) /\ \A r \in DOMAIN asked : Formed(asked[r])

SorobanVaultNext == AccessNext \/ TokensNext \/ ReleaseNext \/ UpgradeNext

\* What a step may do to a delay that was drawn and to a vault that is alive.
Stands ==
    /\ (schedule # Nil /\ schedule.fulfilled /\ schedule' # schedule) =>
           schedule' = Nil \/ schedule'.cycle > schedule.cycle
    /\ (~IsDead /\ IsDead' /\ record.threshold # 0) =>
           tip' # tip \/ release'.period < release.period

\* Initially there is no vault.
LEMMA LifeInitial == SorobanVaultInit => LifeInv
<1> SUFFICES ASSUME SorobanVaultInit PROVE LifeInv OBVIOUS
<1>1. FirstPeriod \in Nat /\ FirstWindow \in Nat \ {0} BY SorobanVaultAssumptions
<1>2. tip = [time |-> 0, seq |-> 0] /\ cycle = 0 /\ schedule = Nil /\ window = FirstWindow
      /\ release = [emergency |-> FALSE, period |-> FirstPeriod, last |-> 0, lastSeq |-> 0]
  BY DEF SorobanVaultInit
<1> QED BY <1>1, <1>2 DEF LifeInv, ReleaseRecs

\* Proofs of life, keepers, periods, emergencies and the ledger itself.
LEMMA LifeStep == LifeInv /\ [SorobanVaultNext]_sorobanVaultVars => LifeInv' /\ Stands
<1> SUFFICES ASSUME LifeInv, [SorobanVaultNext]_sorobanVaultVars PROVE LifeInv' /\ Stands OBVIOUS
<1>0. /\ DeathLedgers \in Nat /\ PeriodRange \subseteq Nat /\ LedgerGaps \subseteq Nat
      /\ tip \in [time : Nat, seq : Nat] /\ release \in ReleaseRecs /\ cycle \in Nat
      /\ tip.time \in Nat /\ tip.seq \in Nat /\ release.last <= tip.time /\ release.lastSeq <= tip.seq
      /\ release.period \in Nat /\ release.last \in Nat /\ release.lastSeq \in Nat
  BY SorobanVaultAssumptions DEF LifeInv, ReleaseRecs
<1>1. CASE UNCHANGED <<tip, release, schedule, cycle, window>>
  BY <1>1 DEF LifeInv, Stands, IsDead
<1>2. CASE CloseLedger
  <2>1. PICK gap \in LedgerGaps : tip' = [time |-> tip.time + gap, seq |-> tip.seq + 1]
    BY <1>2 DEF CloseLedger
  <2>2. UNCHANGED <<release, schedule, cycle, window>> BY <1>2 DEF CloseLedger, releaseVars
  <2>3. tip'.time = tip.time + gap /\ tip'.seq = tip.seq + 1 /\ gap \in Nat BY <1>0, <2>1
  <2>4. tip' \in [time : Nat, seq : Nat] /\ tip'.seq # tip.seq BY <1>0, <2>1, <2>3
  <2>5. release.last <= tip'.time /\ release.lastSeq <= tip'.seq BY <1>0, <2>3
  <2> QED BY <2>2, <2>4, <2>5 DEF LifeInv, Stands
<1>3. ASSUME release' = [release EXCEPT !.last = tip.time, !.lastSeq = tip.seq],
             UNCHANGED <<tip, schedule, cycle, window>>
      PROVE  LifeInv' /\ Stands
  <2>1. release' \in ReleaseRecs /\ release'.last = tip.time /\ release'.lastSeq = tip.seq
        /\ release'.period = release.period
    BY <1>0, <1>3 DEF ReleaseRecs
  <2>2. IsDead' => IsDead BY <1>0, <1>3, <2>1 DEF IsDead
  <2> QED BY <1>0, <1>3, <2>1, <2>2 DEF LifeInv, Stands
<1>4. ASSUME NEW p \in AskedPeriods, configure_vault_release(p) PROVE LifeInv' /\ Stands
  <2>1. p \in Nat /\ release' = [release EXCEPT !.period = p] /\ UNCHANGED <<tip, schedule, cycle, window>>
    BY <1>0, <1>4 DEF configure_vault_release
  <2>2. release' \in ReleaseRecs /\ release'.last = release.last /\ release'.lastSeq = release.lastSeq
        /\ release'.period = p
    BY <1>0, <2>1 DEF ReleaseRecs
  <2>3. ~IsDead /\ IsDead' => p < release.period BY <1>0, <2>1, <2>2 DEF IsDead
  <2> QED BY <1>0, <2>1, <2>2, <2>3 DEF LifeInv, Stands
<1>5. ASSUME NEW on \in BOOLEAN, set_emergency_mode(on) PROVE LifeInv' /\ Stands
  <2>1. /\ release' = [release EXCEPT !.emergency = on] /\ tip' = tip /\ window' = window
        /\ cycle' = IF on THEN cycle + 1 ELSE cycle
        /\ schedule' = IF on THEN DelayRequested(cycle + 1) ELSE Nil
    BY <1>5 DEF set_emergency_mode
  <2>2. release' \in ReleaseRecs /\ release'.last = release.last /\ release'.lastSeq = release.lastSeq
        /\ release'.period = release.period
    BY <1>0, <2>1 DEF ReleaseRecs
  <2>3. DelayRequested(cycle + 1) \in ScheduleRecs /\ DelayRequested(cycle + 1).cycle = cycle + 1
    BY <1>0 DEF DelayRequested, ScheduleRecs
  <2>4. cycle' \in Nat /\ (schedule' # Nil => schedule' \in ScheduleRecs /\ schedule'.cycle <= cycle')
    BY <1>0, <2>1, <2>3
  <2>5. schedule # Nil /\ schedule' # Nil => schedule'.cycle > schedule.cycle
    <3>1. schedule # Nil => schedule.cycle \in Nat /\ schedule.cycle <= cycle BY DEF LifeInv, ScheduleRecs
    <3> QED BY <1>0, <2>1, <2>3, <3>1
  <2>6. IsDead' <=> IsDead BY <2>1, <2>2 DEF IsDead
  <2> QED BY <1>0, <2>1, <2>2, <2>4, <2>5, <2>6 DEF LifeInv, Stands
<1>6. ASSUME NEW word \in PrngWords, fulfill_emergency_unlock_delay(word) PROVE LifeInv' /\ Stands
  <2>1. UNCHANGED <<tip, release, cycle, window>> /\ schedule # Nil /\ ~schedule.fulfilled
    BY <1>6 DEF fulfill_emergency_unlock_delay, DelayPending
  <2>2. schedule' \in ScheduleRecs /\ schedule'.cycle = schedule.cycle
    <3> DEFINE at == tip.time + UnlockDelay + (word % window)
               n == tip.seq + UnlockDelay \div LedgerSeconds + UnlockLedgers
                            + (word % window) \div LedgerSeconds
    <3>1. schedule' = [schedule EXCEPT !.fulfilled = TRUE, !.at = at, !.seq = n]
      BY <1>6 DEF fulfill_emergency_unlock_delay
    <3>2. at \in Nat /\ n \in Nat
      <4>1. word % window \in Nat /\ UnlockDelay \in Nat /\ UnlockLedgers \in Nat /\ LedgerSeconds \in Nat \ {0}
        BY SorobanVaultAssumptions DEF LifeInv
      <4>2. (word % window) \div LedgerSeconds \in Nat /\ UnlockDelay \div LedgerSeconds \in Nat BY <4>1
      <4> QED BY <1>0, <4>1, <4>2
    <3> HIDE DEF at, n
    <3> QED BY <2>1, <3>1, <3>2 DEF LifeInv, ScheduleRecs
  <2>3. IsDead' <=> IsDead BY <2>1 DEF IsDead
  <2> QED BY <2>1, <2>2, <2>3 DEF LifeInv, Stands
<1>7. CASE Founding
  <2>1. record.threshold = 0 /\ UNCHANGED <<tip, schedule, cycle, window>>
        /\ release' = [release EXCEPT !.last = tip.time, !.lastSeq = tip.seq]
    BY <1>7 DEF Founding, create_vault
  <2> QED BY <1>3, <2>1
<1>8. ASSUME NEW w \in AskedWindows, set_emergency_jitter_window(w) PROVE LifeInv' /\ Stands
  <2>1. w \in Nat \ {0} /\ window' = w /\ UNCHANGED <<tip, release, schedule, cycle>>
    BY <1>8, SorobanVaultAssumptions DEF set_emergency_jitter_window
  <2> QED BY <2>1 DEF LifeInv, Stands, IsDead
<1>9. CASE AccessNext
  <2>1. CASE Founding BY <1>7, <2>1
  <2>2. CASE CloseLedger BY <1>2, <2>2
  <2>3. CASE deactivate_vault BY <1>1, <2>3 DEF deactivate_vault, releaseVars
  <2>4. \A r, list : Approve(r, list) => UNCHANGED <<tip, releaseVars>> BY DEF Approve
  <2>5. ASSUME NEW a, \/ accept_guardian_invite(a) \/ register_guardian_bls_key(a)
                      \/ verify_threshold_signatures(a) \/ \E c : add_document(a, c)
                      \/ \E d : request_access(a, d) \/ \E g : revoke_access(g, d, a)
        PROVE  LifeInv' /\ Stands
    BY <1>1, <2>5 DEF accept_guardian_invite, register_guardian_bls_key, verify_threshold_signatures,
                      add_document, request_access, revoke_access, releaseVars
  <2>6. ASSUME NEW r, \/ \E g : approve_access(g, r) \/ approve_access_fhe(g, r)
                      \/ \E list : approve_access_bls(list, r) \/ \E n : approve_access_threshold(r, n)
        PROVE  LifeInv' /\ Stands
    <3>1. UNCHANGED <<tip, releaseVars>>
      BY <2>4, <2>6 DEF approve_access, approve_access_fhe, approve_access_bls, approve_access_threshold
    <3> QED BY <1>1, <3>1 DEF releaseVars
  <2> QED BY <1>9, <2>1, <2>2, <2>3, <2>5, <2>6 DEF AccessNext
<1>10. CASE TokensNext
  BY <1>1, <1>7, <1>10 DEF TokensNext, deactivate_vault, mint_access_token, burn_access_token, transfer, releaseVars
<1>11. CASE UpgradeNext
  BY <1>1, <1>11 DEF UpgradeNext, init_admins, upgrade_contract, releaseVars
<1>12. CASE ReleaseNext
  BY <1>1, <1>2, <1>3, <1>4, <1>5, <1>6, <1>7, <1>8, <1>12
     DEF ReleaseNext, prove_life, revoke_keeper, deactivate_vault, prove_life_by_keeper, ProofOfLifeNow,
         authorize_keeper, releaseVars
<1> QED BY <1>1, <1>9, <1>10, <1>11, <1>12 DEF SorobanVaultNext, sorobanVaultVars, releaseVars

\* What a step may do to who has access.
AccessDecided ==
    \A p \in hasAccess' \ hasAccess :
        /\ record.active
        /\ \/ p[1] \notin DOMAIN papers /\ p[2] \in record.guardians
           \/ \E r \in DOMAIN asked :
                 /\ asked[r].doc = p[1] /\ asked[r].requester = p[2]
                 /\ asked[r].status = "Pending" /\ asked'[r].status = "Approved"
                 /\ tip.time < asked[r].expires

\* Initially there are no documents.
LEMMA PaperInitial == SorobanVaultInit => PaperInv
<1> SUFFICES ASSUME SorobanVaultInit PROVE PaperInv OBVIOUS
<1>1. papers = <<>> /\ asked = <<>> BY DEF SorobanVaultInit
<1> QED BY <1>1 DEF PaperInv

\* Documents and requests are only added to; access comes with a new document or
\* with the decision of a request that was open.
LEMMA PaperStep == PaperInv /\ [SorobanVaultNext]_sorobanVaultVars => PaperInv' /\ AccessDecided
<1> SUFFICES ASSUME PaperInv, [SorobanVaultNext]_sorobanVaultVars PROVE PaperInv' /\ AccessDecided OBVIOUS
<1> DEFINE Papers == [by : Folk, condition : Conditions]
<1>0. papers \in Seq(Papers) BY DEF PaperInv
<1>1. CASE UNCHANGED <<papers, asked>> /\ hasAccess' \subseteq hasAccess
  BY <1>1 DEF PaperInv, AccessDecided
<1>2. ASSUME NEW a \in Uploaders, NEW c \in PaperConditions, add_document(a, c) PROVE PaperInv' /\ AccessDecided
  <2> DEFINE d == [by |-> a, condition |-> c]
  <2>1. d \in Papers BY SorobanVaultAssumptions
  <2>2. papers' = Append(papers, d) /\ asked' = asked /\ hasAccess' = hasAccess \cup {<<Len(papers'), a>>}
        /\ record.active /\ a \in record.guardians
    BY <1>2 DEF add_document
  <2> HIDE DEF d
  <2>3. papers' \in Seq(Papers) BY <1>0, <2>1, <2>2
  <2>4. Len(papers') \notin DOMAIN papers
    <3>1. Len(papers') = Len(papers) + 1 /\ DOMAIN papers = 1 .. Len(papers) /\ Len(papers) \in Nat
      BY <1>0, <2>2
    <3> QED BY <3>1
  <2>5. \A p \in hasAccess' \ hasAccess : p[1] = Len(papers') /\ p[2] = a BY <2>2
  <2> QED BY <2>2, <2>3, <2>4, <2>5 DEF PaperInv, AccessDecided
<1>3. ASSUME NEW a, NEW d, request_access(a, d) PROVE PaperInv' /\ AccessDecided
  <2> DEFINE q == [doc |-> d, requester |-> a, approved_by |-> <<>>, status |-> "Pending",
                   expires |-> tip.time + RequestLife]
             old == {asked[r] : r \in DOMAIN asked}
             n == Len(asked)
  <2>1. asked' = Append(asked, q) /\ papers' = papers /\ hasAccess' = hasAccess BY <1>3 DEF request_access
  <2>2. Formed(q) BY DEF Formed
  <2> HIDE DEF q
  <2>3. asked \in Seq(old) /\ \A r \in DOMAIN asked : Formed(asked[r]) BY DEF PaperInv
  <2> HIDE DEF old
  <2>4. n \in Nat /\ DOMAIN asked = 1 .. n /\ DOMAIN asked' = 1 .. (n + 1) /\ Len(asked') = n + 1
        /\ asked'[n + 1] = q /\ \A r \in 1 .. n : asked'[r] = asked[r]
    <3>1. asked \in Seq(old \cup {q}) /\ q \in old \cup {q} BY <2>3
    <3> QED BY <2>1, <3>1
  <2>5. asked' \in Seq(old \cup {q}) BY <2>1, <2>3
  <2>6. \A r \in DOMAIN asked' : Formed(asked'[r])
    <3>1. \A r \in 1 .. (n + 1) : r \in 1 .. n \/ r = n + 1 BY <2>4
    <3> QED BY <2>2, <2>3, <2>4, <3>1
  <2>7. asked' \in Seq({asked'[r] : r \in DOMAIN asked'})
    BY <2>5
  <2> QED BY <2>1, <2>6, <2>7 DEF PaperInv, AccessDecided
\* a request is decided while it is open, and its requester has access from then on
<1>4. ASSUME NEW r \in DOMAIN asked, NEW by, NEW status, Approvable(r), papers' = papers,
             asked' = [asked EXCEPT ![r].approved_by = by, ![r].status = status],
             \/ hasAccess' = hasAccess
             \/ status = "Approved" /\ hasAccess' = hasAccess \cup {<<asked[r].doc, asked[r].requester>>}
      PROVE  PaperInv' /\ AccessDecided
  <2>1. DOMAIN asked' = DOMAIN asked /\ \A x \in DOMAIN asked : x # r => asked'[x] = asked[x]
    BY <1>4 DEF PaperInv
  <2>2. asked'[r] = [asked[r] EXCEPT !.approved_by = by, !.status = status] BY <1>4 DEF PaperInv
  <2>3. Formed(asked'[r]) /\ asked'[r].status = status BY <2>2 DEF PaperInv, Formed
  <2>4. asked' \in Seq({asked'[x] : x \in DOMAIN asked'})
    <3> DEFINE n == Len(asked)
               S == {asked'[x] : x \in DOMAIN asked'}
    <3>1. n \in Nat /\ DOMAIN asked = 1 .. n BY DEF PaperInv
    <3>2. asked' = [x \in 1 .. n |-> asked'[x]] BY <1>4, <2>1, <3>1
    <3>3. \A x \in 1 .. n : asked'[x] \in S BY <2>1, <3>1
    <3> HIDE DEF n, S
    <3> QED BY <3>1, <3>2, <3>3 DEF S
  <2>5. \A x \in DOMAIN asked' : Formed(asked'[x]) BY <2>1, <2>3 DEF PaperInv
  <2>6. PaperInv' BY <1>4, <2>4, <2>5 DEF PaperInv
  <2>7. AccessDecided BY <1>4, <2>3 DEF AccessDecided, Approvable
  <2> QED BY <2>6, <2>7
<1>5. ASSUME NEW r \in DOMAIN asked, NEW list, Approvable(r), Approve(r, list) PROVE PaperInv' /\ AccessDecided
  <2> DEFINE voters == Entered(r, list).by
  <2>1. /\ papers' = papers
        /\ IF Len(voters) >= record.threshold
           THEN /\ asked' = [asked EXCEPT ![r].approved_by = voters, ![r].status = "Approved"]
                /\ hasAccess' = hasAccess \cup {<<asked[r].doc, asked[r].requester>>}
           ELSE /\ asked' = [asked EXCEPT ![r].approved_by = voters]
                /\ UNCHANGED hasAccess
    BY <1>5 DEF Approve
  <2> HIDE DEF voters
  <2>2. CASE Len(voters) >= record.threshold BY <1>4, <1>5, <2>1, <2>2
  <2>3. CASE ~(Len(voters) >= record.threshold)
    <3>1. asked' = [asked EXCEPT ![r].approved_by = voters] /\ hasAccess' = hasAccess BY <2>1, <2>3
    <3>2. asked' = [asked EXCEPT ![r].approved_by = voters, ![r].status = asked[r].status]
      BY <3>1 DEF PaperInv, Formed
    <3> QED BY <1>4, <1>5, <2>1, <3>1, <3>2, ZenonT(60)
  <2> QED BY <2>2, <2>3
<1>6. ASSUME NEW r \in DOMAIN asked, NEW n, approve_access_threshold(r, n) PROVE PaperInv' /\ AccessDecided
  <2>1. /\ Approvable(r) /\ papers' = papers /\ asked' = [asked EXCEPT ![r].status = "Approved"]
        /\ hasAccess' = hasAccess \cup {<<asked[r].doc, asked[r].requester>>}
    BY <1>6 DEF approve_access_threshold
  <2>2. asked' = [asked EXCEPT ![r].approved_by = asked[r].approved_by, ![r].status = "Approved"]
    BY <2>1 DEF PaperInv, Formed
  <2> QED BY <1>4, <2>1, <2>2
<1>7. CASE AccessNext
  <2>1. CASE Founding BY <1>1, <2>1 DEF Founding, create_vault, accessVars
  <2>2. CASE CloseLedger BY <1>1, <2>2 DEF CloseLedger, accessVars
  <2>3. CASE deactivate_vault BY <1>1, <2>3 DEF deactivate_vault, accessVars
  <2>4. ASSUME NEW a, \/ accept_guardian_invite(a) \/ register_guardian_bls_key(a)
                      \/ verify_threshold_signatures(a) \/ \E d, g : revoke_access(g, d, a)
        PROVE  PaperInv' /\ AccessDecided
    BY <1>1, <2>4 DEF accept_guardian_invite, register_guardian_bls_key, verify_threshold_signatures,
                      revoke_access, accessVars
  <2>5. ASSUME NEW r \in DOMAIN asked, \/ \E g : approve_access(g, r) \/ approve_access_fhe(g, r)
                                       \/ \E list : approve_access_bls(list, r)
        PROVE  PaperInv' /\ AccessDecided
    <3>1. PICK list : Approvable(r) /\ Approve(r, list)
      BY <2>5 DEF approve_access, approve_access_fhe, approve_access_bls
    <3> QED BY <1>5, <3>1
  <2> QED BY <1>2, <1>3, <1>6, <1>7, <2>1, <2>2, <2>3, <2>4, <2>5 DEF AccessNext
<1>8. CASE TokensNext
  BY <1>1, <1>8 DEF TokensNext, Founding, create_vault, deactivate_vault, mint_access_token, burn_access_token,
                    transfer, accessVars
<1>9. CASE UpgradeNext
  BY <1>1, <1>9 DEF UpgradeNext, init_admins, upgrade_contract, accessVars
<1>10. CASE ReleaseNext
  <2>1. UNCHANGED accessVars
    BY <1>10 DEF ReleaseNext, Founding, create_vault, prove_life, revoke_keeper, deactivate_vault, CloseLedger,
                 prove_life_by_keeper, authorize_keeper, configure_vault_release, set_emergency_mode,
                 set_emergency_jitter_window, fulfill_emergency_unlock_delay
  <2> QED BY <1>1, <2>1 DEF accessVars
<1> QED BY <1>1, <1>7, <1>8, <1>9, <1>10 DEF SorobanVaultNext, sorobanVaultVars, accessVars

-----------------------------------------------------------------------------
(* Which entry points of the Soroban contract touch which part of it.      *)

\* Upgrades, tokens, access and release each have their own entry points; the
\* ledger closes for all.
LEMMA VaultFrames ==
    ASSUME [SorobanVaultNext]_sorobanVaultVars
    PROVE  /\ [UpgradeNext]_upgradeVars /\ [TokensNext]_tokenVars
           /\ [AccessNext]_<<vaultVars, accessVars>>
           /\ [ReleaseNext \/ CloseLedger]_<<tip, releaseVars>>
<1>1. CASE UNCHANGED sorobanVaultVars
  BY <1>1 DEF sorobanVaultVars
<1>2. CASE Founding \/ deactivate_vault \/ CloseLedger
  <2>1. UNCHANGED <<upgradeVars, tokenVars>>
    BY <1>2 DEF Founding, create_vault, deactivate_vault, CloseLedger
  <2>2. CASE CloseLedger
    BY <2>1, <2>2 DEF CloseLedger
  <2>3. CASE Founding \/ deactivate_vault
    BY <2>1, <2>3 DEF AccessNext, ReleaseNext
  <2> QED
    BY <1>2, <2>2, <2>3
<1>3. CASE AccessNext
  <2>1. \A r, list : Approve(r, list) => UNCHANGED <<tip, tokenVars, releaseVars, upgradeVars>>
    BY DEF Approve
  <2>2. ASSUME NEW a, \/ accept_guardian_invite(a) \/ register_guardian_bls_key(a)
                      \/ verify_threshold_signatures(a) \/ \E c : add_document(a, c)
                      \/ \E d : request_access(a, d) \/ \E g : revoke_access(g, d, a)
        PROVE  UNCHANGED <<tip, tokenVars, releaseVars, upgradeVars>>
    BY <2>2 DEF accept_guardian_invite, register_guardian_bls_key, verify_threshold_signatures,
                add_document, request_access, revoke_access
  <2>3. ASSUME NEW r, \/ \E g : approve_access(g, r) \/ approve_access_fhe(g, r)
                      \/ \E list : approve_access_bls(list, r) \/ \E n : approve_access_threshold(r, n)
        PROVE  UNCHANGED <<tip, tokenVars, releaseVars, upgradeVars>>
    BY <2>1, <2>3 DEF approve_access, approve_access_fhe, approve_access_bls, approve_access_threshold
  <2>4. CASE Founding \/ deactivate_vault \/ CloseLedger
    BY <1>2, <2>4
  <2>5. CASE UNCHANGED <<tip, tokenVars, releaseVars, upgradeVars>>
    BY <1>3, <2>5
  <2>6. \/ Founding \/ deactivate_vault \/ CloseLedger
        \/ UNCHANGED <<tip, tokenVars, releaseVars, upgradeVars>>
    BY <1>3, <2>2, <2>3 DEF AccessNext
  <2> QED
    BY <2>4, <2>5, <2>6
<1>4. CASE TokensNext
  <2>1. ASSUME NEW t, \/ \E g, a : mint_access_token(g, a)
                      \/ burn_access_token(t) \/ \E a : transfer(t, a)
        PROVE  UNCHANGED <<tip, vaultVars, accessVars, releaseVars, upgradeVars>>
    BY <2>1 DEF mint_access_token, burn_access_token, transfer
  <2>2. CASE UNCHANGED <<tip, vaultVars, accessVars, releaseVars, upgradeVars>>
    BY <1>4, <2>2
  <2> QED
    BY <1>2, <1>4, <2>1, <2>2 DEF TokensNext
<1>5. CASE UpgradeNext
  <2>1. UNCHANGED <<tip, vaultVars, accessVars, tokenVars, releaseVars>>
    BY <1>5 DEF UpgradeNext, init_admins, upgrade_contract
  <2> QED
    BY <1>5, <2>1
<1>6. CASE ReleaseNext
  <2>1. CASE Founding \/ deactivate_vault \/ CloseLedger
    BY <1>2, <2>1
  <2>2. CASE ~(Founding \/ deactivate_vault \/ CloseLedger)
    <3>1. UNCHANGED <<vaultVars, accessVars, tokenVars, upgradeVars>>
      BY <1>6, <2>2 DEF ReleaseNext, prove_life, revoke_keeper, prove_life_by_keeper, authorize_keeper,
                        configure_vault_release, set_emergency_mode, set_emergency_jitter_window,
                        fulfill_emergency_unlock_delay
    <3> QED
      BY <1>6, <3>1
  <2> QED
    BY <2>1, <2>2
<1> QED
  BY <1>1, <1>3, <1>4, <1>5, <1>6 DEF SorobanVaultNext

-----------------------------------------------------------------------------
(* Emergencies of the Soroban contract.                                    *)

LongestWait == Confirmations + UnlockLedgers + UnlockDelay \div LedgerSeconds

\* A delay is asked for when the emergency is switched on and drawn after the
\* confirmations; what was drawn counts from then.
WaitInv ==
    /\ enabled \in [time : Nat, seq : Nat] /\ enabled.time <= tip.time
    /\ schedule # Nil =>
          /\ schedule.asked = enabled.seq /\ schedule.cycle >= 1
          /\ schedule.fulfilled => /\ schedule.at >= enabled.time + UnlockDelay
                                   /\ schedule.seq >= enabled.seq + LongestWait
    /\ window \in WindowRange \cup {FirstWindow} /\ release.period \in PeriodRange \cup {FirstPeriod}

\* No emergency is on at first.
LEMMA WaitInitial == SorobanVaultInit => WaitInv
<1> SUFFICES ASSUME SorobanVaultInit PROVE WaitInv
  OBVIOUS
<1>1. /\ tip = [time |-> 0, seq |-> 0] /\ enabled = tip /\ schedule = Nil /\ window = FirstWindow
      /\ release = [emergency |-> FALSE, period |-> FirstPeriod, last |-> 0, lastSeq |-> 0]
  BY DEF SorobanVaultInit
<1> QED
  BY <1>1 DEF WaitInv

\* Switching on, drawing and the ledger keep the waiting of an emergency.
LEMMA WaitStep == LifeInv /\ WaitInv /\ [SorobanVaultNext]_sorobanVaultVars => WaitInv'
<1> SUFFICES ASSUME LifeInv, WaitInv, [SorobanVaultNext]_sorobanVaultVars PROVE WaitInv'
  OBVIOUS
<1>0. /\ tip \in [time : Nat, seq : Nat] /\ tip.time \in Nat /\ tip.seq \in Nat
      /\ release \in ReleaseRecs /\ cycle \in Nat /\ window \in Nat \ {0}
      /\ enabled \in [time : Nat, seq : Nat] /\ enabled.time \in Nat /\ enabled.seq \in Nat
  BY DEF LifeInv, WaitInv
<1>1. CASE UNCHANGED <<tip, release, schedule, window, enabled>>
  BY <1>1 DEF WaitInv
<1>2. CASE CloseLedger
  <2>1. PICK gap \in LedgerGaps : tip' = [time |-> tip.time + gap, seq |-> tip.seq + 1]
    BY <1>2 DEF CloseLedger
  <2>2. UNCHANGED <<release, schedule, window, enabled>> /\ tip'.time = tip.time + gap /\ gap \in Nat
    BY <1>2, <2>1, SorobanVaultAssumptions DEF CloseLedger, releaseVars
  <2>3. enabled.time <= tip'.time
    BY <1>0, <2>2 DEF WaitInv
  <2> QED
    BY <2>2, <2>3 DEF WaitInv
<1>3. ASSUME UNCHANGED <<tip, schedule, window, enabled>>, release'.period \in PeriodRange \cup {FirstPeriod}
      PROVE  WaitInv'
  BY <1>3 DEF WaitInv
<1>4. ASSUME release' = [release EXCEPT !.last = tip.time, !.lastSeq = tip.seq],
             UNCHANGED <<tip, schedule, window, enabled>>
      PROVE  WaitInv'
  <2>1. release'.period = release.period
    BY <1>0, <1>4 DEF ReleaseRecs
  <2> QED
    BY <1>3, <1>4, <2>1 DEF WaitInv
<1>5. ASSUME NEW p, configure_vault_release(p) PROVE WaitInv'
  <2>1. p \in PeriodRange /\ release' = [release EXCEPT !.period = p] /\ UNCHANGED <<tip, schedule, window, enabled>>
    BY <1>5 DEF configure_vault_release
  <2>2. release'.period = p
    BY <1>0, <2>1 DEF ReleaseRecs
  <2> QED
    BY <1>3, <2>1, <2>2
<1>6. ASSUME NEW on \in BOOLEAN, set_emergency_mode(on) PROVE WaitInv'
  <2>1. /\ release' = [release EXCEPT !.emergency = on] /\ tip' = tip /\ window' = window
        /\ schedule' = IF on THEN DelayRequested(cycle + 1) ELSE Nil
        /\ enabled' = IF on THEN tip ELSE enabled
    BY <1>6 DEF set_emergency_mode
  <2>2. release'.period = release.period
    BY <1>0, <2>1 DEF ReleaseRecs
  <2>3. /\ DelayRequested(cycle + 1).asked = tip.seq /\ DelayRequested(cycle + 1).cycle >= 1
        /\ DelayRequested(cycle + 1).fulfilled = FALSE
    BY <1>0 DEF DelayRequested
  <2> QED
    BY <1>0, <2>1, <2>2, <2>3 DEF WaitInv
<1>7. ASSUME NEW word \in PrngWords, fulfill_emergency_unlock_delay(word) PROVE WaitInv'
  <2> DEFINE jitter == word % window
             at == tip.time + UnlockDelay + jitter
             n == tip.seq + UnlockDelay \div LedgerSeconds + UnlockLedgers + jitter \div LedgerSeconds
  <2>1. /\ UNCHANGED <<tip, release, window, enabled>> /\ schedule # Nil
        /\ schedule' = [schedule EXCEPT !.fulfilled = TRUE, !.at = at, !.seq = n]
        /\ tip.seq >= schedule.asked + Confirmations
    BY <1>7 DEF fulfill_emergency_unlock_delay, DelayPending
  <2>2. UnlockDelay \in Nat /\ UnlockLedgers \in Nat /\ LedgerSeconds \in Nat \ {0} /\ Confirmations \in Nat /\ word \in Nat
    BY SorobanVaultAssumptions
  <2>3. jitter \in Nat
    BY <1>0, <2>2
  <2>4. UnlockDelay \div LedgerSeconds \in Nat /\ jitter \div LedgerSeconds \in Nat
    <3> HIDE DEF jitter
    <3> QED
      BY <2>2, <2>3
  <2>5. schedule \in ScheduleRecs /\ schedule.asked = enabled.seq /\ schedule.cycle >= 1
    BY <2>1 DEF LifeInv, WaitInv
  <2>6. at \in Nat /\ n \in Nat /\ at >= enabled.time + UnlockDelay /\ n >= enabled.seq + LongestWait
    <3>1. PICK j \in Nat : j = jitter
      BY <2>3
    <3>2. PICK p \in Nat : p = UnlockDelay \div LedgerSeconds
      BY <2>4
    <3>3. PICK q \in Nat : q = jitter \div LedgerSeconds
      BY <2>4
    <3>4. at = tip.time + UnlockDelay + j /\ n = tip.seq + p + UnlockLedgers + q
      BY <3>1, <3>2, <3>3
    <3> HIDE DEF at, n, jitter
    <3>5. at \in Nat /\ at >= enabled.time + UnlockDelay
      BY <1>0, <2>2, <3>4 DEF WaitInv
    <3>6. n \in Nat /\ n >= enabled.seq + (Confirmations + UnlockLedgers + p)
      BY <1>0, <2>1, <2>2, <2>5, <3>4
    <3> QED
      BY <3>2, <3>5, <3>6 DEF LongestWait
  <2> HIDE DEF at, n
  <2>7. /\ schedule'.asked = enabled.seq /\ schedule'.cycle >= 1 /\ schedule'.at = at /\ schedule'.seq = n
    BY <2>1, <2>5 DEF ScheduleRecs
  <2> QED
    BY <2>1, <2>6, <2>7 DEF WaitInv
<1>8. CASE Founding
  BY <1>4, <1>8 DEF Founding, create_vault
<1>9. ASSUME NEW w, set_emergency_jitter_window(w) PROVE WaitInv'
  BY <1>9 DEF set_emergency_jitter_window, WaitInv
<1>10. CASE ReleaseNext
  BY <1>1, <1>2, <1>4, <1>5, <1>6, <1>7, <1>8, <1>9, <1>10
     DEF ReleaseNext, prove_life, revoke_keeper, deactivate_vault, prove_life_by_keeper, ProofOfLifeNow,
         authorize_keeper, releaseVars
<1> QED
  BY <1>1, <1>2, <1>10, VaultFrames DEF releaseVars

\* Documents for emergencies wait.
LEMMA WaitCorrect == LifeInv /\ WaitInv => EmergenciesWait
<1> SUFFICES ASSUME LifeInv, WaitInv, is_release_condition_satisfied("EmergencyOnly"), ~IsDead
             PROVE  /\ release.emergency
                    /\ tip.time >= enabled.time + UnlockDelay
                    /\ tip.seq >= enabled.seq + Confirmations + UnlockLedgers + UnlockDelay \div LedgerSeconds
  BY DEF EmergenciesWait
<1>1. /\ release.emergency /\ schedule # Nil /\ schedule.fulfilled
      /\ tip.time >= schedule.at /\ tip.seq >= schedule.seq
  BY DEF is_release_condition_satisfied, is_emergency_unlock_mature
<1>2. /\ tip.time \in Nat /\ tip.seq \in Nat /\ schedule.at \in Nat /\ schedule.seq \in Nat
      /\ enabled.time \in Nat /\ enabled.seq \in Nat
  BY <1>1 DEF LifeInv, WaitInv, ScheduleRecs
<1>3. schedule.at >= enabled.time + UnlockDelay /\ schedule.seq >= enabled.seq + LongestWait
  BY <1>1 DEF WaitInv
<1>4. /\ Confirmations \in Nat /\ UnlockLedgers \in Nat /\ UnlockDelay \in Nat /\ LedgerSeconds \in Nat \ {0}
  BY SorobanVaultAssumptions
<1>5. PICK p \in Nat : p = UnlockDelay \div LedgerSeconds
  BY <1>4
<1>6. schedule.seq >= enabled.seq + (Confirmations + UnlockLedgers + p)
  BY <1>3, <1>5 DEF LongestWait
<1> QED
  BY <1>1, <1>2, <1>3, <1>4, <1>5, <1>6

-----------------------------------------------------------------------------
(* Tokens of the Soroban contract.                                         *)

HeldBy(s, a) == {t \in DOMAIN s : s[t] = a}

Counted(balance, s) ==
    balance \in [Folk -> Nat] /\ \A a \in Folk : IsFiniteSet(HeldBy(s, a)) /\ balance[a] = Cardinality(HeldBy(s, a))

TokenInv ==
    /\ tokenOwner \in Seq(Folk \cup {Nil})
    /\ Counted(ownerBalance, tokenOwner) /\ Counted(vaultBalance, tokenOwner)

\* One token more of an account.
LEMMA CountedMore ==
    ASSUME NEW s, NEW q, NEW balance, Counted(balance, s), NEW a \in Folk, NEW t,
           t \notin HeldBy(s, a), HeldBy(q, a) = HeldBy(s, a) \cup {t},
           \A b \in Folk \ {a} : HeldBy(q, b) = HeldBy(s, b)
    PROVE  Counted(increment(balance, a), q)
<1>1. balance \in [Folk -> Nat] /\ IsFiniteSet(HeldBy(s, a)) /\ balance[a] = Cardinality(HeldBy(s, a)) /\ balance[a] \in Nat
  BY DEF Counted
<1>2. IsFiniteSet(HeldBy(q, a)) /\ Cardinality(HeldBy(q, a)) = balance[a] + 1
  BY <1>1, FS_AddElement
<1>3. /\ increment(balance, a) \in [Folk -> Nat] /\ increment(balance, a)[a] = balance[a] + 1
      /\ \A b \in Folk \ {a} : increment(balance, a)[b] = balance[b]
  BY <1>1 DEF increment
<1> QED
  BY <1>2, <1>3 DEF Counted

\* One token less of an account.
LEMMA CountedLess ==
    ASSUME NEW s, NEW q, NEW balance, Counted(balance, s), NEW a \in Folk, NEW t,
           t \in HeldBy(s, a), HeldBy(q, a) = HeldBy(s, a) \ {t},
           \A b \in Folk \ {a} : HeldBy(q, b) = HeldBy(s, b)
    PROVE  Counted(decrement(balance, a), q)
<1>1. balance \in [Folk -> Nat] /\ IsFiniteSet(HeldBy(s, a)) /\ balance[a] = Cardinality(HeldBy(s, a)) /\ balance[a] \in Nat
  BY DEF Counted
<1>2. IsFiniteSet(HeldBy(q, a)) /\ Cardinality(HeldBy(q, a)) = balance[a] - 1 /\ balance[a] > 0
  <2>1. IsFiniteSet(HeldBy(q, a)) /\ Cardinality(HeldBy(q, a)) = balance[a] - 1
    BY <1>1, FS_RemoveElement
  <2>2. balance[a] # 0
    BY <1>1, FS_EmptySet
  <2> QED
    BY <1>1, <2>1, <2>2
<1>3. /\ decrement(balance, a) \in [Folk -> Nat] /\ decrement(balance, a)[a] = balance[a] - 1
      /\ \A b \in Folk \ {a} : decrement(balance, a)[b] = balance[b]
  BY <1>1, <1>2 DEF decrement
<1> QED
  BY <1>2, <1>3 DEF Counted

\* No tokens at first.
LEMMA TokenInitial == SorobanVaultInit => TokenInv
<1> SUFFICES ASSUME SorobanVaultInit PROVE TokenInv
  OBVIOUS
<1>1. /\ tokenOwner = <<>> /\ ownerBalance = [a \in Folk |-> 0] /\ vaultBalance = [a \in Folk |-> 0]
  BY DEF SorobanVaultInit
<1>2. \A a : HeldBy(tokenOwner, a) = {}
  BY <1>1 DEF HeldBy
<1> QED
  BY <1>1, <1>2, FS_EmptySet DEF TokenInv, Counted

\* Minting, burning and transferring count.
LEMMA TokenStep == TokenInv /\ [SorobanVaultNext]_sorobanVaultVars => TokenInv'
<1> SUFFICES ASSUME TokenInv, [SorobanVaultNext]_sorobanVaultVars PROVE TokenInv'
  OBVIOUS
<1>0. tokenOwner \in Seq(Folk \cup {Nil}) /\ Nil \notin Folk /\ \A t \in DOMAIN tokenOwner : tokenOwner[t] \in Folk \cup {Nil}
  BY SorobanVaultAssumptions, SMTT(30) DEF TokenInv
<1>1. CASE UNCHANGED tokenVars
  BY <1>1 DEF TokenInv, tokenVars
<1>2. ASSUME NEW g, NEW a \in Folk, mint_access_token(g, a) PROVE TokenInv'
  <2>1. /\ tokenOwner' = Append(tokenOwner, a)
        /\ ownerBalance' = increment(ownerBalance, a) /\ vaultBalance' = increment(vaultBalance, a)
    BY <1>2 DEF mint_access_token
  <2>2. /\ tokenOwner' \in Seq(Folk \cup {Nil}) /\ DOMAIN tokenOwner' = DOMAIN tokenOwner \cup {Len(tokenOwner) + 1}
        /\ Len(tokenOwner) + 1 \notin DOMAIN tokenOwner
        /\ \A t \in DOMAIN tokenOwner : tokenOwner'[t] = tokenOwner[t]
        /\ tokenOwner'[Len(tokenOwner) + 1] = a
    BY <1>0, <2>1, OneMoreRow
  <2>3. /\ Len(tokenOwner) + 1 \notin HeldBy(tokenOwner, a)
        /\ HeldBy(tokenOwner', a) = HeldBy(tokenOwner, a) \cup {Len(tokenOwner) + 1}
        /\ \A b \in Folk \ {a} : HeldBy(tokenOwner', b) = HeldBy(tokenOwner, b)
    BY <2>2 DEF HeldBy
  <2>4. Counted(ownerBalance', tokenOwner') /\ Counted(vaultBalance', tokenOwner')
    BY <2>1, <2>3, CountedMore DEF TokenInv
  <2> QED
    BY <2>2, <2>4 DEF TokenInv
<1>3. ASSUME NEW t \in DOMAIN tokenOwner, NEW q \in Folk \cup {Nil}, tokenOwner[t] # Nil, tokenOwner' = [tokenOwner EXCEPT ![t] = q]
      PROVE  /\ tokenOwner[t] \in Folk /\ tokenOwner' \in Seq(Folk \cup {Nil}) /\ DOMAIN tokenOwner' = DOMAIN tokenOwner
             /\ tokenOwner'[t] = q /\ \A u \in DOMAIN tokenOwner \ {t} : tokenOwner'[u] = tokenOwner[u]
  BY <1>0, <1>3
<1>4. ASSUME NEW t \in DOMAIN tokenOwner, burn_access_token(t) PROVE TokenInv'
  <2> DEFINE a == tokenOwner[t]
  <2>1. /\ a # Nil /\ tokenOwner' = [tokenOwner EXCEPT ![t] = Nil]
        /\ ownerBalance' = decrement(ownerBalance, a) /\ vaultBalance' = decrement(vaultBalance, a)
    BY <1>4 DEF burn_access_token
  <2>2. /\ a \in Folk /\ tokenOwner' \in Seq(Folk \cup {Nil}) /\ DOMAIN tokenOwner' = DOMAIN tokenOwner
        /\ tokenOwner'[t] = Nil /\ \A u \in DOMAIN tokenOwner \ {t} : tokenOwner'[u] = tokenOwner[u]
    BY <1>3, <2>1
  <2>3. /\ t \in HeldBy(tokenOwner, a) /\ HeldBy(tokenOwner', a) = HeldBy(tokenOwner, a) \ {t}
        /\ \A b \in Folk \ {a} : HeldBy(tokenOwner', b) = HeldBy(tokenOwner, b)
    BY <1>0, <2>2 DEF HeldBy
  <2> HIDE DEF a
  <2>4. Counted(ownerBalance', tokenOwner') /\ Counted(vaultBalance', tokenOwner')
    BY <2>1, <2>2, <2>3, CountedLess DEF TokenInv
  <2> QED
    BY <2>2, <2>4 DEF TokenInv
<1>5. ASSUME NEW t \in DOMAIN tokenOwner, NEW to \in Folk, transfer(t, to) PROVE TokenInv'
  <2> DEFINE a == tokenOwner[t]
             between == [tokenOwner EXCEPT ![t] = Nil]
  <2>1. /\ a # Nil /\ tokenOwner' = [tokenOwner EXCEPT ![t] = to]
        /\ ownerBalance' = increment(decrement(ownerBalance, a), to)
        /\ vaultBalance' = increment(decrement(vaultBalance, a), to)
    BY <1>5 DEF transfer
  <2>2. /\ a \in Folk /\ tokenOwner' \in Seq(Folk \cup {Nil}) /\ DOMAIN tokenOwner' = DOMAIN tokenOwner
        /\ tokenOwner'[t] = to /\ \A u \in DOMAIN tokenOwner \ {t} : tokenOwner'[u] = tokenOwner[u]
    BY <1>3, <2>1
  <2>3. /\ DOMAIN between = DOMAIN tokenOwner /\ between[t] = Nil
        /\ \A u \in DOMAIN tokenOwner \ {t} : between[u] = tokenOwner[u]
    BY <1>0
  <2> HIDE DEF between
  <2>4. /\ t \in HeldBy(tokenOwner, a) /\ HeldBy(between, a) = HeldBy(tokenOwner, a) \ {t}
        /\ \A b \in Folk \ {a} : HeldBy(between, b) = HeldBy(tokenOwner, b)
    BY <1>0, <2>2, <2>3 DEF HeldBy
  <2>5. /\ t \notin HeldBy(between, to) /\ HeldBy(tokenOwner', to) = HeldBy(between, to) \cup {t}
        /\ \A b \in Folk \ {to} : HeldBy(tokenOwner', b) = HeldBy(between, b)
    BY <1>0, <2>2, <2>3 DEF HeldBy
  <2> HIDE DEF a
  <2>6. Counted(decrement(ownerBalance, a), between) /\ Counted(decrement(vaultBalance, a), between)
    BY <2>2, <2>4, CountedLess DEF TokenInv
  <2>7. Counted(ownerBalance', tokenOwner') /\ Counted(vaultBalance', tokenOwner')
    BY <2>1, <2>5, <2>6, CountedMore
  <2> QED
    BY <2>2, <2>7 DEF TokenInv
<1>6. CASE TokensNext
  BY <1>1, <1>2, <1>4, <1>5, <1>6 DEF TokensNext, Founding, create_vault, deactivate_vault
<1> QED
  BY <1>1, <1>6, VaultFrames

-----------------------------------------------------------------------------
(* Upgrades of the Soroban contract.                                       *)

Ballots == [by : Folk, hash : Hashes, swapped : BOOLEAN]

Voters(log, first, last) == {log[j].by : j \in first .. last}

\* The call at place i swapped the code only with the agreement of n admins.
AgreedAt(log, n, i) ==
    log[i].swapped =>
        /\ i >= n /\ Cardinality(Voters(log, i - n + 1, i)) = n
        /\ \A j \in (i - n + 1) .. i : log[j].hash = log[i].hash /\ (log[j].swapped => j = i)

\* The last n calls are those of the accounts in s, all for the hash, and none
\* swapped the code.
LastVotes(log, n, s, hash) ==
    /\ IsFiniteSet(s) /\ n = Cardinality(s) /\ n <= Len(log)
    /\ Voters(log, Len(log) - n + 1, Len(log)) = s
    /\ \A j \in (Len(log) - n + 1) .. Len(log) : log[j].hash = hash /\ ~log[j].swapped

UpgradeInv ==
    /\ votes \in Seq(Ballots) /\ council.threshold \in Nat
    /\ council.admins = {} => votes = <<>> /\ proposal = Nil
    /\ council.admins # {} => council.threshold # 0
    /\ proposal # Nil =>
          /\ proposal.hash \in Hashes
          /\ Cardinality(proposal.approved_by) < council.threshold
          /\ LastVotes(votes, Cardinality(proposal.approved_by), proposal.approved_by, proposal.hash)
    /\ \A i \in DOMAIN votes : AgreedAt(votes, council.threshold, i)

\* No admins and no proposal at first.
LEMMA UpgradeInitial == SorobanVaultInit => UpgradeInv
<1> SUFFICES ASSUME SorobanVaultInit PROVE UpgradeInv
  OBVIOUS
<1>1. council = [admins |-> {}, threshold |-> 0] /\ proposal = Nil /\ votes = <<>>
  BY DEF SorobanVaultInit
<1> QED
  BY <1>1 DEF UpgradeInv

\* What the log is after one call more for the same hash, m calls after the first.
VotesMore(more, m, n, s, hash, e) ==
    /\ IsFiniteSet(s \cup {e.by}) /\ Cardinality(s \cup {e.by}) = n + 1
    /\ more \in Seq(Ballots) /\ Len(more) = m + 1 /\ n + 1 <= m + 1
    /\ Voters(more, m - n + 1, m + 1) = s \cup {e.by}
    /\ \A j \in (m - n + 1) .. (m + 1) : more[j].hash = hash /\ (j # m + 1 => ~more[j].swapped)
    /\ more[m + 1] = e

\* One more call for the same hash by another admin.
LEMMA OneVoteMore ==
    ASSUME NEW log \in Seq(Ballots), NEW n \in Nat, NEW s, NEW hash, LastVotes(log, n, s, hash),
           NEW e \in Ballots, e.by \notin s, e.hash = hash
    PROVE  VotesMore(Append(log, e), Len(log), n, s, hash, e)
<1>0. PICK m \in Nat : m = Len(log)
  OBVIOUS
<1>a. PICK more : more = Append(log, e)
  OBVIOUS
<1> DEFINE R == (m - n + 1) .. m
<1>1. /\ n <= m /\ {log[j].by : j \in R} = s
      /\ Voters(more, m - n + 1, m + 1) = {more[j].by : j \in (m - n + 1) .. (m + 1)}
      /\ \A j \in R : log[j].hash = hash /\ ~log[j].swapped
  BY <1>0 DEF LastVotes, Voters
<1>2. /\ more \in Seq(Ballots) /\ Len(more) = m + 1 /\ more[m + 1] = e
      /\ \A j \in 1 .. m : more[j] = log[j]
  BY <1>0, <1>a
<1>3. IsFiniteSet(s \cup {e.by}) /\ Cardinality(s \cup {e.by}) = n + 1
  BY FS_AddElement DEF LastVotes
<1>4. n + 1 <= m + 1 /\ (m - n + 1) .. (m + 1) = R \cup {m + 1} /\ R \in SUBSET (1 .. m)
  BY <1>1
<1> HIDE DEF R
<1>5. \A j \in R : more[j] = log[j]
  BY <1>2, <1>4
<1>6. {more[j].by : j \in R \cup {m + 1}} = {log[j].by : j \in R} \cup {e.by}
  BY <1>2, <1>5
<1>7. \A j \in R \cup {m + 1} : more[j].hash = hash /\ (j # m + 1 => ~more[j].swapped)
  BY <1>1, <1>2, <1>5
<1>8. VotesMore(more, m, n, s, hash, e)
  BY <1>1, <1>2, <1>3, <1>4, <1>6, <1>7 DEF VotesMore
<1> QED
  BY <1>0, <1>a, <1>8

\* Calls for another hash start afresh, and the code is swapped when the last
\* calls are by as many admins as the threshold.
LEMMA UpgradeStep == UpgradeInv /\ [SorobanVaultNext]_sorobanVaultVars => UpgradeInv'
<1> SUFFICES ASSUME UpgradeInv, [SorobanVaultNext]_sorobanVaultVars PROVE UpgradeInv'
  OBVIOUS
<1>0. votes \in Seq(Ballots) /\ council.threshold \in Nat
  BY DEF UpgradeInv
<1>1. CASE UNCHANGED upgradeVars
  <2>1. votes' = votes /\ council' = council /\ proposal' = proposal
    BY <1>1 DEF upgradeVars
  <2>2. \A n, s, hash, i : /\ LastVotes(votes, n, s, hash)' <=> LastVotes(votes, n, s, hash)
                           /\ AgreedAt(votes, n, i)' <=> AgreedAt(votes, n, i)
    BY <2>1
  <2> QED
    BY <2>1, <2>2 DEF UpgradeInv
<1>2. ASSUME NEW admins \in SUBSET Folk, NEW n, init_admins(admins, n) PROVE UpgradeInv'
  <2>1. /\ council.admins = {} /\ council' = [admins |-> admins, threshold |-> n]
        /\ proposal' = proposal /\ votes' = votes /\ n \in 1 .. Cardinality(admins)
    BY <1>2 DEF init_admins
  <2>2. IsFiniteSet(Folk)
    <3>1. IsFiniteSet(Kin)
      BY SorobanVaultAssumptions
    <3>2. IsFiniteSet(Kin \cup {Owner}) /\ Folk = Kin \cup {Owner}
      BY <3>1, FS_AddElement DEF Folk
    <3> QED
      BY <3>2
  <2>3. Cardinality(admins) \in Nat /\ (Cardinality(admins) = 0 <=> admins = {})
    BY <2>2, FS_Subset, FS_CardinalityType, FS_EmptySet
  <2>4. n \in Nat /\ n # 0 /\ admins # {}
    BY <2>1, <2>3
  <2>5. council'.admins # {} /\ council'.threshold = n /\ votes' = <<>> /\ proposal' = Nil
    BY <2>1, <2>4 DEF UpgradeInv
  <2> QED
    BY <2>4, <2>5 DEF UpgradeInv
<1>3. ASSUME NEW a \in Folk, NEW hash \in Hashes, upgrade_contract(a, hash) PROVE UpgradeInv'
  <2> DEFINE s == Standing(hash).approved_by
             n == Cardinality(s)
             T == council.threshold
             swaps == Cardinality(s \cup {a}) >= T
             e == [by |-> a, hash |-> hash, swapped |-> swaps]
  <2>1. /\ a \in council.admins /\ a \notin s /\ council' = council
        /\ proposal' = IF swaps THEN Nil ELSE [hash |-> hash, approved_by |-> s \cup {a}]
        /\ votes' = Append(votes, e)
    BY <1>3 DEF upgrade_contract
  <2>2. T \in Nat /\ T # 0
    BY <1>0, <2>1 DEF UpgradeInv
  <2>3. LastVotes(votes, n, s, hash) /\ n < T /\ n \in Nat
    <3>1. CASE proposal # Nil /\ proposal.hash = hash
      <4>1. s = proposal.approved_by
        BY <3>1 DEF Standing
      <4>2. LastVotes(votes, n, s, hash) /\ n < T
        BY <3>1, <4>1 DEF UpgradeInv
      <4> QED
        BY <4>2, FS_CardinalityType DEF LastVotes
    <3>2. CASE ~(proposal # Nil /\ proposal.hash = hash)
      <4>1. s = {}
        BY <3>2 DEF Standing
      <4>2. n = 0 /\ IsFiniteSet(s)
        BY <4>1, FS_EmptySet
      <4>3. Len(votes) \in Nat /\ (Len(votes) - 0 + 1) .. Len(votes) = {}
        BY <1>0
      <4> HIDE DEF s, n
      <4>4. LastVotes(votes, 0, s, hash)
        <5>1. Cardinality(s) = 0
          BY <4>2 DEF n
        <5>2. 0 <= Len(votes)
          BY <4>3
        <5>3. Voters(votes, Len(votes) - 0 + 1, Len(votes)) = {}
          BY <4>3 DEF Voters
        <5>4. \A j \in (Len(votes) - 0 + 1) .. Len(votes) : votes[j].hash = hash /\ ~votes[j].swapped
          BY <4>3
        <5> QED
          BY <4>1, <4>2, <5>1, <5>2, <5>3, <5>4 DEF LastVotes
      <4> QED
        BY <2>2, <4>2, <4>4
    <3> QED
      BY <3>1, <3>2
  <2>4. e \in Ballots /\ e.by = a /\ e.hash = hash /\ e.swapped = swaps
    BY DEF Ballots
  <2> HIDE DEF s, n, e
  <2>5. PICK m \in Nat : m = Len(votes)
    BY <1>0
  <2>6. /\ IsFiniteSet(s \cup {a}) /\ Cardinality(s \cup {a}) = n + 1
        /\ votes' \in Seq(Ballots) /\ Len(votes') = m + 1 /\ n + 1 <= m + 1
        /\ Voters(votes', m - n + 1, m + 1) = s \cup {a}
        /\ \A j \in (m - n + 1) .. (m + 1) : votes'[j].hash = hash /\ (j # m + 1 => ~votes'[j].swapped)
        /\ votes'[m + 1] = e
    <3>1. e.by \notin s /\ s \cup {e.by} = s \cup {a}
      BY <2>1, <2>4
    <3>2. votes' = Append(votes, e) /\ votes \in Seq(Ballots) /\ e \in Ballots /\ e.hash = hash
      BY <1>0, <2>1, <2>4
    <3> HIDE DEF swaps, T
    <3>3. VotesMore(votes', m, n, s, hash, e)
      BY <2>3, <2>5, <3>1, <3>2, OneVoteMore
    <3> QED
      BY <3>1, <3>3 DEF VotesMore
  <2>7. DOMAIN votes' = 1 .. (m + 1) /\ DOMAIN votes = 1 .. m /\ \A i \in 1 .. m : votes'[i] = votes[i]
    BY <1>0, <2>1, <2>4, <2>5
  <2>8. swaps => n + 1 = T
    BY <2>2, <2>3, <2>6
  <2>9. ASSUME NEW i \in DOMAIN votes' PROVE AgreedAt(votes', T, i)
    <3>1. CASE i \in 1 .. m /\ votes'[i].swapped
      <4>1. i \in Nat /\ votes[i].swapped /\ votes'[i] = votes[i] /\ AgreedAt(votes, T, i)
        BY <2>7, <3>1 DEF UpgradeInv
      <4>2. i >= T
        BY <4>1 DEF AgreedAt
      <4>3. (i - T + 1) .. i \in SUBSET (1 .. m)
        BY <2>2, <3>1, <4>1, <4>2
      <4>4. \A j \in (i - T + 1) .. i : votes'[j] = votes[j]
        BY <2>7, <4>3
      <4>5. Voters(votes', i - T + 1, i) = Voters(votes, i - T + 1, i)
        BY <4>4 DEF Voters
      <4> QED
        BY <4>1, <4>4, <4>5 DEF AgreedAt
    <3>2. CASE i = m + 1 /\ swaps
      <4>1. T = n + 1 /\ m + 1 >= T /\ m + 1 - T + 1 = m - n + 1
        BY <2>3, <2>6, <2>8, <3>2
      <4>2. votes'[m + 1].hash = hash
        BY <2>4, <2>6
      <4>3. Cardinality(Voters(votes', m + 1 - T + 1, m + 1)) = T
        BY <2>6, <4>1
      <4>4. \A j \in (m + 1 - T + 1) .. (m + 1) : votes'[j].hash = hash /\ (votes'[j].swapped => j = m + 1)
        BY <2>6, <4>1
      <4> HIDE DEF T, swaps
      <4> QED
        BY <3>2, <4>1, <4>2, <4>3, <4>4 DEF AgreedAt
    <3>3. CASE i = m + 1 /\ ~swaps
      BY <2>4, <2>6, <3>3 DEF AgreedAt
    <3>4. CASE ~votes'[i].swapped
      BY <3>4 DEF AgreedAt
    <3> QED
      BY <2>7, <3>1, <3>2, <3>3, <3>4
  <2>10. CASE swaps
    BY <1>0, <2>1, <2>2, <2>6, <2>9, <2>10 DEF UpgradeInv
  <2>11. CASE ~swaps
    <3>1. proposal' = [hash |-> hash, approved_by |-> s \cup {a}]
      BY <2>1, <2>11
    <3>2. proposal'.hash = hash /\ proposal'.approved_by = s \cup {a}
      BY <3>1
    <3>3. n + 1 < T
      BY <2>2, <2>3, <2>6, <2>11
    <3>4. \A j \in (m - n + 1) .. (m + 1) : votes'[j].hash = hash /\ ~votes'[j].swapped
      BY <2>4, <2>6, <2>11
    <3>5. LastVotes(votes', n + 1, s \cup {a}, hash)
      <4>1. (m + 1) - (n + 1) + 1 = m - n + 1
        BY <2>3
      <4> QED
        BY <2>6, <3>4, <4>1 DEF LastVotes
    <3> QED
      BY <1>0, <2>1, <2>2, <2>6, <2>9, <3>2, <3>3, <3>5 DEF UpgradeInv
  <2> QED
    BY <2>10, <2>11
<1>4. CASE UpgradeNext
  BY <1>2, <1>3, <1>4 DEF UpgradeNext
<1> QED
  BY <1>1, <1>4, VaultFrames

\* The code is swapped by agreement alone.
LEMMA UpgradeCorrect == UpgradeInv => UpgradesAreAgreed
BY DEF UpgradeInv, UpgradesAreAgreed, AgreedAt, Voters

\* Both balances are the tokens held.
LEMMA TokenCorrect == TokenInv => TokensAreCounted
BY DEF TokenInv, Counted, HeldBy, TokensAreCounted

-----------------------------------------------------------------------------
(* Approvals in the Soroban contract.                                      *)

\* What the loop over the list holds before its first round.
Tally(r) == [marked |-> approvedReq, by |-> asked[r].approved_by]

EnterPart(r, list, s, it) ==
    IF s = {} THEN Tally(r) ELSE Enter(r, it[s \ {Max(s)}], list[Max(s)])

Enters(r, list, it) == it = [s \in SUBSET (DOMAIN list) |-> EnterPart(r, list, s, it)]

\* The loop is the fold: each round enters the last guardian of the list so far.
LEMMA EnterFold ==
    ASSUME NEW r, NEW list
    PROVE  Entered(r, list) = (CHOOSE it : Enters(r, list, it))[DOMAIN list]
BY DEF Entered, Tally, FoldLeft, MapThenFoldSet, Enters, EnterPart

\* A list of one.
LEMMA EnteredOne ==
    ASSUME NEW r, NEW g
    PROVE  Entered(r, <<g>>) = Enter(r, Tally(r), g)
<1> DEFINE list == <<g>>
           f == [s \in SUBSET (DOMAIN list) |-> IF s = {} THEN Tally(r) ELSE Enter(r, Tally(r), g)]
<1>1. DOMAIN list = {1} /\ list[1] = g
  OBVIOUS
<1>2. Max({1}) = 1
  BY DEF Max
<1>3. SUBSET (DOMAIN list) = {{}, {1}} /\ {1} \ {1} = {}
  BY <1>1
<1> HIDE DEF list
<1>4. Enters(r, list, f)
  <2>0. f[{}] = Tally(r) /\ f[{1}] = Enter(r, Tally(r), g) /\ f = [s \in SUBSET (DOMAIN list) |-> f[s]]
    BY <1>3
  <2> HIDE DEF f
  <2>1. f[{}] = EnterPart(r, list, {}, f) /\ f[{1}] = EnterPart(r, list, {1}, f)
    <3>1. {1} # {} /\ {1} \ {Max({1})} = {} /\ list[Max({1})] = g
      BY <1>1, <1>2
    <3> QED
      BY <2>0, <3>1 DEF EnterPart
  <2>2. \A s \in SUBSET (DOMAIN list) : f[s] = EnterPart(r, list, s, f)
    BY <1>3, <2>1
  <2> QED
    BY <2>0, <2>2 DEF Enters
<1> DEFINE it == CHOOSE h : Enters(r, list, h)
<1>5. Enters(r, list, it)
  BY <1>4
<1> HIDE DEF it
<1>6. it[{1}] = Enter(r, it[{}], g) /\ it[{}] = Tally(r)
  BY <1>1, <1>2, <1>3, <1>5 DEF Enters, EnterPart
<1> QED
  BY <1>1, <1>6, EnterFold DEF it, list

\* A list of two, in its order.
LEMMA EnteredTwo ==
    ASSUME NEW r, NEW g, NEW h
    PROVE  Entered(r, <<g, h>>) = Enter(r, Enter(r, Tally(r), g), h)
<1> DEFINE list == <<g, h>>
           f == [s \in SUBSET (DOMAIN list) |->
                    IF s = {} THEN Tally(r)
                    ELSE IF s = {1} THEN Enter(r, Tally(r), g)
                    ELSE IF s = {2} THEN Enter(r, Tally(r), h)
                    ELSE Enter(r, Enter(r, Tally(r), g), h)]
<1>1. DOMAIN list = {1, 2} /\ list[1] = g /\ list[2] = h
  OBVIOUS
<1>2. Max({1}) = 1 /\ Max({2}) = 2 /\ Max({1, 2}) = 2
  BY DEF Max
<1>3. SUBSET (DOMAIN list) = {{}, {1}, {2}, {1, 2}} /\ {1} \ {1} = {} /\ {2} \ {2} = {} /\ {1, 2} \ {2} = {1}
  BY <1>1
<1> HIDE DEF list
<1>4. Enters(r, list, f)
  <2>0. /\ f[{}] = Tally(r) /\ f = [s \in SUBSET (DOMAIN list) |-> f[s]]
        /\ f[{1}] = Enter(r, Tally(r), g) /\ f[{2}] = Enter(r, Tally(r), h)
        /\ f[{1, 2}] = Enter(r, Enter(r, Tally(r), g), h)
    <3>1. {1, 2} # {} /\ {1, 2} # {1} /\ {1, 2} # {2} /\ {1} # {2} /\ {2} # {}
      OBVIOUS
    <3> QED
      BY <1>3, <3>1
  <2> HIDE DEF f
  <2>1. /\ f[{}] = EnterPart(r, list, {}, f) /\ f[{1}] = EnterPart(r, list, {1}, f)
        /\ f[{2}] = EnterPart(r, list, {2}, f) /\ f[{1, 2}] = EnterPart(r, list, {1, 2}, f)
    BY <1>1, <1>2, <1>3, <2>0 DEF EnterPart
  <2>2. \A s \in SUBSET (DOMAIN list) : f[s] = EnterPart(r, list, s, f)
    BY <1>3, <2>1
  <2> QED
    BY <2>0, <2>2 DEF Enters
<1> DEFINE it == CHOOSE i : Enters(r, list, i)
<1>5. Enters(r, list, it)
  BY <1>4
<1> HIDE DEF it
<1>6. it[{1, 2}] = Enter(r, it[{1}], h) /\ it[{1}] = Enter(r, it[{}], g) /\ it[{}] = Tally(r)
  BY <1>1, <1>2, <1>3, <1>5, ZenonT(60) DEF Enters, EnterPart
<1> QED
  BY <1>1, <1>6, EnterFold DEF it, list

\* The approvals entered are the guardians marked, each once.
Tallied(r, state) ==
    /\ state.by \in Seq(Folk) /\ Range(state.by) = {g \in Folk : <<r, g>> \in state.marked}
    /\ IsFiniteSet(Range(state.by)) /\ Cardinality(Range(state.by)) = Len(state.by)

\* What entering a guardian changes.
EntersOne(r, g, old, new) ==
    /\ Tallied(r, new) /\ new.marked = old.marked \cup {<<r, g>>}
    /\ Range(new.by) = Range(old.by) \cup {g}

\* Entering one guardian keeps the tally.
LEMMA EnterTallies ==
    ASSUME NEW r, NEW g \in Folk, NEW state, Tallied(r, state)
    PROVE  EntersOne(r, g, state, Enter(r, state, g))
<1>1. /\ state.by \in Seq(Folk) /\ Range(state.by) = {h \in Folk : <<r, h>> \in state.marked}
      /\ IsFiniteSet(Range(state.by)) /\ Cardinality(Range(state.by)) = Len(state.by)
  BY DEF Tallied
<1>2. CASE <<r, g>> \in state.marked
  <2>1. Enter(r, state, g) = state /\ g \in Range(state.by)
    BY <1>1, <1>2 DEF Enter
  <2>2. state.marked = state.marked \cup {<<r, g>>} /\ Range(state.by) = Range(state.by) \cup {g}
    BY <1>2, <2>1
  <2> QED
    BY <2>1, <2>2 DEF EntersOne
<1>3. CASE <<r, g>> \notin state.marked
  <2> DEFINE new == Enter(r, state, g)
             by == Append(state.by, g)
  <2>1. new.marked = state.marked \cup {<<r, g>>} /\ new.by = by
    BY <1>3 DEF Enter
  <2>2. g \notin Range(state.by)
    BY <1>1, <1>3
  <2>3. by \in Seq(Folk) /\ Len(by) = Len(state.by) + 1 /\ Range(by) = Range(state.by) \cup {g}
    <3>1. /\ by \in Seq(Folk) /\ Len(by) = Len(state.by) + 1
      BY <1>1
    <3>2. DOMAIN by = DOMAIN state.by \cup {Len(state.by) + 1}
          /\ (\A i \in DOMAIN state.by : by[i] = state.by[i]) /\ by[Len(state.by) + 1] = g
      BY <1>1, OneMoreRow
    <3> HIDE DEF by
    <3> QED
      BY <3>1, <3>2 DEF Range
  <2> HIDE DEF by, new
  <2>4. IsFiniteSet(Range(by)) /\ Cardinality(Range(by)) = Len(by)
    BY <1>1, <2>2, <2>3, FS_AddElement
  <2>5. Range(by) = {h \in Folk : <<r, h>> \in new.marked}
    BY <1>1, <2>1, <2>3
  <2>6. EntersOne(r, g, state, new)
    BY <2>1, <2>3, <2>4, <2>5 DEF EntersOne, Tallied
  <2> QED
    BY <2>6 DEF new
<1> QED
  BY <1>2, <1>3

AskedRecs == [doc : Nat, requester : Folk, approved_by : Seq(Folk), status : {"Pending", "Approved"}, expires : Nat]

\* The vault, its documents and requests; before create_vault there are none.
RecordInv ==
    /\ record \in [guardians : SUBSET Folk, threshold : Nat, active : BOOLEAN]
    /\ invites \in [Kin -> [expires : Nat, accepted : BOOLEAN]]
    /\ papers \in Seq([by : Folk, condition : Conditions])
    /\ asked \in Seq(AskedRecs)
    /\ record.threshold = 0 => ~record.active /\ record.guardians = {} /\ papers = <<>> /\ asked = <<>>
    /\ blsKeys \subseteq record.guardians
    /\ hasAccess \subseteq (DOMAIN papers) \X Folk
    /\ approvedReq \subseteq (DOMAIN asked) \X Folk
    /\ \A r \in DOMAIN asked : asked[r].doc \in DOMAIN papers
    /\ usedNonces \subseteq SignNonces

\* Each threshold signature that decided a request used up a nonce.
NonceInv ==
    /\ IsFiniteSet(usedNonces) /\ IsFiniteSet(bySignature)
    /\ Cardinality(bySignature) <= Cardinality(usedNonces) /\ bySignature \subseteq DOMAIN asked

\* A request is approved when enough guardians did, or by signatures.
VoteInv ==
    /\ RecordInv /\ NonceInv
    /\ \A r \in DOMAIN asked :
          /\ Tallied(r, Tally(r))
          /\ Range(asked[r].approved_by) \subseteq record.guardians
          /\ (asked[r].status = "Approved") = (Len(asked[r].approved_by) >= record.threshold \/ r \in bySignature)

\* Requests are approved by enough guardians.
LEMMA VoteCorrect == VoteInv => ApprovalsDecide
<1> SUFFICES ASSUME VoteInv PROVE ApprovalsDecide
  OBVIOUS
<1>1. Cardinality(bySignature) <= Cardinality(usedNonces)
  BY DEF VoteInv, NonceInv
<1>2. ASSUME NEW r \in DOMAIN asked
      PROVE  LET by == asked[r].approved_by
             IN /\ Range(by) = {g \in Folk : <<r, g>> \in approvedReq}
                /\ Cardinality(Range(by)) = Len(by) /\ Range(by) \subseteq record.guardians
                /\ (asked[r].status = "Approved") = (Len(by) >= record.threshold \/ r \in bySignature)
  BY DEF VoteInv, Tallied, Tally
<1> QED
  BY <1>1, <1>2 DEF ApprovalsDecide

\* No vault at first.
LEMMA VoteInitial == SorobanVaultInit => VoteInv
<1> SUFFICES ASSUME SorobanVaultInit PROVE VoteInv
  OBVIOUS
<1>1. /\ record = [guardians |-> {}, threshold |-> 0, active |-> FALSE]
      /\ invites = [a \in Kin |-> [expires |-> 0, accepted |-> TRUE]]
      /\ papers = <<>> /\ hasAccess = {} /\ asked = <<>> /\ approvedReq = {}
      /\ blsKeys = {} /\ usedNonces = {} /\ bySignature = {}
  BY DEF SorobanVaultInit
<1>2. RecordInv
  BY <1>1 DEF RecordInv
<1>3. NonceInv
  BY <1>1, FS_EmptySet DEF NonceInv
<1> QED
  BY <1>1, <1>2, <1>3 DEF VoteInv

\* The accounts are finitely many.
LEMMA FolkFinite == IsFiniteSet(Folk) /\ Cardinality(Kin) \in Nat
<1>1. IsFiniteSet(Kin)
  BY SorobanVaultAssumptions
<1>2. IsFiniteSet(Kin \cup {Owner}) /\ Folk = Kin \cup {Owner}
  BY <1>1, FS_AddElement DEF Folk
<1> QED
  BY <1>1, <1>2, FS_CardinalityType

\* Steps that decide nothing and take away no guardian.
LEMMA VotesKept ==
    ASSUME VoteInv, RecordInv', NonceInv', asked' = asked, approvedReq' = approvedReq, bySignature' = bySignature,
           record'.threshold = record.threshold, record.guardians \subseteq record'.guardians
    PROVE  VoteInv'
<1>1. \A r \in DOMAIN asked : Tally(r)' = Tally(r)
  BY DEF Tally
<1> QED
  BY <1>1 DEF VoteInv, Tallied

\* The vault is created, closed or joined.
LEMMA VaultSteps ==
    ASSUME LifeInv, VoteInv, Founding \/ deactivate_vault \/ \E a \in Kin : accept_guardian_invite(a)
    PROVE  VoteInv'
<1>0. RecordInv /\ NonceInv /\ record \in [guardians : SUBSET Folk, threshold : Nat, active : BOOLEAN]
      /\ invites \in [Kin -> [expires : Nat, accepted : BOOLEAN]] /\ tip.time \in Nat /\ InviteLife \in Nat
  BY SorobanVaultAssumptions DEF VoteInv, RecordInv, LifeInv
<1>1. /\ papers' = papers /\ hasAccess' = hasAccess /\ asked' = asked /\ approvedReq' = approvedReq
      /\ blsKeys' = blsKeys /\ usedNonces' = usedNonces /\ bySignature' = bySignature
  BY DEF Founding, create_vault, deactivate_vault, accept_guardian_invite, accessVars
<1>2. NonceInv'
  BY <1>0, <1>1 DEF NonceInv
<1>3. CASE Founding
  <2>1. PICK invited \in SUBSET Kin, n \in 1 .. Cardinality(Kin) + 1 :
           /\ record.threshold = 0
           /\ record' = [guardians |-> {Owner}, threshold |-> n, active |-> TRUE]
           /\ invites' = [a \in Kin |-> IF a \in invited
                                        THEN [expires |-> tip.time + InviteLife, accepted |-> FALSE]
                                        ELSE invites[a]]
    BY <1>3 DEF Founding, create_vault
  <2>2. n \in Nat /\ n # 0 /\ Owner \in Folk
    BY FolkFinite DEF Folk
  <2>3. record' \in [guardians : SUBSET Folk, threshold : Nat, active : BOOLEAN] /\ record'.threshold # 0
    BY <2>1, <2>2
  <2>4. invites' \in [Kin -> [expires : Nat, accepted : BOOLEAN]]
    <3>1. [expires |-> tip.time + InviteLife, accepted |-> FALSE] \in [expires : Nat, accepted : BOOLEAN]
      BY <1>0
    <3> QED
      BY <1>0, <2>1, <3>1
  <2>5. papers = <<>> /\ asked = <<>> /\ blsKeys = {}
    BY <1>0, <2>1 DEF RecordInv
  <2>6. RecordInv'
    BY <1>0, <1>1, <2>3, <2>4, <2>5 DEF RecordInv
  <2> QED
    BY <1>1, <1>2, <2>5, <2>6 DEF VoteInv
<1>4. CASE deactivate_vault
  <2>1. record.active /\ record' = [record EXCEPT !.active = FALSE] /\ invites' = invites
    BY <1>4 DEF deactivate_vault
  <2>2. /\ record' \in [guardians : SUBSET Folk, threshold : Nat, active : BOOLEAN]
        /\ record'.threshold = record.threshold /\ record'.guardians = record.guardians /\ record.threshold # 0
    BY <1>0, <2>1 DEF RecordInv
  <2>3. RecordInv'
    BY <1>0, <1>1, <2>1, <2>2 DEF RecordInv
  <2> QED
    BY <1>1, <1>2, <2>2, <2>3, VotesKept
<1>5. ASSUME NEW a \in Kin, accept_guardian_invite(a) PROVE VoteInv'
  <2>1. /\ record.active /\ record' = [record EXCEPT !.guardians = @ \cup {a}]
        /\ invites' = [invites EXCEPT ![a].accepted = TRUE] /\ a \in Folk
    BY <1>5 DEF accept_guardian_invite, Folk
  <2>2. /\ record' \in [guardians : SUBSET Folk, threshold : Nat, active : BOOLEAN]
        /\ record'.threshold = record.threshold /\ record.guardians \subseteq record'.guardians /\ record.threshold # 0
    BY <1>0, <2>1 DEF RecordInv
  <2>3. invites' \in [Kin -> [expires : Nat, accepted : BOOLEAN]]
    <3>1. PICK i \in [expires : Nat, accepted : BOOLEAN] : i = [invites[a] EXCEPT !.accepted = TRUE]
      BY <1>0
    <3>2. invites' = [invites EXCEPT ![a] = i]
      BY <2>1, <3>1
    <3> QED
      BY <1>0, <3>2
  <2>4. RecordInv'
    BY <1>0, <1>1, <2>2, <2>3 DEF RecordInv
  <2> QED
    BY <1>1, <1>2, <2>2, <2>4, VotesKept
<1> QED
  BY <1>3, <1>4, <1>5

\* Documents, keys, nonces and revocations.
LEMMA DocumentSteps ==
    ASSUME LifeInv, VoteInv,
           \/ \E g \in Folk : register_guardian_bls_key(g)
           \/ \E n \in SignNonces : verify_threshold_signatures(n)
           \/ \E a \in Uploaders, c \in PaperConditions : add_document(a, c)
           \/ \E g, a \in Folk, d \in DOMAIN papers : revoke_access(g, d, a)
    PROVE  VoteInv'
<1>0. RecordInv /\ NonceInv
  BY DEF VoteInv
<1>1. /\ record' = record /\ invites' = invites /\ asked' = asked /\ approvedReq' = approvedReq /\ bySignature' = bySignature
  BY DEF register_guardian_bls_key, verify_threshold_signatures, verify_threshold_signatures_internal,
         add_document, revoke_access, vaultVars
<1>2. SUFFICES RecordInv' /\ NonceInv'
  BY <1>1, VotesKept
<1>3. ASSUME NEW g \in Folk, register_guardian_bls_key(g) PROVE RecordInv' /\ NonceInv'
  BY <1>0, <1>1, <1>3 DEF register_guardian_bls_key, RecordInv, NonceInv
<1>4. ASSUME NEW n \in SignNonces, verify_threshold_signatures(n) PROVE RecordInv' /\ NonceInv'
  <2>1. /\ usedNonces' = usedNonces \cup {n} /\ n \notin usedNonces
        /\ papers' = papers /\ hasAccess' = hasAccess /\ blsKeys' = blsKeys
    BY <1>4 DEF verify_threshold_signatures, verify_threshold_signatures_internal
  <2>2. RecordInv'
    BY <1>0, <1>1, <2>1 DEF RecordInv
  <2>3. IsFiniteSet(usedNonces') /\ Cardinality(usedNonces') = Cardinality(usedNonces) + 1 /\ Cardinality(usedNonces) \in Nat
    BY <1>0, <2>1, FS_AddElement, FS_CardinalityType DEF NonceInv
  <2>4. Cardinality(bySignature) \in Nat /\ Cardinality(bySignature) <= Cardinality(usedNonces)
    BY <1>0, FS_CardinalityType DEF NonceInv
  <2>5. Cardinality(bySignature) <= Cardinality(usedNonces')
    BY <2>3, <2>4
  <2> QED
    BY <1>0, <1>1, <2>2, <2>3, <2>5 DEF NonceInv
<1>5. ASSUME NEW a \in Uploaders, NEW c \in PaperConditions, add_document(a, c) PROVE RecordInv' /\ NonceInv'
  <2>1. /\ record.active /\ papers' = Append(papers, [by |-> a, condition |-> c])
        /\ hasAccess' = hasAccess \cup {<<Len(papers'), a>>} /\ blsKeys' = blsKeys /\ usedNonces' = usedNonces
    BY <1>5 DEF add_document
  <2>2. PICK p \in [by : Folk, condition : Conditions] : p = [by |-> a, condition |-> c]
    BY SorobanVaultAssumptions
  <2>3. papers \in Seq([by : Folk, condition : Conditions]) /\ papers' = Append(papers, p) /\ a \in Folk
    BY <1>0, <2>1, <2>2, SorobanVaultAssumptions DEF RecordInv
  <2>4. /\ papers' \in Seq([by : Folk, condition : Conditions])
        /\ DOMAIN papers' = DOMAIN papers \cup {Len(papers) + 1} /\ Len(papers') = Len(papers) + 1
    BY <2>3, OneMoreRow
  <2>5. hasAccess' \subseteq (DOMAIN papers') \X Folk
    BY <1>0, <2>1, <2>3, <2>4 DEF RecordInv
  <2>6. record.threshold # 0
    BY <1>0, <2>1 DEF RecordInv
  <2> QED
    BY <1>0, <1>1, <2>1, <2>4, <2>5, <2>6 DEF RecordInv, NonceInv
<1>6. ASSUME NEW g \in Folk, NEW a \in Folk, NEW d \in DOMAIN papers, revoke_access(g, d, a) PROVE RecordInv' /\ NonceInv'
  BY <1>0, <1>1, <1>6 DEF revoke_access, RecordInv, NonceInv
<1> QED
  BY <1>3, <1>4, <1>5, <1>6

\* A request is made.
LEMMA AskStep ==
    ASSUME LifeInv, VoteInv, NEW d \in DOMAIN papers, NEW a \in Askers, request_access(a, d)
    PROVE  VoteInv'
<1>0. RecordInv /\ NonceInv /\ tip.time \in Nat /\ RequestLife \in Nat /\ a \in Folk
  BY SorobanVaultAssumptions DEF VoteInv, LifeInv
<1>1. /\ record' = record /\ invites' = invites /\ papers' = papers /\ hasAccess' = hasAccess
      /\ approvedReq' = approvedReq /\ blsKeys' = blsKeys /\ usedNonces' = usedNonces /\ bySignature' = bySignature
      /\ record.active
  BY DEF request_access, vaultVars
<1>2. PICK q \in AskedRecs : q = [doc |-> d, requester |-> a, approved_by |-> <<>>, status |-> "Pending",
                                  expires |-> tip.time + RequestLife]
  <2>1. d \in Nat /\ tip.time + RequestLife \in Nat /\ <<>> \in Seq(Folk)
    BY <1>0 DEF RecordInv
  <2> QED
    BY <1>0, <2>1 DEF AskedRecs
<1>3. asked' = Append(asked, q) /\ asked \in Seq(AskedRecs)
  BY <1>0, <1>2 DEF request_access, RecordInv
<1>4. /\ asked' \in Seq(AskedRecs) /\ DOMAIN asked' = DOMAIN asked \cup {Len(asked) + 1}
      /\ Len(asked) + 1 \notin DOMAIN asked
      /\ \A r \in DOMAIN asked : asked'[r] = asked[r]
      /\ asked'[Len(asked) + 1] = q
  BY <1>3, OneMoreRow
<1>5. q.approved_by = <<>> /\ q.status = "Pending" /\ q.doc = d
  BY <1>2
<1>6. record.threshold # 0 /\ record.threshold \in Nat
  BY <1>0, <1>1 DEF RecordInv
<1>7. RecordInv'
  BY <1>0, <1>1, <1>4, <1>5, <1>6 DEF RecordInv
<1>8. NonceInv'
  BY <1>0, <1>1, <1>4 DEF NonceInv
<1>9. ASSUME NEW r \in DOMAIN asked'
      PROVE  /\ Tallied(r, Tally(r)')
             /\ Range(asked'[r].approved_by) \subseteq record'.guardians
             /\ (asked'[r].status = "Approved") = (Len(asked'[r].approved_by) >= record'.threshold \/ r \in bySignature')
  <2>1. CASE r \in DOMAIN asked
    <3>1. Tally(r)' = Tally(r)
      BY <1>1, <1>4, <2>1 DEF Tally
    <3> QED
      BY <1>1, <1>4, <2>1, <3>1 DEF VoteInv
  <2>2. CASE r = Len(asked) + 1
    <3>1. asked'[r].approved_by = <<>> /\ asked'[r].status = "Pending" /\ r \notin DOMAIN asked
      BY <1>4, <1>5, <2>2
    <3>2. Tally(r)'.by = <<>> /\ Tally(r)'.marked = approvedReq
      BY <1>1, <3>1 DEF Tally
    <3>3. Range(<<>>) = {} /\ Len(<<>>) = 0 /\ <<>> \in Seq(Folk)
      BY DEF Range
    <3>4. {g \in Folk : <<r, g>> \in approvedReq} = {}
      BY <1>0, <3>1 DEF RecordInv
    <3>5. Tallied(r, Tally(r)')
      BY <3>2, <3>3, <3>4, FS_EmptySet DEF Tallied
    <3>6. r \notin bySignature
      BY <1>0, <3>1 DEF NonceInv
    <3> QED
      BY <1>1, <1>6, <3>1, <3>3, <3>5, <3>6
  <2> QED
    BY <1>4, <2>1, <2>2
<1> QED
  BY <1>7, <1>8, <1>9 DEF VoteInv

\* What entering the guardians of a list leaves.
EntersAll(r, new) ==
    /\ Tallied(r, new) /\ Range(new.by) \subseteq record.guardians
    /\ approvedReq \subseteq new.marked
    /\ \A s, k : <<s, k>> \in new.marked => <<s, k>> \in approvedReq \/ (s = r /\ k \in Folk)
    /\ new.marked \subseteq (DOMAIN asked) \X Folk

\* The guardians of the list, one or two, are entered.
LEMMA EnteredTallies ==
    ASSUME VoteInv, NEW r \in DOMAIN asked, NEW g \in record.guardians, NEW h \in record.guardians,
           NEW list \in {<<g>>, <<g, h>>}
    PROVE  EntersAll(r, Entered(r, list))
<1>0. g \in Folk /\ h \in Folk /\ approvedReq \subseteq (DOMAIN asked) \X Folk
  BY DEF VoteInv, RecordInv
<1>1. Tallied(r, Tally(r)) /\ Tally(r).marked = approvedReq /\ Range(Tally(r).by) \subseteq record.guardians
  BY DEF VoteInv, Tally
<1> DEFINE one == Enter(r, Tally(r), g)
           two == Enter(r, one, h)
<1>2. EntersOne(r, g, Tally(r), one)
  BY <1>0, <1>1, EnterTallies
<1>3. EntersOne(r, h, one, two)
  <2>1. Tallied(r, one)
    BY <1>2 DEF EntersOne
  <2> HIDE DEF one
  <2> QED
    BY <1>0, <2>1, EnterTallies
<1>4. Entered(r, list) = one \/ Entered(r, list) = two
  BY EnteredOne, EnteredTwo
<1> HIDE DEF one, two
<1>5. /\ Tallied(r, one) /\ one.marked = approvedReq \cup {<<r, g>>} /\ Range(one.by) \subseteq record.guardians
  BY <1>1, <1>2 DEF EntersOne
<1>6. /\ Tallied(r, two) /\ two.marked = approvedReq \cup {<<r, g>>, <<r, h>>} /\ Range(two.by) \subseteq record.guardians
  BY <1>3, <1>5 DEF EntersOne
<1> QED
  BY <1>0, <1>4, <1>5, <1>6 DEF EntersAll

\* One request is changed, its approvals entered; the others stay.
LEMMA OneDecided ==
    ASSUME VoteInv, NEW r \in DOMAIN asked, NEW q \in AskedRecs, asked' = [asked EXCEPT ![r] = q], q.doc = asked[r].doc,
           record' = record, invites' = invites, papers' = papers, blsKeys' = blsKeys, usedNonces' \subseteq SignNonces,
           hasAccess' \subseteq hasAccess \cup {<<asked[r].doc, asked[r].requester>>},
           approvedReq' \subseteq (DOMAIN asked) \X Folk,
           \A s \in DOMAIN asked \ {r} : \A g \in Folk : <<s, g>> \in approvedReq' <=> <<s, g>> \in approvedReq,
           \A s \in DOMAIN asked \ {r} : s \in bySignature' <=> s \in bySignature,
           NonceInv',
           Tallied(r, [marked |-> approvedReq', by |-> q.approved_by]),
           Range(q.approved_by) \subseteq record.guardians,
           (q.status = "Approved") = (Len(q.approved_by) >= record.threshold \/ r \in bySignature')
    PROVE  VoteInv'
<1>0. RecordInv /\ asked \in Seq(AskedRecs) /\ asked[r] \in AskedRecs
  BY DEF VoteInv, RecordInv
<1>1. /\ asked' \in Seq(AskedRecs) /\ DOMAIN asked' = DOMAIN asked /\ Len(asked') = Len(asked) /\ asked'[r] = q
      /\ \A s \in DOMAIN asked \ {r} : asked'[s] = asked[s]
  BY <1>0, OneRowReplaced
<1>2. RecordInv'
  <2>1. asked # <<>>
    OBVIOUS
  <2>2. record.threshold # 0
    BY <1>0, <2>1 DEF RecordInv
  <2>3. hasAccess' \subseteq (DOMAIN papers) \X Folk
    <3>1. asked[r].doc \in DOMAIN papers /\ asked[r].requester \in Folk
      BY <1>0 DEF RecordInv, AskedRecs
    <3> QED
      BY <1>0, <3>1 DEF RecordInv
  <2>4. \A s \in DOMAIN asked' : asked'[s].doc \in DOMAIN papers
    BY <1>0, <1>1 DEF RecordInv
  <2> QED
    BY <1>0, <1>1, <2>2, <2>3, <2>4 DEF RecordInv
<1>3. ASSUME NEW s \in DOMAIN asked'
      PROVE  /\ Tallied(s, Tally(s)')
             /\ Range(asked'[s].approved_by) \subseteq record'.guardians
             /\ (asked'[s].status = "Approved") = (Len(asked'[s].approved_by) >= record'.threshold \/ s \in bySignature')
  <2>1. CASE s = r
    <3>1. Tally(s)' = [marked |-> approvedReq', by |-> q.approved_by]
      BY <1>1, <2>1 DEF Tally
    <3> QED
      BY <1>1, <2>1, <3>1
  <2>2. CASE s # r
    <3>1. s \in DOMAIN asked /\ asked'[s] = asked[s]
      BY <1>1, <2>2
    <3>2. Tallied(s, Tally(s))
      BY <3>1 DEF VoteInv
    <3>3. {g \in Folk : <<s, g>> \in approvedReq'} = {g \in Folk : <<s, g>> \in approvedReq}
      BY <2>2, <3>1
    <3>4. Tallied(s, Tally(s)')
      BY <3>1, <3>2, <3>3 DEF Tallied, Tally
    <3> QED
      BY <2>2, <3>1, <3>4 DEF VoteInv
  <2> QED
    BY <2>1, <2>2
<1> QED
  BY <1>2, <1>3 DEF VoteInv

\* Guardians approve.
LEMMA ApproveStep ==
    ASSUME VoteInv, NEW r \in DOMAIN asked, NEW g \in record.guardians, NEW h \in record.guardians,
           NEW list \in {<<g>>, <<g, h>>}, asked[r].status = "Pending", Approve(r, list)
    PROVE  VoteInv'
<1>0. RecordInv /\ NonceInv /\ asked \in Seq(AskedRecs) /\ asked[r] \in AskedRecs
  BY DEF VoteInv, RecordInv
<1>E. EntersAll(r, Entered(r, list))
  BY EnteredTallies
<1>S. PICK state : state = Entered(r, list)
  OBVIOUS
<1> DEFINE voters == state.by
           q == IF Len(voters) >= record.threshold
                THEN [asked[r] EXCEPT !.approved_by = voters, !.status = "Approved"]
                ELSE [asked[r] EXCEPT !.approved_by = voters]
<1>1. /\ record' = record /\ invites' = invites /\ papers' = papers /\ blsKeys' = blsKeys /\ usedNonces' = usedNonces
      /\ bySignature' = bySignature /\ approvedReq' = state.marked
      /\ hasAccess' \subseteq hasAccess \cup {<<asked[r].doc, asked[r].requester>>}
  BY <1>S DEF Approve, vaultVars
<1>2. asked' = [asked EXCEPT ![r] = q]
  BY <1>0, <1>S DEF Approve
<1>3. /\ Tallied(r, state) /\ Range(voters) \subseteq record.guardians
      /\ approvedReq \subseteq approvedReq'
      /\ \A s, k : <<s, k>> \in approvedReq' => <<s, k>> \in approvedReq \/ (s = r /\ k \in Folk)
      /\ approvedReq' \subseteq (DOMAIN asked) \X Folk
  BY <1>E, <1>S, <1>1 DEF EntersAll
<1>4. Tallied(r, [marked |-> approvedReq', by |-> voters]) /\ voters \in Seq(Folk) /\ Len(voters) \in Nat
  <2>1. voters \in Seq(Folk)
    BY <1>3 DEF Tallied
  <2>2. Len(voters) \in Nat
    BY <2>1
  <2> QED
    BY <1>1, <1>3, <2>1, <2>2 DEF Tallied
<1> HIDE DEF voters
<1>5. /\ q \in AskedRecs /\ q.doc = asked[r].doc /\ q.approved_by = voters
      /\ (q.status = "Approved") = (Len(voters) >= record.threshold)
  <2>1. CASE Len(voters) >= record.threshold
    <3>1. q = [asked[r] EXCEPT !.approved_by = voters, !.status = "Approved"]
      BY <2>1
    <3> HIDE DEF q
    <3> QED
      BY <1>0, <1>4, <2>1, <3>1 DEF AskedRecs
  <2>2. CASE ~(Len(voters) >= record.threshold)
    <3>1. q = [asked[r] EXCEPT !.approved_by = voters]
      BY <2>2
    <3> HIDE DEF q
    <3>2. q \in AskedRecs
      BY <1>0, <1>4, <3>1 DEF AskedRecs
    <3>3. q.doc = asked[r].doc /\ q.approved_by = voters /\ q.status = "Pending"
      BY <1>0, <3>1 DEF AskedRecs
    <3> QED
      BY <2>2, <3>2, <3>3
  <2> QED
    BY <2>1, <2>2
<1>6. r \notin bySignature
  BY DEF VoteInv
<1>7. NonceInv' /\ usedNonces' \subseteq SignNonces
  <2>1. DOMAIN asked' = DOMAIN asked
    BY <1>0, <1>2, <1>5, OneRowReplaced
  <2> QED
    BY <1>0, <1>1, <2>1 DEF NonceInv, RecordInv
<1>8. \A s \in DOMAIN asked \ {r} : \A k \in Folk : <<s, k>> \in approvedReq' <=> <<s, k>> \in approvedReq
  BY <1>3
<1> HIDE DEF q
<1> QED
  BY <1>1, <1>2, <1>3, <1>4, <1>5, <1>6, <1>7, <1>8, OneDecided

\* Threshold signatures approve.
LEMMA SignedStep ==
    ASSUME VoteInv, NEW r \in DOMAIN asked, NEW n \in SignNonces, approve_access_threshold(r, n)
    PROVE  VoteInv'
<1>0. RecordInv /\ NonceInv /\ asked \in Seq(AskedRecs) /\ asked[r] \in AskedRecs
  BY DEF VoteInv, RecordInv
<1>1. /\ record' = record /\ invites' = invites /\ papers' = papers /\ blsKeys' = blsKeys
      /\ usedNonces' = usedNonces \cup {n} /\ n \notin usedNonces
      /\ bySignature' = bySignature \cup {r} /\ approvedReq' = approvedReq
      /\ hasAccess' = hasAccess \cup {<<asked[r].doc, asked[r].requester>>}
      /\ asked[r].status = "Pending" /\ asked' = [asked EXCEPT ![r].status = "Approved"]
  BY DEF approve_access_threshold, verify_threshold_signatures_internal, vaultVars, Approvable
<1>2. PICK q \in AskedRecs : q = [asked[r] EXCEPT !.status = "Approved"]
  BY <1>0 DEF AskedRecs
<1>3. /\ asked' = [asked EXCEPT ![r] = q] /\ q.doc = asked[r].doc /\ q.approved_by = asked[r].approved_by
      /\ q.status = "Approved"
  BY <1>0, <1>1, <1>2 DEF AskedRecs
<1>4. r \notin bySignature
  BY <1>1 DEF VoteInv
<1>5. NonceInv'
  <2>1. IsFiniteSet(usedNonces') /\ Cardinality(usedNonces') = Cardinality(usedNonces) + 1 /\ Cardinality(usedNonces) \in Nat
    BY <1>0, <1>1, FS_AddElement, FS_CardinalityType DEF NonceInv
  <2>2. IsFiniteSet(bySignature') /\ Cardinality(bySignature') = Cardinality(bySignature) + 1 /\ Cardinality(bySignature) \in Nat
    BY <1>0, <1>1, <1>4, FS_AddElement, FS_CardinalityType DEF NonceInv
  <2>3. Cardinality(bySignature') <= Cardinality(usedNonces')
    BY <1>0, <2>1, <2>2 DEF NonceInv
  <2>4. DOMAIN asked' = DOMAIN asked
    BY <1>0, <1>3, OneRowReplaced
  <2> QED
    BY <1>0, <1>1, <2>1, <2>2, <2>3, <2>4 DEF NonceInv
<1>6. Tallied(r, [marked |-> approvedReq', by |-> q.approved_by]) /\ Range(q.approved_by) \subseteq record.guardians
  BY <1>1, <1>3 DEF VoteInv, Tally
<1>7. approvedReq' \subseteq (DOMAIN asked) \X Folk /\ usedNonces' \subseteq SignNonces
  BY <1>0, <1>1 DEF RecordInv
<1> QED
  BY <1>1, <1>3, <1>5, <1>6, <1>7, OneDecided

\* Every step of the contract keeps what its approvals say.
LEMMA VoteStep == LifeInv /\ VoteInv /\ [SorobanVaultNext]_sorobanVaultVars => VoteInv'
<1> SUFFICES ASSUME LifeInv, VoteInv, [SorobanVaultNext]_sorobanVaultVars PROVE VoteInv'
  OBVIOUS
<1>1. CASE UNCHANGED <<vaultVars, accessVars>>
  BY <1>1 DEF vaultVars, accessVars, VoteInv, RecordInv, NonceInv, Tally, Tallied
<1>2. CASE AccessNext
  <2>1. CASE Founding \/ deactivate_vault \/ \E a \in Kin : accept_guardian_invite(a)
    BY <2>1, VaultSteps
  <2>2. CASE CloseLedger
    BY <1>1, <2>2 DEF CloseLedger
  <2>3. CASE \/ \E g \in Folk : register_guardian_bls_key(g)
             \/ \E n \in SignNonces : verify_threshold_signatures(n)
             \/ \E a \in Uploaders, c \in PaperConditions : add_document(a, c)
    BY <2>3, DocumentSteps
  <2>4. ASSUME NEW d \in DOMAIN papers, NEW a \in Askers,
               request_access(a, d) \/ \E g \in Folk : revoke_access(g, d, a)
        PROVE  VoteInv'
    <3>1. a \in Folk
      BY SorobanVaultAssumptions
    <3> QED
      BY <2>4, <3>1, AskStep, DocumentSteps
  <2>5. ASSUME NEW r \in DOMAIN asked, NEW g \in Folk, approve_access(g, r) \/ approve_access_fhe(g, r)
        PROVE  VoteInv'
    <3>1. g \in record.guardians /\ asked[r].status = "Pending" /\ Approve(r, <<g>>)
      BY <2>5 DEF approve_access, approve_access_fhe, Approvable
    <3> QED
      BY <3>1, ApproveStep
  <2>6. ASSUME NEW r \in DOMAIN asked, NEW g \in Folk, NEW h \in Folk,
               approve_access_bls(<<g>>, r) \/ approve_access_bls(<<g, h>>, r)
        PROVE  VoteInv'
    <3>1. CASE approve_access_bls(<<g>>, r)
      <4>1. asked[r].status = "Pending" /\ Approve(r, <<g>>) /\ Range(<<g>>) \subseteq record.guardians
        BY <3>1 DEF approve_access_bls, Approvable
      <4>2. g \in record.guardians
        <5>1. 1 \in DOMAIN <<g>> /\ <<g>>[1] = g
          OBVIOUS
        <5> QED
          BY <4>1, <5>1 DEF Range
      <4> QED
        BY <4>1, <4>2, ApproveStep
    <3>2. CASE approve_access_bls(<<g, h>>, r)
      <4>1. asked[r].status = "Pending" /\ Approve(r, <<g, h>>) /\ Range(<<g, h>>) \subseteq record.guardians
        BY <3>2 DEF approve_access_bls, Approvable
      <4>2. g \in record.guardians /\ h \in record.guardians
        <5>1. {1, 2} \subseteq DOMAIN <<g, h>> /\ <<g, h>>[1] = g /\ <<g, h>>[2] = h
          OBVIOUS
        <5> QED
          BY <4>1, <5>1 DEF Range
      <4> QED
        BY <4>1, <4>2, ApproveStep
    <3> QED
      BY <2>6, <3>1, <3>2
  <2>7. ASSUME NEW r \in DOMAIN asked, NEW n \in SignNonces, approve_access_threshold(r, n) PROVE VoteInv'
    BY <2>7, SignedStep
  <2> QED
    BY <1>2, <2>1, <2>2, <2>3, <2>4, <2>5, <2>6, <2>7 DEF AccessNext
<1> QED
  BY <1>1, <1>2, VaultFrames

-----------------------------------------------------------------------------
(* Event logs: chunks, and what one endpoint lists.                        *)

\* Division with remainder.
LEMMA DivParts ==
    ASSUME NEW n \in Nat \ {0}, NEW x \in Nat
    PROVE  \E q \in Nat, r \in 0 .. (n - 1) : r = x % n /\ x = n * q + r
<1>1. x % n \in 0 .. (n - 1)
  OBVIOUS
<1>2. x \div n \in Nat
  OBVIOUS
<1>3. PICK q \in Nat, r \in 0 .. (n - 1) : q = x \div n /\ r = x % n
  BY <1>1, <1>2
<1>4. x % n = x - n * (x \div n)
  OBVIOUS
<1>5. x = n * q + r
  <2>1. r = x - n * q
    BY <1>3, <1>4
  <2>2. PICK m \in Nat : m = n * q
    OBVIOUS
  <2> QED
    BY <2>1, <2>2
<1> QED
  BY <1>3, <1>5

\* Different multiples lie a whole one apart.
LEMMA Apart ==
    ASSUME NEW n \in Nat \ {0}, NEW p \in Nat, NEW q \in Nat, p < q
    PROVE  n * p + n <= n * q
<1>1. n * (p + 1) = n * p + n
  OBVIOUS
<1>2. p + 1 <= q
  OBVIOUS
<1>3. n * (p + 1) <= n * q
  BY <1>2
<1> QED
  BY <1>1, <1>3

\* There is one multiple in every span of n.
LEMMA ModUnique ==
    ASSUME NEW n \in Nat \ {0}, NEW x \in Nat, NEW y \in Nat, x % n = 0, y % n = 0, x <= y, y < x + n
    PROVE  x = y
<1>1. PICK p \in Nat : x = n * p
  <2>1. PICK p \in Nat, r \in 0 .. (n - 1) : r = x % n /\ x = n * p + r
    BY DivParts
  <2>2. r = 0 /\ n * p \in Nat
    BY <2>1
  <2>3. x = n * p
    BY <2>1, <2>2
  <2> QED
    BY <2>3
<1>2. PICK q \in Nat : y = n * q
  <2>1. PICK q \in Nat, r \in 0 .. (n - 1) : r = y % n /\ y = n * q + r
    BY DivParts
  <2>2. r = 0 /\ n * q \in Nat
    BY <2>1
  <2>3. y = n * q
    BY <2>1, <2>2
  <2> QED
    BY <2>3
<1>3. ~(p < q)
  <2> SUFFICES ASSUME p < q PROVE FALSE
    OBVIOUS
  <2>1. n * p + n <= n * q
    BY Apart
  <2> QED
    BY <1>1, <1>2, <2>1
<1>4. ~(q < p)
  <2> SUFFICES ASSUME q < p PROVE FALSE
    OBVIOUS
  <2>1. n * q + n <= n * p
    BY Apart
  <2> QED
    BY <1>1, <1>2, <2>1
<1> QED
  BY <1>1, <1>2, <1>3, <1>4

\* The last multiple at or below x.
LEMMA ModBase ==
    ASSUME NEW n \in Nat \ {0}, NEW x \in Nat
    PROVE  \E y \in Nat : y <= x /\ x < y + n /\ y % n = 0
<1>1. PICK q \in Nat, r \in 0 .. (n - 1) : r = x % n /\ x = n * q + r
  BY DivParts
<1>2. PICK y \in Nat : y = n * q
  OBVIOUS
<1>3. y % n = 0
  BY <1>2
<1> QED
  BY <1>1, <1>2, <1>3

\* The chunk that begins at c.
Chunk(c, to) == <<c, Min({c + ChunkSize - 1, to})>>

\* The smaller of two.
LEMMA MinOfTwo == ASSUME NEW x \in Nat, NEW y \in Nat PROVE Min({x, y}) = IF x <= y THEN x ELSE y
BY DEF Min

\* The larger of two.
LEMMA MaxOfTwo == ASSUME NEW x \in Nat, NEW y \in Nat PROVE Max({x, y}) = IF x <= y THEN y ELSE x
BY DEF Max

\* The chunks that hold block b.
Holding(first, to, b) == {c \in Chunks(first, to) : c[1] <= b /\ b <= c[2]}

\* Each block of the range lies in one chunk, any other in none.
LEMMA OneChunk ==
    ASSUME NEW first \in Nat, NEW to \in Nat, NEW b \in Nat
    PROVE  Cardinality(Holding(first, to, b)) = IF first <= b /\ b <= to THEN 1 ELSE 0
<1>0. ChunkSize \in Nat \ {0}
  BY EventLogsAssumptions
<1> DEFINE Starts == {d \in first .. to : (d - first) % ChunkSize = 0}
<1>1. Chunks(first, to) = {Chunk(c, to) : c \in Starts}
  BY DEF Chunks, Chunk
<1>2. \A c \in Starts : c \in Nat /\ Chunk(c, to)[1] = c /\ Chunk(c, to)[2] = IF c + ChunkSize - 1 <= to THEN c + ChunkSize - 1 ELSE to
  <2> TAKE c \in Starts
  <2>1. c \in Nat /\ c + ChunkSize - 1 \in Nat
    BY <1>0
  <2>2. Min({c + ChunkSize - 1, to}) = IF c + ChunkSize - 1 <= to THEN c + ChunkSize - 1 ELSE to
    BY <2>1, MinOfTwo
  <2>3. Chunk(c, to)[1] = c /\ Chunk(c, to)[2] = Min({c + ChunkSize - 1, to})
    BY DEF Chunk
  <2> QED
    BY <2>1, <2>2, <2>3
<1>3. \A k \in Holding(first, to, b) : \E c \in Starts : k = Chunk(c, to) /\ c <= b /\ b <= to /\ b < c + ChunkSize
  <2> TAKE k \in Holding(first, to, b)
  <2>1. k \in Chunks(first, to) /\ k[1] <= b /\ b <= k[2]
    BY DEF Holding
  <2>2. PICK c \in Starts : k = Chunk(c, to)
    BY <1>1, <2>1
  <2> HIDE DEF Starts
  <2> QED
    BY <1>0, <1>2, <2>1, <2>2
<1>4. CASE first <= b /\ b <= to
  <2>1. PICK y \in Nat : y <= b - first /\ b - first < y + ChunkSize /\ y % ChunkSize = 0
    <3>1. b - first \in Nat
      BY <1>4
    <3> QED
      BY <1>0, <3>1, ModBase
  <2>2. PICK c \in Nat : c = first + y
    OBVIOUS
  <2>3. c - first = y /\ c \in first .. to /\ c <= b /\ b < c + ChunkSize
    BY <1>0, <1>4, <2>1, <2>2
  <2>4. c \in Starts
    BY <2>1, <2>3
  <2>5. Chunk(c, to) \in Holding(first, to, b)
    <3> HIDE DEF Starts
    <3>1. Chunk(c, to)[1] <= b /\ b <= Chunk(c, to)[2]
      BY <1>0, <1>2, <1>4, <2>3, <2>4
    <3> QED
      BY <1>1, <2>4, <3>1 DEF Holding
  <2>6. \A k \in Holding(first, to, b) : k = Chunk(c, to)
    <3> TAKE k \in Holding(first, to, b)
    <3>1. PICK d \in Starts : k = Chunk(d, to) /\ d <= b /\ b <= to /\ b < d + ChunkSize
      BY <1>3
    <3>2. PICK z \in Nat : z = d - first
      OBVIOUS
    <3>3. z % ChunkSize = 0 /\ d = first + z
      BY <3>1, <3>2
    <3>4. CASE z <= y
      <4>1. y < z + ChunkSize
        BY <1>0, <1>4, <2>1, <3>1, <3>3
      <4>2. z = y
        BY <1>0, <2>1, <3>3, <3>4, <4>1, ModUnique
      <4> QED
        BY <2>2, <3>1, <3>3, <4>2
    <3>5. CASE y <= z
      <4>1. z < y + ChunkSize
        BY <1>0, <1>4, <2>1, <3>1, <3>3
      <4>2. z = y
        BY <1>0, <2>1, <3>3, <3>5, <4>1, ModUnique
      <4> QED
        BY <2>2, <3>1, <3>3, <4>2
    <3> QED
      BY <3>4, <3>5
  <2>7. Holding(first, to, b) = {Chunk(c, to)}
    BY <2>5, <2>6
  <2> QED
    BY <1>4, <2>7, FS_Singleton
<1>5. CASE ~(first <= b /\ b <= to)
  <2>1. Holding(first, to, b) = {}
    BY <1>3, <1>5
  <2> QED
    BY <1>5, <2>1, FS_EmptySet
<1> QED
  BY <1>4, <1>5

-----------------------------------------------------------------------------
(* Log queries.                                                            *)

CacheRecs == [synced : Nat, logs : SUBSET (1 .. MaxBlock), low : Nat, known : BOOLEAN]

QueryRecs == [st : {"idle", "asking", "answered", "cached"}, from : Nat, cache : CacheRecs, at : Endpoints,
              to : Nat, low : Nat, count : [1 .. MaxBlock -> Nat]]

\* The first block a list that starts at low answers for.
Lower(low, dep) == Max({1, IF dep > 0 THEN dep ELSE low})

\* A cached list holds the logs of its range and none behind its end, which the
\* chain has reached.
CacheOk(c, h, n, dep) ==
    /\ c \in CacheRecs /\ c.synced <= n /\ \A b \in c.logs : b <= c.synced
    /\ \A b \in Lower(c.low, dep) .. c.synced : b \in c.logs <=> b \in h

\* A query builds on such a list, and its answer lists every log once.
QueryOk(k, h, n, dep) ==
    /\ k \in QueryRecs /\ CacheOk(k.cache, h, n, dep)
    /\ k.st = "asking" /\ dep > 0 => k.from = dep
    /\ k.st \in {"answered", "cached"} =>
          /\ k.to <= n
          /\ \A b \in Lower(k.low, dep) .. k.to : k.count[b] = IF b \in h THEN 1 ELSE 0

LogsInv ==
    /\ deploy \in Nat /\ hits \subseteq 1 .. chainHead /\ chainHead \in 1 .. MaxBlock
    /\ head \in [Endpoints -> Nat] /\ \A e \in Endpoints : head[e] \in 1 .. chainHead
    /\ CacheOk(logCache, hits, chainHead, deploy)
    /\ query \in [Queries -> QueryRecs] /\ \A q \in Queries : QueryOk(query[q], hits, chainHead, deploy)

\* A range starts at block 1 or later.
LEMMA LowerIs ==
    ASSUME NEW low \in Nat, NEW dep \in Nat
    PROVE  /\ Lower(low, dep) \in Nat /\ 1 <= Lower(low, dep)
           /\ (dep > 0 => Lower(low, dep) = dep) /\ (dep = 0 => low <= Lower(low, dep))
<1>1. PICK x \in Nat : x = IF dep > 0 THEN dep ELSE low
  OBVIOUS
<1>2. Lower(low, dep) = IF 1 <= x THEN x ELSE 1
  BY <1>1, MaxOfTwo DEF Lower
<1> QED
  BY <1>1, <1>2

\* A query that was not made yet.
LEMMA BlankIs ==
    /\ NoCache \in CacheRecs /\ NoCache.synced = 0 /\ NoCache.logs = {} /\ NoCache.low = 0
    /\ Blank \in QueryRecs /\ Blank.st = "idle" /\ Blank.cache = NoCache
<1>1. NoCache \in CacheRecs /\ NoCache.synced = 0 /\ NoCache.logs = {} /\ NoCache.low = 0
  BY DEF NoCache, CacheRecs
<1>2. [b \in 1 .. MaxBlock |-> 0] \in [1 .. MaxBlock -> Nat]
  OBVIOUS
<1>3. 1 \in Endpoints
  BY DEF Endpoints
<1> QED
  BY <1>1, <1>2, <1>3 DEF Blank, QueryRecs

\* Without a cached list and without an answer nothing is claimed.
LEMMA BlankOk ==
    ASSUME NEW h, NEW n \in Nat, NEW dep \in Nat
    PROVE  CacheOk(NoCache, h, n, dep) /\ QueryOk(Blank, h, n, dep)
<1>1. Lower(0, dep) \in Nat /\ 1 <= Lower(0, dep)
  BY LowerIs
<1>2. Lower(0, dep) .. 0 = {}
  BY <1>1
<1>3. CacheOk(NoCache, h, n, dep)
  BY <1>2, BlankIs DEF CacheOk
<1> QED
  BY <1>3, BlankIs DEF QueryOk

\* Nothing is cached and nothing was asked at first.
LEMMA LogsInitial == LogsInit => LogsInv
<1> SUFFICES ASSUME LogsInit PROVE LogsInv
  OBVIOUS
<1>1. deploy \in Nat /\ 1 \in 1 .. MaxBlock
  BY EventLogsAssumptions DEF LogsInit
<1>2. /\ CacheOk(logCache, hits, chainHead, deploy)
      /\ query \in [Queries -> QueryRecs] /\ \A q \in Queries : QueryOk(query[q], hits, chainHead, deploy)
  <2>1. CacheOk(NoCache, hits, 1, deploy) /\ QueryOk(Blank, hits, 1, deploy)
    BY <1>1, BlankOk
  <2> QED
    BY <2>1, BlankIs DEF LogsInit
<1> QED
  BY <1>1, <1>2 DEF LogsInit, LogsInv

\* New blocks add nothing to the ranges that were listed.
LEMMA StaysOk ==
    ASSUME NEW h, NEW h2, NEW n \in Nat, NEW n2 \in Nat, NEW dep \in Nat, n <= n2,
           \A b \in 1 .. n : b \in h2 <=> b \in h
    PROVE  /\ \A c : CacheOk(c, h, n, dep) => CacheOk(c, h2, n2, dep)
           /\ \A k : QueryOk(k, h, n, dep) => QueryOk(k, h2, n2, dep)
<1>1. ASSUME NEW c, CacheOk(c, h, n, dep) PROVE CacheOk(c, h2, n2, dep)
  <2>1. c \in CacheRecs /\ c.low \in Nat /\ c.synced \in Nat /\ c.synced <= n
    BY <1>1 DEF CacheOk, CacheRecs
  <2>2. \A b \in Lower(c.low, dep) .. c.synced : b \in 1 .. n
    BY <2>1, LowerIs, SMTT(30)
  <2> QED
    BY <1>1, <2>1, <2>2 DEF CacheOk
<1>2. ASSUME NEW k, QueryOk(k, h, n, dep) PROVE QueryOk(k, h2, n2, dep)
  <2>1. k \in QueryRecs /\ CacheOk(k.cache, h, n, dep) /\ k.low \in Nat /\ k.to \in Nat
    BY <1>2 DEF QueryOk, QueryRecs
  <2>2. CacheOk(k.cache, h2, n2, dep)
    BY <1>1, <2>1
  <2>3. CASE k.st \in {"answered", "cached"}
    <3>1. k.to <= n /\ \A b \in Lower(k.low, dep) .. k.to : b \in 1 .. n
      BY <1>2, <2>1, <2>3, LowerIs DEF QueryOk
    <3> QED
      BY <1>2, <2>1, <2>2, <3>1 DEF QueryOk
  <2>4. CASE k.st \notin {"answered", "cached"}
    BY <1>2, <2>1, <2>2, <2>4 DEF QueryOk
  <2> QED
    BY <2>3, <2>4
<1> QED
  BY <1>1, <1>2

\* The list of one endpoint's loop over the range first .. to.
LEMMA CollectedIs ==
    ASSUME NEW q, NEW first \in Nat, NEW to \in Nat, NEW use, NEW b \in 1 .. MaxBlock
    PROVE  Collected(q, first, to, use)[b] =
               (IF use /\ b \in KeptLogs(q) THEN 1 ELSE 0) + (IF b \in hits /\ first <= b /\ b <= to THEN 1 ELSE 0)
<1>1. b \in Nat /\ Cardinality(Holding(first, to, b)) = IF first <= b /\ b <= to THEN 1 ELSE 0
  BY OneChunk
<1>2. Collected(q, first, to, use)[b] =
          (IF use /\ b \in KeptLogs(q) THEN 1 ELSE 0) + (IF b \in hits THEN Cardinality(Holding(first, to, b)) ELSE 0)
  BY DEF Collected, Holding
<1> QED
  BY <1>1, <1>2

\* The list count is right from low to to, a block of the chain.
RightAnswer(to, low, count) ==
    /\ to \in 1 .. chainHead /\ low \in Nat /\ count \in [1 .. MaxBlock -> Nat]
    /\ \A b \in Listed(count) : b \in 1 .. MaxBlock /\ b <= to
    /\ \A b \in Lower(low, deploy) .. to : count[b] = IF b \in hits THEN 1 ELSE 0

\* What an endpoint's answer stores and returns.
LEMMA AnswerListed ==
    ASSUME LogsInv, NEW q \in Queries, query[q].st = "asking",
           NEW to, to = head[query[q].at], NEW start, start = Min({query[q].from, to}),
           NEW use, use = CanUseCache(q, start, to),
           NEW count, count = Collected(q, IncrementalStart(q, start, to), to, use),
           NEW low, low = IF use THEN Max({start, query[q].cache.low}) ELSE start
    PROVE  RightAnswer(to, low, count)
<1>0. PICK k : k = query[q]
  OBVIOUS
<1>1. /\ k \in QueryRecs /\ CacheOk(k.cache, hits, chainHead, deploy) /\ (deploy > 0 => k.from = deploy)
      /\ deploy \in Nat /\ chainHead \in 1 .. MaxBlock /\ hits \subseteq 1 .. chainHead
  BY <1>0 DEF LogsInv, QueryOk
<1>2. PICK c : c = k.cache
  OBVIOUS
<1>3. /\ c \in CacheRecs /\ c.synced \in Nat /\ c.low \in Nat /\ c.logs \subseteq 1 .. MaxBlock /\ k.from \in Nat
      /\ k.at \in Endpoints /\ c.synced <= chainHead
      /\ \A b \in c.logs : b <= c.synced
      /\ \A b \in Lower(c.low, deploy) .. c.synced : b \in c.logs <=> b \in hits
  BY <1>1, <1>2 DEF QueryRecs, CacheOk, CacheRecs
<1>4. to \in 1 .. chainHead /\ to \in Nat
  BY <1>0, <1>3 DEF LogsInv
<1>5. start = IF k.from <= to THEN k.from ELSE to
  BY <1>0, <1>3, <1>4, MinOfTwo
<1>6. start \in Nat /\ start <= to /\ start <= k.from
  <2>1. PICK f \in Nat : f = k.from
    BY <1>3
  <2>2. start = IF f <= to THEN f ELSE to
    BY <1>5, <2>1
  <2>3. start \in Nat /\ start <= to /\ start <= f
    BY <1>4, <2>2
  <2> QED
    BY <2>1, <2>3
<1>7. KeptLogs(q) = {b \in c.logs : b >= k.from}
  BY <1>0, <1>2 DEF KeptLogs
<1>8. use \in BOOLEAN /\ (use => c.synced >= start /\ c.synced <= to /\ \E b \in c.logs : b >= k.from)
  BY <1>0, <1>2, <1>7 DEF CanUseCache
<1> DEFINE first == IncrementalStart(q, start, to)
<1>9. /\ first \in Nat /\ (~use => first = start)
      /\ (use => first >= start /\ first >= c.synced + 1 /\ (first = start \/ first = c.synced + 1))
  <2>1. CASE use
    <3>1. first = Max({start, c.synced + 1})
      BY <1>0, <1>2, <2>1 DEF IncrementalStart
    <3>2. c.synced + 1 \in Nat
      BY <1>3
    <3>3. first = IF start <= c.synced + 1 THEN c.synced + 1 ELSE start
      BY <1>6, <3>1, <3>2, MaxOfTwo
    <3> HIDE DEF first
    <3> QED
      BY <1>3, <1>6, <2>1, <3>3
  <2>2. CASE ~use
    BY <1>6, <2>2 DEF IncrementalStart
  <2> QED
    BY <1>8, <2>1, <2>2
<1> HIDE DEF first
<1>10. low \in Nat /\ start <= low /\ (use => c.low <= low)
  <2>1. CASE use
    <3>1. low = IF start <= c.low THEN c.low ELSE start
      BY <1>0, <1>2, <1>3, <1>6, <2>1, MaxOfTwo
    <3> QED
      BY <1>3, <1>6, <3>1
  <2>2. CASE ~use
    BY <1>6, <2>2
  <2> QED
    BY <1>8, <2>1, <2>2
<1>11. \A b \in 1 .. MaxBlock :
          count[b] = (IF use /\ b \in KeptLogs(q) THEN 1 ELSE 0) + (IF b \in hits /\ first <= b /\ b <= to THEN 1 ELSE 0)
  <2>1. count = Collected(q, first, to, use)
    BY DEF first
  <2> TAKE b \in 1 .. MaxBlock
  <2>2. first \in Nat /\ to \in Nat /\ use \in BOOLEAN
    BY <1>4, <1>8, <1>9
  <2>3. PICK f \in Nat : f = first
    BY <2>2
  <2>4. Collected(q, f, to, use)[b] =
          (IF use /\ b \in KeptLogs(q) THEN 1 ELSE 0) + (IF b \in hits /\ f <= b /\ b <= to THEN 1 ELSE 0)
    BY <2>2, CollectedIs
  <2> QED
    BY <2>1, <2>3, <2>4
<1>12. count = [b \in 1 .. MaxBlock |-> count[b]]
  BY DEF Collected
<1>13. count \in [1 .. MaxBlock -> Nat]
  <2>1. \A b \in 1 .. MaxBlock : count[b] \in Nat
    <3> TAKE b \in 1 .. MaxBlock
    <3>1. PICK x \in Nat : x = IF use /\ b \in KeptLogs(q) THEN 1 ELSE 0
      OBVIOUS
    <3>2. PICK y \in Nat : y = IF b \in hits /\ first <= b /\ b <= to THEN 1 ELSE 0
      OBVIOUS
    <3>3. count[b] = x + y
      BY <1>11, <3>1, <3>2
    <3> QED
      BY <3>3
  <2> QED
    BY <1>12, <2>1
<1>14. ASSUME NEW b \in Listed(count) PROVE b \in 1 .. MaxBlock /\ b <= to
  <2>1. b \in 1 .. MaxBlock /\ count[b] > 0
    BY DEF Listed
  <2>2. (use /\ b \in KeptLogs(q)) \/ (b \in hits /\ first <= b /\ b <= to)
    BY <1>11, <2>1
  <2>3. use /\ b \in KeptLogs(q) => b <= to
    BY <1>3, <1>4, <1>7, <1>8, <2>1
  <2> QED
    BY <2>1, <2>2, <2>3
<1>15. ASSUME NEW b \in Lower(low, deploy) .. to PROVE count[b] = IF b \in hits THEN 1 ELSE 0
  <2>1. /\ Lower(low, deploy) \in Nat /\ 1 <= Lower(low, deploy)
        /\ (deploy > 0 => Lower(low, deploy) = deploy) /\ (deploy = 0 => low <= Lower(low, deploy))
    BY <1>1, <1>10, LowerIs
  <2>2. b \in 1 .. MaxBlock /\ b <= to /\ b \in Nat /\ b >= Lower(low, deploy)
    <3>1. PICK l \in Nat : l = Lower(low, deploy)
      BY <2>1
    <3>2. b \in l .. to /\ 1 <= l /\ MaxBlock \in Nat /\ to <= MaxBlock
      BY <1>1, <1>4, <2>1, <3>1, EventLogsAssumptions
    <3>3. b \in 1 .. MaxBlock /\ b <= to /\ b \in Nat /\ b >= l
      BY <1>4, <3>2
    <3> QED
      BY <3>1, <3>3
  <2>3. b >= start
    <3>1. CASE deploy > 0
      BY <1>1, <1>6, <2>1, <2>2, <3>1
    <3>2. CASE deploy = 0
      BY <1>6, <1>10, <2>1, <2>2, <3>2
    <3> QED
      BY <1>1, <3>1, <3>2
  <2>4. CASE ~use
    <3>1. first <= b
      BY <1>9, <2>3, <2>4
    <3> QED
      BY <1>11, <2>2, <2>4, <3>1
  <2>5. CASE use /\ b > c.synced
    <3>1. first <= b /\ b \notin KeptLogs(q)
      BY <1>3, <1>7, <1>9, <2>2, <2>3, <2>5
    <3> QED
      BY <1>11, <2>2, <3>1
  <2>6. CASE use /\ b <= c.synced
    <3>1. ~(first <= b)
      BY <1>3, <1>9, <2>2, <2>6
    <3>2. b >= k.from
      <4>1. k.from <= to
        <5>1. PICK x \in c.logs : x >= k.from
          BY <1>8, <2>6
        <5>2. x \in Nat /\ x <= c.synced
          BY <1>3
        <5> QED
          BY <1>3, <1>4, <1>8, <2>6, <5>1, <5>2
      <4> QED
        BY <1>5, <2>3, <4>1
    <3>3. b \in Lower(c.low, deploy) .. c.synced
      <4>1. /\ Lower(c.low, deploy) \in Nat
            /\ (deploy > 0 => Lower(c.low, deploy) = deploy)
        BY <1>1, <1>3, LowerIs
      <4>2. deploy = 0 => Lower(c.low, deploy) <= b
        <5> SUFFICES ASSUME deploy = 0 PROVE Lower(c.low, deploy) <= b
          OBVIOUS
        <5>1. Lower(c.low, deploy) = Max({1, c.low})
          BY DEF Lower
        <5>2. Max({1, c.low}) = IF 1 <= c.low THEN c.low ELSE 1
          BY <1>3, MaxOfTwo
        <5>3. 1 <= b /\ c.low <= b
          BY <1>3, <1>10, <2>1, <2>2, <2>6
        <5> QED
          BY <1>3, <5>1, <5>2, <5>3
      <4> QED
        BY <1>1, <1>3, <2>1, <2>2, <2>6, <4>1, <4>2
    <3>4. b \in KeptLogs(q) <=> b \in hits
      BY <1>3, <1>7, <3>2, <3>3
    <3>5. count[b] = (IF b \in hits THEN 1 ELSE 0) + 0
      BY <1>11, <2>2, <2>6, <3>1, <3>4
    <3> QED
      BY <3>5
  <2> QED
    BY <1>3, <1>8, <2>2, <2>4, <2>5, <2>6
<1> QED
  BY <1>4, <1>10, <1>13, <1>14, <1>15 DEF RightAnswer

\* A list whose every block is counted once is a list of its range.
LEMMA ListedIs ==
    ASSUME NEW count, NEW low \in Nat, NEW to \in 1 .. MaxBlock, NEW h, NEW dep \in Nat,
           \A b \in Lower(low, dep) .. to : count[b] = IF b \in h THEN 1 ELSE 0
    PROVE  \A b \in Lower(low, dep) .. to : b \in Listed(count) <=> b \in h
<1>1. Lower(low, dep) \in Nat /\ 1 <= Lower(low, dep) /\ MaxBlock \in Nat
  BY LowerIs, EventLogsAssumptions
<1>2. \A b \in Lower(low, dep) .. to : b \in 1 .. MaxBlock
  BY <1>1
<1> QED
  BY <1>2 DEF Listed

\* Every step of the queries keeps their lists right.
LEMMA LogsStepKeeps == LogsInv /\ [LogsNext]_logVars => LogsInv'
<1> SUFFICES ASSUME LogsInv, [LogsNext]_logVars PROVE LogsInv'
  OBVIOUS
<1>0. /\ deploy \in Nat /\ hits \subseteq 1 .. chainHead /\ chainHead \in 1 .. MaxBlock /\ MaxBlock \in Nat
      /\ head \in [Endpoints -> Nat] /\ \A e \in Endpoints : head[e] \in 1 .. chainHead
  BY EventLogsAssumptions DEF LogsInv
<1>1. /\ CacheOk(logCache, hits, chainHead, deploy)
      /\ query \in [Queries -> QueryRecs] /\ \A q \in Queries : QueryOk(query[q], hits, chainHead, deploy)
  BY DEF LogsInv
<1>2. CASE UNCHANGED logVars
  BY <1>0, <1>1, <1>2 DEF logVars, LogsInv
<1>3. ASSUME NEW hit \in BOOLEAN, MineBlock(hit) PROVE LogsInv'
  <2>1. /\ chainHead' = chainHead + 1 /\ chainHead' \in 1 .. MaxBlock /\ hits \subseteq hits'
        /\ hits' \subseteq hits \cup {chainHead + 1} /\ UNCHANGED <<deploy, head, logCache, query>>
    BY <1>0, <1>3 DEF MineBlock
  <2>2. \A b \in 1 .. chainHead : b \in hits' <=> b \in hits
    BY <1>0, <2>1
  <2>3. chainHead \in Nat /\ chainHead' \in Nat /\ chainHead <= chainHead'
    BY <1>0, <2>1
  <2>4. /\ \A c : CacheOk(c, hits, chainHead, deploy) => CacheOk(c, hits', chainHead', deploy)
        /\ \A k : QueryOk(k, hits, chainHead, deploy) => QueryOk(k, hits', chainHead', deploy)
    BY <1>0, <2>2, <2>3, StaysOk
  <2>5. hits' \subseteq 1 .. chainHead' /\ \A e \in Endpoints : head[e] \in 1 .. chainHead'
    BY <1>0, <2>1
  <2> QED
    BY <1>0, <1>1, <2>1, <2>4, <2>5 DEF LogsInv
<1>4. ASSUME NEW e \in Endpoints, EndpointSees(e) PROVE LogsInv'
  <2>1. /\ head[e] < chainHead /\ head' = [head EXCEPT ![e] = @ + 1]
        /\ UNCHANGED <<deploy, hits, chainHead, logCache, query>>
    BY <1>4 DEF EndpointSees
  <2>2. head' \in [Endpoints -> Nat] /\ \A f \in Endpoints : head'[f] \in 1 .. chainHead
    BY <1>0, <2>1
  <2> QED
    BY <1>0, <1>1, <2>1, <2>2 DEF LogsInv
<1>5. ASSUME NEW q \in Queries, NEW k, query' = [query EXCEPT ![q] = k], QueryOk(k, hits, chainHead, deploy),
             CacheOk(logCache', hits, chainHead, deploy), UNCHANGED <<deploy, hits, chainHead, head>>
      PROVE  LogsInv'
  <2>1. k \in QueryRecs
    BY <1>5 DEF QueryOk
  <2>2. query' \in [Queries -> QueryRecs] /\ \A p \in Queries : QueryOk(query'[p], hits, chainHead, deploy)
    BY <1>1, <1>5, <2>1
  <2> QED
    BY <1>0, <1>5, <2>2 DEF LogsInv
<1>6. ASSUME NEW q \in Queries, NEW e \in Endpoints, BeginQuery(q, e) PROVE LogsInv'
  <2>1. FromBlock(e) \in Nat /\ (deploy > 0 => FromBlock(e) = deploy)
    BY <1>0, EventLogsAssumptions DEF FromBlock
  <2> DEFINE k == [Blank EXCEPT !.st = "asking", !.from = FromBlock(e), !.cache = logCache]
  <2>2. k \in QueryRecs /\ k.st = "asking" /\ k.from = FromBlock(e) /\ k.cache = logCache
    <3>1. logCache \in CacheRecs
      BY <1>1 DEF CacheOk
    <3> QED
      BY <2>1, <3>1, BlankIs DEF QueryRecs
  <2>3. query' = [query EXCEPT ![q] = k] /\ UNCHANGED <<deploy, hits, chainHead, head, logCache>>
    BY <1>6 DEF BeginQuery
  <2> HIDE DEF k
  <2>4. QueryOk(k, hits, chainHead, deploy)
    BY <1>1, <2>1, <2>2 DEF QueryOk
  <2> QED
    BY <1>1, <1>5, <2>3, <2>4
<1>7. ASSUME NEW q \in Queries, QueryAnswers(q) PROVE LogsInv'
  <2>1. PICK to : to = head[query[q].at]
    OBVIOUS
  <2>2. PICK start : start = Min({query[q].from, to})
    OBVIOUS
  <2>3. PICK use : use = CanUseCache(q, start, to)
    OBVIOUS
  <2>4. PICK count : count = Collected(q, IncrementalStart(q, start, to), to, use)
    OBVIOUS
  <2>5. PICK low : low = IF use THEN Max({start, query[q].cache.low}) ELSE start
    OBVIOUS
  <2> DEFINE k == [Blank EXCEPT !.st = "answered", !.count = count, !.to = to, !.low = low]
             c == [synced |-> to, logs |-> Listed(count), low |-> low, known |-> TRUE]
  <2>6. /\ query[q].st = "asking" /\ query' = [query EXCEPT ![q] = k] /\ logCache' = c
        /\ UNCHANGED <<deploy, hits, chainHead, head>>
    BY <1>7, <2>1, <2>2, <2>3, <2>4, <2>5 DEF QueryAnswers
  <2>7. /\ to \in 1 .. chainHead /\ low \in Nat /\ count \in [1 .. MaxBlock -> Nat]
        /\ \A b \in Listed(count) : b \in 1 .. MaxBlock /\ b <= to
        /\ \A b \in Lower(low, deploy) .. to : count[b] = IF b \in hits THEN 1 ELSE 0
    <3>1. RightAnswer(to, low, count)
      BY <2>1, <2>2, <2>3, <2>4, <2>5, <2>6, AnswerListed
    <3> QED
      BY <3>1 DEF RightAnswer
  <2>71. to \in Nat /\ to <= chainHead
    BY <1>0, <2>7
  <2>8. /\ k \in QueryRecs /\ k.st = "answered" /\ k.count = count /\ k.to = to /\ k.low = low /\ k.cache = NoCache
    BY <2>7, <2>71, BlankIs DEF QueryRecs
  <2>9. to \in Nat /\ to <= chainHead /\ to \in 1 .. MaxBlock
    BY <1>0, <2>7
  <2>10. /\ c \in CacheRecs /\ c.synced = to /\ c.low = low /\ c.logs = Listed(count)
    BY <2>7, <2>9 DEF CacheRecs
  <2> HIDE DEF k, c
  <2>11. CacheOk(c, hits, chainHead, deploy)
    <3>1. \A b \in Lower(low, deploy) .. to : b \in Listed(count) <=> b \in hits
      BY <1>0, <2>7, <2>9, ListedIs
    <3> QED
      BY <2>7, <2>9, <2>10, <3>1 DEF CacheOk
  <2>12. CacheOk(NoCache, hits, chainHead, deploy)
    BY <1>0, BlankOk
  <2>13. QueryOk(k, hits, chainHead, deploy)
    BY <2>7, <2>8, <2>9, <2>12 DEF QueryOk
  <2> QED
    BY <1>5, <2>6, <2>11, <2>13
<1>8. ASSUME NEW q \in Queries, QueryFails(q) PROVE LogsInv'
  <2>0. PICK o : o = query[q]
    OBVIOUS
  <2>1. /\ o \in QueryRecs /\ o.st = "asking" /\ CacheOk(o.cache, hits, chainHead, deploy) /\ QueryOk(o, hits, chainHead, deploy)
        /\ (deploy > 0 => o.from = deploy) /\ o.from \in Nat /\ o.cache \in CacheRecs /\ o.at \in Endpoints
        /\ UNCHANGED <<deploy, hits, chainHead, head, logCache>>
    BY <1>1, <1>8, <2>0 DEF QueryFails, QueryOk, QueryRecs
  <2>2. CASE query' = [query EXCEPT ![q] = [o EXCEPT !.at = o.at + 1]] /\ o.at < Cardinality(Endpoints)
    <3>1. Cardinality(Endpoints) = 2
      <4>1. Endpoints = {1} \cup {2} /\ 2 \notin {1}
        BY DEF Endpoints
      <4>2. IsFiniteSet({1}) /\ Cardinality({1}) = 1
        BY FS_Singleton
      <4> QED
        BY <4>1, <4>2, FS_AddElement
    <3>2. o.at + 1 \in Endpoints
      BY <2>1, <2>2, <3>1 DEF Endpoints
    <3> DEFINE k == [o EXCEPT !.at = o.at + 1]
    <3>3. k \in QueryRecs /\ k.st = o.st /\ k.from = o.from /\ k.cache = o.cache
      BY <2>1, <3>2 DEF QueryRecs
    <3>4. query' = [query EXCEPT ![q] = k]
      BY <2>2
    <3> HIDE DEF k
    <3>5. QueryOk(k, hits, chainHead, deploy)
      BY <2>1, <3>3 DEF QueryOk
    <3> QED
      BY <1>1, <1>5, <2>1, <3>4, <3>5
  <2>3. PICK low : low = Max({o.from, o.cache.low})
    OBVIOUS
  <2>4. PICK count : count = [b \in 1 .. MaxBlock |-> IF b \in KeptLogs(q) THEN 1 ELSE 0]
    OBVIOUS
  <2> DEFINE k == [Blank EXCEPT !.st = "cached", !.to = o.cache.synced, !.low = low, !.count = count]
  <2>5. CASE query' = [query EXCEPT ![q] = k]
    <3>1. low \in Nat /\ o.from <= low /\ o.cache.low <= low /\ o.cache.synced \in Nat /\ o.cache.low \in Nat
      <4>1. o.cache.low \in Nat /\ o.cache.synced \in Nat
        BY <2>1 DEF CacheRecs
      <4>2. low = IF o.from <= o.cache.low THEN o.cache.low ELSE o.from
        BY <2>1, <2>3, <4>1, MaxOfTwo
      <4> QED
        BY <2>1, <4>1, <4>2
    <3>2. k \in QueryRecs /\ k.st = "cached" /\ k.to = o.cache.synced /\ k.low = low /\ k.count = count /\ k.cache = NoCache
      BY <2>4, <3>1, BlankIs DEF QueryRecs
    <3> HIDE DEF k
    <3>3. o.cache.synced <= chainHead
      BY <2>1 DEF CacheOk
    <3>4. ASSUME NEW b \in Lower(low, deploy) .. o.cache.synced PROVE count[b] = IF b \in hits THEN 1 ELSE 0
      <4>1. /\ Lower(low, deploy) \in Nat /\ 1 <= Lower(low, deploy)
            /\ (deploy > 0 => Lower(low, deploy) = deploy) /\ (deploy = 0 => low <= Lower(low, deploy))
        BY <1>0, <3>1, LowerIs
      <4>2. b \in Nat /\ b >= Lower(low, deploy) /\ b <= o.cache.synced /\ b \in 1 .. MaxBlock
        BY <1>0, <3>1, <3>3, <4>1
      <4>3. b >= o.from
        BY <1>0, <2>1, <3>1, <4>1, <4>2
      <4>4. Lower(o.cache.low, deploy) \in Nat /\ Lower(o.cache.low, deploy) <= b
        <5>1. CASE deploy > 0
          BY <1>0, <3>1, <4>1, <4>2, <5>1, LowerIs
        <5>2. CASE deploy = 0
          <6>1. Lower(o.cache.low, deploy) = Max({1, o.cache.low})
            BY <5>2 DEF Lower
          <6>2. Max({1, o.cache.low}) = IF 1 <= o.cache.low THEN o.cache.low ELSE 1
            BY <3>1, MaxOfTwo
          <6> QED
            BY <3>1, <4>1, <4>2, <5>2, <6>1, <6>2
        <5> QED
          BY <1>0, <5>1, <5>2
      <4>5. b \in Lower(o.cache.low, deploy) .. o.cache.synced
        BY <3>1, <4>2, <4>4
      <4>6. b \in o.cache.logs <=> b \in hits
        BY <2>1, <4>5 DEF CacheOk
      <4>7. KeptLogs(q) = {x \in o.cache.logs : x >= o.from}
        BY <2>0 DEF KeptLogs
      <4> QED
        BY <2>4, <4>2, <4>3, <4>6, <4>7
    <3>5. CacheOk(NoCache, hits, chainHead, deploy)
      BY <1>0, BlankOk
    <3>6. QueryOk(k, hits, chainHead, deploy)
      BY <3>2, <3>3, <3>4, <3>5 DEF QueryOk
    <3> QED
      BY <1>1, <1>5, <2>1, <2>5, <3>6
  <2>6. CASE query' = [query EXCEPT ![q] = Blank]
    <3>1. QueryOk(Blank, hits, chainHead, deploy)
      BY <1>0, BlankOk
    <3> QED
      BY <1>1, <1>5, <2>1, <2>6, <3>1
  <2>7. \/ query' = [query EXCEPT ![q] = [o EXCEPT !.at = o.at + 1]] /\ o.at < Cardinality(Endpoints)
        \/ query' = [query EXCEPT ![q] = k]
        \/ query' = [query EXCEPT ![q] = Blank]
    <3>1. query' = [query EXCEPT ![q] =
            IF o.at < Cardinality(Endpoints) THEN [o EXCEPT !.at = o.at + 1]
            ELSE IF KeptLogs(q) # {} THEN k ELSE Blank]
      <4>1. query' = [query EXCEPT ![q] =
               IF query[q].at < Cardinality(Endpoints) THEN [query[q] EXCEPT !.at = query[q].at + 1]
               ELSE IF KeptLogs(q) # {}
                    THEN [Blank EXCEPT !.st = "cached", !.to = query[q].cache.synced,
                                       !.low = Max({query[q].from, query[q].cache.low}),
                                       !.count = [b \in 1 .. MaxBlock |-> IF b \in KeptLogs(q) THEN 1 ELSE 0]]
                    ELSE Blank]
        BY <1>8, Zenon DEF QueryFails
      <4> QED
        BY <2>0, <2>3, <2>4, <4>1, Zenon
    <3> HIDE DEF k
    <3>2. CASE o.at < Cardinality(Endpoints)
      BY <3>1, <3>2
    <3>3. CASE ~(o.at < Cardinality(Endpoints)) /\ KeptLogs(q) # {}
      BY <3>1, <3>3
    <3>4. CASE ~(o.at < Cardinality(Endpoints)) /\ KeptLogs(q) = {}
      BY <3>1, <3>4
    <3> QED
      BY <3>2, <3>3, <3>4
  <2> QED
    BY <2>2, <2>5, <2>6, <2>7
<1> QED
  BY <1>2, <1>3, <1>4, <1>6, <1>7, <1>8 DEF LogsNext

\* Types, and every log once.
LEMMA LogsCorrect == LogsInv => LogsTypeOK /\ LogsListedOnce
<1> SUFFICES ASSUME LogsInv PROVE LogsTypeOK /\ LogsListedOnce
  OBVIOUS
<1>1. MaxBlock \in Nat /\ chainHead \in 1 .. MaxBlock /\ \A q \in Queries : QueryOk(query[q], hits, chainHead, deploy)
  BY EventLogsAssumptions DEF LogsInv
<1>2. LogsTypeOK
  <2>1. \A q \in Queries : query[q].st \in {"idle", "asking", "answered", "cached"}
    BY <1>1 DEF QueryOk, QueryRecs
  <2>2. logCache.logs \subseteq 1 .. MaxBlock /\ logCache.synced \in 0 .. MaxBlock
    BY <1>1 DEF LogsInv, CacheOk, CacheRecs
  <2>3. hits \subseteq 1 .. MaxBlock
    BY <1>1 DEF LogsInv
  <2> QED
    BY <1>1, <2>1, <2>2, <2>3 DEF LogsInv, LogsTypeOK
<1>3. LogsListedOnce
  BY <1>1 DEF QueryOk, Lower, LogsListedOnce
<1> QED
  BY <1>2, <1>3

-----------------------------------------------------------------------------
(* The views.                                                              *)

\* The places of s behind i.
After(s, i) == {j \in s : j > i}

\* There are finitely many, and fewer behind a later place or in a smaller list.
LEMMA AfterIs ==
    ASSUME NEW n \in Nat, NEW A \in SUBSET (1 .. n), NEW i \in Nat
    PROVE  /\ IsFiniteSet(A) /\ IsFiniteSet(After(A, i)) /\ Cardinality(After(A, i)) \in Nat
           /\ \A B \in SUBSET A, k \in Nat : i <= k =>
                 Cardinality(After(B, k)) \in Nat /\ Cardinality(After(B, k)) <= Cardinality(After(A, i))
<1>1. IsFiniteSet(1 .. n)
  BY FS_Interval
<1>2. IsFiniteSet(A)
  BY <1>1, FS_Subset
<1>3. After(A, i) \in SUBSET A
  BY DEF After
<1>4. IsFiniteSet(After(A, i)) /\ Cardinality(After(A, i)) \in Nat
  BY <1>2, <1>3, FS_Subset, FS_CardinalityType
<1>5. ASSUME NEW B \in SUBSET A, NEW k \in Nat, i <= k
      PROVE  Cardinality(After(B, k)) \in Nat /\ Cardinality(After(B, k)) <= Cardinality(After(A, i))
  <2>0. \A j \in B : j \in A /\ j \in Nat
    OBVIOUS
  <2>1. After(B, k) \in SUBSET After(A, i)
    <3> SUFFICES ASSUME NEW j \in After(B, k) PROVE j \in After(A, i)
      OBVIOUS
    <3>1. j \in B /\ j > k
      BY DEF After
    <3>2. j \in Nat /\ j \in A
      BY <2>0, <3>1
    <3>3. j > i
      BY <1>5, <3>1, <3>2
    <3> QED
      BY <3>2, <3>3 DEF After
  <2> QED
    BY <1>4, <2>1, FS_Subset, FS_CardinalityType
<1> QED
  BY <1>2, <1>4, <1>5

\* The newest places are the first ones behind which fewer than m lie.
LEMMA NewestIs == ASSUME NEW s, NEW m PROVE Newest(s, m) = {i \in s : Cardinality(After(s, i)) < m}
BY DEF Newest, After

\* slice(-m) leaves m places at most.
LEMMA NewestFit ==
    ASSUME NEW n \in Nat, NEW A \in SUBSET (1 .. n), NEW m \in Nat \ {0}
    PROVE  IsFiniteSet(Newest(A, m)) /\ Cardinality(Newest(A, m)) \in 0 .. m
<1>1. PICK B : B = Newest(A, m)
  OBVIOUS
<1>2. B \in SUBSET A /\ B \in SUBSET Nat /\ \A i \in B : Cardinality(After(A, i)) < m
  <2>1. B = {i \in A : Cardinality(After(A, i)) < m}
    BY <1>1, NewestIs
  <2>2. A \in SUBSET Nat
    OBVIOUS
  <2> QED
    BY <2>1, <2>2
<1>3. IsFiniteSet(A) /\ IsFiniteSet(B) /\ Cardinality(B) \in Nat
  <2>1. IsFiniteSet(A)
    BY AfterIs
  <2> QED
    BY <1>2, <2>1, FS_Subset, FS_CardinalityType
<1>4. CASE B = {}
  BY <1>1, <1>3, <1>4, FS_EmptySet
<1>5. CASE B # {}
  <2>1. PICK x \in B : \A y \in B : x <= y
    BY <1>2, <1>5, NatMin
  <2>2. x \in Nat /\ Cardinality(After(A, x)) < m
    BY <1>2
  <2>3. IsFiniteSet(After(A, x)) /\ Cardinality(After(A, x)) \in Nat
    BY <2>2, AfterIs
  <2>4. B \ {x} \in SUBSET After(A, x)
    BY <1>2, <2>1, <2>2 DEF After
  <2>5. IsFiniteSet(B \ {x}) /\ Cardinality(B \ {x}) = Cardinality(B) - 1
    BY <1>3, FS_RemoveElement
  <2>6. Cardinality(B \ {x}) <= Cardinality(After(A, x))
    BY <2>3, <2>4, FS_Subset
  <2> QED
    BY <1>1, <1>3, <2>2, <2>3, <2>5, <2>6
<1> QED
  BY <1>4, <1>5

\* Behind a place it leaves out it keeps m places.
LEMMA NewestFull ==
    ASSUME NEW n \in Nat, NEW A \in SUBSET (1 .. n), NEW m \in Nat \ {0}, NEW i \in Nat, m <= Cardinality(After(A, i))
    PROVE  m <= Cardinality(After(Newest(A, m), i))
<1> DEFINE W == {k \in Nat : Cardinality(After(A, k)) < m}
<1>1. n \in W
  <2>0. \A j \in A : j \in Nat /\ ~(j > n)
    OBVIOUS
  <2>1. After(A, n) = {}
    BY <2>0 DEF After
  <2> QED
    BY <2>1, FS_EmptySet
<1>2. PICK p \in W : \A k \in W : p <= k
  <2>1. W \in SUBSET Nat /\ W # {}
    BY <1>1
  <2> HIDE DEF W
  <2> QED
    BY <2>1, NatMin
<1>3. p \in Nat /\ Cardinality(After(A, p)) < m
  OBVIOUS
<1>4. i < p
  <2> SUFFICES ASSUME p <= i PROVE FALSE
    BY <1>3
  <2>1. /\ Cardinality(After(A, i)) <= Cardinality(After(A, p))
        /\ Cardinality(After(A, i)) \in Nat /\ Cardinality(After(A, p)) \in Nat
    BY <1>3, AfterIs
  <2> QED
    BY <1>3, <2>1
<1>5. PICK o \in Nat : p = o + 1 /\ i <= o
  <2>1. p - 1 \in Nat /\ p = (p - 1) + 1 /\ i <= p - 1
    BY <1>3, <1>4
  <2> QED
    BY <2>1
<1>6. m <= Cardinality(After(A, o))
  <2>1. o \notin W
    BY <1>2, <1>5
  <2>2. Cardinality(After(A, o)) \in Nat
    BY AfterIs
  <2> QED
    BY <2>1, <2>2
<1> HIDE DEF W
<1>7. After(A, o) \in SUBSET After(Newest(A, m), i)
  <2> SUFFICES ASSUME NEW j \in After(A, o) PROVE j \in After(Newest(A, m), i)
    OBVIOUS
  <2>1. j \in A /\ j \in Nat /\ j > o
    BY DEF After
  <2>2. p <= j /\ j > i
    BY <1>3, <1>5, <2>1
  <2>3. /\ Cardinality(After(A, j)) <= Cardinality(After(A, p))
        /\ Cardinality(After(A, j)) \in Nat /\ Cardinality(After(A, p)) \in Nat
    BY <1>3, <2>1, <2>2, AfterIs
  <2>4. Cardinality(After(A, j)) < m
    BY <1>3, <2>3
  <2>5. j \in Newest(A, m)
    BY <2>1, <2>4, NewestIs
  <2> QED
    BY <2>2, <2>5 DEF After
<1>8. IsFiniteSet(After(Newest(A, m), i))
  <2>1. IsFiniteSet(Newest(A, m))
    BY NewestFit
  <2>2. After(Newest(A, m), i) \in SUBSET Newest(A, m)
    BY DEF After
  <2> QED
    BY <2>1, <2>2, FS_Subset
<1>9. /\ Cardinality(After(A, o)) <= Cardinality(After(Newest(A, m), i))
      /\ Cardinality(After(A, o)) \in Nat /\ Cardinality(After(Newest(A, m), i)) \in Nat
  BY <1>7, <1>8, FS_Subset, FS_CardinalityType
<1> QED
  BY <1>6, <1>9


\* Behind a place a subset has no more members than the set.
LEMMA FewerAfter ==
    ASSUME NEW n \in Nat, NEW A \in SUBSET (1 .. n), NEW B \in SUBSET A, NEW i \in Nat
    PROVE  /\ Cardinality(After(B, i)) \in Nat /\ Cardinality(After(A, i)) \in Nat
           /\ Cardinality(After(B, i)) <= Cardinality(After(A, i))
<1>1. i <= i
  OBVIOUS
<1> QED
  BY <1>1, AfterIs

\* Looking at the tail of each kind of event loses none of the newest events.
LEMMA ActivityCorrect ==
    ASSUME NEW n \in Nat, DOMAIN events = 1 .. n
    PROVE  ActivityIsNewest
<1>0. Limit \in Nat \ {0} /\ PerEventTail \in Nat /\ Limit <= PerEventTail
  BY VaultViewsAssumptions
<1>1. PICK X : X = UNION {Candidates(name) : name \in Shown}
  OBVIOUS
<1>2. PICK Y : Y = Named(Shown)
  OBVIOUS
<1>3. Y \in SUBSET (1 .. n) /\ Y = UNION {Named({name}) : name \in Shown}
  BY <1>2 DEF Named
<1>4. X \in SUBSET Y
  <2>1. \A name \in Shown : Candidates(name) \subseteq Named({name})
    BY DEF Candidates, Newest
  <2> QED
    BY <1>1, <1>3, <2>1
<1>41. ASSUME NEW i \in Y PROVE i \in Nat /\ i \in 1 .. n
  <2>1. i \in 1 .. n
    BY <1>3, Zenon
  <2> QED
    BY <2>1
<1>5. Newest(Y, Limit) \in SUBSET X
  <2> SUFFICES ASSUME NEW i \in Newest(Y, Limit) PROVE i \in X
    OBVIOUS
  <2>1. i \in Y /\ Cardinality(After(Y, i)) < Limit
    BY NewestIs
  <2>2. i \in Nat
    BY <1>41, <2>1
  <2>3. PICK name \in Shown : i \in Named({name})
    BY <1>3, <2>1
  <2>4. PICK Z : Z = Named({name})
    OBVIOUS
  <2>5. Z \in SUBSET Y
    BY <1>3, <2>4
  <2>6. /\ Cardinality(After(Z, i)) \in Nat /\ Cardinality(After(Y, i)) \in Nat
        /\ Cardinality(After(Z, i)) <= Cardinality(After(Y, i))
    BY <1>3, <2>2, <2>5, FewerAfter
  <2>7. Cardinality(After(Z, i)) < PerEventTail
    BY <1>0, <2>1, <2>6
  <2>8. i \in Newest(Z, PerEventTail)
    BY <2>3, <2>4, <2>7, NewestIs
  <2> QED
    BY <1>1, <2>4, <2>8 DEF Candidates
<1>6. ASSUME NEW i \in Newest(Y, Limit) PROVE i \in Newest(X, Limit)
  <2>1. i \in Y /\ i \in X /\ i \in Nat /\ Cardinality(After(Y, i)) < Limit
    BY <1>41, <1>5, NewestIs
  <2>2. /\ Cardinality(After(X, i)) \in Nat /\ Cardinality(After(Y, i)) \in Nat
        /\ Cardinality(After(X, i)) <= Cardinality(After(Y, i))
    BY <1>3, <1>4, <2>1, FewerAfter
  <2>3. Cardinality(After(X, i)) < Limit
    BY <1>0, <2>1, <2>2
  <2> QED
    BY <2>1, <2>3, NewestIs
<1>7. ASSUME NEW i \in Newest(X, Limit) PROVE i \in Newest(Y, Limit)
  <2>1. i \in X /\ i \in Y /\ i \in Nat /\ Cardinality(After(X, i)) < Limit
    BY <1>4, <1>41, NewestIs
  <2>2. Cardinality(After(Y, i)) \in Nat /\ IsFiniteSet(Y)
    BY <1>3, <2>1, AfterIs
  <2>3. Cardinality(After(Y, i)) < Limit
    <3> SUFFICES ASSUME Limit <= Cardinality(After(Y, i)) PROVE FALSE
      BY <1>0, <2>2
    <3>1. Limit <= Cardinality(After(Newest(Y, Limit), i))
      BY <1>0, <1>3, <2>1, NewestFull
    <3>2. X \in SUBSET (1 .. n)
      BY <1>3, <1>4
    <3>3. /\ Cardinality(After(Newest(Y, Limit), i)) \in Nat /\ Cardinality(After(X, i)) \in Nat
          /\ Cardinality(After(Newest(Y, Limit), i)) <= Cardinality(After(X, i))
      BY <1>5, <2>1, <3>2, FewerAfter
    <3> QED
      BY <1>0, <2>1, <3>1, <3>3
  <2> QED
    BY <2>1, <2>3, NewestIs
<1>8. Newest(X, Limit) = Newest(Y, Limit)
  BY <1>6, <1>7
<1> QED
  BY <1>1, <1>2, <1>8 DEF ActivityIsNewest, RecentActivity

\* The lists of pending approvals: the first list that is full of newer ones.
LEMMA NewestOrFull ==
    ASSUME NEW n \in Nat, NEW A \in SUBSET (1 .. n), NEW m \in Nat \ {0}, NEW i \in A
    PROVE  i \in Newest(A, m) \/ Cardinality(After(Newest(A, m), i)) = m
<1>1. i \in Nat
  OBVIOUS
<1>2. Cardinality(After(A, i)) \in Nat
  BY <1>1, AfterIs
<1>3. CASE Cardinality(After(A, i)) < m
  BY <1>3, NewestIs
<1>4. CASE m <= Cardinality(After(A, i))
  <2>1. m <= Cardinality(After(Newest(A, m), i))
    BY <1>1, <1>4, NewestFull
  <2>2. IsFiniteSet(Newest(A, m)) /\ Cardinality(Newest(A, m)) \in 0 .. m
    BY NewestFit
  <2>3. After(Newest(A, m), i) \in SUBSET Newest(A, m)
    BY DEF After
  <2>4. /\ Cardinality(After(Newest(A, m), i)) \in Nat
        /\ Cardinality(After(Newest(A, m), i)) <= Cardinality(Newest(A, m))
    BY <2>2, <2>3, FS_Subset, FS_CardinalityType
  <2>5. Cardinality(After(Newest(A, m), i)) = m
    BY <2>1, <2>2, <2>4
  <2> QED
    BY <2>5
<1> QED
  BY <1>2, <1>3, <1>4

EventRecs == [name : Shown \cup {"GuardianAdded"}, id : Nat, who : Accounts]
VaultRecs == [creator : Accounts, guardians : SUBSET Accounts]
PassRecs == [vault : Nat, owner : Accounts \cup {Burned}]
AskRecs == [doc : Nat, approved : SUBSET Accounts, open : BOOLEAN]
Memos == (SUBSET Accounts) \cup {Uncached}

ViewsTypes ==
    /\ events \in Seq(EventRecs) /\ Len(events) <= MaxEvents
    /\ vault \in Seq(VaultRecs) /\ pass \in Seq(PassRecs) /\ doc \in Seq(Nat) /\ ask \in Seq(AskRecs)
    /\ vaultCache \in Seq(Memos) /\ Len(vaultCache) = Len(vault)

\* Passes and documents belong to vaults, requests to documents.
LinksInv ==
    /\ \A t \in DOMAIN pass : pass[t].vault \in DOMAIN vault
    /\ \A d \in DOMAIN doc : doc[d] \in DOMAIN vault
    /\ \A r \in DOMAIN ask : ask[r].doc \in DOMAIN doc

\* The events of one kind have the ids of its records, all of them.
Numbered(ev, name, ids) ==
    /\ \A i \in DOMAIN ev : ev[i].name = name => ev[i].id \in ids
    /\ \A k \in ids : \E i \in DOMAIN ev : ev[i].name = name /\ ev[i].id = k

\* The four kinds together.
AllNumbered(ev, vs, ps, ds, rs) ==
    /\ Numbered(ev, "VaultCreated", vs) /\ Numbered(ev, "NFTMinted", ps)
    /\ Numbered(ev, "DocumentAdded", ds) /\ Numbered(ev, "AccessRequested", rs)

\* The creator and every guardian of vault v are in the log.
OnRecord(ev, v, rec) ==
    /\ \E i \in DOMAIN ev : ev[i] = Event("VaultCreated", v, rec.creator)
    /\ \A g \in rec.guardians : \E i \in DOMAIN ev : ev[i] = Event("GuardianAdded", v, g)

\* The places of the requests, and behind each as many as there are later requests.
AskedAt(ev) == {i \in DOMAIN ev : ev[i].name = "AccessRequested"}
Ranked(ev, n) == \A i \in AskedAt(ev) : Cardinality(After(AskedAt(ev), i)) = n - ev[i].id

LogInv ==
    /\ AllNumbered(events, DOMAIN vault, DOMAIN pass, DOMAIN doc, DOMAIN ask)
    /\ \A i \in DOMAIN events : events[i].name = "GuardianAdded" => events[i].id \in DOMAIN vault
    /\ \A v \in DOMAIN vault : OnRecord(events, v, vault[v])
    /\ Ranked(events, Len(ask))

\* A cached vault has the account among the guardians when the contract has.
MemoOk(memo, rec) == memo = Uncached \/ (Me \in rec.guardians => Me \in memo)
MemoInv == \A v \in DOMAIN vault : MemoOk(vaultCache[v], vault[v])

ViewsInv == ViewsTypes /\ LinksInv /\ LogInv /\ MemoInv

\* Initially nothing was recorded.
LEMMA ViewsInitial == ViewsInit => ViewsInv
<1> SUFFICES ASSUME ViewsInit PROVE ViewsInv
  OBVIOUS
<1>1. /\ events = <<>> /\ vault = <<>> /\ pass = <<>> /\ doc = <<>> /\ ask = <<>> /\ vaultCache = <<>>
      /\ MaxEvents \in Nat
  BY VaultViewsAssumptions DEF ViewsInit
<1>2. \A S : <<>> \in Seq(S) /\ Len(<<>>) = 0 /\ DOMAIN <<>> = {}
  OBVIOUS
<1>3. ViewsTypes
  BY <1>1, <1>2 DEF ViewsTypes
<1>4. LinksInv /\ MemoInv
  BY <1>1, <1>2 DEF LinksInv, MemoInv
<1>5. LogInv
  BY <1>1, <1>2 DEF LogInv, AllNumbered, Numbered, Ranked, AskedAt
<1> QED
  BY <1>3, <1>4, <1>5 DEF ViewsInv

\* What the log has after an event.
Emitted(e) ==
    /\ events' \in Seq(EventRecs) /\ Len(events') <= MaxEvents
    /\ DOMAIN events' = DOMAIN events \cup {Len(events) + 1} /\ Len(events) + 1 \notin DOMAIN events
    /\ \A i \in DOMAIN events : events'[i] = events[i] /\ i < Len(events) + 1
    /\ events'[Len(events) + 1] = e

\* An event is added at the end of the log.
LEMMA EmitIs ==
    ASSUME ViewsTypes, NEW name \in Shown \cup {"GuardianAdded"}, NEW id \in Nat, NEW who \in Accounts,
           Emit(Event(name, id, who))
    PROVE  Emitted(Event(name, id, who))
<1>1. PICK e \in EventRecs : e = Event(name, id, who)
  BY DEF Event, EventRecs
<1>2. events' = Append(events, e) /\ Len(events) < MaxEvents /\ events \in Seq(EventRecs) /\ MaxEvents \in Nat
  BY <1>1, VaultViewsAssumptions DEF Emit, ViewsTypes
<1>3. /\ Append(events, e) \in Seq(EventRecs) /\ DOMAIN Append(events, e) = DOMAIN events \cup {Len(events) + 1}
      /\ Len(events) + 1 \notin DOMAIN events
      /\ \A i \in DOMAIN events : Append(events, e)[i] = events[i] /\ events[i] \in EventRecs
      /\ Append(events, e)[Len(events) + 1] = e
  BY <1>2, OneMoreRow
<1>4. Len(events') = Len(events) + 1 /\ Len(events) \in Nat /\ DOMAIN events = 1 .. Len(events)
  BY <1>2
<1>5. Len(events') <= MaxEvents
  BY <1>2, <1>4
<1>6. \A i \in DOMAIN events : i < Len(events) + 1
  BY <1>4
<1> QED
  BY <1>1, <1>2, <1>3, <1>5, <1>6 DEF Emitted

\* An event of another kind changes nothing of a kind; one of the kind itself
\* adds its id.
LEMMA StillNumbered ==
    ASSUME NEW name, NEW id, NEW who, Emitted(Event(name, id, who)), NEW kind, NEW ids, Numbered(events, kind, ids)
    PROVE  /\ kind # name => Numbered(events', kind, ids)
           /\ kind = name => Numbered(events', kind, ids \cup {id})
<1>1. Event(name, id, who).name = name /\ Event(name, id, who).id = id
  BY DEF Event
<1>2. kind # name => Numbered(events', kind, ids)
  BY <1>1 DEF Emitted, Numbered
<1>3. kind = name => Numbered(events', kind, ids \cup {id})
  BY <1>1 DEF Emitted, Numbered
<1> QED
  BY <1>2, <1>3

\* So for the four kinds together.
LEMMA KindsNumbered ==
    ASSUME NEW name, NEW id, NEW who, Emitted(Event(name, id, who)), NEW vs, NEW ps, NEW ds, NEW rs,
           AllNumbered(events, vs, ps, ds, rs)
    PROVE  /\ name = "VaultCreated" => AllNumbered(events', vs \cup {id}, ps, ds, rs)
           /\ name = "NFTMinted" => AllNumbered(events', vs, ps \cup {id}, ds, rs)
           /\ name = "DocumentAdded" => AllNumbered(events', vs, ps, ds \cup {id}, rs)
           /\ name = "AccessRequested" => AllNumbered(events', vs, ps, ds, rs \cup {id})
           /\ name = "GuardianAdded" => AllNumbered(events', vs, ps, ds, rs)
<1>1. /\ IF "VaultCreated" = name THEN Numbered(events', "VaultCreated", vs \cup {id}) ELSE Numbered(events', "VaultCreated", vs)
      /\ IF "NFTMinted" = name THEN Numbered(events', "NFTMinted", ps \cup {id}) ELSE Numbered(events', "NFTMinted", ps)
      /\ IF "DocumentAdded" = name THEN Numbered(events', "DocumentAdded", ds \cup {id})
         ELSE Numbered(events', "DocumentAdded", ds)
      /\ IF "AccessRequested" = name THEN Numbered(events', "AccessRequested", rs \cup {id})
         ELSE Numbered(events', "AccessRequested", rs)
  BY StillNumbered DEF AllNumbered
<1> QED
  BY <1>1 DEF AllNumbered

\* What was in the log stays in it.
LEMMA StillOnRecord ==
    ASSUME NEW e, Emitted(e), NEW v, NEW rec, OnRecord(events, v, rec)
    PROVE  OnRecord(events', v, rec)
BY DEF Emitted, OnRecord

\* The ranks of the requests.
LEMMA StillRanked ==
    ASSUME ViewsTypes, NEW name, NEW id \in Nat, NEW who, Emitted(Event(name, id, who)),
           NEW n \in Nat, Ranked(events, n)
    PROVE  /\ name # "AccessRequested" => Ranked(events', n)
           /\ name = "AccessRequested" /\ id = n + 1 => Ranked(events', n + 1)
<1>1. Event(name, id, who).name = name /\ Event(name, id, who).id = id
  BY DEF Event
<1>2. PICK top \in Nat : top = Len(events) + 1
  BY DEF ViewsTypes
<1>3. /\ DOMAIN events' = DOMAIN events \cup {top} /\ top \notin DOMAIN events
      /\ \A i \in DOMAIN events : events'[i] = events[i] /\ i < top
      /\ events'[top].name = name /\ events'[top].id = id
  BY <1>1, <1>2 DEF Emitted
<1>4. /\ DOMAIN events = 1 .. Len(events) /\ Len(events) \in Nat
      /\ \A i \in DOMAIN events : i \in Nat /\ events[i].id \in Nat
  <2>1. events \in Seq(EventRecs)
    BY DEF ViewsTypes
  <2>2. DOMAIN events = 1 .. Len(events) /\ Len(events) \in Nat /\ \A i \in DOMAIN events : events[i] \in EventRecs
    BY <2>1
  <2> QED
    BY <2>2 DEF EventRecs
<1>5. ASSUME name # "AccessRequested" PROVE Ranked(events', n)
  <2>1. AskedAt(events') = AskedAt(events)
    BY <1>3, <1>5 DEF AskedAt
  <2>2. \A i \in AskedAt(events) : events'[i] = events[i]
    BY <1>3 DEF AskedAt
  <2> QED
    BY <2>1, <2>2 DEF Ranked
<1>6. ASSUME name = "AccessRequested", id = n + 1 PROVE Ranked(events', n + 1)
  <2>1. AskedAt(events') = AskedAt(events) \cup {top}
    BY <1>3, <1>6 DEF AskedAt
  <2>2. AskedAt(events) \in SUBSET (1 .. Len(events)) /\ top \notin AskedAt(events)
    BY <1>3, <1>4 DEF AskedAt
  <2>3. ASSUME NEW i \in AskedAt(events') PROVE Cardinality(After(AskedAt(events'), i)) = (n + 1) - events'[i].id
    <3>1. CASE i \in AskedAt(events)
      <4>1. i \in DOMAIN events /\ i \in Nat /\ i < top /\ events'[i].id = events[i].id /\ events[i].id \in Nat
        BY <1>3, <1>4, <3>1 DEF AskedAt
      <4>2. After(AskedAt(events'), i) = After(AskedAt(events), i) \cup {top}
        BY <2>1, <4>1 DEF After
      <4>3. IsFiniteSet(After(AskedAt(events), i)) /\ top \notin After(AskedAt(events), i)
        <5>1. IsFiniteSet(After(AskedAt(events), i))
          BY <1>4, <2>2, <4>1, AfterIs
        <5> QED
          BY <2>2, <5>1 DEF After
      <4>4. Cardinality(After(AskedAt(events'), i)) = Cardinality(After(AskedAt(events), i)) + 1
        BY <4>2, <4>3, FS_AddElement
      <4>5. Cardinality(After(AskedAt(events), i)) = n - events[i].id
        BY <3>1 DEF Ranked
      <4> QED
        BY <4>1, <4>4, <4>5
    <3>2. CASE i = top
      <4>1. After(AskedAt(events'), i) = {}
        <5>1. \A j \in AskedAt(events') : j \in Nat /\ ~(j > top)
          BY <1>2, <1>3, <1>4, <2>1 DEF AskedAt
        <5> QED
          BY <3>2, <5>1 DEF After
      <4>2. Cardinality(After(AskedAt(events'), i)) = 0
        BY <4>1, FS_EmptySet
      <4> QED
        BY <1>3, <1>6, <3>2, <4>2
    <3> QED
      BY <2>1, <3>1, <3>2
  <2> QED
    BY <2>3 DEF Ranked
<1> QED
  BY <1>5, <1>6

\* A new vault.
LEMMA VaultAdded == ASSUME ViewsInv, NEW a \in Accounts, VaultCreated(a) PROVE ViewsInv'
<1> DEFINE rec == [creator |-> a, guardians |-> {}]
<1>1. /\ Emit(Event("VaultCreated", Len(vault) + 1, a)) /\ vault' = Append(vault, rec)
      /\ vaultCache' = Append(vaultCache, Uncached) /\ UNCHANGED <<pass, doc, ask>>
  BY DEF VaultCreated
<1>2. ViewsTypes /\ LinksInv /\ LogInv /\ MemoInv
  BY DEF ViewsInv
<1>3. vault \in Seq(VaultRecs) /\ vaultCache \in Seq(Memos) /\ Len(vaultCache) = Len(vault) /\ Len(vault) \in Nat
  BY <1>2 DEF ViewsTypes
<1>4. rec \in VaultRecs /\ rec.creator = a /\ rec.guardians = {} /\ Uncached \in Memos
  BY DEF VaultRecs, Memos
<1>5. Emitted(Event("VaultCreated", Len(vault) + 1, a))
  BY <1>1, <1>2, <1>3, EmitIs DEF Shown
<1> HIDE DEF rec
<1>6. PICK v \in Nat : v = Len(vault) + 1
  BY <1>3
<1>7. /\ vault' \in Seq(VaultRecs) /\ DOMAIN vault' = DOMAIN vault \cup {v} /\ v \notin DOMAIN vault
      /\ \A i \in DOMAIN vault : vault'[i] = vault[i]
      /\ vault'[v] = rec
  BY <1>1, <1>3, <1>4, <1>6, OneMoreRow
<1>8. /\ vaultCache' \in Seq(Memos)
      /\ \A i \in DOMAIN vaultCache : vaultCache'[i] = vaultCache[i]
      /\ vaultCache'[v] = Uncached
  BY <1>1, <1>3, <1>4, <1>6, OneMoreRow
<1>9. Len(vault') = Len(vault) + 1 /\ Len(vaultCache') = Len(vaultCache) + 1 /\ DOMAIN vaultCache = DOMAIN vault
  BY <1>1, <1>3, <1>4
<1>10. ViewsTypes'
  BY <1>1, <1>2, <1>3, <1>5, <1>7, <1>8, <1>9 DEF ViewsTypes, Emitted
<1>11. LinksInv'
  BY <1>1, <1>2, <1>7 DEF LinksInv
<1>12. MemoInv'
  BY <1>2, <1>7, <1>8, <1>9 DEF MemoInv, MemoOk
<1>13. AllNumbered(events', DOMAIN vault', DOMAIN pass', DOMAIN doc', DOMAIN ask')
  <2>1. AllNumbered(events, DOMAIN vault, DOMAIN pass, DOMAIN doc, DOMAIN ask)
    BY <1>2 DEF LogInv
  <2>2. AllNumbered(events', DOMAIN vault \cup {v}, DOMAIN pass, DOMAIN doc, DOMAIN ask)
    BY <1>5, <1>6, <2>1, KindsNumbered
  <2> QED
    BY <1>1, <1>7, <2>2
<1>14. \A i \in DOMAIN events' : events'[i].name = "GuardianAdded" => events'[i].id \in DOMAIN vault'
  BY <1>2, <1>5, <1>7 DEF LogInv, Emitted, Event
<1>15. ASSUME NEW w \in DOMAIN vault' PROVE OnRecord(events', w, vault'[w])
  <2>1. CASE w \in DOMAIN vault
    BY <1>2, <1>5, <1>7, <2>1, StillOnRecord DEF LogInv
  <2>2. CASE w = v
    <3>1. events'[Len(events) + 1] = Event("VaultCreated", w, a) /\ Len(events) + 1 \in DOMAIN events'
      BY <1>5, <1>6, <2>2 DEF Emitted
    <3> QED
      BY <1>4, <1>7, <2>2, <3>1 DEF OnRecord
  <2> QED
    BY <1>7, <2>1, <2>2
<1>16. Ranked(events', Len(ask)')
  <2>1. Len(ask) \in Nat
    BY <1>2 DEF ViewsTypes
  <2> QED
    BY <1>1, <1>2, <1>3, <1>5, <2>1, StillRanked DEF LogInv
<1>17. LogInv'
  BY <1>13, <1>14, <1>15, <1>16 DEF LogInv
<1> QED
  BY <1>10, <1>11, <1>12, <1>17 DEF ViewsInv

\* A new guardian: its own acceptance clears the cached vault.
LEMMA GuardianJoins ==
    ASSUME ViewsInv, NEW v \in DOMAIN vault, NEW a \in Accounts, InviteAccepted(v, a),
           \/ vaultCache' = [vaultCache EXCEPT ![v] = Uncached]
           \/ a # Me /\ UNCHANGED vaultCache
    PROVE  ViewsInv'
<1>2. ViewsTypes /\ LinksInv /\ LogInv /\ MemoInv
  BY DEF ViewsInv
<1>3. /\ vault \in Seq(VaultRecs) /\ vaultCache \in Seq(Memos) /\ Len(vaultCache) = Len(vault) /\ Len(vault) \in Nat
      /\ DOMAIN vaultCache = DOMAIN vault /\ v \in Nat
  BY <1>2 DEF ViewsTypes
<1>4. PICK rec : rec = [vault[v] EXCEPT !.guardians = @ \cup {a}]
  OBVIOUS
<1>5. /\ vault[v] \in VaultRecs /\ rec \in VaultRecs /\ rec.creator = vault[v].creator
      /\ rec.guardians = vault[v].guardians \cup {a}
  <2>1. vault[v] \in VaultRecs
    BY <1>3
  <2> QED
    BY <1>4, <2>1 DEF VaultRecs
<1>6. Emit(Event("GuardianAdded", v, a)) /\ vault' = [vault EXCEPT ![v] = rec] /\ UNCHANGED <<pass, doc, ask>>
  BY <1>4 DEF InviteAccepted
<1>7. Emitted(Event("GuardianAdded", v, a))
  BY <1>2, <1>3, <1>6, EmitIs
<1>8. /\ vault' \in Seq(VaultRecs) /\ DOMAIN vault' = DOMAIN vault /\ Len(vault') = Len(vault)
      /\ vault'[v] = rec /\ \A i \in DOMAIN vault \ {v} : vault'[i] = vault[i]
  BY <1>3, <1>5, <1>6, OneRowReplaced
<1>9. /\ vaultCache' \in Seq(Memos) /\ Len(vaultCache') = Len(vaultCache)
      /\ (vaultCache'[v] = Uncached \/ (a # Me /\ vaultCache'[v] = vaultCache[v]))
      /\ \A i \in DOMAIN vault \ {v} : vaultCache'[i] = vaultCache[i]
  <2>1. CASE vaultCache' = [vaultCache EXCEPT ![v] = Uncached]
    <3>1. Uncached \in Memos
      BY DEF Memos
    <3> QED
      BY <1>3, <2>1, <3>1, OneRowReplaced
  <2>2. CASE a # Me /\ UNCHANGED vaultCache
    BY <1>3, <2>2
  <2> QED
    BY <2>1, <2>2
<1>10. ViewsTypes'
  BY <1>2, <1>3, <1>6, <1>7, <1>8, <1>9 DEF ViewsTypes, Emitted
<1>11. LinksInv'
  BY <1>2, <1>6, <1>8 DEF LinksInv
<1>12. MemoInv'
  BY <1>2, <1>5, <1>8, <1>9 DEF MemoInv, MemoOk
<1>13. AllNumbered(events', DOMAIN vault', DOMAIN pass', DOMAIN doc', DOMAIN ask')
  <2>1. AllNumbered(events, DOMAIN vault, DOMAIN pass, DOMAIN doc, DOMAIN ask)
    BY <1>2 DEF LogInv
  <2>2. AllNumbered(events', DOMAIN vault, DOMAIN pass, DOMAIN doc, DOMAIN ask)
    BY <1>7, <2>1, KindsNumbered
  <2> QED
    BY <1>6, <1>8, <2>2
<1>14. \A i \in DOMAIN events' : events'[i].name = "GuardianAdded" => events'[i].id \in DOMAIN vault'
  BY <1>2, <1>7, <1>8 DEF LogInv, Emitted, Event
<1>15. ASSUME NEW w \in DOMAIN vault' PROVE OnRecord(events', w, vault'[w])
  <2>1. OnRecord(events', w, vault[w])
    BY <1>2, <1>7, <1>8, StillOnRecord DEF LogInv
  <2>2. CASE w # v
    BY <1>8, <2>1, <2>2
  <2>3. CASE w = v
    <3>1. events'[Len(events) + 1] = Event("GuardianAdded", w, a) /\ Len(events) + 1 \in DOMAIN events'
      BY <1>7, <2>3 DEF Emitted
    <3> QED
      BY <1>5, <1>8, <2>1, <2>3, <3>1 DEF OnRecord
  <2> QED
    BY <2>2, <2>3
<1>16. Ranked(events', Len(ask)')
  <2>1. Len(ask) \in Nat
    BY <1>2 DEF ViewsTypes
  <2> QED
    <3>1. Ranked(events, Len(ask))
      BY <1>2 DEF LogInv
    <3>2. Ranked(events', Len(ask))
      BY <1>2, <1>3, <1>7, <2>1, <3>1, StillRanked
    <3> QED
      BY <1>6, <3>2
<1>17. LogInv'
  BY <1>13, <1>14, <1>15, <1>16 DEF LogInv
<1> QED
  BY <1>10, <1>11, <1>12, <1>17 DEF ViewsInv

\* A guardian less.
LEMMA GuardianLeaves == ASSUME ViewsInv, NEW v \in DOMAIN vault, NEW a \in Accounts, GuardianRemoved(v, a) PROVE ViewsInv'
<1>2. ViewsTypes /\ LinksInv /\ LogInv /\ MemoInv
  BY DEF ViewsInv
<1>3. vault \in Seq(VaultRecs)
  BY <1>2 DEF ViewsTypes
<1>4. PICK rec : rec = [vault[v] EXCEPT !.guardians = @ \ {a}]
  OBVIOUS
<1>5. /\ vault[v] \in VaultRecs /\ rec \in VaultRecs /\ rec.creator = vault[v].creator
      /\ rec.guardians = vault[v].guardians \ {a}
  <2>1. vault[v] \in VaultRecs
    BY <1>3
  <2> QED
    BY <1>4, <2>1 DEF VaultRecs
<1>6. vault' = [vault EXCEPT ![v] = rec] /\ UNCHANGED <<events, pass, doc, ask, vaultCache>>
  BY <1>4 DEF GuardianRemoved
<1>8. /\ vault' \in Seq(VaultRecs) /\ DOMAIN vault' = DOMAIN vault /\ Len(vault') = Len(vault)
      /\ vault'[v] = rec /\ \A i \in DOMAIN vault \ {v} : vault'[i] = vault[i]
  BY <1>3, <1>5, <1>6, OneRowReplaced
<1>10. ViewsTypes'
  BY <1>2, <1>6, <1>8 DEF ViewsTypes
<1>11. LinksInv'
  BY <1>2, <1>6, <1>8 DEF LinksInv
<1>12. MemoInv'
  BY <1>2, <1>5, <1>6, <1>8 DEF MemoInv, MemoOk
<1>13. ASSUME NEW w \in DOMAIN vault' PROVE OnRecord(events, w, vault'[w])
  <2>1. OnRecord(events, w, vault[w])
    BY <1>2, <1>8 DEF LogInv
  <2>2. CASE w # v
    BY <1>8, <2>1, <2>2
  <2>3. CASE w = v
    BY <1>5, <1>8, <2>1, <2>3 DEF OnRecord
  <2> QED
    BY <2>2, <2>3
<1>14. LogInv'
  BY <1>2, <1>6, <1>8, <1>13 DEF LogInv
<1> QED
  BY <1>10, <1>11, <1>12, <1>14 DEF ViewsInv

\* A new pass, document or request: the record and its event.
LEMMA RecordAdded ==
    ASSUME ViewsInv, NEW name \in {"NFTMinted", "DocumentAdded", "AccessRequested"}, NEW id \in Nat, NEW a \in Accounts,
           Emit(Event(name, id, a)), UNCHANGED <<vault, vaultCache>>,
           pass' \in Seq(PassRecs), doc' \in Seq(Nat), ask' \in Seq(AskRecs), LinksInv',
           DOMAIN pass' = IF name = "NFTMinted" THEN DOMAIN pass \cup {id} ELSE DOMAIN pass,
           DOMAIN doc' = IF name = "DocumentAdded" THEN DOMAIN doc \cup {id} ELSE DOMAIN doc,
           DOMAIN ask' = IF name = "AccessRequested" THEN DOMAIN ask \cup {id} ELSE DOMAIN ask,
           IF name = "AccessRequested" THEN id = Len(ask) + 1 /\ Len(ask') = Len(ask) + 1 ELSE Len(ask') = Len(ask)
    PROVE  ViewsInv'
<1>1. ViewsTypes /\ LinksInv /\ LogInv /\ MemoInv
  BY DEF ViewsInv
<1>2. Emitted(Event(name, id, a))
  BY <1>1, EmitIs DEF Shown
<1>3. ViewsTypes'
  BY <1>1, <1>2 DEF ViewsTypes, Emitted
<1>4. MemoInv'
  BY <1>1 DEF MemoInv
<1>5. AllNumbered(events', DOMAIN vault', DOMAIN pass', DOMAIN doc', DOMAIN ask')
  <2>1. AllNumbered(events, DOMAIN vault, DOMAIN pass, DOMAIN doc, DOMAIN ask)
    BY <1>1 DEF LogInv
  <2>2. /\ name = "NFTMinted" => AllNumbered(events', DOMAIN vault, DOMAIN pass \cup {id}, DOMAIN doc, DOMAIN ask)
        /\ name = "DocumentAdded" => AllNumbered(events', DOMAIN vault, DOMAIN pass, DOMAIN doc \cup {id}, DOMAIN ask)
        /\ name = "AccessRequested" => AllNumbered(events', DOMAIN vault, DOMAIN pass, DOMAIN doc, DOMAIN ask \cup {id})
    BY <1>2, <2>1, KindsNumbered
  <2> QED
    BY <2>2
<1>6. \A i \in DOMAIN events' : events'[i].name = "GuardianAdded" => events'[i].id \in DOMAIN vault'
  BY <1>1, <1>2 DEF LogInv, Emitted, Event
<1>7. ASSUME NEW w \in DOMAIN vault' PROVE OnRecord(events', w, vault'[w])
  BY <1>1, <1>2, StillOnRecord DEF LogInv
<1>8. Ranked(events', Len(ask)')
  <2>1. PICK n \in Nat : n = Len(ask)
    BY <1>1 DEF ViewsTypes
  <2>2. Ranked(events, n)
    BY <1>1, <2>1 DEF LogInv
  <2>3. /\ name # "AccessRequested" => Ranked(events', n)
        /\ name = "AccessRequested" /\ id = n + 1 => Ranked(events', n + 1)
    BY <1>1, <1>2, <2>2, StillRanked
  <2>4. CASE name = "AccessRequested"
    BY <2>1, <2>3, <2>4
  <2>5. CASE name # "AccessRequested"
    BY <2>1, <2>3, <2>5
  <2> QED
    BY <2>4, <2>5
<1>9. LogInv'
  BY <1>5, <1>6, <1>7, <1>8 DEF LogInv
<1> QED
  BY <1>3, <1>4, <1>9 DEF ViewsInv

\* Minting a pass, adding a document and asking for access.
LEMMA RecordSteps ==
    ASSUME ViewsInv
    PROVE  /\ \A v \in DOMAIN vault, a \in Accounts : PassMinted(v, a) \/ DocumentAdded(v, a) => ViewsInv'
           /\ \A d \in DOMAIN doc, a \in Accounts : AccessRequested(d, a) => ViewsInv'
<1>1. /\ ViewsTypes /\ LinksInv
      /\ vault \in Seq(VaultRecs) /\ pass \in Seq(PassRecs) /\ doc \in Seq(Nat) /\ ask \in Seq(AskRecs)
  BY DEF ViewsInv, ViewsTypes
<1>2. ASSUME NEW v \in DOMAIN vault, NEW a \in Accounts, PassMinted(v, a) PROVE ViewsInv'
  <2>1. PICK e : e = [vault |-> v, owner |-> a]
    OBVIOUS
  <2>2. e \in PassRecs /\ e.vault = v /\ v \in Nat
    BY <1>1, <2>1 DEF PassRecs
  <2>3. /\ Emit(Event("NFTMinted", Len(pass) + 1, a)) /\ pass' = Append(pass, e)
        /\ UNCHANGED <<vault, doc, ask, vaultCache>>
    BY <1>2, <2>1 DEF PassMinted
  <2>4. /\ pass' \in Seq(PassRecs) /\ DOMAIN pass' = DOMAIN pass \cup {Len(pass) + 1} /\ Len(pass) + 1 \in Nat
        /\ \A i \in DOMAIN pass : pass'[i] = pass[i]
        /\ pass'[Len(pass) + 1] = e
    BY <1>1, <2>2, <2>3, OneMoreRow
  <2>5. LinksInv'
    BY <1>1, <2>2, <2>3, <2>4 DEF LinksInv
  <2> QED
    BY <1>1, <2>3, <2>4, <2>5, RecordAdded
<1>3. ASSUME NEW v \in DOMAIN vault, NEW a \in Accounts, DocumentAdded(v, a) PROVE ViewsInv'
  <2>2. v \in Nat
    BY <1>1
  <2>3. /\ Emit(Event("DocumentAdded", Len(doc) + 1, a)) /\ doc' = Append(doc, v)
        /\ UNCHANGED <<vault, pass, ask, vaultCache>>
    BY <1>3 DEF DocumentAdded
  <2>4. /\ doc' \in Seq(Nat) /\ DOMAIN doc' = DOMAIN doc \cup {Len(doc) + 1} /\ Len(doc) + 1 \in Nat
        /\ \A i \in DOMAIN doc : doc'[i] = doc[i]
        /\ doc'[Len(doc) + 1] = v
    BY <1>1, <2>2, <2>3, OneMoreRow
  <2>5. LinksInv'
    BY <1>1, <2>2, <2>3, <2>4 DEF LinksInv
  <2> QED
    BY <1>1, <2>3, <2>4, <2>5, RecordAdded
<1>4. ASSUME NEW d \in DOMAIN doc, NEW a \in Accounts, AccessRequested(d, a) PROVE ViewsInv'
  <2>1. PICK e : e = [doc |-> d, approved |-> {}, open |-> TRUE]
    OBVIOUS
  <2>2. e \in AskRecs /\ e.doc = d
    <3>1. d \in Nat
      BY <1>1
    <3> QED
      BY <2>1, <3>1 DEF AskRecs
  <2>3. /\ Emit(Event("AccessRequested", Len(ask) + 1, a)) /\ ask' = Append(ask, e)
        /\ UNCHANGED <<vault, pass, doc, vaultCache>>
    BY <1>4, <2>1 DEF AccessRequested
  <2>4. /\ ask' \in Seq(AskRecs) /\ DOMAIN ask' = DOMAIN ask \cup {Len(ask) + 1} /\ Len(ask) + 1 \in Nat
        /\ \A i \in DOMAIN ask : ask'[i] = ask[i]
        /\ ask'[Len(ask) + 1] = e
    BY <1>1, <2>2, <2>3, OneMoreRow
  <2>5. LinksInv'
    BY <1>1, <2>2, <2>3, <2>4 DEF LinksInv
  <2>6. Len(ask') = Len(ask) + 1
    BY <1>1, <2>2, <2>3
  <2> QED
    BY <1>1, <2>3, <2>4, <2>5, <2>6, RecordAdded
<1> QED
  BY <1>2, <1>3, <1>4

\* Steps that log nothing.
LEMMA QuietSteps ==
    ASSUME ViewsInv
    PROVE  /\ \A v \in DOMAIN vault : CachedGetVault(v) \/ EntryExpires(v) => ViewsInv'
           /\ \A t \in DOMAIN pass, a \in Accounts \cup {Burned} : PassMoved(t, a) => ViewsInv'
           /\ \A r \in DOMAIN ask : RequestCloses(r) => ViewsInv'
           /\ \A r \in DOMAIN ask, g \in Accounts : RequestApproved(r, g) => ViewsInv'
<1>1. ViewsTypes /\ LinksInv /\ LogInv /\ MemoInv
  BY DEF ViewsInv
<1>2. /\ vault \in Seq(VaultRecs) /\ pass \in Seq(PassRecs) /\ ask \in Seq(AskRecs) /\ vaultCache \in Seq(Memos)
      /\ DOMAIN vaultCache = DOMAIN vault
  BY <1>1 DEF ViewsTypes
<1>3. ASSUME NEW v \in DOMAIN vault, NEW memo \in Memos, MemoOk(memo, vault[v]),
             vaultCache' = [vaultCache EXCEPT ![v] = memo], UNCHANGED <<events, vault, pass, doc, ask>>
      PROVE  ViewsInv'
  <2>1. /\ vaultCache' \in Seq(Memos) /\ Len(vaultCache') = Len(vaultCache) /\ vaultCache'[v] = memo
        /\ \A i \in DOMAIN vaultCache \ {v} : vaultCache'[i] = vaultCache[i]
    BY <1>2, <1>3, OneRowReplaced
  <2>2. ViewsTypes' /\ LinksInv' /\ LogInv'
    BY <1>1, <1>3, <2>1 DEF ViewsTypes, LinksInv, LogInv
  <2>3. MemoInv'
    BY <1>1, <1>2, <1>3, <2>1 DEF MemoInv
  <2> QED
    BY <2>2, <2>3 DEF ViewsInv
<1>4. ASSUME NEW v \in DOMAIN vault, CachedGetVault(v) \/ EntryExpires(v) PROVE ViewsInv'
  <2>1. vault[v].guardians \in Memos /\ Uncached \in Memos
    <3>1. vault[v] \in VaultRecs
      BY <1>2
    <3> QED
      BY <3>1 DEF VaultRecs, Memos
  <2>2. MemoOk(Uncached, vault[v]) /\ MemoOk(vault[v].guardians, vault[v])
    BY DEF MemoOk
  <2> QED
    BY <1>3, <1>4, <2>1, <2>2 DEF CachedGetVault, EntryExpires
<1>5. ASSUME NEW t \in DOMAIN pass, NEW a \in Accounts \cup {Burned}, PassMoved(t, a) PROVE ViewsInv'
  <2>1. PICK e : e = [pass[t] EXCEPT !.owner = a]
    OBVIOUS
  <2>2. pass[t] \in PassRecs /\ e \in PassRecs /\ e.vault = pass[t].vault
    <3>1. pass[t] \in PassRecs
      BY <1>2
    <3> QED
      BY <2>1, <3>1 DEF PassRecs
  <2>3. pass' = [pass EXCEPT ![t] = e] /\ UNCHANGED <<events, vault, doc, ask, vaultCache>>
    BY <1>5, <2>1 DEF PassMoved
  <2>4. /\ pass' \in Seq(PassRecs) /\ DOMAIN pass' = DOMAIN pass /\ pass'[t] = e
        /\ \A i \in DOMAIN pass \ {t} : pass'[i] = pass[i]
    BY <1>2, <2>2, <2>3, OneRowReplaced
  <2>5. ViewsTypes' /\ LogInv' /\ MemoInv'
    BY <1>1, <2>3, <2>4 DEF ViewsTypes, LogInv, MemoInv
  <2>6. LinksInv'
    BY <1>1, <2>2, <2>3, <2>4 DEF LinksInv
  <2> QED
    BY <2>5, <2>6 DEF ViewsInv
<1>6. ASSUME NEW r \in DOMAIN ask, NEW e \in AskRecs, e.doc = ask[r].doc,
             ask' = [ask EXCEPT ![r] = e], UNCHANGED <<events, vault, pass, doc, vaultCache>>
      PROVE  ViewsInv'
  <2>1. /\ ask' \in Seq(AskRecs) /\ DOMAIN ask' = DOMAIN ask /\ Len(ask') = Len(ask) /\ ask'[r] = e
        /\ \A i \in DOMAIN ask \ {r} : ask'[i] = ask[i]
    BY <1>2, <1>6, OneRowReplaced
  <2>2. ViewsTypes' /\ MemoInv'
    BY <1>1, <1>6, <2>1 DEF ViewsTypes, MemoInv
  <2>3. LogInv'
    BY <1>1, <1>6, <2>1 DEF LogInv
  <2>4. LinksInv'
    BY <1>1, <1>6, <2>1 DEF LinksInv
  <2> QED
    BY <2>2, <2>3, <2>4 DEF ViewsInv
<1>7. ASSUME NEW r \in DOMAIN ask, RequestCloses(r) PROVE ViewsInv'
  <2>1. PICK e : e = [ask[r] EXCEPT !.open = FALSE]
    OBVIOUS
  <2>2. e \in AskRecs /\ e.doc = ask[r].doc
    <3>1. ask[r] \in AskRecs
      BY <1>2
    <3> QED
      BY <2>1, <3>1 DEF AskRecs
  <2>3. ask' = [ask EXCEPT ![r] = e] /\ UNCHANGED <<events, vault, pass, doc, vaultCache>>
    BY <1>7, <2>1 DEF RequestCloses
  <2> QED
    BY <1>6, <2>2, <2>3
<1>8. ASSUME NEW r \in DOMAIN ask, NEW g \in Accounts, RequestApproved(r, g) PROVE ViewsInv'
  <2>1. PICK e : e = [ask[r] EXCEPT !.approved = @ \cup {g}]
    OBVIOUS
  <2>2. e \in AskRecs /\ e.doc = ask[r].doc
    <3>1. ask[r] \in AskRecs
      BY <1>2
    <3> QED
      BY <2>1, <3>1 DEF AskRecs
  <2>3. ask' = [ask EXCEPT ![r] = e] /\ UNCHANGED <<events, vault, pass, doc, vaultCache>>
    BY <1>8, <2>1 DEF RequestApproved
  <2> QED
    BY <1>6, <2>2, <2>3
<1> QED
  BY <1>4, <1>5, <1>7, <1>8

\* Every step keeps the log and the records in agreement.
LEMMA ViewsStepKeeps == ViewsInv /\ [ViewsNext]_viewVars => ViewsInv'
<1> SUFFICES ASSUME ViewsInv, [ViewsNext]_viewVars PROVE ViewsInv'
  OBVIOUS
<1>1. CASE UNCHANGED viewVars
  BY <1>1 DEF viewVars, ViewsInv, ViewsTypes, LinksInv, LogInv, MemoInv
<1>2. ASSUME NEW a \in Accounts, VaultCreated(a) PROVE ViewsInv'
  BY <1>2, VaultAdded
<1>3. Me \in Accounts /\ \A a \in Others : a \in Accounts /\ a # Me
  BY VaultViewsAssumptions DEF Accounts
<1>4. ASSUME NEW v \in DOMAIN vault, AcceptGuardianInvite(v) PROVE ViewsInv'
  BY <1>3, <1>4, GuardianJoins DEF AcceptGuardianInvite
<1>5. ASSUME NEW v \in DOMAIN vault, NEW a \in Others, InviteAccepted(v, a), UNCHANGED vaultCache PROVE ViewsInv'
  BY <1>3, <1>5, GuardianJoins
<1>6. ASSUME NEW v \in DOMAIN vault, NEW a \in Accounts, GuardianRemoved(v, a) PROVE ViewsInv'
  BY <1>6, GuardianLeaves
<1> QED
  BY <1>1, <1>2, <1>4, <1>5, <1>6, RecordSteps, QuietSteps DEF ViewsNext

\* What an account finds in the log.
LEMMA LoggedIs ==
    ASSUME NEW name, NEW who, NEW id, NEW i \in DOMAIN events, events[i] = Event(name, id, who)
    PROVE  id \in Logged(name, who)
<1>1. events[i] \in Range(events)
  BY DEF Range
<1>2. events[i].name = name /\ events[i].who = who /\ events[i].id = id
  BY DEF Event
<1> QED
  BY <1>1, <1>2 DEF Logged

\* An id taken from the log is the id of an event.
LEMMA LoggedFrom ==
    ASSUME NEW name, NEW who, NEW id \in Logged(name, who)
    PROVE  \E i \in DOMAIN events : events[i].name = name /\ events[i].id = id
<1>1. PICK e \in Range(events) : e.name = name /\ e.who = who /\ e.id = id
  BY DEF Logged
<1>2. PICK i \in DOMAIN events : events[i] = e
  BY DEF Range
<1> QED
  BY <1>1, <1>2

\* The vaults of the connected account.
LEMMA OwnVaultsCorrect == ViewsInv => OwnVaultsListed
<1> SUFFICES ASSUME ViewsInv PROVE OwnVaultsListed
  OBVIOUS
<1>1. ViewsTypes /\ LinksInv /\ LogInv /\ MemoInv
  BY DEF ViewsInv
<1> DEFINE mine == {v \in DOMAIN vault : vault[v].creator = Me \/ Me \in vault[v].guardians}
<1>2. ASSUME NEW v \in mine PROVE v \in FetchVaultsForAccount(Me)
  <2>1. v \in DOMAIN vault /\ OnRecord(events, v, vault[v]) /\ MemoOk(vaultCache[v], vault[v])
    BY <1>1 DEF LogInv, MemoInv
  <2>2. CASE vault[v].creator = Me
    <3>1. PICK i \in DOMAIN events : events[i] = Event("VaultCreated", v, Me)
      BY <2>1, <2>2 DEF OnRecord
    <3>2. v \in Logged("VaultCreated", Me)
      BY <3>1, LoggedIs
    <3> QED
      BY <2>2, <3>2 DEF FetchVaultsForAccount, IsMember
  <2>3. CASE Me \in vault[v].guardians
    <3>1. PICK i \in DOMAIN events : events[i] = Event("GuardianAdded", v, Me)
      BY <2>1, <2>3 DEF OnRecord
    <3>2. v \in Logged("GuardianAdded", Me)
      BY <3>1, LoggedIs
    <3>3. Me \in CachedGuardians(v)
      BY <2>1, <2>3 DEF MemoOk, CachedGuardians
    <3> QED
      BY <3>2, <3>3 DEF FetchVaultsForAccount, IsMember
  <2> QED
    BY <2>2, <2>3
<1>3. ASSUME NEW d \in DOMAIN doc, doc[d] \in mine PROVE d \in FetchDocumentsForVaults(FetchVaultsForAccount(Me))
  <2>1. PICK i \in DOMAIN events : events[i].name = "DocumentAdded" /\ events[i].id = d
    BY <1>1 DEF LogInv, AllNumbered, Numbered
  <2>2. events[i] \in Range(events)
    BY DEF Range
  <2>3. doc[d] \in FetchVaultsForAccount(Me)
    BY <1>2, <1>3
  <2> QED
    BY <2>1, <2>2, <2>3 DEF FetchDocumentsForVaults
<1>4. ASSUME NEW v \in FetchVaultsForAccount(Me), v \notin mine PROVE vaultCache[v] \notin {Uncached, vault[v].guardians}
  <2>1. /\ IsMember(Me, v)
        /\ v \in Logged("VaultCreated", Me) \cup Logged("GuardianAdded", Me) \cup {pass[t].vault : t \in Logged("NFTMinted", Me)}
    BY DEF FetchVaultsForAccount
  <2>2. v \in DOMAIN vault
    <3>1. CASE v \in Logged("VaultCreated", Me)
      <4>1. PICK i \in DOMAIN events : events[i].name = "VaultCreated" /\ events[i].id = v
        BY <3>1, LoggedFrom
      <4> QED
        BY <1>1, <4>1 DEF LogInv, AllNumbered, Numbered
    <3>2. CASE v \in Logged("GuardianAdded", Me)
      <4>1. PICK i \in DOMAIN events : events[i].name = "GuardianAdded" /\ events[i].id = v
        BY <3>2, LoggedFrom
      <4> QED
        BY <1>1, <4>1 DEF LogInv
    <3>3. CASE v \in {pass[t].vault : t \in Logged("NFTMinted", Me)}
      <4>1. PICK t \in Logged("NFTMinted", Me) : v = pass[t].vault
        BY <3>3
      <4>2. PICK i \in DOMAIN events : events[i].name = "NFTMinted" /\ events[i].id = t
        BY LoggedFrom
      <4>3. t \in DOMAIN pass
        BY <1>1, <4>2 DEF LogInv, AllNumbered, Numbered
      <4> QED
        BY <1>1, <4>1, <4>3 DEF LinksInv
    <3> QED
      BY <2>1, <3>1, <3>2, <3>3
  <2>3. Me \in CachedGuardians(v) /\ Me \notin vault[v].guardians
    BY <1>4, <2>1, <2>2 DEF IsMember
  <2> QED
    BY <2>3 DEF CachedGuardians
<1> QED
  BY <1>2, <1>3, <1>4 DEF OwnVaultsListed

\* The passes.
LEMMA PassesCorrect == ViewsInv => PassesShownAreHeld
<1> SUFFICES ASSUME ViewsInv PROVE PassesShownAreHeld
  OBVIOUS
<1>1. Numbered(events, "NFTMinted", DOMAIN pass) /\ pass \in Seq(PassRecs)
  BY DEF ViewsInv, LogInv, AllNumbered, ViewsTypes
<1>2. {e.id : e \in {f \in Range(events) : f.name = "NFTMinted"}} = DOMAIN pass
  BY <1>1 DEF Numbered, Range
<1>3. ASSUME NEW v \in DOMAIN vault
      PROVE  ActivePassCount(v) = Cardinality({t \in DOMAIN pass : pass[t].vault = v /\ pass[t].owner # Burned})
  BY <1>2 DEF ActivePassCount
<1>4. ASSUME NEW v \in DOMAIN vault, NEW a \in Accounts, HasVaultToken(a, v)
      PROVE  \E t \in DOMAIN pass : pass[t] = [vault |-> v, owner |-> a]
  <2>1. PICK t \in FetchUserTokens(a) : pass[t].vault = v
    BY <1>4 DEF HasVaultToken
  <2>2. t \in Logged("NFTMinted", a) /\ pass[t].owner = a
    BY DEF FetchUserTokens
  <2>3. PICK i \in DOMAIN events : events[i].name = "NFTMinted" /\ events[i].id = t
    BY <2>2, LoggedFrom
  <2>4. t \in DOMAIN pass
    BY <1>1, <2>3 DEF Numbered
  <2>5. pass[t] \in PassRecs
    BY <1>1, <2>4
  <2>6. pass[t] = [vault |-> v, owner |-> a]
    BY <2>1, <2>2, <2>5 DEF PassRecs
  <2> QED
    BY <2>4, <2>6
<1> QED
  BY <1>3, <1>4 DEF PassesShownAreHeld

\* The requests scanned are the last ScanDepth ones.
Scan == {events[i].id : i \in Newest(Named({"AccessRequested"}), ScanDepth)}

\* The scan of the log finds the latest requests, by their numbers.
LEMMA ScanIs == ViewsInv => Scan = {r \in DOMAIN ask : r + ScanDepth > Len(ask)}
<1> SUFFICES ASSUME ViewsInv PROVE Scan = {r \in DOMAIN ask : r + ScanDepth > Len(ask)}
  OBVIOUS
<1>1. /\ Numbered(events, "AccessRequested", DOMAIN ask) /\ Ranked(events, Len(ask)) /\ ask \in Seq(AskRecs)
      /\ ScanDepth \in Nat
  BY VaultViewsAssumptions DEF ViewsInv, LogInv, AllNumbered, ViewsTypes
<1>2. Len(ask) \in Nat /\ DOMAIN ask = 1 .. Len(ask)
  BY <1>1
<1>3. Named({"AccessRequested"}) = AskedAt(events)
  BY DEF Named, AskedAt
<1>4. ASSUME NEW i \in AskedAt(events)
      PROVE  events[i].id \in DOMAIN ask /\ (i \in Newest(AskedAt(events), ScanDepth) <=> events[i].id + ScanDepth > Len(ask))
  <2>1. i \in DOMAIN events /\ events[i].name = "AccessRequested"
    BY DEF AskedAt
  <2>2. events[i].id \in DOMAIN ask /\ Cardinality(After(AskedAt(events), i)) = Len(ask) - events[i].id
    BY <1>1, <2>1 DEF Numbered, Ranked
  <2>3. i \in Newest(AskedAt(events), ScanDepth) <=> Len(ask) - events[i].id < ScanDepth
    BY <2>2, NewestIs
  <2>4. events[i].id \in Nat
    BY <1>2, <2>2
  <2> QED
    BY <1>1, <1>2, <2>2, <2>3, <2>4
<1>5. ASSUME NEW r \in Scan PROVE r \in DOMAIN ask /\ r + ScanDepth > Len(ask)
  <2>1. PICK i \in Newest(AskedAt(events), ScanDepth) : r = events[i].id
    BY <1>3 DEF Scan
  <2>2. i \in AskedAt(events)
    BY DEF Newest
  <2> QED
    BY <1>4, <2>1, <2>2
<1>6. ASSUME NEW r \in DOMAIN ask, r + ScanDepth > Len(ask) PROVE r \in Scan
  <2>1. PICK i \in DOMAIN events : events[i].name = "AccessRequested" /\ events[i].id = r
    BY <1>1 DEF Numbered
  <2>2. i \in AskedAt(events)
    BY <2>1 DEF AskedAt
  <2>3. i \in Newest(AskedAt(events), ScanDepth)
    BY <1>4, <1>6, <2>1, <2>2
  <2> QED
    BY <1>3, <2>1, <2>3 DEF Scan
<1> QED
  BY <1>5, <1>6

\* The requests offered to a guardian.
LEMMA PendingCorrect == ViewsInv => PendingAreActionable
<1> SUFFICES ASSUME ViewsInv PROVE PendingAreActionable
  OBVIOUS
<1>1. ask \in Seq(AskRecs) /\ PendingLimit \in Nat \ {0}
  BY VaultViewsAssumptions DEF ViewsInv, ViewsTypes
<1>2. Len(ask) \in Nat /\ DOMAIN ask = 1 .. Len(ask)
  BY <1>1
<1> DEFINE able(r) == Me \notin ask[r].approved /\ ask[r].open /\ Me \in CachedGuardians(doc[ask[r].doc])
<1>3. PICK P : P = {r \in Scan : able(r)}
  OBVIOUS
<1>4. PendingApprovals(Me) = Newest(P, PendingLimit)
  BY <1>3 DEF PendingApprovals, Scan
<1>5. P = {r \in DOMAIN ask : r + ScanDepth > Len(ask) /\ able(r)}
  BY <1>3, ScanIs
<1>6. P \in SUBSET (1 .. Len(ask))
  BY <1>2, <1>5
<1>7. PICK offered : offered = PendingApprovals(Me)
  OBVIOUS
<1>8. ASSUME NEW r \in DOMAIN ask, vaultCache[doc[ask[r].doc]] \in {Uncached, vault[doc[ask[r].doc]].guardians}
      PROVE  LET due == /\ ask[r].open /\ Me \in vault[doc[ask[r].doc]].guardians \ ask[r].approved
                        /\ r + ScanDepth > Len(ask)
             IN  /\ r \in offered => due
                 /\ due => r \in offered \/ Cardinality({s \in offered : s > r}) = PendingLimit
  <2> DEFINE due == /\ ask[r].open /\ Me \in vault[doc[ask[r].doc]].guardians \ ask[r].approved
                    /\ r + ScanDepth > Len(ask)
  <2>1. CachedGuardians(doc[ask[r].doc]) = vault[doc[ask[r].doc]].guardians
    BY <1>8 DEF CachedGuardians
  <2>2. r \in P <=> due
    BY <1>5, <2>1
  <2>3. r \in offered => r \in P
    BY <1>4, <1>7 DEF Newest
  <2>4. r \in P => r \in offered \/ Cardinality(After(offered, r)) = PendingLimit
    <3>1. r \in P => r \in Newest(P, PendingLimit) \/ Cardinality(After(Newest(P, PendingLimit), r)) = PendingLimit
      BY <1>1, <1>2, <1>6, NewestOrFull
    <3> QED
      BY <1>4, <1>7, <3>1
  <2> QED
    BY <2>2, <2>3, <2>4 DEF After
<1> QED
  BY <1>7, <1>8 DEF PendingAreActionable

\* Types and the four views.
LEMMA ListsCorrect ==
    ViewsInv => ViewsTypeOK /\ OwnVaultsListed /\ PassesShownAreHeld /\ PendingAreActionable /\ ActivityIsNewest
<1> SUFFICES ASSUME ViewsInv
             PROVE  ViewsTypeOK /\ OwnVaultsListed /\ PassesShownAreHeld /\ PendingAreActionable /\ ActivityIsNewest
  OBVIOUS
<1>1. ViewsTypes /\ LinksInv
  BY DEF ViewsInv
<1>2. ViewsTypeOK
  <2>1. \A v \in DOMAIN vault : vault[v] \in VaultRecs
    BY <1>1 DEF ViewsTypes
  <2>2. \A v \in DOMAIN vault : vault[v].creator \in Accounts /\ vault[v].guardians \subseteq Accounts
    BY <2>1 DEF VaultRecs
  <2> QED
    BY <1>1, <2>2 DEF ViewsTypes, LinksInv, ViewsTypeOK
<1>3. ActivityIsNewest
  <2>1. Len(events) \in Nat /\ DOMAIN events = 1 .. Len(events)
    BY <1>1 DEF ViewsTypes
  <2> QED
    BY <2>1, ActivityCorrect
<1> QED
  BY <1>2, <1>3, OwnVaultsCorrect, PassesCorrect, PendingCorrect

-----------------------------------------------------------------------------
(* The screens of the readers.                                             *)

LatestMaps == [ReaderDocs -> Requested]
LoadRecs == [of : Readers, active : SUBSET ReaderDocs, latest : LatestMaps, got : SUBSET {"active", "latest"}]
AnswerRecs == [of : Readers, doc : ReaderDocs, yes : BOOLEAN]
FetchRecs == [of : Readers \cup {Nobody}, todo : Seq(Envelopes), at : {"idle", "check", "unseal"},
              latest : LatestMaps, imported : BOOLEAN]
OpenRecs == [of : Readers \cup {Nobody}, doc : ReaderDocs \cup {0}, at : {"idle", "check", "fetch"}]

ReaderTypes ==
    /\ rights \in [Readers \X ReaderDocs -> Requested] /\ reader \in Readers \cup {Nobody}
    /\ page \in {"access", "documents"} /\ rows \in [active : SUBSET ReaderDocs, latest : LatestMaps]
    /\ loading \subseteq LoadRecs /\ answers \subseteq AnswerRecs /\ tabKeys \subseteq ReaderDocs
    /\ inboxRun \in FetchRecs /\ opening \in OpenRecs

HadAccess(a, d) == <<a, d, "approved">> \in ever

\* What the contract has granted or refused is among the decisions.
RightsInv ==
    \A a \in Readers, d \in ReaderDocs :
        rights[<<a, d>>] \in {"approved", "rejected"} => <<a, d, rights[<<a, d>>]>> \in ever

\* One cached answer for each account and document, and a yes was true once.
AnswersInv(set) ==
    /\ set \subseteq AnswerRecs
    /\ \A c1, c2 \in set : c1.of = c2.of /\ c1.doc = c2.doc => c1 = c2
    /\ \A c \in set : c.yes => HadAccess(c.of, c.doc)

\* A request shown as rejected was rejected for somebody.
TrueRows(latest) ==
    \A d \in ReaderDocs : latest[d] = "rejected" => \E a \in Readers : <<a, d, "rejected">> \in ever

RowsInv ==
    TrueRows(rows.latest) /\ TrueRows(inboxRun.latest) /\ \A l \in loading : TrueRows(l.latest)

\* The handlers act for the account they were started for, after its access was
\* confirmed.
HandlersInv ==
    /\ inboxRun.at # "idle" => inboxRun.of \in Readers
    /\ inboxRun.at = "unseal" => inboxRun.todo # <<>> /\ HadAccess(inboxRun.of, Head(inboxRun.todo).doc)
    /\ opening.at # "idle" => opening.of \in Readers /\ opening.doc \in ReaderDocs
    /\ opening.at = "fetch" => HadAccess(opening.of, opening.doc)

ReaderInv ==
    /\ ReaderTypes /\ RightsInv /\ AnswersInv(answers) /\ RowsInv /\ HandlersInv
    /\ ReadersHadAccess /\ UnpinsFollowRejection

\* Nothing was asked, opened or unpinned at first.
LEMMA ReaderInitial == ReaderInit => ReaderInv
<1> SUFFICES ASSUME ReaderInit PROVE ReaderInv
  OBVIOUS
<1>1. NoRequests \in LatestMaps /\ \A d \in ReaderDocs : NoRequests[d] = "none"
  BY DEF NoRequests, LatestMaps, Requested
<1>2. Load(reader) \in LoadRecs /\ Load(reader).latest = NoRequests
  BY <1>1 DEF ReaderInit, Load, LoadRecs
<1>3. /\ NoFetch \in FetchRecs /\ NoFetch.latest = NoRequests /\ NoFetch.at = "idle"
      /\ NoOpening \in OpenRecs /\ NoOpening.at = "idle"
  <2>1. <<>> \in Seq(Envelopes)
    OBVIOUS
  <2> QED
    BY <1>1, <2>1 DEF NoFetch, NoOpening, FetchRecs, OpenRecs
<1>4. rights \in [Readers \X ReaderDocs -> Requested] /\ RightsInv
  <2>1. rights \in [Readers \X ReaderDocs -> {"none", "approved"}]
    BY DEF ReaderInit
  <2>2. \A a \in Readers, d \in ReaderDocs : <<a, d, rights[<<a, d>>]>> \in ever
    <3>1. ever = {<<p[1], p[2], rights[p]>> : p \in Readers \X ReaderDocs}
      BY DEF ReaderInit
    <3> SUFFICES ASSUME NEW a \in Readers, NEW d \in ReaderDocs PROVE <<a, d, rights[<<a, d>>]>> \in ever
      OBVIOUS
    <3>2. PICK p \in Readers \X ReaderDocs : p = <<a, d>>
      OBVIOUS
    <3>3. <<p[1], p[2], rights[p]>> \in ever
      BY <3>1
    <3> QED
      BY <3>2, <3>3
  <2> QED
    BY <2>1, <2>2 DEF RightsInv, Requested
<1>5. ReaderTypes
  BY <1>1, <1>2, <1>3, <1>4 DEF ReaderInit, ReaderTypes, Empty
<1>6. RowsInv /\ HandlersInv /\ AnswersInv(answers)
  BY <1>1, <1>2, <1>3 DEF ReaderInit, RowsInv, HandlersInv, AnswersInv, TrueRows, Empty
<1> QED
  BY <1>4, <1>5, <1>6 DEF ReaderInv, ReaderInit, ReadersHadAccess, UnpinsFollowRejection

\* What hasActiveAccess says yes to was so once.
LEMMA AnswerIs ==
    ASSUME ReaderInv, NEW a \in Readers, NEW d \in ReaderDocs
    PROVE  /\ Answer(a, d) \in BOOLEAN /\ (Answer(a, d) => HadAccess(a, d))
           /\ \A c \in answers : c.of = a /\ c.doc = d => c.yes = Answer(a, d)
<1>1. CASE \E c \in answers : c.of = a /\ c.doc = d
  <2> DEFINE c == CHOOSE c \in answers : c.of = a /\ c.doc = d
  <2>1. c \in answers /\ c.of = a /\ c.doc = d
    BY <1>1
  <2>2. Answer(a, d) = c.yes
    BY <1>1 DEF Answer
  <2> HIDE DEF c
  <2>3. c.yes \in BOOLEAN /\ (c.yes => HadAccess(a, d)) /\ \A e \in answers : e.of = a /\ e.doc = d => e = c
    BY <2>1 DEF ReaderInv, AnswersInv, AnswerRecs
  <2> QED
    BY <2>2, <2>3
<1>2. CASE ~\E c \in answers : c.of = a /\ c.doc = d
  <2>1. Answer(a, d) = (rights[<<a, d>>] = "approved")
    BY <1>2 DEF Answer
  <2> QED
    BY <1>2, <2>1 DEF ReaderInv, RightsInv, HadAccess
<1> QED
  BY <1>1, <1>2

\* Asking leaves the cache true.
LEMMA AnsweredKeeps ==
    ASSUME ReaderInv, NEW a \in Readers, NEW ds \in SUBSET ReaderDocs
    PROVE  AnswersInv(Answered(a, ds))
<1> DEFINE new(d) == [of |-> a, doc |-> d, yes |-> Answer(a, d)]
<1>0. AnswersInv(answers)
  BY DEF ReaderInv
<1>1. \A d \in ds : /\ new(d) \in AnswerRecs /\ new(d).of = a /\ new(d).doc = d /\ new(d).yes = Answer(a, d)
                    /\ (new(d).yes => HadAccess(a, d))
  BY AnswerIs DEF AnswerRecs
<1>2. Answered(a, ds) = answers \cup {new(d) : d \in ds}
  BY DEF Answered
<1>3. \A d \in ds : \A c \in answers : c.of = a /\ c.doc = d => c = new(d)
  <2> SUFFICES ASSUME NEW d \in ds, NEW c \in answers, c.of = a, c.doc = d PROVE c = new(d)
    OBVIOUS
  <2>1. c \in AnswerRecs /\ c.yes = Answer(a, d)
    BY <1>0, AnswerIs DEF AnswersInv
  <2>2. c = [of |-> c.of, doc |-> c.doc, yes |-> c.yes]
    BY <2>1 DEF AnswerRecs
  <2> QED
    BY <2>1, <2>2
<1> HIDE DEF new
<1>4. \A c \in Answered(a, ds) : c \in answers \/ \E d \in ds : c = new(d)
  BY <1>2
<1>5. Answered(a, ds) \subseteq AnswerRecs
  BY <1>0, <1>1, <1>2 DEF AnswersInv
<1>6. ASSUME NEW c1 \in Answered(a, ds), NEW c2 \in Answered(a, ds), c1.of = c2.of, c1.doc = c2.doc PROVE c1 = c2
  <2>1. CASE c1 \in answers /\ c2 \in answers
    BY <1>0, <1>6, <2>1 DEF AnswersInv
  <2>2. CASE c1 \notin answers
    <3>1. PICK d \in ds : c1 = new(d)
      BY <1>4, <2>2
    <3> QED
      BY <1>1, <1>3, <1>4, <1>6, <3>1
  <2>3. CASE c2 \notin answers
    <3>1. PICK d \in ds : c2 = new(d)
      BY <1>4, <2>3
    <3> QED
      BY <1>1, <1>3, <1>4, <1>6, <3>1
  <2> QED
    BY <2>1, <2>2, <2>3
<1>7. \A c \in Answered(a, ds) : c.yes => HadAccess(c.of, c.doc)
  BY <1>0, <1>1, <1>4 DEF AnswersInv
<1> QED
  BY <1>5, <1>6, <1>7 DEF AnswersInv

\* One round of latestByDoc.
LEMMA KeepLatestType ==
    ASSUME NEW m \in Seq(Envelopes), NEW e \in Envelopes
    PROVE  KeepLatest(m, e) \in Seq(Envelopes)
<1>1. CASE \E i \in DOMAIN m : m[i].doc = e.doc
  <2> DEFINE new == [i \in DOMAIN m |-> IF m[i].doc = e.doc /\ m[i].issued <= e.issued THEN e ELSE m[i]]
  <2>1. DOMAIN m = 1 .. Len(m) /\ Len(m) \in Nat /\ \A i \in DOMAIN m : m[i] \in Envelopes
    OBVIOUS
  <2>2. new \in [1 .. Len(m) -> Envelopes]
    BY <2>1
  <2>3. new \in Seq(Envelopes)
    <3> HIDE DEF new
    <3> QED
      BY <2>1, <2>2
  <2> QED
    BY <1>1, <2>3 DEF KeepLatest
<1>2. CASE ~\E i \in DOMAIN m : m[i].doc = e.doc
  BY <1>2 DEF KeepLatest
<1> QED
  BY <1>1, <1>2

KeepsPart(list, s, it) == IF s = {} THEN <<>> ELSE KeepLatest(it[s \ {Max(s)}], list[Max(s)])
Keeps(list, it) == it = [s \in SUBSET (DOMAIN list) |-> KeepsPart(list, s, it)]

\* The loop over at most two envelopes leaves envelopes.
LEMMA LatestByDocType ==
    ASSUME NEW list \in UNION {[1 .. n -> Envelopes] : n \in 0 .. 2}
    PROVE  LatestByDoc(list) \in Seq(Envelopes)
<1> DEFINE one == KeepLatest(<<>>, list[1])
           two == KeepLatest(<<>>, list[2])
           both == KeepLatest(one, list[2])
           f == [s \in SUBSET (DOMAIN list) |->
                   IF s = {} THEN <<>> ELSE IF s = {1} THEN one ELSE IF s = {2} THEN two ELSE both]
<1>1. DOMAIN list \in {{}, {1}, {1, 2}} /\ \A i \in DOMAIN list : list[i] \in Envelopes
  <2>1. PICK n \in 0 .. 2 : list \in [1 .. n -> Envelopes]
    OBVIOUS
  <2>2. 1 .. 0 = {} /\ 1 .. 1 = {1} /\ 1 .. 2 = {1, 2} /\ n \in {0, 1, 2}
    OBVIOUS
  <2> QED
    BY <2>1, <2>2
<1>2. /\ Max({1}) = 1 /\ Max({2}) = 2 /\ Max({1, 2}) = 2 /\ {1} \ {1} = {} /\ {2} \ {2} = {} /\ {1, 2} \ {2} = {1}
      /\ {1, 2} # {} /\ {1, 2} # {1} /\ {1, 2} # {2} /\ {1} # {2} /\ {2} # {} /\ {1} # {}
  BY DEF Max
<1>3. \A s \in SUBSET (DOMAIN list) : s \in {{}, {1}, {2}, {1, 2}} /\ s \ {Max(s)} \in SUBSET (DOMAIN list)
  <2>1. \A s \in SUBSET {1, 2} : s \in {{}, {1}, {2}, {1, 2}}
    OBVIOUS
  <2> QED
    BY <1>1, <2>1
<1>4. Keeps(list, f)
  <2>1. f = [s \in SUBSET (DOMAIN list) |-> f[s]]
    OBVIOUS
  <2>2. /\ {} \in SUBSET (DOMAIN list) => f[{}] = <<>>
        /\ {1} \in SUBSET (DOMAIN list) => f[{1}] = one
        /\ {2} \in SUBSET (DOMAIN list) => f[{2}] = two
        /\ {1, 2} \in SUBSET (DOMAIN list) => f[{1, 2}] = both
    BY <1>2
  <2> HIDE DEF f
  <2>3. \A s \in SUBSET (DOMAIN list) : f[s] = KeepsPart(list, s, f)
    <3> TAKE s \in SUBSET (DOMAIN list)
    <3>1. s \in {{}, {1}, {2}, {1, 2}} /\ s \ {Max(s)} \in SUBSET (DOMAIN list)
      BY <1>3
    <3> QED
      BY <1>2, <2>2, <3>1 DEF KeepsPart
  <2> QED
    BY <2>1, <2>3 DEF Keeps
<1> HIDE DEF one, two, both, f
<1> DEFINE it == CHOOSE h : Keeps(list, h)
<1>5. Keeps(list, it)
  BY <1>4
<1>6. LatestByDoc(list) = it[DOMAIN list]
  BY DEF LatestByDoc, FoldLeft, MapThenFoldSet, Keeps, KeepsPart
<1> HIDE DEF it
<1>7. it[{}] = <<>> /\ <<>> \in Seq(Envelopes)
  BY <1>5 DEF Keeps, KeepsPart
<1>8. ASSUME 1 \in DOMAIN list PROVE it[{1}] \in Seq(Envelopes)
  <2>1. {1} \in SUBSET (DOMAIN list) /\ list[1] \in Envelopes
    BY <1>1, <1>8
  <2>2. it[{1}] = KeepsPart(list, {1}, it)
    BY <1>5, <2>1 DEF Keeps
  <2>3. it[{1}] = KeepLatest(<<>>, list[1])
    BY <1>2, <1>7, <2>2 DEF KeepsPart
  <2> QED
    BY <1>7, <2>1, <2>3, KeepLatestType
<1>9. ASSUME {1, 2} = DOMAIN list PROVE it[{1, 2}] \in Seq(Envelopes)
  <2>1. {1, 2} \in SUBSET (DOMAIN list) /\ list[2] \in Envelopes
    BY <1>1, <1>9
  <2>2. it[{1, 2}] = KeepsPart(list, {1, 2}, it)
    BY <1>5, <2>1 DEF Keeps
  <2>3. it[{1, 2}] = KeepLatest(it[{1}], list[2])
    BY <1>2, <2>2 DEF KeepsPart
  <2>4. it[{1}] \in Seq(Envelopes)
    BY <1>8, <1>9
  <2> QED
    BY <2>1, <2>3, <2>4, KeepLatestType
<1> QED
  BY <1>1, <1>6, <1>7, <1>8, <1>9

\* What is shown, loaded and cached changes; handlers and decisions stay.
LEMMA ScreenChanges ==
    ASSUME ReaderInv, UNCHANGED <<rights, inboxRun, opening, unpins, ever, opened, taken>>,
           reader' \in Readers \cup {Nobody}, page' \in {"access", "documents"},
           rows' \in [active : SUBSET ReaderDocs, latest : LatestMaps], TrueRows(rows'.latest),
           loading' \subseteq LoadRecs, \A l \in loading' : TrueRows(l.latest),
           AnswersInv(answers'), tabKeys' \subseteq ReaderDocs
    PROVE  ReaderInv'
<1>1. ReaderTypes'
  BY DEF ReaderInv, ReaderTypes, AnswersInv
<1>2. RightsInv' /\ RowsInv' /\ HandlersInv' /\ AnswersInv(answers)'
  BY DEF ReaderInv, RightsInv, RowsInv, TrueRows, HandlersInv, HadAccess, AnswersInv
<1>3. ReadersHadAccess' /\ UnpinsFollowRejection'
  BY DEF ReaderInv, ReadersHadAccess, UnpinsFollowRejection
<1> QED
  BY <1>1, <1>2, <1>3 DEF ReaderInv

\* A load that starts has nothing yet, and an empty screen shows nothing.
LEMMA LoadStarts ==
    /\ NoRequests \in LatestMaps /\ TrueRows(NoRequests)
    /\ \A a \in Readers : Load(a) \in LoadRecs /\ Load(a).latest = NoRequests
    /\ Empty \in [active : SUBSET ReaderDocs, latest : LatestMaps] /\ Empty.latest = NoRequests
<1>1. NoRequests \in LatestMaps /\ TrueRows(NoRequests)
  BY DEF NoRequests, LatestMaps, Requested, TrueRows
<1> QED
  BY <1>1 DEF Load, LoadRecs, Empty

\* Loads in flight after one more has started.
LEMMA StartLoadKeeps ==
    ASSUME ReaderInv, NEW a \in Readers \cup {Nobody}, StartLoad(a)
    PROVE  loading' \subseteq LoadRecs /\ \A l \in loading' : TrueRows(l.latest)
<1>1. loading \subseteq LoadRecs /\ \A l \in loading : TrueRows(l.latest)
  BY DEF ReaderInv, ReaderTypes, RowsInv
<1>2. CASE a = Nobody
  BY <1>1, <1>2 DEF StartLoad
<1>3. CASE a # Nobody
  <2>1. Load(a) \in LoadRecs /\ TrueRows(Load(a).latest) /\ loading' = loading \cup {Load(a)}
    BY <1>3, LoadStarts DEF StartLoad
  <2> QED
    BY <1>1, <2>1
<1> QED
  BY <1>2, <1>3

\* Loads go on, arrive or fail.
LEMMA LoadSteps ==
    ASSUME ReaderInv, NEW l \in loading, ReadAccess(l) \/ ReadRequests(l) \/ LoadLands(l) \/ LoadFails(l)
    PROVE  ReaderInv'
<1>0. /\ ReaderTypes /\ RightsInv /\ AnswersInv(answers) /\ TrueRows(rows.latest) /\ l \in LoadRecs /\ TrueRows(l.latest)
      /\ loading \subseteq LoadRecs /\ \A k \in loading : TrueRows(k.latest)
  BY DEF ReaderInv, ReaderTypes, RowsInv
<1>1. CASE ReadAccess(l)
  <2> DEFINE k == [l EXCEPT !.active = {d \in ReaderDocs : Answer(l.of, d)}, !.got = @ \cup {"active"}]
  <2>1. k \in LoadRecs /\ k.latest = l.latest /\ l.of \in Readers
    BY <1>0 DEF LoadRecs
  <2>2. loading' = (loading \ {l}) \cup {k} /\ answers' = Answered(l.of, ReaderDocs)
    BY <1>1 DEF ReadAccess
  <2> HIDE DEF k
  <2>3. AnswersInv(answers')
    BY <2>1, <2>2, AnsweredKeeps
  <2>4. loading' \subseteq LoadRecs /\ \A h \in loading' : TrueRows(h.latest)
    BY <1>0, <2>1, <2>2
  <2> QED
    BY <1>0, <1>1, <2>3, <2>4, ScreenChanges DEF ReadAccess, ReaderTypes
<1>2. CASE ReadRequests(l)
  <2> DEFINE fresh == [d \in ReaderDocs |-> rights[<<l.of, d>>]]
             k == [l EXCEPT !.latest = fresh, !.got = @ \cup {"latest"}]
  <2>1. l.of \in Readers /\ fresh \in LatestMaps /\ TrueRows(fresh)
    <3>1. l.of \in Readers
      BY <1>0 DEF LoadRecs
    <3>2. \A d \in ReaderDocs : rights[<<l.of, d>>] \in Requested
      BY <1>0, <3>1 DEF ReaderTypes
    <3>3. \A d \in ReaderDocs : rights[<<l.of, d>>] = "rejected" => <<l.of, d, "rejected">> \in ever
      BY <1>0, <3>1 DEF RightsInv
    <3> QED
      BY <3>1, <3>2, <3>3 DEF LatestMaps, TrueRows
  <2>2. loading' = (loading \ {l}) \cup {k}
    BY <1>2 DEF ReadRequests
  <2> HIDE DEF fresh
  <2>3. k \in LoadRecs /\ k.latest = fresh
    BY <1>0, <2>1 DEF LoadRecs
  <2> HIDE DEF k
  <2>4. loading' \subseteq LoadRecs /\ \A h \in loading' : TrueRows(h.latest)
    BY <1>0, <2>1, <2>2, <2>3
  <2> QED
    BY <1>0, <1>2, <2>4, ScreenChanges DEF ReadRequests, ReaderTypes
<1>3. CASE LoadLands(l)
  <2>1. /\ rows' \in [active : SUBSET ReaderDocs, latest : LatestMaps] /\ rows'.latest = l.latest
        /\ loading' = loading \ {l}
    BY <1>0, <1>3 DEF LoadLands, LoadRecs
  <2> QED
    BY <1>0, <1>3, <2>1, ScreenChanges DEF LoadLands, ReaderTypes
<1>4. CASE LoadFails(l)
  <2>1. rows' \in [active : SUBSET ReaderDocs, latest : LatestMaps] /\ TrueRows(rows'.latest) /\ loading' = loading \ {l}
    BY <1>0, <1>4, LoadStarts DEF LoadFails, ReaderTypes
  <2> QED
    BY <1>0, <1>4, <2>1, ScreenChanges DEF LoadFails, ReaderTypes
<1> QED
  BY <1>1, <1>2, <1>3, <1>4

\* The user changes the account or the page or imports a package, and cached
\* answers expire.
LEMMA ScreenSteps ==
    ASSUME ReaderInv,
           \/ UNCHANGED readerVars \/ AnswerExpires \/ Navigate
           \/ \E a \in Readers \cup {Nobody} : ChangeAccount(a)
           \/ \E p \in Packages : ImportKeyBackup(p)
    PROVE  ReaderInv'
<1>0. /\ ReaderTypes /\ AnswersInv(answers) /\ TrueRows(rows.latest)
      /\ loading \subseteq LoadRecs /\ \A k \in loading : TrueRows(k.latest)
  BY DEF ReaderInv, ReaderTypes, RowsInv
<1>1. CASE UNCHANGED readerVars
  BY <1>0, <1>1, ScreenChanges DEF readerVars, ReaderTypes
<1>2. CASE AnswerExpires
  <2>1. answers' \subseteq answers
    BY <1>2 DEF AnswerExpires
  <2>2. AnswersInv(answers')
    BY <1>0, <2>1 DEF AnswersInv
  <2> QED
    BY <1>0, <1>2, <2>2, ScreenChanges DEF AnswerExpires, ReaderTypes
<1>3. CASE Navigate
  <2>1. loading' \subseteq LoadRecs /\ \A k \in loading' : TrueRows(k.latest)
    BY <1>0, <1>3, LoadStarts DEF Navigate, ReaderTypes
  <2> QED
    BY <1>0, <1>3, <2>1, LoadStarts, ScreenChanges DEF Navigate, ReaderTypes
<1>4. ASSUME NEW a \in Readers \cup {Nobody}, ChangeAccount(a) PROVE ReaderInv'
  <2>1. loading' \subseteq LoadRecs /\ \A k \in loading' : TrueRows(k.latest)
    BY <1>4, StartLoadKeeps DEF ChangeAccount
  <2>2. rows' \in [active : SUBSET ReaderDocs, latest : LatestMaps] /\ TrueRows(rows'.latest)
    BY <1>0, <1>4, LoadStarts DEF ChangeAccount, ReaderTypes
  <2>3. AnswersInv(answers')
    BY <1>0, <1>4 DEF ChangeAccount, AnswersInv
  <2> QED
    BY <1>0, <1>4, <2>1, <2>2, <2>3, ScreenChanges DEF ChangeAccount, ReaderTypes
<1>5. ASSUME NEW p \in Packages, ImportKeyBackup(p) PROVE ReaderInv'
  <2>1. p.doc \in ReaderDocs /\ reader \in Readers \cup {Nobody}
    BY <1>0 DEF Packages, ReaderTypes
  <2>2. /\ loading' \subseteq LoadRecs /\ \A k \in loading' : TrueRows(k.latest)
        /\ tabKeys' \subseteq ReaderDocs
    BY <1>0, <1>5, <2>1, StartLoadKeeps DEF ImportKeyBackup, ReaderTypes
  <2>3. rows' \in [active : SUBSET ReaderDocs, latest : LatestMaps] /\ TrueRows(rows'.latest)
    BY <1>0, <1>5, LoadStarts DEF ImportKeyBackup, ReaderTypes
  <2> QED
    BY <1>0, <1>5, <2>2, <2>3, ScreenChanges DEF ImportKeyBackup, ReaderTypes
<1> QED
  BY <1>1, <1>2, <1>3, <1>4, <1>5

\* Requests are filed, and the guardians decide them.
LEMMA RequestSteps ==
    ASSUME ReaderInv,
           \/ \E d \in ReaderDocs, b \in BOOLEAN : RequestAccess(d, b)
           \/ \E a \in Readers, d \in ReaderDocs, s \in Requested : Decide(a, d, s)
    PROVE  ReaderInv'
<1>0. ReaderTypes /\ RightsInv /\ AnswersInv(answers) /\ RowsInv /\ HandlersInv /\ ReadersHadAccess /\ UnpinsFollowRejection
  BY DEF ReaderInv
<1>1. ASSUME NEW d \in ReaderDocs, NEW b \in BOOLEAN, RequestAccess(d, b) PROVE ReaderInv'
  <2>1. reader \in Readers /\ UNCHANGED <<reader, page, rows, answers, tabKeys, inboxRun, opening, unpins, ever, opened, taken>>
    BY <1>0, <1>1 DEF RequestAccess, ReaderTypes
  <2>2. /\ rights' \in [Readers \X ReaderDocs -> Requested]
        /\ \A p \in Readers \X ReaderDocs : rights'[p] \in {rights[p], "pending"}
    BY <1>0, <1>1, <2>1 DEF RequestAccess, ReaderTypes, Requested
  <2>3. loading' \subseteq LoadRecs /\ \A k \in loading' : TrueRows(k.latest)
    <3>1. StartLoad(reader) \/ loading' = loading
      BY <1>1 DEF RequestAccess
    <3>2. loading \subseteq LoadRecs /\ \A k \in loading : TrueRows(k.latest)
      BY <1>0 DEF ReaderTypes, RowsInv
    <3> QED
      BY <2>1, <3>1, <3>2, StartLoadKeeps
  <2>4. ReaderTypes' /\ RightsInv'
    <3>1. ASSUME NEW a \in Readers, NEW e \in ReaderDocs, rights'[<<a, e>>] \in {"approved", "rejected"}
          PROVE  <<a, e, rights'[<<a, e>>]>> \in ever'
      <4>1. <<a, e>> \in Readers \X ReaderDocs
        OBVIOUS
      <4>2. rights'[<<a, e>>] = rights[<<a, e>>]
        BY <2>2, <3>1, <4>1
      <4> QED
        BY <1>0, <2>1, <3>1, <4>2 DEF RightsInv
    <3> QED
      BY <1>0, <2>1, <2>2, <2>3, <3>1 DEF ReaderTypes, RightsInv
  <2>5. RowsInv' /\ HandlersInv' /\ AnswersInv(answers)'
    BY <1>0, <2>1, <2>3 DEF RowsInv, TrueRows, HandlersInv, HadAccess, AnswersInv
  <2>6. ReadersHadAccess' /\ UnpinsFollowRejection'
    BY <1>0, <2>1 DEF ReadersHadAccess, UnpinsFollowRejection
  <2> QED
    BY <2>4, <2>5, <2>6 DEF ReaderInv
<1>2. ASSUME NEW a \in Readers, NEW d \in ReaderDocs, NEW s \in Requested, Decide(a, d, s) PROVE ReaderInv'
  <2>1. /\ rights' = [rights EXCEPT ![<<a, d>>] = s] /\ ever' = ever \cup {<<a, d, s>>}
        /\ UNCHANGED <<reader, page, rows, loading, answers, tabKeys, inboxRun, opening, unpins, opened, taken>>
    BY <1>2 DEF Decide
  <2>2. ReaderTypes'
    BY <1>0, <2>1 DEF ReaderTypes
  <2>3. RightsInv'
    <3> SUFFICES ASSUME NEW b \in Readers, NEW e \in ReaderDocs, rights'[<<b, e>>] \in {"approved", "rejected"}
                 PROVE  <<b, e, rights'[<<b, e>>]>> \in ever'
      BY DEF RightsInv
    <3>1. <<b, e>> \in Readers \X ReaderDocs /\ rights \in [Readers \X ReaderDocs -> Requested]
      BY <1>0 DEF ReaderTypes
    <3>2. CASE b = a /\ e = d
      BY <2>1, <3>1, <3>2
    <3>3. CASE ~(b = a /\ e = d)
      <4>1. rights'[<<b, e>>] = rights[<<b, e>>]
        BY <2>1, <3>1, <3>3
      <4> QED
        BY <1>0, <2>1, <4>1 DEF RightsInv
    <3> QED
      BY <3>2, <3>3
  <2>4. RowsInv' /\ HandlersInv' /\ AnswersInv(answers)'
    BY <1>0, <2>1 DEF RowsInv, TrueRows, HandlersInv, HadAccess, AnswersInv
  <2>5. ReadersHadAccess' /\ UnpinsFollowRejection'
    BY <1>0, <2>1 DEF ReadersHadAccess, UnpinsFollowRejection
  <2> QED
    BY <2>2, <2>3, <2>4, <2>5 DEF ReaderInv
<1> QED
  BY <1>1, <1>2

\* What handleFetchInboxKeys leaves; the decisions stay.
LEMMA InboxChanges ==
    ASSUME ReaderInv, UNCHANGED <<rights, reader, page, rows, opening, ever, opened>>,
           loading' \subseteq LoadRecs, \A l \in loading' : TrueRows(l.latest),
           AnswersInv(answers'), tabKeys' \subseteq ReaderDocs,
           inboxRun' \in FetchRecs, TrueRows(inboxRun'.latest), inboxRun'.at # "idle" => inboxRun'.of \in Readers,
           inboxRun'.at = "unseal" => inboxRun'.todo # <<>> /\ HadAccess(inboxRun'.of, Head(inboxRun'.todo).doc),
           \A p \in taken' : <<p[1], p[2], "approved">> \in ever,
           \A p \in unpins' : \E a \in Readers : <<a, p[2], "rejected">> \in ever
    PROVE  ReaderInv'
<1>1. ReaderTypes'
  BY DEF ReaderInv, ReaderTypes, AnswersInv
<1>2. RightsInv' /\ RowsInv' /\ AnswersInv(answers)'
  BY DEF ReaderInv, RightsInv, RowsInv, TrueRows, HadAccess, AnswersInv
<1>3. HandlersInv'
  BY DEF ReaderInv, HandlersInv, HadAccess
<1>4. ReadersHadAccess' /\ UnpinsFollowRejection'
  BY DEF ReaderInv, ReadersHadAccess, UnpinsFollowRejection
<1> QED
  BY <1>1, <1>2, <1>3, <1>4 DEF ReaderInv

\* The inbox is fetched, checked and stored.
LEMMA InboxSteps ==
    ASSUME ReaderInv,
           \/ CheckEnvelope \/ StoreEnvelope \/ FetchEnds
           \/ \E list \in UNION {[1 .. n -> Envelopes] : n \in 0 .. 2} : FetchInboxKeys(list)
    PROVE  ReaderInv'
<1>0. /\ ReaderTypes /\ AnswersInv(answers) /\ TrueRows(rows.latest) /\ TrueRows(inboxRun.latest)
      /\ loading \subseteq LoadRecs /\ \A k \in loading : TrueRows(k.latest)
      /\ HandlersInv /\ ReadersHadAccess /\ UnpinsFollowRejection /\ inboxRun \in FetchRecs
  BY DEF ReaderInv, ReaderTypes, RowsInv
<1>1. /\ \A p \in taken : <<p[1], p[2], "approved">> \in ever
      /\ \A p \in unpins : \E a \in Readers : <<a, p[2], "rejected">> \in ever
  BY <1>0 DEF ReadersHadAccess, UnpinsFollowRejection
<1>2. ASSUME inboxRun.at # "idle", inboxRun.todo # <<>>
      PROVE  /\ Head(inboxRun.todo) \in Envelopes /\ Head(inboxRun.todo).doc \in ReaderDocs
             /\ Tail(inboxRun.todo) \in Seq(Envelopes) /\ inboxRun.of \in Readers
             /\ (Skip => /\ inboxRun' \in FetchRecs /\ inboxRun'.latest = inboxRun.latest
                         /\ inboxRun'.of \in Readers /\ inboxRun'.at = "check")
  <2>1. inboxRun.todo \in Seq(Envelopes) /\ inboxRun.of \in Readers
    BY <1>0, <1>2 DEF FetchRecs, HandlersInv
  <2>2. Head(inboxRun.todo) \in Envelopes /\ Tail(inboxRun.todo) \in Seq(Envelopes)
    BY <1>2, <2>1
  <2>3. Head(inboxRun.todo).doc \in ReaderDocs
    BY <2>2 DEF Envelopes
  <2>4. Skip => inboxRun' \in FetchRecs /\ inboxRun'.latest = inboxRun.latest /\ inboxRun'.of \in Readers /\ inboxRun'.at = "check"
    BY <1>0, <2>1, <2>2 DEF Skip, FetchRecs
  <2> QED
    BY <2>1, <2>2, <2>3, <2>4
<1>3. ASSUME NEW list \in UNION {[1 .. n -> Envelopes] : n \in 0 .. 2}, FetchInboxKeys(list) PROVE ReaderInv'
  <2>1. reader \in Readers /\ rows.latest \in LatestMaps /\ LatestByDoc(list) \in Seq(Envelopes)
    BY <1>0, <1>3, LatestByDocType DEF FetchInboxKeys, ReaderTypes
  <2>2. inboxRun' \in FetchRecs /\ inboxRun'.latest = rows.latest /\ inboxRun'.of = reader /\ inboxRun'.at = "check"
    BY <1>3, <2>1 DEF FetchInboxKeys, FetchRecs
  <2> QED
    BY <1>0, <1>1, <1>3, <2>1, <2>2, InboxChanges DEF FetchInboxKeys, ReaderTypes
<1>4. CASE CheckEnvelope
  <2> DEFINE e == Head(inboxRun.todo)
  <2>1. /\ inboxRun.at = "check" /\ inboxRun.todo # <<>> /\ e \in Envelopes /\ e.doc \in ReaderDocs /\ inboxRun.of \in Readers
        /\ UNCHANGED <<rights, reader, page, rows, loading, tabKeys, opening, ever, opened, taken>>
    BY <1>2, <1>4 DEF CheckEnvelope
  <2>2. \/ Skip /\ UNCHANGED <<answers, unpins>>
        \/ /\ answers' = Answered(inboxRun.of, {e.doc}) /\ Answer(inboxRun.of, e.doc)
           /\ inboxRun' = [inboxRun EXCEPT !.at = "unseal"] /\ UNCHANGED unpins
        \/ /\ answers' = Answered(inboxRun.of, {e.doc}) /\ Skip
           /\ unpins' = IF inboxRun.latest[e.doc] = "rejected" THEN unpins \cup {<<inboxRun.of, e.doc>>} ELSE unpins
    BY <1>4 DEF CheckEnvelope
  <2>3. Skip => inboxRun' \in FetchRecs /\ inboxRun'.latest = inboxRun.latest /\ inboxRun'.of \in Readers /\ inboxRun'.at = "check"
    BY <1>2, <2>1
  <2>4. AnswersInv(Answered(inboxRun.of, {e.doc}))
    BY <2>1, AnsweredKeeps
  <2>5. Answer(inboxRun.of, e.doc) => HadAccess(inboxRun.of, e.doc)
    BY <2>1, AnswerIs
  <2> HIDE DEF e
  <2>6. CASE Skip /\ UNCHANGED <<answers, unpins>>
    BY <1>0, <1>1, <2>1, <2>3, <2>6, InboxChanges DEF ReaderTypes
  <2>7. CASE /\ answers' = Answered(inboxRun.of, {e.doc}) /\ Answer(inboxRun.of, e.doc)
             /\ inboxRun' = [inboxRun EXCEPT !.at = "unseal"] /\ UNCHANGED unpins
    <3>1. inboxRun' \in FetchRecs /\ inboxRun'.latest = inboxRun.latest /\ inboxRun'.of = inboxRun.of /\ inboxRun'.todo = inboxRun.todo
      BY <1>0, <2>7 DEF FetchRecs
    <3>2. HadAccess(inboxRun'.of, Head(inboxRun'.todo).doc)
      BY <2>5, <2>7, <3>1 DEF e
    <3> QED
      BY <1>0, <1>1, <2>1, <2>4, <2>7, <3>1, <3>2, InboxChanges DEF ReaderTypes
  <2>8. CASE /\ answers' = Answered(inboxRun.of, {e.doc}) /\ Skip
             /\ unpins' = IF inboxRun.latest[e.doc] = "rejected" THEN unpins \cup {<<inboxRun.of, e.doc>>} ELSE unpins
    <3>1. ASSUME NEW p \in unpins' PROVE \E a \in Readers : <<a, p[2], "rejected">> \in ever
      <4>1. CASE p \in unpins
        BY <1>1, <4>1
      <4>2. CASE p \notin unpins
        <5>1. inboxRun.latest[e.doc] = "rejected" /\ p = <<inboxRun.of, e.doc>>
          BY <2>8, <4>2
        <5>2. p[2] = e.doc
          BY <5>1
        <5> QED
          BY <1>0, <2>1, <5>1, <5>2 DEF TrueRows
      <4> QED
        BY <4>1, <4>2
    <3> QED
      BY <1>0, <1>1, <2>1, <2>3, <2>4, <2>8, <3>1, InboxChanges DEF ReaderTypes
  <2> QED
    BY <2>2, <2>6, <2>7, <2>8
<1>5. CASE StoreEnvelope
  <2> DEFINE e == Head(inboxRun.todo)
  <2>1. /\ inboxRun.at = "unseal" /\ inboxRun.todo # <<>> /\ HadAccess(inboxRun.of, e.doc)
        /\ UNCHANGED <<rights, reader, page, rows, loading, answers, opening, unpins, ever, opened>>
    BY <1>0, <1>5 DEF StoreEnvelope, HandlersInv
  <2>2. e.doc \in ReaderDocs /\ inboxRun.of \in Readers /\ Tail(inboxRun.todo) \in Seq(Envelopes)
    BY <1>2, <2>1
  <2>3. CASE e.kind = "readable"
    <3>1. /\ tabKeys' = tabKeys \cup {e.doc} /\ taken' = taken \cup {<<inboxRun.of, e.doc>>}
          /\ inboxRun' = [inboxRun EXCEPT !.todo = Tail(@), !.at = "check", !.imported = TRUE]
      BY <1>5, <2>3 DEF StoreEnvelope
    <3>2. inboxRun' \in FetchRecs /\ inboxRun'.latest = inboxRun.latest /\ inboxRun'.of = inboxRun.of /\ inboxRun'.at = "check"
      BY <1>0, <2>2, <3>1 DEF FetchRecs
    <3>3. ASSUME NEW p \in taken' PROVE <<p[1], p[2], "approved">> \in ever
      <4>1. CASE p \in taken
        BY <1>1, <4>1
      <4>2. CASE p = <<inboxRun.of, e.doc>>
        <5>1. p[1] = inboxRun.of /\ p[2] = e.doc
          BY <4>2
        <5> QED
          BY <2>1, <5>1 DEF HadAccess
      <4> QED
        BY <3>1, <4>1, <4>2
    <3>4. tabKeys' \subseteq ReaderDocs
      BY <1>0, <2>2, <3>1 DEF ReaderTypes
    <3> HIDE DEF e
    <3> QED
      BY <1>0, <1>1, <2>1, <2>2, <3>2, <3>3, <3>4, InboxChanges
  <2>4. CASE e.kind # "readable"
    <3>1. Skip /\ UNCHANGED <<tabKeys, taken>>
      BY <1>5, <2>4 DEF StoreEnvelope
    <3>2. inboxRun' \in FetchRecs /\ inboxRun'.latest = inboxRun.latest /\ inboxRun'.of \in Readers /\ inboxRun'.at = "check"
      BY <1>2, <2>1, <3>1
    <3> QED
      BY <1>0, <1>1, <2>1, <3>1, <3>2, InboxChanges DEF ReaderTypes
  <2> QED
    BY <2>3, <2>4
<1>6. CASE FetchEnds
  <2>1. inboxRun.of \in Readers /\ inboxRun' = NoFetch /\ UNCHANGED <<rights, reader, page, rows, answers, tabKeys, opening, unpins, ever, opened, taken>>
    BY <1>0, <1>6 DEF FetchEnds, HandlersInv
  <2>2. loading' \subseteq LoadRecs /\ \A k \in loading' : TrueRows(k.latest)
    BY <1>0, <1>6, <2>1, StartLoadKeeps DEF FetchEnds
  <2>3. NoFetch \in FetchRecs /\ NoFetch.latest = NoRequests /\ NoFetch.at = "idle"
    <3>1. <<>> \in Seq(Envelopes)
      OBVIOUS
    <3> QED
      BY <3>1, LoadStarts DEF NoFetch, FetchRecs
  <2> QED
    BY <1>0, <1>1, <2>1, <2>2, <2>3, LoadStarts, InboxChanges DEF ReaderTypes
<1> QED
  BY <1>3, <1>4, <1>5, <1>6

\* A document is opened, after its access was confirmed.
LEMMA OpenSteps ==
    ASSUME ReaderInv,
           \/ CheckAccess \/ \E d \in ReaderDocs : OpenDocument(d)
           \/ \E b \in BOOLEAN : Decrypt(b)
    PROVE  ReaderInv'
<1>0. /\ ReaderTypes /\ RightsInv /\ AnswersInv(answers) /\ RowsInv /\ HandlersInv /\ ReadersHadAccess
      /\ UnpinsFollowRejection /\ opening \in OpenRecs
  BY DEF ReaderInv, ReaderTypes
<1>1. /\ UNCHANGED <<rights, reader, page, loading, tabKeys, inboxRun, unpins, ever, taken>>
  BY DEF CheckAccess, OpenDocument, Decrypt
<1>2. rows \in [active : SUBSET ReaderDocs, latest : LatestMaps] /\ \A p \in opened : <<p[1], p[2], "approved">> \in ever
  BY <1>0 DEF ReaderTypes, ReadersHadAccess
<1>3. NoOpening \in OpenRecs /\ NoOpening.at = "idle"
  BY DEF NoOpening, OpenRecs
<1> DEFINE Done == /\ rows' \in [active : SUBSET ReaderDocs, latest : LatestMaps] /\ rows'.latest = rows.latest
                   /\ AnswersInv(answers') /\ opening' \in OpenRecs
                   /\ (opening'.at # "idle" => opening'.of \in Readers /\ opening'.doc \in ReaderDocs)
                   /\ (opening'.at = "fetch" => HadAccess(opening'.of, opening'.doc))
                   /\ \A p \in opened' : <<p[1], p[2], "approved">> \in ever
<1>4. ASSUME CheckAccess PROVE Done
  <2> DEFINE a == opening.of
             d == opening.doc
  <2>1. a \in Readers /\ d \in ReaderDocs
    BY <1>0, <1>4 DEF CheckAccess, HandlersInv
  <2>2. /\ answers' = Answered(a, {d}) /\ opened' = opened
        /\ rows' = IF page = "access" THEN rows
                   ELSE [rows EXCEPT !.active = IF Answer(a, d) THEN @ \cup {d} ELSE @ \ {d}]
        /\ \/ opening' = NoOpening
           \/ Answer(a, d) /\ opening' = [opening EXCEPT !.at = "fetch"]
    BY <1>4 DEF CheckAccess, Allowed
  <2>3. AnswersInv(answers') /\ (Answer(a, d) => HadAccess(a, d))
    BY <2>1, <2>2, AnsweredKeeps, AnswerIs
  <2>4. rows' \in [active : SUBSET ReaderDocs, latest : LatestMaps] /\ rows'.latest = rows.latest
    BY <1>2, <2>1, <2>2
  <2>5. /\ opening' \in OpenRecs
        /\ (opening'.at # "idle" => opening'.of \in Readers /\ opening'.doc \in ReaderDocs)
        /\ (opening'.at = "fetch" => HadAccess(opening'.of, opening'.doc))
    <3>1. CASE opening' = NoOpening
      BY <1>3, <3>1
    <3>2. CASE Answer(a, d) /\ opening' = [opening EXCEPT !.at = "fetch"]
      <4>1. opening' \in OpenRecs /\ opening'.of = a /\ opening'.doc = d
        BY <1>0, <3>2 DEF OpenRecs
      <4> QED
        BY <2>1, <2>3, <3>2, <4>1
    <3> QED
      BY <2>2, <3>1, <3>2
  <2> QED
    BY <1>2, <2>2, <2>3, <2>4, <2>5
<1>5. ASSUME NEW d \in ReaderDocs, OpenDocument(d) PROVE Done
  <2>1. reader \in Readers /\ opening' = [of |-> reader, doc |-> d, at |-> "check"] /\ UNCHANGED <<rows, answers, opened>>
    BY <1>0, <1>5 DEF OpenDocument, ReaderTypes
  <2>2. opening' \in OpenRecs /\ opening'.at = "check" /\ opening'.of = reader /\ opening'.doc = d
    BY <2>1 DEF OpenRecs
  <2> QED
    BY <1>0, <1>2, <2>1, <2>2
<1>6. ASSUME NEW b \in BOOLEAN, Decrypt(b) PROVE Done
  <2>1. /\ opening.at = "fetch" /\ opening' = NoOpening /\ UNCHANGED <<rows, answers>>
        /\ opened' \subseteq opened \cup {<<opening.of, opening.doc>>}
    BY <1>6 DEF Decrypt
  <2>2. <<opening.of, opening.doc, "approved">> \in ever
    BY <1>0, <2>1 DEF HandlersInv, HadAccess
  <2>3. ASSUME NEW p \in opened' PROVE <<p[1], p[2], "approved">> \in ever
    <3>1. CASE p \in opened
      BY <1>2, <3>1
    <3>2. CASE p = <<opening.of, opening.doc>>
      <4>1. p[1] = opening.of /\ p[2] = opening.doc
        BY <3>2
      <4> QED
        BY <2>2, <4>1
    <3> QED
      BY <2>1, <3>1, <3>2
  <2> QED
    BY <1>0, <1>2, <1>3, <2>1, <2>3
<1>7. Done
  BY <1>4, <1>5, <1>6
<1>8. ReaderTypes' /\ RightsInv'
  BY <1>0, <1>1, <1>7 DEF ReaderTypes, RightsInv, AnswersInv
<1>9. RowsInv' /\ HandlersInv' /\ AnswersInv(answers)'
  BY <1>0, <1>1, <1>7 DEF RowsInv, TrueRows, HandlersInv, HadAccess, AnswersInv
<1>10. ReadersHadAccess' /\ UnpinsFollowRejection'
  BY <1>0, <1>1, <1>7 DEF ReadersHadAccess, UnpinsFollowRejection
<1> QED
  BY <1>8, <1>9, <1>10 DEF ReaderInv

\* Every step of the screens keeps the invariant.
LEMMA ReaderStepKeeps == ReaderInv /\ [ReaderNext]_readerVars => ReaderInv'
<1> SUFFICES ASSUME ReaderInv, [ReaderNext]_readerVars PROVE ReaderInv'
  OBVIOUS
<1>1. CASE \E l \in loading : ReadAccess(l) \/ ReadRequests(l) \/ LoadLands(l) \/ LoadFails(l)
  BY <1>1, LoadSteps
<1>2. CASE \/ UNCHANGED readerVars \/ AnswerExpires \/ Navigate
           \/ \E a \in Readers \cup {Nobody} : ChangeAccount(a)
           \/ \E p \in Packages : ImportKeyBackup(p)
  BY <1>2, ScreenSteps
<1>3. CASE \/ CheckEnvelope \/ StoreEnvelope \/ FetchEnds
           \/ \E list \in UNION {[1 .. n -> Envelopes] : n \in 0 .. 2} : FetchInboxKeys(list)
  BY <1>3, InboxSteps
<1>4. CASE \/ CheckAccess \/ \E d \in ReaderDocs : OpenDocument(d)
           \/ \E b \in BOOLEAN : Decrypt(b)
  BY <1>4, OpenSteps
<1>5. CASE \/ \E d \in ReaderDocs, b \in BOOLEAN : RequestAccess(d, b)
           \/ \E a \in Readers, d \in ReaderDocs, s \in Requested : Decide(a, d, s)
  BY <1>5, RequestSteps
<1> QED
  BY <1>1, <1>2, <1>3, <1>4, <1>5 DEF ReaderNext

\* Types, and what the screens may do.
LEMMA ReaderCorrect == ReaderInv => ReaderTypeOK /\ ReadersHadAccess /\ UnpinsFollowRejection
BY DEF ReaderInv, ReaderTypes, ReaderTypeOK, AnswersInv

-----------------------------------------------------------------------------
(* Types of the parts that no other invariant bounds.                      *)

RunRecs == [chain : {"evm", "soroban"}, rest : SUBSET Vaults, due : SUBSET Vaults]

\* A cycle extends what it scanned, within its attempts.
CycleOk(c) == c \in CycleRecs /\ c.todo \subseteq Scanned /\ c.tries <= MaxRetries

UpkeepInv ==
    /\ now \in 0 .. MaxUpkeepTime /\ live \in [Entries -> Nat] /\ sequence \in Nat
    /\ \A c \in cycles : CycleOk(c) /\ c.latest <= now
    /\ keeperBeat \in [Vaults -> 0 .. now] /\ run \in RunRecs /\ run.due \subseteq run.rest

\* Initially there is neither a cycle nor a run.
LEMMA UpkeepInitial == UpkeepInit => UpkeepInv
<1> SUFFICES ASSUME UpkeepInit PROVE UpkeepInv
  OBVIOUS
<1>1. TtlThreshold \in Nat /\ MaxUpkeepTime \in Nat
  BY UpkeepConstants
<1>2. /\ now = 0 /\ live \in [Entries -> {TtlThreshold, TtlThreshold + 1}] /\ cycles = {} /\ sequence = 0
      /\ keeperBeat = [v \in Vaults |-> 0] /\ run = NoRun
  BY DEF UpkeepInit
<1>3. live \in [Entries -> Nat]
  BY <1>1, <1>2
<1>4. run \in RunRecs /\ run.due \subseteq run.rest
  BY <1>2 DEF NoRun, RunRecs
<1> QED
  BY <1>1, <1>2, <1>3, <1>4 DEF UpkeepInv

\* Steps of a cycle.
LEMMA CycleTypes ==
    ASSUME UpkeepInv, NEW c \in cycles, CycleSteps(c)
    PROVE  UpkeepInv'
<1>0. MaxTtl \in Nat /\ MaxEntries \in Nat /\ MaxRetries \in Nat /\ now \in Nat
  BY UpkeepConstants DEF UpkeepInv
<1>1. /\ c \in CycleRecs /\ c.todo \subseteq Scanned /\ c.tries \in Nat /\ c.tries <= MaxRetries /\ c.latest <= now
      /\ c.next \in Nat \ {0} /\ c.latest \in Nat
  BY DEF UpkeepInv, CycleOk, CycleRecs
<1>2. Scanned \subseteq Nat
  BY ScannedAreEntries
<1>3. UNCHANGED <<now, keeperBeat, run>>
  BY DEF CycleSteps, ScanEntry, ScanFails, CountFails, Prepare, Send, SendFails, GiveUp, EndCycle, keeperVars
<1>4. sequence' \in Nat /\ live' \in [Entries -> Nat]
  <2>1. sequence + 1 \in Nat /\ now + MaxTtl \in Nat
    BY <1>0 DEF UpkeepInv
  <2>2. Extended(c) => live' \in [Entries -> Nat]
    BY <2>1 DEF Extended, UpkeepInv
  <2> QED
    BY <2>1, <2>2 DEF UpkeepInv, CycleSteps, ScanEntry, ScanFails, CountFails, Prepare, Send,
                                   SendFails, GiveUp, EndCycle
<1>5. ASSUME NEW d, CycleOk(d), d.latest = c.latest, Becomes(c, d) PROVE UpkeepInv'
  BY <1>1, <1>3, <1>4, <1>5 DEF UpkeepInv, Becomes
<1>8. PICK s : s = TtlLeft(c) /\ s \subseteq Scanned
  BY <1>1 DEF TtlLeft
<1>a. s \subseteq Scanned /\ (\A x \in s : x \in Nat) /\ 0 <= MaxRetries
  BY <1>0, <1>2, <1>8
<1>9. CASE ScanEntry(c)
  <2>1. PICK a : a = IF live[c.next] >= now /\ Low(c.next, c.latest) THEN c.todo \cup {c.next} ELSE c.todo
    OBVIOUS
  <2>2. a \in SUBSET Scanned /\ c.next + 1 \in Nat \ {0}
    BY <1>1, <1>9, <2>1 DEF ScanEntry
  <2>3. Becomes(c, [c EXCEPT !.next = c.next + 1, !.todo = a])
    BY <1>9, <2>1 DEF ScanEntry
  <2>4. CycleOk([c EXCEPT !.next = c.next + 1, !.todo = a]) /\ [c EXCEPT !.next = c.next + 1, !.todo = a].latest = c.latest
    BY <1>1, <1>2, <2>2 DEF CycleOk, CycleRecs
  <2> QED
    BY <1>5, <2>3, <2>4
<1>10. CASE ScanFails(c)
  <2>1. Becomes(c, [c EXCEPT !.next = c.next + 1])
    BY <1>10 DEF ScanFails
  <2>2. CycleOk([c EXCEPT !.next = c.next + 1]) /\ [c EXCEPT !.next = c.next + 1].latest = c.latest
    BY <1>1 DEF CycleOk, CycleRecs
  <2> QED
    BY <1>5, <2>1, <2>2
<1>11. CASE CountFails(c)
  <2>1. Becomes(c, [c EXCEPT !.next = MaxEntries + 1])
    BY <1>11 DEF CountFails
  <2>2. CycleOk([c EXCEPT !.next = MaxEntries + 1]) /\ [c EXCEPT !.next = MaxEntries + 1].latest = c.latest
    BY <1>0, <1>1 DEF CycleOk, CycleRecs
  <2> QED
    BY <1>5, <2>1, <2>2
<1>12. CASE Prepare(c)
  <2>1. Becomes(c, [c EXCEPT !.seq = sequence + 1]) /\ sequence + 1 \in Nat
    BY <1>12 DEF Prepare, UpkeepInv
  <2>2. CycleOk([c EXCEPT !.seq = sequence + 1]) /\ [c EXCEPT !.seq = sequence + 1].latest = c.latest
    BY <1>1, <2>1 DEF CycleOk, CycleRecs
  <2> QED
    BY <1>5, <2>1, <2>2
<1>13. CASE Send(c)
  <2>1. Becomes(c, [c EXCEPT !.todo = s, !.tries = 0, !.seq = 0])
    BY <1>8, <1>13 DEF Send
  <2>2. CycleOk([c EXCEPT !.todo = s, !.tries = 0, !.seq = 0])
        /\ [c EXCEPT !.todo = s, !.tries = 0, !.seq = 0].latest = c.latest
    BY <1>1, <1>a DEF CycleOk, CycleRecs
  <2> QED
    BY <1>5, <2>1, <2>2
<1>14. CASE SendFails(c)
  <2>1. Becomes(c, [c EXCEPT !.tries = c.tries + 1, !.seq = 0]) /\ c.tries + 1 \in Nat /\ c.tries + 1 <= MaxRetries
    BY <1>0, <1>1, <1>14 DEF SendFails
  <2>2. CycleOk([c EXCEPT !.tries = c.tries + 1, !.seq = 0]) /\ [c EXCEPT !.tries = c.tries + 1, !.seq = 0].latest = c.latest
    BY <1>1, <2>1 DEF CycleOk, CycleRecs
  <2> QED
    BY <1>5, <2>1, <2>2
<1>15. CASE GiveUp(c)
  <2>1. Becomes(c, [c EXCEPT !.todo = s, !.tries = 0])
    BY <1>8, <1>15 DEF GiveUp
  <2>2. CycleOk([c EXCEPT !.todo = s, !.tries = 0]) /\ [c EXCEPT !.todo = s, !.tries = 0].latest = c.latest
    BY <1>1, <1>a DEF CycleOk, CycleRecs
  <2> QED
    BY <1>5, <2>1, <2>2
<1>16. CASE EndCycle(c)
  BY <1>3, <1>4, <1>16 DEF UpkeepInv, EndCycle
<1> QED
  BY <1>9, <1>10, <1>11, <1>12, <1>13, <1>14, <1>15, <1>16 DEF CycleSteps

\* Steps of a run.
LEMMA RunTypes ==
    ASSUME UpkeepInv, UNCHANGED <<now, live, cycles, sequence>>, run' \in RunRecs, run'.due \subseteq run'.rest,
           NEW v \in Vaults, keeperBeat' = keeperBeat \/ keeperBeat' = [keeperBeat EXCEPT ![v] = now]
    PROVE  UpkeepInv'
<1>1. now \in Nat /\ now \in 0 .. now /\ keeperBeat \in [Vaults -> 0 .. now]
  BY DEF UpkeepInv
<1>2. keeperBeat' \in [Vaults -> 0 .. now]
  BY <1>1
<1> QED
  BY <1>2 DEF UpkeepInv

\* Both scripts keep to their records.
LEMMA UpkeepStepKeeps == UpkeepInv /\ [TtlNext \/ KeeperNext]_upkeepVars => UpkeepInv'
<1> SUFFICES ASSUME UpkeepInv, [TtlNext \/ KeeperNext]_upkeepVars PROVE UpkeepInv'
  OBVIOUS
<1>0. /\ now \in Nat /\ now \in 0 .. MaxUpkeepTime /\ MaxUpkeepTime \in Nat /\ sequence \in Nat /\ MaxRetries \in Nat
      /\ keeperBeat \in [Vaults -> 0 .. now] /\ run \in RunRecs /\ run.due \subseteq run.rest
  BY UpkeepConstants DEF UpkeepInv
<1>1. CASE UNCHANGED upkeepVars
  BY <1>1 DEF UpkeepInv, upkeepVars, ttlVars, keeperVars
<1>2. CASE TtlTick \/ KeeperTick
  <2>1. now < MaxUpkeepTime /\ now' = now + 1 /\ UNCHANGED <<live, cycles, sequence, keeperBeat, run>>
    BY <1>2 DEF TtlTick, KeeperTick, ttlVars, keeperVars
  <2>2. now + 1 \in 0 .. MaxUpkeepTime
    BY <1>0, <2>1
  <2>3. \A c \in cycles : CycleOk(c) /\ c.latest <= now + 1
    <3> TAKE c \in cycles
    <3>1. CycleOk(c) /\ c.latest <= now /\ c.latest \in Nat
      BY DEF UpkeepInv, CycleOk, CycleRecs
    <3> QED
      BY <1>0, <3>1
  <2>4. keeperBeat \in [Vaults -> 0 .. (now + 1)]
    BY <1>0
  <2> QED
    BY <2>1, <2>2, <2>3, <2>4 DEF UpkeepInv
<1>3. CASE StartCycle
  <2>1. PICK d : d = [latest |-> now, next |-> 1, todo |-> {}, seq |-> sequence, tries |-> 0]
    OBVIOUS
  <2>2. CycleOk(d) /\ d.latest <= now
    BY <1>0, <2>1 DEF CycleOk, CycleRecs
  <2>3. cycles' = cycles \cup {d} /\ UNCHANGED <<now, live, sequence, keeperBeat, run>>
    BY <1>3, <2>1 DEF StartCycle, keeperVars
  <2> QED
    BY <2>2, <2>3 DEF UpkeepInv
<1>4. ASSUME NEW c \in cycles, CycleSteps(c) PROVE UpkeepInv'
  BY <1>4, CycleTypes
<1>5. ASSUME NEW chain \in {"evm", "soroban"}, StartRun(chain) PROVE UpkeepInv'
  <2>1. run' = [chain |-> chain, rest |-> Vaults, due |-> {}] /\ UNCHANGED <<now, live, cycles, sequence, keeperBeat>>
    BY <1>5 DEF StartRun, ttlVars
  <2>2. run' \in RunRecs /\ run'.due \subseteq run'.rest
    BY <2>1 DEF RunRecs
  <2> QED
    BY <2>1, <2>2 DEF UpkeepInv
<1>6. ASSUME NEW v \in Vaults, Check(v) PROVE UpkeepInv'
  <2>1. /\ v \in run.rest /\ run.due = {} /\ UNCHANGED <<now, live, cycles, sequence, keeperBeat>>
        /\ (run' = [run EXCEPT !.due = {v}] \/ run' = [run EXCEPT !.rest = @ \ {v}])
    BY <1>6 DEF Check, First, ttlVars
  <2>2. run' \in RunRecs /\ run'.due \subseteq run'.rest
    BY <1>0, <2>1 DEF RunRecs
  <2> QED
    BY <2>1, <2>2, RunTypes
<1>7. ASSUME NEW v \in Vaults, Beat(v) PROVE UpkeepInv'
  <2>1. /\ keeperBeat' = [keeperBeat EXCEPT ![v] = now] /\ run' = [run EXCEPT !.due = {}, !.rest = @ \ {v}]
        /\ UNCHANGED <<now, live, cycles, sequence>>
    BY <1>7 DEF Beat, ttlVars
  <2>2. run' \in RunRecs /\ run'.due \subseteq run'.rest
    BY <1>0, <2>1 DEF RunRecs
  <2> QED
    BY <2>1, <2>2, RunTypes
<1>8. ASSUME NEW v \in Vaults, KeeperFails(v) PROVE UpkeepInv'
  <2>1. run' = NoRun /\ UNCHANGED <<now, live, cycles, sequence, keeperBeat>>
    BY <1>8 DEF KeeperFails, ttlVars
  <2>2. run' \in RunRecs /\ run'.due \subseteq run'.rest
    BY <2>1 DEF NoRun, RunRecs
  <2> QED
    BY <2>1, <2>2, RunTypes
<1>9. ASSUME NEW v \in Vaults, Revoke(v) PROVE UpkeepInv'
  BY <1>9 DEF Revoke, UpkeepInv, ttlVars
<1> QED
  BY <1>1, <1>2, <1>3, <1>4, <1>5, <1>6, <1>7, <1>8, <1>9 DEF TtlNext, KeeperNext, CycleSteps

\* The type invariants of these parts.
LEMMA TypesCorrect ==
    /\ CrossInv => CrossTypeOK
    /\ UpkeepInv => UpkeepTypeOK
    /\ LifeInv /\ WaitInv /\ TokenInv /\ VoteInv => SorobanVaultTypeOK
<1>1. ASSUME CrossInv PROVE CrossTypeOK
  BY <1>1, CrossChainAssumptions DEF CrossInv, RevocationInv, BeatInv, RegistryInv, CrossTypeOK
<1>2. ASSUME UpkeepInv PROVE UpkeepTypeOK
  BY <1>2 DEF UpkeepInv, CycleOk, RunRecs, UpkeepTypeOK
<1>3. ASSUME LifeInv, WaitInv, TokenInv, VoteInv PROVE SorobanVaultTypeOK
  <2>1. RecordInv
    BY <1>3 DEF VoteInv
  <2>2. \A r \in DOMAIN asked : Len(asked[r].approved_by) <= Cardinality(Folk)
    <3> TAKE r \in DOMAIN asked
    <3>1. /\ IsFiniteSet(Range(asked[r].approved_by))
          /\ Cardinality(Range(asked[r].approved_by)) = Len(asked[r].approved_by)
          /\ Range(asked[r].approved_by) = {g \in Folk : <<r, g>> \in approvedReq}
      BY <1>3 DEF VoteInv, Tallied, Tally
    <3>2. Range(asked[r].approved_by) \in SUBSET Folk
      BY <3>1
    <3>3. Cardinality(Range(asked[r].approved_by)) <= Cardinality(Folk)
      BY <3>2, FolkFinite, FS_Subset
    <3> QED
      BY <3>1, <3>3
  <2>3. Range(papers) \subseteq [by : Folk, condition : Conditions] /\ Range(tokenOwner) \subseteq Folk \cup {Nil}
    <3>1. papers \in Seq([by : Folk, condition : Conditions]) /\ tokenOwner \in Seq(Folk \cup {Nil})
      BY <1>3, <2>1 DEF RecordInv, TokenInv
    <3>2. \A S, s : s \in Seq(S) => \A i \in DOMAIN s : s[i] \in S
      OBVIOUS
    <3>3. /\ \A i \in DOMAIN papers : papers[i] \in [by : Folk, condition : Conditions]
          /\ \A i \in DOMAIN tokenOwner : tokenOwner[i] \in Folk \cup {Nil}
      BY <3>1, <3>2, Zenon
    <3> QED
      BY <3>3 DEF Range
  <2>4. schedule # Nil => schedule.cycle \in 1 .. cycle
    BY <1>3 DEF LifeInv, WaitInv, ScheduleRecs
  <2> QED
    BY <1>3, <2>1, <2>2, <2>3, <2>4 DEF RecordInv, WaitInv, SorobanVaultTypeOK
<1> QED
  BY <1>1, <1>2, <1>3

-----------------------------------------------------------------------------
(* All parts together.                                                     *)

chainsVars == <<part, logVars, viewVars, storeVars, sorobanVars, crossVars, gasVars, upkeepVars,
                readerVars, sorobanVaultVars>>

ChainsInv ==
    /\ LogsInv /\ ViewsInv /\ ReaderInv /\ UpkeepInv
    /\ CrossInv /\ GasInv /\ ScheduleInv /\ StoreInv /\ CallsInv
    /\ LifeInv /\ PaperInv /\ WaitInv /\ TokenInv /\ UpgradeInv /\ VoteInv
    /\ part = "ttl" => TtlInv
    /\ part = "keepers" => KeeperInv

\* What a step may do to heartbeats, drawn delays, access and signs of life.
StepsNeverUndo == BeatsExtend /\ DrawnOnce /\ AccessDecided /\ Stands

\* Each part starts in its invariant.
LEMMA ChainsInitial == ChainsInit => ChainsInv
<1> SUFFICES ASSUME ChainsInit PROVE ChainsInv OBVIOUS
<1>1. StoreInit /\ SorobanInit /\ CrossInit /\ GasInit /\ UpkeepInit /\ SorobanVaultInit BY DEF ChainsInit
<1>2. GasInv BY <1>1, GasInitial DEF GasInv
<1>3. StoreInv /\ CallsInv /\ WaitInv /\ TokenInv /\ UpgradeInv /\ VoteInv
  BY <1>1, StoreInitial, CallsInitial, WaitInitial, TokenInitial, UpgradeInitial, VoteInitial
<1>4. LogsInv /\ ViewsInv /\ ReaderInv BY LogsInitial, ViewsInitial, ReaderInitial DEF ChainsInit
<1>5. UpkeepInv BY <1>1, UpkeepInitial
<1> QED BY <1>1, <1>2, <1>3, <1>4, <1>5, CrossInitial, ScheduleInitial, LifeInitial, PaperInitial, TtlInitial, KeeperInitial
        DEF ChainsInv

\* A step of one part leaves the others alone.
LEMMA StepsOfParts ==
    ASSUME [ChainsNext]_chainsVars
    PROVE  /\ [LogsNext]_logVars /\ [ViewsNext]_viewVars /\ [ReaderNext]_readerVars
           /\ [CrossNext]_crossVars /\ [GasNext]_gasVars /\ [ScheduleNext]_storeVars
           /\ [SorobanNext]_sorobanVars /\ [SorobanVaultNext]_sorobanVaultVars /\ part' = part
           /\ [TtlNext \/ KeeperNext]_upkeepVars
           /\ part = "ttl" => [TtlNext]_upkeepVars
           /\ part = "keepers" => [KeeperNext]_upkeepVars
<1>1. CASE UNCHANGED chainsVars BY <1>1 DEF chainsVars
<1>2. CASE CrossStep BY <1>2 DEF CrossStep, CrossNext
<1>3. CASE GasStep BY <1>3 DEF GasStep
<1>4. CASE StoreStep BY <1>4 DEF StoreStep, ScheduleNext
<1>5. CASE VaultStep BY <1>5 DEF VaultStep, SorobanVaultNext
<1>6. CASE UpkeepStep BY <1>6 DEF UpkeepStep
<1>7. CASE LogsStep BY <1>7 DEF LogsStep
<1>8. CASE ViewsStep BY <1>8 DEF ViewsStep
<1>9. CASE SorobanStep BY <1>9 DEF SorobanStep
<1>10. CASE ReaderStep BY <1>10 DEF ReaderStep
<1> QED BY <1>1, <1>2, <1>3, <1>4, <1>5, <1>6, <1>7, <1>8, <1>9, <1>10 DEF ChainsNext

\* The invariant is kept, and no step undoes what came before it.
LEMMA ChainsStep == ChainsInv /\ [ChainsNext]_chainsVars => ChainsInv' /\ StepsNeverUndo
<1> SUFFICES ASSUME ChainsInv, [ChainsNext]_chainsVars PROVE ChainsInv' /\ StepsNeverUndo OBVIOUS
<1>1. /\ LogsInv /\ ViewsInv /\ ReaderInv /\ UpkeepInv
      /\ CrossInv /\ GasInv /\ ScheduleInv /\ StoreInv /\ CallsInv
      /\ LifeInv /\ PaperInv /\ WaitInv /\ TokenInv /\ UpgradeInv /\ VoteInv
      /\ part = "ttl" => TtlInv
      /\ part = "keepers" => KeeperInv
  BY DEF ChainsInv
<1>2. CrossInv' /\ GasInv' /\ ScheduleInv' /\ LifeInv' /\ PaperInv' /\ StepsNeverUndo
  BY <1>1, StepsOfParts, CrossStepKeeps, GasStepKeeps, ScheduleStep, LifeStep, PaperStep DEF StepsNeverUndo
<1>3. part' = part /\ (part = "ttl" => TtlInv') /\ (part = "keepers" => KeeperInv')
  BY <1>1, StepsOfParts, TtlStepKeeps, KeeperStepKeeps
<1>4. StoreInv' /\ CallsInv' /\ WaitInv' /\ TokenInv' /\ UpgradeInv' /\ VoteInv'
  BY <1>1, StepsOfParts, StoreStepKeeps, CallsStep, WaitStep, TokenStep, UpgradeStep, VoteStep
<1>5. LogsInv' /\ ViewsInv' /\ ReaderInv'
  BY <1>1, StepsOfParts, LogsStepKeeps, ViewsStepKeeps, ReaderStepKeeps
<1>6. UpkeepInv'
  BY <1>1, StepsOfParts, UpkeepStepKeeps
<1> QED BY <1>2, <1>3, <1>4, <1>5, <1>6 DEF ChainsInv

\* The invariant holds always.
LEMMA Chains == ChainsSpec => []ChainsInv
BY ChainsInitial, ChainsStep, PTL DEF ChainsSpec, chainsVars

\* The state of every part keeps its type: a call is in one of its stages, a
\* cached list within the chain, a guardian's count within its window, a keeper
\* run at one vault, an emergency delay within the cycles there were and every
\* window and period within the contract's limits (contract.service.ts,
\* stellar.service.ts, SpooPaymaster.sol, the relayers, lib.rs).
THEOREM ChainsTyped == ChainsSpec => []ChainsTypeOK
<1>1. ChainsInv => LogsTypeOK /\ ViewsTypeOK /\ ReaderTypeOK
  BY LogsCorrect, ListsCorrect, ReaderCorrect DEF ChainsInv
<1>2. ChainsInv => StoreTypeOK /\ SorobanTypeOK /\ GasTypeOK
  BY StoreCorrect, CallsCorrect, GasCorrect DEF ChainsInv
<1>3. ChainsInv => CrossTypeOK /\ UpkeepTypeOK /\ SorobanVaultTypeOK
  BY TypesCorrect DEF ChainsInv
<1>4. ChainsInv => ChainsTypeOK BY <1>1, <1>2, <1>3 DEF ChainsTypeOK
<1> QED BY <1>4, Chains, PTL

\* Sponsored operations stay within what was paid for: the deposit backs the
\* balances, only bundles of one sponsor overdraw, the vault charged is the one
\* named and no guardian passes the rate (SpooPaymaster.sol).  Entries within
\* the scan limit and vaults with a keeper stay alive unless a failure was
\* reported (ttl-relayer, keeper relays).
THEOREM BudgetsCorrect == ChainsSpec => []BudgetsHold
<1>1. ChainsInv => BudgetsHold BY GasCorrect, TtlCorrect, KeeperCorrect DEF ChainsInv, BudgetsHold
<1> QED BY <1>1, Chains, PTL

\* What the pages show is what the contract has.  A list of logs holds every log
\* of its range once, whichever endpoints answered, failed or lagged; the account
\* finds each vault it created or guards, with its documents; passes shown are
\* held; requests offered can be decided and, within the scan and the limit, none
\* is missing; and the newest events of each kind contain the newest of all
\* (contract.service.ts).  No screen opens a document or takes a key for an
\* account that never had access (AccessCenter.tsx, Documents.tsx).
THEOREM ViewsCorrect == ChainsSpec => []ViewsAreComplete
<1>1. ChainsInv => ViewsAreComplete
  BY LogsCorrect, ListsCorrect, ReaderCorrect DEF ChainsInv, ViewsAreComplete
<1> QED BY <1>1, Chains, PTL

\* What a Stellar call reports is what the ledger or the local store did: an
\* outcome is the call's own, no two transactions of an account share a sequence
\* number, a stored request is approved by guardians of its vault and a delay is
\* drawn only after its confirmations (stellar.service.ts).  In the Soroban
\* contract (lib.rs) a request is approved by as many different guardians as the
\* threshold or by signatures over a nonce of their own, balances are the tokens
\* held, emergencies wait and the code is swapped by agreement alone.
THEOREM StellarCorrect == ChainsSpec => []StellarIsTruthful
<1>1. ChainsInv => OutcomesAreTrue /\ ReturnedIdIsOwn /\ NoTwoWithOneSequence
  BY CallsCorrect DEF ChainsInv
<1>2. ChainsInv => ApprovedByGuardians /\ UnlockIsDelayed
  BY StoreCorrect DEF ChainsInv, ScheduleInv
<1>3. ChainsInv => ApprovalsDecide /\ TokensAreCounted /\ EmergenciesWait /\ UpgradesAreAgreed
  BY VoteCorrect, TokenCorrect, WaitCorrect, UpgradeCorrect DEF ChainsInv
<1>4. ChainsInv => StellarIsTruthful
  BY <1>1, <1>2, <1>3 DEF StellarIsTruthful
<1> QED BY <1>4, Chains, PTL

\* Repeated, late or reordered, nothing that is relayed, drawn or decided undoes
\* what came after it (crossChainRelayer.service.ts, stellar.service.ts, lib.rs).
THEOREM RelaysCorrect == ChainsSpec => RelaysNeverUndo
<1>1. ChainsInv => RevocationsAppliedInOrder /\ ApprovalRelayedOnce /\ IdentitiesRoundTrip
  BY CrossCorrect DEF ChainsInv
<1>2. ChainsSpec => [](RevocationsAppliedInOrder /\ ApprovalRelayedOnce /\ IdentitiesRoundTrip)
  BY <1>1, Chains, PTL
<1>3. ChainsInv /\ [ChainsNext]_chainsVars => StepsNeverUndo BY ChainsStep
<1>4. ChainsSpec => HeartbeatsOnlyExtend
  <2>1. ChainsInv /\ [ChainsNext]_chainsVars => [BeatsExtend]_crossVars BY <1>3 DEF StepsNeverUndo
  <2> QED BY <2>1, Chains, PTL DEF ChainsSpec, chainsVars, HeartbeatsOnlyExtend, BeatsExtend
<1>5. ChainsSpec => UnlockDrawnOnce
  <2>1. ChainsInv /\ [ChainsNext]_chainsVars => [DrawnOnce]_storeVars BY <1>3 DEF StepsNeverUndo
  <2> QED BY <2>1, Chains, PTL DEF ChainsSpec, chainsVars, UnlockDrawnOnce, DrawnOnce
<1>6. ChainsSpec => AccessComesFromDecisions
  <2>1. ChainsInv /\ [ChainsNext]_chainsVars => [AccessDecided]_sorobanVaultVars BY <1>3 DEF StepsNeverUndo
  <2> QED BY <2>1, Chains, PTL DEF ChainsSpec, chainsVars, AccessComesFromDecisions, AccessDecided
<1>7. ChainsSpec => UnlocksStand
  <2>1. ChainsInv /\ [ChainsNext]_chainsVars => [Stands]_sorobanVaultVars BY <1>3 DEF StepsNeverUndo
  <2> QED BY <2>1, Chains, PTL DEF ChainsSpec, chainsVars, UnlocksStand, Stands
<1> QED BY <1>2, <1>4, <1>5, <1>6, <1>7, PTL DEF RelaysNeverUndo

=============================================================================
