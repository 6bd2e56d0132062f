------------------------------ MODULE ProofOfLife ------------------------------
(***************************************************************************)
(* Proof of life and the post-death release of contracts/SpooVault.sol:    *)
(* configureVaultRelease, proveLife, the keeper relay with its EIP-712     *)
(* authorisations, the ring buffer of timestamps, its median interval and  *)
(* _isPostDeathUnlocked.                                                   *)
(*                                                                         *)
(* The ring buffer is one for the whole contract, all vaults write to it.  *)
(* Calls by anyone but the creator of a vault revert and are no steps.     *)
(***************************************************************************)
EXTENDS Naturals, Sequences, FiniteSets, SequencesExt

CONSTANTS
    LivingVaults,
    Keepers, NoKeeper,     \* keeper addresses; address(0)
    Periods,               \* inactivity periods creators pass
    MinPeriod, MaxPeriod,  \* 1 day, 365 days
    DefaultPeriod,         \* 30 days, set by createVault
    DefaultInterval,       \* DEFAULT_BLOCK_INTERVAL
    RingSize,              \* BLOCK_HISTORY_SIZE
    Lifetimes,             \* lifetimes of the authorisations that are signed
    LifeBlockTimes,            \* how far the timestamp may move between two blocks
    MaxLifeTime, MaxLifeBlock,     \* bounds on the chain
    MaxSamples,            \* bound on the proofs of life recorded
    MaxGrants              \* bound on the keeper authorisations signed

ASSUME LifeAssumptions ==
    /\ NoKeeper \notin Keepers
    /\ Periods \subseteq Nat /\ Lifetimes \subseteq Nat /\ LifeBlockTimes \subseteq Nat
    /\ MinPeriod \in Nat \ {0} /\ MaxPeriod \in Nat /\ DefaultPeriod \in Nat
    /\ DefaultInterval \in Nat \ {0}
    /\ RingSize \in Nat \ {0}
    /\ MaxLifeTime \in Nat /\ MaxLifeBlock \in Nat
    /\ MaxSamples \in Nat /\ MaxGrants \in Nat

VARIABLES
    lifeTime, lifeBlock,
    release,       \* _vaultReleaseStates[v], without emergencyMode
    ring,          \* _blockTimestamps
    head,          \* _blockHistoryHead
    count,         \* _blockHistoryCount
    keeperAuth,    \* keeperAuthorizations[v]
    nonce,         \* keeperAuthNonces[v]
    signed,        \* external: the authorisations the creators signed so far
    samples,       \* history: every timestamp recorded, oldest first
    accepted       \* history: the authorisations v accepted, oldest first

ringVars == <<ring, head, count, samples>>
keeperVars == <<keeperAuth, nonce, signed, accepted>>
lifeVars == <<lifeTime, lifeBlock, release, ringVars, keeperVars>>

NoVaultYet == [period |-> 0, at |-> 0, atBlock |-> 0, targetBlocks |-> 0]
NoAuth == [keeper |-> NoKeeper, expiresAt |-> 0]

Grant == [vault : LivingVaults, keeper : Keepers, expiresAt : Nat, nonce : Nat]

\* Types. The ring of proofs of life, release settings and keeper authorisations have
\* their types.
LifeTypeOK ==
    /\ lifeTime \in Nat /\ lifeBlock \in Nat
    /\ release \in [LivingVaults -> [period : Nat, at : Nat, atBlock : Nat,
                               targetBlocks : Nat]]
    /\ ring \in [0 .. (RingSize - 1) -> Nat]
    /\ head \in 0 .. (RingSize - 1)
    /\ count \in 0 .. RingSize
    /\ keeperAuth \in [LivingVaults -> [keeper : Keepers \cup {NoKeeper},
                                  expiresAt : Nat]]
    /\ nonce \in [LivingVaults -> Nat]
    /\ signed \subseteq Grant
    /\ samples \in Seq(Nat)
    /\ accepted \in [LivingVaults -> Seq(Grant)]

LifeInit ==
    /\ lifeTime = 1 /\ lifeBlock = 1
    /\ release = [v \in LivingVaults |-> NoVaultYet]
    /\ ring = [i \in 0 .. (RingSize - 1) |-> 0]
    /\ head = 0
    /\ count = 0
    /\ keeperAuth = [v \in LivingVaults |-> NoAuth]
    /\ nonce = [v \in LivingVaults |-> 0]
    /\ signed = {}
    /\ samples = <<>>
    /\ accepted = [v \in LivingVaults |-> <<>>]

-----------------------------------------------------------------------------
(* getMedianBlockInterval                                                  *)

\* The recorded timestamps from the oldest kept one on.
Recent ==
    LET start == (head + RingSize - count) % RingSize
    IN  [i \in 1 .. count |-> ring[(start + i - 1) % RingSize]]

\* One round of the insertion sort: key goes behind the last entry that is not
\* larger.
Insert(sorted, key) ==
    LET j == Cardinality({i \in 1 .. Len(sorted) : sorted[i] <= key})
    IN  InsertAt(sorted, j + 1, key)

InsertionSort(seq) == FoldLeft(Insert, <<>>, seq)

Intervals(seq) == [i \in 1 .. (Len(seq) - 1) |-> seq[i + 1] - seq[i]]

\* The median of a sorted sequence, rounded down.
MiddleOf(s) ==
    LET n == Len(s)
    IN  IF n % 2 = 0 THEN (s[n \div 2] + s[n \div 2 + 1]) \div 2
                     ELSE s[n \div 2 + 1]

GetMedianBlockInterval ==
    IF count < 2 THEN DefaultInterval
    ELSE LET m == MiddleOf(InsertionSort(Intervals(InsertionSort(Recent))))
         IN  IF m = 0 THEN 1 ELSE m

-----------------------------------------------------------------------------
(* Owner calls                                                             *)

Exists(v) == release[v].period # 0

\* The release state written by createVault.
CreateVault(v) ==
    /\ ~Exists(v)
    /\ release' = [release EXCEPT ![v] =
                     [period |-> DefaultPeriod, at |-> lifeTime, atBlock |-> lifeBlock,
                      targetBlocks |-> DefaultPeriod \div GetMedianBlockInterval]]
    /\ UNCHANGED <<lifeTime, lifeBlock, ringVars, keeperVars>>

ConfigureVaultRelease(v, p) ==
    /\ Exists(v)
    /\ p \in MinPeriod .. MaxPeriod
    /\ release' = [release EXCEPT ![v] =
                     [period |-> p, at |-> lifeTime, atBlock |-> lifeBlock,
                      targetBlocks |-> p \div GetMedianBlockInterval]]
    /\ UNCHANGED <<lifeTime, lifeBlock, ringVars, keeperVars>>

NextHead == (head + 1) % RingSize

NextCount == IF count < RingSize THEN count + 1 ELSE count

\* _recordProofOfLife and _recordBlockTimestamp.
RecordProofOfLife(v) ==
    /\ Len(samples) < MaxSamples
    /\ release' = [release EXCEPT ![v].at = lifeTime, ![v].atBlock = lifeBlock]
    /\ ring' = [ring EXCEPT ![head] = lifeTime]
    /\ head' = NextHead
    /\ count' = NextCount
    /\ samples' = Append(samples, lifeTime)

ProveLife(v) ==
    /\ Exists(v)
    /\ RecordProofOfLife(v)
    /\ UNCHANGED <<lifeTime, lifeBlock, keeperVars>>

-----------------------------------------------------------------------------
(* Keepers                                                                 *)

\* external: the creator signs a KeeperAuthorization for the current nonce;
\* the signature is public from then on.
SignAuthorization(v, k, life) ==
    /\ Exists(v)
    /\ Cardinality(signed) < MaxGrants
    /\ signed' = signed \cup {[vault |-> v, keeper |-> k,
                               expiresAt |-> lifeTime + life, nonce |-> nonce[v]]}
    /\ UNCHANGED <<lifeTime, lifeBlock, release, ringVars, keeperAuth, nonce, accepted>>

\* Mutant: the nonce of the vault is not consumed.
AuthorizeKeeperBySig_NonceKept(v, s) ==
    /\ Exists(v)
    /\ s.vault = v /\ s.nonce = nonce[v]
    /\ s.expiresAt > lifeTime
    /\ keeperAuth' = [keeperAuth EXCEPT ![v] = [keeper |-> s.keeper,
                                                expiresAt |-> s.expiresAt]]
    /\ accepted' = [accepted EXCEPT ![v] = Append(@, s)]
    /\ UNCHANGED <<lifeTime, lifeBlock, release, ringVars, nonce, signed>>

\* Anyone submits a signature; it must be over the vault and its nonce.
AuthorizeKeeperBySig(v, s) ==
    /\ Exists(v)
    /\ s.vault = v /\ s.nonce = nonce[v]
    /\ s.expiresAt > lifeTime
    /\ nonce' = [nonce EXCEPT ![v] = @ + 1]
    /\ keeperAuth' = [keeperAuth EXCEPT ![v] = [keeper |-> s.keeper,
                                                expiresAt |-> s.expiresAt]]
    /\ accepted' = [accepted EXCEPT ![v] = Append(@, s)]
    /\ UNCHANGED <<lifeTime, lifeBlock, release, ringVars, signed>>

RevokeKeeper(v) ==
    /\ Exists(v)
    /\ keeperAuth' = [keeperAuth EXCEPT ![v] = NoAuth]
    /\ UNCHANGED <<lifeTime, lifeBlock, release, ringVars, nonce, signed, accepted>>

MayHeartbeat(v, k) ==
    /\ keeperAuth[v].keeper = k
    /\ lifeTime < keeperAuth[v].expiresAt

ProveLifeByKeeper(v, k) ==
    /\ Exists(v)
    /\ MayHeartbeat(v, k)
    /\ RecordProofOfLife(v)
    /\ UNCHANGED <<lifeTime, lifeBlock, keeperVars>>

-----------------------------------------------------------------------------

LifeNewBlock(dt) ==
    /\ lifeBlock < MaxLifeBlock /\ lifeTime + dt <= MaxLifeTime
    /\ lifeBlock' = lifeBlock + 1
    /\ lifeTime' = lifeTime + dt
    /\ UNCHANGED <<release, ringVars, keeperVars>>

LifeNext ==
    \/ \E v \in LivingVaults : \/ CreateVault(v)
                         \/ ProveLife(v)
                         \/ RevokeKeeper(v)
    \/ \E v \in LivingVaults, p \in Periods : ConfigureVaultRelease(v, p)
    \/ \E v \in LivingVaults, k \in Keepers :
          \/ ProveLifeByKeeper(v, k)
          \/ \E life \in Lifetimes : SignAuthorization(v, k, life)
    \/ \E v \in LivingVaults, s \in signed : AuthorizeKeeperBySig(v, s)
    \/ \E dt \in LifeBlockTimes : LifeNewBlock(dt)



\* _isPostDeathUnlocked
PostDeathUnlocked(v) ==
    /\ release[v].period # 0
    /\ lifeTime >= release[v].at + release[v].period
    /\ lifeBlock >= release[v].atBlock + release[v].targetBlocks

-----------------------------------------------------------------------------
(* Properties                                                              *)

\* What getMedianBlockInterval reads from the ring is the latest RingSize
\* proofs of life in the order they were recorded, before and after the ring
\* wraps around.
RingHoldsLatest ==
    Recent = SubSeq(samples, Len(samples) - count + 1, Len(samples))
      /\ (count < RingSize => count = Len(samples))

\* The median divides an inactivity period (createVault,
\* configureVaultRelease): it is never 0, and no more than half of the gaps
\* between the latest proofs of life lie strictly on either side of it.
MedianIsCentral ==
    LET m    == GetMedianBlockInterval
        kept == SubSeq(samples, Len(samples) - count + 1, Len(samples))
        gaps == Intervals(kept)
        Few(S) == 2 * Cardinality(S) <= Len(gaps)
    IN  /\ m >= 1
        /\ count >= 2 =>
             /\ Few({i \in 1 .. Len(gaps) : gaps[i] > m})
             /\ m > 1 => Few({i \in 1 .. Len(gaps) : gaps[i] < m})

\* A keeper authorisation in force is the latest one accepted, each accepted
\* one was signed by the creator for its place in the order, and no signature
\* is accepted twice, revocations in between included.
KeeperHasConsent ==
    \A v \in LivingVaults :
      /\ \A i \in 1 .. Len(accepted[v]) :
           accepted[v][i] \in signed /\ accepted[v][i].nonce = i - 1
      /\ keeperAuth[v] # NoAuth =>
           /\ accepted[v] # <<>>
           /\ keeperAuth[v].keeper = Last(accepted[v]).keeper
           /\ keeperAuth[v].expiresAt = Last(accepted[v]).expiresAt

\* No call unlocks the post-death release of a vault, not even
\* configureVaultRelease with a shorter period or heartbeats that change the
\* median: it takes a new block.
UnlockOnlyByWaiting ==
    [][\A v \in LivingVaults :
         PostDeathUnlocked(v)' => PostDeathUnlocked(v) \/ lifeBlock' # lifeBlock]_lifeVars

=============================================================================
