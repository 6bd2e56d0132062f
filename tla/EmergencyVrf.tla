----------------------------- MODULE EmergencyVrf -----------------------------
(***************************************************************************)
(* The randomised delay between switching a vault to emergency mode and    *)
(* the release of its EMERGENCY_ONLY documents: setEmergencyMode,          *)
(* configureVrf, setEmergencyJitterWindow and rawFulfillRandomWords of     *)
(* contracts/SpooVault.sol over contracts/libraries/EmergencyVrfLogic.sol. *)
(*                                                                         *)
(* The VRF coordinator is external.  It hands out a fresh id per request   *)
(* and may call back at any later time, more than once, and in any order;  *)
(* an id stays with the coordinator that issued it.                        *)
(***************************************************************************)
EXTENDS Naturals

CONSTANTS
    Vaults,             \* the vaults of the deployment
    Coordinators,       \* addresses of VRF coordinators
    NoCoordinator,      \* address(0)
    Configurable,       \* the addresses the deployer passes to configureVrf
    Windows,            \* the jitter windows creators pass
    DefaultWindow,      \* DEFAULT_EMERGENCY_JITTER_WINDOW
    MinWindow,          \* MIN_JITTER_WINDOW
    MaxWindow,          \* MAX_JITTER_WINDOW
    Words,              \* the random words a coordinator delivers
    BaseDelay,          \* EMERGENCY_UNLOCK_BASE_DELAY
    SecondsPerBlock,    \* EMERGENCY_SECONDS_PER_BLOCK
    MinBlocks,          \* MIN_EMERGENCY_UNLOCK_BLOCK_DELTA
    BlockTimes,         \* how far the timestamp may move between two blocks
    MaxTime, MaxBlock,  \* bounds on the chain
    MaxRequests         \* bound on the requests made to coordinators

ASSUME EmergencyAssumptions ==
    /\ NoCoordinator \notin Coordinators
    /\ Configurable \subseteq Coordinators \cup {NoCoordinator}
    /\ Windows \subseteq Nat /\ Words \subseteq Nat /\ BlockTimes \subseteq Nat
    /\ DefaultWindow \in Nat \ {0}
    /\ MinWindow \in Nat \ {0} /\ MaxWindow \in Nat
    /\ BaseDelay \in Nat \ {0} /\ SecondsPerBlock \in Nat \ {0}
    /\ MinBlocks \in Nat \ {0}
    /\ MaxTime \in Nat /\ MaxBlock \in Nat /\ MaxRequests \in Nat

VARIABLES
    time, block,          \* block.timestamp and block.number
    coordinator,          \* _vrf.coordinator
    emergencyMode,        \* _vaultReleaseStates[v].emergencyMode
    requestIdByVault,     \* 0 when the vault has no request
    vaultIdByRequestId,   \* NoVault when the id is unknown
    epoch,
    epochByRequestId,
    jitterWindow,         \* 0 until the creator sets one
    unlockAt, unlockBlock, \* 0 while nothing is scheduled
    issued,               \* external: who issued request i and for which vault
    enabled               \* history: when emergency mode was last switched on

storeVars == <<requestIdByVault, vaultIdByRequestId, epoch, epochByRequestId,
               unlockAt, unlockBlock>>
vars == <<time, block, coordinator, emergencyMode, storeVars, jitterWindow,
          issued, enabled>>

NoVault == "no vault"   \* id 0, which no vault has

ASSUME NoVaultAssumption == NoVault \notin Vaults

Ids == 1 .. MaxRequests
NotIssued == [by |-> NoCoordinator, vault |-> NoVault]
NeverEnabled == [time |-> 0, block |-> 0]

\* Types. The emergency storage, the outstanding randomness requests and the clock have
\* their types.
TypeOK ==
    /\ time \in Nat /\ block \in Nat
    /\ coordinator \in Coordinators \cup {NoCoordinator}
    /\ emergencyMode \in [Vaults -> BOOLEAN]
    /\ requestIdByVault \in [Vaults -> Ids \cup {0}]
    /\ vaultIdByRequestId \in [Ids -> Vaults \cup {NoVault}]
    /\ epoch \in [Vaults -> Nat]
    /\ epochByRequestId \in [Ids -> Nat]
    /\ jitterWindow \in [Vaults -> Nat]
    /\ unlockAt \in [Vaults -> Nat]
    /\ unlockBlock \in [Vaults -> Nat]
    /\ issued \in [Ids -> [by : Coordinators \cup {NoCoordinator},
                           vault : Vaults \cup {NoVault}]]
    /\ enabled \in [Vaults -> [time : Nat, block : Nat]]

Init ==
    /\ time = 1 /\ block = 1
    /\ coordinator = NoCoordinator
    /\ emergencyMode = [v \in Vaults |-> FALSE]
    /\ requestIdByVault = [v \in Vaults |-> 0]
    /\ vaultIdByRequestId = [i \in Ids |-> NoVault]
    /\ epoch = [v \in Vaults |-> 0]
    /\ epochByRequestId = [i \in Ids |-> 0]
    /\ jitterWindow = [v \in Vaults |-> 0]
    /\ unlockAt = [v \in Vaults |-> 0]
    /\ unlockBlock = [v \in Vaults |-> 0]
    /\ issued = [i \in Ids |-> NotIssued]
    /\ enabled = [v \in Vaults |-> NeverEnabled]

-----------------------------------------------------------------------------

\* configureVrf: the deployer installs, rotates or removes the coordinator.
ConfigureVrf(c) ==
    /\ coordinator' = c
    /\ UNCHANGED <<time, block, emergencyMode, storeVars, jitterWindow, issued,
                   enabled>>

SetEmergencyJitterWindow(v, w) ==
    /\ w \in MinWindow .. MaxWindow
    /\ jitterWindow' = [jitterWindow EXCEPT ![v] = w]
    /\ UNCHANGED <<time, block, coordinator, emergencyMode, storeVars, issued,
                   enabled>>

\* Mutant: the old request keeps its entries in the request maps.
ClearedVaultIds_Kept(v) == vaultIdByRequestId

\* The maps of request ids after _clear(v).
ClearedVaultIds(v) ==
    [i \in Ids |-> IF i = requestIdByVault[v] THEN NoVault
                   ELSE vaultIdByRequestId[i]]

ClearedEpochs(v) ==
    [i \in Ids |-> IF i = requestIdByVault[v] THEN 0 ELSE epochByRequestId[i]]

PendingRequest(v) == requestIdByVault[v] # 0 /\ unlockAt[v] = 0

\* Mutant: clear and request forget the unlock time of the last emergency.
ResetSchedule_Kept(v) == UNCHANGED <<unlockAt, unlockBlock>>

ResetSchedule(v) ==
    /\ unlockAt' = [unlockAt EXCEPT ![v] = 0]
    /\ unlockBlock' = [unlockBlock EXCEPT ![v] = 0]

\* external: the coordinator's answer to requestRandomWords, an unused id.
FreshId(id) == id \in Ids /\ issued[id] = NotIssued

\* Mutant: the sentinel is never replaced by the request id.
RequestUnlock_Sentinel(v, id) ==
    /\ ~PendingRequest(v)
    /\ FreshId(id)
    /\ issued' = [issued EXCEPT ![id] = [by |-> coordinator, vault |-> v]]
    /\ epoch' = [epoch EXCEPT ![v] = @ + 1]
    /\ requestIdByVault' = [requestIdByVault EXCEPT ![v] = MaxRequests + 1]
    /\ vaultIdByRequestId' = [ClearedVaultIds(v) EXCEPT ![id] = v]
    /\ epochByRequestId' = [ClearedEpochs(v) EXCEPT ![id] = epoch[v] + 1]
    /\ ResetSchedule(v)

\* Mutant: the request is filed under the epoch before the increment.
RequestUnlock_OldEpoch(v, id) ==
    /\ ~PendingRequest(v)
    /\ FreshId(id)
    /\ issued' = [issued EXCEPT ![id] = [by |-> coordinator, vault |-> v]]
    /\ epoch' = [epoch EXCEPT ![v] = @ + 1]
    /\ requestIdByVault' = [requestIdByVault EXCEPT ![v] = id]
    /\ vaultIdByRequestId' = [ClearedVaultIds(v) EXCEPT ![id] = v]
    /\ epochByRequestId' = [ClearedEpochs(v) EXCEPT ![id] = epoch[v]]
    /\ ResetSchedule(v)

\* requestUnlock: _clear, next epoch, and a request to the coordinator, whose
\* id replaces the sentinel before the call ends.
RequestUnlock(v, id) ==
    /\ ~PendingRequest(v)
    /\ FreshId(id)
    /\ issued' = [issued EXCEPT ![id] = [by |-> coordinator, vault |-> v]]
    /\ epoch' = [epoch EXCEPT ![v] = @ + 1]
    /\ requestIdByVault' = [requestIdByVault EXCEPT ![v] = id]
    /\ vaultIdByRequestId' = [ClearedVaultIds(v) EXCEPT ![id] = v]
    /\ epochByRequestId' = [ClearedEpochs(v) EXCEPT ![id] = epoch[v] + 1]
    /\ ResetSchedule(v)

\* setEmergencyMode(v, true) by the creator.
EnableEmergency(v) ==
    /\ emergencyMode' = [emergencyMode EXCEPT ![v] = TRUE]
    /\ enabled' = [enabled EXCEPT ![v] = [time |-> time, block |-> block]]
    /\ \/ /\ coordinator = NoCoordinator
          /\ UNCHANGED <<storeVars, issued>>
       \/ /\ coordinator # NoCoordinator
          /\ \E id \in Ids : /\ \A j \in 1 .. (id - 1) : ~FreshId(j)
                             /\ RequestUnlock(v, id)
    /\ UNCHANGED <<time, block, coordinator, jitterWindow>>

\* setEmergencyMode(v, false) by the creator.
DisableEmergency(v) ==
    /\ emergencyMode' = [emergencyMode EXCEPT ![v] = FALSE]
    /\ \/ /\ coordinator = NoCoordinator
          /\ UNCHANGED storeVars
       \/ /\ coordinator # NoCoordinator
          /\ vaultIdByRequestId' = ClearedVaultIds(v)
          /\ epochByRequestId' = ClearedEpochs(v)
          /\ requestIdByVault' = [requestIdByVault EXCEPT ![v] = 0]
          /\ ResetSchedule(v)
          /\ UNCHANGED epoch
    /\ UNCHANGED <<time, block, coordinator, jitterWindow, issued, enabled>>

Window(v) == IF jitterWindow[v] # 0 THEN jitterWindow[v] ELSE DefaultWindow

\* Mutant: no VrfAlreadyFulfilled check.
Acceptable_Twice(id) ==
    LET v == vaultIdByRequestId[id]
    IN  /\ v # NoVault
        /\ requestIdByVault[v] = id
        /\ epochByRequestId[id] = epoch[v]
        /\ emergencyMode[v]

\* The checks of fulfill on the request id.
Acceptable(id) ==
    LET v == vaultIdByRequestId[id]
    IN  /\ v # NoVault
        /\ requestIdByVault[v] = id
        /\ epochByRequestId[id] = epoch[v]
        /\ emergencyMode[v]
        /\ unlockAt[v] = 0

UnlockBlock(jitter) ==
    block + BaseDelay \div SecondsPerBlock + MinBlocks
          + jitter \div SecondsPerBlock

\* rawFulfillRandomWords: the coordinator that issued the request calls back,
\* possibly again, with one random word.
RawFulfillRandomWords(id, word) ==
    LET v      == vaultIdByRequestId[id]
        jitter == word % Window(v)
    IN  /\ issued[id] # NotIssued
        /\ issued[id].by = coordinator
        /\ Acceptable(id)
        /\ unlockAt' = [unlockAt EXCEPT ![v] = time + BaseDelay + jitter]
        /\ unlockBlock' = [unlockBlock EXCEPT ![v] = UnlockBlock(jitter)]
        /\ UNCHANGED <<time, block, coordinator, emergencyMode,
                       requestIdByVault, vaultIdByRequestId, epoch,
                       epochByRequestId, jitterWindow, issued, enabled>>

\* A block is produced; its timestamp may run ahead of or lag its height.
NewBlock(dt) ==
    /\ block < MaxBlock /\ time + dt <= MaxTime
    /\ block' = block + 1
    /\ time' = time + dt
    /\ UNCHANGED <<coordinator, emergencyMode, storeVars, jitterWindow, issued,
                   enabled>>

Fulfil == \E id \in Ids, word \in Words : RawFulfillRandomWords(id, word)

Next ==
    \/ \E c \in Configurable : ConfigureVrf(c)
    \/ \E v \in Vaults, w \in Windows : SetEmergencyJitterWindow(v, w)
    \/ \E v \in Vaults : EnableEmergency(v) \/ DisableEmergency(v)
    \/ Fulfil
    \/ \E dt \in BlockTimes : NewBlock(dt)

Spec == Init /\ [][Next]_vars

\* The coordinator answers every request that it can still answer.
FairSpec == Spec /\ WF_vars(Fulfil)

-----------------------------------------------------------------------------
(* What _isReleaseConditionSatisfied asks for an EMERGENCY_ONLY document   *)
(* of a vault whose owner is alive.                                        *)

IsReleased(v) ==
    /\ unlockAt[v] # 0 /\ unlockBlock[v] # 0
    /\ time >= unlockAt[v]
    /\ block >= unlockBlock[v]

EmergencyReleased(v) ==
    /\ emergencyMode[v]
    /\ coordinator = NoCoordinator \/ IsReleased(v)

-----------------------------------------------------------------------------
(* Properties                                                              *)

\* The two request maps are inverse to each other and an id that is known
\* belongs to the vault it was requested for and to its current epoch, so a
\* late callback of a cleared request finds nothing (fulfill).
RequestMapsAgree ==
    \A v \in Vaults, i \in Ids :
      /\ vaultIdByRequestId[i] = v <=> requestIdByVault[v] = i
      /\ vaultIdByRequestId[i] = v =>
           epochByRequestId[i] = epoch[v] /\ issued[i].vault = v

\* While VRF is configured, an emergency document opens only when the base
\* delay has passed both in seconds and in blocks (plus the minimum block
\* delta) since emergency mode was last switched on: a callback for an earlier
\* emergency, or for another vault, never opens it sooner.
EmergencyDelayObserved ==
    \A v \in Vaults :
      coordinator # NoCoordinator /\ EmergencyReleased(v) =>
        /\ time >= enabled[v].time + BaseDelay
        /\ block >= enabled[v].block + BaseDelay \div SecondsPerBlock + MinBlocks

\* rawFulfillRandomWords: "can only be fulfilled once".  The schedule of a
\* request, once set, is replaced only by disabling or re-enabling the mode.
ScheduledOnce ==
    [][\A v \in Vaults :
         unlockAt[v] # 0 /\ requestIdByVault'[v] = requestIdByVault[v]
           /\ emergencyMode'[v] = emergencyMode[v]
           => unlockAt'[v] = unlockAt[v] /\ unlockBlock'[v] = unlockBlock[v]]_vars

\* The coordinator that v is waiting for was replaced by configureVrf.
Orphaned(v) == /\ requestIdByVault[v] # 0
               /\ issued[requestIdByVault[v]].by # coordinator

\* With coordinators that answer, a vault never waits forever for its random
\* delay while its coordinator stays in place: the request is fulfilled or
\* withdrawn.
RequestsAreAnswered ==
    \A v \in Vaults : PendingRequest(v) ~> (~PendingRequest(v) \/ Orphaned(v))

=============================================================================
