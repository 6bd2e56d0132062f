----------------------------- MODULE ReleaseProofs -----------------------------
(***************************************************************************)
(* Proofs about the two tracks by which documents of a vault are released: *)
(* the emergency delay of EmergencyVrf for every set of vaults, request    *)
(* bound, delay and window, and the proof of life of ProofOfLife for every *)
(* ring size, period and set of keepers.                                   *)
(***************************************************************************)
EXTENDS MCRelease, FiniteSetTheorems, NaturalsInduction, TLAPS

-----------------------------------------------------------------------------
(* The emergency track: requests                                           *)

\* An id not issued is of no vault.
LEMMA NotIssuedFields == NotIssued.vault = NoVault /\ NotIssued.vault \notin Vaults
BY NoVaultAssumption DEF NotIssued

\* No request at first.
LEMMA EmergencyTypeInit == Init => TypeOK
BY EmergencyAssumptions DEF Init, TypeOK, Ids, NotIssued, NeverEnabled

\* The clearing of a vault's old request in _clear leaves both maps typed.
LEMMA ClearedTypes ==
    ASSUME TypeOK, NEW v \in Vaults
    PROVE  /\ ClearedVaultIds(v) \in [Ids -> Vaults \cup {NoVault}]
           /\ ClearedEpochs(v) \in [Ids -> Nat]
BY DEF TypeOK, ClearedVaultIds, ClearedEpochs

\* A request for randomness keeps both maps typed.
LEMMA RequestUnlockTypes ==
    ASSUME TypeOK, NEW v \in Vaults, NEW id \in Ids, RequestUnlock(v, id)
    PROVE  /\ requestIdByVault' \in [Vaults -> Ids \cup {0}]
           /\ vaultIdByRequestId' \in [Ids -> Vaults \cup {NoVault}]
           /\ epoch' \in [Vaults -> Nat]
           /\ epochByRequestId' \in [Ids -> Nat]
           /\ unlockAt' \in [Vaults -> Nat]
           /\ unlockBlock' \in [Vaults -> Nat]
           /\ issued' \in [Ids -> [by : Coordinators \cup {NoCoordinator},
                                   vault : Vaults \cup {NoVault}]]
<1>1. /\ ClearedVaultIds(v) \in [Ids -> Vaults \cup {NoVault}]
      /\ ClearedEpochs(v) \in [Ids -> Nat]
  BY ClearedTypes
<1>2. /\ requestIdByVault' \in [Vaults -> Ids \cup {0}]
      /\ unlockAt' \in [Vaults -> Nat] /\ unlockBlock' \in [Vaults -> Nat]
      /\ epoch' \in [Vaults -> Nat]
  BY DEF RequestUnlock, ResetSchedule, TypeOK
<1>3. vaultIdByRequestId' \in [Ids -> Vaults \cup {NoVault}]
  BY <1>1 DEF RequestUnlock
<1>4. epochByRequestId' \in [Ids -> Nat]
  BY <1>1 DEF RequestUnlock, TypeOK
<1>5. issued' \in [Ids -> [by : Coordinators \cup {NoCoordinator},
                           vault : Vaults \cup {NoVault}]]
  BY DEF RequestUnlock, TypeOK
<1> QED
  BY <1>2, <1>3, <1>4, <1>5

\* The jitter and the two unlock values are natural numbers.
LEMMA JitterTypes ==
    ASSUME TypeOK, NEW v \in Vaults, NEW word \in Words
    PROVE  /\ word % Window(v) \in Nat
           /\ (word % Window(v)) \div SecondsPerBlock \in Nat
           /\ BaseDelay \div SecondsPerBlock \in Nat
<1>1. Window(v) \in Nat \ {0} /\ word \in Nat
  BY EmergencyAssumptions DEF TypeOK, Window
<1>2. word % Window(v) \in Nat
  BY <1>1
<1> QED
  BY <1>2, EmergencyAssumptions

\* So does every call.
LEMMA EmergencyTypeStep == TypeOK /\ [Next]_vars => TypeOK'
<1> SUFFICES ASSUME TypeOK, [Next]_vars PROVE TypeOK'
  OBVIOUS
<1>1. CASE UNCHANGED vars
  BY <1>1 DEF vars, storeVars, TypeOK
<1>2. ASSUME NEW c \in Configurable, ConfigureVrf(c) PROVE TypeOK'
  BY <1>2, EmergencyAssumptions DEF ConfigureVrf, storeVars, TypeOK
<1>3. ASSUME NEW v \in Vaults, NEW w \in Windows, SetEmergencyJitterWindow(v, w)
      PROVE  TypeOK'
  BY <1>3, EmergencyAssumptions DEF SetEmergencyJitterWindow, storeVars, TypeOK
<1>4. ASSUME NEW v \in Vaults, EnableEmergency(v) PROVE TypeOK'
  <2>1. /\ emergencyMode' \in [Vaults -> BOOLEAN]
        /\ enabled' \in [Vaults -> [time : Nat, block : Nat]]
        /\ UNCHANGED <<time, block, coordinator, jitterWindow>>
    BY <1>4 DEF EnableEmergency, TypeOK
  <2>2. CASE coordinator = NoCoordinator
    BY <1>4, <2>1, <2>2 DEF EnableEmergency, storeVars, TypeOK
  <2>3. CASE coordinator # NoCoordinator
    <3>1. PICK id \in Ids : RequestUnlock(v, id)
      BY <1>4, <2>3 DEF EnableEmergency
    <3> QED
      BY <2>1, <3>1, RequestUnlockTypes DEF TypeOK
  <2> QED
    BY <2>2, <2>3
<1>5. ASSUME NEW v \in Vaults, DisableEmergency(v) PROVE TypeOK'
  <2>1. /\ emergencyMode' \in [Vaults -> BOOLEAN]
        /\ UNCHANGED <<time, block, coordinator, jitterWindow, issued, enabled>>
    BY <1>5 DEF DisableEmergency, TypeOK
  <2>2. CASE coordinator = NoCoordinator
    BY <1>5, <2>1, <2>2 DEF DisableEmergency, storeVars, TypeOK
  <2>3. CASE coordinator # NoCoordinator
    <3>1. /\ vaultIdByRequestId' = ClearedVaultIds(v)
          /\ epochByRequestId' = ClearedEpochs(v)
          /\ requestIdByVault' = [requestIdByVault EXCEPT ![v] = 0]
          /\ ResetSchedule(v) /\ UNCHANGED epoch
      BY <1>5, <2>3 DEF DisableEmergency
    <3> QED
      BY <2>1, <3>1, ClearedTypes DEF ResetSchedule, TypeOK
  <2> QED
    BY <2>2, <2>3
<1>6. ASSUME NEW id \in Ids, NEW word \in Words, RawFulfillRandomWords(id, word)
      PROVE  TypeOK'
  <2> DEFINE v == vaultIdByRequestId[id]
             jitter == word % Window(v)
  <2>1. v \in Vaults
    BY <1>6 DEF RawFulfillRandomWords, Acceptable, TypeOK
  <2>2. /\ jitter \in Nat /\ jitter \div SecondsPerBlock \in Nat
        /\ BaseDelay \div SecondsPerBlock \in Nat
    BY <2>1, JitterTypes
  <2>3. /\ unlockAt' = [unlockAt EXCEPT ![v] = time + BaseDelay + jitter]
        /\ unlockBlock' = [unlockBlock EXCEPT ![v] = UnlockBlock(jitter)]
        /\ UNCHANGED <<time, block, coordinator, emergencyMode,
                       requestIdByVault, vaultIdByRequestId, epoch,
                       epochByRequestId, jitterWindow, issued, enabled>>
    BY <1>6 DEF RawFulfillRandomWords
  <2> HIDE DEF v, jitter
  <2>4. time + BaseDelay + jitter \in Nat /\ UnlockBlock(jitter) \in Nat
    BY <2>2, EmergencyAssumptions DEF TypeOK, UnlockBlock
  <2> QED
    BY <2>1, <2>3, <2>4 DEF TypeOK
<1>7. ASSUME NEW dt \in BlockTimes, NewBlock(dt) PROVE TypeOK'
  BY <1>7, EmergencyAssumptions DEF NewBlock, storeVars, TypeOK
<1> QED
  BY <1>1, <1>2, <1>3, <1>4, <1>5, <1>6, <1>7 DEF Next, Fulfil

\* Both maps are empty at first.
LEMMA RequestMapsInit == Init => RequestMapsAgree
BY NoVaultAssumption DEF Init, RequestMapsAgree, Ids

\* A fresh id is on file for no vault: late answers cannot be confused.
LEMMA FreshIdUnknown ==
    ASSUME TypeOK, RequestMapsAgree, NEW id \in Ids, FreshId(id)
    PROVE  /\ vaultIdByRequestId[id] = NoVault
           /\ \A v \in Vaults : requestIdByVault[v] # id
<1>1. issued[id].vault = NoVault /\ NoVault \notin Vaults
  BY NotIssuedFields DEF FreshId
<1> QED
  BY <1>1 DEF RequestMapsAgree, TypeOK

\* A new request replaces the old one in both maps.
LEMMA RequestUnlockMaps ==
    ASSUME TypeOK, RequestMapsAgree, NEW v \in Vaults, NEW id \in Ids,
           RequestUnlock(v, id)
    PROVE  RequestMapsAgree'
<1>1. /\ vaultIdByRequestId[id] = NoVault
      /\ \A u \in Vaults : requestIdByVault[u] # id
  BY FreshIdUnknown DEF RequestUnlock
<1>2. /\ \A u \in Vaults : requestIdByVault'[u] =
             IF u = v THEN id ELSE requestIdByVault[u]
      /\ \A u \in Vaults : epoch'[u] = IF u = v THEN epoch[v] + 1 ELSE epoch[u]
  BY DEF RequestUnlock, TypeOK
<1>3. \A i \in Ids : vaultIdByRequestId'[i] =
          IF i = id THEN v ELSE IF i = requestIdByVault[v] THEN NoVault
          ELSE vaultIdByRequestId[i]
  BY DEF RequestUnlock, ClearedVaultIds
<1>4. \A i \in Ids : epochByRequestId'[i] =
          IF i = id THEN epoch[v] + 1 ELSE IF i = requestIdByVault[v] THEN 0
          ELSE epochByRequestId[i]
  BY DEF RequestUnlock, ClearedEpochs
<1>5. \A i \in Ids : issued'[i].vault = IF i = id THEN v ELSE issued[i].vault
  BY DEF RequestUnlock, TypeOK
<1>6. ASSUME NEW u \in Vaults, NEW i \in Ids
      PROVE  /\ vaultIdByRequestId'[i] = u <=> requestIdByVault'[u] = i
             /\ vaultIdByRequestId'[i] = u =>
                  epochByRequestId'[i] = epoch'[u] /\ issued'[i].vault = u
  BY <1>1, <1>2, <1>3, <1>4, <1>5, NoVaultAssumption DEF RequestMapsAgree
<1> QED
  BY <1>6 DEF RequestMapsAgree

\* The maps agree after every call.
LEMMA RequestMapsStep ==
    TypeOK /\ RequestMapsAgree /\ [Next]_vars => RequestMapsAgree'
<1> SUFFICES ASSUME TypeOK, RequestMapsAgree, [Next]_vars
             PROVE  RequestMapsAgree'
  OBVIOUS
<1>1. CASE UNCHANGED <<requestIdByVault, vaultIdByRequestId, epoch,
                       epochByRequestId, issued>>
  BY <1>1 DEF RequestMapsAgree
<1>2. ASSUME NEW v \in Vaults, EnableEmergency(v) PROVE RequestMapsAgree'
  <2>1. CASE coordinator = NoCoordinator
    BY <1>1, <1>2, <2>1 DEF EnableEmergency, storeVars
  <2>2. CASE coordinator # NoCoordinator
    BY <1>2, <2>2, RequestUnlockMaps DEF EnableEmergency
  <2> QED
    BY <2>1, <2>2
<1>3. ASSUME NEW v \in Vaults, DisableEmergency(v) PROVE RequestMapsAgree'
  <2>1. CASE coordinator = NoCoordinator
    BY <1>1, <1>3, <2>1 DEF DisableEmergency, storeVars
  <2>2. CASE coordinator # NoCoordinator
    <3>1. /\ UNCHANGED <<epoch, issued>>
          /\ \A i \in Ids : vaultIdByRequestId'[i] =
               IF i = requestIdByVault[v] THEN NoVault ELSE vaultIdByRequestId[i]
          /\ \A i \in Ids : epochByRequestId'[i] =
               IF i = requestIdByVault[v] THEN 0 ELSE epochByRequestId[i]
          /\ \A u \in Vaults : requestIdByVault'[u] =
               IF u = v THEN 0 ELSE requestIdByVault[u]
      BY <1>3, <2>2 DEF DisableEmergency, ClearedVaultIds, ClearedEpochs, TypeOK
    <3>2. 0 \notin Ids
      BY DEF Ids
    <3> QED
      BY <3>1, <3>2, NoVaultAssumption DEF RequestMapsAgree
  <2> QED
    BY <2>1, <2>2
<1> QED
  BY <1>1, <1>2, <1>3 DEF Next, Fulfil, ConfigureVrf, SetEmergencyJitterWindow,
     RawFulfillRandomWords, NewBlock, vars, storeVars

-----------------------------------------------------------------------------
(* The emergency track: schedules                                          *)

\* A schedule belongs to a request, and to the emergency that is running: it
\* counts from no earlier than the last time the mode was switched on.
\* Only coordinators issue requests.
ScheduleInv ==
    /\ \A v \in Vaults :
         /\ enabled[v].time <= time /\ enabled[v].block <= block
         /\ unlockAt[v] # 0 => requestIdByVault[v] # 0
    /\ \A i \in Ids : issued[i].by = NoCoordinator => issued[i] = NotIssued

DelayInv ==
    \A v \in Vaults :
      /\ coordinator = NoCoordinator => unlockAt[v] = 0
      /\ unlockAt[v] # 0 =>
           /\ unlockAt[v] >= enabled[v].time + BaseDelay
           /\ unlockBlock[v] >= enabled[v].block + BaseDelay \div SecondsPerBlock
                                + MinBlocks

\* No emergency is on at first.
LEMMA ScheduleInit == Init => ScheduleInv /\ DelayInv
BY DEF Init, ScheduleInv, DelayInv, NeverEnabled, Ids

\* What switching the mode on does to the schedules.
LEMMA EnableEffect ==
    ASSUME TypeOK, NEW v \in Vaults, EnableEmergency(v)
    PROVE  /\ UNCHANGED <<time, block, coordinator>>
           /\ \A u \in Vaults : enabled'[u] =
                IF u = v THEN [time |-> time, block |-> block] ELSE enabled[u]
           /\ \/ /\ coordinator = NoCoordinator
                 /\ UNCHANGED <<requestIdByVault, unlockAt, unlockBlock, issued>>
              \/ /\ coordinator # NoCoordinator
                 /\ \A u \in Vaults \ {v} :
                      /\ requestIdByVault'[u] = requestIdByVault[u]
                      /\ unlockAt'[u] = unlockAt[u]
                      /\ unlockBlock'[u] = unlockBlock[u]
                 /\ unlockAt'[v] = 0
                 /\ \E id \in Ids :
                      /\ FreshId(id) /\ requestIdByVault'[v] = id
                      /\ issued'[id].by = coordinator
                      /\ \A i \in Ids \ {id} : issued'[i] = issued[i]
<1>1. /\ UNCHANGED <<time, block, coordinator>>
      /\ \A u \in Vaults : enabled'[u] =
           IF u = v THEN [time |-> time, block |-> block] ELSE enabled[u]
  BY DEF EnableEmergency, TypeOK
<1>2. CASE coordinator = NoCoordinator
  BY <1>1, <1>2 DEF EnableEmergency, storeVars
<1>3. CASE coordinator # NoCoordinator
  <2>1. PICK id \in Ids : RequestUnlock(v, id)
    BY <1>3 DEF EnableEmergency
  <2>2. /\ requestIdByVault' = [requestIdByVault EXCEPT ![v] = id]
        /\ unlockAt' = [unlockAt EXCEPT ![v] = 0]
        /\ unlockBlock' = [unlockBlock EXCEPT ![v] = 0]
        /\ issued' = [issued EXCEPT ![id] = [by |-> coordinator, vault |-> v]]
        /\ FreshId(id)
    BY <2>1 DEF RequestUnlock, ResetSchedule
  <2>3. /\ \A u \in Vaults \ {v} : /\ requestIdByVault'[u] = requestIdByVault[u]
                                   /\ unlockAt'[u] = unlockAt[u]
                                   /\ unlockBlock'[u] = unlockBlock[u]
        /\ unlockAt'[v] = 0 /\ requestIdByVault'[v] = id
        /\ issued'[id].by = coordinator
        /\ \A i \in Ids \ {id} : issued'[i] = issued[i]
    BY <2>2 DEF TypeOK
  <2> QED
    BY <1>1, <1>3, <2>2, <2>3
<1> QED
  BY <1>2, <1>3

\* What switching the mode off does to the schedules.
LEMMA DisableEffect ==
    ASSUME TypeOK, NEW v \in Vaults, DisableEmergency(v)
    PROVE  /\ UNCHANGED <<time, block, coordinator, enabled, issued>>
           /\ \/ /\ coordinator = NoCoordinator
                 /\ UNCHANGED <<requestIdByVault, unlockAt, unlockBlock>>
              \/ /\ coordinator # NoCoordinator
                 /\ \A u \in Vaults \ {v} :
                      /\ requestIdByVault'[u] = requestIdByVault[u]
                      /\ unlockAt'[u] = unlockAt[u]
                      /\ unlockBlock'[u] = unlockBlock[u]
                 /\ unlockAt'[v] = 0
                 /\ requestIdByVault'[v] = 0
<1>1. CASE coordinator = NoCoordinator
  BY <1>1 DEF DisableEmergency, storeVars
<1>2. CASE coordinator # NoCoordinator
  BY <1>2 DEF DisableEmergency, ResetSchedule, TypeOK
<1> QED
  BY <1>1, <1>2

\* What a callback does to the schedules: it sets one that was not set.
LEMMA FulfilEffect ==
    ASSUME TypeOK, NEW id \in Ids, NEW word \in Words,
           RawFulfillRandomWords(id, word)
    PROVE  /\ UNCHANGED <<time, block, coordinator, enabled, requestIdByVault,
                          emergencyMode, issued>>
           /\ \E v \in Vaults :
                /\ requestIdByVault[v] = id /\ id # 0
                /\ unlockAt[v] = 0
                /\ issued[id].by = coordinator /\ issued[id] # NotIssued
                /\ unlockAt'[v] >= time + BaseDelay
                /\ unlockBlock'[v] >= block + BaseDelay \div SecondsPerBlock
                                      + MinBlocks
                /\ \A u \in Vaults \ {v} : /\ unlockAt'[u] = unlockAt[u]
                                           /\ unlockBlock'[u] = unlockBlock[u]
<1> DEFINE v == vaultIdByRequestId[id]
           jitter == word % Window(v)
<1>1. /\ v \in Vaults /\ unlockAt[v] = 0 /\ requestIdByVault[v] = id
      /\ issued[id].by = coordinator /\ issued[id] # NotIssued
  BY DEF RawFulfillRandomWords, Acceptable, TypeOK
<1>2. /\ jitter \in Nat /\ jitter \div SecondsPerBlock \in Nat
      /\ BaseDelay \div SecondsPerBlock \in Nat
  BY <1>1, JitterTypes
<1>3. /\ unlockAt' = [unlockAt EXCEPT ![v] = time + BaseDelay + jitter]
      /\ unlockBlock' = [unlockBlock EXCEPT ![v] = UnlockBlock(jitter)]
      /\ UNCHANGED <<time, block, coordinator, enabled, requestIdByVault,
                     emergencyMode, issued>>
  BY DEF RawFulfillRandomWords
<1>4. id # 0
  BY DEF Ids
<1> HIDE DEF v, jitter
<1>5. /\ time + BaseDelay + jitter >= time + BaseDelay
      /\ UnlockBlock(jitter) >= block + BaseDelay \div SecondsPerBlock + MinBlocks
  BY <1>2, EmergencyAssumptions DEF TypeOK, UnlockBlock
<1>6. /\ unlockAt'[v] >= time + BaseDelay
      /\ unlockBlock'[v] >= block + BaseDelay \div SecondsPerBlock + MinBlocks
      /\ \A u \in Vaults \ {v} : /\ unlockAt'[u] = unlockAt[u]
                                 /\ unlockBlock'[u] = unlockBlock[u]
  BY <1>1, <1>3, <1>5 DEF TypeOK
<1> QED
  BY <1>1, <1>3, <1>4, <1>6

\* Every call keeps the facts about schedules.
LEMMA ScheduleStep ==
    TypeOK /\ TypeOK' /\ ScheduleInv /\ [Next]_vars => ScheduleInv'
<1> SUFFICES ASSUME TypeOK, TypeOK', ScheduleInv, [Next]_vars
             PROVE  ScheduleInv'
  OBVIOUS
<1>1. CASE UNCHANGED <<time, block, enabled, unlockAt, requestIdByVault, issued>>
  BY <1>1 DEF ScheduleInv
<1>2. ASSUME NEW v \in Vaults, EnableEmergency(v) PROVE ScheduleInv'
  <2>1. \A id \in Ids : id # 0
    BY DEF Ids
  <2>2. time \in Nat /\ block \in Nat
    BY DEF TypeOK
  <2> QED
    BY <1>2, <2>1, <2>2, EnableEffect DEF ScheduleInv
<1>3. ASSUME NEW v \in Vaults, DisableEmergency(v) PROVE ScheduleInv'
  BY <1>3, DisableEffect DEF ScheduleInv
<1>4. ASSUME NEW id \in Ids, NEW word \in Words, RawFulfillRandomWords(id, word)
      PROVE  ScheduleInv'
  BY <1>4, FulfilEffect DEF ScheduleInv
<1>5. ASSUME NEW dt \in BlockTimes, NewBlock(dt) PROVE ScheduleInv'
  <2>1. /\ time' = time + dt /\ block' = block + 1 /\ dt \in Nat
        /\ UNCHANGED <<enabled, unlockAt, requestIdByVault, issued>>
    BY <1>5, EmergencyAssumptions DEF NewBlock, storeVars
  <2>2. /\ time \in Nat /\ block \in Nat
        /\ \A v \in Vaults : enabled[v].time \in Nat /\ enabled[v].block \in Nat
    BY DEF TypeOK
  <2> QED
    BY <2>1, <2>2 DEF ScheduleInv
<1> QED
  BY <1>1, <1>2, <1>3, <1>4, <1>5 DEF Next, Fulfil, ConfigureVrf,
     SetEmergencyJitterWindow, vars, storeVars

\* Unless the deployer removes the coordinator again, every schedule counts
\* from the emergency that is running.
LEMMA DelayStep ==
    ASSUME NoCoordinator \notin Configurable, TypeOK, TypeOK', ScheduleInv,
           DelayInv, [Next]_vars
    PROVE  DelayInv'
<1>1. CASE UNCHANGED <<coordinator, enabled, unlockAt, unlockBlock>>
  BY <1>1 DEF DelayInv
<1>2. ASSUME NEW c \in Configurable, ConfigureVrf(c) PROVE DelayInv'
  BY <1>2 DEF ConfigureVrf, storeVars, DelayInv
<1>3. ASSUME NEW v \in Vaults, EnableEmergency(v) PROVE DelayInv'
  BY <1>3, EnableEffect DEF DelayInv
<1>4. ASSUME NEW v \in Vaults, DisableEmergency(v) PROVE DelayInv'
  BY <1>4, DisableEffect DEF DelayInv
<1>5. ASSUME NEW id \in Ids, NEW word \in Words, RawFulfillRandomWords(id, word)
      PROVE  DelayInv'
  <2>1. UNCHANGED <<coordinator, enabled>>
    BY <1>5, FulfilEffect
  <2>2. PICK v \in Vaults :
          /\ unlockAt[v] = 0
          /\ requestIdByVault[v] = id
          /\ issued[id].by = coordinator /\ issued[id] # NotIssued
          /\ unlockAt'[v] >= time + BaseDelay
          /\ unlockBlock'[v] >= block + BaseDelay \div SecondsPerBlock + MinBlocks
          /\ \A u \in Vaults \ {v} : /\ unlockAt'[u] = unlockAt[u]
                                     /\ unlockBlock'[u] = unlockBlock[u]
    BY <1>5, FulfilEffect
  <2>3. coordinator # NoCoordinator
    BY <2>2 DEF ScheduleInv
  <2>4. ASSUME NEW u \in Vaults, unlockAt'[u] # 0
        PROVE  /\ unlockAt'[u] >= enabled'[u].time + BaseDelay
               /\ unlockBlock'[u] >= enabled'[u].block
                                     + BaseDelay \div SecondsPerBlock + MinBlocks
    <3>1. CASE u # v
      BY <2>1, <2>2, <2>4, <3>1 DEF DelayInv
    <3>2. CASE u = v
      <4> DEFINE d == BaseDelay \div SecondsPerBlock
      <4>1. /\ time \in Nat /\ block \in Nat
            /\ enabled[v].time \in Nat /\ enabled[v].block \in Nat
            /\ unlockAt'[v] \in Nat /\ unlockBlock'[v] \in Nat
        BY DEF TypeOK
      <4>2. BaseDelay \in Nat /\ MinBlocks \in Nat /\ d \in Nat
        BY EmergencyAssumptions
      <4>3. enabled[v].time <= time /\ enabled[v].block <= block
        BY DEF ScheduleInv
      <4>4. unlockAt'[v] >= time + BaseDelay /\ unlockBlock'[v] >= block + d + MinBlocks
        BY <2>2
      <4> HIDE DEF d
      <4>5. /\ unlockAt'[v] >= enabled[v].time + BaseDelay
            /\ unlockBlock'[v] >= enabled[v].block + d + MinBlocks
        BY <4>1, <4>2, <4>3, <4>4
      <4> QED
        BY <2>1, <3>2, <4>5 DEF d
    <3> QED
      BY <3>1, <3>2
  <2> QED
    BY <2>1, <2>3, <2>4 DEF DelayInv
<1> QED
  BY <1>1, <1>2, <1>3, <1>4, <1>5 DEF Next, Fulfil, NewBlock,
     SetEmergencyJitterWindow, vars, storeVars

EmergencyInv == TypeOK /\ RequestMapsAgree /\ ScheduleInv

\* Requests, epochs and schedules agree in every reachable state, however
\* often the mode and the coordinator are switched.
THEOREM Emergency == Spec => []EmergencyInv
<1>1. Init => EmergencyInv
  BY EmergencyTypeInit, RequestMapsInit, ScheduleInit DEF EmergencyInv
<1>2. EmergencyInv /\ [Next]_vars => EmergencyInv'
  BY EmergencyTypeStep, RequestMapsStep, ScheduleStep DEF EmergencyInv
<1> QED
  BY <1>1, <1>2, PTL DEF Spec

\* A late or repeated callback of the coordinator finds either the request it
\* answers, in the epoch it was made for, or nothing.
THEOREM RequestMapsCorrect == Spec => []RequestMapsAgree
<1>1. EmergencyInv => RequestMapsAgree
  BY DEF EmergencyInv
<1> QED
  BY <1>1, Emergency, PTL

\* A vault that is released waited for its own delay.
LEMMA DelayFollows ==
    ASSUME TypeOK, DelayInv
    PROVE  EmergencyDelayObserved
<1> SUFFICES ASSUME NEW v \in Vaults, coordinator # NoCoordinator,
                    EmergencyReleased(v)
             PROVE  /\ time >= enabled[v].time + BaseDelay
                    /\ block >= enabled[v].block + BaseDelay \div SecondsPerBlock
                                + MinBlocks
  BY DEF EmergencyDelayObserved
<1> DEFINE d == BaseDelay \div SecondsPerBlock
<1>1. /\ unlockAt[v] # 0 /\ time >= unlockAt[v] /\ block >= unlockBlock[v]
  BY DEF EmergencyReleased, IsReleased
<1>2. /\ unlockAt[v] >= enabled[v].time + BaseDelay
      /\ unlockBlock[v] >= enabled[v].block + d + MinBlocks
  BY <1>1 DEF DelayInv
<1>3. /\ time \in Nat /\ block \in Nat
      /\ unlockAt[v] \in Nat /\ unlockBlock[v] \in Nat
      /\ enabled[v].time \in Nat /\ enabled[v].block \in Nat
  BY DEF TypeOK
<1>4. BaseDelay \in Nat /\ MinBlocks \in Nat /\ d \in Nat
  BY EmergencyAssumptions
<1> HIDE DEF d
<1>5. time >= enabled[v].time + BaseDelay /\ block >= enabled[v].block + d + MinBlocks
  BY <1>1, <1>2, <1>3, <1>4
<1> QED
  BY <1>5 DEF d

\* As long as configureVrf is never given address(0), an emergency document
\* opens only when the base delay has passed, in seconds and in blocks, since
\* the mode was last switched on.  (The run emergency_disabled shows that the
\* hypothesis cannot be dropped.)
THEOREM DelayCorrect ==
    ASSUME NoCoordinator \notin Configurable
    PROVE  Spec => []EmergencyDelayObserved
<1>1. Init => DelayInv
  BY ScheduleInit
<1>2. EmergencyInv /\ EmergencyInv' /\ DelayInv /\ [Next]_vars => DelayInv'
  BY DelayStep DEF EmergencyInv
<1>3. EmergencyInv /\ DelayInv => EmergencyDelayObserved
  BY DelayFollows DEF EmergencyInv
<1> QED
  BY <1>1, <1>2, <1>3, Emergency, PTL DEF Spec

\* A step that keeps the request and the mode of a vault keeps its schedule.
KeepsSchedules ==
    \A v \in Vaults :
      unlockAt[v] # 0 /\ requestIdByVault'[v] = requestIdByVault[v]
        /\ emergencyMode'[v] = emergencyMode[v]
        => unlockAt'[v] = unlockAt[v] /\ unlockBlock'[v] = unlockBlock[v]

\* A drawn schedule is not drawn again.
LEMMA KeepsSchedulesStep == EmergencyInv /\ [Next]_vars => KeepsSchedules
<1> SUFFICES ASSUME EmergencyInv, [Next]_vars PROVE KeepsSchedules
  OBVIOUS
<1>1. CASE UNCHANGED <<unlockAt, unlockBlock>>
  BY <1>1 DEF KeepsSchedules
<1>2. ASSUME NEW v \in Vaults, EnableEmergency(v) PROVE KeepsSchedules
  <2>1. CASE coordinator = NoCoordinator
    BY <1>2, <2>1, EnableEffect DEF EmergencyInv, KeepsSchedules
  <2>2. CASE coordinator # NoCoordinator
    <3>1. \A u \in Vaults \ {v} : /\ unlockAt'[u] = unlockAt[u]
                                  /\ unlockBlock'[u] = unlockBlock[u]
      BY <1>2, <2>2, EnableEffect DEF EmergencyInv
    <3>2. PICK id \in Ids : FreshId(id) /\ requestIdByVault'[v] = id
      BY <1>2, <2>2, EnableEffect DEF EmergencyInv
    <3>3. requestIdByVault'[v] # requestIdByVault[v]
      BY <3>2, FreshIdUnknown DEF EmergencyInv
    <3> QED
      BY <3>1, <3>3 DEF KeepsSchedules
  <2> QED
    BY <2>1, <2>2
<1>3. ASSUME NEW v \in Vaults, DisableEmergency(v) PROVE KeepsSchedules
  <2>1. unlockAt[v] # 0 => requestIdByVault[v] # 0
    BY DEF EmergencyInv, ScheduleInv
  <2> QED
    BY <1>3, <2>1, DisableEffect DEF EmergencyInv, KeepsSchedules
<1>4. ASSUME NEW id \in Ids, NEW word \in Words, RawFulfillRandomWords(id, word)
      PROVE  KeepsSchedules
  BY <1>4, FulfilEffect DEF EmergencyInv, KeepsSchedules
<1> QED
  BY <1>1, <1>2, <1>3, <1>4 DEF Next, Fulfil, ConfigureVrf, NewBlock,
     SetEmergencyJitterWindow, vars, storeVars

\* A request is fulfilled once: a schedule stands until its emergency ends.
THEOREM FulfilledOnce == Spec => ScheduledOnce
<1>1. EmergencyInv /\ [Next]_vars => [KeepsSchedules]_vars
  BY KeepsSchedulesStep
<1> QED
  BY <1>1, Emergency, PTL DEF Spec, ScheduledOnce, KeepsSchedules

-----------------------------------------------------------------------------
(* The life track: the ring of timestamps                                  *)

\* The index arithmetic of the ring: below its size an index stays, and below
\* twice its size it wraps once.
LEMMA WrapOnce ==
    ASSUME NEW n \in Nat \ {0}, NEW a \in Nat, a < 2 * n
    PROVE  a % n = IF a < n THEN a ELSE a - n
OBVIOUS

\* The place after the head.
LEMMA WrapNext ==
    ASSUME NEW R \in Nat \ {0}, NEW h \in 0 .. (R - 1)
    PROVE  (h + 1) % R = IF h + 1 < R THEN h + 1 ELSE 0
OBVIOUS

\* The place j before the head.
LEMMA WrapBack ==
    ASSUME NEW R \in Nat \ {0}, NEW h \in 0 .. (R - 1), NEW j \in 1 .. R
    PROVE  (h + R - j) % R = IF j <= h THEN h - j ELSE h + R - j
<1>1. PICK a \in Nat : a = h + R - j
  OBVIOUS
<1>2. a < 2 * R
  BY <1>1
<1>3. a % R = IF a < R THEN a ELSE a - R
  BY <1>2, WrapOnce
<1> QED
  BY <1>1, <1>3

RingTypeOK ==
    /\ lifeTime \in Nat
    /\ ring \in [0 .. (RingSize - 1) -> Nat]
    /\ head \in 0 .. (RingSize - 1)
    /\ count \in 0 .. RingSize
    /\ samples \in Seq(Nat)

\* Going back j places from the head finds the j-th latest sample.
RingInv ==
    /\ RingTypeOK
    /\ count <= Len(samples)
    /\ count < RingSize => count = Len(samples)
    /\ \A j \in 1 .. count :
         ring[(head + RingSize - j) % RingSize] = samples[Len(samples) - j + 1]

\* The ring is empty at first.
LEMMA RingInit == LifeInit => RingInv
<1> SUFFICES ASSUME LifeInit PROVE RingInv
  OBVIOUS
<1>1. RingTypeOK
  BY LifeAssumptions DEF LifeInit, RingTypeOK
<1> QED
  BY <1>1, LifeAssumptions DEF LifeInit, RingInv

\* _recordBlockTimestamp overwrites the oldest entry and no younger one.
LEMMA RecordKeepsRing ==
    ASSUME RingInv, NEW v, RecordProofOfLife(v), lifeTime' = lifeTime
    PROVE  RingInv'
<1> DEFINE n == Len(samples)
<1>1. /\ RingSize \in Nat \ {0} /\ head \in Nat /\ head < RingSize
      /\ count \in Nat /\ count <= RingSize /\ n \in Nat /\ count <= n
      /\ lifeTime \in Nat /\ ring \in [0 .. (RingSize - 1) -> Nat]
      /\ samples \in Seq(Nat)
  BY LifeAssumptions DEF RingInv, RingTypeOK
<1>2. /\ ring' = [ring EXCEPT ![head] = lifeTime]
      /\ head' = (head + 1) % RingSize
      /\ count' = IF count < RingSize THEN count + 1 ELSE count
      /\ samples' = Append(samples, lifeTime)
  BY DEF RecordProofOfLife, NextHead, NextCount
<1>3. head' = IF head + 1 < RingSize THEN head + 1 ELSE 0
  <2>1. RingSize \in Nat \ {0} /\ head \in 0 .. (RingSize - 1)
    BY <1>1
  <2>2. (head + 1) % RingSize = IF head + 1 < RingSize THEN head + 1 ELSE 0
    BY <2>1, WrapNext
  <2> QED
    BY <1>2, <2>2
<1>4. /\ samples' \in Seq(Nat) /\ Len(samples') = n + 1
      /\ \A i \in 1 .. n : samples'[i] = samples[i]
      /\ samples'[n + 1] = lifeTime
  BY <1>1, <1>2
<1>5. RingTypeOK'
  BY <1>1, <1>2, <1>3, <1>4 DEF RingTypeOK
<1>6. count' <= n + 1 /\ (count' < RingSize => count' = n + 1)
  BY <1>1, <1>2 DEF RingInv
<1>7. ASSUME NEW j \in 1 .. count'
      PROVE  ring'[(head' + RingSize - j) % RingSize] = samples'[n + 1 - j + 1]
  <2>1. j \in Nat /\ j >= 1 /\ j <= RingSize /\ j <= count + 1
    BY <1>1, <1>2
  <2>2. (head' + RingSize - j) % RingSize =
          IF j <= head' THEN head' - j ELSE head' + RingSize - j
    <3>1. /\ RingSize \in Nat \ {0} /\ head' \in 0 .. (RingSize - 1)
          /\ j \in 1 .. RingSize
      BY <1>1, <1>5, <2>1 DEF RingTypeOK
    <3> QED
      BY <3>1, WrapBack
  <2>3. CASE j = 1
    <3>1. (head' + RingSize - j) % RingSize = head
      BY <1>1, <1>3, <2>2, <2>3
    <3>2. n + 1 - j + 1 = n + 1
      BY <1>1, <2>3
    <3> QED
      BY <1>1, <1>2, <1>4, <3>1, <3>2, SMTT(30)
  <2>4. CASE j # 1
    <3>1. j - 1 \in 1 .. count /\ j - 1 < RingSize
      BY <1>1, <2>1, <2>4
    <3>2. (head + RingSize - (j - 1)) % RingSize =
            IF j - 1 <= head THEN head - (j - 1) ELSE head + RingSize - (j - 1)
      <4>1. head \in 0 .. (RingSize - 1) /\ j - 1 \in 1 .. RingSize
        BY <1>1, <2>1, <3>1
      <4> QED
        BY <1>1, <4>1, WrapBack
    <3> DEFINE x == IF j - 1 <= head THEN head - (j - 1)
                                     ELSE head + RingSize - (j - 1)
    <3>3. x \in 0 .. (RingSize - 1) /\ x # head
      BY <1>1, <2>1, <3>1
    <3>4. x = IF j <= head' THEN head' - j ELSE head' + RingSize - j
      <4>1. CASE head + 1 < RingSize
        BY <1>1, <1>3, <2>1, <4>1
      <4>2. CASE ~(head + 1 < RingSize)
        <5>1. head = RingSize - 1 /\ head' = 0
          BY <1>1, <1>3, <4>2
        <5> QED
          BY <1>1, <2>1, <3>1, <5>1
      <4> QED
        BY <4>1, <4>2
    <3>5. /\ (head' + RingSize - j) % RingSize = x
          /\ (head + RingSize - (j - 1)) % RingSize = x
      BY <2>2, <3>2, <3>4
    <3> HIDE DEF x
    <3>6. ring[(head + RingSize - (j - 1)) % RingSize] = samples[n - (j - 1) + 1]
      BY <3>1 DEF RingInv
    <3>7. n - (j - 1) + 1 \in 1 .. n /\ n - (j - 1) + 1 = n + 1 - j + 1
      BY <1>1, <2>1, <3>1
    <3> QED
      BY <1>1, <1>2, <1>4, <3>3, <3>5, <3>6, <3>7
  <2> QED
    BY <2>3, <2>4
<1> QED
  BY <1>4, <1>5, <1>6, <1>7 DEF RingInv

\* Every step keeps the ring.
LEMMA RingStep == RingInv /\ [LifeNext]_lifeVars => RingInv'
<1> SUFFICES ASSUME RingInv, [LifeNext]_lifeVars PROVE RingInv'
  OBVIOUS
<1>1. CASE UNCHANGED <<ringVars, lifeTime>>
  BY <1>1 DEF ringVars, RingInv, RingTypeOK
<1>2. ASSUME NEW v, ProveLife(v) PROVE RingInv'
  BY <1>2, RecordKeepsRing DEF ProveLife
<1>3. ASSUME NEW v, NEW k, ProveLifeByKeeper(v, k) PROVE RingInv'
  BY <1>3, RecordKeepsRing DEF ProveLifeByKeeper
<1>4. ASSUME NEW dt \in LifeBlockTimes, LifeNewBlock(dt) PROVE RingInv'
  <2>1. lifeTime' \in Nat /\ UNCHANGED ringVars
    BY <1>4, LifeAssumptions DEF LifeNewBlock, RingInv, RingTypeOK
  <2> QED
    BY <2>1 DEF ringVars, RingInv, RingTypeOK
<1> QED
  BY <1>1, <1>2, <1>3, <1>4 DEF LifeNext, CreateVault, RevokeKeeper,
     ConfigureVaultRelease, SignAuthorization, AuthorizeKeeperBySig, lifeVars

\* Reading from the oldest kept entry on goes back from the head place by
\* place, over the end of the ring when it has wrapped.
LEMMA RingIndex ==
    ASSUME NEW R \in Nat \ {0}, NEW h \in 0 .. (R - 1), NEW c \in 1 .. R,
           NEW i \in 1 .. c
    PROVE  (((h + R - c) % R) + i - 1) % R = (h + R - (c - i + 1)) % R
<1>1. PICK s \in 0 .. (R - 1) : s = (h + R - c) % R /\ s = IF c <= h THEN h - c ELSE h + R - c
  <2>1. (h + R - c) % R = IF c <= h THEN h - c ELSE h + R - c
    BY WrapBack
  <2>2. (IF c <= h THEN h - c ELSE h + R - c) \in 0 .. (R - 1)
    OBVIOUS
  <2> QED
    BY <2>1, <2>2
<1>2. PICK a \in Nat : a = s + i - 1
  BY <1>1
<1>3. a % R = IF a < R THEN a ELSE a - R
  <2>1. a < 2 * R
    BY <1>1, <1>2
  <2> QED
    BY <2>1, WrapOnce
<1>4. PICK j \in 1 .. R : j = c - i + 1
  OBVIOUS
<1>5. (h + R - j) % R = IF j <= h THEN h - j ELSE h + R - j
  BY WrapBack
<1>6. (IF a < R THEN a ELSE a - R) = IF j <= h THEN h - j ELSE h + R - j
  <2>1. CASE c <= h
    BY <1>1, <1>2, <1>4, <2>1
  <2>2. CASE ~(c <= h)
    BY <1>1, <1>2, <1>4, <2>2
  <2> QED
    BY <2>1, <2>2
<1> QED
  BY <1>1, <1>2, <1>3, <1>4, <1>5, <1>6

\* Reading backwards from the head finds the latest samples.
LEMMA RingReadsLatest == RingInv => RingHoldsLatest
<1> SUFFICES ASSUME RingInv PROVE RingHoldsLatest
  OBVIOUS
<1> DEFINE n == Len(samples)
           kept == SubSeq(samples, n - count + 1, n)
<1>1. /\ RingSize \in Nat \ {0} /\ head \in 0 .. (RingSize - 1)
      /\ count \in Nat /\ count <= RingSize /\ n \in Nat /\ count <= n
      /\ samples \in Seq(Nat)
  BY LifeAssumptions DEF RingInv, RingTypeOK
<1>2. /\ kept = [i \in 1 .. count |-> samples[n - count + i]]
  BY <1>1
<1>3. ASSUME NEW i \in 1 .. count
      PROVE  ring[(((head + RingSize - count) % RingSize) + i - 1) % RingSize] =
               samples[n - count + i]
  <2>1. count \in 1 .. RingSize
    BY <1>1, <1>3
  <2>2. (((head + RingSize - count) % RingSize) + i - 1) % RingSize =
          (head + RingSize - (count - i + 1)) % RingSize
    BY <1>1, <2>1, RingIndex
  <2>3. count - i + 1 \in 1 .. count /\ n - (count - i + 1) + 1 = n - count + i
    BY <1>1
  <2>4. ring[(head + RingSize - (count - i + 1)) % RingSize] =
          samples[n - (count - i + 1) + 1]
    BY <2>3 DEF RingInv
  <2> QED
    BY <2>2, <2>3, <2>4
<1>4. Recent = [i \in 1 .. count |-> samples[n - count + i]]
  BY <1>3 DEF Recent
<1> QED
  BY <1>2, <1>4 DEF RingHoldsLatest, RingInv

-----------------------------------------------------------------------------
(* The life track: the median of the intervals                             *)

\* A nonempty set of naturals has a least element.
LEMMA NatMin == ASSUME NEW T \in SUBSET Nat, T # {} PROVE \E x \in T : \A y \in T : x <= y
<1> DEFINE R == OpToRel(<, Nat)
<1>1. \E x \in T : \A y \in T : ~(<<y, x>> \in R)
  BY NatLessThanWellFounded, WFMin, Zenon
<1>2. \A x, y \in Nat : x < y => <<x, y>> \in R
  BY Zenon DEF OpToRel
<1> HIDE DEF R
<1>3. PICK x \in T : \A y \in T : ~(<<y, x>> \in R)
  BY <1>1
<1>4. \A y \in T : ~(y < x)
  BY <1>2, <1>3, Zenon
<1>5. \A y \in T : x <= y
  BY <1>4
<1> QED
  BY <1>5

\* Max is the greatest element of a bounded set of naturals.
LEMMA MaxIs ==
    ASSUME NEW n \in Nat, NEW S \in SUBSET Nat, S # {}, \A y \in S : y <= n
    PROVE  Max(S) \in S /\ \A y \in S : y <= Max(S)
<1> DEFINE U == {u \in Nat : \A y \in S : y <= u}
<1>1. PICK u \in U : \A v \in U : u <= v
  <2>1. n \in U /\ U \in SUBSET Nat
    OBVIOUS
  <2> HIDE DEF U
  <2> QED
    BY <2>1, NatMin
<1>2. u \in S
  <2> SUFFICES ASSUME u \notin S PROVE FALSE
    OBVIOUS
  <2>1. \A y \in S : y < u
    BY <1>1
  <2>2. u > 0
    <3>1. PICK y \in S : TRUE
      OBVIOUS
    <3> QED
      BY <2>1, <3>1
  <2>3. u - 1 \in U
    BY <2>1, <2>2
  <2> QED
    BY <1>1, <2>3
<1>3. \E x \in S : \A y \in S : x >= y
  BY <1>1, <1>2
<1> QED
  BY <1>3 DEF Max

\* What the insertion sort computes from the entries at some positions: the
\* last of them is inserted into the others, sorted.
SortsPart(s, it, seq) ==
    IF s = {} THEN <<>> ELSE Insert(it[s \ {Max(s)}], seq[Max(s)])

Sorts(seq, it) == it = [s \in SUBSET (DOMAIN seq) |-> SortsPart(s, it, seq)]

Within(seq, n) == {s \in SUBSET (DOMAIN seq) : \A i \in s : i <= n}

SortsUpTo(seq, n, it) == it = [s \in Within(seq, n) |-> SortsPart(s, it, seq)]

\* Without its last position a set of positions ends earlier.
LEMMA WithoutLast ==
    ASSUME NEW seq, NEW N \in Nat, DOMAIN seq = 1 .. N, NEW n \in Nat, NEW s \in Within(seq, n), s # {}
    PROVE  /\ Max(s) \in s /\ Max(s) \in 1 .. N /\ n # 0
           /\ s \ {Max(s)} \in Within(seq, n - 1) /\ s \ {Max(s)} \in Within(seq, n)
<1>1. s \in SUBSET Nat /\ s \in SUBSET (1 .. N) /\ \A i \in s : i <= n
  BY DEF Within
<1>2. Max(s) \in s /\ \A y \in s : y <= Max(s)
  BY <1>1, MaxIs
<1> DEFINE m == Max(s)
<1>3. m \in s /\ \A y \in s : y <= m
  BY <1>2
<1> HIDE DEF m
<1>4. m \in Nat /\ m \in 1 .. N /\ m <= n /\ n # 0
  BY <1>1, <1>3
<1>5. \A i \in s \ {m} : i <= n - 1
  BY <1>1, <1>3, <1>4
<1>6. s \ {m} \in SUBSET (DOMAIN seq) /\ \A i \in s \ {m} : i <= n
  BY <1>1
<1>7. s \ {m} \in Within(seq, n - 1) /\ s \ {m} \in Within(seq, n)
  BY <1>5, <1>6 DEF Within
<1> QED
  BY <1>3, <1>4, <1>7 DEF m

\* The fold of the sort is defined on sets of positions of every length.
LEMMA SortsExist ==
    ASSUME NEW seq, NEW N \in Nat, DOMAIN seq = 1 .. N
    PROVE  \A n \in Nat : \E it : SortsUpTo(seq, n, it)
<1> DEFINE Bad == {n \in Nat : ~\E it : SortsUpTo(seq, n, it)}
<1> SUFFICES ASSUME Bad # {} PROVE FALSE
  OBVIOUS
<1>1. PICK n \in Bad : \A m \in Bad : n <= m
  BY NatMin
<1>2. CASE n = 0
  <2> DEFINE it == [s \in Within(seq, 0) |-> <<>>]
  <2>1. \A s \in Within(seq, 0) : s = {}
    BY WithoutLast
  <2>2. SortsUpTo(seq, 0, it)
    BY <2>1 DEF SortsUpTo, SortsPart
  <2> QED
    BY <1>1, <1>2, <2>2
<1>3. CASE n # 0
  <2>1. n \in Nat /\ n - 1 \in Nat /\ n - 1 \notin Bad
    BY <1>1, <1>3
  <2>2. PICK f : SortsUpTo(seq, n - 1, f)
    BY <2>1
  <2> DEFINE it == [s \in Within(seq, n) |-> SortsPart(s, f, seq)]
  <2>3. \A s \in Within(seq, n) :
           s # {} => s \ {Max(s)} \in Within(seq, n - 1) /\ s \ {Max(s)} \in Within(seq, n)
    BY <2>1, WithoutLast
  <2>4. \A s \in Within(seq, n - 1) : s \in Within(seq, n) /\ f[s] = SortsPart(s, f, seq)
    <3>1. Within(seq, n - 1) \in SUBSET Within(seq, n)
      BY <2>1 DEF Within
    <3> QED
      BY <2>2, <3>1 DEF SortsUpTo
  <2>5. \A s \in Within(seq, n - 1) : it[s] = f[s]
    BY <2>4
  <2>6. \A s \in Within(seq, n) : it[s] = SortsPart(s, it, seq)
    BY <2>3, <2>5 DEF SortsPart
  <2>7. it = [s \in Within(seq, n) |-> it[s]]
    OBVIOUS
  <2> HIDE DEF it
  <2>8. SortsUpTo(seq, n, it)
    BY <2>6, <2>7 DEF SortsUpTo
  <2> QED
    BY <1>1, <2>8
<1> QED
  BY <1>2, <1>3

\* The sort inserts one entry after the other, from the first to the last.
LEMMA SortEquation ==
    ASSUME NEW seq, NEW N \in Nat, DOMAIN seq = 1 .. N
    PROVE  \E part : /\ part[0] = <<>> /\ part[N] = InsertionSort(seq)
                     /\ \A k \in 1 .. N : part[k] = Insert(part[k - 1], seq[k])
<1>1. PICK f : SortsUpTo(seq, N, f)
  BY SortsExist
<1>2. Within(seq, N) = SUBSET (DOMAIN seq)
  BY DEF Within
<1>3. Sorts(seq, f)
  BY <1>1, <1>2 DEF Sorts, SortsUpTo
<1> DEFINE it == CHOOSE g : Sorts(seq, g)
<1>4. Sorts(seq, it)
  BY <1>3
<1>5. InsertionSort(seq) = it[DOMAIN seq]
  BY DEF InsertionSort, FoldLeft, MapThenFoldSet, Sorts, SortsPart
<1> HIDE DEF it
<1> DEFINE part == [k \in 0 .. N |-> it[1 .. k]]
<1>6. part[0] = <<>>
  <2>1. 1 .. 0 = {} /\ 1 .. 0 \in SUBSET (DOMAIN seq)
    OBVIOUS
  <2>2. it[1 .. 0] = <<>>
    BY <1>4, <2>1 DEF Sorts, SortsPart
  <2> QED
    BY <2>2
<1>7. ASSUME NEW k \in 1 .. N PROVE part[k] = Insert(part[k - 1], seq[k])
  <2>1. 1 .. k \in SUBSET (DOMAIN seq) /\ 1 .. k # {} /\ k \in Nat /\ 1 .. k \in SUBSET Nat
    OBVIOUS
  <2>2. Max(1 .. k) \in 1 .. k /\ \A y \in 1 .. k : y <= Max(1 .. k)
    <3>1. \A y \in 1 .. k : y <= k
      OBVIOUS
    <3> QED
      BY <2>1, <3>1, MaxIs
  <2>3. Max(1 .. k) = k
    BY <2>1, <2>2
  <2>4. (1 .. k) \ {k} = 1 .. (k - 1)
    OBVIOUS
  <2>5. it[1 .. k] = Insert(it[1 .. (k - 1)], seq[k])
    BY <1>4, <2>1, <2>3, <2>4 DEF Sorts, SortsPart
  <2> QED
    BY <2>5
<1>8. part[N] = InsertionSort(seq)
  BY <1>5
<1> HIDE DEF part
<1> QED
  BY <1>6, <1>7, <1>8

Nondecreasing(s) == \A i, j \in DOMAIN s : i <= j => s[i] <= s[j]

\* t is s with key put behind the j entries that are not larger.
PutBehind(t, s, key, j) ==
    /\ t \in Seq(Nat) /\ Len(t) = Len(s) + 1
    /\ \A i \in 1 .. j : t[i] = s[i] /\ s[i] <= key
    /\ t[j + 1] = key
    /\ \A i \in (j + 1) .. Len(s) : t[i + 1] = s[i] /\ s[i] > key

\* One round of the sort finds the place of its key.
LEMMA InsertPlace ==
    ASSUME NEW s \in Seq(Nat), NEW key \in Nat, Nondecreasing(s)
    PROVE  \E j \in 0 .. Len(s) : PutBehind(Insert(s, key), s, key, j)
<1> DEFINE S == {i \in 1 .. Len(s) : s[i] <= key}
<1>1. Len(s) \in Nat /\ DOMAIN s = 1 .. Len(s) /\ \A i \in 1 .. Len(s) : s[i] \in Nat
  OBVIOUS
<1>2. PICK j \in 0 .. Len(s) : S = 1 .. j
  <2>1. CASE S = {}
    <3>1. 0 \in 0 .. Len(s) /\ 1 .. 0 = {}
      BY <1>1
    <3> QED
      BY <2>1, <3>1
  <2>2. CASE S # {}
    <3>1. S \in SUBSET Nat /\ \A y \in S : y <= Len(s)
      BY <1>1
    <3>2. Max(S) \in S /\ \A y \in S : y <= Max(S)
      <4> HIDE DEF S
      <4> QED
        BY <1>1, <2>2, <3>1, MaxIs
    <3> DEFINE m == Max(S)
    <3>3. m \in S /\ \A y \in S : y <= m
      BY <3>2
    <3> HIDE DEF m
    <3>4. m \in 1 .. Len(s) /\ s[m] <= key
      BY <3>3
    <3>5. \A i \in 1 .. m : i \in 1 .. Len(s) /\ s[i] <= s[m]
      BY <1>1, <3>4 DEF Nondecreasing
    <3>6. 1 .. m \in SUBSET S
      BY <1>1, <3>4, <3>5
    <3>7. S \in SUBSET (1 .. m)
      BY <1>1, <3>3, <3>4
    <3>8. m \in 0 .. Len(s) /\ S = 1 .. m
      BY <1>1, <3>4, <3>6, <3>7
    <3> QED
      BY <3>8
  <2> QED
    BY <2>1, <2>2
<1>3. Cardinality(S) = j
  <2>1. j \in Int /\ j >= 0
    BY <1>1, <1>2
  <2>2. Cardinality(1 .. j) = IF 1 > j THEN 0 ELSE j - 1 + 1
    BY <2>1, FS_Interval
  <2> QED
    <3>1. Cardinality(1 .. j) = j
      BY <2>1, <2>2
    <3> HIDE DEF S
    <3> QED
      BY <1>2, <3>1
<1>4. Insert(s, key) = SubSeq(s, 1, j) \o <<key>> \o SubSeq(s, j + 1, Len(s))
  <2>1. Insert(s, key) = InsertAt(s, j + 1, key)
    BY <1>3 DEF Insert
  <2>2. (j + 1) - 1 = j
    BY <1>2
  <2> QED
    BY <2>1, <2>2 DEF InsertAt
<1>5. \A i \in 1 .. Len(s) : s[i] <= key <=> i <= j
  <2> SUFFICES ASSUME NEW i \in 1 .. Len(s) PROVE i \in S <=> i <= j
    OBVIOUS
  <2> QED
    BY <1>1, <1>2
<1> HIDE DEF S
<1> DEFINE a == SubSeq(s, 1, j)
           b == SubSeq(s, j + 1, Len(s))
<1>6. /\ a \in Seq(Nat) /\ Len(a) = j /\ \A i \in 1 .. j : a[i] = s[i]
  BY <1>1, <1>2
<1>7. /\ b \in Seq(Nat) /\ Len(b) = Len(s) - j /\ \A i \in 1 .. (Len(s) - j) : b[i] = s[j + i]
  <2>1. b \in Seq(Nat)
    BY <1>1, <1>2
  <2>2. Len(b) = Len(s) - j
    <3>1. j \in Nat /\ j <= Len(s) /\ j + 1 \in 1 .. (Len(s) + 1) /\ Len(s) \in 0 .. Len(s)
      BY <1>1, <1>2
    <3>2. Len(b) = IF j + 1 <= Len(s) THEN Len(s) - (j + 1) + 1 ELSE 0
      BY <3>1
    <3> DEFINE n == Len(s)
               l == Len(b)
    <3>3. n \in Nat /\ j \in Nat /\ j <= n /\ l = IF j + 1 <= n THEN n - (j + 1) + 1 ELSE 0
      BY <1>1, <3>1, <3>2
    <3> HIDE DEF n, l
    <3>4. l = n - j
      BY <3>3
    <3> QED
      BY <3>4 DEF n, l
  <2>3. ASSUME NEW i \in 1 .. (Len(s) - j) PROVE b[i] = s[j + i]
    <3>1. b[i] = s[(j + 1) + i - 1]
      BY <1>1, <1>2
    <3>2. (j + 1) + i - 1 = j + i
      BY <1>1, <1>2
    <3> QED
      BY <3>1, <3>2
  <2> QED
    BY <2>1, <2>2, <2>3
<1>8. Insert(s, key) = a \o <<key>> \o b
  BY <1>4
<1> HIDE DEF a, b
<1> DEFINE t == a \o <<key>> \o b
<1>9. /\ t \in Seq(Nat) /\ Len(t) = Len(s) + 1
      /\ \A i \in 1 .. j : t[i] = a[i]
      /\ t[j + 1] = key
      /\ \A i \in 1 .. (Len(s) - j) : t[j + 1 + i] = b[i]
  <2> DEFINE c == a \o <<key>>
  <2>1. c \in Seq(Nat) /\ Len(c) = j + 1 /\ c[j + 1] = key /\ \A i \in 1 .. j : c[i] = a[i]
    BY <1>1, <1>2, <1>6
  <2>2. t = c \o b
    OBVIOUS
  <2> HIDE DEF c, t
  <2>3. j \in Nat /\ Len(s) \in Nat /\ j <= Len(s)
    BY <1>1, <1>2
  <2>4. t \in Seq(Nat) /\ Len(t) = (j + 1) + (Len(s) - j)
    <3>1. c \in Seq(Nat) /\ b \in Seq(Nat)
      BY <1>7, <2>1
    <3>2. t \in Seq(Nat) /\ Len(t) = Len(c) + Len(b)
      BY <2>2, <3>1
    <3> QED
      BY <1>7, <2>1, <3>2
  <2>5. \A i \in 1 .. (j + 1) : t[i] = c[i]
    BY <1>7, <2>1, <2>2, <2>3
  <2>6. ASSUME NEW i \in 1 .. (Len(s) - j) PROVE t[j + 1 + i] = b[i]
    <3>1. j + 1 + i \in 1 .. (Len(c) + Len(b)) /\ (j + 1 + i) - Len(c) = i /\ j + 1 + i > Len(c)
      BY <1>7, <2>1, <2>3
    <3>2. c \in Seq(Nat) /\ b \in Seq(Nat)
      BY <1>7, <2>1
    <3>3. \A x \in 1 .. (Len(c) + Len(b)) : x > Len(c) => (c \o b)[x] = b[x - Len(c)]
      BY <3>2
    <3>4. t[j + 1 + i] = b[(j + 1 + i) - Len(c)]
      BY <2>2, <3>1, <3>3
    <3> QED
      BY <3>1, <3>4
  <2>7. Len(t) = Len(s) + 1
    BY <2>3, <2>4
  <2>8. \A i \in 1 .. j : i \in 1 .. (j + 1)
    BY <2>3
  <2>9. \A i \in 1 .. j : t[i] = a[i]
    BY <2>1, <2>5, <2>8
  <2>10. j + 1 \in 1 .. (j + 1)
    BY <2>3
  <2>11. t[j + 1] = key
    BY <2>1, <2>5, <2>10
  <2> QED
    BY <2>4, <2>6, <2>7, <2>9, <2>11
<1> HIDE DEF t
<1>10. \A i \in (j + 1) .. Len(s) : t[i + 1] = s[i]
  <2> TAKE i \in (j + 1) .. Len(s)
  <2>1. i - j \in 1 .. (Len(s) - j) /\ j + 1 + (i - j) = i + 1 /\ j + (i - j) = i
    BY <1>1, <1>2
  <2> QED
    <3>1. t[j + 1 + (i - j)] = b[i - j] /\ b[i - j] = s[j + (i - j)]
      BY <1>7, <1>9, <2>1
    <3> QED
      BY <2>1, <3>1
<1>11. \A i \in (j + 1) .. Len(s) : s[i] > key
  BY <1>1, <1>2, <1>5
<1>12. \A i \in 1 .. j : s[i] <= key
  BY <1>1, <1>2, <1>5
<1>13. PutBehind(t, s, key, j)
  BY <1>6, <1>9, <1>10, <1>11, <1>12 DEF PutBehind
<1> QED
  BY <1>2, <1>8, <1>13 DEF t

\* Each position of seq has a position of its own in t, with the same entry.
Placed(q, seq, t, n) ==
    /\ q \in [1 .. n -> 1 .. n]
    /\ \A i, j \in 1 .. n : q[i] = q[j] => i = j
    /\ \A i \in 1 .. n : seq[i] = t[q[i]]

\* A round of the sort keeps what was sorted so far in order, and loses nothing.
LEMMA RoundSorts ==
    ASSUME NEW seq \in Seq(Nat), NEW k \in 1 .. Len(seq), NEW s \in Seq(Nat), Len(s) = k - 1,
           Nondecreasing(s), NEW q, Placed(q, seq, s, k - 1),
           NEW t, NEW j \in 0 .. (k - 1), PutBehind(t, s, seq[k], j)
    PROVE  t \in Seq(Nat) /\ Len(t) = k /\ Nondecreasing(t) /\ \E r : Placed(r, seq, t, k)
<1>k. k \in Nat /\ k >= 1 /\ j \in Nat /\ j <= k - 1
  OBVIOUS
<1>d. DOMAIN s = 1 .. (k - 1) /\ seq[k] \in Nat /\ \A i \in 1 .. (k - 1) : s[i] \in Nat
  BY SMTT(30)
<1>t. t \in Seq(Nat) /\ Len(t) = k /\ DOMAIN t = 1 .. k
  BY <1>k DEF PutBehind
<1>1. /\ \A i \in 1 .. j : t[i] = s[i] /\ s[i] <= seq[k]
      /\ t[j + 1] = seq[k]
      /\ \A i \in (j + 1) .. (k - 1) : t[i + 1] = s[i] /\ s[i] > seq[k]
  BY DEF PutBehind
<1> DEFINE key == seq[k]
<1>e. key \in Nat /\ key = seq[k]
  BY <1>d
<1> HIDE DEF key
<1>2. Nondecreasing(t)
  <2> SUFFICES ASSUME NEW x \in 1 .. k, NEW y \in 1 .. k, x <= y PROVE t[x] <= t[y]
    BY <1>t DEF Nondecreasing
  <2>1. \A i \in 1 .. k : /\ i <= j => i \in 1 .. (k - 1) /\ t[i] = s[i] /\ s[i] <= key
                          /\ i = j + 1 => t[i] = key
                          /\ i > j + 1 => i - 1 \in 1 .. (k - 1) /\ t[i] = s[i - 1] /\ s[i - 1] > key
    <3> TAKE i \in 1 .. k
    <3>1. CASE i <= j
      BY <1>k, <1>1, <1>e, <3>1, SMTT(30)
    <3>2. CASE i = j + 1
      BY <1>k, <1>1, <1>e, <3>2
    <3>3. CASE i > j + 1
      <4>1. i - 1 \in (j + 1) .. (k - 1) /\ (i - 1) + 1 = i /\ i - 1 \in 1 .. (k - 1)
        BY <1>k, <3>3
      <4>2. t[(i - 1) + 1] = s[i - 1] /\ s[i - 1] > key
        BY <1>1, <1>e, <4>1
      <4> QED
        BY <1>k, <3>3, <4>1, <4>2
    <3> QED
      BY <1>k, <3>1, <3>2, <3>3
  <2>2. \A a, b \in 1 .. (k - 1) : a <= b => s[a] <= s[b]
    BY <1>d DEF Nondecreasing
  <2>3. \A a \in 1 .. (k - 1) : s[a] \in Nat
    BY <1>d
  <2>4. CASE y <= j
    BY <1>k, <2>1, <2>2, <2>4
  <2>5. CASE y = j + 1
    <3>1. t[y] = key /\ (x <= j \/ x = j + 1)
      BY <1>k, <2>1, <2>5
    <3> QED
      BY <1>e, <2>1, <2>3, <3>1
  <2>6. CASE y > j + 1
    <3>1. y - 1 \in 1 .. (k - 1) /\ t[y] = s[y - 1] /\ s[y - 1] > key /\ s[y - 1] \in Nat
      BY <2>1, <2>3, <2>6
    <3>5. PICK v \in Nat : t[y] = v /\ v > key
      BY <3>1
    <3>2. CASE x <= j
      <4>1. t[x] = s[x] /\ s[x] <= key /\ s[x] \in Nat
        BY <2>1, <2>3, <3>2
      <4>2. PICK u \in Nat : t[x] = u /\ u <= key
        BY <4>1
      <4>3. u <= v
        BY <1>e, <3>5, <4>2
      <4> QED
        BY <3>5, <4>2, <4>3
    <3>3. CASE x = j + 1
      <4>1. t[x] = key
        BY <2>1, <3>3
      <4>2. key <= v
        BY <1>e, <3>5
      <4> QED
        BY <3>5, <4>1, <4>2
    <3>4. CASE x > j + 1
      <4>1. x - 1 \in 1 .. (k - 1) /\ t[x] = s[x - 1]
        BY <2>1, <3>4
      <4>2. x - 1 <= y - 1
        BY <1>k
      <4> QED
        BY <2>2, <3>1, <4>1, <4>2
    <3> QED
      BY <1>k, <3>2, <3>3, <3>4
  <2> QED
    BY <1>k, <2>4, <2>5, <2>6
<1> DEFINE r == [i \in 1 .. k |-> IF i = k THEN j + 1 ELSE IF q[i] <= j THEN q[i] ELSE q[i] + 1]
<1>3. \A i \in 1 .. k : i # k => i \in 1 .. (k - 1) /\ q[i] \in 1 .. (k - 1) /\ seq[i] = s[q[i]]
  <2>1. \A i \in 1 .. k : i # k => i \in 1 .. (k - 1)
    BY <1>k
  <2>2. \A i \in 1 .. (k - 1) : q[i] \in 1 .. (k - 1) /\ seq[i] = s[q[i]]
    BY DEF Placed
  <2> QED
    BY <2>1, <2>2
<1>4. ASSUME NEW i \in 1 .. k
      PROVE  /\ i = k => r[i] = j + 1
             /\ i # k /\ q[i] <= j => r[i] = q[i]
             /\ i # k /\ ~(q[i] <= j) => r[i] = q[i] + 1
  OBVIOUS
<1>8. DOMAIN r = 1 .. k /\ r = [i \in 1 .. k |-> r[i]]
  OBVIOUS
<1> HIDE DEF r
<1>9. ASSUME NEW i \in 1 .. k PROVE r[i] \in 1 .. k
  <2>1. CASE i = k
    BY <1>k, <1>4, <2>1
  <2>2. CASE i # k
    <3>1. PICK z \in 1 .. (k - 1) : q[i] = z
      BY <1>3, <2>2
    <3>2. r[i] = z \/ r[i] = z + 1
      BY <1>4, <2>2, <3>1
    <3>3. z \in 1 .. k /\ z + 1 \in 1 .. k
      BY <1>k, <3>1
    <3> QED
      BY <3>2, <3>3
  <2> QED
    BY <2>1, <2>2
<1>5. ASSUME NEW x \in 1 .. k, NEW y \in 1 .. k, r[x] = r[y] PROVE x = y
  <2>1. \A a, b \in 1 .. (k - 1) : q[a] = q[b] => a = b
    BY DEF Placed
  <2>2. ASSUME NEW i \in 1 .. k, i # k
        PROVE  /\ i \in 1 .. (k - 1) /\ q[i] \in 1 .. (k - 1)
               /\ r[i] = (IF q[i] <= j THEN q[i] ELSE q[i] + 1) /\ r[i] # r[k] /\ r[k] = j + 1
    <3>1. i \in 1 .. (k - 1) /\ q[i] \in 1 .. (k - 1)
      BY <1>3, <2>2
    <3>2. r[i] = IF q[i] <= j THEN q[i] ELSE q[i] + 1
      BY <1>4, <2>2
    <3>3. k \in 1 .. k
      BY <1>k
    <3>4. r[k] = j + 1
      BY <1>4, <3>3
    <3> DEFINE z == q[i]
    <3>5. z \in 1 .. (k - 1) /\ r[i] = IF z <= j THEN z ELSE z + 1
      BY <3>1, <3>2
    <3> HIDE DEF z
    <3>6. r[i] # j + 1
      BY <1>k, <3>5
    <3> QED
      BY <3>1, <3>2, <3>4, <3>6
  <2>4. CASE x # k /\ y # k
    <3> DEFINE u == q[x]
               w == q[y]
    <3>1. /\ u \in 1 .. (k - 1) /\ w \in 1 .. (k - 1)
          /\ (IF u <= j THEN u ELSE u + 1) = (IF w <= j THEN w ELSE w + 1)
      BY <1>5, <2>2, <2>4
    <3> HIDE DEF u, w
    <3>2. u = w
      BY <1>k, <3>1
    <3>3. x \in 1 .. (k - 1) /\ y \in 1 .. (k - 1)
      BY <2>2, <2>4
    <3> QED
      BY <2>1, <3>2, <3>3 DEF u, w
  <2>5. CASE x = k \/ y = k
    BY <1>5, <2>2, <2>5
  <2> QED
    BY <2>4, <2>5
<1>6. ASSUME NEW i \in 1 .. k PROVE seq[i] = t[r[i]]
  <2>1. CASE i = k
    BY <1>k, <1>1, <1>4, <2>1
  <2>2. CASE i # k
    <3>1. i \in 1 .. (k - 1) /\ q[i] \in 1 .. (k - 1) /\ seq[i] = s[q[i]]
      BY <1>3, <2>2
    <3>2. CASE q[i] <= j
      <4>1. r[i] = q[i]
        BY <1>4, <2>2, <3>2
      <4>2. q[i] \in 1 .. j
        BY <1>k, <3>1, <3>2
      <4>3. t[q[i]] = s[q[i]]
        BY <1>1, <4>2
      <4> QED
        BY <3>1, <4>1, <4>3
    <3>3. CASE ~(q[i] <= j)
      <4>1. r[i] = q[i] + 1 /\ q[i] \in (j + 1) .. (k - 1)
        BY <1>k, <1>4, <2>2, <3>1, <3>3, SMTT(30)
      <4>2. t[q[i] + 1] = s[q[i]]
        BY <1>1, <4>1
      <4> QED
        BY <3>1, <4>1, <4>2
    <3> QED
      BY <3>2, <3>3
  <2> QED
    BY <2>1, <2>2
<1>7. Placed(r, seq, t, k)
  BY <1>5, <1>6, <1>8, <1>9 DEF Placed
<1> QED
  BY <1>t, <1>2, <1>7

\* The insertion sort puts every entry of its input in order.
LEMMA SortPlaces ==
    ASSUME NEW seq \in Seq(Nat)
    PROVE  /\ InsertionSort(seq) \in Seq(Nat) /\ Len(InsertionSort(seq)) = Len(seq)
           /\ Nondecreasing(InsertionSort(seq))
           /\ \E q : Placed(q, seq, InsertionSort(seq), Len(seq))
<1> DEFINE N == Len(seq)
<1>1. N \in Nat /\ DOMAIN seq = 1 .. N /\ \A k \in 1 .. N : seq[k] \in Nat
  OBVIOUS
<1>2. PICK part : /\ part[0] = <<>> /\ part[N] = InsertionSort(seq)
                  /\ \A k \in 1 .. N : part[k] = Insert(part[k - 1], seq[k])
  BY <1>1, SortEquation
<1> DEFINE Sorted(k) == /\ part[k] \in Seq(Nat) /\ Len(part[k]) = k /\ Nondecreasing(part[k])
                        /\ \E q : Placed(q, seq, part[k], k)
           Bad == {k \in 0 .. N : ~Sorted(k)}
<1>3. Sorted(0)
  <2>1. <<>> \in Seq(Nat) /\ Len(<<>>) = 0 /\ Nondecreasing(<<>>)
    BY DEF Nondecreasing
  <2> DEFINE q == [i \in 1 .. 0 |-> i]
  <2>2. q \in [1 .. 0 -> 1 .. 0] /\ 1 .. 0 = {}
    OBVIOUS
  <2> HIDE DEF q
  <2>3. Placed(q, seq, <<>>, 0)
    BY <2>2 DEF Placed
  <2> QED
    BY <1>2, <2>1, <2>3
<1>4. ASSUME NEW k \in 1 .. N, Sorted(k - 1) PROVE Sorted(k)
  <2> DEFINE s == part[k - 1]
             t == Insert(s, seq[k])
  <2>1. s \in Seq(Nat) /\ Len(s) = k - 1 /\ Nondecreasing(s)
    BY <1>4
  <2>2. PICK q : Placed(q, seq, s, k - 1)
    BY <1>4
  <2>3. part[k] = t
    BY <1>2
  <2>4. seq[k] \in Nat
    BY <1>1
  <2> HIDE DEF s
  <2>5. PICK j \in 0 .. Len(s) : PutBehind(t, s, seq[k], j)
    BY <2>1, <2>4, InsertPlace
  <2>6. j \in 0 .. (k - 1)
    BY <2>1, <2>5
  <2> HIDE DEF t
  <2>7. t \in Seq(Nat) /\ Len(t) = k /\ Nondecreasing(t) /\ \E r : Placed(r, seq, t, k)
    BY <2>1, <2>2, <2>5, <2>6, RoundSorts
  <2> QED
    BY <2>3, <2>7
<1>5. Sorted(N)
  <2> SUFFICES ASSUME ~Sorted(N) PROVE FALSE
    OBVIOUS
  <2>1. N \in Bad
    BY <1>1
  <2>2. PICK n \in Bad : \A m \in Bad : n <= m
    <3>1. Bad \in SUBSET Nat
      BY <1>1
    <3> HIDE DEF Bad
    <3> QED
      BY <2>1, <3>1, NatMin
  <2>3. n \in 0 .. N /\ ~Sorted(n)
    BY <2>2
  <2>4. n # 0
    BY <1>3, <2>3
  <2>5. n \in 1 .. N /\ n - 1 \in 0 .. N /\ ~(n <= n - 1)
    BY <1>1, <2>3, <2>4
  <2>6. Sorted(n - 1)
    <3>1. n - 1 \notin Bad
      BY <2>2, <2>5
    <3> QED
      BY <2>5, <3>1
  <2> QED
    BY <1>4, <2>3, <2>5, <2>6
<1> QED
  BY <1>2, <1>5

\* What is in order already is not changed.
LEMMA SortedStays ==
    ASSUME NEW seq \in Seq(Nat), Nondecreasing(seq)
    PROVE  InsertionSort(seq) = seq
<1> DEFINE N == Len(seq)
<1>1. N \in Nat /\ DOMAIN seq = 1 .. N /\ \A k \in 1 .. N : seq[k] \in Nat
  OBVIOUS
<1>2. PICK part : /\ part[0] = <<>> /\ part[N] = InsertionSort(seq)
                  /\ \A k \in 1 .. N : part[k] = Insert(part[k - 1], seq[k])
  BY <1>1, SortEquation
<1> DEFINE Same(k) == /\ part[k] \in Seq(Nat) /\ Len(part[k]) = k
                      /\ \A i \in 1 .. k : part[k][i] = seq[i]
           Bad == {k \in 0 .. N : ~Same(k)}
<1>3. Same(0)
  <2>1. <<>> \in Seq(Nat) /\ Len(<<>>) = 0 /\ 1 .. 0 = {}
    OBVIOUS
  <2> QED
    BY <1>2, <2>1
<1>4. ASSUME NEW k \in 1 .. N, Same(k - 1) PROVE Same(k)
  <2> DEFINE s == part[k - 1]
             t == Insert(s, seq[k])
  <2>1. s \in Seq(Nat) /\ Len(s) = k - 1 /\ \A i \in 1 .. (k - 1) : s[i] = seq[i]
    BY <1>4
  <2>2. part[k] = t
    BY <1>2
  <2>3. seq[k] \in Nat /\ k \in Nat /\ k >= 1
    BY <1>1
  <2> HIDE DEF s
  <2>4. Nondecreasing(s) /\ \A i \in 1 .. (k - 1) : s[i] \in Nat /\ s[i] <= seq[k]
    <3>1. DOMAIN s = 1 .. (k - 1)
      BY <2>1
    <3>2. \A a, b \in 1 .. N : a <= b => seq[a] <= seq[b]
      BY <1>1 DEF Nondecreasing
    <3>3. \A i \in 1 .. (k - 1) : i \in 1 .. N /\ i <= k
      BY <1>1
    <3>4. \A i \in 1 .. (k - 1) : s[i] = seq[i] /\ s[i] \in Nat
      BY <1>1, <2>1, <3>3
    <3>5. \A a, b \in 1 .. (k - 1) : a <= b => s[a] <= s[b]
      BY <3>2, <3>3, <3>4
    <3>6. \A i \in 1 .. (k - 1) : s[i] <= seq[k]
      BY <3>2, <3>3, <3>4
    <3> QED
      BY <3>1, <3>4, <3>5, <3>6 DEF Nondecreasing
  <2>5. PICK j \in 0 .. Len(s) : PutBehind(t, s, seq[k], j)
    BY <2>1, <2>3, <2>4, InsertPlace
  <2> HIDE DEF t
  <2>6. /\ t \in Seq(Nat) /\ Len(t) = k /\ t[j + 1] = seq[k]
        /\ \A i \in 1 .. j : t[i] = s[i]
        /\ \A i \in (j + 1) .. (k - 1) : s[i] > seq[k]
    BY <2>1, <2>3, <2>5 DEF PutBehind
  <2>7. j = k - 1
    <3> SUFFICES ASSUME j # k - 1 PROVE FALSE
      OBVIOUS
    <3>1. j + 1 \in (j + 1) .. (k - 1) /\ j + 1 \in 1 .. (k - 1)
      BY <2>1, <2>3, <2>5
    <3>2. s[j + 1] > seq[k] /\ s[j + 1] <= seq[k] /\ s[j + 1] \in Nat
      BY <2>4, <2>6, <3>1
    <3> QED
      BY <2>3, <3>2
  <2>8. \A i \in 1 .. k : t[i] = seq[i]
    <3> TAKE i \in 1 .. k
    <3>1. CASE i = k
      <4>1. j + 1 = k
        BY <2>3, <2>7
      <4> QED
        BY <2>6, <3>1, <4>1
    <3>2. CASE i # k
      <4>1. i \in 1 .. (k - 1)
        BY <2>3, <3>2
      <4> QED
        BY <2>1, <2>6, <2>7, <4>1
    <3> QED
      BY <3>1, <3>2
  <2> QED
    BY <2>2, <2>6, <2>8
<1>5. Same(N)
  <2> SUFFICES ASSUME ~Same(N) PROVE FALSE
    OBVIOUS
  <2>1. N \in Bad
    BY <1>1
  <2>2. PICK n \in Bad : \A m \in Bad : n <= m
    <3>1. Bad \in SUBSET Nat
      BY <1>1
    <3> HIDE DEF Bad
    <3> QED
      BY <2>1, <3>1, NatMin
  <2>3. n \in 0 .. N /\ ~Same(n)
    BY <2>2
  <2>4. n # 0
    BY <1>3, <2>3
  <2>5. n \in 1 .. N /\ n - 1 \in 0 .. N /\ ~(n <= n - 1)
    BY <1>1, <2>3, <2>4
  <2>6. Same(n - 1)
    <3>1. n - 1 \notin Bad
      BY <2>2, <2>5
    <3> QED
      BY <2>5, <3>1
  <2> QED
    BY <1>4, <2>3, <2>5, <2>6
<1>6. part[N] \in Seq(Nat) /\ Len(part[N]) = N /\ \A i \in 1 .. N : part[N][i] = seq[i]
  BY <1>5
<1>7. part[N] = seq
  <2> DEFINE p == part[N]
  <2>1. p \in Seq(Nat) /\ Len(p) = Len(seq) /\ \A i \in 1 .. Len(seq) : p[i] = seq[i]
    BY <1>6
  <2> HIDE DEF p
  <2>2. p = seq
    BY <2>1
  <2> QED
    BY <2>2 DEF p
<1> QED
  BY <1>2, <1>7

\* No more than half of the entries lie strictly on either side of the middle.
LEMMA MiddleHalves ==
    ASSUME NEW t \in Seq(Nat), Nondecreasing(t), Len(t) # 0
    PROVE  /\ MiddleOf(t) \in Nat
           /\ \E h \in Nat :
                /\ 2 * h <= Len(t)
                /\ \A i \in 1 .. Len(t) : t[i] > MiddleOf(t) => i > Len(t) - h
                /\ \A i \in 1 .. Len(t) : t[i] < MiddleOf(t) => i <= h
<1> DEFINE n == Len(t)
           h == n \div 2
<1>1. n \in Nat /\ n # 0 /\ DOMAIN t = 1 .. n /\ \A i \in 1 .. n : t[i] \in Nat
  OBVIOUS
<1>2. \A i, j \in 1 .. n : i <= j => t[i] <= t[j]
  BY <1>1 DEF Nondecreasing
<1>3. h \in Nat /\ (n % 2 = 0 => n = 2 * h) /\ (n % 2 # 0 => n = 2 * h + 1)
  <2> HIDE DEF n
  <2>1. n \in Nat
    BY <1>1
  <2> QED
    BY <2>1
<1>4. MiddleOf(t) = IF n % 2 = 0 THEN (t[h] + t[h + 1]) \div 2 ELSE t[h + 1]
  BY DEF MiddleOf
<1> HIDE DEF h, n
<1>5. CASE n % 2 = 0
  <2>1. h \in 1 .. n /\ h + 1 \in 1 .. n /\ n = 2 * h
    BY <1>1, <1>3, <1>5
  <2>2. PICK a \in Nat, b \in Nat : a = t[h] /\ b = t[h + 1]
    BY <1>1, <2>1
  <2>3. a <= b
    BY <1>2, <2>1, <2>2
  <2>4. PICK m \in Nat : m = MiddleOf(t) /\ a <= m /\ m <= b
    <3>1. (a + b) \div 2 \in Nat /\ a <= (a + b) \div 2 /\ (a + b) \div 2 <= b
      BY <2>3
    <3> QED
      BY <1>4, <1>5, <2>2, <3>1
  <2>5. ASSUME NEW i \in 1 .. n, t[i] > m PROVE i > n - h
    <3> SUFFICES ASSUME i <= h PROVE FALSE
      BY <1>3, <2>1
    <3>1. t[i] <= a /\ t[i] \in Nat
      BY <1>1, <1>2, <2>1, <2>2
    <3> QED
      BY <2>4, <2>5, <3>1
  <2>6. ASSUME NEW i \in 1 .. n, t[i] < m PROVE i <= h
    <3> SUFFICES ASSUME h + 1 <= i PROVE FALSE
      BY <1>1, <1>3, <2>1
    <3>1. b <= t[i] /\ t[i] \in Nat
      BY <1>1, <1>2, <2>1, <2>2
    <3> QED
      BY <2>4, <2>6, <3>1
  <2>7. 2 * h <= n
    BY <1>1, <1>3, <2>1
  <2> QED
    BY <1>3, <2>4, <2>5, <2>6, <2>7 DEF n
<1>6. CASE n % 2 # 0
  <2>1. h + 1 \in 1 .. n /\ n = 2 * h + 1
    BY <1>1, <1>3, <1>6
  <2>2. PICK m \in Nat : m = t[h + 1] /\ m = MiddleOf(t)
    BY <1>1, <1>4, <1>6, <2>1
  <2>5. ASSUME NEW i \in 1 .. n, t[i] > m PROVE i > n - h
    <3> SUFFICES ASSUME i <= h + 1 PROVE FALSE
      BY <1>1, <1>3, <2>1
    <3>1. t[i] <= m /\ t[i] \in Nat
      BY <1>1, <1>2, <2>1, <2>2
    <3> QED
      BY <2>5, <3>1
  <2>6. ASSUME NEW i \in 1 .. n, t[i] < m PROVE i <= h
    <3> SUFFICES ASSUME h + 1 <= i PROVE FALSE
      BY <1>1, <1>3, <2>1
    <3>1. m <= t[i] /\ t[i] \in Nat
      BY <1>1, <1>2, <2>1, <2>2
    <3> QED
      BY <2>6, <3>1
  <2>7. 2 * h <= n
    BY <1>1, <1>3, <2>1
  <2> QED
    BY <1>3, <2>2, <2>5, <2>6, <2>7 DEF n
<1> QED
  BY <1>5, <1>6

\* Positions whose places in sorted order all lie in an interval are no more
\* than it has places.
LEMMA PlacesBound ==
    ASSUME NEW n \in Nat, NEW gaps, NEW t, NEW q, Placed(q, gaps, t, n),
           NEW S \in SUBSET (1 .. n), NEW a \in Nat, NEW b \in Nat, a <= b,
           \A i \in S : q[i] > a /\ q[i] <= b
    PROVE  Cardinality(S) <= b - a
<1> DEFINE f == [i \in S |-> q[i]]
           T == (a + 1) .. b
<1>1. \A i \in 1 .. n : q[i] \in 1 .. n
  BY DEF Placed
<1>2. f \in Injection(S, T)
  <2>1. \A i \in S : q[i] \in T
    BY <1>1
  <2>2. \A i, j \in S : f[i] = f[j] => i = j
    BY DEF Placed
  <2> QED
    BY <2>1, <2>2 DEF Injection, IsInjective
<1>3. IsFiniteSet(T) /\ Cardinality(T) = IF a + 1 > b THEN 0 ELSE b - (a + 1) + 1
  <2>1. a + 1 \in Int /\ b \in Int
    OBVIOUS
  <2> QED
    BY <2>1, FS_Interval
<1>4. Cardinality(S) <= Cardinality(T)
  <2>1. IsFiniteSet(T)
    BY <1>3
  <2> HIDE DEF T, f
  <2> QED
    BY <1>2, <2>1, FS_Injection
<1>5. Cardinality(T) = b - a
  BY <1>3
<1>6. Cardinality(T) \in Int /\ Cardinality(S) <= Cardinality(T)
  BY <1>4, <1>5
<1> HIDE DEF T
<1> QED
  BY <1>4, <1>5

\* The middle of the sorted gaps is central among the gaps themselves.
LEMMA MiddleIsCentral ==
    ASSUME NEW gaps \in Seq(Nat), Len(gaps) # 0, NEW m, m = MiddleOf(InsertionSort(gaps))
    PROVE  /\ m \in Nat
           /\ 2 * Cardinality({i \in 1 .. Len(gaps) : gaps[i] > m}) <= Len(gaps)
           /\ 2 * Cardinality({i \in 1 .. Len(gaps) : gaps[i] < m}) <= Len(gaps)
<1> DEFINE t == InsertionSort(gaps)
           n == Len(gaps)
<1>1. t \in Seq(Nat) /\ Len(t) = n /\ Nondecreasing(t)
  BY SortPlaces
<1>2. PICK q : Placed(q, gaps, t, n)
  BY SortPlaces
<1>3. m = MiddleOf(t) /\ n \in Nat /\ n # 0
  OBVIOUS
<1> HIDE DEF t
<1>4. m \in Nat
  BY <1>1, <1>3, MiddleHalves
<1>5. PICK h \in Nat : /\ 2 * h <= n
                       /\ \A i \in 1 .. n : t[i] > m => i > n - h
                       /\ \A i \in 1 .. n : t[i] < m => i <= h
  BY <1>1, <1>3, MiddleHalves
<1> HIDE DEF n
<1>6. \A i \in 1 .. n : q[i] \in 1 .. n /\ gaps[i] = t[q[i]]
  BY <1>2 DEF Placed
<1> DEFINE A == {i \in 1 .. n : gaps[i] > m}
           B == {i \in 1 .. n : gaps[i] < m}
<1>7. Cardinality(A) <= h /\ Cardinality(B) <= h
  <2>1. A \in SUBSET (1 .. n) /\ \A i \in A : q[i] > n - h /\ q[i] <= n
    BY <1>3, <1>5, <1>6
  <2>2. B \in SUBSET (1 .. n) /\ \A i \in B : q[i] > 0 /\ q[i] <= h
    BY <1>3, <1>5, <1>6
  <2>3. n - h \in Nat /\ n - h <= n /\ 0 <= h /\ n - (n - h) = h /\ h - 0 = h
    BY <1>3, <1>5
  <2> HIDE DEF A, B
  <2>4. Cardinality(A) <= n - (n - h)
    BY <1>2, <1>3, <2>1, <2>3, PlacesBound
  <2>5. Cardinality(B) <= h - 0
    BY <1>2, <1>3, <2>2, <2>3, PlacesBound
  <2> QED
    BY <2>3, <2>4, <2>5
<1>8. Cardinality(A) \in Nat /\ Cardinality(B) \in Nat
  <2>1. IsFiniteSet(1 .. n)
    BY <1>3, FS_Interval
  <2>2. IsFiniteSet(A) /\ IsFiniteSet(B)
    BY <2>1, FS_Subset
  <2> HIDE DEF A, B
  <2> QED
    BY <2>2, FS_CardinalityType
<1>9. 2 * Cardinality(A) <= n /\ 2 * Cardinality(B) <= n
  <2> HIDE DEF A, B
  <2> QED
    BY <1>3, <1>5, <1>7, <1>8
<1> QED
  BY <1>4, <1>9 DEF n

\* Proofs of life are recorded in the order of time.
OrderInv == Nondecreasing(samples) /\ \A i \in DOMAIN samples : samples[i] <= lifeTime

\* The first sample and every later one keep the order.
LEMMA OrderInit == LifeInit => OrderInv
BY DEF LifeInit, OrderInv, Nondecreasing

\* A new sample is no earlier than those before it.
LEMMA OrderStep == RingInv /\ OrderInv /\ [LifeNext]_lifeVars => OrderInv'
<1> SUFFICES ASSUME RingInv, OrderInv, [LifeNext]_lifeVars PROVE OrderInv'
  OBVIOUS
<1>1. CASE UNCHANGED <<ringVars, lifeTime>>
  BY <1>1 DEF ringVars, OrderInv, Nondecreasing
<1>2. ASSUME NEW v, RecordProofOfLife(v), lifeTime' = lifeTime PROVE OrderInv'
  <2> DEFINE n == Len(samples)
  <2>1. samples \in Seq(Nat) /\ lifeTime \in Nat /\ n \in Nat /\ DOMAIN samples = 1 .. n
    BY DEF RingInv, RingTypeOK
  <2>2. samples' = Append(samples, lifeTime)
    BY <1>2 DEF RecordProofOfLife
  <2>3. /\ DOMAIN samples' = 1 .. (n + 1) /\ samples'[n + 1] = lifeTime
        /\ \A i \in 1 .. n : samples'[i] = samples[i]
    BY <2>1, <2>2
  <2> HIDE DEF n
  <2>4. /\ \A i, j \in 1 .. n : i <= j => samples[i] <= samples[j]
        /\ \A i \in 1 .. n : samples[i] <= lifeTime
    BY <2>1 DEF OrderInv, Nondecreasing
  <2>5. \A i \in 1 .. (n + 1) : samples'[i] <= lifeTime
    BY <2>1, <2>3, <2>4
  <2>6. ASSUME NEW i \in 1 .. (n + 1), NEW j \in 1 .. (n + 1), i <= j PROVE samples'[i] <= samples'[j]
    <3>1. CASE j = n + 1
      BY <2>3, <2>5, <3>1
    <3>2. CASE j # n + 1
      <4>1. i \in 1 .. n /\ j \in 1 .. n
        BY <2>1, <2>6, <3>2
      <4> QED
        BY <2>3, <2>4, <2>6, <4>1
    <3> QED
      BY <3>1, <3>2
  <2> QED
    BY <1>2, <2>3, <2>5, <2>6 DEF OrderInv, Nondecreasing
<1>3. ASSUME NEW dt \in LifeBlockTimes, LifeNewBlock(dt) PROVE OrderInv'
  <2>1. lifeTime' = lifeTime + dt /\ dt \in Nat /\ lifeTime \in Nat /\ samples' = samples
    BY <1>3, LifeAssumptions DEF LifeNewBlock, RingInv, RingTypeOK, ringVars
  <2>2. \A i \in DOMAIN samples : samples[i] \in Nat
    BY DEF RingInv, RingTypeOK
  <2> QED
    BY <2>1, <2>2 DEF OrderInv, Nondecreasing
<1> QED
  BY <1>1, <1>2, <1>3 DEF LifeNext, CreateVault, ProveLife, ProveLifeByKeeper, RevokeKeeper,
     ConfigureVaultRelease, SignAuthorization, AuthorizeKeeperBySig, lifeVars

\* getMedianBlockInterval sorts timestamps that are in order already, and takes
\* the middle of the gaps between them.
LEMMA MedianCorrect ==
    RingInv /\ OrderInv => GetMedianBlockInterval \in Nat \ {0} /\ MedianIsCentral
<1> SUFFICES ASSUME RingInv, OrderInv
             PROVE  GetMedianBlockInterval \in Nat \ {0} /\ MedianIsCentral
  OBVIOUS
<1> DEFINE n == Len(samples)
           kept == SubSeq(samples, n - count + 1, n)
           gaps == Intervals(kept)
           m == GetMedianBlockInterval
<1>1. /\ count \in Nat /\ n \in Nat /\ count <= n /\ samples \in Seq(Nat) /\ DOMAIN samples = 1 .. n
      /\ \A i \in 1 .. n : samples[i] \in Nat
  BY LifeAssumptions, SMTT(30) DEF RingInv, RingTypeOK
<1>2. CASE count < 2
  <2>1. m = DefaultInterval
    BY <1>2 DEF GetMedianBlockInterval
  <2>2. ~(count >= 2)
    BY <1>1, <1>2
  <2> QED
    BY <2>1, <2>2, LifeAssumptions DEF MedianIsCentral
<1>3. CASE ~(count < 2)
  <2>1. Recent = kept
    BY RingReadsLatest DEF RingHoldsLatest
  <2>2. kept \in Seq(Nat) /\ Len(kept) = count /\ \A i \in 1 .. count : kept[i] = samples[n - count + i]
    <3>1. kept = [i \in 1 .. count |-> samples[n - count + i]]
      BY <1>1
    <3>2. \A i \in 1 .. count : n - count + i \in 1 .. n
      BY <1>1
    <3> HIDE DEF kept, n
    <3> QED
      BY <1>1, <3>1, <3>2
  <2>3. Nondecreasing(kept)
    <3>1. \A i, j \in 1 .. n : i <= j => samples[i] <= samples[j]
      BY <1>1 DEF OrderInv, Nondecreasing
    <3>2. DOMAIN kept = 1 .. count
      BY <2>2
    <3> HIDE DEF kept, n
    <3>3. ASSUME NEW i \in 1 .. count, NEW j \in 1 .. count, i <= j PROVE kept[i] <= kept[j]
      <4>1. n - count + i \in 1 .. n /\ n - count + j \in 1 .. n /\ n - count + i <= n - count + j
        BY <1>1, <3>3
      <4> QED
        BY <2>2, <3>1, <4>1
    <3> QED
      BY <3>2, <3>3 DEF Nondecreasing
  <2> HIDE DEF kept
  <2>4. InsertionSort(Recent) = kept
    BY <2>1, <2>2, <2>3, SortedStays
  <2>5. gaps \in Seq(Nat) /\ Len(gaps) = count - 1 /\ Len(gaps) # 0
    <3>1. gaps = [i \in 1 .. (count - 1) |-> kept[i + 1] - kept[i]]
      BY <2>2 DEF Intervals
    <3>2. \A i \in 1 .. (count - 1) : kept[i + 1] - kept[i] \in Nat
      <4> TAKE i \in 1 .. (count - 1)
      <4>1. i \in 1 .. count /\ i + 1 \in 1 .. count /\ i <= i + 1
        BY <1>1
      <4>2. kept[i] \in Nat /\ kept[i + 1] \in Nat
        BY <2>2, <4>1
      <4>3. i \in DOMAIN kept /\ i + 1 \in DOMAIN kept
        BY <2>2, <4>1
      <4>4. kept[i] <= kept[i + 1]
        BY <2>3, <4>1, <4>3 DEF Nondecreasing
      <4> QED
        BY <4>2, <4>4
    <3>3. count - 1 \in Nat /\ count - 1 # 0
      BY <1>1, <1>3
    <3> HIDE DEF gaps
    <3> QED
      BY <3>1, <3>2, <3>3
  <2> DEFINE mid == MiddleOf(InsertionSort(gaps))
  <2>6. m = IF mid = 0 THEN 1 ELSE mid
    BY <1>3, <2>4 DEF GetMedianBlockInterval
  <2> HIDE DEF gaps
  <2>7. /\ mid \in Nat
        /\ 2 * Cardinality({i \in 1 .. Len(gaps) : gaps[i] > mid}) <= Len(gaps)
        /\ 2 * Cardinality({i \in 1 .. Len(gaps) : gaps[i] < mid}) <= Len(gaps)
    BY <2>5, MiddleIsCentral
  <2> HIDE DEF mid, m
  <2>8. m \in Nat \ {0} /\ m >= mid /\ (m > 1 => m = mid)
    BY <2>6, <2>7
  <2> DEFINE A == {i \in 1 .. Len(gaps) : gaps[i] > mid}
             B == {i \in 1 .. Len(gaps) : gaps[i] > m}
  <2>9. 2 * Cardinality(B) <= Len(gaps)
    <3>1. \A i \in 1 .. Len(gaps) : gaps[i] \in Nat
      BY <2>5
    <3>2. B \in SUBSET A
      BY <2>7, <2>8, <3>1
    <3>3. IsFiniteSet(1 .. Len(gaps))
      BY <2>5, FS_Interval
    <3>4. IsFiniteSet(A)
      BY <3>3, FS_Subset
    <3>5. 2 * Cardinality(A) <= Len(gaps)
      BY <2>7
    <3> HIDE DEF A, B
    <3>6. Cardinality(B) <= Cardinality(A) /\ Cardinality(B) \in Nat /\ Cardinality(A) \in Nat
      BY <3>2, <3>4, FS_Subset, FS_CardinalityType
    <3> QED
      BY <2>5, <3>5, <3>6
  <2>10. m > 1 => 2 * Cardinality({i \in 1 .. Len(gaps) : gaps[i] < m}) <= Len(gaps)
    BY <2>7, <2>8
  <2>11. m >= 1
    BY <2>8
  <2> QED
    BY <2>8, <2>9, <2>10, <2>11 DEF MedianIsCentral, m, gaps, kept
<1> QED
  BY <1>2, <1>3

-----------------------------------------------------------------------------
(* The life track: keepers                                                 *)

KeeperTypeOK ==
    /\ lifeTime \in Nat
    /\ keeperAuth \in [LivingVaults -> [keeper : Keepers \cup {NoKeeper},
                                        expiresAt : Nat]]
    /\ nonce \in [LivingVaults -> Nat]
    /\ signed \subseteq Grant
    /\ accepted \in [LivingVaults -> Seq(Grant)]

\* The nonce of a vault counts the authorisations it accepted.
KeeperInv ==
    /\ KeeperTypeOK
    /\ \A v \in LivingVaults : nonce[v] = Len(accepted[v])
    /\ KeeperHasConsent

\* No keeper is authorised at first.
LEMMA KeeperInit == LifeInit => KeeperInv
<1> SUFFICES ASSUME LifeInit PROVE KeeperInv
  OBVIOUS
<1>1. KeeperTypeOK
  BY DEF LifeInit, KeeperTypeOK, NoAuth
<1> QED
  BY <1>1 DEF LifeInit, KeeperInv, KeeperHasConsent

\* The owner signs with the nonce of the moment.
LEMMA SignKeepsKeepers ==
    ASSUME KeeperInv, NEW v \in LivingVaults, NEW k \in Keepers,
           NEW life \in Lifetimes, SignAuthorization(v, k, life)
    PROVE  KeeperInv'
<1>1. /\ lifeTime' = lifeTime /\ UNCHANGED <<keeperAuth, nonce, accepted>>
      /\ signed' = signed \cup {[vault |-> v, keeper |-> k,
                                 expiresAt |-> lifeTime + life, nonce |-> nonce[v]]}
  BY DEF SignAuthorization
<1>2. lifeTime + life \in Nat /\ nonce[v] \in Nat
  BY LifeAssumptions DEF KeeperInv, KeeperTypeOK
<1>3. KeeperTypeOK'
  <2>1. [vault |-> v, keeper |-> k, expiresAt |-> lifeTime + life,
         nonce |-> nonce[v]] \in Grant
    BY <1>2 DEF Grant
  <2>2. signed' \subseteq Grant
    BY <1>1, <2>1 DEF KeeperInv, KeeperTypeOK
  <2> QED
    BY <1>1, <2>2 DEF KeeperInv, KeeperTypeOK
<1>4. KeeperHasConsent'
  BY <1>1 DEF KeeperInv, KeeperHasConsent
<1> QED
  BY <1>1, <1>3, <1>4 DEF KeeperInv

\* A signature is used for its own nonce, once.
LEMMA AuthorizeKeepsKeepers ==
    ASSUME KeeperInv, NEW v \in LivingVaults, NEW s \in signed,
           AuthorizeKeeperBySig(v, s)
    PROVE  KeeperInv'
<1> DEFINE l == accepted[v]
           m == Append(l, s)
<1>1. /\ UNCHANGED <<lifeTime, signed>> /\ s.nonce = nonce[v]
      /\ nonce' = [nonce EXCEPT ![v] = @ + 1]
      /\ keeperAuth' = [keeperAuth EXCEPT ![v] = [keeper |-> s.keeper,
                                                  expiresAt |-> s.expiresAt]]
      /\ accepted' = [accepted EXCEPT ![v] = m]
  BY DEF AuthorizeKeeperBySig
<1>2. s \in Grant /\ l \in Seq(Grant) /\ Len(l) \in Nat /\ nonce[v] = Len(l)
  BY DEF KeeperInv, KeeperTypeOK
<1>3. /\ m \in Seq(Grant) /\ Len(m) = Len(l) + 1 /\ m # <<>>
      /\ \A i \in 1 .. Len(l) : m[i] = l[i]
      /\ m[Len(m)] = s
  BY <1>2
<1> HIDE DEF m
<1>4. KeeperTypeOK'
  <2>1. [keeper |-> s.keeper, expiresAt |-> s.expiresAt]
          \in [keeper : Keepers \cup {NoKeeper}, expiresAt : Nat]
    BY <1>2 DEF Grant
  <2> QED
    BY <1>1, <1>3, <2>1 DEF KeeperInv, KeeperTypeOK
<1>5. /\ \A u \in LivingVaults \ {v} : /\ nonce'[u] = nonce[u]
                                       /\ keeperAuth'[u] = keeperAuth[u]
                                       /\ accepted'[u] = accepted[u]
      /\ nonce'[v] = Len(l) + 1 /\ accepted'[v] = m
      /\ keeperAuth'[v] = [keeper |-> s.keeper, expiresAt |-> s.expiresAt]
  BY <1>1, <1>2 DEF KeeperInv, KeeperTypeOK
<1>6. \A i \in 1 .. Len(m) : m[i] \in signed' /\ m[i].nonce = i - 1
  <2>1. \A i \in 1 .. Len(l) : l[i] \in signed /\ l[i].nonce = i - 1
    BY DEF KeeperInv, KeeperHasConsent
  <2>2. s \in signed' /\ s.nonce = Len(m) - 1
    BY <1>1, <1>2, <1>3
  <2>3. \A i \in 1 .. Len(m) : i \in 1 .. Len(l) \/ i = Len(m)
    BY <1>2, <1>3
  <2> QED
    BY <1>1, <1>3, <2>1, <2>2, <2>3
<1>7. KeeperHasConsent'
  <2>1. ASSUME NEW u \in LivingVaults, u # v
        PROVE  /\ \A i \in 1 .. Len(accepted'[u]) :
                    accepted'[u][i] \in signed' /\ accepted'[u][i].nonce = i - 1
               /\ keeperAuth'[u] # NoAuth =>
                    /\ accepted'[u] # <<>>
                    /\ keeperAuth'[u].keeper = Last(accepted'[u]).keeper
                    /\ keeperAuth'[u].expiresAt = Last(accepted'[u]).expiresAt
    BY <1>1, <1>5, <2>1 DEF KeeperInv, KeeperHasConsent
  <2>2. Last(m) = s
    BY <1>3 DEF Last
  <2> QED
    BY <1>3, <1>5, <1>6, <2>1, <2>2 DEF KeeperHasConsent
<1> QED
  BY <1>3, <1>4, <1>5, <1>7 DEF KeeperInv

\* A revocation leaves nobody authorised.
LEMMA RevokeKeepsKeepers ==
    ASSUME KeeperInv, NEW v \in LivingVaults, RevokeKeeper(v)
    PROVE  KeeperInv'
<1>1. /\ UNCHANGED <<lifeTime, nonce, signed, accepted>>
      /\ keeperAuth' = [keeperAuth EXCEPT ![v] = NoAuth]
  BY DEF RevokeKeeper
<1>2. KeeperTypeOK'
  BY <1>1 DEF KeeperInv, KeeperTypeOK, NoAuth
<1>3. \A u \in LivingVaults : keeperAuth'[u] = IF u = v THEN NoAuth ELSE keeperAuth[u]
  BY <1>1 DEF KeeperInv, KeeperTypeOK
<1>4. KeeperHasConsent'
  BY <1>1, <1>3 DEF KeeperInv, KeeperHasConsent
<1> QED
  BY <1>1, <1>2, <1>4 DEF KeeperInv

\* Every step keeps consent.
LEMMA KeeperStep == KeeperInv /\ [LifeNext]_lifeVars => KeeperInv'
<1> SUFFICES ASSUME KeeperInv, [LifeNext]_lifeVars PROVE KeeperInv'
  OBVIOUS
<1>1. CASE UNCHANGED keeperVars /\ lifeTime' \in Nat
  BY <1>1 DEF keeperVars, KeeperInv, KeeperTypeOK, KeeperHasConsent
<1>2. lifeTime \in Nat
  BY DEF KeeperInv, KeeperTypeOK
<1>3. ASSUME NEW dt \in LifeBlockTimes, LifeNewBlock(dt) PROVE KeeperInv'
  BY <1>1, <1>2, <1>3, LifeAssumptions DEF LifeNewBlock
<1> QED
  BY <1>1, <1>2, <1>3, SignKeepsKeepers, AuthorizeKeepsKeepers, RevokeKeepsKeepers
  DEF LifeNext, CreateVault, ProveLife, ProveLifeByKeeper, ConfigureVaultRelease,
      lifeVars

-----------------------------------------------------------------------------
(* The life track: the post-death release                                  *)

\* The release state of every vault is a record with natural period and times.
\* (What the median makes of targetBlocks does not matter here.)
ReleaseShape ==
    /\ lifeTime \in Nat /\ lifeBlock \in Nat
    /\ release = [v \in LivingVaults |-> release[v]]
    /\ \A v \in LivingVaults :
         /\ release[v] = [period |-> release[v].period, at |-> release[v].at,
                          atBlock |-> release[v].atBlock,
                          targetBlocks |-> release[v].targetBlocks]
         /\ release[v].period \in Nat

\* No vault is configured at first.
LEMMA ShapeInit == LifeInit => ReleaseShape
BY DEF LifeInit, ReleaseShape, NoVaultYet

\* No vault becomes unlocked by a step that adds no block.
KeepsLocked ==
    \A v \in LivingVaults :
      PostDeathUnlocked(v)' => PostDeathUnlocked(v) \/ lifeBlock' # lifeBlock

\* The two calls that write a new release state: the period starts now, and
\* with it a wait of at least one second.
LEMMA RestartedPeriod ==
    ASSUME ReleaseShape, NEW v \in LivingVaults, NEW r,
           lifeTime' = lifeTime, release' = [release EXCEPT ![v] = r],
           r = [period |-> r.period, at |-> r.at, atBlock |-> r.atBlock,
                targetBlocks |-> r.targetBlocks],
           r.period \in Nat, r.at = lifeTime, lifeBlock' = lifeBlock
    PROVE  ReleaseShape' /\ KeepsLocked
<1>1. /\ \A u \in LivingVaults : release'[u] = IF u = v THEN r ELSE release[u]
      /\ release' = [u \in LivingVaults |-> release'[u]]
  BY DEF ReleaseShape
<1>2. ReleaseShape'
  BY <1>1 DEF ReleaseShape
<1>3. ~PostDeathUnlocked(v)'
  BY <1>1 DEF ReleaseShape, PostDeathUnlocked
<1> QED
  BY <1>1, <1>2, <1>3 DEF KeepsLocked, PostDeathUnlocked

\* A step without a block unlocks nothing.
LEMMA ReleaseStep ==
    ReleaseShape /\ [LifeNext]_lifeVars => ReleaseShape' /\ KeepsLocked
<1> SUFFICES ASSUME ReleaseShape, [LifeNext]_lifeVars
             PROVE  ReleaseShape' /\ KeepsLocked
  OBVIOUS
<1>1. CASE UNCHANGED <<lifeTime, lifeBlock, release>>
  BY <1>1 DEF ReleaseShape, KeepsLocked, PostDeathUnlocked
<1>2. ASSUME NEW v \in LivingVaults, CreateVault(v)
      PROVE  ReleaseShape' /\ KeepsLocked
  <2> DEFINE r == [period |-> DefaultPeriod, at |-> lifeTime, atBlock |-> lifeBlock,
                   targetBlocks |-> DefaultPeriod \div GetMedianBlockInterval]
  <2>1. /\ r = [period |-> r.period, at |-> r.at, atBlock |-> r.atBlock,
                targetBlocks |-> r.targetBlocks]
        /\ r.period \in Nat /\ r.at = lifeTime
    BY LifeAssumptions
  <2>2. /\ release' = [release EXCEPT ![v] = r]
        /\ UNCHANGED <<lifeTime, lifeBlock>>
    BY <1>2 DEF CreateVault
  <2> HIDE DEF r
  <2> QED
    BY <2>1, <2>2, RestartedPeriod
<1>3. ASSUME NEW v \in LivingVaults, NEW p \in Periods, ConfigureVaultRelease(v, p)
      PROVE  ReleaseShape' /\ KeepsLocked
  <2> DEFINE r == [period |-> p, at |-> lifeTime, atBlock |-> lifeBlock,
                   targetBlocks |-> p \div GetMedianBlockInterval]
  <2>1. /\ r = [period |-> r.period, at |-> r.at, atBlock |-> r.atBlock,
                targetBlocks |-> r.targetBlocks]
        /\ r.period \in Nat /\ r.at = lifeTime
    BY LifeAssumptions
  <2>2. /\ release' = [release EXCEPT ![v] = r]
        /\ UNCHANGED <<lifeTime, lifeBlock>>
    BY <1>3 DEF ConfigureVaultRelease
  <2> HIDE DEF r
  <2> QED
    BY <2>1, <2>2, RestartedPeriod
<1>4. ASSUME NEW v \in LivingVaults, RecordProofOfLife(v),
             UNCHANGED <<lifeTime, lifeBlock>>
      PROVE  ReleaseShape' /\ KeepsLocked
  <2> DEFINE r == [release[v] EXCEPT !.at = lifeTime, !.atBlock = lifeBlock]
             s == [period |-> release[v].period, at |-> lifeTime,
                   atBlock |-> lifeBlock, targetBlocks |-> release[v].targetBlocks]
  <2>1. r = s
    <3> DEFINE P == {release[v].period}
               T == {release[v].targetBlocks}
    <3>1. release[v] \in [period : P, at : {release[v].at},
                          atBlock : {release[v].atBlock}, targetBlocks : T]
      BY DEF ReleaseShape
    <3>2. r \in [period : P, at : {lifeTime}, atBlock : {lifeBlock},
                 targetBlocks : T]
      BY <3>1
    <3> HIDE DEF r
    <3> QED
      BY <3>2
  <2>2. release' = [release EXCEPT ![v] = r]
    BY <1>4 DEF RecordProofOfLife
  <2> HIDE DEF r
  <2>3. /\ s.period = release[v].period /\ s.at = lifeTime
        /\ s = [period |-> s.period, at |-> s.at, atBlock |-> s.atBlock,
                targetBlocks |-> s.targetBlocks]
    OBVIOUS
  <2> HIDE DEF s
  <2>4. s.period \in Nat
    BY <2>3 DEF ReleaseShape
  <2> QED
    BY <1>4, <2>1, <2>2, <2>3, <2>4, RestartedPeriod
<1>5. ASSUME NEW dt \in LifeBlockTimes, LifeNewBlock(dt)
      PROVE  ReleaseShape' /\ KeepsLocked
  BY <1>5, LifeAssumptions DEF LifeNewBlock, ReleaseShape, KeepsLocked
<1> QED
  BY <1>1, <1>2, <1>3, <1>4, <1>5 DEF LifeNext, ProveLife, ProveLifeByKeeper,
     RevokeKeeper, SignAuthorization, AuthorizeKeeperBySig, lifeVars

\* The release states are of naturals: the period is divided by a median that
\* is not 0.
ReleaseTypes ==
    /\ lifeTime \in Nat /\ lifeBlock \in Nat
    /\ release \in [LivingVaults -> [period : Nat, at : Nat, atBlock : Nat, targetBlocks : Nat]]

\* Release states are typed at first.
LEMMA ReleaseTypesInit == LifeInit => ReleaseTypes
BY DEF LifeInit, ReleaseTypes, NoVaultYet

\* And after every step.
LEMMA ReleaseTypesStep ==
    ReleaseTypes /\ RingInv /\ OrderInv /\ [LifeNext]_lifeVars => ReleaseTypes'
<1> SUFFICES ASSUME ReleaseTypes, RingInv, OrderInv, [LifeNext]_lifeVars PROVE ReleaseTypes'
  OBVIOUS
<1> DEFINE m == GetMedianBlockInterval
<1>1. m \in Nat \ {0}
  BY MedianCorrect
<1>2. \A p \in Nat : p \div m \in Nat
  <2> HIDE DEF m
  <2> QED
    BY <1>1
<1>3. CASE UNCHANGED <<lifeTime, lifeBlock, release>>
  BY <1>3 DEF ReleaseTypes
<1>4. ASSUME NEW v \in LivingVaults, CreateVault(v) PROVE ReleaseTypes'
  <2>1. DefaultPeriod \in Nat /\ DefaultPeriod \div m \in Nat
    BY <1>2, LifeAssumptions
  <2> HIDE DEF m
  <2> QED
    BY <1>4, <2>1 DEF CreateVault, ReleaseTypes, m
<1>5. ASSUME NEW v \in LivingVaults, NEW p \in Periods, ConfigureVaultRelease(v, p) PROVE ReleaseTypes'
  <2>1. p \in Nat /\ p \div m \in Nat
    BY <1>2, LifeAssumptions
  <2> HIDE DEF m
  <2> QED
    BY <1>5, <2>1 DEF ConfigureVaultRelease, ReleaseTypes, m
<1>6. ASSUME NEW v \in LivingVaults, RecordProofOfLife(v), UNCHANGED <<lifeTime, lifeBlock>>
      PROVE  ReleaseTypes'
  BY <1>6 DEF RecordProofOfLife, ReleaseTypes
<1>7. ASSUME NEW dt \in LifeBlockTimes, LifeNewBlock(dt) PROVE ReleaseTypes'
  BY <1>7, LifeAssumptions DEF LifeNewBlock, ReleaseTypes
<1> QED
  BY <1>3, <1>4, <1>5, <1>6, <1>7 DEF LifeNext, ProveLife, ProveLifeByKeeper, RevokeKeeper,
     SignAuthorization, AuthorizeKeeperBySig, lifeVars

-----------------------------------------------------------------------------
(* Both tracks                                                             *)

LifeInv == RingInv /\ OrderInv /\ KeeperInv /\ ReleaseShape /\ ReleaseTypes

\* Each track goes on as if it were alone.
LEMMA ReleaseTracks ==
    /\ ReleaseInit => Init /\ LifeInit
    /\ [ReleaseNext]_<<track, vars, lifeVars>> => [Next]_vars /\ [LifeNext]_lifeVars
BY DEF ReleaseInit, ReleaseNext, EmergencyStep, LifeStep

\* The emergency part of the release run is EmergencyVrf itself.
THEOREM EmergencyTrack == ReleaseSpec => Spec
BY ReleaseTracks, PTL DEF ReleaseSpec, Spec

\* The ring, the keepers and the release states keep their invariant.
THEOREM Life == ReleaseSpec => []LifeInv
<1>1. LifeInit => LifeInv
  BY RingInit, OrderInit, KeeperInit, ShapeInit, ReleaseTypesInit DEF LifeInv
<1>2. LifeInv /\ [LifeNext]_lifeVars => LifeInv'
  BY RingStep, OrderStep, KeeperStep, ReleaseStep, ReleaseTypesStep DEF LifeInv
<1> QED
  BY <1>1, <1>2, ReleaseTracks, PTL DEF ReleaseSpec

\* The median is taken from the latest proofs of life, in order, also after
\* the ring has wrapped.
THEOREM RingCorrect == ReleaseSpec => []RingHoldsLatest
<1>1. LifeInv => RingHoldsLatest
  BY RingReadsLatest DEF LifeInv
<1> QED
  BY <1>1, Life, PTL

\* A keeper acts on the latest authorisation accepted; no signature is
\* accepted twice.
THEOREM ConsentCorrect == ReleaseSpec => []KeeperHasConsent
<1>1. LifeInv => KeeperHasConsent
  BY DEF LifeInv, KeeperInv
<1> QED
  BY <1>1, Life, PTL

\* getMedianBlockInterval is never 0 and lies in the middle of the latest gaps,
\* and it is read from what was recorded; keepers act on what was signed.
THEOREM LifeCorrect == ReleaseSpec => []LifeIsRecorded
<1>1. LifeInv => LifeIsRecorded
  BY RingReadsLatest, MedianCorrect DEF LifeInv, KeeperInv, LifeIsRecorded
<1> QED
  BY <1>1, Life, PTL

\* Both tracks keep their types; for the release states that takes a median
\* that is a natural number other than 0.
THEOREM ReleaseTyped == ReleaseSpec => []ReleaseTypeOK
<1>1. EmergencyInv /\ LifeInv => ReleaseTypeOK
  BY DEF EmergencyInv, LifeInv, RingInv, RingTypeOK, KeeperInv, KeeperTypeOK, ReleaseTypes,
         ReleaseTypeOK, LifeTypeOK
<1> QED
  BY <1>1, Life, EmergencyTrack, Emergency, PTL

\* Schedules stand until their emergency ends, and no call makes a post-death
\* release due: both tracks release by waiting only.
THEOREM DelaysCorrect == ReleaseSpec => DelaysAreKept
<1>1. LifeInv /\ [LifeNext]_lifeVars => [KeepsLocked]_lifeVars
  BY ReleaseStep DEF LifeInv
<1>2. ReleaseSpec => UnlockOnlyByWaiting
  BY <1>1, Life, ReleaseTracks, PTL DEF ReleaseSpec, UnlockOnlyByWaiting, KeepsLocked
<1> QED
  BY <1>2, EmergencyTrack, FulfilledOnce, PTL DEF DelaysAreKept

=============================================================================
