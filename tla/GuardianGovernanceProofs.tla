----------------------- MODULE GuardianGovernanceProofs -----------------------
(***************************************************************************)
(* Proofs about GuardianGovernance for every set of accounts, targets and  *)
(* thresholds and all positive time limits.                                *)
(***************************************************************************)
EXTENDS GuardianGovernance, FiniteSetTheorems, TLAPS

-----------------------------------------------------------------------------
(* Lists of guardians                                                      *)

\* Pushing an account that is not on an injective list keeps it injective and
\* adds that account to its range (acceptGuardianInvite, the approve calls).
LEMMA AppendFresh ==
    ASSUME NEW S, NEW list \in Seq(S), NEW x \in S,
           Injective(list), x \notin RangeOf(list)
    PROVE  /\ Append(list, x) \in Seq(S)
           /\ Injective(Append(list, x))
           /\ RangeOf(Append(list, x)) = RangeOf(list) \cup {x}
           /\ Len(Append(list, x)) = Len(list) + 1
<1> DEFINE a == Append(list, x)
<1>1. a \in Seq(S) /\ Len(a) = Len(list) + 1 /\ Len(list) \in Nat
  OBVIOUS
<1>2. \A i \in 1 .. Len(list) : a[i] = list[i]
  OBVIOUS
<1>3. a[Len(list) + 1] = x
  OBVIOUS
<1> HIDE DEF a
<1>4. Injective(a)
  BY <1>1, <1>2, <1>3 DEF Injective, RangeOf
<1>5. RangeOf(a) = RangeOf(list) \cup {x}
  BY <1>1, <1>2, <1>3 DEF RangeOf
<1> QED
  BY <1>1, <1>4, <1>5 DEF a

\* _removeGuardian: on an injective list that holds g, swap-and-pop removes g,
\* keeps every other entry once and shortens the list by one.
LEMMA SwapAndPop ==
    ASSUME NEW S, NEW list \in Seq(S), NEW g,
           Injective(list), g \in RangeOf(list)
    PROVE  /\ RemoveGuardian(list, g) \in Seq(S)
           /\ Injective(RemoveGuardian(list, g))
           /\ RangeOf(RemoveGuardian(list, g)) = RangeOf(list) \ {g}
           /\ Len(RemoveGuardian(list, g)) = Len(list) - 1
<1> DEFINE n == Len(list)
           k == CHOOSE i \in 1 .. n : list[i] = g
           r == [i \in 1 .. (n - 1) |-> IF i = k THEN list[n] ELSE list[i]]
<1>1. n \in Nat /\ n >= 1 /\ \E i \in 1 .. n : list[i] = g
  BY DEF RangeOf
<1>2. k \in 1 .. n /\ list[k] = g
  BY <1>1
<1>3. RemoveGuardian(list, g) = r
  BY <1>1 DEF RemoveGuardian
<1>4. \A i \in 1 .. n : list[i] \in S
  OBVIOUS
<1> HIDE DEF k
<1>5. r \in [1 .. (n - 1) -> S] /\ n - 1 \in Nat
  BY <1>1, <1>4
<1>6. r \in Seq(S) /\ Len(r) = n - 1
  BY <1>5
<1>7. \A i \in 1 .. (n - 1) : r[i] = IF i = k THEN list[n] ELSE list[i]
  OBVIOUS
<1>8. \A i, j \in 1 .. n : list[i] = list[j] => i = j
  BY DEF Injective
<1> HIDE DEF n, r
<1>9. Injective(r)
  BY <1>1, <1>2, <1>6, <1>7, <1>8 DEF Injective
<1>10. RangeOf(r) = RangeOf(list) \ {g}
  <2>1. ASSUME NEW y \in RangeOf(r) PROVE y \in RangeOf(list) \ {g}
    BY <1>1, <1>2, <1>6, <1>7, <1>8 DEF RangeOf, n
  <2>2. ASSUME NEW y \in RangeOf(list) \ {g} PROVE y \in RangeOf(r)
    <3>1. PICK i \in 1 .. n : list[i] = y
      BY DEF RangeOf, n
    <3>2. i # k
      BY <3>1, <1>2
    <3>3. CASE i = n
      <4>1. k \in 1 .. (n - 1) /\ r[k] = y
        BY <3>1, <3>2, <3>3, <1>1, <1>2, <1>7
      <4> QED
        BY <4>1, <1>6 DEF RangeOf
    <3>4. CASE i # n
      <4>1. i \in 1 .. (n - 1) /\ r[i] = y
        BY <3>1, <3>2, <3>4, <1>1, <1>7
      <4> QED
        BY <4>1, <1>6 DEF RangeOf
    <3> QED
      BY <3>3, <3>4
  <2> QED
    BY <2>1, <2>2
<1> QED
  BY <1>3, <1>6, <1>9, <1>10 DEF n

-----------------------------------------------------------------------------
(* Membership: who the guardians are                                       *)

\* The part of GovernanceInv that the membership properties rest on.
MembershipInv ==
    /\ TypeOK
    /\ GuardianListConsistent
    /\ NothingBeforeVault
    /\ InvitesSpent
    /\ RemovedStaysOut
    /\ OpenRemovalsAreOfGuardians
    /\ \A g \in Targets : removals[g].executed => removals[g].createdAt # 0

\* The record written by the two propose calls.
LEMMA NewProposalFields ==
    ASSUME TypeOK
    PROVE  /\ NewProposal \in Proposal
           /\ NewProposal.createdAt = time /\ time # 0
           /\ ~NewProposal.executed
<1>1. NoProposal \in Proposal
  BY DEF NoProposal, Proposal
<1>2. time \in Nat \ {0} /\ time + ProposalTTL \in Nat
  BY GovernanceAssumptions DEF TypeOK
<1> QED
  BY <1>1, <1>2 DEF NewProposal, NoProposal, Proposal

\* A vote pushed onto approvedBy leaves the rest of the record alone.
LEMMA VotedProposal ==
    ASSUME NEW p \in Proposal, NEW v \in Addr
    PROVE  /\ [p EXCEPT !.approvedBy = Append(@, v)] \in Proposal
           /\ [p EXCEPT !.approvedBy = Append(@, v)].createdAt = p.createdAt
           /\ [p EXCEPT !.approvedBy = Append(@, v)].executed = p.executed
<1>1. Append(p.approvedBy, v) \in Seq(Addr)
  BY DEF Proposal
<1> QED
  BY <1>1 DEF Proposal

\* No vault and no proposal at first.
LEMMA MembershipInit == Init => MembershipInv
<1> SUFFICES ASSUME Init PROVE MembershipInv
  OBVIOUS
<1>1. TypeOK
  BY GovernanceAssumptions
  DEF Init, TypeOK, Invite, Proposal, NoInvite, NoProposal
<1>2. GuardianListConsistent
  BY DEF Init, GuardianListConsistent, Injective, RangeOf
<1> QED
  BY <1>1, <1>2 DEF Init, MembershipInv, NothingBeforeVault, InvitesSpent,
     RemovedStaysOut, OpenRemovalsAreOfGuardians, Invited, Former, NoProposal,
     NoInvite

\* createVault lists the creator as guardian and invites the others.
LEMMA CreateVaultKeepsMembership ==
    ASSUME NEW sender \in Addr, NEW invited \in SUBSET Addr, NEW threshold,
           MembershipInv, CreateVault(sender, invited, threshold)
    PROVE  MembershipInv'
<1> USE DEF MembershipInv, CreateVault, VaultExists, propVars
<1>1. TypeOK'
  BY GovernanceAssumptions DEF TypeOK, Invite, NoInvite
<1>2. GuardianListConsistent'
  <2>1. guardians' = <<sender>> /\ isGuardian' = {sender}
    OBVIOUS
  <2>2. Len(<<sender>>) = 1 /\ <<sender>>[1] = sender
    OBVIOUS
  <2> QED
    BY <2>1, <2>2 DEF GuardianListConsistent, Injective, RangeOf
<1>3. \A g \in Targets : removals'[g].createdAt = 0 /\ ~removals'[g].executed
  BY DEF NothingBeforeVault
<1>4. sender \notin Invited'
  BY DEF Invited, NoInvite
<1>5. NothingBeforeVault'
  BY GovernanceAssumptions DEF NothingBeforeVault
<1>6. InvitesSpent' /\ RemovedStaysOut' /\ OpenRemovalsAreOfGuardians'
  BY <1>3, <1>4 DEF InvitesSpent, RemovedStaysOut, OpenRemovalsAreOfGuardians,
     Former
<1> QED
  BY <1>1, <1>2, <1>3, <1>5, <1>6

\* An invited account joins array and mapping and spends its invitation.
LEMMA AcceptGuardianInviteKeepsMembership ==
    ASSUME NEW sender \in Addr, MembershipInv, AcceptGuardianInvite(sender)
    PROVE  MembershipInv'
<1> USE DEF MembershipInv, AcceptGuardianInvite, VaultExists, propVars
<1>1. guardians \in Seq(Addr) /\ sender \notin RangeOf(guardians)
  BY DEF TypeOK, GuardianListConsistent
<1>2. /\ guardians' \in Seq(Addr)
      /\ GuardianListConsistent'
  BY <1>1, AppendFresh DEF GuardianListConsistent
<1>3. invites' \in [Addr -> Invite]
  BY DEF TypeOK, Invite
<1>4. TypeOK'
  BY <1>2, <1>3 DEF TypeOK
<1>5. Invited' = Invited \ {sender} /\ sender \in Invited
  BY DEF Invited, TypeOK, Invite, NoInvite
<1>6. Former' = Former
  BY DEF Former
<1>7. InvitesSpent'
  BY <1>5, <1>6 DEF InvitesSpent
<1>8. RemovedStaysOut'
  BY <1>5, <1>6 DEF RemovedStaysOut, InvitesSpent
<1>9. NothingBeforeVault' /\ OpenRemovalsAreOfGuardians'
  BY DEF NothingBeforeVault, OpenRemovalsAreOfGuardians
<1> QED
  BY <1>2, <1>4, <1>7, <1>8, <1>9

\* Only a guardian's removal is proposed.
LEMMA ProposeGuardianRemovalKeepsMembership ==
    ASSUME NEW sender \in Addr, NEW g \in Targets,
           MembershipInv, ProposeGuardianRemoval(sender, g)
    PROVE  MembershipInv'
<1> USE DEF MembershipInv, ProposeGuardianRemoval, VaultExists, setVars
<1>1. /\ NewProposal \in Proposal
      /\ NewProposal.createdAt # 0
      /\ ~NewProposal.executed
  BY NewProposalFields
<1>2. removals' = [removals EXCEPT ![g] = NewProposal]
  OBVIOUS
<1> HIDE DEF ProposeGuardianRemoval
<1>3. /\ UNCHANGED <<time, creator, guardians, isGuardian, approvalThreshold, invites>>
      /\ UNCHANGED <<updates, approvedRemoval, approvedUpdate>>
      /\ creator # Nobody /\ g \in isGuardian
  BY DEF ProposeGuardianRemoval
<1>4. TypeOK'
  BY <1>1, <1>2, <1>3 DEF TypeOK
<1>5. GuardianListConsistent' /\ NothingBeforeVault' /\ Invited' = Invited
  BY <1>3 DEF GuardianListConsistent, NothingBeforeVault, Invited
<1>6. \A h \in Targets : removals'[h] = IF h = g THEN NewProposal ELSE removals[h]
  BY <1>2 DEF TypeOK
<1>7. Former' \subseteq Former
  BY <1>1, <1>6 DEF Former
<1>8. InvitesSpent' /\ RemovedStaysOut'
  BY <1>3, <1>5, <1>7 DEF InvitesSpent, RemovedStaysOut
<1>9. OpenRemovalsAreOfGuardians'
  BY <1>3, <1>6 DEF OpenRemovalsAreOfGuardians
<1>10. \A h \in Targets : removals'[h].executed => removals'[h].createdAt # 0
  BY <1>1, <1>6
<1> QED
  BY <1>4, <1>5, <1>8, <1>9, <1>10

\* Every other call leaves createdAt and executed of the removals alone, or is
\* executeVaultReconfiguration: what those calls have in common.
LEMMA SameMembership ==
    ASSUME MembershipInv, TypeOK',
           UNCHANGED <<creator, guardians, isGuardian, approvalThreshold, invites>>,
           \A h \in Targets : /\ removals'[h].createdAt = removals[h].createdAt
                              /\ removals'[h].executed = removals[h].executed,
           creator = Nobody =>
             /\ \A h \in Targets : approvedRemoval'[h] = {}
             /\ \A m \in Thresholds : updates'[m].createdAt = 0 /\ approvedUpdate'[m] = {}
    PROVE  MembershipInv'
<1>1. Former' = Former /\ Invited' = Invited
  BY DEF Former, Invited
<1>2. GuardianListConsistent' /\ InvitesSpent' /\ RemovedStaysOut'
  BY <1>1 DEF MembershipInv, GuardianListConsistent, InvitesSpent, RemovedStaysOut
<1>3. NothingBeforeVault' /\ OpenRemovalsAreOfGuardians'
  BY <1>1 DEF MembershipInv, NothingBeforeVault, OpenRemovalsAreOfGuardians
<1> QED
  BY <1>2, <1>3 DEF MembershipInv

\* An approval leaves the membership alone.
LEMMA ApproveGuardianRemovalKeepsMembership ==
    ASSUME NEW sender \in Addr, NEW g \in Targets,
           MembershipInv, ApproveGuardianRemoval(sender, g)
    PROVE  MembershipInv'
<1> DEFINE q == [removals[g] EXCEPT !.approvedBy = Append(@, sender)]
<1>1. removals[g] \in Proposal /\ TypeOK
  BY DEF MembershipInv, TypeOK
<1>2. /\ q \in Proposal
      /\ q.createdAt = removals[g].createdAt
      /\ q.executed = removals[g].executed
  BY <1>1, VotedProposal
<1>3. removals' = [removals EXCEPT ![g] = q]
  BY DEF ApproveGuardianRemoval
<1> HIDE DEF q
<1>4. TypeOK'
  BY <1>1, <1>2, <1>3 DEF ApproveGuardianRemoval, TypeOK, setVars
<1>5. \A h \in Targets : /\ removals'[h].createdAt = removals[h].createdAt
                         /\ removals'[h].executed = removals[h].executed
  BY <1>1, <1>2, <1>3 DEF TypeOK
<1> QED
  BY <1>4, <1>5, SameMembership
  DEF ApproveGuardianRemoval, MayApprove, VaultExists, setVars

\* So does the proposal of a threshold.
LEMMA ProposeThresholdUpdateKeepsMembership ==
    ASSUME NEW sender \in Addr, NEW n \in Thresholds,
           MembershipInv, ProposeThresholdUpdate(sender, n)
    PROVE  MembershipInv'
<1>1. NewProposal \in Proposal /\ TypeOK
  BY NewProposalFields DEF MembershipInv
<1>2. TypeOK'
  BY <1>1 DEF ProposeThresholdUpdate, TypeOK, setVars
<1> QED
  BY <1>2, SameMembership DEF ProposeThresholdUpdate, VaultExists, setVars

\* And an approval of it.
LEMMA ApproveThresholdUpdateKeepsMembership ==
    ASSUME NEW sender \in Addr, NEW n \in Thresholds,
           MembershipInv, ApproveThresholdUpdate(sender, n)
    PROVE  MembershipInv'
<1> DEFINE q == [updates[n] EXCEPT !.approvedBy = Append(@, sender)]
<1>1. updates[n] \in Proposal /\ TypeOK
  BY DEF MembershipInv, TypeOK
<1>2. q \in Proposal
  BY <1>1, VotedProposal
<1>3. updates' = [updates EXCEPT ![n] = q]
  BY DEF ApproveThresholdUpdate
<1> HIDE DEF q
<1>4. TypeOK'
  BY <1>1, <1>2, <1>3 DEF ApproveThresholdUpdate, TypeOK, setVars
<1> QED
  BY <1>4, SameMembership
  DEF ApproveThresholdUpdate, MayApprove, VaultExists, setVars

\* Queuing starts a timelock and changes no membership.
LEMMA QueueKeepsMembership ==
    ASSUME NEW sender \in Addr, NEW g \in Targets, NEW n \in Thresholds,
           MembershipInv, QueueVaultReconfiguration(sender, g, n)
    PROVE  MembershipInv'
<1>1. TypeOK
  BY DEF MembershipInv
<1>2. TypeOK'
  BY <1>1, ZenonT(60) DEF QueueVaultReconfiguration, TypeOK, Proposal, setVars
<1>3. \A h \in Targets : /\ removals'[h].createdAt = removals[h].createdAt
                         /\ removals'[h].executed = removals[h].executed
  BY <1>1 DEF QueueVaultReconfiguration, TypeOK, Proposal
<1> QED
  BY <1>2, <1>3, SameMembership
  DEF QueueVaultReconfiguration, VaultExists, setVars

\* Neither does cancelling.
LEMMA CancelKeepsMembership ==
    ASSUME NEW sender \in Addr, NEW g \in Targets, NEW n \in Thresholds,
           MembershipInv, CancelVaultReconfiguration(sender, g, n)
    PROVE  MembershipInv'
<1>1. TypeOK
  BY DEF MembershipInv
<1>2. TypeOK'
  BY <1>1 DEF CancelVaultReconfiguration, TypeOK, Proposal, setVars
<1>3. \A h \in Targets : /\ removals'[h].createdAt = removals[h].createdAt
                         /\ removals'[h].executed = removals[h].executed
  BY <1>1 DEF CancelVaultReconfiguration, TypeOK, Proposal
<1> QED
  BY <1>2, <1>3, SameMembership
  DEF CancelVaultReconfiguration, VaultExists, setVars

\* Time passes.
LEMMA TickKeepsMembership ==
    ASSUME MembershipInv, Tick
    PROVE  MembershipInv'
<1>1. TypeOK'
  BY DEF MembershipInv, Tick, TypeOK, setVars, propVars
<1> QED
  BY <1>1, SameMembership DEF Tick, setVars, propVars, MembershipInv,
     NothingBeforeVault

\* Execution removes a guardian from array and mapping, or sets the threshold.
LEMMA ExecuteKeepsMembership ==
    ASSUME NEW g \in Targets, NEW n \in Thresholds,
           MembershipInv, ExecuteVaultReconfiguration(g, n)
    PROVE  MembershipInv'
<1>1. /\ creator # Nobody
      /\ UNCHANGED <<time, creator, invites, approvedRemoval, approvedUpdate>>
      /\ updates' = IF Live(updates[n])
                    THEN [updates EXCEPT ![n].executed = TRUE] ELSE updates
      /\ approvalThreshold' \in {n, approvalThreshold}
  BY DEF ExecuteVaultReconfiguration, VaultExists
<1>2. TypeOK
  BY DEF MembershipInv
<1>3. updates' \in [Thresholds -> Proposal] /\ approvalThreshold' \in Nat
  BY <1>1, <1>2, GovernanceAssumptions DEF TypeOK, Proposal
<1>4. NothingBeforeVault' /\ Invited' = Invited
  BY <1>1 DEF NothingBeforeVault, Invited
<1>5. CASE ~Live(removals[g])
  <2>1. UNCHANGED <<guardians, isGuardian, removals>>
    BY <1>5 DEF ExecuteVaultReconfiguration
  <2>2. TypeOK' /\ Former' = Former
    BY <2>1, <1>1, <1>2, <1>3 DEF TypeOK, Former
  <2> QED
    BY <2>1, <2>2, <1>4 DEF MembershipInv, GuardianListConsistent,
       InvitesSpent, RemovedStaysOut, OpenRemovalsAreOfGuardians
<1>6. CASE Live(removals[g])
  <2>1. /\ guardians' = RemoveGuardian(guardians, g)
        /\ isGuardian' = isGuardian \ {g}
        /\ removals' = [removals EXCEPT ![g].executed = TRUE]
    BY <1>6 DEF ExecuteVaultReconfiguration
  <2>2. g \in isGuardian
    BY <1>6 DEF Live, MembershipInv, OpenRemovalsAreOfGuardians
  <2>3. /\ guardians \in Seq(Addr)
        /\ Injective(guardians)
        /\ RangeOf(guardians) = isGuardian
    BY DEF MembershipInv, GuardianListConsistent, TypeOK
  <2>4. guardians' \in Seq(Addr) /\ GuardianListConsistent'
    BY <2>1, <2>2, <2>3, SwapAndPop DEF GuardianListConsistent
  <2>5. removals' \in [Targets -> Proposal]
    BY <2>1, <1>2 DEF TypeOK, Proposal
  <2>6. TypeOK'
    BY <2>1, <2>4, <2>5, <1>1, <1>2, <1>3 DEF TypeOK
  <2>7. \A h \in Targets :
          /\ removals'[h].createdAt = removals[h].createdAt
          /\ removals'[h].executed = IF h = g THEN TRUE ELSE removals[h].executed
    BY <2>1, <1>2 DEF TypeOK, Proposal
  <2>8. Former' = Former \cup {g}
    BY <2>7 DEF Former
  <2>9. InvitesSpent' /\ RemovedStaysOut'
    BY <2>1, <2>2, <2>8, <1>4 DEF MembershipInv, InvitesSpent, RemovedStaysOut
  <2>10. OpenRemovalsAreOfGuardians'
    BY <2>1, <2>7 DEF MembershipInv, OpenRemovalsAreOfGuardians
  <2>11. \A h \in Targets : removals'[h].executed => removals'[h].createdAt # 0
    BY <2>7, <1>6 DEF MembershipInv, Live
  <2> QED
    BY <2>4, <2>6, <2>9, <2>10, <2>11, <1>4 DEF MembershipInv
<1> QED
  BY <1>5, <1>6

\* Nothing happens.
LEMMA StutterKeepsMembership ==
    ASSUME MembershipInv, UNCHANGED vars
    PROVE  MembershipInv'
<1>1. TypeOK'
  BY DEF MembershipInv, TypeOK, vars, setVars, propVars
<1> QED
  BY <1>1, SameMembership DEF vars, setVars, propVars, MembershipInv,
     NothingBeforeVault

\* The guardian list, the invitations and the executed removals agree in every
\* reachable state.
THEOREM Membership == Spec => []MembershipInv
<1>1. Init => MembershipInv
  BY MembershipInit
<1>2. MembershipInv /\ [Next]_vars => MembershipInv'
  <2> SUFFICES ASSUME MembershipInv, [Next]_vars PROVE MembershipInv'
    OBVIOUS
  <2>1. CASE UNCHANGED vars
    BY <2>1, StutterKeepsMembership
  <2>2. ASSUME NEW sender \in Addr, NEW invited \in SUBSET Addr, NEW threshold,
               CreateVault(sender, invited, threshold)
        PROVE  MembershipInv'
    BY <2>2, CreateVaultKeepsMembership
  <2>3. ASSUME NEW sender \in Addr, AcceptGuardianInvite(sender)
        PROVE  MembershipInv'
    BY <2>3, AcceptGuardianInviteKeepsMembership
  <2>4. ASSUME NEW sender \in Addr, NEW g \in Targets,
               \/ ProposeGuardianRemoval(sender, g)
               \/ ApproveGuardianRemoval(sender, g)
        PROVE  MembershipInv'
    BY <2>4, ProposeGuardianRemovalKeepsMembership,
       ApproveGuardianRemovalKeepsMembership
  <2>5. ASSUME NEW sender \in Addr, NEW n \in Thresholds,
               \/ ProposeThresholdUpdate(sender, n)
               \/ ApproveThresholdUpdate(sender, n)
        PROVE  MembershipInv'
    BY <2>5, ProposeThresholdUpdateKeepsMembership,
       ApproveThresholdUpdateKeepsMembership
  <2>6. ASSUME NEW sender \in Addr, NEW g \in Targets, NEW n \in Thresholds,
               \/ QueueVaultReconfiguration(sender, g, n)
               \/ CancelVaultReconfiguration(sender, g, n)
        PROVE  MembershipInv'
    BY <2>6, QueueKeepsMembership, CancelKeepsMembership
  <2>7. ASSUME NEW g \in Targets, NEW n \in Thresholds,
               ExecuteVaultReconfiguration(g, n)
        PROVE  MembershipInv'
    BY <2>7, ExecuteKeepsMembership
  <2>8. CASE Tick
    BY <2>8, TickKeepsMembership
  <2> QED
    BY <2>1, <2>2, <2>3, <2>4, <2>5, <2>6, <2>7, <2>8 DEF Next
<1> QED
  BY <1>1, <1>2, PTL DEF Spec

\* Every variable keeps its type.
THEOREM TypeCorrect == Spec => []TypeOK
<1>1. MembershipInv => TypeOK
  BY DEF MembershipInv
<1> QED
  BY <1>1, Membership, PTL

\* The guardians array lists exactly the accounts isGuardian marks, each once,
\* whatever invitations, removals and re-proposals happened.
THEOREM ListConsistent == Spec => []GuardianListConsistent
<1>1. MembershipInv => GuardianListConsistent
  BY DEF MembershipInv
<1> QED
  BY <1>1, Membership, PTL

\* No former guardian is ever a guardian again.
THEOREM RemovalIsFinal == Spec => []RemovedStaysOut
<1>1. MembershipInv => RemovedStaysOut
  BY DEF MembershipInv
<1> QED
  BY <1>1, Membership, PTL

-----------------------------------------------------------------------------
(* Votes and timelocks: what happens to one proposal record                *)

\* What VotesAreHonest, ProposalsWellTimed and ExecutedWasDecided say of one
\* proposal with the given voters at time t.
SoundAt(p, voters, t) ==
    /\ Injective(p.approvedBy)
    /\ RangeOf(p.approvedBy) \subseteq voters
    /\ p.executed => p.createdAt # 0
    /\ p.queuedAt # 0 => p.createdAt <= p.queuedAt /\ p.queuedAt <= t
    /\ p.executed => /\ Len(p.approvedBy) >= 2
                     /\ ~p.vetoed
                     /\ p.createdAt <= p.queuedAt
                     /\ p.queuedAt + TimelockDelay < p.expiresAt
                     /\ p.queuedAt + TimelockDelay <= t

\* A new proposal has no votes, whoever voted on an earlier one.
LEMMA NewProposalSound ==
    ASSUME TypeOK, NEW voters
    PROVE  SoundAt(NewProposal, voters, time)
<1>1. /\ NewProposal.approvedBy = <<>>
      /\ ~NewProposal.executed
      /\ NewProposal.queuedAt = 0
  BY DEF NewProposal, NoProposal
<1>2. Injective(<<>>) /\ RangeOf(<<>>) = {}
  BY DEF Injective, RangeOf
<1> QED
  BY <1>1, <1>2 DEF SoundAt

\* A vote by an account that has not voted on this subject is counted once.
LEMMA VotedProposalSound ==
    ASSUME NEW p \in Proposal, NEW voters, NEW t, SoundAt(p, voters, t),
           NEW v \in Addr, v \notin voters, ~p.executed
    PROVE  SoundAt([p EXCEPT !.approvedBy = Append(@, v)], voters \cup {v}, t)
<1> DEFINE q == [p EXCEPT !.approvedBy = Append(@, v)]
<1>1. /\ q.approvedBy = Append(p.approvedBy, v)
      /\ q.executed = p.executed /\ q.createdAt = p.createdAt
      /\ q.queuedAt = p.queuedAt
  BY DEF Proposal
<1>2. p.approvedBy \in Seq(Addr) /\ v \notin RangeOf(p.approvedBy)
  BY DEF Proposal, SoundAt
<1>3. /\ Injective(Append(p.approvedBy, v))
      /\ RangeOf(Append(p.approvedBy, v)) = RangeOf(p.approvedBy) \cup {v}
  BY <1>2, AppendFresh DEF SoundAt
<1> HIDE DEF q
<1>4. SoundAt(q, voters \cup {v}, t)
  BY <1>1, <1>3 DEF SoundAt
<1> QED
  BY <1>4 DEF q

\* Queueing stamps the current time, which no creation time exceeds.
LEMMA QueuedProposalSound ==
    ASSUME NEW p \in Proposal, NEW voters, NEW t \in Nat, SoundAt(p, voters, t),
           p.createdAt <= t, ~p.executed
    PROVE  SoundAt([p EXCEPT !.queuedAt = t], voters, t)
BY DEF Proposal, SoundAt

\* A veto reaches only proposals that were not executed.
LEMMA VetoedProposalSound ==
    ASSUME NEW p \in Proposal, NEW voters, NEW t, SoundAt(p, voters, t),
           ~p.executed
    PROVE  SoundAt([p EXCEPT !.vetoed = TRUE], voters, t)
BY DEF Proposal, SoundAt

\* Executing a live, approved, queued proposal after the timelock.
LEMMA ExecutedProposalSound ==
    ASSUME TypeOK, NEW p \in Proposal, NEW voters, SoundAt(p, voters, time),
           Live(p), MayExecute(p), Len(guardians) >= 1
    PROVE  SoundAt([p EXCEPT !.executed = TRUE], voters, time)
<1>1. Len(guardians) \in Nat /\ time \in Nat /\ TimelockDelay \in Nat
  BY GovernanceAssumptions DEF TypeOK
<1>2. RequiredQuorumApprovals(Len(guardians)) >= 2
  BY <1>1 DEF RequiredQuorumApprovals
<1>3. Len(p.approvedBy) >= 2
  <2>1. Len(p.approvedBy) \in Nat
    BY DEF Proposal
  <2>2. RequiredQuorumApprovals(Len(guardians)) \in Nat
    BY <1>1 DEF RequiredQuorumApprovals
  <2> QED
    BY <1>2, <2>1, <2>2 DEF MayExecute
<1>4. /\ p.createdAt \in Nat /\ p.expiresAt \in Nat /\ p.queuedAt \in Nat
      /\ p.createdAt <= p.queuedAt
      /\ p.queuedAt + TimelockDelay < p.expiresAt
      /\ p.queuedAt + TimelockDelay <= time
      /\ ~p.vetoed /\ p.createdAt # 0
  BY <1>1 DEF Proposal, Live, MayExecute, SoundAt
<1> DEFINE q == [p EXCEPT !.executed = TRUE]
<1>5. /\ q.approvedBy = p.approvedBy /\ q.vetoed = p.vetoed
      /\ q.createdAt = p.createdAt /\ q.expiresAt = p.expiresAt
      /\ q.queuedAt = p.queuedAt
  BY DEF Proposal
<1> HIDE DEF q
<1>6. SoundAt(q, voters, time)
  BY <1>3, <1>4, <1>5 DEF SoundAt
<1> QED
  BY <1>6 DEF q

\* Time passing and new voters do not unsettle a sound proposal.
LEMMA SoundLater ==
    ASSUME NEW p \in Proposal, NEW voters, NEW more, voters \subseteq more,
           NEW t \in Nat, NEW u \in Nat, t <= u, SoundAt(p, voters, t)
    PROVE  SoundAt(p, more, u)
<1>1. p.queuedAt \in Nat /\ TimelockDelay \in Nat
  BY GovernanceAssumptions DEF Proposal
<1> QED
  BY <1>1 DEF SoundAt

-----------------------------------------------------------------------------
(* Votes and timelocks: the invariant                                      *)

VotingInv ==
    /\ \A g \in Targets :
         /\ SoundAt(removals[g], approvedRemoval[g], time)
         /\ removals[g].createdAt <= time
         /\ approvedRemoval[g] \subseteq isGuardian \cup Former
    /\ \A n \in Thresholds :
         /\ SoundAt(updates[n], approvedUpdate[n], time)
         /\ updates[n].createdAt <= time
         /\ approvedUpdate[n] \subseteq isGuardian \cup Former
         /\ updates[n].createdAt # 0 => n # 0

\* No votes at first.
LEMMA VotingInit == Init => VotingInv
<1> SUFFICES ASSUME Init PROVE VotingInv
  OBVIOUS
<1>1. Injective(<<>>) /\ RangeOf(<<>>) = {}
  BY DEF Injective, RangeOf
<1> QED
  BY <1>1, GovernanceAssumptions DEF Init, VotingInv, SoundAt, NoProposal

\* The calls that leave both kinds of proposals and their voters alone:
\* whoever was or is a guardian still is one of the two.
LEMMA SameVotes ==
    ASSUME VotingInv, TypeOK, TypeOK', time <= time', UNCHANGED propVars,
           isGuardian \cup Former \subseteq (isGuardian \cup Former)'
    PROVE  VotingInv'
<1> USE DEF VotingInv, propVars
<1>1. time \in Nat /\ time' \in Nat
  BY DEF TypeOK
<1>2. ASSUME NEW g \in Targets
      PROVE  /\ SoundAt(removals[g], approvedRemoval[g], time')
             /\ removals[g].createdAt <= time'
  <2>1. removals[g] \in Proposal /\ removals[g].createdAt \in Nat
    BY DEF TypeOK, Proposal
  <2> QED
    BY <1>1, <2>1, SoundLater
<1>3. ASSUME NEW n \in Thresholds
      PROVE  /\ SoundAt(updates[n], approvedUpdate[n], time')
             /\ updates[n].createdAt <= time'
  <2>1. updates[n] \in Proposal /\ updates[n].createdAt \in Nat
    BY DEF TypeOK, Proposal
  <2> QED
    BY <1>1, <2>1, SoundLater
<1>4. /\ removals' = removals /\ updates' = updates
      /\ approvedRemoval' = approvedRemoval /\ approvedUpdate' = approvedUpdate
  OBVIOUS
<1> QED
  BY <1>2, <1>3, <1>4

\* The calls that change at most one removal and one update, at one moment:
\* it is enough to look at the two records they may have changed.
LEMMA TouchedVotes ==
    ASSUME VotingInv, TypeOK, NEW g \in Targets, NEW n \in Thresholds,
           UNCHANGED time,
           isGuardian \cup Former \subseteq (isGuardian \cup Former)',
           \A h \in Targets \ {g} : /\ removals'[h] = removals[h]
                                    /\ approvedRemoval'[h] = approvedRemoval[h],
           \A m \in Thresholds \ {n} : /\ updates'[m] = updates[m]
                                       /\ approvedUpdate'[m] = approvedUpdate[m],
           SoundAt(removals'[g], approvedRemoval'[g], time),
           removals'[g].createdAt <= time,
           approvedRemoval'[g] \subseteq (isGuardian \cup Former)',
           SoundAt(updates'[n], approvedUpdate'[n], time),
           updates'[n].createdAt <= time,
           approvedUpdate'[n] \subseteq (isGuardian \cup Former)',
           updates'[n].createdAt # 0 => n # 0
    PROVE  VotingInv'
<1>1. ASSUME NEW h \in Targets
      PROVE  /\ SoundAt(removals'[h], approvedRemoval'[h], time)
             /\ removals'[h].createdAt <= time
             /\ approvedRemoval'[h] \subseteq (isGuardian \cup Former)'
  BY DEF VotingInv
<1>2. ASSUME NEW m \in Thresholds
      PROVE  /\ SoundAt(updates'[m], approvedUpdate'[m], time)
             /\ updates'[m].createdAt <= time
             /\ approvedUpdate'[m] \subseteq (isGuardian \cup Former)'
             /\ updates'[m].createdAt # 0 => m # 0
  BY DEF VotingInv
<1> QED
  BY <1>1, <1>2 DEF VotingInv

\* There are no votes before the vault.
LEMMA CreateVaultKeepsVotes ==
    ASSUME NEW sender \in Addr, NEW invited \in SUBSET Addr, NEW threshold,
           MembershipInv, MembershipInv', VotingInv,
           CreateVault(sender, invited, threshold)
    PROVE  VotingInv'
<1>1. isGuardian = {} /\ UNCHANGED propVars /\ time' = time /\ Former' = Former
  BY DEF CreateVault, VaultExists, MembershipInv, NothingBeforeVault, propVars,
     Former
<1>2. TypeOK /\ TypeOK' /\ time <= time'
  BY <1>1 DEF MembershipInv, TypeOK
<1> QED
  BY <1>1, <1>2, SameVotes

\* A new guardian has voted for nothing.
LEMMA AcceptGuardianInviteKeepsVotes ==
    ASSUME NEW sender \in Addr, MembershipInv, MembershipInv', VotingInv,
           AcceptGuardianInvite(sender)
    PROVE  VotingInv'
<1>1. /\ isGuardian \subseteq isGuardian' /\ UNCHANGED propVars /\ time' = time
      /\ Former' = Former
  BY DEF AcceptGuardianInvite, propVars, Former
<1>2. TypeOK /\ TypeOK' /\ time <= time'
  BY <1>1 DEF MembershipInv, TypeOK
<1> QED
  BY <1>1, <1>2, SameVotes

\* Time passes.
LEMMA TickKeepsVotes ==
    ASSUME MembershipInv, MembershipInv', VotingInv, Tick
    PROVE  VotingInv'
<1>1. /\ UNCHANGED <<isGuardian, propVars>> /\ time' = time + 1
      /\ Former' = Former
  BY DEF Tick, setVars, propVars, Former
<1>2. TypeOK /\ TypeOK' /\ time <= time'
  BY <1>1 DEF MembershipInv, TypeOK
<1> QED
  BY <1>1, <1>2, SameVotes

\* Nothing happens.
LEMMA StutterKeepsVotes ==
    ASSUME MembershipInv, MembershipInv', VotingInv, UNCHANGED vars
    PROVE  VotingInv'
<1>1. /\ UNCHANGED <<isGuardian, propVars, time>> /\ Former' = Former
  BY DEF vars, setVars, propVars, Former
<1>2. TypeOK /\ TypeOK' /\ time <= time'
  BY <1>1 DEF MembershipInv, TypeOK
<1> QED
  BY <1>1, <1>2, SameVotes

\* The calls on removals alone leave every update as it is, and conversely.
LEMMA TouchedRemoval ==
    ASSUME VotingInv, TypeOK, NEW g \in Targets,
           UNCHANGED <<time, updates, approvedUpdate>>,
           isGuardian \cup Former \subseteq (isGuardian \cup Former)',
           \A h \in Targets \ {g} : /\ removals'[h] = removals[h]
                                    /\ approvedRemoval'[h] = approvedRemoval[h],
           SoundAt(removals'[g], approvedRemoval'[g], time),
           removals'[g].createdAt <= time,
           approvedRemoval'[g] \subseteq (isGuardian \cup Former)'
    PROVE  VotingInv'
<1>1. ASSUME NEW h \in Targets
      PROVE  /\ SoundAt(removals'[h], approvedRemoval'[h], time)
             /\ removals'[h].createdAt <= time
             /\ approvedRemoval'[h] \subseteq (isGuardian \cup Former)'
  BY DEF VotingInv
<1> QED
  BY <1>1 DEF VotingInv

\* Only one threshold proposal changes, and it stays sound.
LEMMA TouchedUpdate ==
    ASSUME VotingInv, TypeOK, NEW n \in Thresholds,
           UNCHANGED <<time, isGuardian, removals, approvedRemoval>>,
           \A m \in Thresholds \ {n} : /\ updates'[m] = updates[m]
                                       /\ approvedUpdate'[m] = approvedUpdate[m],
           SoundAt(updates'[n], approvedUpdate'[n], time),
           updates'[n].createdAt <= time,
           approvedUpdate'[n] \subseteq isGuardian \cup Former,
           updates'[n].createdAt # 0 => n # 0
    PROVE  VotingInv'
<1>1. Former' = Former
  BY DEF Former
<1>2. ASSUME NEW m \in Thresholds
      PROVE  /\ SoundAt(updates'[m], approvedUpdate'[m], time)
             /\ updates'[m].createdAt <= time
             /\ approvedUpdate'[m] \subseteq isGuardian \cup Former
             /\ updates'[m].createdAt # 0 => m # 0
  BY DEF VotingInv
<1> QED
  BY <1>1, <1>2 DEF VotingInv

\* A proposed removal starts with the vote of its proposer.
LEMMA ProposeGuardianRemovalKeepsVotes ==
    ASSUME NEW sender \in Addr, NEW g \in Targets,
           MembershipInv, VotingInv, ProposeGuardianRemoval(sender, g)
    PROVE  VotingInv'
<1>1. /\ g \in isGuardian /\ TypeOK /\ g \notin Former
      /\ UNCHANGED <<time, isGuardian, updates, approvedRemoval, approvedUpdate>>
      /\ removals' = [removals EXCEPT ![g] = NewProposal]
  BY DEF ProposeGuardianRemoval, setVars, MembershipInv, RemovedStaysOut
<1>2. \A h \in Targets : removals'[h] = IF h = g THEN NewProposal ELSE removals[h]
  BY <1>1 DEF TypeOK
<1>3. NewProposal.createdAt = time /\ time \in Nat
  BY <1>1, NewProposalFields DEF TypeOK
<1>4. Former \subseteq Former'
  BY <1>1, <1>2 DEF Former
<1>5. SoundAt(removals'[g], approvedRemoval'[g], time)
  BY <1>1, <1>2, NewProposalSound
<1>6. removals'[g].createdAt <= time
  BY <1>2, <1>3
<1>7. approvedRemoval'[g] \subseteq (isGuardian \cup Former)'
  BY <1>1, <1>4 DEF VotingInv
<1> QED
  BY <1>1, <1>2, <1>4, <1>5, <1>6, <1>7, TouchedRemoval

\* A vote for a removal is added once.
LEMMA ApproveGuardianRemovalKeepsVotes ==
    ASSUME NEW sender \in Addr, NEW g \in Targets,
           MembershipInv, VotingInv, ApproveGuardianRemoval(sender, g)
    PROVE  VotingInv'
<1> DEFINE q == [removals[g] EXCEPT !.approvedBy = Append(@, sender)]
<1>1. /\ removals[g] \in Proposal /\ TypeOK /\ sender \in isGuardian
      /\ sender \notin approvedRemoval[g] /\ ~removals[g].executed
      /\ UNCHANGED <<time, isGuardian, updates, approvedUpdate>>
      /\ removals' = [removals EXCEPT ![g] = q]
      /\ approvedRemoval' = [approvedRemoval EXCEPT ![g] = @ \cup {sender}]
  BY DEF ApproveGuardianRemoval, MayApprove, setVars, MembershipInv, TypeOK
<1>2. SoundAt(q, approvedRemoval[g] \cup {sender}, time)
  BY <1>1, VotedProposalSound DEF VotingInv
<1>3. q.createdAt = removals[g].createdAt /\ q.executed = removals[g].executed
  BY <1>1, VotedProposal
<1> HIDE DEF q
<1>4. /\ \A h \in Targets : removals'[h] = IF h = g THEN q ELSE removals[h]
      /\ \A h \in Targets \ {g} : approvedRemoval'[h] = approvedRemoval[h]
      /\ approvedRemoval'[g] = approvedRemoval[g] \cup {sender}
  BY <1>1 DEF TypeOK
<1>5. Former' = Former
  BY <1>3, <1>4 DEF Former
<1>6. SoundAt(removals'[g], approvedRemoval'[g], time)
  BY <1>2, <1>4
<1>7. /\ removals'[g].createdAt <= time
      /\ approvedRemoval'[g] \subseteq (isGuardian \cup Former)'
  BY <1>1, <1>3, <1>4, <1>5 DEF VotingInv
<1> QED
  BY <1>1, <1>4, <1>5, <1>6, <1>7, TouchedRemoval

\* A proposed threshold starts with the vote of its proposer.
LEMMA ProposeThresholdUpdateKeepsVotes ==
    ASSUME NEW sender \in Addr, NEW n \in Thresholds,
           MembershipInv, VotingInv, ProposeThresholdUpdate(sender, n)
    PROVE  VotingInv'
<1>1. /\ n # 0 /\ TypeOK
      /\ UNCHANGED <<time, isGuardian, removals, approvedRemoval, approvedUpdate>>
      /\ updates' = [updates EXCEPT ![n] = NewProposal]
  BY DEF ProposeThresholdUpdate, setVars, MembershipInv
<1>2. \A m \in Thresholds : updates'[m] = IF m = n THEN NewProposal ELSE updates[m]
  BY <1>1 DEF TypeOK
<1>3. NewProposal.createdAt = time /\ time \in Nat
  BY <1>1, NewProposalFields DEF TypeOK
<1>4. SoundAt(updates'[n], approvedUpdate'[n], time)
  BY <1>1, <1>2, NewProposalSound
<1>5. updates'[n].createdAt <= time
  BY <1>2, <1>3
<1>6. approvedUpdate'[n] \subseteq isGuardian \cup Former
  BY <1>1 DEF VotingInv
<1> QED
  BY <1>1, <1>2, <1>4, <1>5, <1>6, TouchedUpdate

\* A vote for a threshold is added once.
LEMMA ApproveThresholdUpdateKeepsVotes ==
    ASSUME NEW sender \in Addr, NEW n \in Thresholds,
           MembershipInv, VotingInv, ApproveThresholdUpdate(sender, n)
    PROVE  VotingInv'
<1> DEFINE q == [updates[n] EXCEPT !.approvedBy = Append(@, sender)]
<1>1. /\ updates[n] \in Proposal /\ TypeOK /\ sender \in isGuardian
      /\ sender \notin approvedUpdate[n] /\ ~updates[n].executed
      /\ UNCHANGED <<time, isGuardian, removals, approvedRemoval>>
      /\ updates' = [updates EXCEPT ![n] = q]
      /\ approvedUpdate' = [approvedUpdate EXCEPT ![n] = @ \cup {sender}]
  BY DEF ApproveThresholdUpdate, MayApprove, setVars, MembershipInv, TypeOK
<1>2. SoundAt(q, approvedUpdate[n] \cup {sender}, time)
  BY <1>1, VotedProposalSound DEF VotingInv
<1>3. q.createdAt = updates[n].createdAt
  BY <1>1, VotedProposal
<1> HIDE DEF q
<1>4. /\ \A m \in Thresholds : updates'[m] = IF m = n THEN q ELSE updates[m]
      /\ \A m \in Thresholds \ {n} : approvedUpdate'[m] = approvedUpdate[m]
      /\ approvedUpdate'[n] = approvedUpdate[n] \cup {sender}
  BY <1>1 DEF TypeOK
<1>5. SoundAt(updates'[n], approvedUpdate'[n], time)
  BY <1>2, <1>4
<1>6. /\ updates'[n].createdAt <= time
      /\ approvedUpdate'[n] \subseteq isGuardian \cup Former
      /\ updates'[n].createdAt # 0 => n # 0
  BY <1>1, <1>3, <1>4 DEF VotingInv
<1> QED
  BY <1>1, <1>4, <1>5, <1>6, TouchedUpdate

\* One call stamps the queueing time on the live one of two proposals.
LEMMA QueueKeepsVotes ==
    ASSUME NEW sender \in Addr, NEW g \in Targets, NEW n \in Thresholds,
           MembershipInv, VotingInv, QueueVaultReconfiguration(sender, g, n)
    PROVE  VotingInv'
<1> DEFINE r == [removals[g] EXCEPT !.queuedAt = time]
           u == [updates[n] EXCEPT !.queuedAt = time]
<1>1. /\ TypeOK /\ removals[g] \in Proposal /\ updates[n] \in Proposal
      /\ time \in Nat
      /\ UNCHANGED <<time, isGuardian, approvedRemoval, approvedUpdate>>
      /\ removals' = IF Live(removals[g]) THEN [removals EXCEPT ![g] = r]
                                          ELSE removals
      /\ updates' = IF Live(updates[n]) THEN [updates EXCEPT ![n] = u]
                                        ELSE updates
  BY DEF QueueVaultReconfiguration, setVars, MembershipInv, TypeOK
<1>2. Live(removals[g]) => SoundAt(r, approvedRemoval[g], time)
  BY <1>1, QueuedProposalSound DEF VotingInv, Live
<1>3. Live(updates[n]) => SoundAt(u, approvedUpdate[n], time)
  BY <1>1, QueuedProposalSound DEF VotingInv, Live
<1>4. /\ r.createdAt = removals[g].createdAt /\ r.executed = removals[g].executed
      /\ u.createdAt = updates[n].createdAt
  BY <1>1 DEF Proposal
<1> HIDE DEF r, u
<1>5. /\ \A h \in Targets \ {g} : removals'[h] = removals[h]
      /\ removals'[g] = IF Live(removals[g]) THEN r ELSE removals[g]
      /\ \A m \in Thresholds \ {n} : updates'[m] = updates[m]
      /\ updates'[n] = IF Live(updates[n]) THEN u ELSE updates[n]
  BY <1>1 DEF TypeOK
<1>6. Former' = Former
  BY <1>4, <1>5 DEF Former
<1>7. /\ SoundAt(removals'[g], approvedRemoval'[g], time)
      /\ removals'[g].createdAt <= time
      /\ approvedRemoval'[g] \subseteq (isGuardian \cup Former)'
  BY <1>1, <1>2, <1>4, <1>5, <1>6 DEF VotingInv
<1>8. /\ SoundAt(updates'[n], approvedUpdate'[n], time)
      /\ updates'[n].createdAt <= time
      /\ approvedUpdate'[n] \subseteq (isGuardian \cup Former)'
      /\ updates'[n].createdAt # 0 => n # 0
  BY <1>1, <1>3, <1>4, <1>5, <1>6 DEF VotingInv
<1> QED
  BY <1>1, <1>5, <1>6, <1>7, <1>8, TouchedVotes

\* The creator's veto.
LEMMA CancelKeepsVotes ==
    ASSUME NEW sender \in Addr, NEW g \in Targets, NEW n \in Thresholds,
           MembershipInv, VotingInv, CancelVaultReconfiguration(sender, g, n)
    PROVE  VotingInv'
<1> DEFINE r == [removals[g] EXCEPT !.vetoed = TRUE]
           u == [updates[n] EXCEPT !.vetoed = TRUE]
<1>1. /\ TypeOK /\ removals[g] \in Proposal /\ updates[n] \in Proposal
      /\ time \in Nat
      /\ UNCHANGED <<time, isGuardian, approvedRemoval, approvedUpdate>>
      /\ removals' = IF Cancellable(removals[g]) THEN [removals EXCEPT ![g] = r]
                                                 ELSE removals
      /\ updates' = IF Cancellable(updates[n]) THEN [updates EXCEPT ![n] = u]
                                               ELSE updates
  BY DEF CancelVaultReconfiguration, setVars, MembershipInv, TypeOK
<1>2. Cancellable(removals[g]) => SoundAt(r, approvedRemoval[g], time)
  BY <1>1, VetoedProposalSound DEF VotingInv, Cancellable
<1>3. Cancellable(updates[n]) => SoundAt(u, approvedUpdate[n], time)
  BY <1>1, VetoedProposalSound DEF VotingInv, Cancellable
<1>4. /\ r.createdAt = removals[g].createdAt /\ r.executed = removals[g].executed
      /\ u.createdAt = updates[n].createdAt
  BY <1>1 DEF Proposal
<1> HIDE DEF r, u
<1>5. /\ \A h \in Targets \ {g} : removals'[h] = removals[h]
      /\ removals'[g] = IF Cancellable(removals[g]) THEN r ELSE removals[g]
      /\ \A m \in Thresholds \ {n} : updates'[m] = updates[m]
      /\ updates'[n] = IF Cancellable(updates[n]) THEN u ELSE updates[n]
  BY <1>1 DEF TypeOK
<1>6. Former' = Former
  BY <1>4, <1>5 DEF Former
<1>7. /\ SoundAt(removals'[g], approvedRemoval'[g], time)
      /\ removals'[g].createdAt <= time
      /\ approvedRemoval'[g] \subseteq (isGuardian \cup Former)'
  BY <1>1, <1>2, <1>4, <1>5, <1>6 DEF VotingInv
<1>8. /\ SoundAt(updates'[n], approvedUpdate'[n], time)
      /\ updates'[n].createdAt <= time
      /\ approvedUpdate'[n] \subseteq (isGuardian \cup Former)'
      /\ updates'[n].createdAt # 0 => n # 0
  BY <1>1, <1>3, <1>4, <1>5, <1>6 DEF VotingInv
<1> QED
  BY <1>1, <1>5, <1>6, <1>7, <1>8, TouchedVotes

\* executeVaultReconfiguration: the quorum is at least two because a vault
\* whose proposal is executed still has a guardian.
LEMMA ExecuteKeepsVotes ==
    ASSUME NEW g \in Targets, NEW n \in Thresholds,
           MembershipInv, VotingInv, ExecuteVaultReconfiguration(g, n)
    PROVE  VotingInv'
<1> DEFINE r == [removals[g] EXCEPT !.executed = TRUE]
           u == [updates[n] EXCEPT !.executed = TRUE]
<1>1. /\ TypeOK /\ removals[g] \in Proposal /\ updates[n] \in Proposal
      /\ Len(guardians) \in Nat /\ n \in Nat
      /\ UNCHANGED <<time, approvedRemoval, approvedUpdate>>
      /\ removals' = IF Live(removals[g]) THEN [removals EXCEPT ![g] = r]
                                          ELSE removals
      /\ updates' = IF Live(updates[n]) THEN [updates EXCEPT ![n] = u]
                                        ELSE updates
      /\ isGuardian' = IF Live(removals[g]) THEN isGuardian \ {g} ELSE isGuardian
  BY GovernanceAssumptions DEF ExecuteVaultReconfiguration, MembershipInv, TypeOK
<1>2. /\ Live(removals[g]) => MayExecute(removals[g]) /\ Len(guardians) >= 1
      /\ Live(updates[n]) => MayExecute(updates[n]) /\ Len(guardians) >= 1
  <2>1. Live(updates[n]) => n # 0
    BY DEF Live, VotingInv
  <2> QED
    BY <1>1, <2>1 DEF ExecuteVaultReconfiguration, ThresholdFits
<1>3. Live(removals[g]) => SoundAt(r, approvedRemoval[g], time)
  BY <1>1, <1>2, ExecutedProposalSound DEF VotingInv
<1>4. Live(updates[n]) => SoundAt(u, approvedUpdate[n], time)
  BY <1>1, <1>2, ExecutedProposalSound DEF VotingInv
<1>5. /\ r.createdAt = removals[g].createdAt /\ r.executed
      /\ u.createdAt = updates[n].createdAt
  BY <1>1 DEF Proposal
<1> HIDE DEF r, u
<1>6. /\ \A h \in Targets \ {g} : removals'[h] = removals[h]
      /\ removals'[g] = IF Live(removals[g]) THEN r ELSE removals[g]
      /\ \A m \in Thresholds \ {n} : updates'[m] = updates[m]
      /\ updates'[n] = IF Live(updates[n]) THEN u ELSE updates[n]
  BY <1>1 DEF TypeOK
<1>7. isGuardian \cup Former \subseteq (isGuardian \cup Former)'
  BY <1>1, <1>5, <1>6 DEF Former
<1>8. /\ SoundAt(removals'[g], approvedRemoval'[g], time)
      /\ removals'[g].createdAt <= time
      /\ approvedRemoval'[g] \subseteq (isGuardian \cup Former)'
  BY <1>1, <1>3, <1>5, <1>6, <1>7 DEF VotingInv
<1>9. /\ SoundAt(updates'[n], approvedUpdate'[n], time)
      /\ updates'[n].createdAt <= time
      /\ approvedUpdate'[n] \subseteq (isGuardian \cup Former)'
      /\ updates'[n].createdAt # 0 => n # 0
  BY <1>1, <1>4, <1>5, <1>6, <1>7 DEF VotingInv
<1> QED
  BY <1>1, <1>6, <1>7, <1>8, <1>9, TouchedVotes

\* Votes and timelocks are kept by every call of the contract.
THEOREM Voting == Spec => []VotingInv
<1>1. Init => VotingInv
  BY VotingInit
<1>2. MembershipInv /\ MembershipInv' /\ VotingInv /\ [Next]_vars => VotingInv'
  <2> SUFFICES ASSUME MembershipInv, MembershipInv', VotingInv, [Next]_vars
               PROVE  VotingInv'
    OBVIOUS
  <2>1. CASE UNCHANGED vars
    BY <2>1, StutterKeepsVotes
  <2>2. ASSUME NEW sender \in Addr, NEW invited \in SUBSET Addr, NEW threshold,
               CreateVault(sender, invited, threshold)
        PROVE  VotingInv'
    BY <2>2, CreateVaultKeepsVotes
  <2>3. ASSUME NEW sender \in Addr, AcceptGuardianInvite(sender)
        PROVE  VotingInv'
    BY <2>3, AcceptGuardianInviteKeepsVotes
  <2>4. ASSUME NEW sender \in Addr, NEW g \in Targets,
               \/ ProposeGuardianRemoval(sender, g)
               \/ ApproveGuardianRemoval(sender, g)
        PROVE  VotingInv'
    BY <2>4, ProposeGuardianRemovalKeepsVotes, ApproveGuardianRemovalKeepsVotes
  <2>5. ASSUME NEW sender \in Addr, NEW n \in Thresholds,
               \/ ProposeThresholdUpdate(sender, n)
               \/ ApproveThresholdUpdate(sender, n)
        PROVE  VotingInv'
    BY <2>5, ProposeThresholdUpdateKeepsVotes, ApproveThresholdUpdateKeepsVotes
  <2>6. ASSUME NEW sender \in Addr, NEW g \in Targets, NEW n \in Thresholds,
               \/ QueueVaultReconfiguration(sender, g, n)
               \/ CancelVaultReconfiguration(sender, g, n)
        PROVE  VotingInv'
    BY <2>6, QueueKeepsVotes, CancelKeepsVotes
  <2>7. ASSUME NEW g \in Targets, NEW n \in Thresholds,
               ExecuteVaultReconfiguration(g, n)
        PROVE  VotingInv'
    BY <2>7, ExecuteKeepsVotes
  <2>8. CASE Tick
    BY <2>8, TickKeepsVotes
  <2> QED
    BY <2>1, <2>2, <2>3, <2>4, <2>5, <2>6, <2>7, <2>8 DEF Next
<1> QED
  BY <1>1, <1>2, Membership, PTL DEF Spec

\* GovernanceInv, the invariant TLC checks, holds for every instance.
THEOREM Governance == Spec => []GovernanceInv
<1>1. MembershipInv /\ VotingInv => GovernanceInv
  BY DEF MembershipInv, VotingInv, GovernanceInv, SoundAt, ProposalsWellTimed,
     WellTimed, VotesAreHonest, HonestTally, ExecutedWasDecided, DulyDecided
<1> QED
  BY <1>1, Membership, Voting, PTL

\* Only counted votes of guardians and an unbroken timelock reconfigure a
\* vault, whatever is re-proposed, vetoed, queued again or executed together.
THEOREM VotesCorrect == Spec => []VotesDecide
<1>1. GovernanceInv => VotesDecide
  BY DEF GovernanceInv, VotesDecide
<1> QED
  BY <1>1, Governance, PTL

-----------------------------------------------------------------------------
(* Seen from outside: the vault implements GuardianSet                     *)

\* A list without duplicates has as many entries as accounts on it.
LEMMA ListCardinality ==
    ASSUME NEW S, NEW list \in Seq(S), Injective(list)
    PROVE  /\ IsFiniteSet(RangeOf(list))
           /\ Cardinality(RangeOf(list)) = Len(list)
<1> DEFINE I == 1 .. Len(list)
           R == RangeOf(list)
           f == [i \in I |-> list[i]]
<1>1. Len(list) \in Nat
  OBVIOUS
<1>2. IsFiniteSet(I) /\ Cardinality(I) = Len(list)
  BY <1>1, FS_Interval
<1>3. f \in Bijection(I, R)
  <2>1. f \in [I -> R] /\ \A y \in R : \E i \in I : f[i] = y
    BY DEF RangeOf
  <2>2. \A i, j \in I : f[i] = f[j] => i = j
    BY DEF Injective
  <2> QED
    BY <2>1, <2>2 DEF Bijection, Injection, Surjection, IsInjective
<1>4. ExistsBijection(I, R)
  BY <1>3 DEF ExistsBijection
<1> HIDE DEF I, R
<1> QED
  BY <1>2, <1>4, FS_Bijection DEF R

\* Before createVault the set of guardians is empty.
LEMMA GuardianSetInit == Init => GS!Init
BY DEF Init, GS!Init, Invited, Former, NoInvite, NoProposal

\* createVault is the founding of the set.
LEMMA CreateVaultFounds ==
    ASSUME NEW sender \in Addr, NEW invited \in SUBSET Addr, NEW threshold,
           GovernanceInv, CreateVault(sender, invited, threshold)
    PROVE  GS!Found(sender, invited)
<1>1. approvalThreshold = 0
  BY DEF CreateVault, VaultExists, GovernanceInv, NothingBeforeVault
<1>2. Former' = Former
  BY DEF CreateVault, propVars, Former
<1>3. Invited' = invited \ {sender}
  <2>1. time + InviteTTL # 0
    BY GovernanceAssumptions DEF GovernanceInv, TypeOK
  <2> QED
    BY <2>1 DEF CreateVault, Invited, NoInvite
<1> QED
  BY <1>1, <1>2, <1>3 DEF CreateVault, GS!Found, GS!Cardinality, Cardinality

\* acceptGuardianInvite turns an invited account into a member.
LEMMA AcceptGuardianInviteJoins ==
    ASSUME NEW sender \in Addr, GovernanceInv, AcceptGuardianInvite(sender)
    PROVE  GS!Join(sender)
<1>1. Invited' = Invited \ {sender} /\ sender \in Invited
  BY DEF AcceptGuardianInvite, GovernanceInv, Invited, TypeOK, Invite, NoInvite
<1>2. Former' = Former
  BY DEF AcceptGuardianInvite, propVars, Former
<1> QED
  BY <1>1, <1>2 DEF AcceptGuardianInvite, GS!Join

\* executeVaultReconfiguration drops at most the one guardian it names and
\* sets a threshold the remaining guardians can meet.
LEMMA ExecuteReconfigures ==
    ASSUME NEW g \in Targets, NEW n \in Thresholds,
           GovernanceInv, ExecuteVaultReconfiguration(g, n)
    PROVE  \E leaving \in SUBSET Addr : GS!Reconfigure(leaving)
<1> DEFINE removing == Live(removals[g])
           leaving == IF removing THEN {g} ELSE {}
<1>1. /\ TypeOK /\ g \in Addr /\ n \in Nat
      /\ guardians \in Seq(Addr) /\ Injective(guardians)
      /\ RangeOf(guardians) = isGuardian
  BY GovernanceAssumptions DEF GovernanceInv, GuardianListConsistent, TypeOK
<1>2. /\ IsFiniteSet(isGuardian) /\ Cardinality(isGuardian) = Len(guardians)
      /\ Len(guardians) \in Nat
  BY <1>1, ListCardinality
<1>3. removing => g \in isGuardian
  BY DEF GovernanceInv, OpenRemovalsAreOfGuardians, Live
<1>4. /\ leaving \subseteq isGuardian /\ leaving \in SUBSET Addr
      /\ Cardinality(leaving) <= 1
  <2>1. Cardinality({g}) = 1 /\ Cardinality({}) = 0
    BY FS_EmptySet, FS_Singleton
  <2> QED
    BY <1>1, <1>3, <2>1
<1>5. isGuardian' = isGuardian \ leaving
  BY DEF ExecuteVaultReconfiguration
<1>6. Former' = Former \cup leaving
  <2>1. removals' = IF removing THEN [removals EXCEPT ![g].executed = TRUE]
                                ELSE removals
    BY DEF ExecuteVaultReconfiguration
  <2>2. \A h \in Targets : removals'[h].executed =
            IF removing /\ h = g THEN TRUE ELSE removals[h].executed
    BY <1>1, <2>1 DEF TypeOK, Proposal
  <2> QED
    BY <2>2 DEF Former
<1>7. Cardinality(isGuardian \ leaving) =
        IF removing THEN Len(guardians) - 1 ELSE Len(guardians)
  <2>1. CASE removing
    BY <2>1, <1>2, <1>3, FS_RemoveElement
  <2>2. CASE ~removing
    BY <2>2, <1>2
  <2> QED
    BY <2>1, <2>2
<1>8. approvalThreshold' \in
        {approvalThreshold} \cup 1 .. Cardinality(isGuardian \ leaving)
  <2>1. CASE ~Live(updates[n])
    BY <2>1 DEF ExecuteVaultReconfiguration
  <2>2. CASE Live(updates[n])
    <3>1. n # 0
      BY <2>2 DEF GovernanceInv, ProposalsWellTimed, Live
    <3>2. approvalThreshold' = n /\ ThresholdFits(n, removing)
      BY <2>2 DEF ExecuteVaultReconfiguration
    <3>3. n <= Cardinality(isGuardian \ leaving)
      BY <3>2, <1>7 DEF ThresholdFits
    <3> QED
      BY <1>1, <1>2, <1>7, <3>1, <3>2, <3>3
  <2> QED
    BY <2>1, <2>2
<1>9. Invited' = Invited
  BY DEF ExecuteVaultReconfiguration, Invited
<1> HIDE DEF leaving
<1> QED
  BY <1>4, <1>5, <1>6, <1>8, <1>9 DEF GS!Reconfigure, GS!Cardinality, Cardinality

\* Proposing, approving, queueing and vetoing change nobody's standing.
LEMMA OtherCallsStutter ==
    ASSUME GovernanceInv, UNCHANGED setVars,
           \A h \in Targets : removals'[h].executed = removals[h].executed
    PROVE  UNCHANGED GS!gsVars
<1>1. Former' = Former
  BY DEF Former
<1> QED
  BY <1>1 DEF setVars, GS!gsVars, Invited

\* Proposing and approving a removal change no membership.
LEMMA RemovalCallsStutter ==
    ASSUME NEW sender \in Addr, NEW g \in Targets, GovernanceInv,
           \/ ProposeGuardianRemoval(sender, g)
           \/ ApproveGuardianRemoval(sender, g)
    PROVE  UNCHANGED GS!gsVars
<1>1. TypeOK
  BY DEF GovernanceInv
<1>2. UNCHANGED setVars
  BY DEF ProposeGuardianRemoval, ApproveGuardianRemoval
<1>3. CASE ProposeGuardianRemoval(sender, g)
  <2>1. ~removals[g].executed /\ ~NewProposal.executed
    BY <1>1, <1>3, NewProposalFields DEF ProposeGuardianRemoval, GovernanceInv,
       RemovedStaysOut, Former
  <2>2. removals[g] \in Proposal /\ NewProposal \in Proposal
    BY <1>1, NewProposalFields DEF TypeOK
  <2>3. NewProposal.executed = removals[g].executed
    BY <2>1, <2>2 DEF Proposal
  <2>4. \A h \in Targets : removals'[h].executed = removals[h].executed
    BY <1>1, <1>3, <2>3 DEF ProposeGuardianRemoval, TypeOK
  <2> QED
    BY <1>2, <2>4, OtherCallsStutter
<1>4. CASE ApproveGuardianRemoval(sender, g)
  <2>1. \A h \in Targets : removals'[h].executed = removals[h].executed
    BY <1>1, <1>4 DEF ApproveGuardianRemoval, TypeOK, Proposal
  <2> QED
    BY <1>2, <2>1, OtherCallsStutter
<1> QED
  BY <1>3, <1>4

\* Neither do queuing and cancelling.
LEMMA QueueCallsStutter ==
    ASSUME NEW sender \in Addr, NEW g \in Targets, NEW n \in Thresholds,
           GovernanceInv,
           \/ QueueVaultReconfiguration(sender, g, n)
           \/ CancelVaultReconfiguration(sender, g, n)
    PROVE  UNCHANGED GS!gsVars
<1>1. TypeOK
  BY DEF GovernanceInv
<1>2. UNCHANGED setVars
  BY DEF QueueVaultReconfiguration, CancelVaultReconfiguration
<1>3. CASE QueueVaultReconfiguration(sender, g, n)
  <2>1. \A h \in Targets : removals'[h].executed = removals[h].executed
    BY <1>1, <1>3 DEF QueueVaultReconfiguration, TypeOK, Proposal
  <2> QED
    BY <1>2, <2>1, OtherCallsStutter
<1>4. CASE CancelVaultReconfiguration(sender, g, n)
  <2>1. \A h \in Targets : removals'[h].executed = removals[h].executed
    BY <1>1, <1>4 DEF CancelVaultReconfiguration, TypeOK, Proposal
  <2> QED
    BY <1>2, <2>1, OtherCallsStutter
<1> QED
  BY <1>3, <1>4

\* Every call is a step of GuardianSet or none.
LEMMA GuardianSetStep ==
    ASSUME GovernanceInv, [Next]_vars
    PROVE  [GS!Next]_(GS!gsVars)
<1>1. CASE UNCHANGED vars
  BY <1>1, OtherCallsStutter DEF vars, propVars
<1>2. ASSUME NEW sender \in Addr, NEW invited \in SUBSET Addr, NEW threshold,
             CreateVault(sender, invited, threshold)
      PROVE  GS!Next
  BY <1>2, CreateVaultFounds DEF GS!Next
<1>3. ASSUME NEW sender \in Addr, AcceptGuardianInvite(sender)
      PROVE  GS!Next
  BY <1>3, AcceptGuardianInviteJoins DEF GS!Next
<1>4. ASSUME NEW sender \in Addr, NEW g \in Targets,
             \/ ProposeGuardianRemoval(sender, g)
             \/ ApproveGuardianRemoval(sender, g)
      PROVE  UNCHANGED GS!gsVars
  BY <1>4, RemovalCallsStutter
<1>5. ASSUME NEW sender \in Addr, NEW n \in Thresholds,
             \/ ProposeThresholdUpdate(sender, n)
             \/ ApproveThresholdUpdate(sender, n)
      PROVE  UNCHANGED GS!gsVars
  BY <1>5, OtherCallsStutter DEF ProposeThresholdUpdate, ApproveThresholdUpdate
<1>6. ASSUME NEW sender \in Addr, NEW g \in Targets, NEW n \in Thresholds,
             \/ QueueVaultReconfiguration(sender, g, n)
             \/ CancelVaultReconfiguration(sender, g, n)
      PROVE  UNCHANGED GS!gsVars
  BY <1>6, QueueCallsStutter
<1>7. ASSUME NEW g \in Targets, NEW n \in Thresholds,
             ExecuteVaultReconfiguration(g, n)
      PROVE  GS!Next
  BY <1>7, ExecuteReconfigures DEF GS!Next
<1>8. CASE Tick
  BY <1>8, OtherCallsStutter DEF Tick, propVars
<1> QED
  BY <1>1, <1>2, <1>3, <1>4, <1>5, <1>6, <1>7, <1>8 DEF Next

\* Every behaviour of the vault is one of GuardianSet: accounts move from
\* outsider to invited to member to former member and never back, one call
\* drops at most one member, and new thresholds can be met.
THEOREM VaultImplementsGuardianSet == Spec => ImplementsGuardianSet
<1>1. Init => GS!Init
  BY GuardianSetInit
<1>2. GovernanceInv /\ [Next]_vars => [GS!Next]_(GS!gsVars)
  BY GuardianSetStep
<1> QED
  BY <1>1, <1>2, Governance, PTL DEF Spec, ImplementsGuardianSet, GS!Spec

=============================================================================
