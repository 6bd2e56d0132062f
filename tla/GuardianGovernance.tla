-------------------------- MODULE GuardianGovernance --------------------------
(***************************************************************************)
(* The guardian set of one vault and the governance that reconfigures it:  *)
(* createVault and acceptGuardianInvite of contracts/SpooVault.sol, and    *)
(* the proposals, time-locked queue, veto and execution of                 *)
(* contracts/libraries/SpooVaultAdminLogic.sol.                            *)
(*                                                                         *)
(* Every mapping of the contract is keyed by the vault id and no operation *)
(* here touches two vaults, so the module is about one vault.  A call that *)
(* reverts changes nothing and is not a step.                              *)
(***************************************************************************)
EXTENDS Naturals, Sequences, FiniteSets, TLC

CONSTANTS
    Addr,           \* externally owned accounts and contracts
    Nobody,         \* address(0): the creator of a vault that does not exist
    Targets,        \* the values of guardianToRemove callers pass
    Thresholds,     \* the values of newThreshold callers pass
    InviteTTL,      \* 7 days
    ProposalTTL,    \* 7 days
    TimelockDelay,  \* TIMELOCK_DELAY, 24 hours
    MaxTime         \* bound on block.timestamp

ASSUME GovernanceAssumptions ==
    /\ Nobody \notin Addr
    /\ Targets \subseteq Addr
    /\ Thresholds \subseteq Nat
    /\ InviteTTL \in Nat \ {0}
    /\ ProposalTTL \in Nat \ {0}
    /\ TimelockDelay \in Nat \ {0}
    /\ MaxTime \in Nat

VARIABLES
    time,                \* block.timestamp; 0 stands for "not set" in records
    creator,             \* vaults[id].creator, Nobody while vaults[id].id = 0
    guardians,           \* vaults[id].guardians, the storage array
    isGuardian,          \* the addresses a with isGuardian[id][a]
    approvalThreshold,   \* vaults[id].approvalThreshold
    invites,             \* guardianInvites[a][id]
    removals,            \* guardianRemovalProposals[id][a]
    updates,             \* thresholdUpdateProposals[id][n]
    approvedRemoval,     \* the voters v with hasApprovedRemoval[id][a][v]
    approvedUpdate       \* the voters v with hasApprovedThreshold[id][n][v]

setVars == <<creator, guardians, isGuardian, approvalThreshold, invites>>
propVars == <<removals, updates, approvedRemoval, approvedUpdate>>
vars == <<time, setVars, propVars>>

Invite == [accepted: BOOLEAN, expiresAt: Nat]

Proposal == [approvedBy: Seq(Addr), executed: BOOLEAN, vetoed: BOOLEAN,
             createdAt: Nat, expiresAt: Nat, queuedAt: Nat]

\* A mapping entry that was never written.
NoInvite == [accepted |-> FALSE, expiresAt |-> 0]

NoProposal == [approvedBy |-> <<>>, executed |-> FALSE, vetoed |-> FALSE,
               createdAt |-> 0, expiresAt |-> 0, queuedAt |-> 0]

\* Types. The guardian list, invitations, proposals and votes have their types.
TypeOK ==
    /\ time \in Nat \ {0}
    /\ creator \in Addr \cup {Nobody}
    /\ guardians \in Seq(Addr)
    /\ isGuardian \in SUBSET Addr
    /\ approvalThreshold \in Nat
    /\ invites \in [Addr -> Invite]
    /\ removals \in [Targets -> Proposal]
    /\ updates \in [Thresholds -> Proposal]
    /\ approvedRemoval \in [Targets -> SUBSET Addr]
    /\ approvedUpdate \in [Thresholds -> SUBSET Addr]

Init ==
    /\ time = 1
    /\ creator = Nobody
    /\ guardians = <<>>
    /\ isGuardian = {}
    /\ approvalThreshold = 0
    /\ invites = [a \in Addr |-> NoInvite]
    /\ removals = [a \in Targets |-> NoProposal]
    /\ updates = [n \in Thresholds |-> NoProposal]
    /\ approvedRemoval = [a \in Targets |-> {}]
    /\ approvedUpdate = [n \in Thresholds |-> {}]

-----------------------------------------------------------------------------
(* Membership                                                              *)

VaultExists == creator # Nobody

\* createVault: `invited` is the guardian list, which the contract accepts
\* only without zero addresses and duplicates; the sender may be on it.
CreateVault(sender, invited, threshold) ==
    /\ ~VaultExists
    /\ invited \ {sender} # {}
    /\ threshold \in 1 .. (Cardinality(invited \ {sender}) + 1)
    /\ creator' = sender
    /\ guardians' = <<sender>>
    /\ isGuardian' = {sender}
    /\ approvalThreshold' = threshold
    /\ invites' = [a \in Addr |->
                     IF a \in invited \ {sender}
                     THEN [accepted |-> FALSE, expiresAt |-> time + InviteTTL]
                     ELSE NoInvite]
    /\ UNCHANGED <<time, propVars>>

\* Mutant: the invitation is not marked as used.
AcceptGuardianInvite_Reusable(sender) ==
    /\ VaultExists
    /\ sender \notin isGuardian
    /\ invites[sender] # NoInvite
    /\ invites[sender].expiresAt > time
    /\ isGuardian' = isGuardian \cup {sender}
    /\ guardians' = Append(guardians, sender)
    /\ UNCHANGED <<time, creator, approvalThreshold, invites, propVars>>

AcceptGuardianInvite(sender) ==
    /\ VaultExists
    /\ sender \notin isGuardian
    /\ invites[sender] # NoInvite
    /\ ~invites[sender].accepted
    /\ invites[sender].expiresAt > time
    /\ invites' = [invites EXCEPT ![sender].accepted = TRUE]
    /\ isGuardian' = isGuardian \cup {sender}
    /\ guardians' = Append(guardians, sender)
    /\ UNCHANGED <<time, creator, approvalThreshold, propVars>>

\* Mutant: `delete` the entry and leave address(0) in the array.
RemoveGuardian_Hole(list, g) ==
    [i \in 1 .. Len(list) |-> IF list[i] = g THEN Nobody ELSE list[i]]

\* Mutant: pop without moving the last entry into the gap.
RemoveGuardian_PopOnly(list, g) == SubSeq(list, 1, Len(list) - 1)

\* _removeGuardian: overwrite the entry with the last one, then pop.
RemoveGuardian(list, g) ==
    LET n == Len(list)
    IN  IF \E i \in 1 .. n : list[i] = g
        THEN LET k == CHOOSE i \in 1 .. n : list[i] = g
             IN  [i \in 1 .. (n - 1) |-> IF i = k THEN list[n] ELSE list[i]]
        ELSE list

-----------------------------------------------------------------------------
(* Proposals                                                               *)

\* ceil(n / 2) + 1
RequiredQuorumApprovals(n) == (n + 1) \div 2 + 1

\* A proposal blocks a new one for the same subject while this holds.
Standing(p) ==
    p.createdAt # 0 /\ p.expiresAt > time /\ ~p.executed /\ ~p.vetoed

\* hasRemovalProposal and hasThresholdProposal of queue and execute.
Live(p) == p.createdAt # 0 /\ ~p.executed /\ p.expiresAt > time

NewProposal == [NoProposal EXCEPT !.createdAt = time,
                                  !.expiresAt = time + ProposalTTL]

ProposeGuardianRemoval(sender, g) ==
    /\ VaultExists
    /\ sender \in isGuardian
    /\ g \in isGuardian
    /\ Len(guardians) > 1
    /\ ~Standing(removals[g])
    /\ removals' = [removals EXCEPT ![g] = NewProposal]
    /\ UNCHANGED <<time, setVars, updates, approvedRemoval, approvedUpdate>>

ProposeThresholdUpdate(sender, n) ==
    /\ VaultExists
    /\ sender \in isGuardian
    /\ n # 0 /\ n <= Len(guardians)
    /\ ~Standing(updates[n])
    /\ updates' = [updates EXCEPT ![n] = NewProposal]
    /\ UNCHANGED <<time, setVars, removals, approvedRemoval, approvedUpdate>>

\* The checks approveGuardianRemoval and approveThresholdUpdate share.
MayApprove(sender, p, voters) ==
    /\ VaultExists
    /\ sender \in isGuardian
    /\ p.createdAt # 0
    /\ p.expiresAt > time
    /\ ~p.executed
    /\ ~p.vetoed
    /\ sender \notin voters

ApproveGuardianRemoval(sender, g) ==
    /\ MayApprove(sender, removals[g], approvedRemoval[g])
    /\ approvedRemoval' = [approvedRemoval EXCEPT ![g] = @ \cup {sender}]
    /\ removals' = [removals EXCEPT ![g].approvedBy = Append(@, sender)]
    /\ UNCHANGED <<time, setVars, updates, approvedUpdate>>

ApproveThresholdUpdate(sender, n) ==
    /\ MayApprove(sender, updates[n], approvedUpdate[n])
    /\ approvedUpdate' = [approvedUpdate EXCEPT ![n] = @ \cup {sender}]
    /\ updates' = [updates EXCEPT ![n].approvedBy = Append(@, sender)]
    /\ UNCHANGED <<time, setVars, removals, approvedRemoval>>

-----------------------------------------------------------------------------
(* The time-locked queue: one call names a guardian and a threshold, and   *)
(* acts on whichever of the two proposals is live.                         *)

MayQueue(p) ==
    /\ ~p.vetoed
    /\ p.queuedAt = 0
    /\ Len(p.approvedBy) >= RequiredQuorumApprovals(Len(guardians))

QueueVaultReconfiguration(sender, g, n) ==
    /\ VaultExists
    /\ sender \in isGuardian
    /\ Live(removals[g]) \/ Live(updates[n])
    /\ Live(removals[g]) => MayQueue(removals[g])
    /\ Live(updates[n]) => MayQueue(updates[n])
    /\ removals' = IF Live(removals[g])
                   THEN [removals EXCEPT ![g].queuedAt = time] ELSE removals
    /\ updates' = IF Live(updates[n])
                  THEN [updates EXCEPT ![n].queuedAt = time] ELSE updates
    /\ UNCHANGED <<time, setVars, approvedRemoval, approvedUpdate>>

\* cancelVaultReconfiguration asks only that a proposal exists and was not
\* executed; an expired one may still be vetoed.
Cancellable(p) == p.createdAt # 0 /\ ~p.executed

CancelVaultReconfiguration(sender, g, n) ==
    /\ VaultExists
    /\ sender = creator
    /\ Cancellable(removals[g]) \/ Cancellable(updates[n])
    /\ removals' = IF Cancellable(removals[g])
                   THEN [removals EXCEPT ![g].vetoed = TRUE] ELSE removals
    /\ updates' = IF Cancellable(updates[n])
                  THEN [updates EXCEPT ![n].vetoed = TRUE] ELSE updates
    /\ UNCHANGED <<time, setVars, approvedRemoval, approvedUpdate>>

\* Mutant: no check that the proposal was queued.
MayExecute_Unqueued(p) ==
    /\ ~p.vetoed
    /\ time >= p.queuedAt + TimelockDelay
    /\ Len(p.approvedBy) >= RequiredQuorumApprovals(Len(guardians))

\* The quorum is taken from the guardian count before the removal.
MayExecute(p) ==
    /\ ~p.vetoed
    /\ p.queuedAt # 0
    /\ time >= p.queuedAt + TimelockDelay
    /\ Len(p.approvedBy) >= RequiredQuorumApprovals(Len(guardians))

\* Mutant: the new threshold is compared with the count before the removal.
ThresholdFits_BeforeRemoval(n, removing) == n <= Len(guardians)

\* The new threshold is compared with the guardian count after the removal.
ThresholdFits(n, removing) ==
    n <= (IF removing THEN Len(guardians) - 1 ELSE Len(guardians))

\* Anyone may call it.  A new threshold above the number of guardians left
\* reverts the whole call, the removal included.
ExecuteVaultReconfiguration(g, n) ==
    LET removing == Live(removals[g])
        updating == Live(updates[n])
    IN  /\ VaultExists
        /\ removing \/ updating
        /\ removing => MayExecute(removals[g]) /\ Len(guardians) > 0
        /\ updating => MayExecute(updates[n]) /\ ThresholdFits(n, removing)
        /\ guardians' = IF removing THEN RemoveGuardian(guardians, g)
                                    ELSE guardians
        /\ isGuardian' = IF removing THEN isGuardian \ {g} ELSE isGuardian
        /\ removals' = IF removing
                       THEN [removals EXCEPT ![g].executed = TRUE]
                       ELSE removals
        /\ approvalThreshold' = IF updating THEN n ELSE approvalThreshold
        /\ updates' = IF updating THEN [updates EXCEPT ![n].executed = TRUE]
                                  ELSE updates
        /\ UNCHANGED <<time, creator, invites, approvedRemoval, approvedUpdate>>

\* Blocks are produced and block.timestamp advances.
Tick == /\ time < MaxTime
        /\ time' = time + 1
        /\ UNCHANGED <<setVars, propVars>>

Next ==
    \/ \E sender \in Addr, invited \in SUBSET Addr :
          \E threshold \in 1 .. (Cardinality(invited \ {sender}) + 1) :
              CreateVault(sender, invited, threshold)
    \/ \E sender \in Addr : AcceptGuardianInvite(sender)
    \/ \E sender \in Addr, g \in Targets :
          \/ ProposeGuardianRemoval(sender, g)
          \/ ApproveGuardianRemoval(sender, g)
    \/ \E sender \in Addr, n \in Thresholds :
          \/ ProposeThresholdUpdate(sender, n)
          \/ ApproveThresholdUpdate(sender, n)
    \/ \E sender \in Addr, g \in Targets, n \in Thresholds :
          \/ QueueVaultReconfiguration(sender, g, n)
          \/ CancelVaultReconfiguration(sender, g, n)
    \/ \E g \in Targets, n \in Thresholds : ExecuteVaultReconfiguration(g, n)
    \/ Tick

Spec == Init /\ [][Next]_vars

\* For TLC: accounts are interchangeable when Targets does not tell them apart.
AddrSymmetry == Permutations(Addr)

-----------------------------------------------------------------------------
(* Properties                                                              *)

RangeOf(seq) == {seq[i] : i \in 1 .. Len(seq)}

Injective(seq) == \A i, j \in 1 .. Len(seq) : seq[i] = seq[j] => i = j

\* Guardians whose removal was executed.
Former == {g \in Targets : removals[g].executed}

\* Accounts with an invitation that acceptGuardianInvite has not consumed.
Invited == {a \in Addr : invites[a] # NoInvite /\ ~invites[a].accepted}

\* The guardians array and the isGuardian mapping, which acceptGuardianInvite
\* and the swap-and-pop of _removeGuardian update separately, always hold the
\* same accounts, and the array holds each one once: every quorum is computed
\* from its length.
GuardianListConsistent ==
    /\ Injective(guardians)
    /\ RangeOf(guardians) = isGuardian

\* A removed guardian is out for good: neither its old invitation nor any
\* later proposal, queue or execution makes it a guardian again.
RemovedStaysOut == Former \cap isGuardian = {}

\* Every vote recorded on a proposal is the only one of its voter, and the
\* voter is or was a guardian.
HonestTally(p, voters) ==
    /\ Injective(p.approvedBy)
    /\ RangeOf(p.approvedBy) \subseteq voters
    /\ voters \subseteq isGuardian \cup Former

VotesAreHonest ==
    /\ \A g \in Targets : HonestTally(removals[g], approvedRemoval[g])
    /\ \A n \in Thresholds : HonestTally(updates[n], approvedUpdate[n])

\* A reconfiguration that took effect was backed by two voters at least, was
\* never vetoed by the creator, and had been queued, while its proposal was
\* open, for the whole timelock: a proposal that is re-created, vetoed,
\* queued again or executed together with another one cannot shorten it.
DulyDecided(p) ==
    p.executed =>
      /\ Len(p.approvedBy) >= 2
      /\ ~p.vetoed
      /\ p.createdAt <= p.queuedAt
      /\ p.queuedAt + TimelockDelay < p.expiresAt
      /\ p.queuedAt + TimelockDelay <= time

ExecutedWasDecided ==
    /\ \A g \in Targets : DulyDecided(removals[g])
    /\ \A n \in Thresholds : DulyDecided(updates[n])

\* Only counted votes and an unbroken timelock reconfigure a vault
\* (approveGuardianRemoval, approveThresholdUpdate,
\* executeVaultReconfiguration).
VotesDecide == VotesAreHonest /\ ExecutedWasDecided

\* Seen from outside, every call moves accounts along outsider, invited,
\* member, former member, and sets thresholds the remaining members can meet.
GS == INSTANCE GuardianSet WITH
        invited <- Invited, members <- isGuardian,
        former <- Former, threshold <- approvalThreshold

ImplementsGuardianSet == GS!Spec

\* CannotRemoveOnlyGuardian: governance never leaves a vault without guardians.
SomeGuardianStays == VaultExists => guardians # <<>>

-----------------------------------------------------------------------------
(* The inductive invariant behind the properties above.                    *)

\* Before createVault no guardian, invitation, proposal or vote exists.
NothingBeforeVault ==
    creator = Nobody =>
      /\ isGuardian = {}
      /\ Invited = {}
      /\ approvalThreshold = 0
      /\ \A g \in Targets : removals[g].createdAt = 0 /\ approvedRemoval[g] = {}
      /\ \A n \in Thresholds : updates[n].createdAt = 0 /\ approvedUpdate[n] = {}

\* Guardians and former guardians have no invitation left to accept.
InvitesSpent == Invited \cap (isGuardian \cup Former) = {}

\* A removal that was proposed and not executed is about a current guardian.
OpenRemovalsAreOfGuardians ==
    \A g \in Targets :
      removals[g].createdAt # 0 /\ ~removals[g].executed => g \in isGuardian

\* Timestamps of a proposal are ordered, a queued or executed one was created,
\* and thresholds are proposed only when they are positive.
WellTimed(p) ==
    /\ p.executed => p.createdAt # 0
    /\ p.queuedAt # 0 => /\ p.createdAt <= p.queuedAt
                         /\ p.queuedAt <= time

ProposalsWellTimed ==
    /\ \A g \in Targets : WellTimed(removals[g])
    /\ \A n \in Thresholds : WellTimed(updates[n])
                             /\ (updates[n].createdAt # 0 => n # 0)

GovernanceInv ==
    /\ TypeOK
    /\ GuardianListConsistent
    /\ NothingBeforeVault
    /\ InvitesSpent
    /\ RemovedStaysOut
    /\ OpenRemovalsAreOfGuardians
    /\ ProposalsWellTimed
    /\ VotesAreHonest
    /\ ExecutedWasDecided

=============================================================================
