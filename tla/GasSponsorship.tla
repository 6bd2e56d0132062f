----------------------------- MODULE GasSponsorship -----------------------------
(***************************************************************************)
(* Gasless guardian operations: userOp.service.ts builds and signs them,   *)
(* the EntryPoint (external) validates every operation of a bundle before  *)
(* it runs the first, and SpooPaymaster.sol keeps one deposit there for    *)
(* the balances of all vaults and creators.                                *)
(***************************************************************************)
EXTENDS Naturals, Sequences, FiniteSets, FiniteSetsExt

CONSTANTS
    SponsoredVaults, Guardians,
    MaxCost,         \* what the gas limits of an operation can cost
    OpsPerWindow, VaultOpsPerWindow, RateWindow,
    MaxDeposits, MaxGasTime, MaxOps   \* bounds

ASSUME GasAssumptions ==
    /\ {MaxCost, MaxDeposits, MaxGasTime, MaxOps} \subseteq Nat
    /\ {OpsPerWindow, VaultOpsPerWindow, RateWindow} \subseteq Nat \ {0}
    /\ IsFiniteSet(SponsoredVaults)

VARIABLES
    deposit,                 \* the paymaster's deposit at the EntryPoint
    vaultSponsorBalances, creatorSponsorBalance,  \* one creator owns the vaults
    bundle,                  \* operations validated and not yet run, with their context
    running,                 \* the validation loop of the bundle is over
    opNonce,                 \* of each guardian's account
    guardianWindowStart, guardianOpCount, vaultWindowStart, vaultOpCount,
    gasClock, deposits,
    sponsored,               \* history: time of each sponsored operation of a guardian
    executed,                \* history: the operations run
    shortfall,               \* history: cost charged to no balance
    pledgedTwice             \* history: two operations of one bundle had one sponsor

rates == <<guardianWindowStart, guardianOpCount, vaultWindowStart, vaultOpCount>>
gasVars == <<deposit, vaultSponsorBalances, creatorSponsorBalance, bundle, running, opNonce, rates,
             gasClock, deposits, sponsored, executed, shortfall, pledgedTwice>>

GasInit ==
    /\ deposit = 0 /\ creatorSponsorBalance = 0
    /\ vaultSponsorBalances = [v \in SponsoredVaults |-> 0]
    /\ bundle = <<>> /\ running = FALSE
    /\ opNonce = [g \in Guardians |-> 0]
    /\ guardianWindowStart = [g \in Guardians |-> 0] /\ guardianOpCount = [g \in Guardians |-> 0]
    /\ vaultWindowStart = [v \in SponsoredVaults |-> 0] /\ vaultOpCount = [v \in SponsoredVaults |-> 0]
    /\ gasClock = RateWindow /\ deposits = 0
    /\ sponsored = [g \in Guardians |-> <<>>] /\ executed = <<>> /\ shortfall = 0
    /\ pledgedTwice = FALSE

\* buildGaslessApproveAccess and buildGaslessAcceptInvite: `about` is the vault of
\* the request or invitation, 0 for a request that does not exist; `named` the
\* vault put into paymasterAndData, 0 when the caller gave none.  The nonce is 0
\* unless the caller gave one.
UserOps ==
    [sender : Guardians, kind : {"approve", "accept"}, about : SponsoredVaults \cup {0},
     named : SponsoredVaults \cup {0}, nonce : 0 .. 1]

\* _resolveVaultId: the request decides, paymasterAndData only when there is none.
ResolveVaultId(op) ==
    IF op.kind = "accept" \/ op.about # 0 THEN op.about ELSE op.named

DepositForVault(v) ==
    /\ ~running /\ bundle = <<>> /\ deposits < MaxDeposits /\ deposits' = deposits + 1
    /\ deposit' = deposit + MaxCost
    /\ vaultSponsorBalances' = [vaultSponsorBalances EXCEPT ![v] = @ + MaxCost]
    /\ UNCHANGED <<creatorSponsorBalance, bundle, running, opNonce, rates, gasClock, sponsored, executed, shortfall, pledgedTwice>>

DepositForCreator ==
    /\ ~running /\ bundle = <<>> /\ deposits < MaxDeposits /\ deposits' = deposits + 1
    /\ deposit' = deposit + MaxCost
    /\ creatorSponsorBalance' = creatorSponsorBalance + MaxCost
    /\ UNCHANGED <<vaultSponsorBalances, bundle, running, opNonce, rates, gasClock, sponsored, executed, shortfall, pledgedTwice>>

\* The EntryPoint pays out of the common deposit, and reverts when it is short.
WithdrawVaultDeposit(v, amount) ==
    /\ ~running /\ bundle = <<>>
    /\ amount # 0 /\ vaultSponsorBalances[v] >= amount /\ deposit >= amount
    /\ vaultSponsorBalances' = [vaultSponsorBalances EXCEPT ![v] = @ - amount]
    /\ deposit' = deposit - amount
    /\ UNCHANGED <<creatorSponsorBalance, bundle, running, opNonce, rates, gasClock, deposits, sponsored, executed, shortfall, pledgedTwice>>

WithdrawCreatorDeposit(amount) ==
    /\ ~running /\ bundle = <<>>
    /\ amount # 0 /\ creatorSponsorBalance >= amount /\ deposit >= amount
    /\ creatorSponsorBalance' = creatorSponsorBalance - amount
    /\ deposit' = deposit - amount
    /\ UNCHANGED <<vaultSponsorBalances, bundle, running, opNonce, rates, gasClock, deposits, sponsored, executed, shortfall, pledgedTwice>>

\* Mutant: the limit is compared after the increment of the previous operation only.
BelowLimit_Equal(count, limit) == count <= limit
BelowLimit(count, limit) == count < limit

NewWindow(start) == gasClock >= start + RateWindow

\* _enforceRateLimits
EnforceRateLimits(g, v) ==
    /\ NewWindow(guardianWindowStart[g]) \/ BelowLimit(guardianOpCount[g], OpsPerWindow)
    /\ NewWindow(vaultWindowStart[v]) \/ BelowLimit(vaultOpCount[v], VaultOpsPerWindow)
    /\ guardianWindowStart' = [guardianWindowStart EXCEPT ![g] = IF NewWindow(@) THEN gasClock ELSE @]
    /\ guardianOpCount' = [guardianOpCount EXCEPT ![g] = IF NewWindow(guardianWindowStart[g]) THEN 1 ELSE @ + 1]
    /\ vaultWindowStart' = [vaultWindowStart EXCEPT ![v] = IF NewWindow(@) THEN gasClock ELSE @]
    /\ vaultOpCount' = [vaultOpCount EXCEPT ![v] = IF NewWindow(vaultWindowStart[v]) THEN 1 ELSE @ + 1]

\* Mutant: the balance is not compared with the cost.
Sponsors_Any(balance) == TRUE
Sponsors(balance) == balance >= MaxCost

\* The EntryPoint's validation loop, with validatePaymasterUserOp; the prefund is
\* taken from the deposit.  A bundler may hold an operation back and send it again.
ValidateOp(op) ==
    /\ ~running /\ Len(bundle) < 2 /\ Len(executed) + Len(bundle) < MaxOps
    /\ op.nonce = opNonce[op.sender]
    /\ deposit >= MaxCost
    /\ LET v == ResolveVaultId(op)
       IN /\ v # 0
          /\ EnforceRateLimits(op.sender, v)
          /\ Sponsors(vaultSponsorBalances[v]) \/ Sponsors(creatorSponsorBalance)
          /\ LET own == Sponsors(vaultSponsorBalances[v])
             IN /\ bundle' = Append(bundle, [op |-> op, vault |-> v, isVaultBalance |-> own])
                /\ pledgedTwice' = (pledgedTwice \/ \E i \in DOMAIN bundle :
                       bundle[i].isVaultBalance = own /\ (own => bundle[i].vault = v))
    /\ deposit' = deposit - MaxCost
    /\ opNonce' = [opNonce EXCEPT ![op.sender] = @ + 1]
    /\ sponsored' = [sponsored EXCEPT ![op.sender] = Append(@, gasClock)]
    /\ UNCHANGED <<vaultSponsorBalances, creatorSponsorBalance, running, gasClock, deposits, executed, shortfall>>

RunBundle ==
    /\ ~running /\ bundle # <<>> /\ running' = TRUE
    /\ UNCHANGED <<deposit, vaultSponsorBalances, creatorSponsorBalance, bundle, opNonce, rates,
                   gasClock, deposits, sponsored, executed, shortfall, pledgedTwice>>

Left(balance, cost) == IF balance >= cost THEN balance - cost ELSE 0
Over(balance, cost) == IF balance >= cost THEN 0 ELSE cost - balance

\* The operation runs, postOp charges its sponsor, the rest of the prefund returns.
PostOp(cost) ==
    /\ running /\ bundle # <<>>
    /\ LET c == Head(bundle)
           balance == IF c.isVaultBalance THEN vaultSponsorBalances[c.vault] ELSE creatorSponsorBalance
       IN /\ vaultSponsorBalances' = IF c.isVaultBalance
                                     THEN [vaultSponsorBalances EXCEPT ![c.vault] = Left(@, cost)]
                                     ELSE vaultSponsorBalances
          /\ creatorSponsorBalance' = IF c.isVaultBalance THEN creatorSponsorBalance
                                      ELSE Left(creatorSponsorBalance, cost)
          /\ shortfall' = shortfall + Over(balance, cost)
          /\ executed' = Append(executed, [about |-> c.op.about, vault |-> c.vault])
    /\ deposit' = deposit + MaxCost - cost
    /\ bundle' = Tail(bundle) /\ running' = (Len(bundle) > 1)
    /\ UNCHANGED <<opNonce, rates, gasClock, deposits, sponsored, pledgedTwice>>

GasTick ==
    /\ bundle = <<>> /\ gasClock < MaxGasTime /\ gasClock' = gasClock + 1
    /\ UNCHANGED <<deposit, vaultSponsorBalances, creatorSponsorBalance, bundle, running, opNonce, rates,
                   deposits, sponsored, executed, shortfall, pledgedTwice>>

GasNext ==
    \/ \E v \in SponsoredVaults : DepositForVault(v) \/ \E a \in 1 .. MaxCost : WithdrawVaultDeposit(v, a)
    \/ DepositForCreator \/ \E a \in 1 .. MaxCost : WithdrawCreatorDeposit(a)
    \/ \E op \in UserOps : ValidateOp(op)
    \/ RunBundle \/ GasTick
    \/ \E cost \in 1 .. MaxCost : PostOp(cost)

GasSpec == GasInit /\ [][GasNext]_gasVars

--------------------------------------------------------------------------------
\* What the vaults and their creator may still spend.
Owed == creatorSponsorBalance + MapThenSumSet(LAMBDA v : vaultSponsorBalances[v], SponsoredVaults)

\* Type invariant.
GasTypeOK ==
    /\ deposit \in Nat /\ Len(bundle) <= 2 /\ running \in BOOLEAN
    /\ \A g \in Guardians : guardianOpCount[g] <= OpsPerWindow
    /\ \A v \in SponsoredVaults : vaultOpCount[v] <= VaultOpsPerWindow

\* The deposit backs what every sponsor still owns, less what a bundle overdrew.
DepositBacksBalances == deposit + MaxCost * Len(bundle) + shortfall = Owed

\* A sponsor is only overdrawn, at the expense of the others, by a bundle that
\* holds several operations of that sponsor.
OverdrawnOnlyByBundles == shortfall > 0 => pledgedTwice

\* An operation is paid by the vault its request belongs to, whatever vault it names.
PaidByItsOwnVault ==
    \A i \in DOMAIN executed : executed[i].about # 0 => executed[i].vault = executed[i].about

\* In any span shorter than the window a guardian has at most two windows' worth.
RateLimitHolds ==
    \A g \in Guardians :
        \A i \in DOMAIN sponsored[g] :
            Cardinality({j \in DOMAIN sponsored[g] :
                            /\ sponsored[g][j] >= sponsored[g][i]
                            /\ sponsored[g][j] < sponsored[g][i] + RateWindow}) <= 2 * OpsPerWindow
================================================================================
