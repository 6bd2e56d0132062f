------------------------------ MODULE SorobanVault ------------------------------
(***************************************************************************)
(* The Soroban contract (contracts-stellar/src/lib.rs) for one vault: its  *)
(* guardians, documents, access requests with their four ways of approval, *)
(* revocation, access tokens, release conditions over ledger time and      *)
(* sequence, and the upgrades of the contract itself.  A call is atomic    *)
(* and a panic changes nothing, so each entry point is an action under the *)
(* source's name.  Storage lifetimes are the TTL relayer's (see Upkeep);   *)
(* relayed revocations and heartbeats are in CrossChain; shares, names and *)
(* ciphertexts are stored and never looked at.                             *)
(***************************************************************************)
EXTENDS Integers, Sequences, FiniteSets, Functions, SequencesExt

CONSTANTS
    Owner,                      \* creator of the vault
    Kin,                        \* the other accounts
    Nil,                        \* no account
    InviteLife, RequestLife,    \* 7 and 3 days
    SignNonces,                 \* nonces of threshold signatures
    LedgerGaps,                 \* seconds between two ledgers
    MaxAccessLedgers, MaxReleaseLedgers,  \* bounds on the ledgers closed
    Uploaders, Askers,          \* accounts that add documents, and that ask for them
    PaperConditions,            \* release conditions documents are added with
    MaxPapers, MaxAsked, MaxTokens,  \* bounds on documents, requests and tokens
    AskedPeriods, PeriodRange, FirstPeriod,  \* inactivity_period: asked, allowed, at first
    AskedTerms,                 \* how long a keeper is authorized
    DeathLedgers,               \* MIN_POST_DEATH_SEQUENCE_DELTA
    Confirmations,              \* MIN_EMERGENCY_UNLOCK_CONFIRMATIONS
    UnlockDelay, UnlockLedgers, \* EMERGENCY_UNLOCK_BASE_DELAY, MIN_EMERGENCY_UNLOCK_SEQUENCE_DELTA
    LedgerSeconds,              \* EMERGENCY_SECONDS_PER_LEDGER
    AskedWindows, WindowRange, FirstWindow,  \* jitter_window: asked, allowed, at first
    PrngWords,                  \* values of env.prng().gen()
    MaxCycles,                  \* bound on emergencies
    Hashes,                     \* Wasm hashes
    MaxVotes                    \* bound on calls of upgrade_contract

Folk == {Owner} \cup Kin
Conditions == {"Anytime", "LiveOnly", "EmergencyOnly", "PostDeathOnly"}

ASSUME SorobanVaultAssumptions ==
    /\ IsFiniteSet(Kin) /\ Owner \notin Kin /\ Nil \notin Folk /\ Uploaders \cup Askers \subseteq Folk
    /\ PaperConditions \subseteq Conditions
    /\ {InviteLife, RequestLife, MaxAccessLedgers, MaxReleaseLedgers, MaxPapers, MaxAsked, MaxTokens, FirstPeriod, DeathLedgers,
        Confirmations, UnlockDelay, UnlockLedgers, FirstWindow, MaxCycles, MaxVotes} \subseteq Nat
    /\ LedgerSeconds \in Nat \ {0} /\ FirstWindow # 0 /\ WindowRange \subseteq Nat \ {0} /\ PeriodRange \subseteq Nat
    /\ LedgerGaps \cup PrngWords \cup AskedTerms \subseteq Nat

VARIABLES
    tip,           \* env.ledger(): time and sequence
    record,        \* Vault: guardians, threshold, active; threshold 0 before create_vault
    invites,       \* GuardianInvite of each account: when it expires, and accepted
    papers,        \* Doc and DocReleaseCond: uploader and condition
    hasAccess,       \* HasAccess: pairs of document and account
    asked,         \* Request: document, requester, approved_by, status, expires_at
    approvedReq,   \* ApprovedReq: pairs of request and guardian
    blsKeys,       \* guardians with a BLS key
    usedNonces,    \* UsedNonce of the threshold signatures
    bySignature,   \* history: requests decided by threshold signatures
    tokenOwner,    \* TokenOwner: owners of the tokens, Nil when burned
    ownerBalance, vaultBalance,
    release,       \* VaultReleaseState
    schedule,      \* EmergencyUnlock, or Nil
    cycle, window, \* EmergencyUnlockCycle, EmergencyJitterWindow
    keeperAuth,    \* KeeperAuth: keeper (or Nil) and expiry
    enabled,       \* history: ledger of the last set_emergency_mode(true)
    council,       \* Admins and AdminThreshold
    proposal,      \* UpgradeProposal
    votes          \* history: calls of upgrade_contract and whether each swapped the code

vaultVars == <<record, invites>>
accessVars == <<papers, hasAccess, asked, approvedReq, blsKeys, usedNonces, bySignature>>
tokenVars == <<tokenOwner, ownerBalance, vaultBalance>>
releaseVars == <<release, schedule, cycle, window, keeperAuth, enabled>>
upgradeVars == <<council, proposal, votes>>
sorobanVaultVars == <<tip, vaultVars, accessVars, tokenVars, releaseVars, upgradeVars>>

SorobanVaultInit ==
    /\ tip = [time |-> 0, seq |-> 0]
    /\ record = [guardians |-> {}, threshold |-> 0, active |-> FALSE]
    /\ invites = [a \in Kin |-> [expires |-> 0, accepted |-> TRUE]]
    /\ papers = <<>> /\ hasAccess = {} /\ asked = <<>> /\ approvedReq = {}
    /\ blsKeys = {} /\ usedNonces = {} /\ bySignature = {}
    /\ tokenOwner = <<>> /\ ownerBalance = [a \in Folk |-> 0] /\ vaultBalance = [a \in Folk |-> 0]
    /\ release = [emergency |-> FALSE, period |-> FirstPeriod, last |-> 0, lastSeq |-> 0]
    /\ schedule = Nil /\ cycle = 0 /\ window = FirstWindow
    /\ keeperAuth = [keeper |-> Nil, expires |-> 0] /\ enabled = tip
    /\ council = [admins |-> {}, threshold |-> 0]
    /\ proposal = Nil /\ votes = <<>>

\* A ledger closes.
CloseLedger ==
    /\ \E gap \in LedgerGaps : tip' = [time |-> tip.time + gap, seq |-> tip.seq + 1]
    /\ UNCHANGED <<vaultVars, accessVars, tokenVars, releaseVars, upgradeVars>>

--------------------------------------------------------------------------------
(* Vault and guardians.                                                      *)

create_vault(invited, threshold) ==
    /\ record.threshold = 0
    /\ invited # {} /\ threshold \in 1 .. Cardinality(invited) + 1
    /\ record' = [guardians |-> {Owner}, threshold |-> threshold, active |-> TRUE]
    /\ invites' = [a \in Kin |-> IF a \in invited
                                 THEN [expires |-> tip.time + InviteLife, accepted |-> FALSE]
                                 ELSE invites[a]]
    /\ release' = [release EXCEPT !.last = tip.time, !.lastSeq = tip.seq]
    /\ UNCHANGED <<tip, accessVars, tokenVars, schedule, cycle, window, keeperAuth, enabled, upgradeVars>>

accept_guardian_invite(a) ==
    /\ record.active /\ a \notin record.guardians
    /\ ~invites[a].accepted /\ tip.time < invites[a].expires
    /\ invites' = [invites EXCEPT ![a].accepted = TRUE]
    /\ record' = [record EXCEPT !.guardians = @ \cup {a}]
    /\ UNCHANGED <<tip, accessVars, tokenVars, releaseVars, upgradeVars>>

deactivate_vault ==
    /\ record.active
    /\ record' = [record EXCEPT !.active = FALSE]
    /\ UNCHANGED <<tip, invites, accessVars, tokenVars, releaseVars, upgradeVars>>

--------------------------------------------------------------------------------
(* Release conditions.                                                       *)

IsDead ==
    /\ tip.time >= release.last + release.period
    /\ tip.seq >= release.lastSeq + DeathLedgers

is_emergency_unlock_mature ==
    /\ schedule # Nil
    /\ schedule.fulfilled /\ tip.time >= schedule.at /\ tip.seq >= schedule.seq

is_release_condition_satisfied(condition) ==
    \/ condition = "Anytime"
    \/ condition = "LiveOnly" /\ ~IsDead
    \/ condition = "EmergencyOnly" /\ (IsDead \/ (release.emergency /\ is_emergency_unlock_mature))
    \/ condition = "PostDeathOnly" /\ IsDead

ProofOfLifeNow == release' = [release EXCEPT !.last = tip.time, !.lastSeq = tip.seq]

prove_life ==
    /\ record.active /\ ProofOfLifeNow
    /\ UNCHANGED <<tip, vaultVars, accessVars, tokenVars, schedule, cycle, window, keeperAuth,
                   enabled, upgradeVars>>

authorize_keeper(k, expires) ==
    /\ record.active /\ expires > tip.time
    /\ keeperAuth' = [keeper |-> k, expires |-> expires]
    /\ UNCHANGED <<tip, vaultVars, accessVars, tokenVars, release, schedule, cycle, window,
                   enabled, upgradeVars>>

revoke_keeper ==
    /\ record.threshold # 0
    /\ keeperAuth' = [keeper |-> Nil, expires |-> 0]
    /\ UNCHANGED <<tip, vaultVars, accessVars, tokenVars, release, schedule, cycle, window,
                   enabled, upgradeVars>>

prove_life_by_keeper(k) ==
    /\ record.active /\ keeperAuth.keeper = k /\ tip.time < keeperAuth.expires
    /\ ProofOfLifeNow
    /\ UNCHANGED <<tip, vaultVars, accessVars, tokenVars, schedule, cycle, window, keeperAuth,
                   enabled, upgradeVars>>

configure_vault_release(period) ==
    /\ record.active /\ period \in PeriodRange
    /\ release' = [release EXCEPT !.period = period]
    /\ UNCHANGED <<tip, vaultVars, accessVars, tokenVars, schedule, cycle, window, keeperAuth,
                   enabled, upgradeVars>>

DelayRequested(n) == [cycle |-> n, asked |-> tip.seq, fulfilled |-> FALSE, at |-> 0, seq |-> 0]

DelayPending == schedule # Nil /\ ~schedule.fulfilled

\* Switching on again is refused while a delay is pending, and begins a new
\* cycle when it was drawn; switching off forgets the schedule.
set_emergency_mode(on) ==
    /\ record.active
    /\ ~(on /\ DelayPending)
    /\ release' = [release EXCEPT !.emergency = on]
    /\ cycle' = IF on THEN cycle + 1 ELSE cycle
    /\ schedule' = IF on THEN DelayRequested(cycle + 1) ELSE Nil
    /\ enabled' = IF on THEN tip ELSE enabled
    /\ UNCHANGED <<tip, vaultVars, accessVars, tokenVars, window, keeperAuth, upgradeVars>>

set_emergency_jitter_window(w) ==
    /\ record.threshold # 0 /\ w \in WindowRange
    /\ window' = w
    /\ UNCHANGED <<tip, vaultVars, accessVars, tokenVars, release, schedule, cycle, keeperAuth,
                   enabled, upgradeVars>>

\* Anyone may ask for the draw; active or not is not looked at.
fulfill_emergency_unlock_delay(word) ==
    /\ release.emergency /\ DelayPending /\ schedule.cycle = cycle
    /\ tip.seq >= schedule.asked + Confirmations
    /\ LET jitter == word % window
       IN schedule' = [schedule EXCEPT
              !.fulfilled = TRUE,
              !.at = tip.time + UnlockDelay + jitter,
              !.seq = tip.seq + UnlockDelay \div LedgerSeconds + UnlockLedgers
                              + jitter \div LedgerSeconds]
    /\ UNCHANGED <<tip, vaultVars, accessVars, tokenVars, release, cycle, window, keeperAuth,
                   enabled, upgradeVars>>

--------------------------------------------------------------------------------
(* Documents, requests and revocation.                                       *)

add_document(a, condition) ==
    /\ record.active /\ a \in record.guardians
    /\ papers' = Append(papers, [by |-> a, condition |-> condition])
    /\ hasAccess' = hasAccess \cup {<<Len(papers'), a>>}
    /\ UNCHANGED <<tip, vaultVars, asked, approvedReq, blsKeys, usedNonces, bySignature,
                   tokenVars, releaseVars, upgradeVars>>

\* Nothing keeps an account from having several open requests for a document.
request_access(a, d) ==
    /\ record.active /\ <<d, a>> \notin hasAccess
    /\ is_release_condition_satisfied(papers[d].condition)
    /\ asked' = Append(asked, [doc |-> d, requester |-> a, approved_by |-> <<>>,
                               status |-> "Pending", expires |-> tip.time + RequestLife])
    /\ UNCHANGED <<tip, vaultVars, papers, hasAccess, approvedReq, blsKeys, usedNonces, bySignature,
                   tokenVars, releaseVars, upgradeVars>>

Approvable(r) == asked[r].status = "Pending" /\ tip.time < asked[r].expires /\ record.active

\* One guardian of the list: marked and entered in approved_by unless marked before.
Enter(r, state, g) ==
    IF <<r, g>> \in state.marked THEN state
    ELSE [marked |-> state.marked \cup {<<r, g>>}, by |-> Append(state.by, g)]

Entered(r, list) ==
    FoldLeft(LAMBDA state, g : Enter(r, state, g),
             [marked |-> approvedReq, by |-> asked[r].approved_by], list)

\* The request is decided when approved_by has reached the threshold.
Approve(r, list) ==
    LET voters == Entered(r, list).by
    IN /\ approvedReq' = Entered(r, list).marked
       /\ IF Len(voters) >= record.threshold
          THEN /\ asked' = [asked EXCEPT ![r].approved_by = voters, ![r].status = "Approved"]
               /\ hasAccess' = hasAccess \cup {<<asked[r].doc, asked[r].requester>>}
          ELSE /\ asked' = [asked EXCEPT ![r].approved_by = voters]
               /\ UNCHANGED hasAccess
       /\ UNCHANGED <<tip, vaultVars, papers, blsKeys, usedNonces, bySignature,
                      tokenVars, releaseVars, upgradeVars>>

approve_access(g, r) ==
    /\ Approvable(r) /\ g \in record.guardians /\ <<r, g>> \notin approvedReq
    /\ Approve(r, <<g>>)

\* The same with an encrypted share, and not for oneself.
approve_access_fhe(g, r) ==
    /\ Approvable(r) /\ g \in record.guardians /\ <<r, g>> \notin approvedReq
    /\ g # asked[r].requester
    /\ Approve(r, <<g>>)

register_guardian_bls_key(g) ==
    /\ record.active /\ g \in record.guardians
    /\ blsKeys' = blsKeys \cup {g}
    /\ UNCHANGED <<tip, vaultVars, papers, hasAccess, asked, approvedReq, usedNonces, bySignature,
                   tokenVars, releaseVars, upgradeVars>>

\* The list may repeat a guardian; the verifier looks at the form of the
\* aggregated key and signature only.
approve_access_bls(list, r) ==
    /\ Approvable(r) /\ Len(list) >= record.threshold
    /\ Range(list) \subseteq (record.guardians \cap blsKeys) \ {asked[r].requester}
    /\ Approve(r, list)

\* Enough distinct keys have signed; the keys are those the call names.
verify_threshold_signatures_internal(nonce) ==
    nonce \notin usedNonces /\ usedNonces' = usedNonces \cup {nonce}

\* Anyone may have signatures verified, which uses up their nonce.
verify_threshold_signatures(nonce) ==
    /\ verify_threshold_signatures_internal(nonce)
    /\ UNCHANGED <<tip, vaultVars, papers, hasAccess, asked, approvedReq, blsKeys, bySignature,
                   tokenVars, releaseVars, upgradeVars>>

approve_access_threshold(r, nonce) ==
    /\ Approvable(r) /\ verify_threshold_signatures_internal(nonce)
    /\ asked' = [asked EXCEPT ![r].status = "Approved"]
    /\ hasAccess' = hasAccess \cup {<<asked[r].doc, asked[r].requester>>}
    /\ bySignature' = bySignature \cup {r}
    /\ UNCHANGED <<tip, vaultVars, papers, approvedReq, blsKeys, tokenVars, releaseVars, upgradeVars>>

\* revoke_access and apply_revocation, of access there may not be; open requests
\* stay as they are.  The version the code bumps is reported and never compared.
revoke_access(g, d, a) ==
    /\ g \in record.guardians
    /\ hasAccess' = hasAccess \ {<<d, a>>}
    /\ UNCHANGED <<tip, vaultVars, papers, asked, approvedReq, blsKeys, usedNonces, bySignature,
                   tokenVars, releaseVars, upgradeVars>>

--------------------------------------------------------------------------------
(* Access tokens.                                                            *)

increment(balance, a) == [balance EXCEPT ![a] = @ + 1]
decrement(balance, a) == [balance EXCEPT ![a] = IF @ > 0 THEN @ - 1 ELSE 0]

mint_access_token(g, a) ==
    /\ record.active /\ g \in record.guardians
    /\ tokenOwner' = Append(tokenOwner, a)
    /\ ownerBalance' = increment(ownerBalance, a) /\ vaultBalance' = increment(vaultBalance, a)
    /\ UNCHANGED <<tip, vaultVars, accessVars, releaseVars, upgradeVars>>

burn_access_token(t) ==
    /\ tokenOwner[t] # Nil
    /\ ownerBalance' = decrement(ownerBalance, tokenOwner[t])
    /\ vaultBalance' = decrement(vaultBalance, tokenOwner[t])
    /\ tokenOwner' = [tokenOwner EXCEPT ![t] = Nil]
    /\ UNCHANGED <<tip, vaultVars, accessVars, releaseVars, upgradeVars>>

transfer(t, to) ==
    /\ tokenOwner[t] # Nil
    /\ ownerBalance' = increment(decrement(ownerBalance, tokenOwner[t]), to)
    /\ vaultBalance' = increment(decrement(vaultBalance, tokenOwner[t]), to)
    /\ tokenOwner' = [tokenOwner EXCEPT ![t] = to]
    /\ UNCHANGED <<tip, vaultVars, accessVars, releaseVars, upgradeVars>>

--------------------------------------------------------------------------------
(* Upgrades.                                                                 *)

init_admins(admins, threshold) ==
    /\ council.admins = {} /\ threshold \in 1 .. Cardinality(admins)
    /\ council' = [admins |-> admins, threshold |-> threshold]
    /\ UNCHANGED <<tip, vaultVars, accessVars, tokenVars, releaseVars, proposal, votes>>

\* A call for another hash starts the proposal afresh.
Standing(hash) ==
    IF proposal # Nil /\ proposal.hash = hash THEN proposal ELSE [hash |-> hash, approved_by |-> {}]

upgrade_contract(a, hash) ==
    LET standing == Standing(hash)
        approved_by == standing.approved_by \cup {a}
        swaps == Cardinality(approved_by) >= council.threshold
    IN /\ a \in council.admins /\ a \notin standing.approved_by
       /\ proposal' = IF swaps THEN Nil ELSE [hash |-> hash, approved_by |-> approved_by]
       /\ votes' = Append(votes, [by |-> a, hash |-> hash, swapped |-> swaps])
       /\ UNCHANGED <<tip, vaultVars, accessVars, tokenVars, releaseVars, council>>

--------------------------------------------------------------------------------
Founding == \E invited \in SUBSET Kin, n \in 1 .. Cardinality(Kin) + 1 : create_vault(invited, n)

AccessNext ==
    \/ Founding \/ deactivate_vault
    \/ tip.seq < MaxAccessLedgers /\ CloseLedger
    \/ \E a \in Kin : accept_guardian_invite(a)
    \/ \E g \in Folk : register_guardian_bls_key(g)
    \/ \E n \in SignNonces : verify_threshold_signatures(n)
    \/ Len(papers) < MaxPapers /\ \E a \in Uploaders, c \in PaperConditions : add_document(a, c)
    \/ \E d \in DOMAIN papers, a \in Askers :
          \/ Len(asked) < MaxAsked /\ request_access(a, d)
          \/ \E g \in Folk : revoke_access(g, d, a)
    \/ \E r \in DOMAIN asked :
          \/ \E g \in Folk : approve_access(g, r) \/ approve_access_fhe(g, r)
          \/ \E g, h \in Folk : approve_access_bls(<<g>>, r) \/ approve_access_bls(<<g, h>>, r)
          \/ \E n \in SignNonces : approve_access_threshold(r, n)

TokensNext ==
    \/ Founding \/ deactivate_vault
    \/ Len(tokenOwner) < MaxTokens /\ \E g, a \in Folk : mint_access_token(g, a)
    \/ \E t \in DOMAIN tokenOwner : burn_access_token(t) \/ \E a \in Folk : transfer(t, a)

ReleaseNext ==
    \/ Founding \/ prove_life \/ revoke_keeper \/ deactivate_vault
    \/ tip.seq < MaxReleaseLedgers /\ CloseLedger
    \/ \E k \in Kin : prove_life_by_keeper(k)
                        \/ \E term \in AskedTerms : authorize_keeper(k, tip.time + term)
    \/ \E p \in AskedPeriods : configure_vault_release(p)
    \/ \E on \in BOOLEAN : (on => cycle < MaxCycles) /\ set_emergency_mode(on)
    \/ \E w \in AskedWindows : set_emergency_jitter_window(w)
    \/ \E word \in PrngWords : fulfill_emergency_unlock_delay(word)

UpgradeNext ==
    \/ \E admins \in SUBSET Folk, n \in 1 .. Cardinality(Folk) : init_admins(admins, n)
    \/ Len(votes) < MaxVotes /\ \E a \in Folk, hash \in Hashes : upgrade_contract(a, hash)

--------------------------------------------------------------------------------
\* Types.
SorobanVaultTypeOK ==
    /\ record \in [guardians : SUBSET Folk, threshold : Nat, active : BOOLEAN]
    /\ invites \in [Kin -> [expires : Nat, accepted : BOOLEAN]]
    /\ Range(papers) \subseteq [by : Folk, condition : Conditions]
    /\ hasAccess \subseteq (DOMAIN papers) \X Folk
    /\ \A r \in DOMAIN asked : asked[r].doc \in DOMAIN papers /\ Len(asked[r].approved_by) <= Cardinality(Folk)
    /\ approvedReq \subseteq (DOMAIN asked) \X Folk /\ blsKeys \subseteq record.guardians
    /\ usedNonces \subseteq SignNonces /\ Range(tokenOwner) \subseteq Folk \cup {Nil}
    /\ schedule # Nil => schedule.cycle \in 1 .. cycle
    /\ window \in WindowRange \cup {FirstWindow} /\ release.period \in PeriodRange \cup {FirstPeriod}

\* approved_by has each guardian that approved once, whichever of the four ways
\* it came; a request is approved exactly when that reached the threshold of the
\* vault, or by threshold signatures, each with a nonce of its own.
ApprovalsDecide ==
    /\ Cardinality(bySignature) <= Cardinality(usedNonces)
    /\ \A r \in DOMAIN asked :
          LET by == asked[r].approved_by
          IN /\ Range(by) = {g \in Folk : <<r, g>> \in approvedReq}
             /\ Cardinality(Range(by)) = Len(by) /\ Range(by) \subseteq record.guardians
             /\ (asked[r].status = "Approved") = (Len(by) >= record.threshold \/ r \in bySignature)

\* Access that was never there or was revoked comes only with a new document or
\* from a request decided in that very step, still open and in an active vault:
\* no earlier decision is applied again.
AccessComesFromDecisions ==
    [][\A p \in hasAccess' \ hasAccess :
          /\ record.active
          /\ \/ p[1] \notin DOMAIN papers /\ p[2] \in record.guardians
             \/ \E r \in DOMAIN asked :
                   /\ asked[r].doc = p[1] /\ asked[r].requester = p[2]
                   /\ asked[r].status = "Pending" /\ asked'[r].status = "Approved"
                   /\ tip.time < asked[r].expires]_sorobanVaultVars

\* The counters of mint, burn and transfer are the numbers of tokens held.
TokensAreCounted ==
    \A a \in Folk :
        LET held == Cardinality({t \in DOMAIN tokenOwner : tokenOwner[t] = a})
        IN ownerBalance[a] = held /\ vaultBalance[a] = held

\* Before death, documents for emergencies open only in one, and only after all
\* the waiting of this emergency: confirmations, base delay and ledgers.
EmergenciesWait ==
    (is_release_condition_satisfied("EmergencyOnly") /\ ~IsDead) =>
        /\ release.emergency
        /\ tip.time >= enabled.time + UnlockDelay
        /\ tip.seq >= enabled.seq + Confirmations + UnlockLedgers + UnlockDelay \div LedgerSeconds

\* A delay that was drawn stands until its emergency is switched off or on again,
\* and a vault is given up for dead only because time passed, or because its
\* owner shortened the period.
UnlocksStand ==
    [][/\ (schedule # Nil /\ schedule.fulfilled /\ schedule' # schedule) =>
              schedule' = Nil \/ schedule'.cycle > schedule.cycle
       /\ (~IsDead /\ IsDead' /\ record.threshold # 0) =>
              tip' # tip \/ release'.period < release.period]_sorobanVaultVars

\* The code is swapped by the last calls alone: as many as the threshold, by
\* distinct admins, all for the hash that is installed.
UpgradesAreAgreed ==
    \A i \in DOMAIN votes :
        votes[i].swapped =>
            LET last == (i - council.threshold + 1) .. i
            IN /\ i >= council.threshold
               /\ \A j \in last : votes[j].hash = votes[i].hash /\ (votes[j].swapped => j = i)
               /\ Cardinality({votes[j].by : j \in last}) = council.threshold
================================================================================
