----------------------------- MODULE ContractClient -----------------------------
(***************************************************************************)
(* The EVM contract client (contract.service.ts).  A write goes to the     *)
(* wallet, is mined or not, and its receipt is waited for at each RPC      *)
(* endpoint in turn; some writes are queued when the network fails, and    *)
(* some clear the caches of view calls (shared/utils/ttlCache.ts) that     *)
(* reads are served from.  Reads go to the first endpoint only, which may  *)
(* lag behind the one that gave the receipt.                               *)
(***************************************************************************)
EXTENDS Integers, FiniteSets

CONSTANTS
    Ttl,              \* VIEW_CALL_TTL_MS in ticks
    MaxIntents,       \* bound on the writes the user asks for
    MaxForeign        \* bound on changes made by other accounts

ASSUME ContractClientAssumptions ==
    Ttl \in Nat \ {0} /\ MaxIntents \in Nat /\ MaxForeign \in Nat

Caches == {"access", "vault"}      \* hasActiveAccessCache, getVaultCache
Intents == 1 .. MaxIntents
Promises == 1 .. 2                 \* calls of one client in flight
Unread == -1                       \* a call the endpoint has not evaluated
NoEntry == [val |-> Unread, age |-> Ttl, late |-> FALSE]

(***************************************************************************)
(* The writes, as what they change on chain, what they clear afterwards,   *)
(* whether a network failure queues them and whether CONTRACT_ABI has the  *)
(* function at all.                                                        *)
(***************************************************************************)
Write(changes, clears, queued, inAbi) ==
    [changes |-> changes, clears |-> clears, queued |-> queued, inAbi |-> inAbi]

createVault == Write({}, {}, TRUE, TRUE)
addDocument == Write({}, {}, TRUE, TRUE)
requestAccess == Write({}, {}, TRUE, TRUE)
registerPublicKey == Write({}, {}, TRUE, TRUE)
approveAccess == Write({"access"}, {"access"}, FALSE, TRUE)
approveAccessDelegated == Write({"access"}, {"access"}, FALSE, TRUE)
approveAccessBLS == Write({"access"}, {}, FALSE, FALSE)
registerGuardianBLSKey == Write({}, {}, FALSE, FALSE)
acceptGuardianInvite == Write({"vault"}, {"vault"}, FALSE, TRUE)
mintAccessToken == Write({}, {}, FALSE, TRUE)
burnAccessToken == Write({"access"}, {"access"}, FALSE, TRUE)
configureVaultRelease == Write({}, {}, FALSE, TRUE)
recordProofOfLife == Write({}, {}, FALSE, TRUE)
setEmergencyMode == Write({}, {}, FALSE, TRUE)
setBeneficiary == Write({}, {}, FALSE, TRUE)
relayKeeperAuthorization == Write({}, {}, FALSE, TRUE)
revokeKeeper == Write({}, {}, FALSE, TRUE)
relayProofOfLife == Write({}, {}, FALSE, TRUE)
revokeDelegation == Write({}, {}, FALSE, TRUE)

Writes == {createVault, addDocument, requestAccess, registerPublicKey, approveAccess,
           approveAccessDelegated, approveAccessBLS, registerGuardianBLSKey,
           acceptGuardianInvite, mintAccessToken, burnAccessToken, configureVaultRelease,
           recordProofOfLife, setEmergencyMode, setBeneficiary, relayKeeperAuthorization,
           revokeKeeper, relayProofOfLife, revokeDelegation}

VARIABLES
    watched,       \* the cache whose key is followed: keys do not interact
    onChain,       \* version of what the view call reads
    node,          \* the version the first endpoint knows
    foreign,       \* changes by others so far
    entry,         \* TtlCache.cache at that key; late: stored by a call sent before a clear
    pending,       \* TtlCache.pending: the promise callers join, or 0
    fetches,       \* promises not yet settled
    served,        \* what the last read returned; Unread after a failure
    clears,        \* history: times the key was cleared
    confirmed,     \* history: version a clearing write saw at the first endpoint
    intent         \* the user's writes

readVars == <<entry, pending, fetches, served>>
chainVars == <<watched, onChain, node, foreign>>
clientVars == <<chainVars, readVars, clears, confirmed, intent>>

\* cur: the transaction being waited for; stray: an earlier one is still unmined.
Unasked == [op |-> mintAccessToken, st |-> "unasked", cur |-> "none", stray |-> FALSE,
            execs |-> 0, lost |-> FALSE]

ClientInit ==
    /\ watched \in Caches
    /\ onChain = 0 /\ node = 0 /\ foreign = 0
    /\ entry = NoEntry /\ pending = 0 /\ fetches = {} /\ served = Unread
    /\ clears = 0 /\ confirmed = 0
    /\ intent = [i \in Intents |-> Unasked]

--------------------------------------------------------------------------------
(* Reads through TtlCache.fetch.                                           *)

Fresh == entry.age < Ttl

ReadHit ==
    /\ Fresh
    /\ served' = entry.val
    /\ UNCHANGED <<chainVars, entry, pending, fetches, clears, confirmed, intent>>

\* A call that is already in flight is joined: only the first one is sent.
ReadMiss ==
    /\ ~Fresh /\ pending = 0
    /\ \E id \in Promises :
         /\ \A f \in fetches : f.id # id
         /\ fetches' = fetches \cup {[id |-> id, val |-> Unread, epoch |-> clears]}
         /\ pending' = id
    /\ UNCHANGED <<chainVars, entry, served, clears, confirmed, intent>>

Answer(f) ==
    /\ f.val = Unread
    /\ fetches' = (fetches \ {f}) \cup {[f EXCEPT !.val = node]}
    /\ UNCHANGED <<chainVars, entry, pending, served, clears, confirmed, intent>>

\* The promise stores its value, and forgets whichever promise is pending.
Settle(f) ==
    /\ f.val # Unread
    /\ fetches' = fetches \ {f}
    /\ entry' = [val |-> f.val, age |-> 0, late |-> f.epoch < clears]
    /\ pending' = 0
    /\ served' = f.val
    /\ UNCHANGED <<chainVars, clears, confirmed, intent>>

\* A rejected call leaves the cache alone; hasActiveAccess then answers false.
ReadFails(f) ==
    /\ fetches' = fetches \ {f}
    /\ pending' = 0
    /\ served' = Unread
    /\ UNCHANGED <<chainVars, entry, clears, confirmed, intent>>

Age(e) == [e EXCEPT !.age = IF @ < Ttl THEN @ + 1 ELSE @]
Tick ==
    /\ entry' = Age(entry)
    /\ UNCHANGED <<chainVars, pending, fetches, served, clears, confirmed, intent>>

--------------------------------------------------------------------------------
(* The chain and the endpoints (external).                                 *)

Changed(changes) == IF watched \in changes THEN onChain + 1 ELSE onChain

ForeignChange ==
    /\ foreign < MaxForeign
    /\ foreign' = foreign + 1
    /\ onChain' = onChain + 1
    /\ UNCHANGED <<watched, node, readVars, clears, confirmed, intent>>

NodeSync ==
    /\ node' = onChain
    /\ UNCHANGED <<watched, onChain, foreign, readVars, clears, confirmed, intent>>

Mine(i) ==
    /\ \/ /\ intent[i].cur = "pool"
          /\ intent' = [intent EXCEPT ![i].cur = "mined", ![i].execs = @ + 1]
       \/ /\ intent[i].stray
          /\ intent' = [intent EXCEPT ![i].stray = FALSE, ![i].execs = @ + 1]
    /\ onChain' = Changed(intent[i].op.changes)
    /\ UNCHANGED <<watched, node, foreign, readVars, clears, confirmed>>

Revert(i) ==
    /\ intent[i].cur = "pool"
    /\ intent' = [intent EXCEPT ![i].cur = "reverted"]
    /\ UNCHANGED <<chainVars, readVars, clears, confirmed>>

--------------------------------------------------------------------------------
(* Writes.                                                                 *)

Become(i, st) == intent' = [intent EXCEPT ![i].st = st]
KeepRest == UNCHANGED <<chainVars, readVars, clears, confirmed>>

\* A function that CONTRACT_ABI does not list throws before anything is sent.
AskWallet(i, op) ==
    /\ intent[i].st = "unasked" /\ \A j \in Intents : j < i => intent[j].st # "unasked"
    /\ intent' = [intent EXCEPT ![i].op = op, ![i].st = IF op.inAbi THEN "sending" ELSE "failed"]
    /\ KeepRest

Send(i) ==
    /\ intent[i].st = "sending"
    /\ intent' = [intent EXCEPT ![i].st = "waiting", ![i].cur = "pool",
                                ![i].stray = @ \/ intent[i].cur = "pool"]
    /\ KeepRest

\* isNetworkFailure decides between the offline queue and the caller's error.
NetworkFails(i) ==
    /\ intent[i].st \in {"sending", "waiting"} /\ ~intent[i].lost   \* bound: one lost receipt
    /\ intent' = [intent EXCEPT ![i].st = IF intent[i].op.queued THEN "queued" ELSE "failed",
                                ![i].lost = intent[i].st = "waiting"]
    /\ KeepRest

\* Any other error: the wallet refuses, or every endpoint times out.
WriteFails(i) ==
    /\ intent[i].st \in {"sending", "waiting"}
    /\ Become(i, "failed")
    /\ KeepRest

\* waitForTransaction resolves for a reverted transaction too.
HasReceipt(i) == intent[i].cur \in {"mined", "reverted"}

\* Mutant: only the promise is forgotten.
Clear_Pending(cs) ==
    /\ entry' = entry
    /\ pending' = IF watched \in cs THEN 0 ELSE pending
    /\ clears' = IF watched \in cs THEN clears + 1 ELSE clears
Clear(cs) ==
    /\ entry' = IF watched \in cs THEN NoEntry ELSE entry
    /\ pending' = IF watched \in cs THEN 0 ELSE pending
    /\ clears' = IF watched \in cs THEN clears + 1 ELSE clears

\* waitForReceipt: the first endpoint that knows the transaction answers.
Finish(i, first) ==
    /\ intent[i].st = "waiting" /\ HasReceipt(i)
    /\ Become(i, "done")
    /\ Clear(intent[i].op.clears)
    /\ node' = IF first THEN onChain ELSE node
    /\ confirmed' = IF first /\ watched \in intent[i].op.clears THEN onChain ELSE confirmed
    /\ UNCHANGED <<watched, onChain, foreign, fetches, served>>

\* The replay of a queued action calls the same function again (external queue).
Replay(i) ==
    /\ intent[i].st = "queued"
    /\ Become(i, "sending")
    /\ KeepRest

ClientNext ==
    \/ ReadHit \/ ReadMiss \/ Tick
    \/ ForeignChange \/ NodeSync
    \/ \E f \in fetches : Answer(f) \/ Settle(f) \/ ReadFails(f)
    \/ \E i \in Intents :
         \/ \E op \in Writes : AskWallet(i, op)
         \/ Send(i) \/ NetworkFails(i) \/ WriteFails(i) \/ Replay(i)
         \/ Mine(i) \/ Revert(i)
         \/ \E first \in BOOLEAN : Finish(i, first)

--------------------------------------------------------------------------------
\* Type invariant of the client's caches and writes.
ClientTypeOK ==
    /\ watched \in Caches /\ onChain \in Nat /\ node \in 0 .. onChain /\ foreign \in 0 .. MaxForeign
    /\ entry.age \in 0 .. Ttl /\ pending \in Promises \cup {0}
    /\ \A f \in fetches : f.epoch <= clears /\ f.val \in (0 .. onChain) \cup {Unread}
    /\ \A i \in Intents : /\ intent[i].st \in {"unasked", "sending", "waiting", "queued", "done", "failed"}
                         /\ intent[i].op \in Writes /\ intent[i].execs \in 0 .. 2

\* A cached answer older than a write this client saw confirmed by the endpoint
\* it reads from comes from a call that was in flight when the write cleared the
\* cache (clear forgets the promise, and the promise stores its value anyway).
StaleOnlyByOverlap == entry.val # Unread /\ entry.val < confirmed => entry.late

\* A call that returned normally was mined: a timeout is never taken for a receipt.
DoneWasMined ==
    \A i \in Intents : intent[i].st = "done" => intent[i].cur \in {"mined", "reverted"}

\* An action of the user takes effect twice only when it was queued after its
\* transaction had been handed to the wallet and the receipt was lost.
RepeatedOnlyWhenLost ==
    \A i \in Intents : intent[i].execs > 1 => intent[i].lost

\* Whatever was cached or in flight when the chain last changed, a reader who
\* keeps asking is shown the current state again and again.
ReadsCatchUp == []<>(served = onChain)
================================================================================
