------------------------------- MODULE Upkeep -------------------------------
(***************************************************************************)
(* The two jobs that keep things alive against a deadline.                 *)
(*                                                                         *)
(* The TTL relayer scans the contract's entries at a fixed interval and    *)
(* extends those near the end of their life.  A cycle takes the latest     *)
(* ledger once, scans entry by entry and submits batches, each with        *)
(* retries, from one account; setInterval starts the next cycle whether or *)
(* not the last one is done.                                               *)
(*                                                                         *)
(* The keeper relays check each vault they are given and send a heartbeat  *)
(* when half of the inactivity period is over (EVM) or every time          *)
(* (Soroban); an error ends the run and leaves the later vaults out.       *)
(*                                                                         *)
(* Time passes only while both jobs keep their pace: a cycle or a run      *)
(* starts when it is due and ends within its allowance.                    *)
(***************************************************************************)
EXTENDS Naturals, FiniteSets, FiniteSetsExt

CONSTANTS
    EntryCount,     \* entries of the contract
    MaxEntries,     \* entries a cycle scans at most
    TtlThreshold,   \* extend when fewer ledgers remain
    MaxTtl,         \* life after an extension
    PollInterval,   \* ledgers between two cycles
    CycleTime,      \* ledgers a cycle may take
    BatchSize,      \* entries per transaction
    MaxRetries,     \* attempts per batch
    Vaults,         \* vault ids given to a keeper
    Inactivity,     \* inactivity period of the vaults
    RunInterval,    \* time between two runs of a keeper
    MaxUpkeepTime,  \* last moment of the model
    MaxUpkeepFaults \* failed requests and revoked keepers

ASSUME UpkeepConstants ==
    /\ EntryCount \in Nat /\ MaxEntries \in Nat /\ TtlThreshold \in Nat \ {0}
    /\ MaxTtl \in Nat /\ MaxTtl > TtlThreshold
    /\ PollInterval \in Nat \ {0} /\ CycleTime \in Nat /\ BatchSize \in Nat \ {0}
    /\ MaxRetries \in Nat \ {0} /\ Vaults \subseteq Nat /\ Inactivity \in Nat
    /\ RunInterval \in Nat \ {0} /\ MaxUpkeepTime \in Nat /\ MaxUpkeepFaults \in Nat

VARIABLES
    now,        \* latest ledger, and time
    live,       \* ledger until which each entry lives
    cycles,     \* cycles in progress: [latest, next, todo, seq, tries]
    lastCycle,  \* start of the newest cycle
    sequence,   \* sequence number of the relayer's account
    gaveUp,     \* entries a cycle failed to read or to extend
    keeperBeat,       \* last heartbeat per vault
    granted,    \* vaults whose authorization names this keeper
    run,        \* the keeper's run: [chain, rest, due], rest = {} when idle
    lastRun,    \* start of the newest run
    skipped,    \* vaults a failed run left out
    upkeepFaults

ttlVars    == <<live, cycles, lastCycle, sequence, gaveUp>>
keeperVars == <<keeperBeat, granted, run, lastRun, skipped>>
upkeepVars == <<now, ttlVars, keeperVars, upkeepFaults>>

Entries  == 1 .. EntryCount
Scanned  == 1 .. Min({EntryCount, MaxEntries})
NoRun    == [chain |-> "evm", rest |-> {}, due |-> {}]

UpkeepInit ==
    /\ now = 0
    /\ live \in [Entries -> {TtlThreshold, TtlThreshold + 1}]
    /\ cycles = {} /\ lastCycle = 0 /\ sequence = 0 /\ gaveUp = {}
    /\ keeperBeat = [v \in Vaults |-> 0] /\ granted = Vaults /\ run = NoRun
    /\ lastRun = 0 /\ skipped = {} /\ upkeepFaults = 0

UpkeepFault == upkeepFaults < MaxUpkeepFaults /\ upkeepFaults' = upkeepFaults + 1

(* Ledgers close while the jobs keep their pace.                           *)
TtlTick ==
    /\ now < MaxUpkeepTime
    /\ now < lastCycle + PollInterval
    /\ \A c \in cycles : now < c.latest + CycleTime
    /\ now' = now + 1
    /\ UNCHANGED <<ttlVars, keeperVars, upkeepFaults>>

\* setInterval fires, also while an earlier cycle is at work.
StartCycle ==
    /\ now = lastCycle + PollInterval
    /\ lastCycle' = now
    /\ cycles' = cycles \cup {[latest |-> now, next |-> 1, todo |-> {}, seq |-> sequence, tries |-> 0]}
    /\ UNCHANGED <<now, live, sequence, gaveUp, keeperVars, upkeepFaults>>

Becomes(c, d) == cycles' = (cycles \ {c}) \cup {d}

\* remaining < ttlThreshold, counted from the ledger at the start of the cycle
Low(e, latest) == live[e] < latest + TtlThreshold

\* An archived entry is not found and skipped.
ScanEntry(c) ==
    /\ c.next \in Scanned
    /\ Becomes(c, [c EXCEPT !.next = @ + 1,
                    !.todo = IF live[c.next] >= now /\ Low(c.next, c.latest) THEN @ \cup {c.next} ELSE @])
    /\ UNCHANGED <<now, live, lastCycle, sequence, gaveUp, keeperVars, upkeepFaults>>

\* fetchEntryTtl fails in all its attempts: the entry is left for the next cycle.
ScanFails(c) ==
    /\ c.next \in Scanned /\ UpkeepFault
    /\ gaveUp' = gaveUp \cup {c.next}
    /\ Becomes(c, [c EXCEPT !.next = @ + 1])
    /\ UNCHANGED <<now, live, lastCycle, sequence, keeperVars>>

\* getLatestLedger or queryEntityCount fails: the cycle scans nothing.
CountFails(c) ==
    /\ c.next = 1 /\ UpkeepFault
    /\ gaveUp' = gaveUp \cup Scanned
    /\ Becomes(c, [c EXCEPT !.next = MaxEntries + 1])
    /\ UNCHANGED <<now, live, lastCycle, sequence, keeperVars>>

Batch(c)     == {e \in c.todo : Cardinality({f \in c.todo : f < e}) < BatchSize}
Submitting(c) == c.next \notin Scanned /\ c.todo # {}

\* submitBatchTtlExtensionTx reads the sequence number, then simulates and signs.
Prepare(c) ==
    /\ Submitting(c) /\ c.tries < MaxRetries
    /\ c.seq # sequence + 1
    /\ Becomes(c, [c EXCEPT !.seq = sequence + 1])
    /\ UNCHANGED <<now, live, lastCycle, sequence, gaveUp, keeperVars, upkeepFaults>>

TtlLeft(c) == c.todo \ Batch(c)

Extended(c) == live' = [e \in Entries |-> IF e \in Batch(c) /\ live[e] >= now THEN now + MaxTtl ELSE live[e]]

\* The network takes the transaction only with the next sequence number.
Send(c) ==
    /\ Submitting(c) /\ c.seq = sequence + 1 /\ c.tries < MaxRetries
    /\ sequence' = sequence + 1 /\ Extended(c)
    /\ Becomes(c, [c EXCEPT !.todo = TtlLeft(c), !.tries = 0, !.seq = 0])
    /\ UNCHANGED <<now, lastCycle, gaveUp, keeperVars, upkeepFaults>>

\* A number already used, a refusal, or an answer that never came: withRetry.
SendFails(c) ==
    /\ Submitting(c) /\ c.seq # 0 /\ c.tries < MaxRetries
    /\ \/ c.seq # sequence + 1 /\ UNCHANGED <<live, sequence, upkeepFaults>>
       \/ c.seq = sequence + 1 /\ UpkeepFault /\ UNCHANGED <<live, sequence>>
       \/ c.seq = sequence + 1 /\ UpkeepFault /\ sequence' = sequence + 1 /\ Extended(c)
    /\ Becomes(c, [c EXCEPT !.tries = @ + 1, !.seq = 0])
    /\ UNCHANGED <<now, lastCycle, gaveUp, keeperVars>>

\* The attempts are used up: the batch is counted as errors, the next one follows.
GiveUp(c) ==
    /\ Submitting(c) /\ c.tries = MaxRetries
    /\ gaveUp' = gaveUp \cup Batch(c)
    /\ Becomes(c, [c EXCEPT !.todo = TtlLeft(c), !.tries = 0])
    /\ UNCHANGED <<now, live, lastCycle, sequence, keeperVars, upkeepFaults>>

EndCycle(c) ==
    /\ c.next \notin Scanned /\ c.todo = {}
    /\ cycles' = cycles \ {c}
    /\ UNCHANGED <<now, live, lastCycle, sequence, gaveUp, keeperVars, upkeepFaults>>

TtlNext ==
    \/ TtlTick \/ StartCycle
    \/ \E c \in cycles : ScanEntry(c) \/ ScanFails(c) \/ CountFails(c) \/ Prepare(c) \/ Send(c)
                            \/ SendFails(c) \/ GiveUp(c) \/ EndCycle(c)

-----------------------------------------------------------------------------
KeeperTick ==
    /\ now < MaxUpkeepTime /\ run.rest = {} /\ now < lastRun + RunInterval
    /\ now' = now + 1
    /\ UNCHANGED <<ttlVars, keeperVars, upkeepFaults>>

StartRun(chain) ==
    /\ run.rest = {} /\ now = lastRun + RunInterval
    /\ lastRun' = now
    /\ run' = [chain |-> chain, rest |-> Vaults, due |-> {}]
    /\ UNCHANGED <<now, ttlVars, keeperBeat, granted, skipped, upkeepFaults>>

\* checkAndRelay: half of the inactivity period on the EVM, always on Soroban
Due(v) == run.chain = "soroban" \/ 2 * (now - keeperBeat[v]) >= Inactivity

First(v) == v \in run.rest /\ run.due = {} /\ \A w \in run.rest : v <= w

Check(v) ==
    /\ First(v)
    /\ run' = IF v \in granted /\ Due(v) THEN [run EXCEPT !.due = {v}] ELSE [run EXCEPT !.rest = @ \ {v}]
    /\ UNCHANGED <<now, ttlVars, keeperBeat, granted, lastRun, skipped, upkeepFaults>>

\* proveLifeByKeeper; the contract checks the authorization again.
Beat(v) ==
    /\ v \in run.due /\ v \in granted
    /\ keeperBeat' = [keeperBeat EXCEPT ![v] = now]
    /\ run' = [run EXCEPT !.due = {}, !.rest = @ \ {v}]
    /\ UNCHANGED <<now, ttlVars, granted, lastRun, skipped, upkeepFaults>>

\* The call throws, main rejects and the process exits; the other vaults wait for the next run.
KeeperFails(v) ==
    /\ v \in run.due
    /\ v \in granted => upkeepFaults < MaxUpkeepFaults
    /\ upkeepFaults' = IF v \in granted THEN upkeepFaults + 1 ELSE upkeepFaults
    /\ skipped' = skipped \cup run.rest
    /\ run' = NoRun
    /\ UNCHANGED <<now, ttlVars, keeperBeat, granted, lastRun>>

\* The owner revokes the keeper, or the authorization expires.
Revoke(v) ==
    /\ v \in granted /\ UpkeepFault
    /\ granted' = granted \ {v}
    /\ UNCHANGED <<now, ttlVars, keeperBeat, run, lastRun, skipped>>

KeeperNext ==
    \/ KeeperTick \/ \E chain \in {"evm", "soroban"} : StartRun(chain)
    \/ \E v \in Vaults : Check(v) \/ Beat(v) \/ KeeperFails(v) \/ Revoke(v)

-----------------------------------------------------------------------------
\* Cycles and runs keep their types.
UpkeepTypeOK ==
    /\ now \in 0 .. MaxUpkeepTime /\ live \in [Entries -> Nat]
    /\ \A c \in cycles : c.todo \subseteq Scanned /\ c.tries <= MaxRetries /\ c.latest <= now
    /\ keeperBeat \in [Vaults -> 0 .. now] /\ run.rest \subseteq Vaults /\ run.due \subseteq run.rest

(* With an interval and a cycle time that fit into the threshold, no entry *)
(* within the scan limit expires, although cycles overlap and compete for  *)
(* the account's sequence number, unless a cycle had to give it up.        *)
EntriesKeptAlive ==
    PollInterval + CycleTime <= TtlThreshold
        => \A e \in Scanned : live[e] < now => e \in gaveUp

(* With a run at least every half period, a vault whose keeper is          *)
(* authorized does not become inactive, unless a run failed before it had  *)
(* served the vault.                                                       *)
VaultsKeptAlive ==
    2 * RunInterval <= Inactivity
        => \A v \in granted \ skipped : now - keeperBeat[v] <= Inactivity
=============================================================================
