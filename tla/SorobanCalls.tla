------------------------------ MODULE SorobanCalls ------------------------------
(***************************************************************************)
(* A Soroban transaction from the client (executeSorobanCall of            *)
(* stellar.service.ts): simulate, let Freighter sign, submit, poll.  Two   *)
(* calls run at once and share the account's sequence number; the user     *)
(* switches the Freighter account meanwhile; the network may apply a       *)
(* transaction after the client has stopped polling.                       *)
(***************************************************************************)
EXTENDS Naturals, Sequences, FiniteSets

CONSTANTS
    SorobanAccounts,
    Calls,          \* calls made
    MaxPolls,       \* 30 in the code
    MaxSwitches, MaxOthers  \* bounds on account switches and on other users' writes

\* 0 is the call of another client's entry.
ASSUME SorobanAssumptions == {MaxPolls, MaxSwitches, MaxOthers} \subseteq Nat /\ 0 \notin Calls

VARIABLES
    freighter,  \* the account Freighter signs with
    active,     \* activeAccount, which follows it by polling
    call,       \* the state of each call
    ledger,     \* entries created, with the caller and the call they came from
    seqNo,      \* the last sequence number used by each account
    wire,       \* submitted transactions neither applied nor dropped
    switches, others,
    overtaken   \* history: calls that another creation overtook after simulation

sorobanVars == <<freighter, active, call, ledger, seqNo, wire, switches, others, overtaken>>

Start0 == [stage |-> "idle", caller |-> "-", source |-> "-", seq |-> 0, ret |-> 0, polls |-> 0]

SorobanInit ==
    /\ freighter \in SorobanAccounts /\ active = freighter
    /\ call = [c \in Calls |-> Start0]
    /\ ledger = <<>> /\ seqNo = [a \in SorobanAccounts |-> 0] /\ wire = {}
    /\ switches = 0 /\ others = 0 /\ overtaken = {}

Ended == {"ok", "failed", "timeout"}

\* The wrapper puts activeAccount among the arguments: createVault, addDocument,
\* requestAccess, mintAccessToken, ...
Invoke(c) ==
    /\ call[c].stage = "idle"
    /\ call' = [call EXCEPT ![c].stage = "invoked", ![c].caller = active]
    /\ UNCHANGED <<freighter, active, ledger, seqNo, wire, switches, others, overtaken>>

\* server.getAccount(activeAccount), read again after the SDK was loaded.
Source(c) ==
    /\ call[c].stage = "invoked"
    /\ call' = [call EXCEPT ![c].stage = "sourced", ![c].source = active,
                            ![c].seq = seqNo[active] + 1]
    /\ UNCHANGED <<freighter, active, ledger, seqNo, wire, switches, others, overtaken>>

Retval == Len(ledger) + 1

\* The returned value is the simulation's, not the transaction's.
Simulate(c) ==
    /\ call[c].stage = "sourced"
    /\ call' = [call EXCEPT ![c].stage = "simulated", ![c].ret = Retval]
    /\ UNCHANGED <<freighter, active, ledger, seqNo, wire, switches, others, overtaken>>

\* signAuthEntry and signTransaction, then sendTransaction: Freighter signs with
\* the account it is on.
Submit(c) ==
    /\ call[c].stage = "simulated"
    /\ call' = [call EXCEPT ![c].stage = "sent"]
    /\ wire' = wire \cup {[call |-> c, signer |-> freighter]}
    /\ UNCHANGED <<freighter, active, ledger, seqNo, switches, others, overtaken>>

\* Simulation error, refusal to sign, or status ERROR on submission.
Fails(c) ==
    /\ call[c].stage \in {"invoked", "sourced", "simulated"}
    /\ call' = [call EXCEPT ![c].stage = "failed"]
    /\ UNCHANGED <<freighter, active, ledger, seqNo, wire, switches, others, overtaken>>

\* The network's own checks: signatures of the source and of the caller, and the
\* sequence number.
Valid(t) ==
    LET k == call[t.call]
    IN t.signer = k.source /\ t.signer = k.caller /\ k.seq = seqNo[k.source] + 1

Creates(entry, by) ==
    /\ ledger' = Append(ledger, entry)
    /\ overtaken' = overtaken \cup
           {c \in Calls \ {by} : call[c].ret # 0 /\ \A i \in DOMAIN ledger : ledger[i].call # c}

Apply(t) ==
    /\ Valid(t)
    /\ wire' = wire \ {t}
    /\ seqNo' = [seqNo EXCEPT ![call[t.call].source] = @ + 1]
    /\ Creates([by |-> call[t.call].caller, call |-> t.call], t.call)
    /\ UNCHANGED <<freighter, active, call, switches, others>>

\* Rejected, failed, or past the time bound of 60 seconds.
Drop(t) ==
    /\ wire' = wire \ {t}
    /\ UNCHANGED <<freighter, active, call, ledger, seqNo, switches, others, overtaken>>

OnLedger(c) == \E i \in DOMAIN ledger : ledger[i].call = c
OnWire(c) == \E t \in wire : t.call = c

\* Mutant: NOT_FOUND is taken for a failure.
FailedStatus_Missing(c) == ~OnLedger(c)
FailedStatus(c) == ~OnLedger(c) /\ ~OnWire(c)

Poll(c) ==
    /\ call[c].stage = "sent"
    /\ \/ OnLedger(c) /\ call' = [call EXCEPT ![c].stage = "ok"]
       \/ FailedStatus(c) /\ call' = [call EXCEPT ![c].stage = "failed"]
       \/ /\ ~OnLedger(c) /\ call[c].polls < MaxPolls
          /\ call' = [call EXCEPT ![c].polls = @ + 1]
       \/ /\ ~OnLedger(c) /\ call[c].polls = MaxPolls
          /\ call' = [call EXCEPT ![c].stage = "timeout"]
    /\ UNCHANGED <<freighter, active, ledger, seqNo, wire, switches, others, overtaken>>

SwitchFreighter(a) ==
    /\ switches < MaxSwitches /\ switches' = switches + 1
    /\ a # freighter /\ freighter' = a
    /\ UNCHANGED <<active, call, ledger, seqNo, wire, others, overtaken>>

Follow ==
    /\ active # freighter /\ active' = freighter
    /\ UNCHANGED <<freighter, call, ledger, seqNo, wire, switches, others, overtaken>>

\* Another client creates an entry.
OtherCreates ==
    /\ others < MaxOthers /\ others' = others + 1
    /\ Creates([by |-> "other", call |-> 0], 0)
    /\ UNCHANGED <<freighter, active, call, seqNo, wire, switches>>

SorobanNext ==
    \/ \E c \in Calls : Invoke(c) \/ Source(c) \/ Simulate(c) \/ Submit(c) \/ Fails(c) \/ Poll(c)
    \/ \E t \in wire : Apply(t) \/ Drop(t)
    \/ \E a \in SorobanAccounts : SwitchFreighter(a)
    \/ Follow \/ OtherCreates

SorobanSpec == SorobanInit /\ [][SorobanNext]_sorobanVars

--------------------------------------------------------------------------------
\* Type invariant of the calls.
SorobanTypeOK ==
    /\ {freighter, active} \subseteq SorobanAccounts
    /\ \A c \in Calls :
          /\ call[c].stage \in {"idle", "invoked", "sourced", "simulated", "sent"} \cup Ended
          /\ call[c].polls \in 0 .. MaxPolls
    /\ \A t \in wire : call[t.call].stage \in {"sent", "timeout"}

\* What a call reports is what happened: success means its entry was created for
\* the account that called, a failure that it never was and never will be.  Only
\* "polling timed out" leaves it open.
OutcomesAreTrue ==
    \A c \in Calls :
        /\ call[c].stage = "ok" => \E i \in DOMAIN ledger : ledger[i] = [by |-> call[c].caller, call |-> c]
        /\ call[c].stage = "failed" => ~OnLedger(c) /\ ~OnWire(c)

\* The id a successful call returns is the one of its own entry, unless another
\* creation overtook it after the simulation.
ReturnedIdIsOwn ==
    \A c \in Calls \ overtaken : call[c].stage = "ok" => ledger[call[c].ret].call = c

\* Calls that took the same sequence number do not both take effect.
NoTwoWithOneSequence ==
    \A c, d \in Calls :
        (c # d /\ OnLedger(c) /\ OnLedger(d) /\ call[c].source = call[d].source)
            => call[c].seq # call[d].seq
================================================================================
