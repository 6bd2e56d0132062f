----------------------------- MODULE ServicesProofs -----------------------------
(***************************************************************************)
(* Proofs about the client-side services of MCServices, for every value of *)
(* their constants.  The services share no state, so each has an inductive *)
(* invariant of its own, kept by its own steps and by stuttering.          *)
(***************************************************************************)
EXTENDS MCServices, FiniteSetTheorems, TLAPS

-----------------------------------------------------------------------------
(* Downloads from gateways.                                                *)

Circuits == [fails : 0 .. FailureThreshold, until : 0 .. MaxGateTime + Cooldown]
Healths == [fails : 0 .. FailureThreshold, state : {"CLOSED", "OPEN", "HALF_OPEN"},
            tripped : 0 .. MaxGateTime, backoff : 0 .. MaxBackoff]
DownloadStates == {"none", "racing", "won", "failed", "cancelled", "download"}
DownloadRecs == [state : DownloadStates, asked : SUBSET Gateways, failed : SUBSET Gateways,
                 winner : SUBSET Gateways, whole : BOOLEAN]

\* A race has asked somebody, and has failed only when everybody did.
FairRace(f) ==
    /\ f.failed \cup f.winner \subseteq f.asked
    /\ f.state = "none" => f.failed = {} /\ f.winner = {}
    /\ f.state # "none" => f.asked # {}
    /\ f.state = "failed" => f.failed # {} /\ f.failed = f.asked

GateInv ==
    /\ gateTime \in 0 .. MaxGateTime
    /\ circuits \in [Gateways -> Circuits]
    /\ health \in [Gateways -> Healths]
    /\ gateFetches \in [Downloads -> DownloadRecs]
    /\ probes \in [Downloads -> DownloadRecs]
    /\ \A d \in Downloads : FairRace(gateFetches[d])
    /\ \A d \in Downloads : /\ probes[d].failed \subseteq probes[d].asked
                            /\ probes[d].state = "none" => probes[d].asked = {}

\* Initially nothing was asked.
LEMMA GateInitial == GateInit => GateInv
<1> USE GatewayConstants
<1> SUFFICES ASSUME GateInit PROVE GateInv OBVIOUS
<1>1. NoFetch \in DownloadRecs /\ FairRace(NoFetch) /\ NoFetch.failed = {} /\ NoFetch.asked = {}
  BY DEF NoFetch, DownloadRecs, DownloadStates, FairRace
<1>2. circuits \in [Gateways -> Circuits] BY DEF GateInit, RaceInit, Circuits
<1>3. health \in [Gateways -> Healths] BY DEF GateInit, ScoreInit, Healths
<1>4. gateFetches = [d \in Downloads |-> NoFetch] /\ probes = [d \in Downloads |-> NoFetch]
  BY DEF GateInit, RaceInit, ScoreInit
<1> HIDE DEF NoFetch
<1> QED BY <1>1, <1>2, <1>3, <1>4 DEF GateInv, GateInit

\* With every circuit open all gateways are asked (selectGateways).
LEMMA SomebodyIsAsked == SelectGateways # {} /\ SelectGateways \subseteq Gateways
BY GatewayConstants DEF SelectGateways, Healthy

\* The states a download passes through.
LEMMA States == {"racing", "won", "failed", "cancelled", "download"} \subseteq DownloadStates
BY DEF DownloadStates

\* Records of downloads stay records of downloads when fields are replaced.
LEMMA Updated ==
    ASSUME NEW F \in [Downloads -> DownloadRecs], NEW d \in Downloads, NEW st \in DownloadStates,
           NEW S \in SUBSET Gateways, NEW b \in BOOLEAN
    PROVE  /\ [F EXCEPT ![d].state = st, ![d].asked = S] \in [Downloads -> DownloadRecs]
           /\ [F EXCEPT ![d].state = st, ![d].winner = S, ![d].whole = b] \in [Downloads -> DownloadRecs]
           /\ [F EXCEPT ![d].asked = S, ![d].whole = b, ![d].state = st] \in [Downloads -> DownloadRecs]
           /\ [F EXCEPT ![d].failed = S, ![d].state = st] \in [Downloads -> DownloadRecs]
           /\ [F EXCEPT ![d].winner = S, ![d].state = st] \in [Downloads -> DownloadRecs]
           /\ [F EXCEPT ![d].asked = S] \in [Downloads -> DownloadRecs]
           /\ [F EXCEPT ![d].state = st] \in [Downloads -> DownloadRecs]
<1>1. [F EXCEPT ![d].state = st, ![d].asked = S] \in [Downloads -> DownloadRecs] BY DEF DownloadRecs
<1>2. [F EXCEPT ![d].state = st, ![d].winner = S, ![d].whole = b] \in [Downloads -> DownloadRecs]
  BY ZenonT(60) DEF DownloadRecs
<1>3. [F EXCEPT ![d].asked = S, ![d].whole = b, ![d].state = st] \in [Downloads -> DownloadRecs]
  BY ZenonT(60) DEF DownloadRecs
<1>4. [F EXCEPT ![d].failed = S, ![d].state = st] \in [Downloads -> DownloadRecs] BY DEF DownloadRecs
<1>5. [F EXCEPT ![d].winner = S, ![d].state = st] \in [Downloads -> DownloadRecs] BY DEF DownloadRecs
<1>6. [F EXCEPT ![d].asked = S] \in [Downloads -> DownloadRecs] BY DEF DownloadRecs
<1>7. [F EXCEPT ![d].state = st] \in [Downloads -> DownloadRecs] BY DEF DownloadRecs
<1> QED BY <1>1, <1>2, <1>3, <1>4, <1>5, <1>6, <1>7

\* Steps of the racing client keep the invariant.
LEMMA RaceSafe == GateInv /\ RaceNext => GateInv'
<1> USE GatewayConstants
<1> SUFFICES ASSUME GateInv, RaceNext PROVE GateInv' OBVIOUS
<1> USE DEF GateInv
<1>1. CASE GateTick
  BY <1>1 DEF GateTick
<1>2. CASE ResetCircuits
  BY <1>2 DEF ResetCircuits, Circuits, scoreVars
<1>3. ASSUME NEW d \in Downloads, FetchFile(d) PROVE GateInv'
  <2>1. gateFetches[d] \in DownloadRecs /\ FairRace(gateFetches[d]) /\ gateFetches[d].state = "none"
    BY <1>3 DEF FetchFile
  <2>2. gateFetches' \in [Downloads -> DownloadRecs]
    BY <1>3, SomebodyIsAsked, States, Updated, ZenonT(60) DEF FetchFile
  <2>3. \A e \in Downloads \ {d} : gateFetches'[e] = gateFetches[e]
    BY <1>3 DEF FetchFile
  <2>4. FairRace(gateFetches'[d])
    BY <1>3, <2>1, SomebodyIsAsked DEF FetchFile, DownloadRecs, FairRace
  <2> QED BY <1>3, <2>2, <2>3, <2>4 DEF FetchFile, scoreVars
<1>4. ASSUME NEW d \in Downloads, CancelFetch(d) PROVE GateInv'
  <2>1. gateFetches[d] \in DownloadRecs /\ FairRace(gateFetches[d]) /\ gateFetches[d].state = "racing"
    BY <1>4 DEF CancelFetch
  <2>2. gateFetches' \in [Downloads -> DownloadRecs]
    <3>1. gateFetches' = [gateFetches EXCEPT ![d].state = "cancelled"] BY <1>4 DEF CancelFetch
    <3>2. "cancelled" \in DownloadStates BY States
    <3> QED BY <3>1, <3>2, Updated
  <2>3. \A e \in Downloads \ {d} : gateFetches'[e] = gateFetches[e]
    BY <1>4 DEF CancelFetch
  <2>4. FairRace(gateFetches'[d])
    BY <1>4, <2>1 DEF CancelFetch, DownloadRecs, FairRace
  <2> QED BY <1>4, <2>2, <2>3, <2>4 DEF CancelFetch, scoreVars
<1>5. ASSUME NEW d \in Downloads, NEW g \in Gateways, NEW b \in BOOLEAN, GatewayAnswers(d, g, b)
      PROVE  GateInv'
  <2>1. /\ gateFetches[d] \in DownloadRecs /\ FairRace(gateFetches[d])
        /\ gateFetches[d].state = "racing" /\ g \in gateFetches[d].asked
    BY <1>5 DEF GatewayAnswers, Waiting
  <2>2. gateFetches' \in [Downloads -> DownloadRecs]
    <3>1. {g} \in SUBSET Gateways /\ "won" \in DownloadStates BY States
    <3>2. gateFetches' = [gateFetches EXCEPT ![d].state = "won", ![d].winner = {g}, ![d].whole = b]
      BY <1>5 DEF GatewayAnswers
    <3>3. gateFetches \in [Downloads -> DownloadRecs] OBVIOUS
    <3> QED BY <3>1, <3>2, <3>3, Updated, ZenonT(60)
  <2>3. \A e \in Downloads \ {d} : gateFetches'[e] = gateFetches[e]
    BY <1>5 DEF GatewayAnswers
  <2>4. FairRace(gateFetches'[d])
    BY <1>5, <2>1 DEF GatewayAnswers, DownloadRecs, FairRace
  <2>5. circuits' \in [Gateways -> Circuits]
    BY <1>5 DEF GatewayAnswers, Circuits
  <2> QED BY <1>5, <2>2, <2>3, <2>4, <2>5 DEF GatewayAnswers, scoreVars
<1>6. ASSUME NEW d \in Downloads, NEW g \in Gateways, NEW b \in BOOLEAN, GatewayFails(d, g, b)
      PROVE  GateInv'
  <2>1. /\ gateFetches[d] \in DownloadRecs /\ FairRace(gateFetches[d])
        /\ gateFetches[d].state = "racing" /\ g \in gateFetches[d].asked
    BY <1>6 DEF GatewayFails, Waiting
  <2> DEFINE S == gateFetches[d].failed \cup {g}
             st == IF S = gateFetches[d].asked THEN "failed" ELSE gateFetches[d].state
  <2>a. gateFetches' = [gateFetches EXCEPT ![d].failed = S, ![d].state = st]
    BY <1>6 DEF GatewayFails, DownloadRecs
  <2>b. S \in SUBSET Gateways /\ st \in DownloadStates
    BY <2>1, States DEF DownloadRecs
  <2>2. gateFetches' \in [Downloads -> DownloadRecs]
    BY <2>a, <2>b, Updated, ZenonT(60)
  <2>3. \A e \in Downloads \ {d} : gateFetches'[e] = gateFetches[e]
    BY <1>6 DEF GatewayFails
  <2>4. FairRace(gateFetches'[d])
    BY <1>6, <2>1 DEF GatewayFails, DownloadRecs, FairRace
  <2>5. RecordFailure(g) \in Circuits
    BY DEF RecordFailure, Circuits
  <2>6. circuits' \in [Gateways -> Circuits]
    BY <1>6, <2>5 DEF GatewayFails
  <2> QED BY <1>6, <2>2, <2>3, <2>4, <2>6 DEF GatewayFails, scoreVars
<1> QED BY <1>1, <1>2, <1>3, <1>4, <1>5, <1>6 DEF RaceNext

\* A failure is counted up to the threshold and its backoff stays below the cap.
LEMMA FailedTyped ==
    ASSUME GateInv, NEW h \in Healths PROVE Failed(h, 1) \in Healths
<1> USE GatewayConstants DEF GateInv
<1> DEFINE f == Smaller(h.fails + 1, FailureThreshold)
<1>1. f \in 0 .. FailureThreshold BY DEF Smaller, Healths
<1>2. Smaller(2 * h.backoff, MaxBackoff) \in 0 .. MaxBackoff BY DEF Smaller, Healths
<1>3. [h EXCEPT !.fails = f] \in Healths BY <1>1 DEF Healths
<1> QED BY <1>1, <1>2, <1>3 DEF Failed, Healths

\* Steps of the scoring client keep the invariant.
LEMMA ScoreSafe == GateInv /\ ScoreNext => GateInv'
<1> USE GatewayConstants
<1> SUFFICES ASSUME GateInv, ScoreNext PROVE GateInv' OBVIOUS
<1> USE DEF GateInv
<1>1. CASE GateTick
  BY <1>1 DEF GateTick
<1>2. ASSUME NEW d \in Downloads, NEW b \in BOOLEAN, Probe(d, b) PROVE GateInv'
  <2>1. HalfOpened \in [Gateways -> Healths]
    BY DEF HalfOpened, Healths
  <2>2. health' \in [Gateways -> Healths]
    BY <1>2, <2>1 DEF Probe
  <2>3. PICK s \in SUBSET Gateways :
           probes' = [probes EXCEPT ![d].asked = s, ![d].whole = b,
                        ![d].state = IF s = {} THEN IF b THEN "won" ELSE "failed" ELSE "racing"]
    BY <1>2 DEF Probe, Tops
  <2> DEFINE st == IF s = {} THEN IF b THEN "won" ELSE "failed" ELSE "racing"
  <2>a. probes' = [probes EXCEPT ![d].asked = s, ![d].whole = b, ![d].state = st]
    BY <2>3
  <2>4. st \in DownloadStates
    BY States
  <2> HIDE DEF st
  <2>5. probes' \in [Downloads -> DownloadRecs]
    BY <2>a, <2>4, Updated, ZenonT(60)
  <2>6. probes[d].failed = {} /\ probes[d].state = "none"
    BY <1>2 DEF Probe, DownloadRecs
  <2>7. \A e \in Downloads : /\ probes'[e].failed \subseteq probes'[e].asked
                             /\ probes'[e].state = "none" => probes'[e].asked = {}
    BY <2>3, <2>6, <2>a DEF DownloadRecs, st
  <2> QED BY <1>2, <2>2, <2>5, <2>7 DEF Probe, raceVars
<1>3. ASSUME NEW d \in Downloads, NEW g \in Gateways, ProbeAnswers(d, g) PROVE GateInv'
  <2>1. Recovered \in Healths BY DEF Recovered, Healths
  <2>2. health' \in [Gateways -> Healths] BY <1>3, <2>1 DEF ProbeAnswers
  <2> DEFINE st == IF probes[d].whole THEN "won" ELSE "download"
  <2>a. st \in DownloadStates /\ {g} \in SUBSET Gateways /\ probes[d].asked \ {g} \in SUBSET Gateways
    BY States DEF DownloadRecs
  <2>b. CASE probes[d].state = "racing"
    <3>1. probes' = [probes EXCEPT ![d].winner = {g}, ![d].state = st]
      BY <1>3, <2>b DEF ProbeAnswers
    <3> HIDE DEF st
    <3>2. probes' \in [Downloads -> DownloadRecs]
      BY <3>1, <2>a, Updated, ZenonT(60)
    <3>3. \A e \in Downloads : /\ probes'[e].failed \subseteq probes'[e].asked
                               /\ probes'[e].state = "none" => probes'[e].asked = {}
      BY <3>1, <2>a DEF DownloadRecs, st
    <3> QED BY <1>3, <2>2, <3>2, <3>3 DEF ProbeAnswers, raceVars
  <2>c. CASE probes[d].state # "racing"
    <3>1. probes' = [probes EXCEPT ![d].asked = probes[d].asked \ {g}]
      BY <1>3, <2>c DEF ProbeAnswers
    <3>2. probes' \in [Downloads -> DownloadRecs]
      BY <3>1, <2>a, Updated
    <3>3. \A e \in Downloads : /\ probes'[e].failed \subseteq probes'[e].asked
                               /\ probes'[e].state = "none" => probes'[e].asked = {}
      BY <1>3, <3>1 DEF DownloadRecs, ProbeAnswers, Probing
    <3> QED BY <1>3, <2>2, <3>2, <3>3 DEF ProbeAnswers, raceVars
  <2> QED BY <2>b, <2>c
<1>4. ASSUME NEW d \in Downloads, NEW g \in Gateways, ProbeFails(d, g) PROVE GateInv'
  <2>1. health' \in [Gateways -> Healths] BY <1>4, FailedTyped DEF ProbeFails
  <2> DEFINE S == probes[d].failed \cup {g}
             st == IF probes[d].state = "racing" /\ S = probes[d].asked THEN "failed" ELSE probes[d].state
  <2>a. probes' = [probes EXCEPT ![d].failed = S, ![d].state = st]
    BY <1>4 DEF ProbeFails, DownloadRecs
  <2>b. S \in SUBSET Gateways /\ st \in DownloadStates
    BY States DEF DownloadRecs
  <2>2. probes' \in [Downloads -> DownloadRecs]
    BY <2>a, <2>b, Updated, ZenonT(60)
  <2>3. \A e \in Downloads : /\ probes'[e].failed \subseteq probes'[e].asked
                             /\ probes'[e].state = "none" => probes'[e].asked = {}
    <3>1. g \in probes[d].asked BY <1>4 DEF ProbeFails, Probing
    <3>2. probes[d].state # "none" BY <3>1
    <3>3. st # "none" BY <3>2
    <3> HIDE DEF st
    <3> QED BY <3>1, <3>3, <2>a DEF DownloadRecs
  <2> QED BY <1>4, <2>1, <2>2, <2>3 DEF ProbeFails, raceVars
<1>5. ASSUME NEW d \in Downloads, NEW o \in {"ok", "http", "network"}, Download(d, o) PROVE GateInv'
  <2>1. \A g \in Gateways : Failed(health[g], 1) \in Healths /\ Failed(Failed(health[g], 1), 1) \in Healths
    BY FailedTyped
  <2>2. health' \in [Gateways -> Healths] BY <1>5, <2>1 DEF Download
  <2>3. probes' \in [Downloads -> DownloadRecs]
    BY <1>5, States, SMTT(30) DEF Download, DownloadRecs
  <2>4. \A e \in Downloads : /\ probes'[e].failed \subseteq probes'[e].asked
                             /\ probes'[e].state = "none" => probes'[e].asked = {}
    BY <1>5 DEF Download, DownloadRecs
  <2> QED BY <1>5, <2>2, <2>3, <2>4 DEF Download, raceVars
<1> QED BY <1>1, <1>2, <1>3, <1>4, <1>5 DEF ScoreNext
-----------------------------------------------------------------------------
(* The contract client.                                                    *)

IntentStates == {"unasked", "sending", "waiting", "queued", "done", "failed"}
IntentRecs == [op : Writes, st : IntentStates, cur : {"none", "pool", "mined", "reverted"},
               stray : BOOLEAN, execs : Nat, lost : BOOLEAN]
Entries == [val : Nat \cup {Unread}, age : 0 .. Ttl, late : BOOLEAN]
ReadCalls == [id : Promises, val : Nat \cup {Unread}, epoch : Nat]

\* Transactions of one write that took effect or still may.
Sent(q) == q.execs + (IF q.cur = "pool" THEN 1 ELSE 0) + (IF q.stray THEN 1 ELSE 0)

(* A write whose receipt was not lost has one transaction at most, and     *)
(* none before it is sent; a lost receipt allows for one more.             *)
Accounted(q) ==
    /\ Sent(q) <= (IF q.lost THEN 2 ELSE 1)
    /\ q.st \in {"unasked", "queued", "sending"} => Sent(q) <= (IF q.lost THEN 1 ELSE 0)
    /\ q.st = "done" => q.cur \in {"mined", "reverted"}

\* What a call that was not overlapped by a clear may have read.
Current(f) ==
    /\ f.epoch <= clears
    /\ f.val # Unread => f.val <= onChain /\ (f.epoch = clears => f.val >= confirmed)

WritesInv == intent \in [Intents -> IntentRecs] /\ \A i \in Intents : Accounted(intent[i])

ReadsInv ==
    /\ watched \in Caches /\ onChain \in Nat /\ node \in Nat /\ confirmed \in Nat /\ clears \in Nat
    /\ confirmed <= node /\ node <= onChain
    /\ foreign \in 0 .. MaxForeign
    /\ entry \in Entries /\ pending \in Promises \cup {0}
    /\ fetches \subseteq ReadCalls /\ \A f \in fetches : Current(f)
    /\ entry.val # Unread /\ entry.val < confirmed => entry.late

ClientInv == WritesInv /\ ReadsInv

\* Initially nothing was read or written.
LEMMA ClientInitial == ClientInit => ClientInv
<1> USE ContractClientAssumptions
<1> SUFFICES ASSUME ClientInit PROVE ClientInv OBVIOUS
<1>1. Unasked \in IntentRecs /\ Accounted(Unasked)
  <2>1. mintAccessToken \in Writes BY DEF Writes
  <2> QED BY <2>1 DEF Unasked, IntentRecs, IntentStates, Accounted, Sent
<1>2. NoEntry \in Entries /\ NoEntry.val = Unread BY DEF NoEntry, Entries
<1>3. WritesInv BY <1>1 DEF ClientInit, WritesInv
<1>4. ReadsInv BY <1>2 DEF ClientInit, ReadsInv
<1> QED BY <1>3, <1>4 DEF ClientInv

\* One step of a write: replacing its record by an accounted one is enough.
LEMMA WriteReplaced ==
    ASSUME WritesInv, NEW i \in Intents, NEW q \in IntentRecs, Accounted(q),
           intent' = [intent EXCEPT ![i] = q]
    PROVE  WritesInv'
BY DEF WritesInv

\* The life of a write, step by step, on its record.
Asked(q, op) == [q EXCEPT !.op = op, !.st = IF op.inAbi THEN "sending" ELSE "failed"]
SentAgain(q) == [q EXCEPT !.st = "waiting", !.cur = "pool", !.stray = @ \/ q.cur = "pool"]
NetworkLost(q) == [q EXCEPT !.st = IF q.op.queued THEN "queued" ELSE "failed", !.lost = q.st = "waiting"]
Staged(q, st) == [q EXCEPT !.st = st]
MinedNow(q) == [q EXCEPT !.cur = "mined", !.execs = @ + 1]
MinedLate(q) == [q EXCEPT !.stray = FALSE, !.execs = @ + 1]
Reverted(q) == [q EXCEPT !.cur = "reverted"]

\* Each step keeps the record typed and accounted for.
LEMMA RecordSteps ==
    ASSUME NEW q \in IntentRecs, Accounted(q)
    PROVE  /\ \A op \in Writes : q.st = "unasked" => Asked(q, op) \in IntentRecs /\ Accounted(Asked(q, op))
           /\ q.st = "sending" => SentAgain(q) \in IntentRecs /\ Accounted(SentAgain(q))
           /\ q.st \in {"sending", "waiting"} /\ ~q.lost
                => NetworkLost(q) \in IntentRecs /\ Accounted(NetworkLost(q))
           /\ q.st \in {"sending", "waiting"} => Staged(q, "failed") \in IntentRecs /\ Accounted(Staged(q, "failed"))
           /\ q.st = "queued" => Staged(q, "sending") \in IntentRecs /\ Accounted(Staged(q, "sending"))
           /\ q.cur \in {"mined", "reverted"} => Staged(q, "done") \in IntentRecs /\ Accounted(Staged(q, "done"))
           /\ q.cur = "pool" => MinedNow(q) \in IntentRecs /\ Accounted(MinedNow(q))
           /\ q.stray => MinedLate(q) \in IntentRecs /\ Accounted(MinedLate(q))
           /\ q.cur = "pool" => Reverted(q) \in IntentRecs /\ Accounted(Reverted(q))
<1>1. ASSUME NEW op \in Writes, q.st = "unasked" PROVE Asked(q, op) \in IntentRecs /\ Accounted(Asked(q, op))
  BY <1>1 DEF Asked, IntentRecs, IntentStates, Accounted, Sent
<1>2. ASSUME q.st = "sending" PROVE SentAgain(q) \in IntentRecs /\ Accounted(SentAgain(q))
  <2> DEFINE r == SentAgain(q)
  <2>1. q.stray \in BOOLEAN /\ (q.stray \/ q.cur = "pool") \in BOOLEAN /\ q.lost \in BOOLEAN
        /\ q.execs \in Nat /\ "waiting" \in IntentStates /\ "sending" \in IntentStates
    BY DEF IntentRecs, IntentStates
  <2>2. r \in IntentRecs BY <2>1, Zenon DEF SentAgain, IntentRecs
  <2>3. r.st = "waiting" /\ r.cur = "pool" /\ r.execs = q.execs /\ r.lost = q.lost
    BY DEF SentAgain, IntentRecs
  <2>4. r.stray = (q.stray \/ q.cur = "pool") BY DEF SentAgain, IntentRecs
  <2> HIDE DEF r
  <2>5. Sent(r) <= Sent(q) + 1 BY <2>1, <2>3, <2>4 DEF Sent
  <2>6. Sent(q) \in Nat /\ Sent(r) \in Nat BY <2>1, <2>3 DEF Sent
  <2>7. Accounted(r) BY <1>2, <2>3, <2>5, <2>6 DEF Accounted
  <2> QED BY <2>2, <2>7 DEF r
<1>3. ASSUME q.st \in {"sending", "waiting"}, ~q.lost
      PROVE  NetworkLost(q) \in IntentRecs /\ Accounted(NetworkLost(q))
  <2> DEFINE r == NetworkLost(q)
  <2>1. q.execs \in Nat /\ (q.st = "waiting") \in BOOLEAN BY DEF IntentRecs
  <2>2. r \in IntentRecs
    <3>1. (IF q.op.queued THEN "queued" ELSE "failed") \in IntentStates BY DEF IntentStates
    <3> QED BY <2>1, <3>1, Zenon DEF NetworkLost, IntentRecs
  <2>3. r.st \in {"queued", "failed"} /\ r.cur = q.cur /\ r.execs = q.execs /\ r.stray = q.stray
    BY DEF NetworkLost, IntentRecs
  <2>4. r.lost <=> q.st = "waiting" BY DEF NetworkLost, IntentRecs
  <2> HIDE DEF r
  <2>5. Sent(r) = Sent(q) BY <2>3 DEF Sent
  <2>6. Sent(q) \in Nat BY <2>1 DEF Sent
  <2>7. Accounted(r)
    <3>1. CASE q.st = "waiting"
      <4>1. r.lost BY <3>1, <2>4
      <4> QED BY <1>3, <2>3, <2>5, <2>6, <4>1 DEF Accounted
    <3>2. CASE q.st = "sending"
      <4>1. ~r.lost BY <3>2, <2>4
      <4> QED BY <1>3, <3>2, <2>3, <2>5, <2>6, <4>1 DEF Accounted
    <3> QED BY <1>3, <3>1, <3>2
  <2> QED BY <2>2, <2>7 DEF r
<1>4. ASSUME q.st \in {"sending", "waiting"}
      PROVE Staged(q, "failed") \in IntentRecs /\ Accounted(Staged(q, "failed"))
  BY <1>4 DEF Staged, IntentRecs, IntentStates, Accounted, Sent
<1>5. ASSUME q.st = "queued" PROVE Staged(q, "sending") \in IntentRecs /\ Accounted(Staged(q, "sending"))
  BY <1>5 DEF Staged, IntentRecs, IntentStates, Accounted, Sent
<1>6. ASSUME q.cur \in {"mined", "reverted"} PROVE Staged(q, "done") \in IntentRecs /\ Accounted(Staged(q, "done"))
  BY <1>6 DEF Staged, IntentRecs, IntentStates, Accounted, Sent
<1>7. ASSUME q.cur = "pool" PROVE MinedNow(q) \in IntentRecs /\ Accounted(MinedNow(q))
  <2> DEFINE r == MinedNow(q)
  <2>1. q.execs \in Nat BY DEF IntentRecs
  <2>2. r \in IntentRecs
    <3>1. q.execs + 1 \in Nat BY <2>1
    <3> QED BY <3>1, Zenon DEF MinedNow, IntentRecs
  <2>3. r.st = q.st /\ r.cur = "mined" /\ r.execs = q.execs + 1 /\ r.lost = q.lost /\ r.stray = q.stray
    BY DEF MinedNow, IntentRecs
  <2> HIDE DEF r
  <2>4. Sent(r) = Sent(q) BY <1>7, <2>1, <2>3 DEF Sent
  <2>5. Accounted(r) BY <2>3, <2>4 DEF Accounted
  <2> QED BY <2>2, <2>5 DEF r
<1>8. ASSUME q.stray PROVE MinedLate(q) \in IntentRecs /\ Accounted(MinedLate(q))
  <2> DEFINE r == MinedLate(q)
  <2>1. q.execs \in Nat BY DEF IntentRecs
  <2>2. r \in IntentRecs
    <3>1. q.execs + 1 \in Nat BY <2>1
    <3> QED BY <3>1, Zenon DEF MinedLate, IntentRecs
  <2>3. r.st = q.st /\ r.cur = q.cur /\ r.execs = q.execs + 1 /\ r.lost = q.lost
    BY DEF MinedLate, IntentRecs
  <2>4. r.stray = FALSE BY DEF MinedLate, IntentRecs
  <2> HIDE DEF r
  <2>5. Sent(r) = Sent(q) BY <1>8, <2>1, <2>3, <2>4 DEF Sent
  <2>6. Accounted(r) BY <2>3, <2>5 DEF Accounted
  <2> QED BY <2>2, <2>6 DEF r
<1>9. ASSUME q.cur = "pool" PROVE Reverted(q) \in IntentRecs /\ Accounted(Reverted(q))
  <2> DEFINE r == Reverted(q)
  <2>1. q.execs \in Nat BY DEF IntentRecs
  <2>2. r \in IntentRecs BY <2>1 DEF Reverted, IntentRecs
  <2>3. r.st = q.st /\ r.cur = "reverted" /\ r.execs = q.execs /\ r.lost = q.lost /\ r.stray = q.stray
    BY DEF Reverted, IntentRecs
  <2> HIDE DEF r
  <2>4. Sent(r) = Sent(q) - 1 /\ Sent(q) \in Nat BY <1>9, <2>1, <2>3 DEF Sent
  <2>5. Accounted(r) BY <2>3, <2>4 DEF Accounted
  <2> QED BY <2>2, <2>5 DEF r
<1> QED BY <1>1, <1>2, <1>3, <1>4, <1>5, <1>6, <1>7, <1>8, <1>9

\* The client's steps on its writes: every one replaces one record by the next.
LEMMA WritesSafe == WritesInv /\ ClientNext => WritesInv'
<1> SUFFICES ASSUME WritesInv, ClientNext PROVE WritesInv' OBVIOUS
<1> USE DEF WritesInv
<1>a. \A i \in Intents : intent[i] \in IntentRecs /\ Accounted(intent[i]) OBVIOUS
<1>1. ASSUME UNCHANGED intent PROVE WritesInv' BY <1>1
<1>2. ASSUME NEW i \in Intents, NEW op \in Writes, AskWallet(i, op) PROVE WritesInv'
  <2>1. intent' = [intent EXCEPT ![i] = Asked(intent[i], op)] BY <1>2 DEF AskWallet, Asked, IntentRecs
  <2> QED BY <1>a, <1>2, <2>1, RecordSteps, WriteReplaced DEF AskWallet
<1>3. ASSUME NEW i \in Intents, Send(i) PROVE WritesInv'
  <2>1. intent' = [intent EXCEPT ![i] = SentAgain(intent[i])] BY <1>3 DEF Send, SentAgain, IntentRecs
  <2> QED BY <1>a, <1>3, <2>1, RecordSteps, WriteReplaced DEF Send
<1>4. ASSUME NEW i \in Intents, NetworkFails(i) PROVE WritesInv'
  <2>1. intent' = [intent EXCEPT ![i] = NetworkLost(intent[i])] BY <1>4 DEF NetworkFails, NetworkLost, IntentRecs
  <2> QED BY <1>a, <1>4, <2>1, RecordSteps, WriteReplaced DEF NetworkFails
<1>5. ASSUME NEW i \in Intents, WriteFails(i) PROVE WritesInv'
  <2>1. intent' = [intent EXCEPT ![i] = Staged(intent[i], "failed")] BY <1>5 DEF WriteFails, Become, Staged
  <2> QED BY <1>a, <1>5, <2>1, RecordSteps, WriteReplaced DEF WriteFails
<1>6. ASSUME NEW i \in Intents, Replay(i) PROVE WritesInv'
  <2>1. intent' = [intent EXCEPT ![i] = Staged(intent[i], "sending")] BY <1>6 DEF Replay, Become, Staged
  <2> QED BY <1>a, <1>6, <2>1, RecordSteps, WriteReplaced DEF Replay
<1>7. ASSUME NEW i \in Intents, Mine(i) PROVE WritesInv'
  <2>1. CASE intent[i].cur = "pool" /\ intent' = [intent EXCEPT ![i].cur = "mined", ![i].execs = @ + 1]
    <3>1. intent' = [intent EXCEPT ![i] = MinedNow(intent[i])] BY <2>1 DEF MinedNow, IntentRecs
    <3> QED BY <1>a, <2>1, <3>1, RecordSteps, WriteReplaced
  <2>2. CASE intent[i].stray /\ intent' = [intent EXCEPT ![i].stray = FALSE, ![i].execs = @ + 1]
    <3>1. intent' = [intent EXCEPT ![i] = MinedLate(intent[i])] BY <2>2 DEF MinedLate, IntentRecs
    <3> QED BY <1>a, <2>2, <3>1, RecordSteps, WriteReplaced
  <2> QED BY <1>7, <2>1, <2>2 DEF Mine
<1>8. ASSUME NEW i \in Intents, Revert(i) PROVE WritesInv'
  <2>1. intent' = [intent EXCEPT ![i] = Reverted(intent[i])] BY <1>8 DEF Revert, Reverted
  <2> QED BY <1>a, <1>8, <2>1, RecordSteps, WriteReplaced DEF Revert
<1>9. ASSUME NEW i \in Intents, NEW first \in BOOLEAN, Finish(i, first) PROVE WritesInv'
  <2>1. intent' = [intent EXCEPT ![i] = Staged(intent[i], "done")] BY <1>9 DEF Finish, Become, Staged
  <2> QED BY <1>a, <1>9, <2>1, RecordSteps, WriteReplaced DEF Finish, HasReceipt
<1> QED BY <1>1, <1>2, <1>3, <1>4, <1>5, <1>6, <1>7, <1>8, <1>9
     DEF ClientNext, ReadHit, ReadMiss, Tick, ForeignChange, NodeSync, Answer, Settle, ReadFails

\* The client's steps on its caches.
LEMMA ReadsSafe == ReadsInv /\ ClientNext => ReadsInv'
<1> USE ContractClientAssumptions
<1> SUFFICES ASSUME ReadsInv, ClientNext PROVE ReadsInv' OBVIOUS
<1> USE DEF ReadsInv
<1>1. CASE ReadHit BY <1>1 DEF ReadHit, chainVars, Current
<1>2. CASE ReadMiss
  <2>1. PICK id \in Promises :
          /\ fetches' = fetches \cup {[id |-> id, val |-> Unread, epoch |-> clears]} /\ pending' = id
    BY <1>2 DEF ReadMiss
  <2>2. [id |-> id, val |-> Unread, epoch |-> clears] \in ReadCalls BY DEF ReadCalls
  <2> QED BY <1>2, <2>1, <2>2 DEF ReadMiss, chainVars, Current
<1>3. CASE Tick
  <2>1. Age(entry) \in Entries /\ Age(entry).val = entry.val /\ Age(entry).late = entry.late
    BY DEF Age, Entries
  <2> QED BY <1>3, <2>1 DEF Tick, chainVars, Current
<1>4. CASE ForeignChange
  BY <1>4 DEF ForeignChange, readVars, Current, ReadCalls
<1>5. CASE NodeSync
  BY <1>5 DEF NodeSync, readVars, Current
<1>6. ASSUME NEW f \in fetches, Answer(f) PROVE ReadsInv'
  <2> DEFINE g == [f EXCEPT !.val = node]
  <2>1. g \in ReadCalls /\ g.val = node /\ g.epoch = f.epoch BY DEF ReadCalls
  <2>2. fetches' = (fetches \ {f}) \cup {g} BY <1>6 DEF Answer
  <2> HIDE DEF g
  <2>3. Current(f) OBVIOUS
  <2>4. Current(g) BY <2>1, <2>3 DEF Current
  <2> QED BY <1>6, <2>1, <2>2, <2>4 DEF Answer, chainVars, Current
<1>7. ASSUME NEW f \in fetches, Settle(f) PROVE ReadsInv'
  <2>1. f \in ReadCalls /\ Current(f) /\ f.val # Unread /\ (f.epoch < clears) \in BOOLEAN
    BY <1>7 DEF Settle
  <2>2. f.val \in Nat \cup {Unread} /\ f.epoch \in Nat /\ 0 \in 0 .. Ttl BY <2>1 DEF ReadCalls
  <2>3. entry' \in Entries /\ entry'.val = f.val /\ (f.epoch < clears => entry'.late)
    BY <1>7, <2>1, <2>2 DEF Settle, Entries
  <2>4. entry'.val < confirmed => entry'.late BY <2>1, <2>2, <2>3 DEF Current
  <2> QED BY <1>7, <2>3, <2>4 DEF Settle, chainVars, Current
<1>8. ASSUME NEW f \in fetches, ReadFails(f) PROVE ReadsInv'
  BY <1>8 DEF ReadFails, chainVars, Current
<1>9. ASSUME UNCHANGED <<watched, onChain, node, foreign, entry, pending, fetches, clears, confirmed>>
      PROVE  ReadsInv'
  BY <1>9 DEF Current
<1>10. ASSUME NEW i \in Intents, Mine(i) PROVE ReadsInv'
  <2>1. onChain' \in Nat /\ onChain' >= onChain BY <1>10 DEF Mine, Changed
  <2> QED BY <1>10, <2>1 DEF Mine, readVars, Current, ReadCalls
<1>11. ASSUME NEW i \in Intents, NEW first \in BOOLEAN, Finish(i, first) PROVE ReadsInv'
  <2>1. \A f \in fetches : f.val \in Nat \cup {Unread} /\ f.epoch \in Nat BY DEF ReadCalls
  <2>2. NoEntry \in Entries /\ NoEntry.val = Unread BY DEF NoEntry, Entries
  <2>3. CASE watched \in intent[i].op.clears
    <3>1. /\ entry' = NoEntry /\ pending' = 0 /\ clears' = clears + 1 /\ fetches' = fetches
          /\ UNCHANGED <<watched, onChain, foreign>>
      BY <1>11, <2>3 DEF Finish, Clear
    <3>2. node' \in Nat /\ confirmed' \in Nat /\ confirmed' <= node' /\ node' <= onChain
      BY <1>11, <2>3 DEF Finish
    <3>3. \A f \in fetches : Current(f)' BY <2>1, <3>1 DEF Current
    <3> QED BY <2>2, <3>1, <3>2, <3>3
  <2>4. CASE watched \notin intent[i].op.clears
    <3>1. UNCHANGED <<entry, pending, clears, fetches, watched, onChain, foreign, confirmed>>
      BY <1>11, <2>4 DEF Finish, Clear
    <3>2. node' \in Nat /\ confirmed <= node' /\ node' <= onChain
      BY <1>11 DEF Finish
    <3>3. \A f \in fetches : Current(f)' BY <2>1, <3>1 DEF Current
    <3> QED BY <3>1, <3>2, <3>3
  <2> QED BY <2>3, <2>4
<1> QED BY <1>1, <1>2, <1>3, <1>4, <1>5, <1>6, <1>7, <1>8, <1>9, <1>10, <1>11
     DEF ClientNext, AskWallet, Send, NetworkFails, WriteFails, Replay, Revert, KeepRest, chainVars, readVars

-----------------------------------------------------------------------------
(* The wallet session.                                                     *)

Accounts == Wallets \cup {None}
CheckRecs == [id : CheckIds, kind : {"auto", "connect"}, eco : Ecosystems, got : Accounts \cup {"pending"}]

WalletTypes ==
    /\ ecosystem \in Ecosystems /\ exposed \in [Ecosystems -> Accounts]
    /\ account \in Accounts /\ signer \in Accounts /\ activeAccount \in Accounts /\ lastAccount \in Accounts
    /\ checks \subseteq CheckRecs /\ \A c, d \in checks : c.id = d.id => c = d
    /\ attempts \in 0 .. MaxAttempts /\ suppressed \in BOOLEAN /\ timer \in Ecosystems \cup {None}

(* While no check overlapped another or a switch and none failed, checks   *)
(* are of the ecosystem in use and have read what the wallet still         *)
(* exposes; an account without a check in flight is the wallet's.          *)
FollowsWallet ==
    /\ \A c \in checks : c.eco = ecosystem /\ (c.got # "pending" => c.got = exposed[c.eco])
    /\ ecosystem = "avalanche" /\ account # None => exposed["avalanche"] # None
    /\ checks = {} /\ ecosystem = "avalanche" /\ account # None
         => account = exposed["avalanche"] /\ signer = account

WalletInv ==
    /\ WalletTypes
    /\ suppressed \/ timer # None => faulted
    /\ ~raced /\ ~faulted => FollowsWallet

\* Two checks at most: their identities differ.
LEMMA TwoChecks == WalletTypes => IsFiniteSet(checks) /\ Cardinality(checks) <= 2
<1> SUFFICES ASSUME WalletTypes PROVE IsFiniteSet(checks) /\ Cardinality(checks) <= 2 OBVIOUS
<1> DEFINE f == [c \in checks |-> c.id]
<1>1. IsFiniteSet(CheckIds) /\ Cardinality(CheckIds) = 2
  <2>1. IsFiniteSet({1}) /\ Cardinality({1}) = 1 BY FS_Singleton
  <2>2. IsFiniteSet({1} \cup {2}) /\ Cardinality({1} \cup {2}) = Cardinality({1}) + 1
    BY <2>1, FS_AddElement
  <2>3. CheckIds = {1} \cup {2} BY DEF CheckIds
  <2> QED BY <2>1, <2>2, <2>3
<1>2. f \in Injection(checks, CheckIds)
  BY DEF WalletTypes, CheckRecs, Injection, IsInjective
<1> QED BY <1>1, <1>2, FS_Injection

\* Starting a check adds one of that ecosystem that has read nothing, or finds two.
LEMMA StartAdds ==
    ASSUME WalletTypes, NEW kind \in {"auto", "connect"}, NEW eco \in Ecosystems, Start(kind, eco, checks)
    PROVE  /\ checks' \subseteq CheckRecs /\ \A c, d \in checks' : c.id = d.id => c = d
           /\ checks' # {} /\ checks \subseteq checks'
           /\ \A c \in checks' \ checks : c.eco = eco /\ c.got = "pending"
<1>1. CASE Check(kind, eco) = {}
  <2>1. checks' = checks BY <1>1 DEF Start
  <2>2. checks # {}
    <3>1. SUFFICES ASSUME checks = {} PROVE FALSE OBVIOUS
    <3>2. [id |-> 1, kind |-> kind, eco |-> eco, got |-> "pending"] \in Check(kind, eco)
      BY <3>1 DEF Check, CheckIds
    <3> QED BY <1>1, <3>2
  <2> QED BY <2>1, <2>2 DEF WalletTypes
<1>2. CASE Check(kind, eco) # {}
  <2>1. \A c \in Check(kind, eco) : /\ c \in CheckRecs /\ c.eco = eco /\ c.got = "pending"
                                    /\ \A d \in checks : d.id # c.id
    BY DEF Check, CheckRecs
  <2>2. \E c \in Check(kind, eco) : \A d \in Check(kind, eco) : c.id <= d.id
    <3>1. \A c \in Check(kind, eco) : c.id \in {1, 2} BY <2>1 DEF CheckRecs, CheckIds
    <3>2. CASE \E c \in Check(kind, eco) : c.id = 1 BY <3>1, <3>2
    <3>3. CASE \A c \in Check(kind, eco) : c.id = 2 BY <1>2, <3>3
    <3> QED BY <3>1, <3>2, <3>3
  <2>3. PICK c \in Check(kind, eco) : checks' = checks \cup {c}
    BY <1>2, <2>2 DEF Start
  <2> QED BY <2>1, <2>3 DEF WalletTypes
<1> QED BY <1>1, <1>2

\* Initially one check of the Avalanche wallet is on its way.
LEMMA WalletInitial == WalletInit => WalletInv
<1> USE WalletSessionAssumptions
<1> SUFFICES ASSUME WalletInit PROVE WalletInv OBVIOUS
<1>1. [id |-> 1, kind |-> "auto", eco |-> "avalanche", got |-> "pending"] \in CheckRecs
  BY DEF CheckRecs, CheckIds, Ecosystems
<1>2. WalletTypes
  <2>1. suppressed \in BOOLEAN BY Zenon DEF WalletInit
  <2>2. checks \subseteq CheckRecs /\ \A c, d \in checks : c.id = d.id => c = d BY <1>1 DEF WalletInit
  <2>3. 0 \in 0 .. MaxAttempts OBVIOUS
  <2> QED BY <2>1, <2>2, <2>3 DEF WalletInit, WalletTypes, Accounts, Ecosystems
<1>3. FollowsWallet
  BY DEF WalletInit, FollowsWallet
<1> QED BY <1>2, <1>3 DEF WalletInit, WalletInv

\* The user, the wallets, the checks and the watcher keep the invariant.
LEMMA WalletSafe == WalletInv /\ WalletNext => WalletInv'
<1> USE WalletSessionAssumptions
<1> SUFFICES ASSUME WalletInv, WalletNext PROVE WalletInv' OBVIOUS
<1>a. WalletTypes /\ (suppressed \/ timer # None => faulted) /\ (~raced /\ ~faulted => FollowsWallet)
  BY DEF WalletInv
<1>b. None \in Accounts /\ "avalanche" \in Ecosystems /\ "stellar" \in Ecosystems /\ "avalanche" # None
      /\ "stellar" # None
  BY DEF Accounts, Ecosystems, None
<1>c. ASSUME NEW eco \in Ecosystems, AttemptAutoConnect(eco, suppressed, checks)
      PROVE  /\ checks' \subseteq CheckRecs /\ \A c, d \in checks' : c.id = d.id => c = d
             /\ timer' \in Ecosystems \cup {None} /\ (timer' # None => timer # None)
             /\ checks \subseteq checks'
             /\ ~suppressed => checks' # {}
             /\ \A c \in checks' \ checks : c.eco = eco /\ c.got = "pending"
  <2>1. CASE suppressed BY <1>a, <1>c, <2>1 DEF AttemptAutoConnect, WalletTypes
  <2>2. CASE ~suppressed
    <3>1. timer' = None /\ Start("auto", eco, checks) BY <1>c, <2>2 DEF AttemptAutoConnect
    <3> QED BY <1>a, <3>1, StartAdds
  <2> QED BY <2>1, <2>2
<1>1. ASSUME NEW e \in Ecosystems, NEW w \in Wallets \cup {None}, SwitchAccount(e, w) PROVE WalletInv'
  <2>1. exposed' = [exposed EXCEPT ![e] = w] /\ exposed' \in [Ecosystems -> Accounts]
    BY <1>1, <1>a DEF SwitchAccount, WalletTypes, Accounts
  <2>2. UNCHANGED <<ecosystem, activeAccount, lastAccount, attempts, suppressed, faulted>>
    BY <1>1 DEF SwitchAccount
  <2>3. raced' = (raced \/ checks # {}) BY <1>1 DEF SwitchAccount
  <2>4. CASE e = "avalanche" /\ ecosystem = "avalanche" /\ w = None
    <3>1. account' = None /\ signer' = None /\ checks' = checks /\ timer' = timer
      BY <1>1, <2>4 DEF SwitchAccount, Dropped
    <3>2. WalletTypes' BY <1>a, <1>b, <2>1, <2>2, <3>1 DEF WalletTypes
    <3>3. ASSUME ~raced', ~faulted' PROVE FollowsWallet'
      BY <1>a, <2>1, <2>2, <2>3, <3>1, <3>3 DEF FollowsWallet
    <3> QED BY <1>a, <2>2, <3>1, <3>2, <3>3 DEF WalletInv
  <2>5. CASE e = "avalanche" /\ ecosystem = "avalanche" /\ w # None
    <3>1. UNCHANGED <<account, signer>> /\ AttemptAutoConnect("avalanche", suppressed, checks)
      BY <1>1, <2>5 DEF SwitchAccount
    <3>2. WalletTypes' BY <1>a, <1>b, <1>c, <2>1, <2>2, <3>1 DEF WalletTypes
    <3>3. ASSUME ~raced', ~faulted' PROVE FollowsWallet'
      <4>1. checks = {} /\ ~suppressed /\ ~raced /\ ~faulted BY <1>a, <2>2, <2>3, <3>3
      <4>2. checks' # {} /\ \A c \in checks' : c.eco = "avalanche" /\ c.got = "pending"
        BY <1>b, <1>c, <3>1, <4>1
      <4>3. exposed'["avalanche"] # None BY <1>a, <1>b, <2>1, <2>5 DEF WalletTypes
      <4> QED BY <2>2, <2>5, <4>2, <4>3 DEF FollowsWallet
    <3> QED BY <1>a, <1>b, <1>c, <2>2, <3>1, <3>2, <3>3 DEF WalletInv
  <2>6. CASE ~(e = "avalanche" /\ ecosystem = "avalanche")
    <3>1. UNCHANGED <<account, signer, checks, timer>> BY <1>1, <2>6 DEF SwitchAccount
    <3>2. WalletTypes' BY <1>a, <1>b, <2>1, <2>2, <3>1 DEF WalletTypes
    <3>3. ASSUME ~raced', ~faulted' PROVE FollowsWallet'
      <4>1. checks = {} /\ ~raced /\ ~faulted BY <2>2, <2>3, <3>3
      <4>2. ecosystem = "avalanche" => exposed'["avalanche"] = exposed["avalanche"]
        BY <1>a, <1>b, <2>1, <2>6 DEF WalletTypes
      <4> QED BY <1>a, <2>2, <3>1, <4>1, <4>2 DEF FollowsWallet
    <3> QED BY <1>a, <2>2, <3>1, <3>2, <3>3 DEF WalletInv
  <2> QED BY <2>4, <2>5, <2>6
<1>2. ASSUME NEW c \in checks, CheckReads(c) PROVE WalletInv'
  <2> DEFINE d == [c EXCEPT !.got = exposed[c.eco]]
  <2>1. checks' = (checks \ {c}) \cup {d} BY <1>2 DEF CheckReads
  <2>2. c \in CheckRecs BY <1>a DEF WalletTypes
  <2>3. d \in CheckRecs /\ d.id = c.id /\ d.eco = c.eco /\ d.got = exposed[c.eco]
    BY <1>a, <2>2 DEF CheckRecs, WalletTypes
  <2>4. UNCHANGED <<ecosystem, exposed, account, signer, activeAccount, lastAccount, attempts, suppressed,
                    timer, raced, faulted>>
    BY <1>2 DEF CheckReads, session, guard
  <2> HIDE DEF d
  <2>5. checks' \subseteq CheckRecs /\ \A x, y \in checks' : x.id = y.id => x = y
    BY <1>a, <2>1, <2>3 DEF WalletTypes
  <2>6. WalletTypes' BY <1>a, <2>4, <2>5 DEF WalletTypes
  <2>7. ASSUME ~raced', ~faulted' PROVE FollowsWallet'
    BY <1>a, <2>1, <2>3, <2>4, <2>7 DEF FollowsWallet
  <2> QED BY <1>a, <2>4, <2>6, <2>7 DEF WalletInv
<1>3. ASSUME NEW c \in checks, CheckEnds(c) PROVE WalletInv'
  <2>1. c \in CheckRecs /\ c.got # "pending" BY <1>a, <1>3 DEF WalletTypes, CheckEnds
  <2>2. c.got \in Accounts /\ exposed["avalanche"] \in Accounts
    BY <1>a, <1>b, <2>1 DEF CheckRecs, WalletTypes
  <2>3. /\ UNCHANGED <<ecosystem, exposed, lastAccount, suppressed, timer, faulted>>
        /\ checks' = checks \ {c}
        /\ account' = (IF c.got = None THEN account ELSE c.got)
        /\ signer' = (IF c.eco = "avalanche" /\ c.got # None THEN exposed["avalanche"] ELSE signer)
        /\ activeAccount' = (IF c.eco = "stellar" THEN c.got ELSE activeAccount)
        /\ attempts' = (IF c.kind = "auto" THEN 0 ELSE attempts)
    BY <1>3 DEF CheckEnds
  <2>4. attempts' \in 0 .. MaxAttempts BY <1>a, <2>3 DEF WalletTypes
  <2>5. WalletTypes' BY <1>a, <2>2, <2>3, <2>4 DEF WalletTypes
  <2>6. ASSUME ~raced', ~faulted' PROVE FollowsWallet'
    <3>a. raced' = (raced \/ checks \ {c} # {}) BY <1>3 DEF CheckEnds
    <3>b. ~raced /\ checks \ {c} = {} BY <2>6, <3>a, Zenon
    <3>1. ~raced /\ ~faulted /\ checks \ {c} = {} BY <2>3, <2>6, <3>b
    <3>2. FollowsWallet /\ c.eco = ecosystem /\ c.got = exposed[ecosystem]
      BY <1>a, <2>1, <3>1 DEF FollowsWallet
    <3> QED BY <2>3, <3>1, <3>2 DEF FollowsWallet
  <2> QED BY <1>a, <2>3, <2>5, <2>6 DEF WalletInv
<1>4. ASSUME NEW c \in checks, NEW refused \in BOOLEAN, CheckFails(c, refused) PROVE WalletInv'
  <2>1. /\ UNCHANGED <<ecosystem, exposed, account, signer, activeAccount, lastAccount>>
        /\ checks' = checks \ {c} /\ faulted'
    BY <1>4 DEF CheckFails, session
  <2>2. suppressed' \in BOOLEAN BY <1>4, Zenon DEF CheckFails
  <2>3. c.eco \in Ecosystems BY <1>a DEF WalletTypes, CheckRecs
  <2>4. attempts' \in 0 .. MaxAttempts /\ timer' \in Ecosystems \cup {None}
    BY <1>4, <1>a, <2>3 DEF CheckFails, WalletTypes, Failures
  <2>5. WalletTypes' BY <1>a, <2>1, <2>2, <2>4 DEF WalletTypes
  <2> QED BY <2>1, <2>5 DEF WalletInv
<1>5. CASE ChainChanged
  <2>1. /\ UNCHANGED <<ecosystem, exposed, account, signer, activeAccount, lastAccount, attempts, suppressed,
                       raced, faulted>>
        /\ ecosystem = "avalanche" /\ AttemptAutoConnect("avalanche", suppressed, checks)
    BY <1>5 DEF ChainChanged, session
  <2>2. WalletTypes' BY <1>a, <1>b, <1>c, <2>1 DEF WalletTypes
  <2>3. ASSUME ~raced', ~faulted' PROVE FollowsWallet'
    <3>1. ~suppressed /\ FollowsWallet BY <1>a, <2>1, <2>3
    <3> QED BY <1>b, <1>c, <2>1, <3>1 DEF FollowsWallet
  <2> QED BY <1>a, <1>b, <1>c, <2>1, <2>2, <2>3 DEF WalletInv
<1>6. CASE TimerFires
  <2>1. /\ UNCHANGED <<ecosystem, exposed, account, signer, activeAccount, lastAccount, attempts, suppressed,
                       raced, faulted>>
        /\ timer # None /\ timer' = None
        /\ checks' = checks \/ Start("auto", timer, checks)
    BY <1>6 DEF TimerFires, session
  <2>2. timer \in Ecosystems BY <1>a, <2>1 DEF WalletTypes
  <2>3. checks' \subseteq CheckRecs /\ \A c, d \in checks' : c.id = d.id => c = d
    BY <1>a, <2>1, <2>2, StartAdds DEF WalletTypes
  <2>4. WalletTypes' BY <1>a, <2>1, <2>3 DEF WalletTypes
  <2> QED BY <1>a, <2>1, <2>4 DEF WalletInv
<1>7. CASE Connect
  <2>1. /\ UNCHANGED <<ecosystem, exposed, account, signer, activeAccount, lastAccount, raced, faulted>>
        /\ attempts' = 0 /\ suppressed' = FALSE /\ timer' = None /\ Start("connect", ecosystem, checks)
    BY <1>7 DEF Connect, session
  <2>2. ecosystem \in Ecosystems BY <1>a DEF WalletTypes
  <2>3. /\ checks' \subseteq CheckRecs /\ \A c, d \in checks' : c.id = d.id => c = d
        /\ checks' # {} /\ \A c \in checks' \ checks : c.eco = ecosystem /\ c.got = "pending"
    BY <1>a, <2>1, <2>2, StartAdds
  <2>a. suppressed' \in BOOLEAN BY <2>1, Zenon
  <2>4. suppressed' \in BOOLEAN /\ 0 \in 0 .. MaxAttempts BY <2>a
  <2>5. WalletTypes' BY <1>a, <2>1, <2>3, <2>4 DEF WalletTypes
  <2>6. ASSUME ~raced', ~faulted' PROVE FollowsWallet'
    <3>1. FollowsWallet BY <1>a, <2>1, <2>6
    <3> QED BY <2>1, <2>3, <3>1 DEF FollowsWallet
  <2> QED BY <2>1, <2>5, <2>6 DEF WalletInv
<1>8. CASE Disconnect
  <2>1. /\ UNCHANGED <<ecosystem, exposed, lastAccount, checks, attempts, suppressed, timer, raced, faulted>>
        /\ account' = None /\ signer' = None /\ activeAccount' \in {None, activeAccount}
    BY <1>8 DEF Disconnect, guard
  <2>2. WalletTypes' BY <1>a, <1>b, <2>1 DEF WalletTypes
  <2>3. ASSUME ~raced', ~faulted' PROVE FollowsWallet'
    BY <1>a, <2>1, <2>3 DEF FollowsWallet
  <2> QED BY <1>a, <2>1, <2>2, <2>3 DEF WalletInv
<1>9. CASE PollTick
  <2>1. /\ UNCHANGED <<ecosystem, exposed, signer, checks, attempts, suppressed, timer, raced, faulted>>
        /\ ecosystem = "stellar" /\ account' = exposed["stellar"] /\ activeAccount' = exposed["stellar"]
        /\ lastAccount' = exposed["stellar"]
    BY <1>9 DEF PollTick, guard
  <2>2. WalletTypes' BY <1>a, <1>b, <2>1 DEF WalletTypes
  <2>3. ASSUME ~raced', ~faulted' PROVE FollowsWallet'
    BY <1>a, <2>1, <2>3 DEF FollowsWallet
  <2> QED BY <1>a, <2>1, <2>2, <2>3 DEF WalletInv
<1>10. ASSUME NEW e \in Ecosystems, SetEcosystem(e) PROVE WalletInv'
  <2>1. /\ UNCHANGED <<exposed, faulted>> /\ ecosystem' = e /\ attempts' = 0 /\ suppressed' = FALSE
        /\ timer' = None /\ account' = None /\ signer' = None
        /\ activeAccount' \in {None, activeAccount} /\ lastAccount' \in {None, activeAccount}
        /\ Start("auto", e, checks)
    BY <1>10 DEF SetEcosystem
  <2>2. /\ checks' \subseteq CheckRecs /\ \A c, d \in checks' : c.id = d.id => c = d
        /\ checks' # {} /\ \A c \in checks' \ checks : c.eco = e /\ c.got = "pending"
    BY <1>a, <2>1, StartAdds
  <2>a. suppressed' \in BOOLEAN BY <2>1, Zenon
  <2>3. suppressed' \in BOOLEAN /\ 0 \in 0 .. MaxAttempts BY <2>a
  <2>4. WalletTypes' BY <1>a, <1>b, <2>1, <2>2, <2>3 DEF WalletTypes
  <2>5. ASSUME ~raced', ~faulted' PROVE FollowsWallet'
    <3>1. checks = {} BY <1>10, <2>5 DEF SetEcosystem
    <3> QED BY <2>1, <2>2, <3>1 DEF FollowsWallet
  <2> QED BY <2>1, <2>4, <2>5 DEF WalletInv
<1> QED BY <1>1, <1>2, <1>3, <1>4, <1>5, <1>6, <1>7, <1>8, <1>9, <1>10 DEF WalletNext

-----------------------------------------------------------------------------
(* The event indexer and the watcher.                                      *)

\* Every nonempty set of naturals has a least element.
LEMMA NatMin == ASSUME NEW T \in SUBSET Nat, T # {} PROVE \E x \in T : \A y \in T : x <= y
<1> DEFINE R == OpToRel(<, Nat)
<1>1. \E x \in T : \A y \in T : ~(<<y, x>> \in R)
  BY NatLessThanWellFounded, WFMin, Zenon
<1>2. \A x, y \in Nat : x < y => <<x, y>> \in R
  BY Zenon DEF OpToRel
<1> HIDE DEF R
<1>3. PICK x \in T : \A y \in T : ~(<<y, x>> \in R) BY <1>1
<1>4. \A y \in T : ~(y < x) BY <1>2, <1>3, Zenon
<1>5. \A y \in T : x <= y BY <1>4
<1> QED BY <1>5

\* Min is the least element of a set of naturals.
LEMMA MinIs ==
    ASSUME NEW S \in SUBSET Nat, S # {} PROVE Min(S) \in S /\ \A y \in S : Min(S) <= y
BY NatMin DEF Min

\* Max is the greatest element of a bounded set of naturals.
LEMMA MaxIs ==
    ASSUME NEW n \in Nat, NEW S \in SUBSET Nat, S # {}, \A y \in S : y <= n
    PROVE  Max(S) \in S /\ \A y \in S : y <= Max(S)
<1> DEFINE U == {u \in Nat : \A y \in S : y <= u}
<1>1. PICK u \in U : \A v \in U : u <= v
  <2>1. n \in U /\ U \in SUBSET Nat OBVIOUS
  <2> HIDE DEF U
  <2> QED BY <2>1, NatMin
<1>2. u \in S
  <2> SUFFICES ASSUME u \notin S PROVE FALSE OBVIOUS
  <2>1. \A y \in S : y < u BY <1>1
  <2>2. u > 0
    <3>1. PICK y \in S : TRUE OBVIOUS
    <3> QED BY <2>1, <3>1
  <2>3. u - 1 \in U BY <2>1, <2>2
  <2> QED BY <1>1, <2>3
<1>3. \E x \in S : \A y \in S : x >= y BY <1>1, <1>2
<1> QED BY <1>3 DEF Max

Known == {i \in 1 .. Len(ledgers) : ledgers[i] = "known"}
LoopRecs == [id : Nat, at : {"timer", "fetch", "put"}, from : Nat, rest : SUBSET Nat]
WatchRecs == [id : Nat, at : {"poll", "answer"}, from : Nat]

\* An answer holds every event between its cursor and each of its events.
LEMMA EventsHaveNoGap ==
    ASSUME NEW from \in Nat, ledgers \in Seq(Kinds), BatchSize \in Nat,
           NEW m \in Events(from), NEW i \in Following(from), i <= m
    PROVE  i \in Events(from)
<1> DEFINE Before(k) == {j \in Following(from) : j < k}
<1>1. Following(from) \subseteq 1 .. Len(ledgers) /\ Len(ledgers) \in Nat BY DEF Following
<1>2. \A k \in Nat : IsFiniteSet(Before(k)) /\ Cardinality(Before(k)) \in Nat
  <2> TAKE k \in Nat
  <2>1. Before(k) \in SUBSET Nat /\ \A j \in Before(k) : j <= Len(ledgers) BY <1>1
  <2>2. IsFiniteSet(Before(k)) BY <1>1, <2>1, FS_BoundedSetOfNaturals
  <2> QED BY <2>2, FS_CardinalityType
<1>3. m \in Nat /\ i \in Nat BY <1>1 DEF Events
<1>4. Before(i) \in SUBSET Before(m) BY <1>1, <1>3
<1>5. Cardinality(Before(i)) <= Cardinality(Before(m)) BY <1>2, <1>3, <1>4, FS_Subset
<1>6. Cardinality(Before(m)) < BatchSize BY DEF Events
<1>7. Cardinality(Before(i)) < BatchSize
  <2> HIDE DEF Before
  <2>1. Cardinality(Before(i)) \in Nat /\ Cardinality(Before(m)) \in Nat BY <1>2, <1>3
  <2> QED BY <1>5, <1>6, <2>1
<1> QED BY <1>7 DEF Events

\* The answers are ledgers after the cursor, and a parsed one leaves out no known event.
LEMMA ParsedHasNoGap ==
    ASSUME NEW from \in Nat, ledgers \in Seq(Kinds), BatchSize \in Nat
    PROVE  /\ Parsed(Events(from)) \subseteq Known
           /\ \A m \in Parsed(Events(from)), i \in Known : from < i /\ i <= m => i \in Parsed(Events(from))
<1>1. Parsed(Events(from)) \subseteq Known BY DEF Parsed, Events, Following, Known
<1>2. ASSUME NEW m \in Parsed(Events(from)), NEW i \in Known, from < i, i <= m
      PROVE  i \in Parsed(Events(from))
  <2>1. i \in Following(from) BY <1>2 DEF Following, Known
  <2>2. i \in Events(from) BY <1>2, <2>1, EventsHaveNoGap DEF Parsed
  <2> QED BY <2>2 DEF Parsed, Known
<1> QED BY <1>1, <1>2

CursorsFit ==
    /\ ledgers \in Seq(Kinds) /\ starts \in Nat /\ gate \in Nat
    /\ cursor \in 0 .. Len(ledgers) /\ saved \in 0 .. Len(ledgers) /\ stored \subseteq Known

WireFits == wire \in Seq(Nat) /\ Len(wire) <= MaxWire /\ \A k \in 1 .. Len(wire) : wire[k] \in Known

LoopsFit ==
    /\ loops \subseteq LoopRecs
    /\ \A l \in loops : /\ l.id <= starts /\ l.from <= Len(ledgers)
                        /\ l.at = "put" => l.rest # {} /\ l.rest \subseteq Known

IndexTypes == CursorsFit /\ WireFits /\ LoopsFit

\* Known events up to n are stored or will be by the batch that a loop writes.
Covered(n) ==
    \A i \in Known : i <= n => i \in stored \/ \E l \in loops : l.at = "put" /\ i \in l.rest

(* Unless an event overtook the polls, one loop polls: what lies before    *)
(* the persisted cursor, or before the cursor it asked with, is stored,    *)
(* and what lies before the cursor in memory is stored or in its batch.    *)
IndexOrder ==
    /\ \A l, m \in loops : l = m
    /\ \A i \in Known : i <= saved => i \in stored
    /\ Covered(cursor)
    /\ \A l \in loops : l.at = "fetch" => \A i \in Known : i <= l.from => i \in stored
    /\ \A l \in loops : l.at = "put" => \A m \in l.rest : Covered(m)

WatchTypes ==
    /\ told \in [running : BOOLEAN, cursor : Nat, loops : SUBSET WatchRecs, seen : SUBSET Nat, first : Nat]
    /\ told.cursor <= Len(ledgers) /\ (told.first = 0 <=> told.cursor = 0)

(* Unless two loops were alive, the watcher asks with its cursor and has   *)
(* dispatched every event from its first one to the cursor.                *)
WatchOrder ==
    /\ \A l, m \in told.loops : l = m
    /\ \A l \in told.loops : l.at = "answer" /\ told.cursor # 0 => l.from = told.cursor
    /\ told.first # 0 => \A i \in told.first .. told.cursor : ledgers[i] # "none" => i \in told.seen

IndexInv == IndexTypes /\ (~ahead => IndexOrder) /\ WatchTypes /\ (~ahead => WatchOrder)

\* Initially there is no ledger and no loop.
LEMMA IndexInitial == IndexInit => IndexInv
<1> USE IndexConstants
<1> SUFFICES ASSUME IndexInit PROVE IndexInv OBVIOUS
<1>1. ledgers = <<>> /\ wire = <<>> /\ Len(ledgers) = 0 /\ Len(wire) = 0 /\ Known = {}
  BY DEF IndexInit, Known
<1>2. IndexTypes BY <1>1 DEF IndexInit, IndexTypes, CursorsFit, WireFits, LoopsFit
<1>3. IndexOrder BY <1>1 DEF IndexInit, IndexOrder, Covered
<1>4. told = Quiet BY DEF IndexInit
<1>5. told.running = FALSE /\ told.cursor = 0 /\ told.loops = {} /\ told.seen = {} /\ told.first = 0
  BY <1>4 DEF Quiet
<1>6. told \in [running : BOOLEAN, cursor : Nat, loops : SUBSET WatchRecs, seen : SUBSET Nat, first : Nat]
  <2>1. 0 \in Nat OBVIOUS
  <2> QED BY <1>4, <2>1, Zenon DEF Quiet
<1>7. WatchTypes BY <1>1, <1>5, <1>6 DEF WatchTypes
<1>8. WatchOrder BY <1>5 DEF WatchOrder
<1> QED BY <1>2, <1>3, <1>7, <1>8 DEF IndexInv

\* A ledger that closes lies after every cursor.
LEMMA CloseKeeps ==
    ASSUME IndexInv, NEW k \in Kinds, NEW max, Close(k, max) PROVE IndexInv'
<1>1. /\ ledgers \in Seq(Kinds) /\ ledgers' = Append(ledgers, k)
      /\ UNCHANGED <<cursor, saved, stored, loops, starts, gate, wire, ahead, told>>
  BY DEF Close, IndexInv, IndexTypes, CursorsFit, WireFits, LoopsFit
<1>2. /\ ledgers' \in Seq(Kinds) /\ Len(ledgers') = Len(ledgers) + 1 /\ Len(ledgers) \in Nat
      /\ \A i \in 1 .. Len(ledgers) : ledgers'[i] = ledgers[i]
  BY <1>1
<1>3. Known \subseteq Known' /\ \A i \in Known' : i \in Nat /\ (i <= Len(ledgers) => i \in Known)
  BY <1>2 DEF Known
<1>4. /\ cursor \in Nat /\ cursor <= Len(ledgers) /\ saved \in Nat /\ saved <= Len(ledgers)
      /\ \A l \in loops : l.from \in Nat /\ l.from <= Len(ledgers)
      /\ \A l \in loops : l.at = "put" => \A m \in l.rest : m \in Nat /\ m <= Len(ledgers)
  BY <1>2 DEF IndexInv, IndexTypes, CursorsFit, WireFits, LoopsFit, LoopRecs, Known
<1>5. IndexTypes'
  BY <1>1, <1>2, <1>3, <1>4 DEF IndexInv, IndexTypes, CursorsFit, WireFits, LoopsFit
<1>6. ASSUME NEW n \in Nat, n <= Len(ledgers), Covered(n) PROVE Covered(n)'
  BY <1>1, <1>2, <1>3, <1>6 DEF Covered
<1>7. ASSUME IndexOrder PROVE IndexOrder'
  <2>1. \A i \in Known' : i <= saved => i \in stored BY <1>2, <1>3, <1>4, <1>7 DEF IndexOrder
  <2>2. Covered(cursor)' BY <1>1, <1>4, <1>6, <1>7 DEF IndexOrder
  <2>3. \A l \in loops : l.at = "fetch" => \A i \in Known' : i <= l.from => i \in stored
    BY <1>2, <1>3, <1>4, <1>7 DEF IndexOrder
  <2>4. \A l \in loops : l.at = "put" => \A m \in l.rest : Covered(m)'
    BY <1>4, <1>6, <1>7 DEF IndexOrder
  <2> QED BY <1>1, <1>7, <2>1, <2>2, <2>3, <2>4 DEF IndexOrder
<1>8. WatchTypes' BY <1>1, <1>2 DEF IndexInv, WatchTypes
<1>9. ASSUME WatchOrder PROVE WatchOrder'
  <2>1. told.first \in Nat /\ told.cursor \in Nat /\ told.cursor <= Len(ledgers) BY DEF IndexInv, WatchTypes
  <2>2. told.first # 0 => \A i \in told.first .. told.cursor : ledgers'[i] = ledgers[i] BY <1>2, <2>1
  <2> QED BY <1>1, <1>9, <2>2 DEF WatchOrder
<1> QED BY <1>1, <1>5, <1>7, <1>8, <1>9 DEF IndexInv

\* What the indexer does leaves the watcher's part alone.
LEMMA WatchKept ==
    ASSUME IndexInv, UNCHANGED <<ledgers, told>>, ahead => ahead'
    PROVE  WatchTypes' /\ (~ahead' => WatchOrder')
BY DEF IndexInv, WatchTypes, WatchOrder

\* What the watcher does leaves the indexer's part alone.
LEMMA IndexKept ==
    ASSUME IndexInv, UNCHANGED <<ledgers, cursor, saved, stored, loops, gate, wire>>, ahead => ahead',
           starts' \in Nat, starts' >= starts
    PROVE  IndexTypes' /\ (~ahead' => IndexOrder')
<1>1. Known' = Known BY DEF Known
<1>2. IndexTypes'
  <2>1. starts \in Nat /\ \A l \in loops : l.id \in Nat BY DEF IndexInv, IndexTypes, CursorsFit, WireFits, LoopsFit, LoopRecs
  <2> QED BY <1>1, <2>1 DEF IndexInv, IndexTypes, CursorsFit, WireFits, LoopsFit
<1>3. ASSUME IndexOrder PROVE IndexOrder'
  BY <1>1, <1>3 DEF IndexOrder, Covered
<1> QED BY <1>2, <1>3 DEF IndexInv

\* A loop that ends leaves the others and, while the indexer runs, its timer.
LEMMA LoopEnded ==
    ASSUME IndexInv, NEW l \in loops, Ends(l) \/ Stopped(loops \ {l})
    PROVE  /\ loops' \subseteq LoopRecs
           /\ \A m \in loops' : m \in loops \/ (m.at = "timer" /\ m.id = l.id /\ m.from = 0)
           /\ (\A a, b \in loops : a = b) => /\ \A a, b \in loops' : a = b
                                             /\ \A m \in loops' : m.at = "timer"
<1> DEFINE t == [l EXCEPT !.at = "timer", !.from = 0, !.rest = {}]
<1>1. l \in LoopRecs /\ loops \subseteq LoopRecs BY DEF IndexInv, IndexTypes, CursorsFit, WireFits, LoopsFit
<1>2. t \in LoopRecs /\ t.at = "timer" /\ t.id = l.id /\ t.from = 0 BY <1>1 DEF LoopRecs
<1>3. loops' = (loops \ {l}) \cup {t} \/ loops' = loops \ {l}
      \/ loops' = {m \in loops \ {l} : m.at # "timer"}
  BY DEF Ends, Becomes, Stopped
<1> HIDE DEF t
<1> QED BY <1>1, <1>2, <1>3

\* Loops and wires keep to the ledgers when loops end and sockets close.
LEMMA EndFits ==
    ASSUME IndexInv, UNCHANGED <<ledgers, starts>>, NEW l \in loops, Ends(l) \/ Stopped(loops \ {l}),
           UNCHANGED wire \/ wire' = <<>>
    PROVE  WireFits' /\ LoopsFit'
<1>1. Known' = Known BY DEF Known
<1>2. l \in LoopRecs /\ l.id <= starts /\ Len(ledgers) \in Nat BY DEF IndexInv, IndexTypes, LoopsFit, CursorsFit
<1>3. LoopsFit'
  <2>1. loops' \subseteq LoopRecs
        /\ \A m \in loops' : m \in loops \/ (m.at = "timer" /\ m.id = l.id /\ m.from = 0)
    BY LoopEnded
  <2>2. \A m \in loops : /\ m.id <= starts /\ m.from <= Len(ledgers)
                         /\ m.at = "put" => m.rest # {} /\ m.rest \subseteq Known
    BY DEF IndexInv, IndexTypes, LoopsFit
  <2>3. \A m \in loops' : /\ m.id <= starts /\ m.from <= Len(ledgers)
                          /\ m.at = "put" => m.rest # {} /\ m.rest \subseteq Known
    BY <1>2, <2>1, <2>2
  <2> QED BY <1>1, <2>1, <2>3 DEF LoopsFit
<1>4. CASE UNCHANGED wire BY <1>1, <1>3, <1>4 DEF IndexInv, IndexTypes, WireFits
<1>5. CASE wire' = <<>>
  <2>1. wire' \in Seq(Nat) /\ Len(wire') = 0 /\ MaxWire \in Nat BY <1>5, IndexConstants
  <2> QED BY <1>3, <2>1 DEF WireFits
<1> QED BY <1>4, <1>5

\* Starting, stopping, reloading and polling.
LEMMA ControlSafe ==
    ASSUME IndexInv, \/ StartIndexer \/ Stop \/ CursorLoaded \/ Reload
                     \/ \E l \in loops : Poll(l)
    PROVE  IndexInv'
<1>a. IndexTypes /\ (~ahead => IndexOrder) BY DEF IndexInv
<1>b. Len(ledgers) \in Nat /\ cursor \in Nat /\ starts \in Nat BY <1>a DEF IndexTypes, CursorsFit, WireFits, LoopsFit
<1>c. UNCHANGED ledgers => Known' = Known BY DEF Known
<1>1. CASE StartIndexer
  <2> DEFINE s == [id |-> starts + 1, at |-> "fetch", from |-> cursor, rest |-> {}]
  <2>1. /\ UNCHANGED <<ledgers, cursor, saved, stored, gate, told>> /\ wire' = <<>> /\ starts' = starts + 1
        /\ loops' = {l \in loops : l.at # "timer"} \cup {s}
        /\ ahead' = (ahead \/ \E l \in loops : l.at # "timer")
    BY <1>1 DEF StartIndexer
  <2>2. s \in LoopRecs /\ s.id = starts + 1 /\ s.from = cursor /\ s.at = "fetch" BY <1>b DEF LoopRecs
  <2> HIDE DEF s
  <2>3. IndexTypes'
    <3>1. \A l \in loops : l.id \in Nat /\ l.id <= starts BY <1>a DEF IndexTypes, CursorsFit, WireFits, LoopsFit, LoopRecs
    <3>2. wire' \in Seq(Nat) /\ Len(wire') = 0 BY <2>1
    <3>3. MaxWire \in Nat BY IndexConstants
    <3> QED BY <1>a, <1>b, <1>c, <2>1, <2>2, <3>1, <3>2, <3>3 DEF IndexTypes, CursorsFit, WireFits, LoopsFit
  <2>4. ASSUME ~ahead' PROVE IndexOrder'
    <3>1. ~ahead /\ \A l \in loops : l.at = "timer" BY <2>1, <2>4, Zenon
    <3>2. loops' = {s} BY <2>1, <3>1
    <3>3. \A i \in Known : i <= cursor => i \in stored BY <1>a, <3>1 DEF IndexOrder, Covered
    <3> QED BY <1>a, <1>c, <2>1, <2>2, <3>1, <3>2, <3>3 DEF IndexOrder, Covered
  <2>5. ahead => ahead' BY <2>1, Zenon
  <2> QED BY <2>1, <2>3, <2>4, <2>5, WatchKept DEF IndexInv
<1>2. CASE Stop
  <2>1. /\ UNCHANGED <<ledgers, cursor, saved, stored, starts, gate, ahead, told>> /\ wire' = <<>>
        /\ loops' = {l \in loops : l.at # "timer"}
    BY <1>2 DEF Stop, Stopped
  <2>2. wire' \in Seq(Nat) /\ Len(wire') = 0 /\ MaxWire \in Nat BY <2>1, IndexConstants
  <2>3. IndexTypes' BY <1>a, <1>c, <2>1, <2>2 DEF IndexTypes, CursorsFit, WireFits, LoopsFit
  <2>4. ASSUME ~ahead' PROVE IndexOrder' BY <1>a, <1>c, <2>1, <2>4 DEF IndexOrder, Covered
  <2> QED BY <2>1, <2>3, <2>4, WatchKept DEF IndexInv
<1>3. CASE CursorLoaded
  <2>1. /\ UNCHANGED <<ledgers, saved, stored, loops, starts, gate, wire, ahead, told>>
        /\ cursor' \in {saved, cursor}
    BY <1>3 DEF CursorLoaded
  <2>2. IndexTypes' BY <1>a, <1>c, <2>1 DEF IndexTypes, CursorsFit, WireFits, LoopsFit
  <2>3. ASSUME ~ahead' PROVE IndexOrder' BY <1>a, <1>c, <2>1, <2>3 DEF IndexOrder, Covered
  <2> QED BY <2>1, <2>2, <2>3, WatchKept DEF IndexInv
<1>4. CASE Reload
  <2>1. /\ UNCHANGED <<ledgers, saved, stored, starts, gate, ahead, told>>
        /\ cursor' = 0 /\ loops' = {} /\ wire' = <<>>
    BY <1>4 DEF Reload
  <2>2. wire' \in Seq(Nat) /\ Len(wire') = 0 /\ MaxWire \in Nat BY <2>1, IndexConstants
  <2>3. IndexTypes' BY <1>a, <1>b, <1>c, <2>1, <2>2 DEF IndexTypes, CursorsFit, WireFits, LoopsFit
  <2>4. ASSUME ~ahead' PROVE IndexOrder' BY <1>a, <1>c, <2>1, <2>4 DEF IndexOrder, Covered, Known
  <2> QED BY <2>1, <2>3, <2>4, WatchKept DEF IndexInv
<1>5. ASSUME NEW l \in loops, Poll(l) PROVE IndexInv'
  <2> DEFINE p == [l EXCEPT !.at = "fetch", !.from = cursor]
  <2>1. /\ UNCHANGED <<ledgers, cursor, saved, stored, starts, gate, wire, ahead, told>>
        /\ l.at = "timer" /\ loops' = (loops \ {l}) \cup {p}
    BY <1>5 DEF Poll, Becomes
  <2>2. p \in LoopRecs /\ p.id = l.id /\ p.at = "fetch" /\ p.from = cursor
    BY <1>a, <1>b DEF LoopRecs, IndexTypes, CursorsFit, WireFits, LoopsFit
  <2> HIDE DEF p
  <2>3. IndexTypes' BY <1>a, <1>b, <1>c, <2>1, <2>2 DEF IndexTypes, CursorsFit, WireFits, LoopsFit
  <2>4. ASSUME ~ahead' PROVE IndexOrder'
    <3>1. loops = {l} /\ loops' = {p} BY <1>a, <2>1, <2>4 DEF IndexOrder
    <3>2. \A i \in Known : i <= cursor => i \in stored BY <1>a, <2>1, <2>4, <3>1 DEF IndexOrder, Covered
    <3> QED BY <1>a, <1>c, <2>1, <2>2, <2>4, <3>1, <3>2 DEF IndexOrder, Covered
  <2> QED BY <2>1, <2>3, <2>4, WatchKept DEF IndexInv
<1> QED BY <1>1, <1>2, <1>3, <1>4, <1>5

\* An answer, or its failure.
LEMMA AnswerSafe ==
    ASSUME IndexInv, NEW l \in loops, Fetched(l) \/ FetchFails(l) PROVE IndexInv'
<1>a. IndexTypes /\ (~ahead => IndexOrder) BY DEF IndexInv
<1>b. Len(ledgers) \in Nat /\ cursor \in Nat /\ starts \in Nat /\ l \in LoopRecs BY <1>a DEF IndexTypes, CursorsFit, WireFits, LoopsFit
<1>c. UNCHANGED <<ledgers, saved, stored, starts, gate, ahead, told>> /\ l.at = "fetch"
  BY DEF Fetched, FetchFails
<1>d. Known' = Known BY <1>c DEF Known
<1>1. ASSUME Ends(l) \/ Stopped(loops \ {l}), UNCHANGED cursor, UNCHANGED wire \/ wire' = <<>> PROVE IndexInv'
  <2>3. IndexTypes'
    <3>1. CursorsFit' BY <1>a, <1>c, <1>d, <1>1 DEF IndexTypes, CursorsFit
    <3> QED BY <1>c, <1>1, <3>1, EndFits DEF IndexTypes
  <2>4. ASSUME ~ahead' PROVE IndexOrder'
    <3>1. loops = {l} BY <1>a, <1>c, <2>4 DEF IndexOrder
    <3>2. \A i \in Known : i <= cursor => i \in stored BY <1>a, <1>c, <2>4, <3>1 DEF IndexOrder, Covered
    <3>3. (\A a, b \in loops' : a = b) /\ \A m \in loops' : m.at = "timer" BY <1>1, <3>1, LoopEnded
    <3> QED BY <1>a, <1>c, <1>d, <1>1, <2>4, <3>2, <3>3 DEF IndexOrder, Covered
  <2> QED BY <1>c, <2>3, <2>4, WatchKept DEF IndexInv
<1>2. CASE FetchFails(l)
  <2>1. UNCHANGED cursor /\ PollFails(l) BY <1>2 DEF FetchFails
  <2>2. (Ends(l) \/ Stopped(loops \ {l})) /\ (UNCHANGED wire \/ wire' = <<>>)
    BY <2>1 DEF PollFails, Stopped
  <2> QED BY <1>1, <2>1, <2>2
<1>3. CASE Fetched(l)
  <2> DEFINE rows == Parsed(Events(l.from))
  <2>1. UNCHANGED wire BY <1>3 DEF Fetched
  <2>2. CASE rows = {} BY <1>1, <1>3, <2>1, <2>2 DEF Fetched
  <2>3. CASE rows # {}
    <3> DEFINE p == [l EXCEPT !.at = "put", !.rest = rows]
    <3>1. cursor' = Min(rows) /\ loops' = (loops \ {l}) \cup {p}
      BY <1>3, <2>3 DEF Fetched, Becomes
    <3>2. l.from \in Nat /\ BatchSize \in Nat /\ ledgers \in Seq(Kinds)
      BY <1>a, <1>b, IndexConstants DEF LoopRecs, IndexTypes, CursorsFit, WireFits, LoopsFit
    <3>3. rows \subseteq Known /\ \A m \in rows, i \in Known : l.from < i /\ i <= m => i \in rows
      BY <3>2, ParsedHasNoGap
    <3>4. Known \subseteq 1 .. Len(ledgers) BY DEF Known
    <3> HIDE DEF rows
    <3>5. rows \in SUBSET Nat /\ Min(rows) \in rows /\ \A y \in rows : Min(rows) <= y
      BY <2>3, <3>3, <3>4, MinIs
    <3>6. p \in LoopRecs /\ p.id = l.id /\ p.from = l.from /\ p.at = "put" /\ p.rest = rows
      BY <1>b, <3>5 DEF LoopRecs
    <3> HIDE DEF p
    <3>7. IndexTypes'
      <4>a. Min(rows) \in 1 .. Len(ledgers) BY <3>3, <3>4, <3>5
      <4>b. cursor' \in 0 .. Len(ledgers) BY <1>b, <3>1, <4>a
      <4>1. CursorsFit' BY <1>a, <1>c, <1>d, <4>b DEF IndexTypes, CursorsFit
      <4>2. WireFits' BY <1>a, <1>d, <2>1 DEF IndexTypes, WireFits
      <4>3. LoopsFit' BY <1>a, <1>c, <1>d, <2>3, <3>1, <3>3, <3>6 DEF IndexTypes, LoopsFit
      <4> QED BY <4>1, <4>2, <4>3 DEF IndexTypes
    <3>8. ASSUME ~ahead' PROVE IndexOrder'
      <4>1. loops = {l} /\ loops' = {p} BY <1>a, <1>c, <3>1, <3>8 DEF IndexOrder
      <4>2. \A i \in Known : i <= l.from => i \in stored BY <1>a, <1>c, <3>8 DEF IndexOrder
      <4>3. \A m \in rows, i \in Known : i <= m => i \in stored \/ i \in rows
        BY <3>2, <3>3, <3>4, <4>2
      <4>4. \A m \in rows : Covered(m)' BY <1>c, <1>d, <3>6, <4>1, <4>3 DEF Covered
      <4>5. Covered(cursor)' BY <3>1, <3>5, <4>4 DEF Covered
      <4>6. \A i \in Known' : i <= saved' => i \in stored' BY <1>a, <1>c, <1>d, <3>8 DEF IndexOrder
      <4> QED BY <3>6, <4>1, <4>4, <4>5, <4>6 DEF IndexOrder
    <3> QED BY <1>c, <3>7, <3>8, WatchKept DEF IndexInv
  <2> QED BY <2>2, <2>3
<1> QED BY <1>2, <1>3

\* An event is stored, or the database refuses it.
LEMMA PutSafe ==
    ASSUME IndexInv, NEW l \in loops, Put(l) \/ PutFails(l) PROVE IndexInv'
<1>a. IndexTypes /\ (~ahead => IndexOrder) BY DEF IndexInv
<1>b. Len(ledgers) \in Nat /\ cursor \in Nat /\ starts \in Nat /\ l \in LoopRecs BY <1>a DEF IndexTypes, CursorsFit, WireFits, LoopsFit
<1>c. UNCHANGED <<ledgers, starts, gate, told>> /\ l.at = "put"
  BY DEF Put, PutFails
<1>d. Known' = Known /\ Known \subseteq 1 .. Len(ledgers) BY <1>c DEF Known
<1>e. l.id \in Nat /\ l.id <= starts /\ l.rest # {} /\ l.rest \subseteq Known
  BY <1>a, <1>b, <1>c DEF IndexTypes, CursorsFit, WireFits, LoopsFit, LoopRecs
<1>1. CASE PutFails(l)
  <2>1. UNCHANGED <<cursor, saved, stored>> /\ ahead' = TRUE /\ PollFails(l) BY <1>1 DEF PutFails
  <2>2. (Ends(l) \/ Stopped(loops \ {l})) /\ (UNCHANGED wire \/ wire' = <<>>)
    BY <2>1 DEF PollFails, Stopped
  <2>4. IndexTypes'
    <3>1. CursorsFit' BY <1>a, <1>c, <1>d, <2>1 DEF IndexTypes, CursorsFit
    <3> QED BY <1>c, <2>2, <3>1, EndFits DEF IndexTypes
  <2> QED BY <1>c, <2>1, <2>4, WatchKept DEF IndexInv
<1>2. CASE Put(l)
  <2> DEFINE x == Min(l.rest)
             rest == l.rest \ {x}
  <2>1. x \in l.rest /\ x \in Nat /\ \A y \in l.rest : y \in Nat /\ x <= y 
    <3>1. l.rest \in SUBSET Nat BY <1>b, <1>d, <1>e
    <3> HIDE DEF x
    <3>2. x \in l.rest /\ \A y \in l.rest : x <= y BY <1>e, <3>1, MinIs DEF x
    <3> QED BY <3>1, <3>2
  <2>2. UNCHANGED <<wire, ahead>> /\ stored' = stored \cup {x} /\ saved' = x BY <1>2 DEF Put, SavedBy
  <2> HIDE DEF x
  <2>3. ASSUME IndexOrder
        PROVE  /\ loops = {l} /\ \A m \in l.rest, i \in Known : i <= m => i \in stored \/ i \in l.rest
               /\ \A i \in Known : i <= x => i \in stored'
    <3>1. loops = {l} BY <2>3 DEF IndexOrder
    <3>2. \A m \in l.rest, i \in Known : i <= m => i \in stored \/ i \in l.rest
      BY <1>c, <2>3, <3>1 DEF IndexOrder, Covered
    <3> QED BY <1>d, <2>1, <2>2, <3>1, <3>2
  <2>4. CASE rest = {}
    <3>1. Ends(l) /\ UNCHANGED cursor BY <1>2, <2>4 DEF Put, x
    <3>2. IndexTypes'
      <4>1. CursorsFit' BY <1>a, <1>b, <1>c, <1>d, <1>e, <2>1, <2>2, <3>1 DEF IndexTypes, CursorsFit
      <4> QED BY <1>c, <2>2, <3>1, <4>1, EndFits DEF IndexTypes
    <3>3. ASSUME ~ahead' PROVE IndexOrder'
      <4>1. IndexOrder BY <1>a, <2>2, <3>3
      <4>2. (\A a, b \in loops' : a = b) /\ \A m \in loops' : m.at = "timer" BY <2>3, <3>1, <4>1, LoopEnded
      <4>3. \A i \in Known : i <= cursor => i \in stored' BY <2>2, <2>3, <2>4, <4>1 DEF IndexOrder, Covered
      <4> QED BY <1>d, <2>2, <2>3, <3>1, <4>1, <4>2, <4>3 DEF IndexOrder, Covered
    <3> QED BY <1>c, <2>2, <3>2, <3>3, WatchKept DEF IndexInv
  <2>5. CASE rest # {}
    <3> DEFINE p == [l EXCEPT !.rest = rest]
    <3>1. cursor' = Min(rest) /\ loops' = (loops \ {l}) \cup {p} BY <1>2, <2>5 DEF Put, Becomes, x
    <3>2. p \in LoopRecs /\ p.id = l.id /\ p.from = l.from /\ p.at = "put" /\ p.rest = rest
      BY <1>b, <1>c DEF LoopRecs
    <3>3. rest \in SUBSET Nat /\ rest \subseteq Known /\ Min(rest) \in rest
      BY <1>e, <2>1, <2>5, MinIs
    <3> HIDE DEF p
    <3>4. IndexTypes'
      <4>1. CursorsFit' BY <1>a, <1>b, <1>c, <1>d, <1>e, <2>1, <2>2, <3>1, <3>3 DEF IndexTypes, CursorsFit
      <4>2. WireFits' BY <1>a, <1>d, <2>2 DEF IndexTypes, WireFits
      <4>3. LoopsFit' BY <1>a, <1>c, <1>d, <2>5, <3>1, <3>2, <3>3 DEF IndexTypes, LoopsFit
      <4> QED BY <4>1, <4>2, <4>3 DEF IndexTypes
    <3>5. ASSUME ~ahead' PROVE IndexOrder'
      <4>1. IndexOrder /\ loops' = {p} BY <1>a, <2>2, <2>3, <3>1, <3>5
      <4>2. \A m \in rest, i \in Known : i <= m => i \in stored' \/ i \in rest BY <2>2, <2>3, <4>1
      <4>3. \A m \in rest : Covered(m)' BY <1>d, <3>2, <4>1, <4>2 DEF Covered
      <4>4. Covered(cursor)' BY <3>1, <3>3, <4>3 DEF Covered
      <4>5. \A i \in Known' : i <= saved' => i \in stored' BY <1>d, <2>2, <2>3, <4>1
      <4> QED BY <3>2, <4>1, <4>3, <4>4, <4>5 DEF IndexOrder
    <3> QED BY <1>c, <2>2, <3>4, <3>5, WatchKept DEF IndexInv
  <2> QED BY <2>4, <2>5
<1> QED BY <1>1, <1>2

\* The gateway broadcasts, restarts, and its socket delivers, fails or opens.
LEMMA SocketSafe ==
    ASSUME IndexInv, Gateway \/ GatewayRestart \/ Relayed \/ SocketFails \/ SocketOpens PROVE IndexInv'
<1>a. IndexTypes /\ (~ahead => IndexOrder) BY DEF IndexInv
<1>b. /\ ledgers \in Seq(Kinds) /\ Len(ledgers) \in Nat /\ wire \in Seq(Nat) /\ gate \in Nat
      /\ BatchSize \in Nat /\ MaxWire \in Nat
  BY <1>a, IndexConstants DEF IndexTypes, CursorsFit, WireFits
<1>c. UNCHANGED <<ledgers, cursor, loops, starts, told>>
  BY DEF Gateway, GatewayRestart, Relayed, SocketFails, SocketOpens
<1>d. Known' = Known /\ Known \subseteq 1 .. Len(ledgers) BY <1>c DEF Known
<1>e. LoopsFit' BY <1>a, <1>c, <1>d DEF IndexTypes, LoopsFit
<1>1. ASSUME UNCHANGED <<saved, stored, ahead>>, gate' \in Nat, WireFits' PROVE IndexInv'
  <2>1. CursorsFit' BY <1>a, <1>c, <1>d, <1>1 DEF IndexTypes, CursorsFit
  <2>2. ~ahead' => IndexOrder' BY <1>a, <1>c, <1>d, <1>1 DEF IndexOrder, Covered
  <2> QED BY <1>c, <1>e, <1>1, <2>1, <2>2, WatchKept DEF IndexInv, IndexTypes
<1>f. wire' = <<>> => WireFits'
  <2> SUFFICES ASSUME wire' = <<>> PROVE WireFits' OBVIOUS
  <2>1. wire' \in Seq(Nat) /\ Len(wire') = 0 OBVIOUS
  <2> QED BY <1>b, <2>1 DEF WireFits
<1>2. CASE Gateway
  <2> DEFINE rows == Parsed(Events(gate))
  <2>1. /\ UNCHANGED <<saved, stored, ahead>> /\ rows # {} /\ Len(wire) < MaxWire /\ gate' = Min(rows)
        /\ wire' = Append(wire, gate') \/ wire' = wire
    BY <1>2 DEF Gateway
  <2>2. rows \subseteq Known BY <1>b, ParsedHasNoGap
  <2> HIDE DEF rows
  <2>3. rows \in SUBSET Nat BY <1>b, <1>d, <2>2
  <2>4. gate' \in Known /\ gate' \in Nat BY <2>1, <2>2, <2>3, MinIs
  <2>5. WireFits'
    <3>1. \A k \in 1 .. Len(wire) : wire[k] \in Known BY <1>a DEF IndexTypes, WireFits
    <3>2. CASE wire' = Append(wire, gate')
      <4>1. wire' \in Seq(Nat) /\ Len(wire') = Len(wire) + 1 BY <1>b, <2>4, <3>2
      <4>2. \A k \in 1 .. Len(wire') : wire'[k] \in Known BY <1>b, <2>4, <3>1, <3>2, <4>1
      <4>3. Len(wire') <= MaxWire BY <1>b, <2>1, <4>1
      <4> QED BY <1>d, <4>1, <4>2, <4>3 DEF WireFits
    <3>3. CASE wire' = wire BY <1>a, <1>d, <3>3 DEF IndexTypes, WireFits
    <3> QED BY <2>1, <3>2, <3>3
  <2> QED BY <1>1, <2>1, <2>4, <2>5
<1>3. CASE GatewayRestart
  <2>1. UNCHANGED <<saved, stored, ahead, wire>> /\ gate' = 0 BY <1>3 DEF GatewayRestart
  <2>2. WireFits' BY <1>a, <1>d, <2>1 DEF IndexTypes, WireFits
  <2> QED BY <1>1, <2>1, <2>2
<1>4. CASE Relayed
  <2>1. /\ UNCHANGED gate /\ wire # <<>> /\ wire' = Tail(wire) /\ stored' = stored \cup {Head(wire)}
        /\ saved' = Head(wire) /\ ahead' = TRUE
    BY <1>4 DEF Relayed
  <2>2. \A k \in 1 .. Len(wire) : wire[k] \in Known BY <1>a DEF IndexTypes, WireFits
  <2>3. Len(wire) \in Nat /\ Len(wire) > 0 /\ Len(wire) <= MaxWire /\ Head(wire) = wire[1]
    BY <1>a, <1>b, <2>1 DEF IndexTypes, WireFits
  <2>4. Head(wire) \in Known BY <2>2, <2>3
  <2>5. /\ wire' \in Seq(Nat) /\ Len(wire') = Len(wire) - 1
        /\ \A k \in 1 .. Len(wire') : wire'[k] = wire[k + 1]
    BY <1>b, <2>1, <2>3
  <2>6. \A k \in 1 .. Len(wire') : wire'[k] \in Known BY <2>2, <2>3, <2>5
  <2>7. WireFits' BY <1>b, <1>d, <2>3, <2>5, <2>6 DEF WireFits
  <2>a. Head(wire) \in 1 .. Len(ledgers) BY <1>d, <2>4
  <2>8. Head(wire) \in 0 .. Len(ledgers) BY <1>b, <2>a
  <2>9. CursorsFit' BY <1>a, <1>c, <1>d, <2>1, <2>4, <2>8 DEF IndexTypes, CursorsFit
  <2> QED BY <1>c, <1>e, <2>1, <2>7, <2>9, WatchKept DEF IndexInv, IndexTypes
<1>5. CASE SocketFails
  <2>1. UNCHANGED <<saved, stored, ahead, gate>> /\ wire' = <<>> BY <1>5 DEF SocketFails
  <2> QED BY <1>b, <1>f, <1>1, <2>1
<1>6. CASE SocketOpens
  <2>1. UNCHANGED <<saved, stored, ahead, gate, wire>> BY <1>6 DEF SocketOpens
  <2>2. WireFits' BY <1>a, <1>d, <2>1 DEF IndexTypes, WireFits
  <2> QED BY <1>b, <1>1, <2>1, <2>2
<1> QED BY <1>2, <1>3, <1>4, <1>5, <1>6

\* Every step of the indexer keeps the invariant.
LEMMA IndexSafe == IndexInv /\ IndexNext => IndexInv'
BY CloseKeeps, ControlSafe, AnswerSafe, PutSafe, SocketSafe DEF IndexNext

\* Fields of the watcher after each of its steps.
LEMMA WatchFields ==
    ASSUME WatchTypes
    PROVE  /\ told.running \in BOOLEAN /\ told.cursor \in Nat /\ told.loops \subseteq WatchRecs
           /\ told.seen \subseteq Nat /\ told.first \in Nat
           /\ told.cursor <= Len(ledgers) /\ (told.first = 0 <=> told.cursor = 0)
BY DEF WatchTypes

\* The watcher starts, stops, asks and dispatches.
LEMMA WatchSafe == IndexInv /\ WatchNext => IndexInv'
<1> SUFFICES ASSUME IndexInv, WatchNext PROVE IndexInv' OBVIOUS
<1> DEFINE Told == [running : BOOLEAN, cursor : Nat, loops : SUBSET WatchRecs, seen : SUBSET Nat, first : Nat]
<1>a. WatchTypes /\ (~ahead => WatchOrder) /\ told \in Told BY DEF IndexInv, WatchTypes
<1>b. /\ told.running \in BOOLEAN /\ told.cursor \in Nat /\ told.loops \subseteq WatchRecs
      /\ told.seen \subseteq Nat /\ told.first \in Nat
      /\ told.cursor <= Len(ledgers) /\ (told.first = 0 <=> told.cursor = 0)
  BY <1>a, WatchFields
<1>c. ledgers \in Seq(Kinds) /\ Len(ledgers) \in Nat /\ starts \in Nat /\ BatchSize \in Nat
  BY IndexConstants DEF IndexInv, IndexTypes, CursorsFit
<1>d. ASSUME UNCHANGED <<ledgers, cursor, saved, stored, loops, gate, wire>>, ahead => ahead',
             starts' \in {starts, starts + 1}, WatchTypes', ~ahead' => WatchOrder'
      PROVE  IndexInv'
  <2>1. starts' \in Nat /\ starts' >= starts BY <1>c, <1>d
  <2> QED BY <1>d, <2>1, IndexKept DEF IndexInv
<1>1. CASE Watch
  <2> DEFINE s == [id |-> starts + 1, at |-> "poll", from |-> 0]
  <2>1. /\ UNCHANGED <<ledgers, cursor, saved, stored, loops, gate, wire>> /\ starts' = starts + 1
        /\ told' = [told EXCEPT !.running = TRUE, !.loops = told.loops \cup {s}]
        /\ ahead' = (ahead \/ told.loops # {})
    BY <1>1 DEF Watch
  <2>2. s \in WatchRecs /\ s.at = "poll" BY <1>c DEF WatchRecs
  <2> HIDE DEF s
  <2>3. told' \in Told BY <1>a, <1>b, <2>1, <2>2
  <2>4. /\ told'.cursor = told.cursor /\ told'.first = told.first /\ told'.seen = told.seen
        /\ told'.loops = told.loops \cup {s}
    BY <1>a, <2>1
  <2>5. WatchTypes' BY <1>b, <2>1, <2>3, <2>4 DEF WatchTypes
  <2>6. (ahead => ahead') /\ (~ahead' => ~ahead /\ told.loops = {}) BY <2>1, Zenon
  <2>7. ASSUME ~ahead' PROVE WatchOrder' BY <1>a, <2>1, <2>2, <2>4, <2>6, <2>7 DEF WatchOrder
  <2> QED BY <1>d, <2>1, <2>5, <2>6, <2>7
<1>2. CASE Unwatch
  <2>1. /\ UNCHANGED <<ledgers, cursor, saved, stored, loops, gate, wire, ahead, starts>>
        /\ told' = [told EXCEPT !.running = FALSE, !.loops = {l \in told.loops : l.at # "poll"}]
    BY <1>2 DEF Unwatch
  <2>3. told' \in Told BY <1>a, <1>b, <2>1
  <2>4. /\ told'.cursor = told.cursor /\ told'.first = told.first /\ told'.seen = told.seen
        /\ told'.loops \subseteq told.loops
    BY <1>a, <2>1
  <2>5. WatchTypes' BY <1>b, <2>1, <2>3, <2>4 DEF WatchTypes
  <2>6. ASSUME ~ahead' PROVE WatchOrder' BY <1>a, <2>1, <2>4, <2>6 DEF WatchOrder
  <2> QED BY <1>d, <2>1, <2>5, <2>6
<1>3. ASSUME NEW l \in told.loops, AskRpc(l) PROVE IndexInv'
  <2> DEFINE p == [l EXCEPT !.at = "answer", !.from = RequestFrom]
  <2>1. /\ UNCHANGED <<ledgers, cursor, saved, stored, loops, gate, wire, ahead, starts>>
        /\ told' = [told EXCEPT !.loops = (told.loops \ {l}) \cup {p}]
    BY <1>3 DEF AskRpc
  <2>2. RequestFrom \in Nat /\ (told.cursor # 0 => RequestFrom = told.cursor)
    BY <1>b, <1>c DEF RequestFrom
  <2>3. p \in WatchRecs /\ p.from = RequestFrom BY <1>b, <2>2 DEF WatchRecs
  <2> HIDE DEF p
  <2>4. told' \in Told BY <1>a, <1>b, <2>1, <2>3
  <2>5. /\ told'.cursor = told.cursor /\ told'.first = told.first /\ told'.seen = told.seen
        /\ told'.loops = (told.loops \ {l}) \cup {p}
    BY <1>a, <2>1
  <2>6. WatchTypes' BY <1>b, <2>1, <2>4, <2>5 DEF WatchTypes
  <2>7. ASSUME ~ahead' PROVE WatchOrder'
    <3>1. told.loops = {l} BY <1>a, <2>1, <2>7 DEF WatchOrder
    <3> QED BY <1>a, <2>1, <2>2, <2>3, <2>5, <2>7, <3>1 DEF WatchOrder
  <2> QED BY <1>d, <2>1, <2>6, <2>7
<1>4. ASSUME NEW l \in told.loops, Dispatch(l) PROVE IndexInv'
  <2> DEFINE next == (told.loops \ {l}) \cup Rescheduled(l)
             rows == Events(l.from)
  <2>1. /\ UNCHANGED <<ledgers, cursor, saved, stored, loops, gate, wire, ahead, starts>> /\ l.at = "answer"
    BY <1>4 DEF Dispatch
  <2>2. next \subseteq WatchRecs /\ (told.loops = {l} => (\A a, b \in next : a = b) /\ \A m \in next : m.at = "poll")
    <3>1. [l EXCEPT !.at = "poll"] \in WatchRecs /\ [l EXCEPT !.at = "poll"].at = "poll" BY <1>b DEF WatchRecs
    <3> QED BY <1>b, <3>1 DEF Rescheduled
  <2>3. ~ahead' => told.loops = {l} BY <1>a, <2>1 DEF WatchOrder
  <2> HIDE DEF next, rows
  <2>4. CASE told' = [told EXCEPT !.loops = next]
    <3>1. told' \in Told BY <1>a, <2>2, <2>4
    <3>2. /\ told'.cursor = told.cursor /\ told'.first = told.first /\ told'.seen = told.seen
          /\ told'.loops = next
      BY <1>a, <2>4
    <3>3. WatchTypes' BY <1>b, <2>1, <3>1, <3>2 DEF WatchTypes
    <3>4. ASSUME ~ahead' PROVE WatchOrder' BY <1>a, <2>1, <2>2, <2>3, <3>2, <3>4 DEF WatchOrder
    <3> QED BY <1>d, <2>1, <3>3, <3>4
  <2>5. CASE told' = [told EXCEPT !.loops = next,
                        !.cursor = IF rows = {} THEN told.cursor ELSE Max(rows),
                        !.seen = told.seen \cup rows,
                        !.first = IF told.first = 0 /\ rows # {} THEN Min(rows) ELSE told.first]
    <3>1. rows \subseteq 1 .. Len(ledgers) /\ rows \in SUBSET Nat BY <1>c DEF rows, Events, Following
    <3>2. CASE rows = {}
      <4>1. told'.cursor = told.cursor /\ told'.first = told.first /\ told'.seen = told.seen
            /\ told'.loops = next
        BY <1>a, <2>5, <3>2
      <4>2. told' \in Told BY <1>a, <1>b, <2>2, <2>5, <3>1, <3>2
      <4>3. WatchTypes' BY <1>b, <2>1, <4>1, <4>2 DEF WatchTypes
      <4>4. ASSUME ~ahead' PROVE WatchOrder' BY <1>a, <2>1, <2>2, <2>3, <4>1, <4>4 DEF WatchOrder
      <4> QED BY <1>d, <2>1, <4>3, <4>4
    <3>3. CASE rows # {}
      <4>1. Min(rows) \in rows /\ \A y \in rows : Min(rows) <= y BY <3>1, <3>3, MinIs
      <4>2. Max(rows) \in rows /\ \A y \in rows : y <= Max(rows)
        <5>1. \A y \in rows : y <= Len(ledgers) BY <1>c, <3>1
        <5> QED BY <1>c, <3>1, <3>3, <5>1, MaxIs
      <4>3. Min(rows) \in Nat /\ Min(rows) >= 1 /\ Max(rows) \in Nat /\ Max(rows) >= 1 /\ Max(rows) <= Len(ledgers)
        <5>1. Min(rows) \in 1 .. Len(ledgers) /\ Max(rows) \in 1 .. Len(ledgers) BY <3>1, <4>1, <4>2
        <5> QED BY <1>c, <5>1
      <4> DEFINE first == IF told.first = 0 THEN Min(rows) ELSE told.first
      <4>4. first \in Nat /\ first # 0 BY <1>b, <4>3
      <4>5. told' = [told EXCEPT !.loops = next, !.cursor = Max(rows), !.seen = told.seen \cup rows,
                       !.first = first]
        BY <2>5, <3>3
      <4> HIDE DEF first
      <4>6. told'.cursor = Max(rows) /\ told'.first = first /\ told'.seen = told.seen \cup rows
            /\ told'.loops = next
        BY <1>a, <4>5
      <4>7. told' \in Told
        <5>1. told.seen \cup rows \in SUBSET Nat BY <1>b, <3>1
        <5> QED BY <1>a, <2>2, <4>3, <4>4, <4>5, <5>1
      <4>8. WatchTypes' BY <2>1, <4>3, <4>4, <4>6, <4>7 DEF WatchTypes
      <4>9. ASSUME ~ahead' PROVE WatchOrder'
        <5>1. WatchOrder /\ l.from \in Nat BY <1>a, <1>b, <2>1, <4>9 DEF WatchRecs
        <5>2. ASSUME NEW i \in 1 .. Len(ledgers), l.from < i, i <= Max(rows), ledgers[i] # "none"
              PROVE  i \in rows
          <6>1. i \in Following(l.from) BY <5>2 DEF Following
          <6> QED BY <1>c, <4>2, <5>1, <5>2, <6>1, EventsHaveNoGap DEF rows
        <5>3. \A i \in first .. Max(rows) : ledgers[i] # "none" => i \in told.seen \cup rows
          <6> TAKE i \in first .. Max(rows)
          <6>1. i \in 1 .. Len(ledgers) BY <1>c, <4>3, <4>4
          <6>2. CASE told.first = 0
            <7>1. i >= Min(rows) BY <4>3, <6>2 DEF first
            <7>2. Min(rows) > l.from BY <4>1 DEF rows, Events, Following
            <7> QED BY <4>3, <5>1, <5>2, <6>1, <7>1, <7>2
          <6>3. CASE told.first # 0
            <7>1. told.cursor # 0 /\ l.from = told.cursor /\ i >= told.first
              BY <1>b, <2>1, <5>1, <6>3 DEF WatchOrder, first
            <7>2. CASE i <= told.cursor
              <8>1. i \in told.first .. told.cursor BY <1>b, <6>1, <7>1, <7>2
              <8> QED BY <5>1, <6>3, <8>1 DEF WatchOrder
            <7>3. CASE i > told.cursor BY <5>2, <6>1, <7>1, <7>3
            <7> QED BY <1>b, <6>1, <7>2, <7>3
          <6> QED BY <6>2, <6>3
        <5> QED BY <2>1, <2>2, <2>3, <4>6, <4>9, <5>3 DEF WatchOrder
      <4> QED BY <1>d, <2>1, <4>8, <4>9
    <3> QED BY <3>2, <3>3
  <2> QED BY <1>4, <2>4, <2>5 DEF Dispatch, next, rows
<1>5. ASSUME NEW k \in Kinds, Close(k, MaxWatched) PROVE IndexInv' BY <1>5, CloseKeeps
<1> QED BY <1>1, <1>2, <1>3, <1>4, <1>5 DEF WatchNext

-----------------------------------------------------------------------------
(* The worker pools.                                                       *)

\* Initially no call was made.
LEMMA WorkInitial == WorkInit => WorkTypeOK
BY WorkerConstants DEF WorkInit, WorkTypeOK, NoCall, Workers, WorkKinds, CryptoKinds

\* The calls stay typed when one is replaced.
CallRecs == [kind : WorkKinds, worker : Workers,
             state : {"none", "inline", "pending", "resolved", "rejected"}]

\* The steps of pages and workers keep the types: the round robin stays in the pool.
LEMMA WorkSafe == WorkTypeOK /\ WorkNext => WorkTypeOK'
<1> USE WorkerConstants
<1> SUFFICES ASSUME WorkTypeOK, WorkNext PROVE WorkTypeOK' OBVIOUS
<1>a. /\ pool \subseteq Workers /\ broken \subseteq Workers /\ nextWorker \in 0 .. (PoolSize - 1)
      /\ calls \in [WorkCalls -> CallRecs]
      /\ inbox \subseteq WorkCalls /\ replies \subseteq [id : WorkCalls, ok : BOOLEAN]
  BY DEF WorkTypeOK, CallRecs
<1>b. ASSUME /\ pool' \subseteq Workers /\ broken' \subseteq Workers /\ nextWorker' \in 0 .. (PoolSize - 1)
             /\ calls' \in [WorkCalls -> CallRecs]
             /\ inbox' \subseteq WorkCalls /\ replies' \subseteq [id : WorkCalls, ok : BOOLEAN]
      PROVE  WorkTypeOK'
  BY <1>b DEF WorkTypeOK, CallRecs
<1>1. ASSUME NEW c \in WorkCalls, NEW kind \in WorkKinds, Call(c, kind) PROVE WorkTypeOK'
  <2>1. Chosen(kind) \subseteq Workers
    BY <1>a DEF Chosen, Workers
  <2>2. \A w \in Workers : [kind |-> kind, state |-> "pending", worker |-> w] \in CallRecs
    BY DEF CallRecs
  <2>3. [kind |-> kind, state |-> "inline", worker |-> 0] \in CallRecs
    BY DEF CallRecs, Workers
  <2>4. calls' \in [WorkCalls -> CallRecs]
    BY <1>1, <1>a, <2>1, <2>2, <2>3 DEF Call
  <2>5. (nextWorker + 1) % PoolSize \in 0 .. (PoolSize - 1)
    BY <1>a
  <2> QED BY <1>1, <1>a, <1>b, <2>4, <2>5 DEF Call
<1>2. ASSUME NEW c \in WorkCalls, RunInline(c) PROVE WorkTypeOK'
  <2>1. calls' \in [WorkCalls -> CallRecs] BY <1>2, <1>a DEF RunInline, CallRecs
  <2> QED BY <1>2, <1>a, <1>b, <2>1 DEF RunInline
<1>3. ASSUME NEW c \in WorkCalls, HandleMessage(c) PROVE WorkTypeOK'
  <2>1. \A ok \in BOOLEAN : [id |-> c, ok |-> ok] \in [id : WorkCalls, ok : BOOLEAN] BY Zenon
  <2>2. replies' \subseteq [id : WorkCalls, ok : BOOLEAN]
    BY <1>3, <1>a, <2>1, Zenon DEF HandleMessage, Reply
  <2> QED BY <1>3, <1>a, <1>b, <2>2 DEF HandleMessage
<1>4. ASSUME NEW r \in replies, OnResponse(r) PROVE WorkTypeOK'
  <2>1. r.id \in WorkCalls BY <1>a
  <2>2. calls' \in [WorkCalls -> CallRecs] BY <1>4, <1>a, <2>1 DEF OnResponse, CallRecs
  <2> QED BY <1>4, <1>a, <1>b, <2>2 DEF OnResponse
<1>5. ASSUME NEW w \in Workers, WorkerError(w) PROVE WorkTypeOK'
  BY <1>5, <1>a, <1>b DEF WorkerError
<1>6. ASSUME NEW ws \in SUBSET pool, Terminate(ws) PROVE WorkTypeOK'
  BY <1>6, <1>a, <1>b DEF Terminate
<1>7. {0} \cap pool \in SUBSET pool /\ pool \ {0} \in SUBSET pool OBVIOUS
<1> QED BY <1>1, <1>2, <1>3, <1>4, <1>5, <1>6, <1>7 DEF WorkNext

-----------------------------------------------------------------------------
(* The services together.                                                  *)

ServicesInv == ClientInv /\ WalletInv /\ IndexInv /\ GateInv /\ WorkTypeOK

allVars == <<service, clientVars, walletVars, indexVars, gateVars, workVars>>

\* Each invariant is about the variables of its own service.
LEMMA OthersKept ==
    /\ ClientInv /\ UNCHANGED clientVars => ClientInv'
    /\ WalletInv /\ UNCHANGED walletVars => WalletInv'
    /\ IndexInv /\ UNCHANGED indexVars => IndexInv'
    /\ GateInv /\ UNCHANGED gateVars => GateInv'
    /\ WorkTypeOK /\ UNCHANGED workVars => WorkTypeOK'
<1>1. ClientInv /\ UNCHANGED clientVars => ClientInv'
  BY DEF ClientInv, WritesInv, ReadsInv, Current, clientVars, chainVars, readVars
<1>2. WalletInv /\ UNCHANGED walletVars => WalletInv'
  BY DEF WalletInv, WalletTypes, FollowsWallet, walletVars, session, guard
<1>3. IndexInv /\ UNCHANGED indexVars => IndexInv'
  <2> SUFFICES ASSUME IndexInv, UNCHANGED indexVars PROVE IndexInv' OBVIOUS
  <2>1. starts' \in Nat /\ starts' >= starts BY DEF IndexInv, IndexTypes, CursorsFit, indexVars
  <2>2. IndexTypes' /\ (~ahead' => IndexOrder') BY <2>1, IndexKept DEF indexVars
  <2>3. WatchTypes' /\ (~ahead' => WatchOrder') BY WatchKept DEF indexVars
  <2> QED BY <2>2, <2>3 DEF IndexInv
<1>4. GateInv /\ UNCHANGED gateVars => GateInv'
  BY DEF GateInv, gateVars
<1>5. WorkTypeOK /\ UNCHANGED workVars => WorkTypeOK'
  BY DEF WorkTypeOK, workVars
<1> QED BY <1>1, <1>2, <1>3, <1>4, <1>5

\* A step of one service keeps every invariant.
LEMMA ServicesStep == ServicesInv /\ [ServicesNext]_allVars => ServicesInv'
<1> SUFFICES ASSUME ServicesInv, [ServicesNext]_allVars PROVE ServicesInv' OBVIOUS
<1>a. ClientInv /\ WalletInv /\ IndexInv /\ GateInv /\ WorkTypeOK BY DEF ServicesInv
<1>1. CASE ClientStep
  <2>1. ClientInv' BY <1>a, <1>1, WritesSafe, ReadsSafe DEF ClientStep, ClientInv
  <2> QED BY <1>a, <1>1, <2>1, OthersKept DEF ClientStep, ServicesInv
<1>2. CASE WalletStep
  <2>1. WalletInv' BY <1>a, <1>2, WalletSafe DEF WalletStep
  <2> QED BY <1>a, <1>2, <2>1, OthersKept DEF WalletStep, ServicesInv
<1>3. CASE IndexStep
  <2>1. IndexInv' BY <1>a, <1>3, IndexSafe, WatchSafe DEF IndexStep
  <2> QED BY <1>a, <1>3, <2>1, OthersKept DEF IndexStep, ServicesInv
<1>4. CASE GateStep
  <2>1. GateInv' BY <1>a, <1>4, RaceSafe, ScoreSafe DEF GateStep
  <2> QED BY <1>a, <1>4, <2>1, OthersKept DEF GateStep, ServicesInv
<1>5. CASE WorkStep
  <2>1. WorkTypeOK' BY <1>a, <1>5, WorkSafe DEF WorkStep
  <2> QED BY <1>a, <1>5, <2>1, OthersKept DEF WorkStep, ServicesInv
<1>6. CASE UNCHANGED allVars
  BY <1>a, <1>6, OthersKept DEF allVars, ServicesInv
<1> QED BY <1>1, <1>2, <1>3, <1>4, <1>5, <1>6 DEF ServicesNext

\* The inductive invariants of the services hold in every reachable state.
THEOREM Services == ServicesSpec => []ServicesInv
<1>1. ServicesInit => ServicesInv
  BY ClientInitial, WalletInitial, IndexInitial, GateInitial, WorkInitial DEF ServicesInit, ServicesInv
<1> QED BY <1>1, ServicesStep, PTL DEF ServicesSpec, allVars

\* The contract client serves a value older than a write it saw confirmed only
\* from a call that the write's clear overtook, reports no write done that was
\* not mined, and a write takes effect twice only after its receipt was lost.
THEOREM ClientCorrect == ServicesSpec => []ClientIsHonest
<1>1. ServicesInv => ClientIsHonest
  <2> SUFFICES ASSUME ServicesInv PROVE ClientIsHonest OBVIOUS
  <2>1. ReadsInv /\ WritesInv BY DEF ServicesInv, ClientInv
  <2>2. StaleOnlyByOverlap BY <2>1 DEF ReadsInv, StaleOnlyByOverlap
  <2>3. DoneWasMined BY <2>1 DEF WritesInv, Accounted, DoneWasMined
  <2>4. ASSUME NEW i \in Intents, intent[i].execs > 1 PROVE intent[i].lost
    <3>1. intent[i] \in IntentRecs /\ Accounted(intent[i]) BY <2>1 DEF WritesInv
    <3>2. intent[i].execs \in Nat BY <3>1 DEF IntentRecs
    <3>3. Sent(intent[i]) >= intent[i].execs /\ Sent(intent[i]) \in Nat BY <3>2 DEF Sent
    <3> QED BY <2>4, <3>1, <3>2, <3>3 DEF Accounted
  <2> QED BY <2>2, <2>3, <2>4 DEF ClientIsHonest, RepeatedOnlyWhenLost
<1> QED BY <1>1, Services, PTL

\* The persisted cursor skips no event, the watcher dispatches every event up
\* to its own, and a session at rest is the wallet's account with its signer.
THEOREM FollowersCorrect == ServicesSpec => []NothingIsSkipped
<1>1. ServicesInv => NothingIsSkipped
  <2> SUFFICES ASSUME ServicesInv PROVE NothingIsSkipped OBVIOUS
  <2>1. IndexInv /\ WalletInv BY DEF ServicesInv
  <2>2. CursorSkipsNothing
    <3> SUFFICES ASSUME ~ahead, NEW i \in 1 .. saved, ledgers[i] = "known" PROVE i \in stored
      BY DEF CursorSkipsNothing
    <3>1. saved \in 0 .. Len(ledgers) /\ Len(ledgers) \in Nat /\ IndexOrder
      BY <2>1 DEF IndexInv, IndexTypes, CursorsFit
    <3>2. i \in Known /\ i <= saved BY <3>1 DEF Known
    <3> QED BY <3>1, <3>2 DEF IndexOrder
  <2>3. WatcherMissesNothing BY <2>1 DEF IndexInv, WatchOrder, WatcherMissesNothing
  <2>4. QuietSessionIsCurrent BY <2>1 DEF WalletInv, FollowsWallet, QuietSessionIsCurrent
  <2> QED BY <2>2, <2>3, <2>4 DEF NothingIsSkipped
<1> QED BY <1>1, Services, PTL

\* A download fails only after every gateway it asked has failed, and it asks
\* somebody even when every circuit is open (selectGateways, failOne).
THEOREM DownloadsCorrect == ServicesSpec => []FailedWasTried
<1>1. ServicesInv => FailedWasTried
  BY DEF ServicesInv, GateInv, FairRace, FailedWasTried
<1> QED BY <1>1, Services, PTL

\* Caches, sessions, loops, circuits and calls keep their types and bounds.
THEOREM ServicesTyped == ServicesSpec => []ServicesTypeOK
<1>1. ServicesInv => ServicesTypeOK
  <2> SUFFICES ASSUME ServicesInv PROVE ServicesTypeOK OBVIOUS
  <2>1. ReadsInv /\ WritesInv /\ WalletInv /\ IndexInv /\ GateInv /\ WorkTypeOK
    BY DEF ServicesInv, ClientInv
  <2>2. ClientTypeOK
    <3>1. \A f \in fetches : f.epoch <= clears /\ f.val \in (0 .. onChain) \cup {Unread}
      <4> TAKE f \in fetches
      <4>1. f \in ReadCalls /\ Current(f) /\ onChain \in Nat BY <2>1 DEF ReadsInv
      <4>2. f.val \in Nat \cup {Unread} BY <4>1 DEF ReadCalls
      <4> QED BY <4>1, <4>2 DEF Current
    <3>2. ASSUME NEW i \in Intents
          PROVE  /\ intent[i].st \in {"unasked", "sending", "waiting", "queued", "done", "failed"}
                 /\ intent[i].op \in Writes /\ intent[i].execs \in 0 .. 2
      <4>1. intent[i] \in IntentRecs /\ Accounted(intent[i]) BY <2>1 DEF WritesInv
      <4>2. intent[i].execs \in Nat /\ intent[i].st \in IntentStates /\ intent[i].op \in Writes
        BY <4>1 DEF IntentRecs
      <4>3. Sent(intent[i]) >= intent[i].execs /\ Sent(intent[i]) \in Nat BY <4>2 DEF Sent
      <4>4. Sent(intent[i]) <= 2 BY <4>1, <4>3 DEF Accounted
      <4> QED BY <4>2, <4>3, <4>4 DEF IntentStates
    <3>3. entry.age \in 0 .. Ttl /\ node \in 0 .. onChain BY <2>1 DEF ReadsInv, Entries
    <3> QED BY <2>1, <3>1, <3>2, <3>3 DEF ClientTypeOK, ReadsInv
  <2>3. WalletTypeOK
    BY <2>1, TwoChecks DEF WalletInv, WalletTypes, WalletTypeOK, Accounts
  <2>4. IndexTypeOK
    BY <2>1 DEF IndexInv, IndexTypes, CursorsFit, WireFits, LoopsFit, IndexTypeOK, Known
  <2>5. GateTypeOK
    <3>1. \A g \in Gateways : circuits[g] \in Circuits /\ health[g] \in Healths BY <2>1 DEF GateInv
    <3>2. \A d \in Downloads : FairRace(gateFetches[d]) /\ probes[d].failed \subseteq probes[d].asked
      BY <2>1 DEF GateInv
    <3>3. \A g \in Gateways : /\ circuits[g].fails \in 0 .. FailureThreshold
                              /\ circuits[g].until \in 0 .. MaxGateTime + Cooldown
                              /\ health[g].state \in {"CLOSED", "OPEN", "HALF_OPEN"}
                              /\ health[g].backoff \in 0 .. MaxBackoff
      BY <3>1 DEF Circuits, Healths
    <3> QED BY <3>2, <3>3 DEF GateTypeOK, FairRace
  <2> QED BY <2>1, <2>2, <2>3, <2>4, <2>5 DEF ServicesTypeOK
<1> QED BY <1>1, Services, PTL

=============================================================================
