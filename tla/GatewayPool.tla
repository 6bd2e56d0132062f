----------------------------- MODULE GatewayPool -----------------------------
(***************************************************************************)
(* Downloads from IPFS gateways.  Two clients share the idea of a circuit  *)
(* per gateway: createIpfsGatewayClient races full downloads and keeps a   *)
(* time until which a gateway is skipped; IpfsGatewayService races HEAD    *)
(* probes among the best gateways, then downloads from the winner, and     *)
(* keeps CLOSED, OPEN and HALF_OPEN with a growing backoff.  Downloads run *)
(* concurrently and share the circuits.  RaceNext is the first client,     *)
(* ScoreNext the second; they have no state in common.                     *)
(***************************************************************************)
EXTENDS Naturals, FiniteSets

CONSTANTS
    Gateways,         \* the pool
    Downloads,        \* ids of downloads
    Cooldown,         \* how long a tripped gateway is skipped
    FailureThreshold, \* failures in a row that trip it
    TopN,             \* gateways probed per download (3 in the code)
    MinBackoff, MaxBackoff,
    MaxGateTime       \* bound on the clock

ASSUME GatewayConstants ==
    /\ Gateways # {} /\ IsFiniteSet(Gateways)
    /\ Cooldown \in Nat /\ FailureThreshold \in Nat \ {0} /\ TopN \in Nat \ {0}
    /\ MaxBackoff \in Nat /\ MinBackoff \in 0 .. MaxBackoff /\ MaxGateTime \in Nat

VARIABLES
    gateTime,
    circuits,   \* [Gateways -> [fails, until]] of the racing client
    gateFetches,    \* its downloads
    health,     \* [Gateways -> [fails, state, tripped, backoff]] of the scoring client
    probes      \* its downloads

raceVars  == <<circuits, gateFetches>>
scoreVars == <<health, probes>>
gateVars  == <<gateTime, circuits, gateFetches, health, probes>>

NoFetch == [state |-> "none", asked |-> {}, failed |-> {}, winner |-> {}, whole |-> FALSE]

RaceInit ==
    /\ circuits = [g \in Gateways |-> [fails |-> 0, until |-> 0]]
    /\ gateFetches = [d \in Downloads |-> NoFetch]

Healthy == {g \in Gateways : circuits[g].until <= gateTime}

\* Mutant: with every circuit open nothing is asked.
SelectGateways_Healthy == Healthy
\* selectGateways: with every circuit open all are tried.
SelectGateways == IF Healthy # {} THEN Healthy ELSE Gateways

FetchFile(d) ==
    /\ gateFetches[d].state = "none"
    /\ gateFetches' = [gateFetches EXCEPT ![d].state = "racing", ![d].asked = SelectGateways]
    /\ UNCHANGED <<gateTime, circuits, scoreVars>>

\* A gateway whose answer the race still waits for.
Waiting(d, g) == gateFetches[d].state = "racing" /\ g \in gateFetches[d].asked \ gateFetches[d].failed

(* The first 2xx wins and aborts the shared signal.  The winner's own      *)
(* request listens to that signal too, so its body can be read only if it  *)
(* had arrived whole together with the headers.                            *)
GatewayAnswers(d, g, whole) ==
    /\ Waiting(d, g)
    /\ circuits' = [circuits EXCEPT ![g] = [fails |-> 0, until |-> 0]]
    /\ gateFetches' = [gateFetches EXCEPT ![d].state = "won", ![d].winner = {g}, ![d].whole = whole]
    /\ UNCHANGED <<gateTime, scoreVars>>

RecordFailure(g) ==
    LET n == circuits[g].fails + 1 IN
    [fails |-> IF n > FailureThreshold THEN FailureThreshold ELSE n,
     until |-> IF n >= FailureThreshold THEN gateTime + Cooldown ELSE circuits[g].until]

\* failOne: 429, 5xx, 401, 403, a timeout or a network error trips, another status does not.
GatewayFails(d, g, trip) ==
    /\ Waiting(d, g)
    /\ gateFetches' = [gateFetches EXCEPT ![d].failed = @ \cup {g},
         ![d].state = IF gateFetches[d].failed \cup {g} = gateFetches[d].asked THEN "failed" ELSE @]
    /\ circuits' = IF trip THEN [circuits EXCEPT ![g] = RecordFailure(g)] ELSE circuits
    /\ UNCHANGED <<gateTime, scoreVars>>

\* onExternalAbort
CancelFetch(d) ==
    /\ gateFetches[d].state = "racing"
    /\ gateFetches' = [gateFetches EXCEPT ![d].state = "cancelled"]
    /\ UNCHANGED <<gateTime, circuits, scoreVars>>

ResetCircuits ==
    /\ circuits' = [g \in Gateways |-> [fails |-> 0, until |-> 0]]
    /\ UNCHANGED <<gateTime, gateFetches, scoreVars>>

GateTick ==
    /\ gateTime < MaxGateTime /\ gateTime' = gateTime + 1
    /\ UNCHANGED <<circuits, gateFetches, health, probes>>

RaceNext ==
    \/ GateTick \/ ResetCircuits
    \/ \E d \in Downloads :
          \/ FetchFile(d) \/ CancelFetch(d)
          \/ \E g \in Gateways, b \in BOOLEAN : GatewayAnswers(d, g, b) \/ GatewayFails(d, g, b)

-----------------------------------------------------------------------------
ScoreInit ==
    /\ health = [g \in Gateways |->
                   [fails |-> 0, state |-> "CLOSED", tripped |-> 0, backoff |-> MinBackoff]]
    /\ probes = [d \in Downloads |-> NoFetch]

Recovered == [fails |-> 0, state |-> "CLOSED", tripped |-> 0, backoff |-> MinBackoff]

Smaller(a, b) == IF a <= b THEN a ELSE b

\* Mutant: the backoff doubles without a limit.
Failed_Uncapped(h, n) ==
    IF h.state = "OPEN" THEN h
    ELSE [fails |-> FailureThreshold, state |-> "OPEN", tripped |-> gateTime, backoff |-> 2 * h.backoff]
(* recordFailure of the scorer, n times in a row at one moment.  Failures  *)
(* are counted up to the threshold, above which their number is not read.  *)
Failed(h, n) ==
    LET f == Smaller(h.fails + n, FailureThreshold) IN
    IF f >= FailureThreshold /\ h.state # "OPEN"
    THEN [fails |-> f, state |-> "OPEN", tripped |-> gateTime,
          backoff |-> Smaller(2 * h.backoff, MaxBackoff)]
    ELSE [h EXCEPT !.fails = f]

\* maybeTransitionToHalfOpen of every gateway.
HalfOpened ==
    [g \in Gateways |->
        IF health[g].state = "OPEN" /\ gateTime - health[g].tripped >= health[g].backoff
        THEN [health[g] EXCEPT !.state = "HALF_OPEN"] ELSE health[g]]

\* topHealthy: the best of the gateways that are not OPEN; the score is any order.
Tops(h) ==
    LET up == {g \in Gateways : h[g].state # "OPEN"} IN
    {s \in SUBSET up : Cardinality(s) = Smaller(TopN, Cardinality(up))}

(* fetch: circuits whose backoff is over are half-opened before the        *)
(* ranking; with none left it throws.  probeAndSelectGateway does so only  *)
(* when none is left, and then returns the default gateway.                *)
Probe(d, select) ==
    /\ probes[d].state = "none"
    /\ LET h == IF select /\ Tops(health) # {{}} THEN health ELSE HalfOpened IN
       /\ health' = h
       /\ \E s \in Tops(h) :
             probes' = [probes EXCEPT ![d].asked = s, ![d].whole = select,
                          ![d].state = IF s = {} THEN IF select THEN "won" ELSE "failed"
                                       ELSE "racing"]
    /\ UNCHANGED <<gateTime, raceVars>>

\* A HEAD probe that was sent and not answered yet; late ones count as well.
Probing(d, g) == g \in probes[d].asked \ (probes[d].failed \cup probes[d].winner)

\* 2xx: the circuit closes; the first one chooses the gateway to download from.
ProbeAnswers(d, g) ==
    /\ Probing(d, g)
    /\ health' = [health EXCEPT ![g] = Recovered]
    /\ probes' = IF probes[d].state = "racing"
                 THEN [probes EXCEPT ![d].winner = {g},
                         ![d].state = IF probes[d].whole THEN "won" ELSE "download"]
                 ELSE [probes EXCEPT ![d].asked = @ \ {g}]
    /\ UNCHANGED <<gateTime, raceVars>>

ProbeFails(d, g) ==
    /\ Probing(d, g)
    /\ health' = [health EXCEPT ![g] = Failed(@, 1)]
    /\ probes' = [probes EXCEPT ![d].failed = @ \cup {g},
         ![d].state = IF @ = "racing" /\ probes[d].failed \cup {g} = probes[d].asked
                      THEN "failed" ELSE @]
    /\ UNCHANGED <<gateTime, raceVars>>

\* The download from the winner; an HTTP error is recorded in the try block and in its catch.
Download(d, outcome) ==
    /\ probes[d].state = "download"
    /\ probes' = [probes EXCEPT ![d].state = IF outcome = "ok" THEN "won" ELSE "failed"]
    /\ health' = [g \in Gateways |->
         IF g \in probes[d].winner
         THEN IF outcome = "http" THEN Failed(Failed(health[g], 1), 1)
              ELSE IF outcome = "ok" THEN health[g] ELSE Failed(health[g], 1)
         ELSE health[g]]
    /\ UNCHANGED <<gateTime, raceVars>>

ScoreNext ==
    \/ GateTick
    \/ \E d \in Downloads :
          \/ \E b \in BOOLEAN : Probe(d, b)
          \/ \E g \in Gateways : ProbeAnswers(d, g) \/ ProbeFails(d, g)
          \/ \E o \in {"ok", "http", "network"} : Download(d, o)

GateInit == gateTime = 0 /\ RaceInit /\ ScoreInit

-----------------------------------------------------------------------------
\* Circuits, downloads and their sets of gateways keep their types.
GateTypeOK ==
    /\ \A g \in Gateways :
          /\ circuits[g].fails \in 0 .. FailureThreshold
          /\ circuits[g].until \in 0 .. MaxGateTime + Cooldown
          /\ health[g].state \in {"CLOSED", "OPEN", "HALF_OPEN"}
          /\ health[g].backoff \in 0 .. MaxBackoff
    /\ \A d \in Downloads :
          /\ gateFetches[d].failed \cup gateFetches[d].winner \subseteq gateFetches[d].asked
          /\ probes[d].failed \subseteq probes[d].asked

(* A download asks somebody and settles: whatever other downloads did to   *)
(* the circuits, it ends with a response, an error or its cancellation.    *)
DownloadsSettle ==
    \A d \in Downloads :
        /\ gateFetches[d].state = "racing" ~> gateFetches[d].state \in {"won", "failed", "cancelled"}
        /\ probes[d].state = "racing" ~> probes[d].state \in {"won", "failed"}

(* A download fails only after each gateway it asked has failed, and with  *)
(* circuits that are all open it still asks all of them.                   *)
FailedWasTried ==
    \A d \in Downloads :
        /\ gateFetches[d].state = "failed" => gateFetches[d].failed # {} /\ gateFetches[d].failed = gateFetches[d].asked
        /\ gateFetches[d].state \in {"racing", "won", "failed"} => gateFetches[d].asked # {}

=============================================================================
