--------------------------- MODULE CryptoWorkers ---------------------------
(***************************************************************************)
(* The worker pools of the browser: CryptoWorkerService hands encrypt,     *)
(* decrypt, split and re-encrypt requests to a pool in turn, and           *)
(* Argon2WorkerService hands key derivations to one worker.  A request     *)
(* waits in pendingRequests until a response with its id arrives; without  *)
(* workers the operation runs inline.  A worker answers nothing once it    *)
(* crashed while loading (onerror only logs) or was terminated.            *)
(***************************************************************************)
EXTENDS Naturals, FiniteSets

CONSTANTS
    PoolSize,     \* hardwareConcurrency
    WorkCalls,    \* ids of calls
    MaxCrashes    \* bound on workers that fail to load

ASSUME WorkerConstants ==
    PoolSize \in Nat \ {0} /\ IsFiniteSet(WorkCalls) /\ MaxCrashes \in Nat

CryptoKinds == {"ENCRYPT", "DECRYPT", "SPLIT_SECRET", "REENCRYPT_ENVELOPE"}
WorkKinds   == CryptoKinds \cup {"DERIVE_KEY"}
Workers     == 0..PoolSize     \* 0 is the Argon2 worker

VARIABLES
    pool,       \* workers in the services' hands
    broken,     \* workers that never answer again
    nextWorker, \* nextWorkerIndex
    calls,      \* [WorkCalls -> [kind, state, worker]]
    inbox,      \* calls posted to a worker and not handled
    replies     \* responses on their way back: [id, ok]

workVars == <<pool, broken, nextWorker, calls, inbox, replies>>

NoCall == [kind |-> "DERIVE_KEY", state |-> "none", worker |-> 0]

\* With no Worker constructor both services start without workers.
WorkInit ==
    /\ pool \in {Workers, {}}
    /\ broken = {} /\ nextWorker = 0
    /\ calls = [c \in WorkCalls |-> NoCall]
    /\ inbox = {} /\ replies = {}

\* getNextWorker and the single Argon2 worker.
Chosen(kind) == IF kind = "DERIVE_KEY" THEN {0} \cap pool
                ELSE IF pool \ {0} = {} THEN {} ELSE {nextWorker + 1}

\* The public calls: with a worker the request is registered and posted, else it runs inline.
Call(c, kind) ==
    /\ calls[c].state = "none"
    /\ IF Chosen(kind) = {}
       THEN /\ calls' = [calls EXCEPT ![c] = [kind |-> kind, state |-> "inline", worker |-> 0]]
            /\ UNCHANGED <<nextWorker, inbox>>
       ELSE /\ \E w \in Chosen(kind) :
                 calls' = [calls EXCEPT ![c] = [kind |-> kind, state |-> "pending", worker |-> w]]
            /\ nextWorker' = IF kind = "DERIVE_KEY" THEN nextWorker ELSE (nextWorker + 1) % PoolSize
            /\ inbox' = inbox \cup {c}
    /\ UNCHANGED <<pool, broken, replies>>

RunInline(c) ==
    /\ calls[c].state = "inline"
    /\ \E how \in {"resolved", "rejected"} : calls' = [calls EXCEPT ![c].state = how]
    /\ UNCHANGED <<pool, broken, nextWorker, inbox, replies>>

(* The handler installed in the worker.  crypto.worker.ts assigns          *)
(* self.onmessage twice: the second handler, which stays, knows only       *)
(* COMPUTE_HASH and ignores everything the pool sends.                     *)
Handles(kind) == kind = "DERIVE_KEY"

\* A handled request is answered with a result or with ERROR.
Reply(c, ok) == {[id |-> c, ok |-> ok]}

HandleMessage(c) ==
    /\ c \in inbox /\ calls[c].worker \notin broken
    /\ inbox' = inbox \ {c}
    /\ \/ /\ Handles(calls[c].kind)
          /\ \E ok \in BOOLEAN : replies' = replies \cup Reply(c, ok)
       \/ ~Handles(calls[c].kind) /\ UNCHANGED replies
    /\ UNCHANGED <<pool, broken, nextWorker, calls>>

\* worker.onmessage on the page: an id that is not pending is ignored.
OnResponse(r) ==
    /\ r \in replies
    /\ replies' = replies \ {r}
    /\ calls' = IF calls[r.id].state # "pending" THEN calls
                ELSE [calls EXCEPT ![r.id].state = IF r.ok THEN "resolved" ELSE "rejected"]
    /\ UNCHANGED <<pool, broken, nextWorker, inbox>>

\* onerror: a worker script that cannot be loaded; the service only logs it.
WorkerError(w) ==
    /\ w \in pool \ broken /\ Cardinality(broken) < MaxCrashes
    /\ broken' = broken \cup {w}
    /\ UNCHANGED <<pool, nextWorker, calls, inbox, replies>>

\* terminate of either service: its workers stop, pendingRequests is left as it is.
Terminate(ws) ==
    /\ ws \subseteq pool /\ ws # {}
    /\ pool' = pool \ ws /\ broken' = broken \cup ws
    /\ UNCHANGED <<nextWorker, calls, inbox, replies>>

WorkNext ==
    \/ \E c \in WorkCalls :
         (\E kind \in WorkKinds : Call(c, kind)) \/ RunInline(c) \/ HandleMessage(c)
    \/ \E r \in replies : OnResponse(r)
    \/ \E w \in Workers : WorkerError(w)
    \/ Terminate({0} \cap pool) \/ Terminate(pool \ {0})

---------------------------------------------------------------------------

\* Type invariant of the workers and their calls.
WorkTypeOK ==
    /\ pool \subseteq Workers /\ broken \subseteq Workers /\ nextWorker \in 0..(PoolSize - 1)
    /\ calls \in [WorkCalls -> [kind : WorkKinds, worker : Workers,
                    state : {"none", "inline", "pending", "resolved", "rejected"}]]
    /\ inbox \subseteq WorkCalls /\ replies \subseteq [id : WorkCalls, ok : BOOLEAN]

WorkDone(c) == calls[c].state \in {"resolved", "rejected"}

(* A key derivation settles unless its worker was terminated or never      *)
(* loaded, in which case the promise waits for ever.                       *)
DerivationsSettle ==
    \A c \in WorkCalls :
        (calls[c].state # "none" /\ calls[c].kind = "DERIVE_KEY")
            ~> (WorkDone(c) \/ 0 \in broken)

=============================================================================
