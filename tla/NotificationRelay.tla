--------------------------- MODULE NotificationRelay ---------------------------
(***************************************************************************)
(* The guardian notification relayer (relayer/main.ts) on top of           *)
(* RelayQueue: listeners sweep the logs of two chains from cursors kept in *)
(* memory (relayer/listeners.ts), each new event's guardians are resolved  *)
(* (relayer/guardianResolver.ts), one job per guardian is queued and       *)
(* dispatched (relayer/notifier.ts), across crashes and restarts.          *)
(***************************************************************************)
EXTENDS Naturals, Sequences, FiniteSets

CONSTANTS
    Guardians,          \* the guardians a registry may name
    MaxLog,             \* bound on the blocks (or events) of both chains
    SweepLimit,         \* blocks of one EVM sweep, events of one Soroban page
    StartBlocks,        \* values of RELAYER_EVM_START_BLOCK; 0 when unset
    MaxAttempts, MaxCompletedIds, MaxDeadJobs, MaxDiskFailures,
    MaxEnds             \* bound on crashes and ordered shutdowns

ASSUME RelayAssumptions ==
    /\ MaxLog \in Nat /\ SweepLimit \in Nat \ {0} /\ StartBlocks \subseteq Nat
    /\ MaxAttempts \in Nat \ {0}
    /\ MaxCompletedIds \in Nat \ {0} /\ MaxDeadJobs \in Nat \ {0}
    /\ MaxDiskFailures \in Nat /\ MaxEnds \in Nat

Chains == {"evm", "soroban"}
Events == Chains \X (1 .. MaxLog)
JobIds == Events \X Guardians

VARIABLES
    log,           \* log[c][i]: is the i-th block or event an AccessRequested?
    running,
    cursor,        \* lastBlock, and the paging token of the last event
    from,          \* history: the cursors this process began with
    seen,          \* the events this process has met
    resolving,     \* events whose guardians are being looked up
    building,      \* jobs the loop of handleEvent has still to queue
    stopping,      \* stop was called and waits for the handler
    queue, inFlight, disk, diskFailures,
    delivered,     \* times a channel accepted a job, counted up to 2
    buried,        \* jobs that were dead-lettered
    crashes, stops

Q == INSTANCE RelayQueue

memory == <<cursor, from, seen, resolving, building, stopping>>
history == <<delivered, buried>>
vars == <<log, running, memory, queue, inFlight, disk, diskFailures, history, crashes, stops>>

\* Types. The queues of the channels, journals, cursors and histories have their types.
TypeOK ==
    /\ log \in [Chains -> Seq(BOOLEAN)]
    /\ running \in BOOLEAN /\ stopping \in BOOLEAN
    /\ cursor \in [Chains -> 0 .. MaxLog] /\ from \in [Chains -> 0 .. MaxLog]
    /\ seen \subseteq Events
    /\ resolving \subseteq seen
    /\ building \subseteq JobIds
    /\ queue \in Q!TypeOfQueue /\ disk \in Q!TypeOfQueue
    /\ inFlight = Q!Idle \/ inFlight \in [index : Nat \ {0}, id : JobIds]
    /\ Len(queue.completedIds) <= MaxCompletedIds
    /\ Len(queue.dead) <= MaxDeadJobs
    /\ diskFailures \in 0 .. MaxDiskFailures
    /\ delivered \in [JobIds -> 0 .. 2]
    /\ buried \subseteq JobIds
    /\ crashes \in 0 .. MaxEnds /\ stops \in 0 .. MaxEnds

Forget ==
    /\ cursor' = [c \in Chains |-> 0] /\ from' = [c \in Chains |-> 0]
    /\ seen' = {}
    /\ resolving' = {}
    /\ building' = {}
    /\ stopping' = FALSE

Init ==
    /\ log = [c \in Chains |-> <<>>]
    /\ running = FALSE
    /\ cursor = [c \in Chains |-> 0] /\ from = [c \in Chains |-> 0]
    /\ seen = {} /\ resolving = {} /\ building = {}
    /\ stopping = FALSE
    /\ Q!Init
    /\ delivered = [j \in JobIds |-> 0]
    /\ buried = {}
    /\ crashes = 0 /\ stops = 0

Least(m, n) == IF m < n THEN m ELSE n

-----------------------------------------------------------------------------
(* The chains                                                              *)

\* external: a block or a contract event, an AccessRequested or not.
Emit(c, isRequest) ==
    /\ Len(log["evm"]) + Len(log["soroban"]) < MaxLog
    /\ log' = [log EXCEPT ![c] = Append(@, isRequest)]
    /\ UNCHANGED <<running, memory, queue, inFlight, disk, diskFailures, history, crashes, stops>>

-----------------------------------------------------------------------------
(* The process                                                             *)

\* Where a new listener begins: the EVM one at the configured block or at the
\* head, the Soroban one without a cursor, at the oldest event.
FirstCursor(c, b) ==
    IF c = "soroban" THEN 0
    ELSE IF b > 0 THEN Least(b - 1, Len(log[c])) ELSE Len(log[c])

Start(b) ==
    /\ ~running
    /\ running' = TRUE
    /\ cursor' = [c \in Chains |-> FirstCursor(c, b)]
    /\ from' = cursor'
    /\ Q!Load
    /\ UNCHANGED <<log, seen, resolving, building, stopping, history, crashes, stops>>

Crash ==
    /\ running
    /\ crashes + stops < MaxEnds
    /\ running' = FALSE
    /\ crashes' = crashes + 1
    /\ Forget
    /\ Q!Halt
    /\ UNCHANGED <<log, history, stops>>

\* stop on SIGINT or SIGTERM.
Stop ==
    /\ running /\ ~stopping /\ building = {}
    /\ crashes + stops < MaxEnds
    /\ stopping' = TRUE
    /\ stops' = stops + 1
    /\ UNCHANGED <<log, running, cursor, from, seen, resolving, building>>
    /\ UNCHANGED <<queue, inFlight, disk, diskFailures, history, crashes>>

\* stop has awaited the handler: process.exit.
Exit ==
    /\ running /\ stopping /\ building = {}
    /\ inFlight = Q!Idle
    /\ running' = FALSE
    /\ Forget
    /\ Q!Halt
    /\ UNCHANGED <<log, history, crashes, stops>>

-----------------------------------------------------------------------------
(* Listeners and resolver                                                  *)

Requested(e) == e[2] <= Len(log[e[1]]) /\ log[e[1]][e[2]]

\* The last block or event of the next sweep.
SweepEnd(c) == Least(Len(log[c]), cursor[c] + SweepLimit)

\* The access requests of the next sweep that this process has not met.
NewEvents(c) == {e \in {c} \X ((cursor[c] + 1) .. SweepEnd(c)) : Requested(e)} \ seen

\* Mutant: the cursor moves to the head, past what the sweep covered.
Poll_ToHead(c) ==
    /\ running /\ building = {}
    /\ cursor[c] < Len(log[c])
    /\ seen' = seen \cup NewEvents(c)
    /\ resolving' = resolving \cup NewEvents(c)
    /\ cursor' = [cursor EXCEPT ![c] = Len(log[c])]
    /\ UNCHANGED <<log, running, from, building, stopping, queue, inFlight, disk, diskFailures>>
    /\ UNCHANGED <<history, crashes, stops>>

\* A sweep of the log that succeeds; a sweep that fails changes nothing.  A
\* sweep that is under way when stop is called may still report.
Poll(c) ==
    /\ running /\ building = {}
    /\ cursor[c] < Len(log[c])
    /\ seen' = seen \cup NewEvents(c)
    /\ resolving' = resolving \cup NewEvents(c)
    /\ cursor' = [cursor EXCEPT ![c] = SweepEnd(c)]
    /\ UNCHANGED <<log, running, from, building, stopping, queue, inFlight, disk, diskFailures>>
    /\ UNCHANGED <<history, crashes, stops>>

\* What the registry of contacts may answer, a cached answer included.
Answers == SUBSET Guardians

\* buildJobs: one job per contact that some channel reaches.
JobsFor(e, contacts) == {e} \X contacts

\* handleEvent after resolve.
Resolve(e, contacts) ==
    /\ building = {}
    /\ e \in resolving
    /\ resolving' = resolving \ {e}
    /\ building' = JobsFor(e, contacts)
    /\ UNCHANGED <<log, running, cursor, from, seen, stopping, queue, inFlight, disk, diskFailures>>
    /\ UNCHANGED <<history, crashes, stops>>

\* resolve threw: handleEvent logs the error.
ResolveFails(e) ==
    /\ building = {}
    /\ e \in resolving
    /\ resolving' = resolving \ {e}
    /\ UNCHANGED <<log, running, cursor, from, seen, building, stopping>>
    /\ UNCHANGED <<queue, inFlight, disk, diskFailures, history, crashes, stops>>

\* One turn of the loop over the jobs; a crash may cut it short.
EnqueueNext(j) ==
    /\ j \in building
    /\ building' = building \ {j}
    /\ Q!Enqueue(j)
    /\ UNCHANGED <<log, running, cursor, from, seen, resolving, stopping, history, crashes, stops>>

-----------------------------------------------------------------------------
(* Dispatch                                                                *)

Pump ==
    /\ running /\ ~stopping /\ building = {}
    /\ Q!Pump
    /\ UNCHANGED <<log, running, memory, history, crashes, stops>>

BackoffEnds(i) ==
    /\ running /\ building = {}
    /\ Q!BackoffEnds(i)
    /\ UNCHANGED <<log, running, memory, history, crashes, stops>>

\* A channel accepted the notification and the handler returned.
Deliver ==
    /\ building = {}
    /\ Q!Succeed
    /\ delivered' = [delivered EXCEPT ![inFlight.id] = Least(@ + 1, 2)]
    /\ UNCHANGED <<log, running, memory, buried, crashes, stops>>

\* A channel accepts the notification and the process dies before the queue
\* has recorded it.
DeliverAndCrash ==
    /\ building = {}
    /\ inFlight # Q!Idle
    /\ crashes + stops < MaxEnds
    /\ delivered' = [delivered EXCEPT ![inFlight.id] = Least(@ + 1, 2)]
    /\ running' = FALSE
    /\ crashes' = crashes + 1
    /\ Forget
    /\ Q!Halt
    /\ UNCHANGED <<log, buried, stops>>

\* Every channel failed or timed out.
DeliveryFails ==
    /\ building = {}
    /\ Q!Fail
    /\ buried' = IF Q!LastAttempt THEN buried \cup {inFlight.id} ELSE buried
    /\ UNCHANGED <<log, running, memory, delivered, crashes, stops>>

Next ==
    \/ \E c \in Chains, isRequest \in BOOLEAN : Emit(c, isRequest)
    \/ \E b \in StartBlocks : Start(b)
    \/ Crash \/ Stop \/ Exit
    \/ \E c \in Chains : Poll(c)
    \/ \E e \in resolving : ResolveFails(e)
    \/ \E e \in resolving, contacts \in Answers : Resolve(e, contacts)
    \/ \E j \in building : EnqueueNext(j)
    \/ Pump
    \/ \E i \in 1 .. Len(queue.jobs) : BackoffEnds(i)
    \/ Deliver \/ DeliverAndCrash \/ DeliveryFails

Spec == Init /\ [][Next]_vars

\* Timers fire, and every request to a channel is cut off by its timeout, so
\* a running process goes on; it is not assumed to be restarted.
Fairness ==
    /\ WF_vars(\E j \in building : EnqueueNext(j))
    /\ WF_vars(Pump)
    /\ WF_vars(\E i \in 1 .. Len(queue.jobs) : BackoffEnds(i))
    /\ WF_vars(Deliver \/ DeliveryFails)

FairSpec == Spec /\ Fairness

-----------------------------------------------------------------------------
(* Properties                                                              *)

\* The queue "dedupes jobs by id": in memory and in the journal a job is in
\* one place only, and the index a running handler was started with still
\* names its job when the handler returns, whatever was queued meanwhile.
OneRecordPerJob ==
    /\ Q!OneRecord(queue) /\ Q!OneRecord(disk)
    /\ inFlight # Q!Idle =>
         /\ inFlight.index <= Len(queue.jobs)
         /\ queue.jobs[inFlight.index].id = inFlight.id

\* The queue "survives restarts": a job leaves the journal only when it was
\* delivered or dead-lettered, whatever crashes and failed writes there were.
JournalLosesNothing ==
    [][\A j \in Q!IdsOf(disk.jobs) :
         j \in Q!IdsOf(disk'.jobs) \/ delivered'[j] > 0 \/ j \in buried']_vars

\* Without a crash, a failed write or so many jobs that the memory of finished
\* ones ran over, no guardian is notified twice of an event, though sweeps are
\* repeated after every restart.
NotifiedOnce ==
    \A j \in JobIds : delivered[j] > 1 =>
       \/ crashes > 0
       \/ diskFailures > 0
       \/ Cardinality({k \in JobIds : delivered[k] > 0}) > MaxCompletedIds

\* A queued job is delivered or dead-lettered if the process stays up.
JobsAreSettled ==
    \A j \in JobIds :
      j \in Q!IdsOf(queue.jobs) ~> (delivered[j] > 0 \/ j \in buried \/ ~running \/ stopping)

\* Sweeps leave no gap: every access request between the cursor a listener
\* began with and its cursor was noticed, however the sweeps were cut.
SweepsLeaveNoGap ==
    \A e \in Events :
      Requested(e) /\ from[e[1]] < e[2] /\ e[2] <= cursor[e[1]] => e \in seen

=============================================================================
