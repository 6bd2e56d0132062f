------------------------------ MODULE RelayQueue ------------------------------
(***************************************************************************)
(* relayer/queue.ts: the queue of notifications that journals its state to *)
(* disk, drops jobs it has met, dispatches one job at a time and retries   *)
(* with backoff until a job is delivered or dead-lettered.                 *)
(*                                                                         *)
(* The handler runs between Pump and Succeed or Fail; meanwhile only       *)
(* Enqueue changes the jobs.  What the code keeps across that await is the *)
(* index of the job and the job object, so both are in inFlight.           *)
(***************************************************************************)
EXTENDS Naturals, Sequences, FiniteSets

CONSTANTS
    JobIds,
    MaxAttempts,        \* maxAttempts
    MaxCompletedIds,    \* MAX_COMPLETED_IDS
    MaxDeadJobs,        \* MAX_DEAD_JOBS
    MaxDiskFailures     \* bound on failed writes

VARIABLES
    queue,         \* this.state
    inFlight,      \* the dueIndex and job of a running handler, or Idle
    disk,          \* the journal
    diskFailures   \* history: writes of the journal that failed

queueVars == <<queue, inFlight, disk, diskFailures>>

Job == [id : JobIds, attempts : Nat, waiting : BOOLEAN]
Idle == [index |-> 0]

TypeOfQueue == [jobs : Seq(Job), completedIds : Seq(JobIds), dead : Seq(JobIds)]
EmptyQueue == [jobs |-> <<>>, completedIds |-> <<>>, dead |-> <<>>]

IdsOf(jobs) == {jobs[i].id : i \in 1 .. Len(jobs)}
Members(list) == {list[i] : i \in 1 .. Len(list)}

Init ==
    /\ queue = EmptyQueue
    /\ inFlight = Idle
    /\ disk = EmptyQueue
    /\ diskFailures = 0

\* persist: a failed write is logged and leaves the old journal.
Persist(q) ==
    \/ disk' = q /\ UNCHANGED diskFailures
    \/ /\ diskFailures < MaxDiskFailures
       /\ diskFailures' = diskFailures + 1
       /\ UNCHANGED disk

\* Mutant: only jobs still queued are recognised.
Seen_Active(id) == id \in IdsOf(queue.jobs)

Seen(id) ==
    id \in IdsOf(queue.jobs) \cup Members(queue.completedIds) \cup Members(queue.dead)

NewJob(id) == [id |-> id, attempts |-> 0, waiting |-> FALSE]

\* Mutant: a new job goes to the front of the queue.
Enqueue_Front(id) ==
    /\ UNCHANGED inFlight
    /\ IF Seen(id) THEN UNCHANGED <<queue, disk, diskFailures>>
       ELSE LET q == [queue EXCEPT !.jobs = <<NewJob(id)>> \o @]
            IN  queue' = q /\ Persist(q)

Enqueue(id) ==
    /\ UNCHANGED inFlight
    /\ IF Seen(id) THEN UNCHANGED <<queue, disk, diskFailures>>
       ELSE LET q == [queue EXCEPT !.jobs = Append(@, NewJob(id))]
            IN  queue' = q /\ Persist(q)

\* The time of a job's next attempt comes.
BackoffEnds(i) ==
    /\ i \in 1 .. Len(queue.jobs)
    /\ queue.jobs[i].waiting
    /\ queue' = [queue EXCEPT !.jobs[i].waiting = FALSE]
    /\ UNCHANGED <<inFlight, disk, diskFailures>>

\* Mutant: a job that failed is not taken up again.
Pump_Once ==
    /\ inFlight = Idle
    /\ \E i \in 1 .. Len(queue.jobs) :
         /\ queue.jobs[i].attempts = 0
         /\ queue' = [queue EXCEPT !.jobs[i].attempts = @ + 1]
         /\ inFlight' = [index |-> i, id |-> queue.jobs[i].id]
    /\ UNCHANGED <<disk, diskFailures>>

\* pump up to the await: the first job that is due is handed to the handler.
Pump ==
    /\ inFlight = Idle
    /\ \E i \in 1 .. Len(queue.jobs) :
         /\ ~queue.jobs[i].waiting
         /\ \A k \in 1 .. (i - 1) : queue.jobs[k].waiting
         /\ queue' = [queue EXCEPT !.jobs[i].attempts = @ + 1]
         /\ inFlight' = [index |-> i, id |-> queue.jobs[i].id]
    /\ UNCHANGED <<disk, diskFailures>>

\* Mutant: the list is never cut.
Newest_All(list, n) == list

Newest(list, n) ==
    IF Len(list) > n THEN [k \in 1 .. n |-> list[Len(list) - n + k]] ELSE list

\* splice(i, 1)
Splice(list, i) ==
    [k \in 1 .. (Len(list) - 1) |-> IF k < i THEN list[k] ELSE list[k + 1]]

Busy == inFlight # Idle

\* Mutant: the journal is not written when a job is done.
Succeed_Unsaved ==
    /\ Busy
    /\ queue' = [queue EXCEPT
                   !.jobs = Splice(@, inFlight.index),
                   !.completedIds = Newest(Append(@, inFlight.id), MaxCompletedIds)]
    /\ inFlight' = Idle
    /\ UNCHANGED <<disk, diskFailures>>

\* The handler returned.
Succeed ==
    /\ Busy
    /\ LET q == [queue EXCEPT
                   !.jobs = Splice(@, inFlight.index),
                   !.completedIds = Newest(Append(@, inFlight.id), MaxCompletedIds)]
       IN  queue' = q /\ Persist(q)
    /\ inFlight' = Idle

\* The job object the handler was given, wherever it is in the list.
Attempts == LET i == CHOOSE i \in 1 .. Len(queue.jobs) : queue.jobs[i].id = inFlight.id
            IN  queue.jobs[i].attempts

LastAttempt == Attempts >= MaxAttempts

\* The handler threw.
Fail ==
    /\ Busy
    /\ LET q == IF LastAttempt
                THEN [queue EXCEPT
                        !.jobs = Splice(@, inFlight.index),
                        !.dead = Newest(Append(@, inFlight.id), MaxDeadJobs)]
                ELSE [queue EXCEPT
                        !.jobs = [i \in DOMAIN @ |->
                                    IF @[i].id = inFlight.id
                                    THEN [@[i] EXCEPT !.waiting = TRUE] ELSE @[i]]]
       IN  queue' = q /\ Persist(q)
    /\ inFlight' = Idle

\* The process is gone; the journal stays.
Halt ==
    /\ queue' = EmptyQueue
    /\ inFlight' = Idle
    /\ UNCHANGED <<disk, diskFailures>>

\* The constructor of a new process: load.
Load ==
    /\ queue' = disk
    /\ UNCHANGED <<inFlight, disk, diskFailures>>

-----------------------------------------------------------------------------

\* A job is in one place only: queued once, or recently finished, or dead.
OneRecord(q) ==
    /\ \A i, k \in 1 .. Len(q.jobs) : q.jobs[i].id = q.jobs[k].id => i = k
    /\ IdsOf(q.jobs) \cap (Members(q.completedIds) \cup Members(q.dead)) = {}

=============================================================================
