------------------------ MODULE NotificationRelayProofs ------------------------
(***************************************************************************)
(* Proofs about NotificationRelay for any number of events, guardians,     *)
(* crashes, restarts and failed writes: the queue records a job once, the  *)
(* index kept across the handler stays right, the journal loses no job, no *)
(* log is swept past, and without a fault nobody is told twice.            *)
(***************************************************************************)
EXTENDS NotificationRelay, FiniteSetTheorems, TLAPS

-----------------------------------------------------------------------------
(* Lists                                                                   *)

\* splice(i, 1) takes one entry out and keeps the order of the others.
LEMMA SpliceEntries ==
    ASSUME NEW S, NEW list \in Seq(S), NEW i \in 1 .. Len(list)
    PROVE  /\ Q!Splice(list, i) \in Seq(S)
           /\ Len(Q!Splice(list, i)) = Len(list) - 1
           /\ \A k \in 1 .. (Len(list) - 1) :
                Q!Splice(list, i)[k] = IF k < i THEN list[k] ELSE list[k + 1]
<1> DEFINE r == Q!Splice(list, i)
<1>1. Len(list) \in Nat /\ Len(list) - 1 \in Nat /\ \A k \in 1 .. Len(list) : list[k] \in S
  OBVIOUS
<1>2. r = [k \in 1 .. (Len(list) - 1) |-> IF k < i THEN list[k] ELSE list[k + 1]]
  BY DEF Q!Splice
<1>3. r \in [1 .. (Len(list) - 1) -> S]
  BY <1>1, <1>2
<1>4. r \in Seq(S) /\ Len(r) = Len(list) - 1
  BY <1>1, <1>3
<1> QED
  BY <1>2, <1>4

\* The finished and dead ids that are kept are among the ones there were.
LEMMA NewestEntries ==
    ASSUME NEW S, NEW list \in Seq(S), NEW x \in S, NEW n \in Nat \ {0}
    PROVE  /\ Q!Newest(Append(list, x), n) \in Seq(S)
           /\ Q!Members(Q!Newest(Append(list, x), n)) \subseteq Q!Members(list) \cup {x}
           /\ Len(Q!Newest(Append(list, x), n)) <= n
<1> DEFINE a == Append(list, x)
           r == Q!Newest(a, n)
<1>0. /\ a \in Seq(S) /\ Len(a) = Len(list) + 1 /\ Len(list) \in Nat
      /\ \A i \in 1 .. Len(list) : a[i] = list[i]
      /\ a[Len(list) + 1] = x
  OBVIOUS
<1> HIDE DEF a
<1>1. a \in Seq(S) /\ Len(a) \in Nat /\ \A i \in 1 .. Len(a) : a[i] \in S
  BY <1>0
<1>2. \A i \in 1 .. Len(a) : a[i] \in Q!Members(list) \cup {x}
  BY <1>0 DEF Q!Members
<1>3. CASE Len(a) > n
  <2>1. r = [k \in 1 .. n |-> a[Len(a) - n + k]]
    BY <1>3 DEF Q!Newest
  <2> HIDE DEF r
  <2>2. Len(a) \in Nat /\ n \in Nat /\ \A k \in 1 .. n : Len(a) - n + k \in 1 .. Len(a)
    BY <1>1, <1>3
  <2>2a. r \in [1 .. n -> S]
    BY <1>1, <2>1, <2>2
  <2>2b. r \in Seq(S) /\ Len(r) = n
    BY <2>2, <2>2a
  <2>3. \A i \in 1 .. Len(r) : r[i] \in Q!Members(list) \cup {x}
    BY <1>2, <2>1, <2>2, <2>2b
  <2>4. Q!Members(r) \subseteq Q!Members(list) \cup {x}
    BY <2>3 DEF Q!Members
  <2> QED
    BY <2>2, <2>4, <2>2b DEF a, r
<1>4. CASE ~(Len(a) > n)
  <2>1. r = a
    BY <1>4 DEF Q!Newest
  <2>2. Q!Members(a) \subseteq Q!Members(list) \cup {x}
    BY <1>2 DEF Q!Members
  <2> QED
    BY <1>1, <1>4, <2>1, <2>2 DEF a
<1> QED
  BY <1>3, <1>4

\* Appending a job that is not in the list keeps ids distinct and entries in
\* place.
LEMMA AppendJob ==
    ASSUME NEW jobs \in Seq(Q!Job), NEW job \in Q!Job, job.id \notin Q!IdsOf(jobs),
           \A i, k \in 1 .. Len(jobs) : jobs[i].id = jobs[k].id => i = k
    PROVE  /\ Append(jobs, job) \in Seq(Q!Job)
           /\ \A i, k \in 1 .. Len(Append(jobs, job)) :
                Append(jobs, job)[i].id = Append(jobs, job)[k].id => i = k
           /\ Q!IdsOf(Append(jobs, job)) = Q!IdsOf(jobs) \cup {job.id}
           /\ Len(Append(jobs, job)) = Len(jobs) + 1
           /\ \A i \in 1 .. Len(jobs) : Append(jobs, job)[i] = jobs[i]
<1> DEFINE a == Append(jobs, job)
<1>1. a \in Seq(Q!Job) /\ Len(a) = Len(jobs) + 1 /\ Len(jobs) \in Nat
  OBVIOUS
<1>2. /\ \A i \in 1 .. Len(jobs) : a[i] = jobs[i]
      /\ a[Len(jobs) + 1] = job
  OBVIOUS
<1> HIDE DEF a
<1>3. \A i, k \in 1 .. Len(a) : a[i].id = a[k].id => i = k
  BY <1>1, <1>2 DEF Q!IdsOf
<1>4. Q!IdsOf(a) = Q!IdsOf(jobs) \cup {job.id}
  BY <1>1, <1>2 DEF Q!IdsOf
<1> QED
  BY <1>1, <1>2, <1>3, <1>4 DEF a

\* Splicing one entry out removes its id and no other.
LEMMA SpliceJob ==
    ASSUME NEW jobs \in Seq(Q!Job), NEW n \in 1 .. Len(jobs),
           \A i, k \in 1 .. Len(jobs) : jobs[i].id = jobs[k].id => i = k
    PROVE  /\ Q!Splice(jobs, n) \in Seq(Q!Job)
           /\ \A i, k \in 1 .. Len(Q!Splice(jobs, n)) :
                Q!Splice(jobs, n)[i].id = Q!Splice(jobs, n)[k].id => i = k
           /\ Q!IdsOf(Q!Splice(jobs, n)) = Q!IdsOf(jobs) \ {jobs[n].id}
<1> DEFINE r == Q!Splice(jobs, n)
           m == Len(jobs)
<1>1. r \in Seq(Q!Job) /\ Len(r) = m - 1 /\ m \in Nat
  BY SpliceEntries
<1>2. \A k \in 1 .. (m - 1) : r[k] = IF k < n THEN jobs[k] ELSE jobs[k + 1]
  BY SpliceEntries
<1> HIDE DEF r
<1>3. \A i, k \in 1 .. Len(r) : r[i].id = r[k].id => i = k
  BY <1>1, <1>2
<1>4. \A k \in 1 .. Len(r) : r[k].id \in Q!IdsOf(jobs) \ {jobs[n].id}
  BY <1>1, <1>2 DEF Q!IdsOf
<1>5. ASSUME NEW k \in 1 .. m, k # n PROVE \E i \in 1 .. Len(r) : r[i] = jobs[k]
  <2>1. CASE k < n
    BY <1>1, <1>2, <1>5, <2>1
  <2>2. CASE k > n
    <3>1. k - 1 \in 1 .. (m - 1) /\ ~(k - 1 < n) /\ (k - 1) + 1 = k
      BY <1>1, <1>5, <2>2
    <3> QED
      BY <1>1, <1>2, <3>1
  <2> QED
    BY <1>1, <1>5, <2>1, <2>2
<1>6. Q!IdsOf(r) = Q!IdsOf(jobs) \ {jobs[n].id}
  BY <1>4, <1>5 DEF Q!IdsOf
<1> QED
  BY <1>1, <1>3, <1>6 DEF r

-----------------------------------------------------------------------------
(* The queue                                                               *)

\* A queue that is well typed, within its limits, and records a job once.
Good(q) ==
    /\ q \in Q!TypeOfQueue
    /\ Len(q.completedIds) <= MaxCompletedIds
    /\ Len(q.dead) <= MaxDeadJobs
    /\ Q!OneRecord(q)

\* The index kept by a handler f names its job in q.
InPlace(q, f) ==
    \/ f = Q!Idle
    \/ /\ f \in [index : Nat \ {0}, id : JobIds]
       /\ f.index <= Len(q.jobs)
       /\ q.jobs[f.index].id = f.id

\* A job that was delivered or dead-lettered.
Settled(j) == delivered[j] > 0 \/ j \in buried

\* enqueue keeps a queue good, and the running handler's index right.
LEMMA EnqueueGood ==
    ASSUME NEW id \in JobIds, Good(queue), InPlace(queue, inFlight), Q!Enqueue(id)
    PROVE  /\ Good(queue') /\ InPlace(queue', inFlight') /\ disk' \in {disk, queue'}
           /\ Q!IdsOf(queue.jobs) \subseteq Q!IdsOf(queue'.jobs)
<1>1. CASE Q!Seen(id)
  BY <1>1 DEF Q!Enqueue
<1>2. CASE ~Q!Seen(id)
  <2> DEFINE job == Q!NewJob(id)
  <2>1. /\ queue \in Q!TypeOfQueue /\ Q!OneRecord(queue)
        /\ job \in Q!Job /\ job.id = id
    BY DEF Good, Q!NewJob, Q!Job
  <2>2. queue' = [queue EXCEPT !.jobs = Append(@, job)] /\ Q!Persist(queue')
    BY <1>2 DEF Q!Enqueue
  <2>3. /\ queue'.jobs = Append(queue.jobs, job)
        /\ queue'.completedIds = queue.completedIds /\ queue'.dead = queue.dead
    BY <2>1, <2>2 DEF Q!TypeOfQueue
  <2> HIDE DEF job
  <2>4. /\ queue.jobs \in Seq(Q!Job) /\ id \notin Q!IdsOf(queue.jobs)
        /\ \A i, k \in 1 .. Len(queue.jobs) : queue.jobs[i].id = queue.jobs[k].id => i = k
    BY <1>2, <2>1 DEF Q!TypeOfQueue, Q!OneRecord, Q!Seen
  <2>5. /\ queue'.jobs \in Seq(Q!Job)
        /\ \A i, k \in 1 .. Len(queue'.jobs) : queue'.jobs[i].id = queue'.jobs[k].id => i = k
        /\ Q!IdsOf(queue'.jobs) = Q!IdsOf(queue.jobs) \cup {id}
        /\ Len(queue'.jobs) = Len(queue.jobs) + 1
        /\ \A i \in 1 .. Len(queue.jobs) : queue'.jobs[i] = queue.jobs[i]
    BY <2>1, <2>3, <2>4, AppendJob
  <2>6. queue' \in Q!TypeOfQueue
    BY <2>1, <2>2, <2>3, <2>5 DEF Q!TypeOfQueue
  <2>7. Q!OneRecord(queue')
    BY <1>2, <2>1, <2>3, <2>5 DEF Q!OneRecord, Q!Seen
  <2>8. Good(queue')
    BY <2>3, <2>6, <2>7 DEF Good
  <2>9. InPlace(queue', inFlight')
    <3>1. inFlight' = inFlight /\ Len(queue.jobs) \in Nat
      BY <2>4 DEF Q!Enqueue
    <3> QED
      BY <2>5, <3>1 DEF InPlace
  <2> QED
    BY <2>2, <2>5, <2>8, <2>9 DEF Q!Persist
<1> QED
  BY <1>1, <1>2

\* Changing attempts or waiting of jobs, but no id, keeps a queue good.
LEMMA RelabelGood ==
    ASSUME Good(queue), NEW jobs \in Seq(Q!Job), Len(jobs) = Len(queue.jobs),
           \A i \in 1 .. Len(jobs) : jobs[i].id = queue.jobs[i].id,
           queue' = [queue EXCEPT !.jobs = jobs]
    PROVE  /\ Good(queue') /\ Q!IdsOf(queue'.jobs) = Q!IdsOf(queue.jobs)
           /\ queue'.jobs = jobs
           /\ \A f : InPlace(queue, f) => InPlace(queue', f)
<1>1. queue \in Q!TypeOfQueue /\ Q!OneRecord(queue)
  BY DEF Good
<1>2. /\ queue'.jobs = jobs
      /\ queue'.completedIds = queue.completedIds /\ queue'.dead = queue.dead
  BY <1>1 DEF Q!TypeOfQueue
<1>3. queue' \in Q!TypeOfQueue
  BY <1>1, <1>2 DEF Q!TypeOfQueue
<1>4. Q!IdsOf(jobs) = Q!IdsOf(queue.jobs)
  BY DEF Q!IdsOf
<1>5. Q!OneRecord(queue')
  BY <1>1, <1>2, <1>4 DEF Q!OneRecord
<1>6. \A f : InPlace(queue, f) => InPlace(queue', f)
  <2>1. Len(jobs) \in Nat
    OBVIOUS
  <2> QED
    BY <1>2, <2>1 DEF InPlace
<1> QED
  BY <1>2, <1>3, <1>4, <1>5, <1>6 DEF Good

\* The handler's job is taken off by its index, and only that one.
LEMMA TakeOffGood ==
    ASSUME Good(queue), inFlight # Q!Idle, InPlace(queue, inFlight)
    PROVE  LET jobs == Q!Splice(queue.jobs, inFlight.index)
           IN  /\ inFlight.id \in JobIds
               /\ jobs \in Seq(Q!Job)
               /\ \A i, k \in 1 .. Len(jobs) : jobs[i].id = jobs[k].id => i = k
               /\ Q!IdsOf(jobs) = Q!IdsOf(queue.jobs) \ {inFlight.id}
<1>1. /\ inFlight.id \in JobIds /\ inFlight.index \in Nat \ {0}
      /\ inFlight.index <= Len(queue.jobs)
      /\ queue.jobs[inFlight.index].id = inFlight.id
  BY DEF InPlace
<1>2. /\ queue.jobs \in Seq(Q!Job)
      /\ \A i, k \in 1 .. Len(queue.jobs) : queue.jobs[i].id = queue.jobs[k].id => i = k
  BY DEF Good, Q!TypeOfQueue, Q!OneRecord
<1>3. inFlight.index \in 1 .. Len(queue.jobs)
  BY <1>1, <1>2
<1> QED
  BY <1>1, <1>2, <1>3, SpliceJob

\* What a step of pump leaves of the queue.
StepGood(gone) ==
    /\ Good(queue') /\ InPlace(queue', inFlight') /\ disk' \in {disk, queue'}
    /\ Q!IdsOf(queue.jobs) \ gone \subseteq Q!IdsOf(queue'.jobs)

\* The handler returned: its job, and no other, moves to the finished ones.
LEMMA SucceedGood ==
    ASSUME Good(queue), InPlace(queue, inFlight), Q!Succeed
    PROVE  StepGood({inFlight.id})
<1> DEFINE jobs == Q!Splice(queue.jobs, inFlight.index)
           done == Q!Newest(Append(queue.completedIds, inFlight.id), MaxCompletedIds)
<1>1. /\ inFlight.id \in JobIds
      /\ jobs \in Seq(Q!Job)
      /\ \A i, k \in 1 .. Len(jobs) : jobs[i].id = jobs[k].id => i = k
      /\ Q!IdsOf(jobs) = Q!IdsOf(queue.jobs) \ {inFlight.id}
  BY TakeOffGood DEF Q!Succeed, Q!Busy
<1>2. queue \in Q!TypeOfQueue /\ Q!OneRecord(queue)
  BY DEF Good
<1>3. queue.completedIds \in Seq(JobIds) /\ MaxCompletedIds \in Nat \ {0}
  BY <1>2, RelayAssumptions DEF Q!TypeOfQueue
<1>4. /\ done \in Seq(JobIds) /\ Len(done) <= MaxCompletedIds
      /\ Q!Members(done) \subseteq Q!Members(queue.completedIds) \cup {inFlight.id}
  BY <1>1, <1>3, NewestEntries
<1>5. /\ queue' = [queue EXCEPT !.jobs = jobs, !.completedIds = done]
      /\ Q!Persist(queue') /\ inFlight' = Q!Idle
  BY <1>2 DEF Q!Succeed, Q!TypeOfQueue
<1> HIDE DEF jobs, done
<1>6. queue'.jobs = jobs /\ queue'.completedIds = done /\ queue'.dead = queue.dead
  BY <1>2, <1>5 DEF Q!TypeOfQueue
<1>7. queue' \in Q!TypeOfQueue
  BY <1>1, <1>2, <1>4, <1>5 DEF Q!TypeOfQueue
<1>8. Q!OneRecord(queue')
  BY <1>1, <1>2, <1>4, <1>6 DEF Q!OneRecord
<1>9. Good(queue')
  BY <1>4, <1>6, <1>7, <1>8 DEF Good
<1> QED
  BY <1>1, <1>5, <1>6, <1>9 DEF StepGood, InPlace, Q!Persist

\* The handler threw: its job waits, or is dead-lettered after its last attempt.
LEMMA FailGood ==
    ASSUME Good(queue), InPlace(queue, inFlight), Q!Fail
    PROVE  StepGood(IF Q!LastAttempt THEN {inFlight.id} ELSE {})
<1>1. queue \in Q!TypeOfQueue /\ Q!OneRecord(queue) /\ inFlight' = Q!Idle
  BY DEF Good, Q!Fail
<1>2. CASE Q!LastAttempt
  <2> DEFINE jobs == Q!Splice(queue.jobs, inFlight.index)
             dead == Q!Newest(Append(queue.dead, inFlight.id), MaxDeadJobs)
  <2>1. /\ inFlight.id \in JobIds
        /\ jobs \in Seq(Q!Job)
        /\ \A i, k \in 1 .. Len(jobs) : jobs[i].id = jobs[k].id => i = k
        /\ Q!IdsOf(jobs) = Q!IdsOf(queue.jobs) \ {inFlight.id}
    BY TakeOffGood DEF Q!Fail, Q!Busy
  <2>2. queue.dead \in Seq(JobIds) /\ MaxDeadJobs \in Nat \ {0}
    BY <1>1, RelayAssumptions DEF Q!TypeOfQueue
  <2>3. /\ dead \in Seq(JobIds) /\ Len(dead) <= MaxDeadJobs
        /\ Q!Members(dead) \subseteq Q!Members(queue.dead) \cup {inFlight.id}
    BY <2>1, <2>2, NewestEntries
  <2>4. queue' = [queue EXCEPT !.jobs = jobs, !.dead = dead] /\ Q!Persist(queue')
    BY <1>1, <1>2 DEF Q!Fail, Q!TypeOfQueue
  <2> HIDE DEF jobs, dead
  <2>5. queue'.jobs = jobs /\ queue'.dead = dead /\ queue'.completedIds = queue.completedIds
    BY <1>1, <2>4 DEF Q!TypeOfQueue
  <2>6. queue' \in Q!TypeOfQueue
    BY <1>1, <2>1, <2>3, <2>4 DEF Q!TypeOfQueue
  <2>7. Q!OneRecord(queue')
    BY <1>1, <2>1, <2>3, <2>5 DEF Q!OneRecord
  <2>8. Good(queue')
    BY <2>3, <2>5, <2>6, <2>7 DEF Good
  <2> QED
    BY <1>1, <1>2, <2>1, <2>4, <2>5, <2>8 DEF StepGood, InPlace, Q!Persist
<1>3. CASE ~Q!LastAttempt
  <2> DEFINE jobs == [i \in DOMAIN queue.jobs |->
                        IF queue.jobs[i].id = inFlight.id
                        THEN [queue.jobs[i] EXCEPT !.waiting = TRUE] ELSE queue.jobs[i]]
  <2>1. queue' = [queue EXCEPT !.jobs = jobs] /\ Q!Persist(queue')
    BY <1>1, <1>3 DEF Q!Fail, Q!TypeOfQueue
  <2>2. queue.jobs \in Seq(Q!Job) /\ DOMAIN queue.jobs = 1 .. Len(queue.jobs)
        /\ Len(queue.jobs) \in Nat
    BY <1>1 DEF Q!TypeOfQueue
  <2>3. ASSUME NEW i \in 1 .. Len(queue.jobs)
        PROVE  jobs[i] \in Q!Job /\ jobs[i].id = queue.jobs[i].id
    <3>1. queue.jobs[i] \in Q!Job
      BY <2>2
    <3>2. jobs[i] = queue.jobs[i] \/ jobs[i] = [queue.jobs[i] EXCEPT !.waiting = TRUE]
      BY <2>2
    <3> QED
      BY <3>1, <3>2 DEF Q!Job
  <2>4. jobs \in [1 .. Len(queue.jobs) -> Q!Job]
    BY <2>2, <2>3
  <2>5. jobs \in Seq(Q!Job) /\ Len(jobs) = Len(queue.jobs)
    BY <2>2, <2>4
  <2> HIDE DEF jobs
  <2>6. Good(queue') /\ Q!IdsOf(queue'.jobs) = Q!IdsOf(queue.jobs)
    BY <2>1, <2>3, <2>5, RelabelGood
  <2> QED
    BY <1>1, <1>3, <2>1, <2>6 DEF StepGood, InPlace, Q!Persist
<1> QED
  BY <1>2, <1>3

\* pump up to the await: the handler is given the index of its job.
LEMMA PumpGood ==
    ASSUME Good(queue), Q!Pump
    PROVE  StepGood({})
<1>1. queue \in Q!TypeOfQueue
  BY DEF Good
<1>2. PICK n \in 1 .. Len(queue.jobs) :
        /\ queue' = [queue EXCEPT !.jobs[n].attempts = @ + 1]
        /\ inFlight' = [index |-> n, id |-> queue.jobs[n].id]
  BY DEF Q!Pump
<1> DEFINE jobs == [queue.jobs EXCEPT ![n].attempts = @ + 1]
<1>3. queue' = [queue EXCEPT !.jobs = jobs] /\ disk' = disk
  BY <1>1, <1>2 DEF Q!TypeOfQueue, Q!Pump
<1>4. queue.jobs \in Seq(Q!Job) /\ Len(queue.jobs) \in Nat
  BY <1>1 DEF Q!TypeOfQueue
<1>5. ASSUME NEW i \in 1 .. Len(queue.jobs)
      PROVE  jobs[i] \in Q!Job /\ jobs[i].id = queue.jobs[i].id
  <2>1. queue.jobs[i] \in Q!Job
    BY <1>4
  <2>2. jobs[i] = queue.jobs[i] \/ jobs[i] = [queue.jobs[i] EXCEPT !.attempts = @ + 1]
    BY <1>4
  <2> QED
    BY <2>1, <2>2 DEF Q!Job
<1>6. jobs \in Seq(Q!Job) /\ Len(jobs) = Len(queue.jobs)
  <2>1. jobs \in [1 .. Len(queue.jobs) -> Q!Job]
    BY <1>4, <1>5
  <2> QED
    BY <1>4, <2>1
<1> HIDE DEF jobs
<1>7. /\ Good(queue') /\ Q!IdsOf(queue'.jobs) = Q!IdsOf(queue.jobs) /\ queue'.jobs = jobs
  BY <1>3, <1>5, <1>6, RelabelGood
<1>8. queue.jobs[n].id \in JobIds
  <2>1. queue.jobs[n] \in Q!Job
    BY <1>4
  <2> QED
    BY <2>1 DEF Q!Job
<1>9. InPlace(queue', inFlight')
  BY <1>2, <1>4, <1>5, <1>6, <1>7, <1>8 DEF InPlace
<1> QED
  BY <1>3, <1>7, <1>9 DEF StepGood

\* A backoff that ends moves no job.
LEMMA BackoffGood ==
    ASSUME Good(queue), InPlace(queue, inFlight), NEW n \in 1 .. Len(queue.jobs),
           Q!BackoffEnds(n)
    PROVE  StepGood({})
<1>1. queue \in Q!TypeOfQueue
  BY DEF Good
<1> DEFINE job == [queue.jobs[n] EXCEPT !.waiting = FALSE]
           jobs == [queue.jobs EXCEPT ![n] = job]
<1>3. queue' = [queue EXCEPT !.jobs = jobs] /\ disk' = disk /\ inFlight' = inFlight
  BY <1>1 DEF Q!TypeOfQueue, Q!BackoffEnds
<1>4. queue.jobs \in Seq(Q!Job) /\ Len(queue.jobs) \in Nat
  BY <1>1 DEF Q!TypeOfQueue
<1>4a. queue.jobs[n] \in Q!Job
  BY <1>4
<1>5. ASSUME NEW i \in 1 .. Len(queue.jobs)
      PROVE  jobs[i] \in Q!Job /\ jobs[i].id = queue.jobs[i].id
  <2>1. queue.jobs[i] \in Q!Job
    BY <1>4
  <2>2. job \in Q!Job /\ job.id = queue.jobs[n].id
    BY <1>4, <1>4a DEF Q!Job
  <2> HIDE DEF job
  <2> QED
    BY <1>4, <2>1, <2>2
<1>6. jobs \in Seq(Q!Job) /\ Len(jobs) = Len(queue.jobs)
  <2>1. jobs \in [1 .. Len(queue.jobs) -> Q!Job]
    <3> HIDE DEF job
    <3> QED
      BY <1>4, <1>5
  <2> QED
    BY <1>4, <2>1
<1> HIDE DEF job, jobs
<1>7. /\ Good(queue') /\ Q!IdsOf(queue'.jobs) = Q!IdsOf(queue.jobs)
      /\ InPlace(queue', inFlight)
  BY <1>3, <1>5, <1>6, RelabelGood
<1> QED
  BY <1>3, <1>7 DEF StepGood

-----------------------------------------------------------------------------
(* The relayer                                                             *)

\* Every job of the journal is in memory or settled.
JournalCovered == \A j \in Q!IdsOf(disk.jobs) : j \in Q!IdsOf(queue.jobs) \/ Settled(j)

\* The inductive invariant.
RelayInv ==
    /\ TypeOK
    /\ Good(queue) /\ Good(disk)
    /\ InPlace(queue, inFlight)
    /\ \A c \in Chains : Len(log[c]) <= MaxLog
    /\ running => JournalCovered
    /\ ~running => inFlight = Q!Idle /\ building = {} /\ resolving = {}

\* The ids of a good queue are job ids.
LEMMA IdsTyped ==
    ASSUME NEW q, Good(q)
    PROVE  Q!IdsOf(q.jobs) \subseteq JobIds
<1>1. q.jobs \in Seq(Q!Job)
  BY DEF Good, Q!TypeOfQueue
<1>2. \A i \in 1 .. Len(q.jobs) : q.jobs[i] \in Q!Job
  BY <1>1
<1> QED
  BY <1>2 DEF Q!IdsOf, Q!Job

\* A step on the queue keeps the journal covered, if what it takes off the
\* queue is settled.
LEMMA StepCovers ==
    ASSUME RelayInv, running, NEW gone, StepGood(gone),
           \A j \in gone : Settled(j)', \A j \in JobIds : Settled(j) => Settled(j)'
    PROVE  /\ Good(disk') /\ JournalCovered'
           /\ \A j \in Q!IdsOf(disk.jobs) : j \in Q!IdsOf(disk'.jobs) \/ Settled(j)'
<1>1. Q!IdsOf(disk.jobs) \subseteq JobIds /\ Q!IdsOf(queue.jobs) \subseteq JobIds
  BY IdsTyped DEF RelayInv
<1>2. \A j \in Q!IdsOf(disk.jobs) : j \in Q!IdsOf(queue'.jobs) \/ Settled(j)'
  BY <1>1 DEF RelayInv, JournalCovered, StepGood
<1>3. disk' = disk \/ disk' = queue'
  BY DEF StepGood
<1> QED
  BY <1>2, <1>3 DEF RelayInv, StepGood, JournalCovered

\* A failed write is counted up to the bound.
LEMMA PersistCounts ==
    ASSUME RelayInv, NEW q, Q!Persist(q)
    PROVE  diskFailures' \in 0 .. MaxDiskFailures
<1>1. MaxDiskFailures \in Nat /\ diskFailures \in 0 .. MaxDiskFailures
  BY RelayAssumptions DEF RelayInv, TypeOK
<1> QED
  BY <1>1 DEF Q!Persist

\* A step of the relayer that keeps the invariant and loses no journaled job.
Safe ==
    /\ RelayInv'
    /\ \A j \in Q!IdsOf(disk.jobs) : j \in Q!IdsOf(disk'.jobs) \/ Settled(j)'

\* A step on the queue, while the process runs, is safe.
LEMMA QueueStepSafe ==
    ASSUME RelayInv, running, running', NEW gone, StepGood(gone),
           \A j \in gone : Settled(j)', \A j \in JobIds : Settled(j) => Settled(j)',
           TypeOK', UNCHANGED log
    PROVE  Safe
<1>1. /\ Good(disk') /\ JournalCovered'
      /\ \A j \in Q!IdsOf(disk.jobs) : j \in Q!IdsOf(disk'.jobs) \/ Settled(j)'
  BY StepCovers
<1> QED
  BY <1>1 DEF Safe, RelayInv, StepGood

\* A step that leaves the queue and its journal alone is safe.
LEMMA QuietStepSafe ==
    ASSUME RelayInv, TypeOK', UNCHANGED <<queue, inFlight, disk, delivered, buried, running>>,
           \A c \in Chains : Len(log'[c]) <= MaxLog,
           ~running => building' = {} /\ resolving' = {}
    PROVE  Safe
BY DEF Safe, RelayInv, JournalCovered, Settled

\* An empty queue is good.
LEMMA EmptyGood == Good(Q!EmptyQueue)
BY RelayAssumptions
DEF Good, Q!EmptyQueue, Q!TypeOfQueue, Q!OneRecord, Q!IdsOf, Q!Members

\* When the process ends, the journal is what it was.
LEMMA HaltSafe ==
    ASSUME RelayInv, TypeOK', Q!Halt, running' = FALSE, building' = {}, resolving' = {},
           UNCHANGED log
    PROVE  Safe
BY EmptyGood DEF Safe, RelayInv, Q!Halt, InPlace

\* An empty queue is well typed.
LEMMA EmptyTyped == Q!EmptyQueue \in Q!TypeOfQueue
                    /\ Len(Q!EmptyQueue.completedIds) = 0 /\ Len(Q!EmptyQueue.dead) = 0
BY DEF Q!EmptyQueue, Q!TypeOfQueue

\* Every step of the relayer is safe.
LEMMA StepSafe ==
    ASSUME RelayInv, Next
    PROVE  Safe
<1> USE DEF memory, history
<1>0. /\ MaxLog \in Nat /\ SweepLimit \in Nat \ {0} /\ StartBlocks \subseteq Nat
      /\ MaxEnds \in Nat
  BY RelayAssumptions
<1>a. /\ log \in [Chains -> Seq(BOOLEAN)]
      /\ \A c \in Chains : Len(log[c]) \in 0 .. MaxLog /\ cursor[c] \in 0 .. MaxLog
  BY <1>0 DEF RelayInv, TypeOK
<1>b. ASSUME StepGood({}) \/ Good(queue')
      PROVE  /\ queue' \in Q!TypeOfQueue
             /\ Len(queue'.completedIds) <= MaxCompletedIds
             /\ Len(queue'.dead) <= MaxDeadJobs
  BY <1>b DEF StepGood, Good
<1>1. ASSUME NEW c \in Chains, NEW isRequest \in BOOLEAN, Emit(c, isRequest)
      PROVE  Safe
  <2>1. log[c] \in Seq(BOOLEAN) /\ Append(log[c], isRequest) \in Seq(BOOLEAN)
        /\ Len(Append(log[c], isRequest)) = Len(log[c]) + 1
    BY <1>a
  <2>2. log' = [log EXCEPT ![c] = Append(@, isRequest)]
        /\ Len(log["evm"]) + Len(log["soroban"]) < MaxLog
    BY <1>1 DEF Emit
  <2>3. log' \in [Chains -> Seq(BOOLEAN)]
    BY <1>a, <2>1, <2>2
  <2>4. \A b \in Chains : Len(log'[b]) <= MaxLog
    <3>1. "evm" \in Chains /\ "soroban" \in Chains /\ c \in {"evm", "soroban"}
      BY DEF Chains
    <3>2. Len(log["evm"]) \in Nat /\ Len(log["soroban"]) \in Nat
      BY <1>a, <3>1
    <3>3. Len(log[c]) < MaxLog
      <4> DEFINE m == Len(log["evm"])
                 n == Len(log["soroban"])
      <4>1. m + n < MaxLog /\ m \in Nat /\ n \in Nat
        BY <2>2, <3>2
      <4> HIDE DEF m, n
      <4>2. m < MaxLog /\ n < MaxLog
        BY <1>0, <4>1
      <4> QED
        BY <3>1, <4>2, Zenon DEF m, n
    <3>4. \A b \in Chains : log'[b] = IF b = c THEN Append(log[c], isRequest) ELSE log[b]
      BY <1>a, <2>2
    <3>5. ASSUME NEW b \in Chains PROVE Len(log'[b]) <= MaxLog
      <4>1. CASE b = c
        <5>1. log'[b] = Append(log[c], isRequest)
          BY <3>4, <4>1
        <5>2. Len(log[c]) \in Nat
          BY <1>a
        <5> QED
          BY <1>0, <2>1, <3>3, <5>1, <5>2
      <4>2. CASE b # c
        <5>1. log'[b] = log[b]
          BY <3>4, <4>2
        <5> QED
          BY <1>0, <1>a, <5>1
      <4> QED
        BY <4>1, <4>2
    <3> QED
      BY <3>5
  <2>5. TypeOK'
    BY <1>1, <2>3 DEF RelayInv, TypeOK, Emit
  <2> QED
    BY <1>1, <2>4, <2>5, QuietStepSafe DEF Emit, RelayInv
<1>2. ASSUME NEW b \in StartBlocks, Start(b)
      PROVE  Safe
  <2>1. \A c \in Chains : FirstCursor(c, b) \in 0 .. MaxLog
    BY <1>0, <1>a DEF FirstCursor, Least
  <2>2. cursor' \in [Chains -> 0 .. MaxLog] /\ from' \in [Chains -> 0 .. MaxLog]
    BY <1>2, <2>1 DEF Start
  <2>3. queue' = disk /\ disk' = disk /\ inFlight' = Q!Idle
    BY <1>2 DEF Start, Q!Load, RelayInv
  <2>4. TypeOK'
    BY <1>2, <2>2, <2>3 DEF Start, Q!Load, RelayInv, TypeOK, Good
  <2> QED
    BY <1>2, <2>3, <2>4 DEF Safe, Start, RelayInv, InPlace, JournalCovered
<1>3. ASSUME Forget, Q!Halt, log' = log, running' = FALSE, buried' = buried,
             delivered' \in [JobIds -> 0 .. 2],
             crashes' \in 0 .. MaxEnds, stops' \in 0 .. MaxEnds
      PROVE  Safe
  <2>1. [c \in Chains |-> 0] \in [Chains -> 0 .. MaxLog]
    BY <1>0
  <2>2. MaxCompletedIds \in Nat /\ MaxDeadJobs \in Nat
    BY RelayAssumptions
  <2>a. cursor' \in [Chains -> 0 .. MaxLog] /\ from' \in [Chains -> 0 .. MaxLog]
    BY <1>3, <2>1 DEF Forget
  <2>b. /\ seen' \subseteq Events /\ resolving' \subseteq seen' /\ building' \subseteq JobIds
        /\ running' \in BOOLEAN /\ stopping' \in BOOLEAN
    BY <1>3 DEF Forget
  <2>c. queue' = Q!EmptyQueue /\ inFlight' = Q!Idle
        /\ disk' = disk /\ diskFailures' = diskFailures
    BY <1>3 DEF Q!Halt
  <2>d. /\ queue' \in Q!TypeOfQueue
        /\ Len(queue'.completedIds) <= MaxCompletedIds
        /\ Len(queue'.dead) <= MaxDeadJobs
    BY <2>2, <2>c, EmptyTyped
  <2>e. disk' \in Q!TypeOfQueue /\ diskFailures' \in 0 .. MaxDiskFailures
        /\ log' \in [Chains -> Seq(BOOLEAN)] /\ buried' \subseteq JobIds
    BY <1>3, <2>c DEF RelayInv, TypeOK
  <2>3. TypeOK'
    BY <1>3, <2>a, <2>b, <2>c, <2>d, <2>e DEF TypeOK
  <2> QED
    BY <1>3, <2>3, HaltSafe DEF Forget
<1>4. ASSUME Crash
      PROVE  Safe
  <2>1. crashes' \in 0 .. MaxEnds
    BY <1>0, <1>4 DEF Crash, RelayInv, TypeOK
  <2> QED
    BY <1>3, <1>4, <2>1 DEF Crash, RelayInv, TypeOK
<1>5. ASSUME Stop
      PROVE  Safe
  <2>1. stops' \in 0 .. MaxEnds
    BY <1>0, <1>5 DEF Stop, RelayInv, TypeOK
  <2>2. TypeOK'
    BY <1>5, <2>1 DEF Stop, RelayInv, TypeOK
  <2> QED
    BY <1>5, <2>2, QuietStepSafe DEF Stop, RelayInv
<1>6. ASSUME Exit
      PROVE  Safe
  BY <1>3, <1>6 DEF Exit, RelayInv, TypeOK
<1>7. ASSUME NEW c \in Chains, Poll(c)
      PROVE  Safe
  <2>1. SweepEnd(c) \in 0 .. MaxLog
    BY <1>0, <1>a DEF SweepEnd, Least
  <2>2. NewEvents(c) \subseteq Events
    <3>1. (cursor[c] + 1) .. SweepEnd(c) \subseteq 1 .. MaxLog
      BY <1>0, <1>a, <2>1
    <3> QED
      BY <3>1 DEF NewEvents, Events
  <2>3. cursor' \in [Chains -> 0 .. MaxLog]
    BY <1>7, <2>1 DEF Poll, RelayInv, TypeOK
  <2>4. seen' \subseteq Events /\ resolving' \subseteq seen'
    BY <1>7, <2>2 DEF Poll, RelayInv, TypeOK
  <2>5. TypeOK'
    BY <1>7, <2>3, <2>4 DEF Poll, RelayInv, TypeOK
  <2> QED
    BY <1>7, <2>5, QuietStepSafe DEF Poll, RelayInv
<1>8. ASSUME NEW e \in resolving, ResolveFails(e)
      PROVE  Safe
  <2>1. TypeOK'
    BY <1>8 DEF ResolveFails, RelayInv, TypeOK
  <2> QED
    BY <1>8, <2>1, QuietStepSafe DEF ResolveFails, RelayInv
<1>9. ASSUME NEW e \in resolving, NEW contacts \in Answers, Resolve(e, contacts)
      PROVE  Safe
  <2>1. building' \subseteq JobIds
    BY <1>9 DEF Resolve, JobsFor, Answers, JobIds, RelayInv, TypeOK
  <2>2. TypeOK'
    BY <1>9, <2>1 DEF Resolve, RelayInv, TypeOK
  <2> QED
    BY <1>9, <2>2, QuietStepSafe DEF Resolve, RelayInv
<1>10. ASSUME NEW j \in building, EnqueueNext(j)
       PROVE  Safe
  <2>1. j \in JobIds /\ running /\ running' = running /\ log' = log
    BY <1>10 DEF EnqueueNext, RelayInv, TypeOK
  <2>2. StepGood({}) /\ Good(queue')
    BY <1>10, <2>1, EnqueueGood DEF EnqueueNext, RelayInv, StepGood
  <2>3. diskFailures' \in 0 .. MaxDiskFailures
    <3>1. diskFailures' = diskFailures \/ \E q : Q!Persist(q)
      BY <1>10 DEF EnqueueNext, Q!Enqueue
    <3> QED
      BY <3>1, PersistCounts DEF RelayInv, TypeOK
  <2>4. disk' \in Q!TypeOfQueue /\ (inFlight' = Q!Idle \/ inFlight' \in [index : Nat \ {0}, id : JobIds])
    BY <2>2 DEF StepGood, RelayInv, Good, InPlace
  <2>5. TypeOK'
    BY <1>10, <1>b, <2>2, <2>3, <2>4 DEF EnqueueNext, RelayInv, TypeOK
  <2> QED
    BY <1>10, <2>1, <2>2, <2>5, QueueStepSafe DEF EnqueueNext, Settled
<1>11. ASSUME Pump
       PROVE  Safe
  <2>1. StepGood({}) /\ running /\ running' = running /\ log' = log
    BY <1>11, PumpGood DEF Pump, RelayInv
  <2>2. disk' \in Q!TypeOfQueue /\ (inFlight' = Q!Idle \/ inFlight' \in [index : Nat \ {0}, id : JobIds])
    BY <2>1, <1>b DEF StepGood, RelayInv, Good, InPlace
  <2>3. TypeOK'
    BY <1>11, <1>b, <2>1, <2>2 DEF Pump, Q!Pump, RelayInv, TypeOK
  <2> QED
    BY <1>11, <2>1, <2>3, QueueStepSafe DEF Pump, Settled
<1>12. ASSUME NEW i \in 1 .. Len(queue.jobs), BackoffEnds(i)
       PROVE  Safe
  <2>1. StepGood({}) /\ running /\ running' = running /\ log' = log
    BY <1>12, BackoffGood DEF BackoffEnds, RelayInv
  <2>2. disk' \in Q!TypeOfQueue /\ (inFlight' = Q!Idle \/ inFlight' \in [index : Nat \ {0}, id : JobIds])
    BY <2>1, <1>b DEF StepGood, RelayInv, Good, InPlace
  <2>3. TypeOK'
    BY <1>12, <1>b, <2>1, <2>2 DEF BackoffEnds, Q!BackoffEnds, RelayInv, TypeOK
  <2> QED
    BY <1>12, <2>1, <2>3, QueueStepSafe DEF BackoffEnds, Settled
<1>13. ASSUME inFlight # Q!Idle, delivered' = [delivered EXCEPT ![inFlight.id] = Least(@ + 1, 2)]
       PROVE  /\ inFlight.id \in JobIds /\ running
              /\ delivered' \in [JobIds -> 0 .. 2] /\ delivered'[inFlight.id] > 0
              /\ \A j \in JobIds : delivered[j] > 0 => delivered'[j] > 0
  <2>1. inFlight.id \in JobIds /\ running /\ delivered \in [JobIds -> 0 .. 2]
    BY <1>13 DEF RelayInv, InPlace, TypeOK
  <2>2. Least(delivered[inFlight.id] + 1, 2) \in 1 .. 2
    BY <2>1 DEF Least
  <2> QED
    BY <1>13, <2>1, <2>2
<1>14. ASSUME Deliver
       PROVE  Safe
  <2>1. /\ inFlight.id \in JobIds /\ running
        /\ delivered' \in [JobIds -> 0 .. 2] /\ delivered'[inFlight.id] > 0
        /\ \A j \in JobIds : delivered[j] > 0 => delivered'[j] > 0
    BY <1>13, <1>14 DEF Deliver, Q!Succeed, Q!Busy
  <2>2. StepGood({inFlight.id})
    BY <1>14, SucceedGood DEF Deliver, RelayInv
  <2>3. Good(queue') /\ inFlight' = Q!Idle /\ disk' \in Q!TypeOfQueue
    BY <1>14, <2>2 DEF StepGood, RelayInv, Good, Deliver, Q!Succeed
  <2>4. diskFailures' \in 0 .. MaxDiskFailures
    BY <1>14, PersistCounts DEF Deliver, Q!Succeed
  <2>5. TypeOK'
    BY <1>14, <1>b, <2>1, <2>3, <2>4 DEF Deliver, RelayInv, TypeOK
  <2> QED
    BY <1>14, <2>1, <2>2, <2>5, QueueStepSafe DEF Deliver, Settled
<1>15. ASSUME DeliverAndCrash
       PROVE  Safe
  <2>1. delivered' \in [JobIds -> 0 .. 2]
    BY <1>13, <1>15 DEF DeliverAndCrash
  <2>2. crashes' \in 0 .. MaxEnds
    BY <1>0, <1>15 DEF DeliverAndCrash, RelayInv, TypeOK
  <2> QED
    BY <1>3, <1>15, <2>1, <2>2 DEF DeliverAndCrash, RelayInv, TypeOK
<1>16. ASSUME DeliveryFails
       PROVE  Safe
  <2> DEFINE gone == IF Q!LastAttempt THEN {inFlight.id} ELSE {}
  <2>1. inFlight.id \in JobIds /\ running
    BY <1>16 DEF DeliveryFails, Q!Fail, Q!Busy, RelayInv, InPlace
  <2>2. StepGood(gone)
    BY <1>16, FailGood DEF DeliveryFails, RelayInv
  <2>3. Good(queue') /\ inFlight' = Q!Idle /\ disk' \in Q!TypeOfQueue
    BY <1>16, <2>2 DEF StepGood, RelayInv, Good, DeliveryFails, Q!Fail
  <2>4. diskFailures' \in 0 .. MaxDiskFailures
    BY <1>16, PersistCounts DEF DeliveryFails, Q!Fail
  <2>5. buried \subseteq buried' /\ gone \subseteq buried' /\ buried' \subseteq JobIds
        /\ delivered' = delivered
    BY <1>16, <2>1 DEF DeliveryFails, RelayInv, TypeOK
  <2>6. TypeOK'
    BY <1>16, <1>b, <2>3, <2>4, <2>5 DEF DeliveryFails, RelayInv, TypeOK
  <2> HIDE DEF gone
  <2>7. running' /\ log' = log
    BY <1>16, <2>1 DEF DeliveryFails
  <2> QED
    BY <2>1, <2>2, <2>5, <2>6, <2>7, QueueStepSafe DEF Settled
<1> QED
  BY <1>1, <1>2, <1>4, <1>5, <1>6, <1>7, <1>8, <1>9, <1>10, <1>11, <1>12, <1>14, <1>15, <1>16
  DEF Next

-----------------------------------------------------------------------------
(* The theorems                                                            *)

\* The first state of the relayer satisfies the invariant.
LEMMA InitSafe == Init => RelayInv
<1> SUFFICES ASSUME Init PROVE RelayInv
  OBVIOUS
<1>1. /\ MaxLog \in Nat /\ MaxEnds \in Nat /\ MaxDiskFailures \in Nat
      /\ MaxCompletedIds \in Nat /\ MaxDeadJobs \in Nat
  BY RelayAssumptions
<1>2. queue = Q!EmptyQueue /\ disk = Q!EmptyQueue /\ inFlight = Q!Idle /\ diskFailures = 0
  BY DEF Init, Q!Init
<1>3. log \in [Chains -> Seq(BOOLEAN)] /\ \A c \in Chains : Len(log[c]) = 0
  BY DEF Init
<1>4. cursor \in [Chains -> 0 .. MaxLog] /\ from \in [Chains -> 0 .. MaxLog]
  BY <1>1 DEF Init
<1>5. diskFailures \in 0 .. MaxDiskFailures /\ crashes \in 0 .. MaxEnds /\ stops \in 0 .. MaxEnds
  BY <1>1, <1>2 DEF Init
<1>6. delivered \in [JobIds -> 0 .. 2]
  BY DEF Init
<1>7. /\ queue \in Q!TypeOfQueue /\ disk \in Q!TypeOfQueue
      /\ Len(queue.completedIds) <= MaxCompletedIds
      /\ Len(queue.dead) <= MaxDeadJobs
  BY <1>1, <1>2, EmptyTyped
<1>8. /\ running = FALSE /\ stopping = FALSE
      /\ seen = {} /\ resolving = {} /\ building = {} /\ buried = {}
  BY DEF Init
<1>9. TypeOK
  BY <1>2, <1>3, <1>4, <1>5, <1>6, <1>7, <1>8 DEF TypeOK
<1>10. \A c \in Chains : Len(log[c]) <= MaxLog
  BY <1>1, <1>3
<1> QED
  BY <1>2, <1>8, <1>9, <1>10, EmptyGood DEF RelayInv, InPlace

\* Every step or stutter is safe.
LEMMA StutterSafe ==
    ASSUME RelayInv, [Next]_vars
    PROVE  Safe
<1>1. CASE Next
  BY <1>1, StepSafe
<1>2. CASE UNCHANGED vars
  BY <1>2
  DEF Safe, vars, memory, history, RelayInv, TypeOK, Good, InPlace, JournalCovered, Settled
<1> QED
  BY <1>1, <1>2

\* The inductive invariant of the relayer: types, one record per job in
\* memory and on disk, the index of the running handler in place, and every
\* journaled job in memory or settled while the process runs.
THEOREM RelayInvariant == Spec => []RelayInv
<1>1. RelayInv /\ [Next]_vars => RelayInv'
  BY StutterSafe DEF Safe
<1> QED
  BY InitSafe, <1>1, PTL DEF Spec

\* The state of the relayer has its types, and the lists of finished and dead
\* jobs keep to MAX_COMPLETED_IDS and MAX_DEAD_JOBS.
THEOREM TypeCorrect == Spec => []TypeOK
<1>1. RelayInv => TypeOK
  BY DEF RelayInv
<1> QED
  BY RelayInvariant, <1>1, PTL

\* The queue "dedupes jobs by id", and the index that pump keeps across the
\* await of the handler names the job when the handler returns, for any
\* number of jobs, crashes and failed writes.
THEOREM RecordsCorrect == Spec => []OneRecordPerJob
<1>1. RelayInv => OneRecordPerJob
  BY DEF RelayInv, Good, InPlace, OneRecordPerJob
<1> QED
  BY RelayInvariant, <1>1, PTL

\* The queue "survives restarts": whatever crashes, restarts and failed writes
\* there are, a job leaves the journal only when it was delivered or
\* dead-lettered.
THEOREM JournalDurable == Spec => JournalLosesNothing
<1>1. RelayInv /\ [Next]_vars =>
        [\A j \in Q!IdsOf(disk.jobs) :
           j \in Q!IdsOf(disk'.jobs) \/ delivered'[j] > 0 \/ j \in buried']_vars
  BY StutterSafe DEF Safe, Settled
<1> QED
  BY RelayInvariant, <1>1, PTL DEF Spec, JournalLosesNothing
-----------------------------------------------------------------------------
(* Sweeps                                                                  *)

\* The cursors never run ahead of the logs, and nothing behind them is missed.
SweepInv ==
    /\ \A c \in Chains : cursor[c] <= Len(log[c])
    /\ SweepsLeaveNoGap

\* A sweep that starts where the one before ended notices every request up to
\* where it ends, when SWEEP_LIMIT cuts it short too.
LEMMA PollKeepsSweeps ==
    ASSUME RelayInv, SweepInv, NEW c \in Chains, Poll(c)
    PROVE  SweepInv'
<1>1. MaxLog \in Nat /\ SweepLimit \in Nat \ {0}
  BY RelayAssumptions
<1>2. /\ cursor \in [Chains -> 0 .. MaxLog] /\ from \in [Chains -> 0 .. MaxLog]
      /\ \A b \in Chains : Len(log[b]) \in Nat
  BY DEF RelayInv, TypeOK
<1>3. /\ cursor' = [cursor EXCEPT ![c] = SweepEnd(c)] /\ from' = from /\ log' = log
      /\ seen' = seen \cup NewEvents(c)
  BY DEF Poll
<1>4. SweepEnd(c) \in Nat /\ SweepEnd(c) <= Len(log[c])
  BY <1>1, <1>2 DEF SweepEnd, Least
<1>5. \A b \in Chains : cursor'[b] = IF b = c THEN SweepEnd(c) ELSE cursor[b]
  BY <1>2, <1>3
<1>6. \A b \in Chains : cursor'[b] <= Len(log'[b])
  BY <1>3, <1>4, <1>5 DEF SweepInv
<1>7. ASSUME NEW e \in Events, Requested(e), from[e[1]] < e[2], e[2] <= cursor'[e[1]]
      PROVE  e \in seen'
  <2>1. e[1] \in Chains /\ e[2] \in 1 .. MaxLog /\ e = <<e[1], e[2]>>
    BY DEF Events
  <2>2. CASE e[2] <= cursor[e[1]]
    BY <1>3, <1>7, <2>2 DEF SweepInv, SweepsLeaveNoGap
  <2>3. CASE ~(e[2] <= cursor[e[1]])
    <3>1. e[1] = c /\ e[2] <= SweepEnd(c)
      BY <1>5, <1>7, <2>1, <2>3
    <3>2. e[2] \in (cursor[c] + 1) .. SweepEnd(c)
      BY <1>1, <1>2, <1>4, <2>1, <2>3, <3>1
    <3>3. e \in {c} \X ((cursor[c] + 1) .. SweepEnd(c))
      BY <2>1, <3>1, <3>2
    <3> QED
      BY <1>3, <1>7, <3>3 DEF NewEvents
  <2> QED
    BY <2>2, <2>3
<1>8. SweepsLeaveNoGap'
  BY <1>3, <1>7 DEF SweepsLeaveNoGap, Requested
<1> QED
  BY <1>6, <1>8 DEF SweepInv

\* New blocks and events come after the cursors.
LEMMA EmitKeepsSweeps ==
    ASSUME RelayInv, SweepInv, NEW c \in Chains, NEW isRequest \in BOOLEAN, Emit(c, isRequest)
    PROVE  SweepInv'
<1>1. /\ log \in [Chains -> Seq(BOOLEAN)] /\ cursor \in [Chains -> 0 .. MaxLog]
      /\ MaxLog \in Nat
  BY RelayAssumptions DEF RelayInv, TypeOK
<1>2. log' = [log EXCEPT ![c] = Append(@, isRequest)]
      /\ cursor' = cursor /\ from' = from /\ seen' = seen
  BY DEF Emit, memory
<1>3. log[c] \in Seq(BOOLEAN) /\ \A b \in Chains : Len(log[b]) \in Nat
  BY <1>1
<1> DEFINE longer == Append(log[c], isRequest)
<1>4. /\ Len(longer) = Len(log[c]) + 1
      /\ \A k \in 1 .. Len(log[c]) : longer[k] = log[c][k]
  BY <1>3
<1>5. \A b \in Chains : (log'[b] = longer /\ b = c) \/ log'[b] = log[b]
  BY <1>1, <1>2
<1> HIDE DEF longer
<1>6. \A b \in Chains : Len(log'[b]) >= Len(log[b])
  BY <1>3, <1>4, <1>5
<1>7. \A b \in Chains : cursor'[b] <= Len(log'[b])
  BY <1>1, <1>2, <1>3, <1>5, <1>4, <1>6 DEF SweepInv
<1>8. ASSUME NEW e \in Events, Requested(e)', from[e[1]] < e[2], e[2] <= cursor[e[1]]
      PROVE  e \in seen
  <2>1. e[1] \in Chains /\ e[2] \in 1 .. MaxLog
    BY DEF Events
  <2>2. e[2] \in 1 .. Len(log[e[1]])
    BY <1>1, <1>3, <1>8, <2>1 DEF SweepInv
  <2>3. log'[e[1]][e[2]] = log[e[1]][e[2]]
    BY <1>4, <1>5, <2>1, <2>2
  <2>4. Requested(e)
    BY <1>8, <2>1, <2>2, <2>3 DEF Requested
  <2> QED
    BY <1>8, <2>4 DEF SweepInv, SweepsLeaveNoGap
<1>9. SweepsLeaveNoGap'
  BY <1>2, <1>8 DEF SweepsLeaveNoGap
<1> QED
  BY <1>7, <1>9 DEF SweepInv

\* A listener that begins has nothing behind it.
LEMMA StartKeepsSweeps ==
    ASSUME RelayInv, SweepInv, NEW b \in StartBlocks, Start(b)
    PROVE  SweepInv'
<1>1. \A c \in Chains : Len(log[c]) \in Nat
  BY DEF RelayInv, TypeOK
<1>2. /\ cursor' = [c \in Chains |-> FirstCursor(c, b)] /\ from' = cursor' /\ log' = log
  BY DEF Start
<1>3. b \in Nat
  BY RelayAssumptions
<1>4. \A c \in Chains : FirstCursor(c, b) \in Nat /\ FirstCursor(c, b) <= Len(log[c])
  BY <1>1, <1>3 DEF FirstCursor, Least
<1>5. \A c \in Chains : cursor'[c] \in Nat /\ cursor'[c] <= Len(log'[c])
  BY <1>2, <1>4
<1>6. \A e \in Events : ~(from'[e[1]] < e[2] /\ e[2] <= cursor'[e[1]])
  BY RelayAssumptions, <1>2, <1>5 DEF Events
<1> QED
  BY <1>5, <1>6 DEF SweepInv, SweepsLeaveNoGap

\* A process that ended forgets its position, and has nothing behind it either.
LEMMA ForgetKeepsSweeps ==
    ASSUME RelayInv, SweepInv, Forget, log' = log
    PROVE  SweepInv'
<1>1. \A c \in Chains : Len(log[c]) \in Nat /\ cursor'[c] = 0
  BY DEF RelayInv, TypeOK, Forget
<1>2. \A c \in Chains : cursor'[c] <= Len(log'[c])
  BY <1>1
<1>3. \A e \in Events : ~(e[2] <= cursor'[e[1]])
  BY RelayAssumptions, <1>1 DEF Events
<1> QED
  BY <1>2, <1>3 DEF SweepInv, SweepsLeaveNoGap

\* Sweeps leave no gap: every access request between the cursor a listener
\* began with and its cursor was noticed, for any logs, sweep lengths, start
\* blocks and restarts.
THEOREM SweepsCorrect == Spec => []SweepsLeaveNoGap
<1>1. Init => SweepInv
  <2> SUFFICES ASSUME Init PROVE SweepInv
    OBVIOUS
  <2>1. \A c \in Chains : cursor[c] = 0 /\ Len(log[c]) = 0
    BY DEF Init
  <2>2. \A e \in Events : ~(e[2] <= cursor[e[1]])
    BY RelayAssumptions, <2>1 DEF Events
  <2> QED
    BY <2>1, <2>2 DEF SweepInv, SweepsLeaveNoGap
<1>2. RelayInv /\ SweepInv /\ [Next]_vars => SweepInv'
  <2> SUFFICES ASSUME RelayInv, SweepInv, [Next]_vars PROVE SweepInv'
    OBVIOUS
  <2> USE DEF memory, history
  <2>1. CASE UNCHANGED <<log, cursor, from, seen>>
    BY <2>1 DEF SweepInv, SweepsLeaveNoGap, Requested
  <2>2. CASE Forget /\ log' = log
    BY <2>2, ForgetKeepsSweeps
  <2>3. CASE \E c \in Chains, isRequest \in BOOLEAN : Emit(c, isRequest)
    BY <2>3, EmitKeepsSweeps
  <2>4. CASE \E b \in StartBlocks : Start(b)
    BY <2>4, StartKeepsSweeps
  <2>5. CASE \E c \in Chains : Poll(c)
    BY <2>5, PollKeepsSweeps
  <2>6. CASE Crash \/ Exit \/ DeliverAndCrash
    BY <2>2, <2>6 DEF Crash, Exit, DeliverAndCrash
  <2>7. CASE Stop \/ Pump \/ Deliver \/ DeliveryFails \/ UNCHANGED vars
    BY <2>1, <2>7 DEF Stop, Pump, Deliver, DeliveryFails, vars
  <2>8. CASE \/ \E e \in resolving : ResolveFails(e)
             \/ \E e \in resolving, contacts \in Answers : Resolve(e, contacts)
             \/ \E j \in building : EnqueueNext(j)
             \/ \E i \in 1 .. Len(queue.jobs) : BackoffEnds(i)
    BY <2>1, <2>8 DEF ResolveFails, Resolve, EnqueueNext, BackoffEnds
  <2> QED
    BY <2>3, <2>4, <2>5, <2>6, <2>7, <2>8 DEF Next
<1>3. SweepInv => SweepsLeaveNoGap
  BY DEF SweepInv
<1> QED
  BY RelayInvariant, <1>1, <1>2, <1>3, PTL DEF Spec
-----------------------------------------------------------------------------
(* No guardian is notified twice                                           *)

\* The jobs a channel has accepted.
Done == {k \in JobIds : delivered[k] > 0}

\* Nothing has happened yet that lets the queue forget a delivery.
Undisturbed == crashes = 0 /\ diskFailures = 0 /\ Cardinality(Done) <= MaxCompletedIds

\* While undisturbed, the journal lists every delivery, memory agrees with
\* the journal, and no job was delivered twice.
OnceInv ==
    /\ IsFiniteSet(Done)
    /\ Undisturbed =>
         /\ Q!Members(disk.completedIds) = Done
         /\ Len(disk.completedIds) = Cardinality(Done)
         /\ running => queue.completedIds = disk.completedIds
         /\ \A j \in JobIds : delivered[j] <= 1

\* A list of finished jobs that has room takes one more and forgets none.
LEMMA NewestKeeps ==
    ASSUME NEW list \in Seq(JobIds), NEW x \in JobIds, NEW n \in Nat \ {0}, Len(list) + 1 <= n
    PROVE  /\ Q!Members(Q!Newest(Append(list, x), n)) = Q!Members(list) \cup {x}
           /\ Len(Q!Newest(Append(list, x), n)) = Len(list) + 1
<1> DEFINE a == Append(list, x)
<1>1. /\ a \in Seq(JobIds) /\ Len(a) = Len(list) + 1 /\ Len(list) \in Nat
      /\ \A i \in 1 .. Len(list) : a[i] = list[i]
      /\ a[Len(list) + 1] = x
  OBVIOUS
<1> HIDE DEF a
<1>2. Q!Newest(a, n) = a
  BY <1>1 DEF Q!Newest
<1>3. Q!Members(a) = Q!Members(list) \cup {x}
  <2>1. \A y \in Q!Members(a) : y \in Q!Members(list) \cup {x}
    BY <1>1 DEF Q!Members
  <2>2. x \in Q!Members(a)
    BY <1>1 DEF Q!Members
  <2>3. \A y \in Q!Members(list) : y \in Q!Members(a)
    BY <1>1 DEF Q!Members
  <2> QED
    BY <2>1, <2>2, <2>3
<1> QED
  BY <1>1, <1>2, <1>3 DEF a

\* A delivery makes one more job done, or the same ones.
LEMMA DeliveryCounts ==
    ASSUME RelayInv, IsFiniteSet(Done), inFlight # Q!Idle,
           delivered' = [delivered EXCEPT ![inFlight.id] = Least(@ + 1, 2)]
    PROVE  /\ inFlight.id \in JobIds /\ IsFiniteSet(Done') /\ Done' = Done \cup {inFlight.id}
           /\ Cardinality(Done) \in Nat /\ Cardinality(Done') \in Nat
           /\ Cardinality(Done) <= Cardinality(Done')
           /\ inFlight.id \notin Done => Cardinality(Done') = Cardinality(Done) + 1
           /\ \A j \in JobIds : j # inFlight.id => delivered'[j] = delivered[j]
           /\ delivered[inFlight.id] = 0 => delivered'[inFlight.id] = 1
<1>1. inFlight.id \in JobIds /\ delivered \in [JobIds -> 0 .. 2]
  BY DEF RelayInv, InPlace, TypeOK
<1>2. delivered[inFlight.id] \in 0 .. 2
  BY <1>1
<1>3. Least(delivered[inFlight.id] + 1, 2) > 0
      /\ (delivered[inFlight.id] = 0 => Least(delivered[inFlight.id] + 1, 2) = 1)
  BY <1>2 DEF Least
<1>4. \A j \in JobIds : delivered'[j] = IF j = inFlight.id
                          THEN Least(delivered[inFlight.id] + 1, 2) ELSE delivered[j]
  BY <1>1
<1>5. Done' = Done \cup {inFlight.id}
  BY <1>1, <1>3, <1>4 DEF Done
<1> HIDE DEF Done
<1>6. Cardinality(Done) \in Nat
  BY FS_CardinalityType
<1>7. /\ IsFiniteSet(Done \cup {inFlight.id})
      /\ Cardinality(Done \cup {inFlight.id}) =
           IF inFlight.id \in Done THEN Cardinality(Done) ELSE Cardinality(Done) + 1
  BY FS_AddElement
<1>8. /\ IsFiniteSet(Done')
      /\ Cardinality(Done') =
           IF inFlight.id \in Done THEN Cardinality(Done) ELSE Cardinality(Done) + 1
  BY <1>5, <1>7
<1> QED
  BY <1>1, <1>3, <1>4, <1>5, <1>6, <1>8

\* The handler returned: the job it was given is not among the finished ones,
\* so this is its first delivery, and the journal records it.
LEMMA DeliverOnce ==
    ASSUME RelayInv, OnceInv, Deliver
    PROVE  OnceInv'
<1>1. /\ inFlight # Q!Idle /\ crashes' = crashes /\ running' = running
      /\ delivered' = [delivered EXCEPT ![inFlight.id] = Least(@ + 1, 2)]
  BY DEF Deliver, Q!Succeed, Q!Busy
<1>2. /\ inFlight.id \in JobIds /\ IsFiniteSet(Done') /\ Done' = Done \cup {inFlight.id}
      /\ Cardinality(Done) \in Nat /\ Cardinality(Done') \in Nat
      /\ Cardinality(Done) <= Cardinality(Done')
      /\ inFlight.id \notin Done => Cardinality(Done') = Cardinality(Done) + 1
      /\ \A j \in JobIds : j # inFlight.id => delivered'[j] = delivered[j]
      /\ delivered[inFlight.id] = 0 => delivered'[inFlight.id] = 1
  BY <1>1, DeliveryCounts DEF OnceInv
<1>3. SUFFICES ASSUME Undisturbed'
               PROVE  /\ Q!Members(disk'.completedIds) = Done'
                      /\ Len(disk'.completedIds) = Cardinality(Done')
                      /\ queue'.completedIds = disk'.completedIds
                      /\ \A j \in JobIds : delivered'[j] <= 1
  BY <1>2 DEF OnceInv
<1>4. /\ queue \in Q!TypeOfQueue /\ Q!OneRecord(queue) /\ running
      /\ inFlight.id \in Q!IdsOf(queue.jobs)
  <2>1. inFlight.index \in 1 .. Len(queue.jobs) /\ queue.jobs[inFlight.index].id = inFlight.id
    <3>1. Len(queue.jobs) \in Nat
      BY DEF RelayInv, Good, Q!TypeOfQueue
    <3> QED
      BY <1>1, <3>1 DEF RelayInv, InPlace
  <2> QED
    BY <1>1, <2>1 DEF RelayInv, Good, Q!IdsOf
<1>5. /\ Q!Persist(queue')
      /\ queue'.completedIds = Q!Newest(Append(queue.completedIds, inFlight.id), MaxCompletedIds)
  BY <1>4 DEF Deliver, Q!Succeed, Q!TypeOfQueue
<1>6. diskFailures = 0 /\ disk' = queue'
  <2>1. diskFailures' = 0 /\ diskFailures \in Nat
    BY <1>3, RelayAssumptions DEF Undisturbed, RelayInv, TypeOK
  <2> QED
    BY <1>5, <2>1 DEF Q!Persist
<1>7. MaxCompletedIds \in Nat \ {0} /\ Cardinality(Done') <= MaxCompletedIds
  BY <1>3, RelayAssumptions DEF Undisturbed
<1>8. Undisturbed
  BY <1>1, <1>2, <1>3, <1>6, <1>7 DEF Undisturbed
<1>9. /\ Q!Members(queue.completedIds) = Done /\ Len(queue.completedIds) = Cardinality(Done)
      /\ \A j \in JobIds : delivered[j] <= 1
  BY <1>4, <1>8 DEF OnceInv
<1>10. inFlight.id \notin Done
  BY <1>4, <1>9 DEF Q!OneRecord
<1>11. delivered[inFlight.id] = 0
  BY <1>2, <1>10 DEF Done, RelayInv, TypeOK
<1>12. queue.completedIds \in Seq(JobIds) /\ Len(queue.completedIds) + 1 <= MaxCompletedIds
  BY <1>2, <1>4, <1>7, <1>9, <1>10 DEF Q!TypeOfQueue
<1>13. /\ Q!Members(queue'.completedIds) = Q!Members(queue.completedIds) \cup {inFlight.id}
       /\ Len(queue'.completedIds) = Len(queue.completedIds) + 1
  BY <1>2, <1>5, <1>7, <1>12, NewestKeeps
<1>14. \A j \in JobIds : delivered'[j] <= 1
  BY <1>2, <1>9, <1>11
<1> QED
  BY <1>2, <1>6, <1>9, <1>10, <1>13, <1>14

\* A step of the queue that finishes no job.
LEMMA OtherStepOnce ==
    ASSUME RelayInv, OnceInv, delivered' = delivered, crashes' = crashes,
           running /\ running', queue'.completedIds = queue.completedIds,
           UNCHANGED <<disk, diskFailures>> \/ Q!Persist(queue')
    PROVE  OnceInv'
<1>1. Done' = Done
  BY DEF Done
<1>2. Undisturbed' => Undisturbed /\ (disk' = disk \/ disk' = queue')
  <2>1. diskFailures \in Nat
    BY RelayAssumptions DEF RelayInv, TypeOK
  <2> QED
    BY <1>1, <2>1 DEF Undisturbed, Q!Persist
<1> QED
  BY <1>1, <1>2 DEF OnceInv

\* Starting reads the journal; stopping leaves it alone.
LEMMA RestartOnce ==
    ASSUME RelayInv, OnceInv, delivered' = delivered, crashes' = crashes,
           UNCHANGED <<disk, diskFailures>>, ~running' \/ queue' = disk
    PROVE  OnceInv'
<1>1. Done' = Done
  BY DEF Done
<1> QED
  BY <1>1 DEF OnceInv, Undisturbed

\* A crash ends what is promised.
LEMMA CrashOnce ==
    ASSUME RelayInv, crashes' = crashes + 1, IsFiniteSet(Done')
    PROVE  OnceInv'
<1>1. crashes' # 0
  BY RelayAssumptions DEF RelayInv, TypeOK
<1> QED
  BY <1>1 DEF OnceInv, Undisturbed

\* The list of finished jobs changes only when a job is finished.
LEMMA CompletedIdsKept ==
    ASSUME RelayInv,
           \/ \E j \in JobIds : Q!Enqueue(j)
           \/ Q!Pump
           \/ \E i \in 1 .. Len(queue.jobs) : Q!BackoffEnds(i)
           \/ Q!Fail
    PROVE  /\ queue'.completedIds = queue.completedIds
           /\ UNCHANGED <<disk, diskFailures>> \/ Q!Persist(queue')
<1>1. queue \in Q!TypeOfQueue
  BY DEF RelayInv, Good
<1>2. CASE \E j \in JobIds : Q!Enqueue(j)
  BY <1>1, <1>2 DEF Q!Enqueue, Q!TypeOfQueue
<1>3. CASE Q!Pump
  BY <1>1, <1>3 DEF Q!Pump, Q!TypeOfQueue
<1>4. CASE \E i \in 1 .. Len(queue.jobs) : Q!BackoffEnds(i)
  BY <1>1, <1>4 DEF Q!BackoffEnds, Q!TypeOfQueue
<1>5. CASE Q!Fail
  BY <1>1, <1>5 DEF Q!Fail, Q!TypeOfQueue
<1> QED
  BY <1>2, <1>3, <1>4, <1>5

\* Without a crash, a failed write or more deliveries than MAX_COMPLETED_IDS,
\* no guardian is notified twice of an event: for any logs, guardians, orderly
\* restarts and repeated sweeps.
THEOREM OnceCorrect == Spec => []NotifiedOnce
<1>1. Init => OnceInv
  <2> SUFFICES ASSUME Init PROVE OnceInv
    OBVIOUS
  <2>1. Done = {} /\ \A j \in JobIds : delivered[j] = 0
    BY DEF Init, Done
  <2>2. IsFiniteSet({}) /\ Cardinality({}) = 0
    BY FS_EmptySet
  <2>3. Q!Members(disk.completedIds) = {} /\ Len(disk.completedIds) = 0 /\ ~running
    BY DEF Init, Q!Init, Q!EmptyQueue, Q!Members
  <2> QED
    BY <2>1, <2>2, <2>3 DEF OnceInv
<1>2. RelayInv /\ OnceInv /\ [Next]_vars => OnceInv'
  <2> SUFFICES ASSUME RelayInv, OnceInv, [Next]_vars PROVE OnceInv'
    OBVIOUS
  <2> USE DEF memory, history
  <2>1. CASE UNCHANGED <<running, queue, disk, diskFailures, delivered, crashes>>
    BY <2>1 DEF OnceInv, Undisturbed, Done
  <2>2. CASE \E b \in StartBlocks : Start(b)
    BY <2>2, RestartOnce DEF Start, Q!Load
  <2>3. CASE Exit
    BY <2>3, RestartOnce DEF Exit, Q!Halt
  <2>4. CASE Crash
    <3>1. Done' = Done /\ crashes' = crashes + 1
      BY <2>4 DEF Crash, Done
    <3> QED
      BY <3>1, CrashOnce DEF OnceInv
  <2>5. CASE DeliverAndCrash
    <3>1. IsFiniteSet(Done') /\ crashes' = crashes + 1
      BY <2>5, DeliveryCounts DEF DeliverAndCrash, OnceInv
    <3> QED
      BY <3>1, CrashOnce
  <2>6. CASE Deliver
    BY <2>6, DeliverOnce
  <2>7. ASSUME NEW j \in building, EnqueueNext(j)
        PROVE  OnceInv'
    <3>1. j \in JobIds /\ running
      BY <2>7 DEF RelayInv, TypeOK
    <3>2. /\ queue'.completedIds = queue.completedIds
          /\ UNCHANGED <<disk, diskFailures>> \/ Q!Persist(queue')
      BY <2>7, <3>1, CompletedIdsKept DEF EnqueueNext
    <3> QED
      BY <2>7, <3>1, <3>2, OtherStepOnce DEF EnqueueNext
  <2>8. CASE Pump
    <3>1. /\ queue'.completedIds = queue.completedIds
          /\ UNCHANGED <<disk, diskFailures>> \/ Q!Persist(queue')
      BY <2>8, CompletedIdsKept DEF Pump
    <3> QED
      BY <2>8, <3>1, OtherStepOnce DEF Pump
  <2>9. ASSUME NEW i \in 1 .. Len(queue.jobs), BackoffEnds(i)
        PROVE  OnceInv'
    <3>1. /\ queue'.completedIds = queue.completedIds
          /\ UNCHANGED <<disk, diskFailures>> \/ Q!Persist(queue')
      BY <2>9, CompletedIdsKept DEF BackoffEnds
    <3> QED
      BY <2>9, <3>1, OtherStepOnce DEF BackoffEnds
  <2>10. CASE DeliveryFails
    <3>1. /\ queue'.completedIds = queue.completedIds
          /\ UNCHANGED <<disk, diskFailures>> \/ Q!Persist(queue')
      BY <2>10, CompletedIdsKept DEF DeliveryFails
    <3>2. running
      BY <2>10 DEF DeliveryFails, Q!Fail, Q!Busy, RelayInv
    <3> QED
      BY <2>10, <3>1, <3>2, OtherStepOnce DEF DeliveryFails
  <2>11. CASE \/ \E c \in Chains, isRequest \in BOOLEAN : Emit(c, isRequest)
              \/ \E c \in Chains : Poll(c)
              \/ Stop
    BY <2>1, <2>11 DEF Emit, Poll, Stop
  <2>12. CASE \/ \E e \in resolving : ResolveFails(e)
              \/ \E e \in resolving, contacts \in Answers : Resolve(e, contacts)
    BY <2>1, <2>12 DEF ResolveFails, Resolve
  <2>13. CASE UNCHANGED vars
    BY <2>1, <2>13 DEF vars
  <2> QED
    BY <2>2, <2>3, <2>4, <2>5, <2>6, <2>7, <2>8, <2>9, <2>10, <2>11, <2>12, <2>13 DEF Next
<1>3. RelayInv /\ OnceInv => NotifiedOnce
  <2> SUFFICES ASSUME RelayInv, OnceInv PROVE NotifiedOnce
    OBVIOUS
  <2>1. /\ crashes \in Nat /\ diskFailures \in Nat /\ MaxCompletedIds \in Nat
        /\ delivered \in [JobIds -> 0 .. 2]
    BY RelayAssumptions DEF RelayInv, TypeOK
  <2>2. Cardinality(Done) \in Nat
    BY FS_CardinalityType DEF OnceInv
  <2>3. CASE Undisturbed
    BY <2>1, <2>3 DEF OnceInv, NotifiedOnce
  <2>4. CASE ~Undisturbed
    BY <2>1, <2>2, <2>4 DEF Undisturbed, NotifiedOnce, Done
  <2> QED
    BY <2>3, <2>4
<1> QED
  BY RelayInvariant, <1>1, <1>2, <1>3, PTL DEF Spec

=============================================================================
