----------------------------- MODULE EventIndex -----------------------------
(***************************************************************************)
(* Followers of the Soroban contract's events: the indexer of the browser  *)
(* (SorobanEventIndexer), the gateway that broadcasts to its socket        *)
(* (soroban-event-gateway), and the simpler SorobanEventWatcher.           *)
(*                                                                         *)
(* Each closed ledger holds no event, an event of a topic the indexer      *)
(* knows, or another one; its number is the cursor.  A poll is a loop with *)
(* an await for the answer and one for every event it stores, so stop and  *)
(* start in between leave the old loop alive beside the new one.           *)
(***************************************************************************)
EXTENDS Naturals, Sequences, FiniteSets, FiniteSetsExt

CONSTANTS
    MaxLedgers,     \* ledgers ever closed while the indexer runs
    MaxWatched,     \* the same for the watcher
    BatchSize,      \* events per answer
    MaxStarts,      \* calls of start
    MaxPollFaults,  \* polls, writes and sockets that fail
    PollRetries,    \* failures in a row that stop the indexer (maxRetries)
    MaxWire         \* broadcast events on their way

ASSUME IndexConstants ==
    /\ MaxLedgers \in Nat /\ MaxWatched \in Nat /\ BatchSize \in Nat \ {0} /\ MaxStarts \in Nat
    /\ MaxPollFaults \in Nat /\ PollRetries \in Nat \ {0} /\ MaxWire \in Nat

VARIABLES
    ledgers,    \* what each closed ledger holds
    running,    \* indexer: running
    cursor,     \* indexer: cursor in memory, 0 if undefined
    saved,      \* IndexedDB: cursor of the contract
    stored,     \* IndexedDB: events
    loading,    \* getCursor has not answered yet
    loops,      \* poll loops: [id, at, from, rest]
    failures,   \* indexer: failures since the last success
    starts, pollFaults,
    gate,       \* gateway: its cursor
    wire,       \* events broadcast to the indexer's socket
    ahead,      \* the socket delivered an event, a write failed, or two loops were alive
    told        \* watcher: [running, cursor, loops, seen, first]

indexVars == <<ledgers, running, cursor, saved, stored, loading, loops, failures, starts, pollFaults, gate, wire, ahead, told>>

Kinds == {"none", "known", "other"}
Quiet == [running |-> FALSE, cursor |-> 0, loops |-> {}, seen |-> {}, first |-> 0]

IndexInit ==
    /\ ledgers = <<>> /\ running = FALSE /\ cursor = 0 /\ saved = 0 /\ stored = {}
    /\ loading = FALSE /\ loops = {} /\ failures = 0 /\ starts = 0 /\ pollFaults = 0
    /\ gate = 0 /\ wire = <<>> /\ ahead = FALSE /\ told = Quiet

Fault == pollFaults < MaxPollFaults /\ pollFaults' = pollFaults + 1

\* Soroban closes a ledger.
Close(k, max) ==
    /\ Len(ledgers) < max /\ ledgers' = Append(ledgers, k)
    /\ UNCHANGED <<failures, running, cursor, saved, stored, loading, loops, starts, pollFaults, gate, wire, ahead, told>>

\* The ledgers after a cursor that hold an event.
Following(from) == {i \in 1 .. Len(ledgers) : i > from /\ ledgers[i] # "none"}

(* The RPC server's getEvents after a cursor: the oldest events, one       *)
(* batch.  An answer is the set of its ledgers, read in ascending order.   *)
Events(from) ==
    {i \in Following(from) : Cardinality({j \in Following(from) : j < i}) < BatchSize}

\* Mutant: the first event of an answer is taken for the last one of the answer before.
Parsed_Tail(rows) == {i \in rows : ledgers[i] = "known" /\ \E j \in rows : j < i}
\* parseSorobanEvent gives null for other topics.
Parsed(rows) == {i \in rows : ledgers[i] = "known"}

\* start calls stop, which closes the socket and ends loops that wait for their
\* timer and no others; it does not reset the failures.
StartIndexer ==
    /\ starts < MaxStarts /\ starts' = starts + 1
    /\ running' = TRUE /\ loading' = TRUE
    /\ loops' = {l \in loops : l.at # "timer"} \cup {[id |-> starts + 1, at |-> "fetch", from |-> cursor, rest |-> {}]}
    /\ ahead' = (ahead \/ \E l \in loops : l.at # "timer")
    /\ wire' = <<>>
    /\ UNCHANGED <<ledgers, failures, cursor, saved, stored, pollFaults, gate, told>>

\* stop, for which a loop that ends passes the others.
Stopped(rest) ==
    /\ running' = FALSE /\ wire' = <<>>
    /\ loops' = {l \in rest : l.at # "timer"}

Stop ==
    /\ running /\ Stopped(loops)
    /\ UNCHANGED <<ledgers, failures, cursor, saved, stored, loading, starts, pollFaults, gate, ahead, told>>

\* The persisted cursor arrives, whatever the polls have done since.
CursorLoaded ==
    /\ loading /\ loading' = FALSE
    /\ cursor' = IF saved # 0 THEN saved ELSE cursor
    /\ UNCHANGED <<ledgers, failures, running, saved, stored, loops, starts, pollFaults, gate, wire, ahead, told>>

\* The page is reloaded: what is in memory goes.
Reload ==
    /\ starts > 0 /\ starts < MaxStarts
    /\ running' = FALSE /\ cursor' = 0 /\ loading' = FALSE /\ loops' = {} /\ wire' = <<>> /\ failures' = 0
    /\ UNCHANGED <<ledgers, saved, stored, starts, pollFaults, gate, ahead, told>>

Becomes(l, m) == loops' = (loops \ {l}) \cup {m}

\* The timer fires: the request is made with the cursor of this moment.
Poll(l) ==
    /\ l.at = "timer" /\ Becomes(l, [l EXCEPT !.at = "fetch", !.from = cursor])
    /\ UNCHANGED <<ledgers, failures, running, cursor, saved, stored, loading, starts, pollFaults, gate, wire, ahead, told>>

\* Another poll is scheduled if the indexer is running at the end of this one.
Ends(l) == IF running THEN Becomes(l, [l EXCEPT !.at = "timer", !.from = 0, !.rest = {}]) ELSE loops' = loops \ {l}

(* The answer: the cursor moves with every parsed event, before the event  *)
(* is stored; the others do not move it.                                   *)
Fetched(l) ==
    /\ l.at = "fetch"
    /\ LET rows == Parsed(Events(l.from)) IN
         IF rows = {} THEN Ends(l) /\ failures' = 0 /\ UNCHANGED cursor
         ELSE /\ cursor' = Min(rows) /\ UNCHANGED failures
              /\ Becomes(l, [l EXCEPT !.at = "put", !.rest = rows])
    /\ UNCHANGED <<ledgers, running, saved, stored, loading, starts, pollFaults, gate, wire, ahead, told>>

\* The catch of poll: another poll follows, or the indexer stops.
PollFails(l) ==
    /\ failures' = failures + 1
    /\ IF failures' >= PollRetries THEN Stopped(loops \ {l})
       ELSE Ends(l) /\ UNCHANGED <<running, wire>>

FetchFails(l) ==
    /\ l.at = "fetch" /\ Fault /\ PollFails(l)
    /\ UNCHANGED <<ledgers, cursor, saved, stored, loading, starts, gate, ahead, told>>

\* Mutant: the cursor is written as soon as the batch is there.
SavedBy_Batch(l) == Max(l.rest)
\* put: event and cursor in one transaction.
SavedBy(l) == Min(l.rest)

Put(l) ==
    /\ l.at = "put"
    /\ stored' = stored \cup {Min(l.rest)}
    /\ saved' = SavedBy(l)
    /\ LET rest == l.rest \ {Min(l.rest)} IN
         IF rest = {} THEN Ends(l) /\ failures' = 0 /\ UNCHANGED cursor
         ELSE cursor' = Min(rest) /\ Becomes(l, [l EXCEPT !.rest = rest]) /\ UNCHANGED failures
    /\ UNCHANGED <<ledgers, running, loading, starts, pollFaults, gate, wire, ahead, told>>

\* The database refuses the event: the cursor in memory is past it already.
PutFails(l) ==
    /\ l.at = "put" /\ Fault /\ PollFails(l)
    /\ ahead' = TRUE
    /\ UNCHANGED <<ledgers, cursor, saved, stored, loading, starts, gate, told>>

\* pollContract of the gateway: broadcast to the sockets that are open.
Gateway ==
    /\ Parsed(Events(gate)) # {} /\ Len(wire) < MaxWire
    /\ gate' = Min(Parsed(Events(gate)))
    /\ wire' = IF running THEN Append(wire, gate') ELSE wire
    /\ UNCHANGED <<ledgers, failures, running, cursor, saved, stored, loading, loops, starts, pollFaults, ahead, told>>

\* The gateway keeps its cursor in memory only.
GatewayRestart ==
    /\ gate > 0 /\ Fault /\ gate' = 0
    /\ UNCHANGED <<ledgers, failures, running, cursor, saved, stored, loading, loops, starts, wire, ahead, told>>

\* socket.onmessage publishes at once, cursor of the event included.
Relayed ==
    /\ wire # <<>> /\ wire' = Tail(wire)
    /\ stored' = stored \cup {Head(wire)} /\ saved' = Head(wire)
    /\ ahead' = TRUE
    /\ UNCHANGED <<ledgers, failures, running, cursor, loading, loops, starts, pollFaults, gate, told>>

\* The socket fails, which counts as a failure, or opens again, which clears them.
SocketFails ==
    /\ running /\ Fault /\ failures' = failures + 1 /\ wire' = <<>>
    /\ UNCHANGED <<ledgers, running, cursor, saved, stored, loading, loops, starts, gate, ahead, told>>

SocketOpens ==
    /\ running /\ failures # 0 /\ failures' = 0
    /\ UNCHANGED <<ledgers, running, cursor, saved, stored, loading, loops, starts, pollFaults, gate, wire, ahead, told>>

IndexNext ==
    \/ \E k \in Kinds : Close(k, MaxLedgers)
    \/ StartIndexer \/ Stop \/ CursorLoaded \/ Reload \/ Gateway \/ GatewayRestart \/ Relayed
    \/ SocketFails \/ SocketOpens
    \/ \E l \in loops : Poll(l) \/ Fetched(l) \/ FetchFails(l) \/ Put(l) \/ PutFails(l)

-----------------------------------------------------------------------------
\* SorobanEventWatcher.start; a second call for the same contract returns at once.
Watch ==
    /\ ~told.running /\ starts < MaxStarts /\ starts' = starts + 1
    /\ told' = [told EXCEPT !.running = TRUE, !.loops = @ \cup {[id |-> starts + 1, at |-> "poll", from |-> 0]}]
    /\ ahead' = (ahead \/ told.loops # {})
    /\ UNCHANGED <<ledgers, failures, running, cursor, saved, stored, loading, loops, pollFaults, gate, wire>>

Unwatch ==
    /\ told.running
    /\ told' = [told EXCEPT !.running = FALSE, !.loops = {l \in @ : l.at # "poll"}]
    /\ UNCHANGED <<ledgers, failures, running, cursor, saved, stored, loading, loops, starts, pollFaults, gate, wire, ahead>>

\* fetchEvents: after the cursor, or without one from the latest ledger on.
RequestFrom == IF told.cursor # 0 THEN told.cursor ELSE IF ledgers = <<>> THEN 0 ELSE Len(ledgers) - 1

AskRpc(l) ==
    /\ l.at = "poll"
    /\ told' = [told EXCEPT !.loops = (@ \ {l}) \cup {[l EXCEPT !.at = "answer", !.from = RequestFrom]}]
    /\ UNCHANGED <<ledgers, failures, running, cursor, saved, stored, loading, loops, starts, pollFaults, gate, wire, ahead>>

Rescheduled(l) == IF told.running THEN {[l EXCEPT !.at = "poll"]} ELSE {}

\* All events of the answer are dispatched without an await; a failure only skips them.
Dispatch(l) ==
    /\ l.at = "answer"
    /\ \/ /\ LET rows == Events(l.from) IN
              told' = [told EXCEPT !.loops = (@ \ {l}) \cup Rescheduled(l),
                         !.cursor = IF rows = {} THEN @ ELSE Max(rows),
                         !.seen = @ \cup rows,
                         !.first = IF @ = 0 /\ rows # {} THEN Min(rows) ELSE @]
          /\ UNCHANGED pollFaults
       \/ /\ Fault
          /\ told' = [told EXCEPT !.loops = (@ \ {l}) \cup Rescheduled(l)]
    /\ UNCHANGED <<ledgers, failures, running, cursor, saved, stored, loading, loops, starts, gate, wire, ahead>>

WatchNext ==
    \/ \E k \in Kinds : Close(k, MaxWatched)
    \/ Watch \/ Unwatch
    \/ \E l \in told.loops : AskRpc(l) \/ Dispatch(l)

-----------------------------------------------------------------------------

\* Cursors and events are ledgers that exist; there are as many loops as starts at most.
IndexTypeOK ==
    /\ cursor \in 0 .. Len(ledgers) /\ saved \in 0 .. Len(ledgers)
    /\ stored \subseteq {i \in 1 .. Len(ledgers) : ledgers[i] = "known"}
    /\ Len(wire) <= MaxWire /\ \A l \in loops : l.id <= starts

(* The persisted cursor skips nothing: every event of a known topic up to  *)
(* it is stored, so a reload that goes on from it loses none.  Only an     *)
(* event that the socket delivered first, a refused write, or a second     *)
(* loop alive beside the first can move it past an event not yet stored.   *)
CursorSkipsNothing ==
    ~ahead => \A i \in 1 .. saved : ledgers[i] = "known" => i \in stored

(* From the first event it has seen on, the watcher dispatches every event *)
(* up to its cursor, whatever polls fail, unless a stop and start left two *)
(* loops alive.  (Before the first one each poll begins at the ledger that *)
(* is the latest then, and what lies between two polls is never seen.)     *)
WatcherMissesNothing ==
    told.first # 0 /\ ~ahead => \A i \in told.first .. told.cursor : ledgers[i] # "none" => i \in told.seen

\* A batch of events of other topics lies before ledger i.
Blocked(i) ==
    \E a \in 0 .. i - 1 :
        LET others == {j \in a + 1 .. i - 1 : ledgers[j] = "other"} IN
            Cardinality(others) >= BatchSize /\ \A j \in a + 1 .. i - 1 : ledgers[j] # "known"

(* While the indexer is running every event of a known topic is stored in  *)
(* the end, unless the cursor was moved past it (CursorSkipsNothing) or a  *)
(* full batch of other topics lies before it: those do not move the        *)
(* cursor, and the same answer is fetched for ever.                        *)
EventsAreIndexed ==
    \A i \in 1 .. MaxLedgers :
        (running /\ i \in 1 .. Len(ledgers) /\ ledgers[i] = "known" /\ ~Blocked(i))
            ~> (i \in stored \/ ~running \/ ahead)
=============================================================================
