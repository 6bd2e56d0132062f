------------------------------- MODULE EventLogs -------------------------------
(***************************************************************************)
(* getEventLogs of contract.service.ts: the logs of one filter are fetched *)
(* in chunks from the first RPC endpoint that answers, on top of what      *)
(* localStorage remembers of an earlier query.  Queries overlap, and the   *)
(* endpoints have different heads.  A block is its number; a log is a      *)
(* block of hits.                                                          *)
(***************************************************************************)
EXTENDS Naturals, FiniteSets, FiniteSetsExt

CONSTANTS
    MaxBlock,         \* bound on the blocks of the chain
    DeployBlocks,     \* values of VITE_CONTRACT_DEPLOY_BLOCK; 0 when unset
    Window,           \* the 200000 blocks looked back when it is unset
    ChunkSize         \* VITE_LOG_CHUNK_SIZE

ASSUME EventLogsAssumptions ==
    MaxBlock \in Nat \ {0} /\ DeployBlocks \subseteq Nat /\ Window \in Nat /\ ChunkSize \in Nat \ {0}

Endpoints == 1 .. 2
Queries == 1 .. 2
NoCache == [synced |-> 0, logs |-> {}, low |-> 0, known |-> FALSE]
Blank == [st |-> "idle", from |-> 0, cache |-> NoCache, at |-> 1, to |-> 0,
          low |-> 0, count |-> [b \in 1 .. MaxBlock |-> 0]]

VARIABLES
    deploy,        \* the configured deploy block
    hits,          \* the blocks of the chain that hold a log
    chainHead, head, \* of the chain and of each endpoint
    logCache,      \* the record in localStorage; low is the block it starts at
    query          \* the queries in progress and their results

logVars == <<deploy, hits, chainHead, head, logCache, query>>

LogsInit ==
    /\ deploy \in DeployBlocks
    /\ hits = {} /\ chainHead = 1 /\ head = [e \in Endpoints |-> 1]
    /\ logCache = NoCache
    /\ query = [q \in Queries |-> Blank]

MineBlock(hit) ==
    /\ chainHead < MaxBlock
    /\ chainHead' = chainHead + 1
    /\ hits' = IF hit THEN hits \cup {chainHead + 1} ELSE hits
    /\ UNCHANGED <<deploy, head, logCache, query>>

EndpointSees(e) ==
    /\ head[e] < chainHead
    /\ head' = [head EXCEPT ![e] = @ + 1]
    /\ UNCHANGED <<deploy, hits, chainHead, logCache, query>>

\* getFromBlock: the deploy block, or a window behind the first endpoint that answers.
FromBlock(e) ==
    IF deploy > 0 THEN deploy ELSE IF head[e] > Window THEN head[e] - Window ELSE 0

BeginQuery(q, e) ==
    /\ query[q].st # "asking"
    /\ query' = [query EXCEPT ![q] = [Blank EXCEPT !.st = "asking", !.from = FromBlock(e),
                                                   !.cache = logCache]]
    /\ UNCHANGED <<deploy, hits, chainHead, head, logCache>>

KeptLogs(q) == {b \in query[q].cache.logs : b >= query[q].from}

\* The cached logs are used when their end lies inside the range asked for.
CanUseCache(q, start, to) ==
    /\ query[q].cache.known
    /\ query[q].cache.synced >= start /\ query[q].cache.synced <= to
    /\ KeptLogs(q) # {}

IncrementalStart(q, start, to) ==
    IF CanUseCache(q, start, to) THEN Max({start, query[q].cache.synced + 1}) ELSE start

\* The chunks [current, min(current + ChunkSize - 1, to)] of one endpoint.
Chunks(first, to) ==
    {<<c, Min({c + ChunkSize - 1, to})>> :
        c \in {d \in first .. to : (d - first) % ChunkSize = 0}}

\* How often each block's log is in the list after one endpoint's loop.
Collected(q, first, to, use) ==
    [b \in 1 .. MaxBlock |->
        (IF use /\ b \in KeptLogs(q) THEN 1 ELSE 0)
        + (IF b \in hits THEN Cardinality({c \in Chunks(first, to) : c[1] <= b /\ b <= c[2]}) ELSE 0)]

Listed(count) == {b \in 1 .. MaxBlock : count[b] > 0}

\* Endpoint at answers every call: the list is stored with the head it reached.
QueryAnswers(q) ==
    LET to == head[query[q].at]
        start == Min({query[q].from, to})
        use == CanUseCache(q, start, to)
        count == Collected(q, IncrementalStart(q, start, to), to, use)
        low == IF use THEN Max({start, query[q].cache.low}) ELSE start
    IN /\ query[q].st = "asking"
       /\ query' = [query EXCEPT ![q] = [Blank EXCEPT !.st = "answered", !.count = count,
                                                         !.to = to, !.low = low]]
       /\ logCache' = [synced |-> to, logs |-> Listed(count), low |-> low, known |-> TRUE]
       /\ UNCHANGED <<deploy, hits, chainHead, head>>

\* Some call of the endpoint fails: the next one starts over.  After the last
\* one the cached logs are the answer, or the query throws.
QueryFails(q) ==
    /\ query[q].st = "asking"
    /\ query' = [query EXCEPT ![q] =
         IF query[q].at < Cardinality(Endpoints) THEN [query[q] EXCEPT !.at = query[q].at + 1]
         ELSE IF KeptLogs(q) # {}
              THEN [Blank EXCEPT !.st = "cached", !.to = query[q].cache.synced,
                             !.low = Max({query[q].from, query[q].cache.low}),
                             !.count = [b \in 1 .. MaxBlock |-> IF b \in KeptLogs(q) THEN 1 ELSE 0]]
              ELSE Blank]
    /\ UNCHANGED <<deploy, hits, chainHead, head, logCache>>

LogsNext ==
    \/ \E hit \in BOOLEAN : MineBlock(hit)
    \/ \E e \in Endpoints : EndpointSees(e)
    \/ \E q \in Queries :
         \/ \E e \in Endpoints : BeginQuery(q, e)
         \/ QueryAnswers(q) \/ QueryFails(q)

LogsSpec == LogsInit /\ [][LogsNext]_logVars

--------------------------------------------------------------------------------
\* Type invariant of the log queries.
LogsTypeOK ==
    /\ hits \subseteq 1 .. MaxBlock /\ chainHead \in 1 .. MaxBlock
    /\ \A e \in Endpoints : head[e] \in 1 .. chainHead
    /\ logCache.logs \subseteq 1 .. MaxBlock /\ logCache.synced \in 0 .. MaxBlock
    /\ \A q \in Queries : query[q].st \in {"idle", "asking", "answered", "cached"}

\* Whatever endpoints answered, failed or lagged, and whichever query stored its
\* list last, a list holds every log of its range once and nothing else.  The
\* range begins at the configured deploy block; without one, at the highest
\* start of the queries whose cached list it builds on.
LogsListedOnce ==
    \A q \in Queries : query[q].st \in {"answered", "cached"} =>
        \A b \in Max({1, IF deploy > 0 THEN deploy ELSE query[q].low}) .. query[q].to :
            query[q].count[b] = IF b \in hits THEN 1 ELSE 0
================================================================================
