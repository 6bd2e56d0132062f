------------------------------- MODULE MCServices -------------------------------
(* The client-side services that must get an answer in the end, for TLC.    *)
(* They share no state: each behaviour is one of a single service, and the  *)
(* others keep their initial state.                                         *)
EXTENDS ContractClient, WalletSession, EventIndex, GatewayPool, CryptoWorkers

VARIABLE service

ServicesInit ==
    /\ service \in {"client", "wallet", "indexer", "watcher", "race", "score", "workers"}
    /\ ClientInit /\ WalletInit /\ IndexInit /\ GateInit /\ WorkInit
    /\ service # "client" => watched = CHOOSE c \in Caches : TRUE
    /\ service # "workers" => pool = {}

ClientStep ==
    /\ service = "client" /\ ClientNext
    /\ UNCHANGED <<service, walletVars, indexVars, gateVars, workVars>>

WalletStep ==
    /\ service = "wallet" /\ WalletNext
    /\ UNCHANGED <<service, clientVars, indexVars, gateVars, workVars>>

IndexStep ==
    /\ \/ service = "indexer" /\ IndexNext
       \/ service = "watcher" /\ WatchNext
    /\ UNCHANGED <<service, clientVars, walletVars, gateVars, workVars>>

GateStep ==
    /\ \/ service = "race" /\ RaceNext
       \/ service = "score" /\ ScoreNext
    /\ UNCHANGED <<service, clientVars, walletVars, indexVars, workVars>>

WorkStep ==
    /\ service = "workers" /\ WorkNext
    /\ UNCHANGED <<service, clientVars, walletVars, indexVars, gateVars>>

ServicesNext == ClientStep \/ WalletStep \/ IndexStep \/ GateStep \/ WorkStep

\* Pages read again and again, time passes, and endpoints catch up and do not
\* fail for ever.
ClientFairness ==
    /\ WF_clientVars(service = "client" /\ Tick) /\ WF_clientVars(service = "client" /\ NodeSync)
    /\ WF_clientVars(service = "client" /\ (ReadHit \/ ReadMiss))
    /\ SF_clientVars(service = "client" /\ \E f \in fetches : Answer(f))
    /\ SF_clientVars(service = "client" /\ \E f \in fetches : Settle(f))

\* Wallet calls return one way or the other, timers fire, the interval ticks.
WalletFairness ==
    /\ WF_walletVars(service = "wallet" /\ TimerFires) /\ WF_walletVars(service = "wallet" /\ PollTick)
    /\ WF_walletVars(service = "wallet" /\ \E c \in checks : CheckReads(c))
    /\ WF_walletVars(service = "wallet" /\ \E c \in checks : CheckEnds(c) \/ CheckFails(c, FALSE))

\* IndexedDB answers, and every polling loop gets its turn and its answers.
IndexFairness ==
    /\ WF_indexVars(service = "indexer" /\ CursorLoaded)
    /\ \A n \in 1 .. MaxStarts :
          WF_indexVars(service = "indexer" /\ \E l \in loops : l.id = n /\ (Poll(l) \/ Fetched(l) \/ Put(l)))

\* Every request has a timeout, so it is answered or fails in the end.
GateFairness ==
    \A d \in Downloads :
        /\ WF_gateVars(service \in {"race", "score"} /\ \E g \in Gateways, b \in BOOLEAN :
                          GatewayAnswers(d, g, b) \/ GatewayFails(d, g, b))
        /\ WF_gateVars(service \in {"race", "score"} /\ \E g \in Gateways : ProbeAnswers(d, g) \/ ProbeFails(d, g))
        /\ WF_gateVars(service \in {"race", "score"} /\ \E o \in {"ok", "http", "network"} : Download(d, o))

\* The browser runs queued messages and inline work.
WorkFairness ==
    /\ \A c \in WorkCalls : WF_workVars(service = "workers" /\ RunInline(c)) /\ WF_workVars(service = "workers" /\ HandleMessage(c))
    /\ \A r \in [id : WorkCalls, ok : BOOLEAN] : WF_workVars(service = "workers" /\ OnResponse(r))

ServicesSpec ==
    /\ ServicesInit
    /\ [][ServicesNext]_<<service, clientVars, walletVars, indexVars, gateVars, workVars>>
    /\ ClientFairness /\ WalletFairness
    /\ IndexFairness /\ GateFairness
    /\ WorkFairness

\* The type invariants of the services.
ServicesTypeOK == ClientTypeOK /\ WalletTypeOK /\ IndexTypeOK /\ GateTypeOK /\ WorkTypeOK

\* The contract client caches, confirms and repeats only what the chain
\* justifies (ttlCache.ts, waitForReceipt, the offline queue).
ClientIsHonest == StaleOnlyByOverlap /\ DoneWasMined /\ RepeatedOnlyWhenLost

\* Cursors pass no event by, the watcher and the session follow their source
\* (sorobanEventIndexer, sorobanEventWatcher, Web3Context).
NothingIsSkipped == CursorSkipsNothing /\ WatcherMissesNothing /\ QuietSessionIsCurrent

\* Reads, automatic connections, events, downloads and key derivations come
\* to an end under the fairness of their event loops.
EverythingSettles ==
    /\ service = "client" => ReadsCatchUp
    /\ service = "wallet" => AutoConnectSettles
    /\ service = "indexer" => EventsAreIndexed
    /\ service \in {"race", "score"} => DownloadsSettle
    /\ service = "workers" => DerivationsSettle

=============================================================================
