----------------------------- MODULE WalletSession -----------------------------
(***************************************************************************)
(* The wallet session of the application (Web3Context.tsx): checks of the  *)
(* injected wallets run unattended, overlap and are retried, while the     *)
(* user connects, disconnects, switches accounts in the extension and      *)
(* switches between the two ecosystems.  The Stellar account is followed   *)
(* by the polling watcher of stellar.service.ts.                           *)
(***************************************************************************)
EXTENDS Naturals, FiniteSets

CONSTANTS
    Wallets,          \* accounts an extension may expose
    MaxAttempts,      \* AUTO_CONNECT_MAX_ATTEMPTS
    MaxActs           \* bound on what the user does

ASSUME WalletSessionAssumptions == MaxAttempts \in Nat \ {0} /\ MaxActs \in Nat

None == "none"
Ecosystems == {"avalanche", "stellar"}
CheckIds == 1 .. 2

VARIABLES
    ecosystem,
    exposed,       \* the account each extension exposes, or None
    account,       \* of the session
    signer,        \* the account whose signer contractService was given
    activeAccount, \* of stellarService
    lastAccount,   \* what the polling watcher saw last; None when it is off
    checks,        \* checkConnection and connect calls awaiting the wallet
    attempts, suppressed, timer,  \* the auto-connect guard; the retry checks that ecosystem
    acts,          \* what the user has done, counted
    raced, faulted \* history: a wallet changed under a check; a check failed

guard == <<attempts, suppressed, timer>>
session == <<account, signer, activeAccount>>
walletVars == <<ecosystem, exposed, session, lastAccount, checks, guard, acts, raced, faulted>>

Check(kind, eco) ==
    {[id |-> id, kind |-> kind, eco |-> eco, got |-> "pending"] :
        id \in {i \in CheckIds : \A c \in checks : c.id # i}}

\* A check beyond the bound of two in flight is left out of the model.
Start(kind, eco, kept) ==
    IF Check(kind, eco) = {} THEN checks' = kept
    ELSE checks' = kept \cup {CHOOSE c \in Check(kind, eco) : \A d \in Check(kind, eco) : c.id <= d.id}

WalletInit ==
    /\ ecosystem = "avalanche"
    /\ exposed = [e \in Ecosystems |-> None]
    /\ account = None /\ signer = None /\ activeAccount = None /\ lastAccount = None
    /\ checks = {[id |-> 1, kind |-> "auto", eco |-> "avalanche", got |-> "pending"]}
    /\ attempts = 0 /\ suppressed = FALSE /\ timer = None
    /\ acts = 0 /\ raced = FALSE /\ faulted = FALSE

Act == acts < MaxActs /\ acts' = acts + 1

\* attemptAutoConnect: nothing when suppressed; a pending retry is replaced.
AttemptAutoConnect(eco, isSuppressed, kept) ==
    IF isSuppressed THEN checks' = kept /\ timer' = timer
    ELSE timer' = None /\ Start("auto", eco, kept)

Dropped == account' = None /\ signer' = None

\* The user switches or locks an extension; accountsChanged only matters to Avalanche.
SwitchAccount(e, w) ==
    /\ Act /\ w # exposed[e]
    /\ exposed' = [exposed EXCEPT ![e] = w]
    /\ raced' = (raced \/ checks # {})
    /\ IF e = "avalanche" /\ ecosystem = "avalanche"
       THEN IF w = None
            THEN Dropped /\ UNCHANGED <<checks, timer>>
            ELSE AttemptAutoConnect("avalanche", suppressed, checks) /\ UNCHANGED <<account, signer>>
       ELSE UNCHANGED <<account, signer, checks, timer>>
    /\ UNCHANGED <<ecosystem, activeAccount, lastAccount, attempts, suppressed, faulted>>

\* handleChainChanged, and switchToFuji once the wallet has switched.
ChainChanged ==
    /\ Act /\ ecosystem = "avalanche"
    /\ AttemptAutoConnect("avalanche", suppressed, checks)
    /\ UNCHANGED <<ecosystem, exposed, session, lastAccount, attempts, suppressed, raced, faulted>>

CheckReads(c) ==
    /\ c.got = "pending"
    /\ checks' = (checks \ {c}) \cup {[c EXCEPT !.got = exposed[c.eco]]}
    /\ UNCHANGED <<ecosystem, exposed, session, lastAccount, guard, acts, raced, faulted>>

\* The account read first, with the signer the wallet gives at the end.
CheckEnds(c) ==
    /\ c.got # "pending"
    /\ c.eco = "avalanche" /\ c.got # None => exposed["avalanche"] # None
    /\ checks' = checks \ {c}
    /\ IF c.got = None THEN account' = account ELSE account' = c.got
    /\ signer' = IF c.eco = "avalanche" /\ c.got # None THEN exposed["avalanche"] ELSE signer
    /\ activeAccount' = IF c.eco = "stellar" THEN c.got ELSE activeAccount
    /\ attempts' = IF c.kind = "auto" THEN 0 ELSE attempts
    /\ raced' = (raced \/ checks \ {c} # {})
    /\ UNCHANGED <<ecosystem, exposed, lastAccount, suppressed, timer, acts, faulted>>

Failures == attempts + 1

\* A refusal stops the retries until the user acts; other failures are retried.
CheckFails(c, refused) ==
    /\ checks' = checks \ {c}
    /\ faulted' = TRUE
    /\ suppressed' = (suppressed \/ refused)
    /\ IF c.kind = "auto" /\ ~refused
       THEN /\ attempts' = IF attempts < MaxAttempts THEN Failures ELSE attempts
            /\ timer' = IF Failures < MaxAttempts THEN c.eco ELSE timer
       ELSE UNCHANGED <<attempts, timer>>
    /\ UNCHANGED <<ecosystem, exposed, session, lastAccount, acts, raced>>

TimerFires ==
    /\ timer # None
    /\ timer' = None
    /\ IF suppressed THEN checks' = checks ELSE Start("auto", timer, checks)
    /\ UNCHANGED <<ecosystem, exposed, session, lastAccount, attempts, suppressed, acts, raced, faulted>>

Connect ==
    /\ Act
    /\ attempts' = 0 /\ suppressed' = FALSE /\ timer' = None
    /\ exposed[ecosystem] # None /\ Start("connect", ecosystem, checks)
    /\ UNCHANGED <<ecosystem, exposed, session, lastAccount, raced, faulted>>

HadSession == account # None \/ signer # None

Disconnect ==
    /\ Act /\ HadSession
    /\ account' = None /\ signer' = None
    /\ activeAccount' = IF ecosystem = "stellar" THEN None ELSE activeAccount
    /\ UNCHANGED <<ecosystem, exposed, lastAccount, checks, guard, raced, faulted>>

\* setEcosystem: the guard is reset, the old session dropped; the effects then
\* check the other wallet and start or stop the watcher.
SetEcosystem(e) ==
    /\ Act /\ e # ecosystem
    /\ ecosystem' = e
    /\ attempts' = 0 /\ suppressed' = FALSE /\ timer' = None
    /\ account' = None /\ signer' = None
    /\ activeAccount' = IF ecosystem = "stellar" /\ HadSession THEN None ELSE activeAccount
    /\ lastAccount' = IF e = "stellar" THEN activeAccount ELSE None
    /\ Start("auto", e, checks)
    /\ raced' = (raced \/ checks # {})
    /\ UNCHANGED <<exposed, faulted>>

\* startPollingWatcher: compares with what it saw last, not with the session.
PollTick ==
    /\ ecosystem = "stellar" /\ exposed["stellar"] \notin {None, lastAccount}
    /\ lastAccount' = exposed["stellar"]
    /\ activeAccount' = exposed["stellar"] /\ account' = exposed["stellar"]
    /\ UNCHANGED <<ecosystem, exposed, signer, checks, guard, acts, raced, faulted>>

WalletNext ==
    \/ \E e \in Ecosystems, w \in Wallets \cup {None} : SwitchAccount(e, w)
    \/ \E c \in checks : CheckReads(c) \/ CheckEnds(c) \/ \E refused \in BOOLEAN : CheckFails(c, refused)
    \/ ChainChanged \/ TimerFires \/ Connect \/ Disconnect \/ PollTick
    \/ \E e \in Ecosystems : SetEcosystem(e)

--------------------------------------------------------------------------------
\* Type invariant of the session.
WalletTypeOK ==
    /\ ecosystem \in Ecosystems /\ exposed \in [Ecosystems -> Wallets \cup {None}]
    /\ {account, signer, activeAccount, lastAccount} \subseteq Wallets \cup {None}
    /\ Cardinality(checks) <= 2 /\ attempts \in 0 .. MaxAttempts
    /\ suppressed \in BOOLEAN /\ timer \in Ecosystems \cup {None}

\* Once nothing is in flight the Avalanche session is the wallet's account, with
\* its own signer, unless a check overlapped another or a switch, or failed.
QuietSessionIsCurrent ==
    (checks = {} /\ ~raced /\ ~faulted /\ ecosystem = "avalanche" /\ account # None)
        => (account = exposed["avalanche"] /\ signer = account)

\* Unattended retries end: after the user's last action the application comes to
\* rest, however the wallet answers.
AutoConnectSettles == <>[](checks = {} /\ timer = None)

================================================================================
