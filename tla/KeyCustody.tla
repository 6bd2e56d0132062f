----------------------------- MODULE KeyCustody -----------------------------
(***************************************************************************)
(* The key pair of one account: the record in IndexedDB with its OPAQUE    *)
(* envelope and its passkey envelope, the private key cached in memory,    *)
(* the OPAQUE server with its credential, tokens and attempt counter, and  *)
(* the session lock.  Operations of the client are tasks whose steps end   *)
(* at the code's awaits, so two of them, a lock, a lost answer, a closed   *)
(* page or a restarted server can come between any two steps.              *)
(*                                                                         *)
(* Key pair n stands for its private and its public half.  A registration  *)
(* makes a new version of the credential; the export key that wraps the    *)
(* private key is determined by PIN and version.                           *)
(***************************************************************************)
EXTENDS Naturals, FiniteSets

CONSTANTS
    Pins,           \* PINs the user types
    MaxKeys,        \* key pairs ever generated
    MaxAttempts,    \* logins per window the server accepts
    MaxTasks,       \* operations ever started
    MaxUpsets       \* restarts, closed pages and lost answers

NoPin == "no pin"   \* the user gave none

ASSUME KeyConstants ==
    /\ NoPin \notin Pins
    /\ MaxKeys \in Nat \ {0} /\ MaxAttempts \in Nat /\ MaxTasks \in Nat /\ MaxUpsets \in Nat

VARIABLES
    cred,       \* server: credential of the account, {} or one [pin, ver]
    tokens,     \* server: management tokens that are valid
    attempts,   \* server: logins in this window
    record,     \* IndexedDB: {} or the one record
    cache,      \* sessionKeyCache: {} or the private key
    token,      \* client's management token, 0 if none
    tasks,      \* operations in flight
    keys,       \* key pairs generated so far
    issued,     \* versions and tokens issued so far
    started,    \* operations started so far
    upsets,     \* faults so far
    watching,   \* SessionLockManager.running
    locked,     \* "no", or whether an operation was under way at the last lock
                \* since which none was started: "quiet", "busy"
    overlap     \* an operation overlapped another one, or was cut short

custodyVars == <<cred, tokens, attempts, record, cache, token, tasks, keys,
                 issued, started, upsets, watching, locked, overlap>>
serverVars  == <<cred, tokens, attempts>>

Ids     == 0 .. MaxTasks + MaxUpsets
Wrapped == [key : 1 .. MaxKeys, ver : Ids, pin : Pins]
Records == [pub : 1 .. MaxKeys, opaque : SUBSET Wrapped, legacy : SUBSET Wrapped,
            passkey : SUBSET (1 .. MaxKeys)]
Kinds   == {"generate", "save", "unlock", "delete"}
Stages  == {"passkey", "register", "login", "proof", "store", "attach", "drop", "erase"}

(* The page opens on no keyring, on one of an earlier release (a copy      *)
(* encrypted with a PIN), or on one that was enrolled before, with or      *)
(* without a passkey.                                                      *)
CustodyInit ==
    /\ \/ record = {} /\ cred = {}
       \/ \E p \in Pins :
             /\ record = {[pub |-> 1, opaque |-> {}, passkey |-> {},
                           legacy |-> {[key |-> 1, ver |-> 0, pin |-> p]}]}
             /\ cred = {}
       \/ \E p \in Pins, k \in {{}, {1}} :
             /\ record = {[pub |-> 1, opaque |-> {[key |-> 1, ver |-> 0, pin |-> p]},
                           passkey |-> k, legacy |-> {}]}
             /\ cred = {[pin |-> p, ver |-> 0]}
    /\ tokens = {} /\ attempts = 0
    /\ cache = {} /\ token = 0 /\ tasks = {} /\ keys = 1 /\ issued = 0
    /\ started = 0 /\ upsets = 0 /\ watching = FALSE /\ locked = "no" /\ overlap = FALSE

Task(kind, stage, pin, key, passkey) ==
    [id |-> started + 1, kind |-> kind, stage |-> stage, pin |-> pin, key |-> key,
     passkey |-> passkey, existing |-> record, ver |-> 0]

\* Every operation reads the record (existing, record) before its first call.
BeginTask(t) ==
    /\ started < MaxTasks
    /\ started' = started + 1
    /\ tasks' = tasks \cup {t}
    /\ locked' = "no"
    /\ overlap' = (overlap \/ tasks # {})

Step(t, stage) == tasks' = (tasks \ {t}) \cup {[t EXCEPT !.stage = stage]}
End(t)         == tasks' = tasks \ {t}
Failing(t)     == End(t) /\ overlap' = TRUE

(* generateAndSaveKeyPair: a PIN, a passkey, or both; without either it    *)
(* throws.  createPasskeyProtection comes before anything is stored.       *)
Generate(pin, withPasskey) ==
    /\ keys < MaxKeys
    /\ pin # NoPin \/ withPasskey
    /\ keys' = keys + 1
    /\ BeginTask(Task("generate", IF pin # NoPin THEN "register" ELSE "store", pin, keys + 1,
                  IF withPasskey THEN {keys + 1} ELSE {}))
    /\ UNCHANGED <<serverVars, record, cache, token, issued, upsets, watching>>

\* saveKeyPair, importKeyBackup and the recovery from a mnemonic.
SaveKeyPair(pin, key) ==
    /\ pin # NoPin
    /\ BeginTask(Task("save", "register", pin, key, {}))
    /\ UNCHANGED <<serverVars, record, cache, token, keys, issued, upsets, watching>>

(* getDecryptedPrivateKey: a cached key is returned at once (no task).     *)
(* Without a PIN the passkey is asked; a legacy envelope is decrypted with *)
(* its PIN and moved to OPAQUE, which ends in persistKeyPair.              *)
UnlockStage(r, pin) ==
    IF pin = NoPin THEN {"passkey" : k \in r.passkey}
    ELSE IF r.opaque # {} THEN {"login"}
    ELSE {"register" : l \in {w \in r.legacy : w.pin = pin}}

Unlock(pin) ==
    /\ cache = {}
    /\ \E r \in record : \E stage \in UnlockStage(r, pin) :
          BeginTask(Task("unlock", stage, pin, r.pub, r.passkey))
    /\ UNCHANGED <<serverVars, record, cache, token, keys, issued, upsets, watching>>

\* deleteKeyPair: the cached key goes first, then the server, then the record.
DeleteKeyPair ==
    /\ cache' = {}
    /\ BeginTask(Task("delete", "drop", NoPin, 0, {}))
    /\ UNCHANGED <<serverVars, record, token, keys, issued, upsets, watching>>

PasskeyAnswers(t) ==
    /\ t.stage = "passkey"
    /\ cache' = t.passkey
    /\ End(t)
    /\ UNCHANGED <<serverVars, record, token, keys, issued, started, upsets, watching, locked, overlap>>

\* The user cancels or the authenticator fails; nothing was changed.
PasskeyFails(t) ==
    /\ t.stage = "passkey"
    /\ End(t)
    /\ UNCHANGED <<serverVars, record, cache, token, keys, issued, started, upsets, watching, locked, overlap>>

Authorized(tok) == tok \in tokens

\* finishRegistration: an existing credential is replaced only with a valid token.
Registers(t) == t.stage = "register" /\ (cred = {} \/ Authorized(token))

\* register of the client and finishRegistration of the server.
Register(t) ==
    /\ Registers(t)
    /\ issued' = issued + 1
    /\ cred' = {[pin |-> t.pin, ver |-> issued + 1]}
    /\ tokens' = {issued + 1}
    /\ token' = issued + 1
    /\ tasks' = (tasks \ {t}) \cup {[t EXCEPT !.stage = "store", !.ver = issued + 1]}
    /\ UNCHANGED <<attempts, record, cache, keys, started, upsets, watching, locked, overlap>>

\* OPAQUE_CREDENTIAL_EXISTS: enrollAndWrap logs in instead.
RegisterRefused(t) ==
    /\ t.stage = "register" /\ ~Registers(t)
    /\ Step(t, "login")
    /\ UNCHANGED <<serverVars, record, cache, token, keys, issued, started, upsets, watching, locked, overlap>>

\* consumeAttempt
RateLimited == attempts >= MaxAttempts

(* startLogin of the server: the attempt is counted, then the credential   *)
(* of that moment answers.  The client sees at once that its PIN is wrong. *)
StartLogin(t) ==
    /\ t.stage = "login"
    /\ IF RateLimited
       THEN End(t) /\ UNCHANGED attempts
       ELSE /\ attempts' = attempts + 1
            /\ IF \E c \in cred : c.pin = t.pin
               THEN tasks' = (tasks \ {t}) \cup
                      {[t EXCEPT !.stage = "proof", !.ver = c.ver] : c \in cred}
               ELSE End(t)
    /\ UNCHANGED <<cred, tokens, record, cache, token, keys, issued, started, upsets, watching, locked, overlap>>

\* What unwrapping the envelope of the record read at the start gives.
Unwrapped(t) ==
    {w.key : w \in {x \in UNION {r.opaque : r \in t.existing} : x.ver = t.ver /\ x.pin = t.pin}}

(* finishLogin: attempts are cleared and a token is issued; an enrolment   *)
(* goes on to store, an unlock opens the envelope or fails.                *)
FinishLogin(t) ==
    /\ t.stage = "proof"
    /\ attempts' = 0
    /\ issued' = issued + 1
    /\ tokens' = tokens \cup {issued + 1}
    /\ token' = issued + 1
    /\ IF t.kind = "unlock" /\ Unwrapped(t) # {}
       THEN End(t) /\ cache' = Unwrapped(t)
       ELSE IF t.kind = "unlock" /\ (\A r \in t.existing : r.opaque # {})
       THEN End(t) /\ UNCHANGED cache
       ELSE Step(t, "store") /\ UNCHANGED cache
    /\ UNCHANGED <<cred, record, keys, started, upsets, watching, locked, overlap>>

(* persistKeyPair: the fields of the record read at the start are kept,    *)
(* key pair and OPAQUE envelope replaced, the older formats dropped.       *)
Persisted(t) ==
    [pub |-> t.key, opaque |-> {[key |-> t.key, ver |-> t.ver, pin |-> t.pin]},
     legacy |-> {}, passkey |-> UNION {r.passkey : r \in t.existing}]

Store(t) ==
    /\ t.stage = "store"
    /\ IF t.pin = NoPin
       THEN /\ record' = {[pub |-> t.key, opaque |-> {}, legacy |-> {}, passkey |-> t.passkey]}
            /\ UNCHANGED cache
       ELSE record' = {Persisted(t)} /\ cache' = {t.key}
    /\ IF t.kind = "generate" THEN Step(t, "attach") ELSE End(t)
    /\ UNCHANGED <<serverVars, token, keys, issued, started, upsets, watching, locked, overlap>>

\* generateAndSaveKeyPair reads the record again, adds its passkey and caches the key.
Attach(t) ==
    /\ t.stage = "attach"
    /\ record' = IF t.pin # NoPin /\ t.passkey # {}
                 THEN {[r EXCEPT !.passkey = t.passkey] : r \in record} ELSE record
    /\ cache' = {t.key}
    /\ End(t)
    /\ UNCHANGED <<serverVars, token, keys, issued, started, upsets, watching, locked, overlap>>

\* deleteCredential needs the client's token and the server's consent; a failure is swallowed.
Drop(t) ==
    /\ t.stage = "drop"
    /\ IF token # 0 /\ Authorized(token)
       THEN cred' = {} /\ tokens' = {} /\ token' = 0
       ELSE UNCHANGED <<cred, tokens, token>>
    /\ Step(t, "erase")
    /\ UNCHANGED <<attempts, record, cache, keys, issued, started, upsets, watching, locked, overlap>>

Erase(t) ==
    /\ t.stage = "erase"
    /\ record' = {}
    /\ End(t)
    /\ UNCHANGED <<serverVars, cache, token, keys, issued, started, upsets, watching, locked, overlap>>

\* clearSessionCache: every cached key is overwritten and dropped.
Purged == {}

Lock == IF tasks = {} THEN "quiet" ELSE "busy"

\* lockNow (idle, hidden tab, lost focus) stops the manager too; lockAccount is the button.
LockNow ==
    /\ cache' = Purged /\ token' = 0 /\ locked' = Lock
    /\ watching /\ watching' = FALSE
    /\ UNCHANGED <<serverVars, record, tasks, keys, issued, started, upsets, overlap>>

LockAccount ==
    /\ cache' = Purged /\ token' = 0 /\ locked' = Lock
    /\ UNCHANGED <<serverVars, record, tasks, keys, issued, started, upsets, watching, overlap>>

\* SessionLockManager.start, called by the page.
StartWatching ==
    /\ ~watching /\ watching' = TRUE
    /\ UNCHANGED <<serverVars, record, cache, token, tasks, keys, issued, started, upsets, locked, overlap>>

Upset == upsets < MaxUpsets /\ upsets' = upsets + 1

\* The page is closed: tasks, cache and token are gone, record and server stay.
ClosePage ==
    /\ Upset
    /\ cache' = {} /\ token' = 0 /\ tasks' = {} /\ watching' = FALSE
    /\ locked' = "quiet"
    /\ overlap' = (overlap \/ tasks # {})
    /\ UNCHANGED <<serverVars, record, keys, issued, started>>

\* A registration the server has stored, but whose answer is lost.
RegisterLost(t) ==
    /\ Upset /\ Registers(t)
    /\ issued' = issued + 1
    /\ cred' = {[pin |-> t.pin, ver |-> issued + 1]}
    /\ tokens' = {issued + 1}
    /\ Failing(t)
    /\ UNCHANGED <<attempts, record, cache, token, keys, started, watching, locked>>

\* The server restarts: credentials are on disk, logins, tokens and attempts are not.
ServerRestart ==
    /\ Upset
    /\ tokens' = {} /\ attempts' = 0
    /\ tasks' = {t \in tasks : t.stage # "proof"}
    /\ UNCHANGED <<cred, record, cache, token, keys, issued, started, watching, locked, overlap>>

\* cleanup: a window, a token or a login that waited too long expires.
Expire ==
    /\ tokens # {} \/ attempts # 0
    /\ tokens' = {} /\ attempts' = 0
    /\ tasks' = {t \in tasks : t.stage # "proof"}
    /\ UNCHANGED <<cred, record, cache, token, keys, issued, started, upsets, watching, locked, overlap>>

CustodyNext ==
    \/ \E pin \in Pins \cup {NoPin}, p \in BOOLEAN : Generate(pin, p)
    \/ \E pin \in Pins, k \in 1 .. keys : SaveKeyPair(pin, k)
    \/ \E pin \in Pins \cup {NoPin} : Unlock(pin)
    \/ DeleteKeyPair \/ LockNow \/ LockAccount \/ StartWatching
    \/ ClosePage \/ ServerRestart \/ Expire
    \/ \E t \in tasks :
          \/ PasskeyAnswers(t) \/ PasskeyFails(t) \/ Register(t) \/ RegisterRefused(t)
          \/ RegisterLost(t) \/ StartLogin(t) \/ FinishLogin(t) \/ Store(t) \/ Attach(t)
          \/ Drop(t) \/ Erase(t)

CustodySpec == CustodyInit /\ [][CustodyNext]_custodyVars

-----------------------------------------------------------------------------
\* The keyring and its server keep their types; there is one record at most.
CustodyTypeOK ==
    /\ \A c \in cred : c.pin \in Pins /\ c.ver \in Ids
    /\ Cardinality(cred) <= 1 /\ Cardinality(record) <= 1 /\ Cardinality(cache) <= 1
    /\ tokens \subseteq Ids /\ token \in Ids /\ attempts \in 0 .. MaxAttempts
    /\ record \subseteq Records
    /\ cache \subseteq 1 .. MaxKeys
    /\ \A t \in tasks : t.kind \in Kinds /\ t.stage \in Stages /\ t.existing \subseteq Records

(* The PIN opens the keyring: as long as no operation overlapped another,  *)
(* was cut short or lost its answer, the stored envelope holds the private *)
(* key of the stored public key and is wrapped under the credential the    *)
(* server has now.  (The server's record is replaced before the local one, *)
(* so with an interruption the old envelope can never be opened again.)    *)
PinOpensKeyring ==
    ~overlap /\ tasks = {} =>
        \A r \in record : \A w \in r.opaque :
            w.key = r.pub /\ \E c \in cred : c.ver = w.ver /\ c.pin = w.pin

(* After a lock the private key is not in memory, unless an operation that *)
(* was under way when the lock came has put it back.                       *)
LockedWithoutKey == locked = "quiet" => cache = {}

=============================================================================
