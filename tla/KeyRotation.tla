----------------------------- MODULE KeyRotation -----------------------------
(***************************************************************************)
(* keyRotationService: the answer to a compromised key.  A new key pair is *)
(* made, possession of the old one is shown on a stored envelope, every    *)
(* envelope is re-encrypted, the old key is revoked on both chains at once *)
(* (Promise.all) and the new key pair is saved in the keyring.  The batch  *)
(* variant revokes first and re-encrypts afterwards.                       *)
(*                                                                         *)
(* Keys are numbers; envelope[d] is the key the stored envelope of d can   *)
(* be opened with, 0 for a damaged one.  A call to a chain may be rejected *)
(* with or without effect, and the one that is still on its way when the   *)
(* other is rejected takes effect later.                                   *)
(***************************************************************************)
EXTENDS Naturals, FiniteSets

CONSTANTS
    Docs,           \* documents with a share envelope
    MaxRotations,   \* rotations ever begun
    MaxRotFaults    \* calls lost or refused for other reasons

ASSUME RotationConstants == MaxRotations \in Nat /\ MaxRotFaults \in Nat

Chains == {"evm", "soroban"}
RotKeys == 1 .. MaxRotations + 1

VARIABLES
    chainKey,   \* key registered for the account, per chain
    revoked,    \* keys revoked, per chain
    keyring,    \* key pair saved in the client keyring
    envelope,   \* what each stored envelope is encrypted to
    rot,        \* the rotation: [round, mode, phase, old, new]
    calls,      \* revokeKey calls on their way: [round, chain, old, new]
    answers,    \* chains that have answered the rotation's call
    rotated,    \* rotatedDocumentIds of the report
    failures,   \* failures of the report
    rotFaults   \* faults so far

rotVars == <<chainKey, revoked, keyring, envelope, rot, calls, answers, rotated, failures, rotFaults>>

Modes  == {"rotate", "batch"}
Phases == {"idle", "proof", "reencrypt", "revoke", "save", "done", "failed"}

RotInit ==
    /\ envelope \in [Docs -> {0, 1}]
    /\ chainKey = [c \in Chains |-> 1]
    /\ revoked = [c \in Chains |-> {}]
    /\ keyring = 1
    /\ rot = [round |-> 0, mode |-> "rotate", phase |-> "idle", old |-> 1, new |-> 1]
    /\ calls = {} /\ answers = {} /\ rotated = {} /\ failures = {} /\ rotFaults = 0

Goto(phase) == rot' = [rot EXCEPT !.phase = phase]
RotFault    == rotFaults < MaxRotFaults /\ rotFaults' = rotFaults + 1

(* Only one rotation is run at a time; the old key is the keyring's, the   *)
(* new one is generated, or one the caller brings (a used one, perhaps).   *)
BeginRotation(mode, new) ==
    /\ rot.phase \in {"idle", "done", "failed"}
    /\ rot.round < MaxRotations
    /\ new <= rot.round + 2
    /\ rot' = [round |-> rot.round + 1, mode |-> mode, phase |-> "proof",
               old |-> keyring, new |-> new]
    /\ answers' = {} /\ rotated' = {} /\ failures' = {}
    /\ UNCHANGED <<chainKey, revoked, keyring, envelope, calls, rotFaults>>

(* Proof of possession: the first stored envelope must open.  Which one is *)
(* first is the caller's choice; if all are missing the proof is skipped.  *)
ProveAndGo ==
    /\ rot.phase = "proof"
    /\ \/ \E d \in Docs : envelope[d] = rot.old
       \/ \A d \in Docs : envelope[d] = 0
    /\ Goto(IF rot.mode = "rotate" THEN "reencrypt" ELSE "revoke")
    /\ UNCHANGED <<chainKey, revoked, keyring, envelope, calls, answers, rotated, failures, rotFaults>>

ProofFails ==
    /\ rot.phase = "proof"
    /\ \E d \in Docs : envelope[d] # rot.old
    /\ Goto("failed")
    /\ UNCHANGED <<chainKey, revoked, keyring, envelope, calls, answers, rotated, failures, rotFaults>>

(* One envelope is opened with the old key and sealed with the new one; the *)
(* result of reencryptEnvelopeAsync is dropped, only its success is noted. *)
Reencrypt(d) ==
    /\ rot.phase = "reencrypt"
    /\ d \notin rotated \cup failures
    /\ IF envelope[d] = rot.old
       THEN rotated' = rotated \cup {d} /\ UNCHANGED failures
       ELSE failures' = failures \cup {d} /\ UNCHANGED rotated
    /\ UNCHANGED <<chainKey, revoked, keyring, envelope, rot, calls, answers, rotFaults>>

AllTried == rotated \cup failures = Docs

Reencrypted == rot.phase = "reencrypt" /\ AllTried

AfterReencrypt ==
    /\ Reencrypted
    /\ Goto(IF rot.mode = "rotate" THEN "revoke" ELSE "save")
    /\ UNCHANGED <<chainKey, revoked, keyring, envelope, calls, answers, rotated, failures, rotFaults>>

\* Both calls are made before either is awaited.
SubmitRevocations ==
    /\ rot.phase = "revoke" /\ answers = {}
    /\ ~ \E c \in calls : c.round = rot.round
    /\ calls' = calls \cup {[round |-> rot.round, chain |-> c, old |-> rot.old, new |-> rot.new] : c \in Chains}
    /\ UNCHANGED <<chainKey, revoked, keyring, envelope, rot, answers, rotated, failures, rotFaults>>

\* revokeKey and revoke_key: the registered key is the old one, the new one was never revoked.
Accepts(c) ==
    /\ c.old # c.new
    /\ chainKey[c.chain] = c.old
    /\ c.old \notin revoked[c.chain] /\ c.new \notin revoked[c.chain]

Apply(c) ==
    /\ chainKey' = [chainKey EXCEPT ![c.chain] = c.new]
    /\ revoked' = [revoked EXCEPT ![c.chain] = @ \cup {c.old}]

Answer(c) == IF rot.phase = "revoke" /\ c.round = rot.round THEN answers' = answers \cup {c.chain}
             ELSE UNCHANGED answers

\* Promise.all rejects with the first rejection; a later one is not noticed.
Reject(c) == IF rot.phase = "revoke" /\ c.round = rot.round THEN Goto("failed") ELSE UNCHANGED rot

CallMined(c) ==
    /\ Accepts(c) /\ Apply(c) /\ Answer(c)
    /\ calls' = calls \ {c}
    /\ UNCHANGED <<keyring, envelope, rot, rotated, failures, rotFaults>>

CallReverts(c) ==
    /\ ~Accepts(c) /\ Reject(c)
    /\ calls' = calls \ {c}
    /\ UNCHANGED <<chainKey, revoked, keyring, envelope, answers, rotated, failures, rotFaults>>

\* The wallet refuses, the node is down, or the answer to a mined call is lost.
CallFails(c) ==
    /\ RotFault
    /\ IF Accepts(c) THEN Apply(c) \/ UNCHANGED <<chainKey, revoked>> ELSE UNCHANGED <<chainKey, revoked>>
    /\ Reject(c)
    /\ calls' = calls \ {c}
    /\ UNCHANGED <<keyring, envelope, answers, rotated, failures>>

BothAnswered == answers = Chains

AfterRevocations ==
    /\ rot.phase = "revoke" /\ BothAnswered
    /\ Goto(IF rot.mode = "rotate" THEN "save" ELSE "reencrypt")
    /\ UNCHANGED <<chainKey, revoked, keyring, envelope, calls, answers, rotated, failures, rotFaults>>

Save ==
    /\ rot.phase = "save"
    /\ keyring' = rot.new
    /\ Goto("done")
    /\ UNCHANGED <<chainKey, revoked, envelope, calls, answers, rotated, failures, rotFaults>>

\* saveKeyPair throws (the OPAQUE server is away) or the page is closed.
SaveFails ==
    /\ RotFault
    /\ rot.phase \in {"reencrypt", "save"}
    /\ Goto("failed")
    /\ UNCHANGED <<chainKey, revoked, keyring, envelope, calls, answers, rotated, failures>>

RotNext ==
    \/ \E mode \in Modes, new \in RotKeys : BeginRotation(mode, new)
    \/ ProveAndGo \/ ProofFails \/ AfterReencrypt \/ SubmitRevocations
    \/ AfterRevocations \/ Save \/ SaveFails
    \/ \E d \in Docs : Reencrypt(d)
    \/ \E c \in calls : CallMined(c) \/ CallReverts(c) \/ CallFails(c)

RotSpec == RotInit /\ [][RotNext]_rotVars

-----------------------------------------------------------------------------
\* Phases, keys and reports keep their types; a document is reported once.
RotTypeOK ==
    /\ chainKey \in [Chains -> RotKeys] /\ revoked \in [Chains -> SUBSET RotKeys]
    /\ keyring \in RotKeys /\ envelope \in [Docs -> 0 .. MaxRotations + 1]
    /\ rot.mode \in Modes /\ rot.phase \in Phases /\ rot.old \in RotKeys /\ rot.new \in RotKeys
    /\ calls \subseteq [round : 1 .. MaxRotations, chain : Chains, old : RotKeys, new : RotKeys]
    /\ rotated \cap failures = {}

(* A rotation that reported success has left both chains and the keyring   *)
(* with the same new key and the old one revoked on both, also when calls  *)
(* of an earlier, failed rotation arrive late.  Without a failure they     *)
(* never part between rotations.                                           *)
RotationSettlesEverywhere ==
    /\ rot.phase = "done" =>
         /\ keyring = rot.new
         /\ \A c \in Chains : chainKey[c] = keyring /\ rot.old \in revoked[c]
    /\ rot.phase \in {"idle", "done"} => \A c \in Chains : keyring \notin revoked[c]

(* Re-encryption before revocation: a single rotation sends nothing to a   *)
(* chain before every envelope was tried.                                  *)
ReencryptedBeforeRevoked ==
    rot.mode = "rotate" /\ (\E c \in calls : c.round = rot.round) => AllTried

\* A key once revoked on a chain is never the registered key of that chain again.
RevokedKeysStayRevoked == \A c \in Chains : chainKey[c] \notin revoked[c]

=============================================================================
