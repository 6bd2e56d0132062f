------------------------------- MODULE MCDocuments -------------------------------
(* The life of a document's bytes and keys, for TLC: its shares, shards,    *)
(* stream, copies and envelopes, and the keys of its readers.  The parts    *)
(* share no state: each behaviour is one of a single part, and the others   *)
(* keep their first state.                                                  *)
EXTENDS ShareRefresh, SecretSharing, ErasureCode, StreamCipher, DocumentBackup,
        KeyCustody, KeyRotation, KeyInbox, TimeLock, UploadScreen

CONSTANTS alice, bob, carol

TwoGuardians == <<alice, bob>>

GuardianSymmetry == Permutations({alice, bob, carol})

VARIABLE part

Parts == {"refresh", "sharing", "shards", "stream", "backup", "custody", "rotation", "inbox",
          "lock", "upload"}

DocumentsInit ==
    /\ part \in Parts
    /\ Init /\ BackupInit /\ CustodyInit /\ RotInit /\ InboxInit /\ StreamInit /\ UploadInit
    /\ IF part = "sharing" THEN SharingInit
       ELSE /\ secret = 0 /\ poly = [i \in Terms |-> 0] /\ held = [x \in Points |-> 0]
            /\ commitments = Commit(poly) /\ zeros = <<>> /\ epochs = 0
            /\ legacy = [i \in Terms |-> CHOOSE b \in LegacyBytes : TRUE]
    /\ IF part = "shards" THEN ShardInit
       ELSE /\ payload = <<>> /\ nodes = <<>> /\ shards = <<>>
            /\ upload = [i \in Indices |-> "none"] /\ fetched = [i \in Indices |-> "none"]
            /\ rebuilt = {} /\ audits = {}
    /\ IF part = "lock" THEN LockInit
       ELSE /\ lock = [N |-> 2, x |-> 1, T |-> 1] /\ digests = [b \in BOOLEAN |-> 0]
            /\ lockbox = {} /\ sealKey = 0 /\ damaged = FALSE /\ outcome = "none"
    /\ part # "stream" => file.total = 0
    /\ part # "backup" => proxied
    /\ part # "custody" => record = {}
    /\ part # "rotation" => envelope = [d \in Docs |-> 0]
    /\ part # "upload" => pubKeys = [i \in Members |-> 1]

RefreshStep ==
    /\ part = "refresh" /\ Next
    /\ UNCHANGED <<part, sharingVars, shardVars, streamVars, backupVars, custodyVars,
                   rotVars, inboxVars, lockVars, uploadVars>>
SharingStep ==
    /\ part = "sharing" /\ SharingNext
    /\ UNCHANGED <<part, vars, shardVars, streamVars, backupVars, custodyVars,
                   rotVars, inboxVars, lockVars, uploadVars>>
ShardStep ==
    /\ part = "shards" /\ ShardNext
    /\ UNCHANGED <<part, vars, sharingVars, streamVars, backupVars, custodyVars,
                   rotVars, inboxVars, lockVars, uploadVars>>
StreamStep ==
    /\ part = "stream" /\ StreamNext
    /\ UNCHANGED <<part, vars, sharingVars, shardVars, backupVars, custodyVars,
                   rotVars, inboxVars, lockVars, uploadVars>>
BackupStep ==
    /\ part = "backup" /\ BackupNext
    /\ UNCHANGED <<part, vars, sharingVars, shardVars, streamVars, custodyVars,
                   rotVars, inboxVars, lockVars, uploadVars>>
CustodyStep ==
    /\ part = "custody" /\ CustodyNext
    /\ UNCHANGED <<part, vars, sharingVars, shardVars, streamVars, backupVars,
                   rotVars, inboxVars, lockVars, uploadVars>>
RotationStep ==
    /\ part = "rotation" /\ RotNext
    /\ UNCHANGED <<part, vars, sharingVars, shardVars, streamVars, backupVars,
                   custodyVars, inboxVars, lockVars, uploadVars>>
InboxStep ==
    /\ part = "inbox" /\ InboxNext
    /\ UNCHANGED <<part, vars, sharingVars, shardVars, streamVars, backupVars,
                   custodyVars, rotVars, lockVars, uploadVars>>
LockStep ==
    /\ part = "lock" /\ LockNext
    /\ UNCHANGED <<part, vars, sharingVars, shardVars, streamVars, backupVars,
                   custodyVars, rotVars, inboxVars, uploadVars>>
UploadStep ==
    /\ part = "upload" /\ UploadNext
    /\ UNCHANGED <<part, vars, sharingVars, shardVars, streamVars, backupVars,
                   custodyVars, rotVars, inboxVars, lockVars>>

DocumentsNext ==
    \/ RefreshStep \/ SharingStep \/ ShardStep \/ StreamStep \/ BackupStep
    \/ CustodyStep \/ RotationStep \/ InboxStep \/ LockStep \/ UploadStep

DocumentsSpec ==
    /\ DocumentsInit
    /\ [][DocumentsNext]_<<part, vars, sharingVars, shardVars, streamVars, backupVars,
                           custodyVars, rotVars, inboxVars, lockVars, uploadVars>>

\* The type invariants of the parts.
DocumentsTypeOK ==
    /\ TypeOK /\ BackupTypeOK /\ CustodyTypeOK /\ RotTypeOK /\ InboxTypeOK /\ UploadTypeOK
    /\ part = "stream" => StreamTypeOK

(* What is downloaded and decrypted is the document, or an error, and a    *)
(* copy that is still there is found (streamingCrypto and storageProvider  *)
(* services); and a document on chain is pinned and its key shared among   *)
(* all guardians, whatever interrupted its upload (Documents.tsx).         *)
DocumentsAreWhole ==
    /\ FetchFindsCopies /\ ForwardedWasSigned /\ ArchivedIsAnchored
    /\ part = "stream" => AcceptedIsWhole
    /\ EntriesAreRecoverable /\ UploadsKeepApart /\ AbortStopsUpload

(* What was shared, coded or locked comes back as it was: any threshold of *)
(* shares that verify recovers the secret (secrets.service.ts,             *)
(* proactiveSecretSharing.ts), any DataShards sound shards rebuild the     *)
(* payload and a damaged one is noticed (erasureCoding), and a time-locked *)
(* document opens with an honest proof and only then (vdf.ts).             *)
SecretsComeBack ==
    /\ part = "sharing" => SharingTypeOK /\ ThresholdRecovers /\ VerifiedIsCurrent
    /\ part = "shards" => ShardTypeOK /\ ShardsRebuild /\ CorruptionIsNoticed
    /\ LockTypeOK /\ (part = "lock" => LocksOpen /\ LockProofsHold)

(* The shares on file are those of the last refresh, in which a quorum     *)
(* took part (SpooVault.sol); the user's PIN keeps opening the keyring, a  *)
(* rotated key is replaced on both chains or reported, and no envelope in  *)
(* use is lost (clientKeyring, keyRotation, keyInbox and keyEnvelopeGC     *)
(* services).                                                              *)
KeysStayUsable ==
    /\ [](/\ SubmissionsCounted /\ SharesAreCurrent
          /\ PinOpensKeyring /\ LockedWithoutKey
          /\ RotationSettlesEverywhere /\ ReencryptedBeforeRevoked
          /\ RevokedKeysStayRevoked /\ ListingMissesNothing)
    /\ RefreshQuorum /\ UnpinsOnlyDead

=============================================================================
