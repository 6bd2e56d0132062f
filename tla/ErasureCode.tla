----------------------------- MODULE ErasureCode -----------------------------
(***************************************************************************)
(* Reed-Solomon shards of an encrypted document: DataShards shards hold    *)
(* the padded payload, ParityShards more hold products with a Cauchy       *)
(* matrix, each is pinned to a node in turn, and any DataShards of them    *)
(* rebuild the payload.  The arithmetic is the code's own, over GF(2^8);   *)
(* payloads are a few sample bytes.  Uploads and downloads fail one by     *)
(* one, and a stored shard may be corrupted.                               *)
(***************************************************************************)
EXTENDS Galois256, FiniteSets

CONSTANTS
    DataShards, ParityShards,
    SampleBytes,    \* bytes payloads are made of
    MaxSize         \* bound on a payload's length

ASSUME ShardConstants ==
    /\ DataShards \in Nat \ {0} /\ ParityShards \in Nat \ {0} /\ DataShards + ParityShards <= 255
    /\ SampleBytes \subseteq 0..255 /\ MaxSize \in Nat \ {0}

TotalShards == DataShards + ParityShards
Indices == 1..TotalShards
Ascending(S) == SetToSortSeq(S, <)

VARIABLES
    payload,    \* the ciphertext
    nodes,      \* names of the pinning nodes, in order
    shards,     \* encoded shards by index
    upload,     \* [Indices -> "none", "pinned", "failed"]
    fetched,    \* [Indices -> "none", "got", "failed"]
    rebuilt,    \* the decoded payload, in a singleton set
    audits      \* what verifyShards said of a corrupted set: [bad, reported]

shardVars == <<payload, nodes, shards, upload, fetched, rebuilt, audits>>

Identity(n) == [r \in 1..n |-> [c \in 1..n |-> IF r = c THEN 1 ELSE 0]]
\* buildCauchyMatrix: entry (r, c) is 1 / (c xor (cols + r)), counted from 0.
CauchyRow(r) == [c \in 1..DataShards |-> gfDiv(1, gfAdd(c - 1, DataShards + r - 1))]
EncodingMatrix == Identity(DataShards) \o [r \in 1..ParityShards |-> CauchyRow(r)]
Dot(row, bytes) == gfSum([i \in 1..Len(row) |-> gfMul(row[i], bytes[i])])

ShardSize(data) == (Len(data) + DataShards - 1) \div DataShards
\* padAndSplit: zeroes up to a multiple of DataShards, then equal slices.
padAndSplit(data) ==
    LET n == ShardSize(data) IN
    [i \in 1..DataShards |->
        [b \in 1..n |-> IF (i - 1) * n + b <= Len(data) THEN data[(i - 1) * n + b] ELSE 0]]

\* encode: data shards pass through, parity is a product per byte position.
encode(data) ==
    LET raw == padAndSplit(data) IN
    [i \in Indices |-> [b \in 1..ShardSize(data) |->
        Dot(EncodingMatrix[i], [d \in 1..DataShards |-> raw[d][b]])]]

\* One column of the elimination: the first usable row is swapped up, scaled and subtracted.
Eliminate(aug, col) ==
    LET n     == Len(aug)
        pivot == CHOOSE r \in col..n : aug[r][col] # 0 /\ \A q \in col..(r - 1) : aug[q][col] = 0
        swap  == [aug EXCEPT ![col] = aug[pivot], ![pivot] = aug[col]]
        row   == [c \in 1..(2 * n) |-> gfDiv(swap[col][c], swap[col][col])]
    IN  [r \in 1..n |-> IF r = col THEN row
            ELSE [c \in 1..(2 * n) |-> gfAdd(swap[r][c], gfMul(swap[r][col], row[c]))]]

Invert(m) ==
    LET n   == Len(m)
        aug == FoldLeft(Eliminate, [r \in 1..n |-> m[r] \o Identity(n)[r]], [i \in 1..n |-> i])
    IN  [r \in 1..n |-> SubSeq(aug[r], n + 1, 2 * n)]

\* subsetRows: the rows of the shards that are used.
Rows(have) == [k \in 1..DataShards |-> EncodingMatrix[have[k]]]

\* decode: the first DataShards of the shards at hand, by index; padding is cut off.
decode(at, hand, size) ==
    LET have == SubSeq(Ascending(hand), 1, DataShards)
        inv  == Invert(Rows(have))
        n    == Len(at[have[1]])
        data == [d \in 1..DataShards |-> [b \in 1..n |->
                    Dot(inv[d], [k \in 1..DataShards |-> at[have[k]][b]])]]
    IN  SubSeq(FlattenSeq(data), 1, size)

\* buildDefaultNodes: what is configured, and always the public gateway, which cannot pin.
DefaultNodes(pinata, lighthouse) ==
    (IF pinata THEN <<"pinata">> ELSE <<>>) \o (IF lighthouse THEN <<"lighthouse">> ELSE <<>>)
        \o <<"ipfs.io">>
NodeOf(i) == nodes[1 + ((i - 1) % Len(nodes))]

\* encodeAndDistribute up to the first upload.
ShardInit ==
    /\ payload \in UNION {[1..n -> SampleBytes] : n \in 1..MaxSize}
    /\ nodes \in {<<"a", "b">>, DefaultNodes(TRUE, TRUE), DefaultNodes(TRUE, FALSE)}
    /\ shards = encode(payload)
    /\ upload = [i \in Indices |-> "none"] /\ fetched = [i \in Indices |-> "none"]
    /\ rebuilt = {} /\ audits = {}

\* distributeShards: uploads settle one by one.
UploadShard(i, ok) ==
    /\ upload[i] = "none" /\ (ok => NodeOf(i) # "ipfs.io")
    /\ upload' = [upload EXCEPT ![i] = IF ok THEN "pinned" ELSE "failed"]
    /\ UNCHANGED <<payload, nodes, shards, fetched, rebuilt, audits>>

Manifest == {i \in Indices : upload[i] = "pinned"}
Got == {i \in Indices : fetched[i] = "got"}

\* retrieveShards: the shards of the manifest, each from its node.
FetchShard(i, ok) ==
    /\ \A j \in Indices : upload[j] # "none"
    /\ i \in Manifest /\ fetched[i] = "none"
    /\ fetched' = [fetched EXCEPT ![i] = IF ok THEN "got" ELSE "failed"]
    /\ UNCHANGED <<payload, nodes, shards, upload, rebuilt, audits>>

AllFetched == (\A j \in Indices : upload[j] # "none") /\ \A i \in Manifest : fetched[i] # "none"

\* reconstructFromManifest: with fewer than DataShards it throws.
Rebuild ==
    /\ AllFetched /\ rebuilt = {} /\ Cardinality(Got) >= DataShards
    /\ rebuilt' = {decode(shards, Got, Len(payload))}
    /\ UNCHANGED <<payload, nodes, shards, upload, fetched, audits>>

(* verifyShards: the payload is taken from the parity shards when there    *)
(* are enough of them, else from the data shards; every shard that differs *)
(* from its re-encoding is reported.                                       *)
verifyShards(stored) ==
    LET size  == DataShards * Len(stored[1])
        canon == IF ParityShards >= DataShards
                 THEN decode(stored, (DataShards + 1)..TotalShards, size)
                 ELSE FlattenSeq(SubSeq(stored, 1, DataShards))
    IN  {i \in Indices : stored[i] # encode(canon)[i]}

\* verifyShards over all shards, one of which was corrupted where it is stored.
AuditShards(i, b) ==
    /\ Got = Indices /\ audits = {}
    /\ LET stored == [shards EXCEPT ![i][1] = gfAdd(@, b)] IN
       audits' = {[bad |-> i, reported |-> verifyShards(stored)]}
    /\ UNCHANGED <<payload, nodes, shards, upload, fetched, rebuilt>>

ShardNext ==
    \/ \E i \in Indices, ok \in BOOLEAN : UploadShard(i, ok) \/ FetchShard(i, ok)
    \/ Rebuild
    \/ \E i \in Indices, b \in SampleBytes \ {0} : AuditShards(i, b)

---------------------------------------------------------------------------

\* Type invariant of the shards.
ShardTypeOK ==
    /\ payload \in Seq(0..255) /\ shards \in [Indices -> Seq(0..255)]
    /\ upload \in [Indices -> {"none", "pinned", "failed"}]
    /\ fetched \in [Indices -> {"none", "got", "failed"}]
    /\ rebuilt \subseteq Seq(0..255)

(* Whatever is rebuilt is exactly the payload, whichever uploads and       *)
(* downloads failed: any DataShards of the shards are enough (decode).     *)
ShardsRebuild == \A r \in rebuilt : r = payload

(* A corrupted shard never passes verifyShards: some shard is reported.    *)
CorruptionIsNoticed == \A a \in audits : a.reported # {}

=============================================================================
