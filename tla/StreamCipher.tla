---------------------------- MODULE StreamCipher ----------------------------
(***************************************************************************)
(* The streaming document cipher (streamingCrypto.service.ts).  A file is  *)
(* cut into chunks, each chunk is a frame <<length, iv, ciphertext, tag>>  *)
(* authenticated together with its index, and a frame shorter than the     *)
(* chunk size ends the stream.  The download arrives in network chunks     *)
(* that have nothing to do with the frames and may end early.  Bytes are   *)
(* counted, not represented: a position of the wire is an offset, and the  *)
(* buffer of the decryptor is the positions from what it has consumed up   *)
(* to what it received.                                                    *)
(***************************************************************************)
EXTENDS Naturals, Sequences, FiniteSets

CONSTANTS
    MagicSize, HeaderSize,  \* 4 and 10 in the code
    LenSize,                \* bytes of a frame's length field (4)
    Overhead,               \* iv and tag (12 + 16)
    ChunkSize,              \* plaintext bytes per frame
    MaxPlain,               \* bound on the file's length
    MaxPiece                \* bound on a piece handed over by file or network

ASSUME StreamConstants ==
    /\ MagicSize \in 1..HeaderSize /\ HeaderSize \in Nat /\ LenSize \in Nat \ {0}
    /\ Overhead \in Nat /\ ChunkSize \in Nat \ {0}
    /\ MaxPlain \in Nat /\ MaxPiece \in Nat \ {0}

VARIABLES
    file,     \* [left, total]: plaintext bytes not yet read, and all of them
    pending,  \* pendingLen of the encryptor
    frames,   \* plaintext lengths of the frames it emitted
    body,     \* the download: "closed", "peeking", "decrypting", "ended", "accepted", "failed", "legacy"
    cut,      \* position at which the connection ends
    received, \* bytes of the download that arrived
    ends,     \* ends of the network chunks received and not fully consumed
    parsing,  \* a transform call is in its loop
    header,   \* headerParsed
    output    \* plaintext lengths handed to the sink

streamVars == <<file, pending, frames, body, cut, received, ends, parsing, header, output>>
downVars   == <<body, cut, received, ends, parsing, header, output>>

\* The plaintext bytes of frames of these lengths: the j-th byte of the i-th frame.
Bytes(s)     == {b \in (1..Len(s)) \X (1..ChunkSize) : b[2] <= s[b[1]]}
TotalSize(s) == Cardinality(Bytes(s))
FrameSize(n) == LenSize + Overhead + n
\* What header and frames of these lengths take on the wire.
WireSize(s)  == HeaderSize + Len(s) * (LenSize + Overhead) + TotalSize(s)
WireLength   == WireSize(frames)

StreamInit ==
    /\ \E n \in 0..MaxPlain : file = [left |-> n, total |-> n]
    /\ pending = 0 /\ frames = <<>> /\ body = "closed" /\ cut = 0
    /\ received = 0 /\ ends = {} /\ parsing = FALSE /\ header = FALSE /\ output = <<>>

\* The encrypting transform takes a piece of the file and emits every full chunk.
EncryptPiece(n) ==
    /\ body = "closed" /\ n \in 1..file.left
    /\ file' = [file EXCEPT !.left = @ - n]
    /\ frames' = frames \o [i \in 1..((pending + n) \div ChunkSize) |-> ChunkSize]
    /\ pending' = (pending + n) % ChunkSize
    /\ UNCHANGED downVars

LastFrame == <<pending>>

\* flush always emits a last frame, empty when the file fills its chunks, and the upload ends.
EncryptFlush ==
    /\ body = "closed" /\ file.left = 0
    /\ frames' = frames \o LastFrame
    /\ pending' = 0
    /\ body' = "peeking"
    /\ cut' \in 0..WireSize(frames')
    /\ UNCHANGED <<file, received, ends, parsing, header, output>>

\* What the decryptor has consumed.
Taken == IF header THEN WireSize(output) ELSE 0
\* drainChunks: chunks that were consumed whole are dropped.
Drain(to) == {e \in ends : e > to}

\* detectStreamingCiphertext reads until the magic is complete, and replays what it read.
Peek(n) ==
    /\ body = "peeking" /\ n \in 1..(cut - received)
    /\ received' = received + n /\ ends' = ends \cup {received + n}
    /\ body' = IF received + n >= MagicSize THEN "decrypting" ELSE "peeking"
    /\ parsing' = (body' = "decrypting")
    /\ UNCHANGED <<file, pending, frames, cut, header, output>>

\* The body ends within the magic: the caller takes it for the old format.
PeekEnds ==
    /\ body = "peeking" /\ received = cut
    /\ body' = "legacy"
    /\ UNCHANGED <<file, pending, frames, cut, received, ends, parsing, header, output>>

\* transform: the chunk joins the buffer; data after the last frame is an error.
Deliver(n) ==
    /\ body \in {"decrypting", "ended"} /\ ~parsing /\ n \in 1..(cut - received)
    /\ IF body = "ended"
       THEN body' = "failed" /\ UNCHANGED <<received, ends, parsing>>
       ELSE /\ received' = received + n /\ ends' = ends \cup {received + n}
            /\ parsing' = TRUE /\ UNCHANGED body
    /\ UNCHANGED <<file, pending, frames, cut, header, output>>

\* The header is taken once it is whole; until then the call returns.
ParseHeader ==
    /\ parsing /\ ~header
    /\ IF received < HeaderSize
       THEN parsing' = FALSE /\ UNCHANGED <<header, ends>>
       ELSE header' = TRUE /\ ends' = Drain(HeaderSize) /\ UNCHANGED parsing
    /\ UNCHANGED <<file, pending, frames, body, cut, received, output>>

\* readUint32BE reads from the first buffered chunk alone.
LengthReadable == \A e \in ends : e - Taken >= LenSize

\* One round of the loop: too few bytes return; a length that crosses a chunk throws.
ParseFrame ==
    /\ parsing /\ header
    /\ \/ /\ received - Taken < LenSize
          /\ parsing' = FALSE /\ UNCHANGED <<body, ends, output>>
       \/ /\ received - Taken >= LenSize /\ ~LengthReadable
          /\ body' = "failed" /\ parsing' = FALSE /\ UNCHANGED <<ends, output>>
       \/ /\ received - Taken >= LenSize /\ LengthReadable
          /\ LET n == frames[Len(output) + 1] IN
             IF received - Taken < FrameSize(n)
             THEN parsing' = FALSE /\ UNCHANGED <<body, ends, output>>
             ELSE /\ output' = Append(output, n)
                  /\ ends' = Drain(Taken + FrameSize(n))
                  /\ parsing' = ~(n < ChunkSize)
                  /\ body' = IF n = ChunkSize THEN body
                             ELSE IF received > Taken + FrameSize(n) THEN "failed" ELSE "ended"
    /\ UNCHANGED <<file, pending, frames, cut, received, header>>

\* Mutant: the end of the body is taken for the end of the stream.
Complete_Always == TRUE
\* finalized, and nothing left over.
Complete == body = "ended"

\* flush of the decryptor.
EndOfBody ==
    /\ body \in {"decrypting", "ended"} /\ ~parsing /\ received = cut
    /\ body' = IF Complete THEN "accepted" ELSE "failed"
    /\ UNCHANGED <<file, pending, frames, cut, received, ends, parsing, header, output>>

StreamNext ==
    \/ \E n \in 1..MaxPiece : EncryptPiece(n) \/ Peek(n) \/ Deliver(n)
    \/ EncryptFlush \/ PeekEnds \/ ParseHeader \/ ParseFrame \/ EndOfBody

StreamSpec == StreamInit /\ [][StreamNext]_streamVars

---------------------------------------------------------------------------

\* Type invariant of the stream.
StreamTypeOK ==
    /\ file \in [left : 0..MaxPlain, total : 0..MaxPlain] /\ pending \in 0..(ChunkSize - 1)
    /\ frames \in Seq(0..ChunkSize) /\ output \in Seq(0..ChunkSize)
    /\ body \in {"closed", "peeking", "decrypting", "ended", "accepted", "failed", "legacy"}
    /\ cut \in Nat /\ received \in Nat /\ ends \in SUBSET Nat /\ parsing \in BOOLEAN /\ header \in BOOLEAN

(* A download that is accepted is the whole file: a body that ended early, *)
(* even between two frames, never passes for a shorter document, and the   *)
(* encryptor marks the end of a file of any length.                        *)
AcceptedIsWhole == body = "accepted" => TotalSize(output) = file.total /\ cut = WireLength

(* A ciphertext that arrives whole decrypts, however the network cut it    *)
(* into chunks (line 291: the transform "parses SVSC frames and            *)
(* AES-GCM-decrypts them in order").  Violated: the length of a frame is   *)
(* read from the first buffered chunk alone.                               *)
IntactStreamDecrypts == body = "failed" => cut < WireLength
=============================================================================
