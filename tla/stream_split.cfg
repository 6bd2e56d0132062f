SPECIFICATION StreamSpec
CONSTANTS
    MagicSize = 1
    HeaderSize = 2
    LenSize = 2
    Overhead = 1
    ChunkSize = 2
    MaxPlain = 4
    MaxPiece = 3
CHECK_DEADLOCK FALSE
INVARIANT IntactStreamDecrypts
