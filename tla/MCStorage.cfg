\* The state file: files of at most one chunk, three generations.
\* The volume: four inodes and five data blocks; files have up to three chunks, of
\* which the inode has room for two; every name of a directory needs a block.
\* The journal: two blocks with the marker, of which a transaction stages at most
\* two, and three transactions.
CONSTANTS
    Chunk = {a, b}
    MaxFile = 1
    MaxGeneration = 3
    Payload <- MCPayload
    Absent = Absent
    Invalid = Invalid
    NoPending = NoPending
    Image = {x, y}
    Torn = Torn
    Blank = Blank
    VolumeBlocks = 2
    MaxTx = 2
    MaxSequence = 3
    Inodes = 4
    DataBlocks = 5
    Name = {"f", "g"}
    MaxDepth = 2
    MaxChunks = 3
    Inline = 2
    Room = 1
    Fast = 1
    LinkTarget <- MCTarget
    Aliased = FALSE
    Expansions = 1
SPECIFICATION StorageSpec
SYMMETRY StorageSymmetry
CONSTRAINT InOrder
INVARIANTS Recoverable ShownIsDurable VolumeConsistent VolumeRooted TwoFates OneReplayable
