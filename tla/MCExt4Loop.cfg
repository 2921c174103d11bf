CONSTANTS
    Inodes = 4
    DataBlocks = 5
    Name = {"f", "g"}
    MaxDepth = 2
    MaxChunks = 3
    Inline = 2
    Room = 1
    Fast = 1
    LinkTarget <- MCTarget
    Aliased = TRUE
    Expansions = 1
SPECIFICATION TreeSpec
INVARIANTS Rooted
