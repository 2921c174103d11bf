CONSTANTS
    Chunk = {a, b}
    MaxFile = 1
    MaxGeneration = 3
    Payload <- MCPayload
    Absent = Absent
    Invalid = Invalid
    NoPending = NoPending
SPECIFICATION WarmSpec
INVARIANT Recoverable
SYMMETRY Symmetry
