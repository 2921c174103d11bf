\* Two processes, one after the other, on one process slot and two thread slots.
\* Two native threads, three suspended calls of any kind, one diagnostics pair,
\* and a byte ceiling that two large requests exceed.
CONSTANTS
    Process = {p1, p2}
    ProcessCapacity = 1
    ThreadCapacity = 2
    RecordQuota = 2
    PageQuota = 3
    PageLimit = 3
    Charges = {1, 2}
    Results = {1}
    MaxGeneration = 2
    MaxSequence = 1
    MaxJoin = 2
    Thread = {a, b}
    Kind = {"timer", "datagram", "stream", "diagnostics"}
    WaitCapacity = 2
    CallCapacity = 2
    ByteCapacity = 3
    ClientCapacity = 1
    LastGeneration = 3
    DatagramWait = 1
    DiagnosticsWait = 1
    MaxRequest = 3
    MaxTime = 2
    MaxItems = 1
    WholeTask = WholeTask
    NoResource = NoResource
    NoDeadline = NoDeadline
    NoWait = NoWait
    NoCall = NoCall
    NoReason = NoReason
SPECIFICATION CallsSpec
SYMMETRY Symmetry
INVARIANTS NoDangling TablesAgree WaitsHaveCalls
PROPERTIES AnswersHold NamesAreForever
CHECK_DEADLOCK FALSE
