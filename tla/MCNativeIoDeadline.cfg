\* One thread, two diagnostics calls.
CONSTANTS
    Thread = {a}
    Kind = {"diagnostics"}
    WaitCapacity = 1
    CallCapacity = 1
    ByteCapacity = 1
    ClientCapacity = 1
    LastGeneration = 2
    DatagramWait = 1
    DiagnosticsWait = 1
    MaxRequest = 2
    MaxTime = 2
    MaxItems = 2
    WholeTask = WholeTask
    NoResource = NoResource
    NoDeadline = NoDeadline
    NoWait = NoWait
    NoCall = NoCall
    NoReason = NoReason
SPECIFICATION IoSpec
PROPERTIES DeadlineIsTimeout
CHECK_DEADLOCK FALSE
