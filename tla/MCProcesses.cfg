\* Two services of which one depends on the other, with two process slots.
\* Three processes in a family, one pipe.
\* Two threads that make four calls; every visit of the process polls.
CONSTANTS
    Services = {1, 2}
    Deps <- MCDeps
    OnFailure <- MCOnFailure
    Limit <- MCLimit
    Lifetime <- MCLifetime
    Boot = {1, 2}
    Capacity = 2
    MaxDelay = 2
    MaxId = 3
    ChildSlots = 2
    PipeSlots = 1
    MaxGeneration = 2
    MaxDepth = 2
    Room = 1
    Streams = {"in", "out"}
    PipeUsers = {1}
    None = None
    Inherit = Inherit
    Thread = {a, b}
    Kind = {"timer", "stream"}
    WaitCapacity = 3
    CallCapacity = 3
    ByteCapacity = 3
    ClientCapacity = 1
    LastGeneration = 5
    DatagramWait = 1
    DiagnosticsWait = 1
    MaxRequest = 4
    MaxTime = 1
    MaxItems = 2
    WholeTask = WholeTask
    NoResource = NoResource
    NoDeadline = NoDeadline
    NoWait = NoWait
    NoCall = NoCall
    NoReason = NoReason
SPECIFICATION ProcessesSpec
INVARIANTS ProcessesExact EndpointsExact FamilyExact
PROPERTIES DependentsFollow DownStops EofIsFinal ReadersSeeTheEnd CallsReturn
CHECK_DEADLOCK FALSE
