SPECIFICATION ScheduleSpec
CONSTANTS
    p1 = p1
    p2 = p2
    Process = {p1, p2}
    ProcessCapacity = 2
    ThreadCapacity = 3
    RecordQuota = 2
    PageQuota = 2
    PageLimit = 3
    Charges = {1}
    Results = {1}
    MaxGeneration = 1
    MaxSequence = 1
    MaxJoin = 1
    Milliseconds = 1
    Steps = 1
    MaxTurn = 3
INVARIANTS TurnHeld ProcessRotation SiblingRotation
CHECK_DEADLOCK FALSE
