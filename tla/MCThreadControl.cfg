\* Two thread slots of two generations, two operations per lifetime, and a clock
\* that passes the one deadline.
CONSTANTS
    p1 = p1
    Process = {p1}
    ProcessCapacity = 1
    ThreadCapacity = 2
    RecordQuota = 2
    PageQuota = 2
    PageLimit = 2
    Charges = {1}
    Results = {1}
    MaxGeneration = 2
    MaxSequence = 2
    MaxJoin = 3
    Options <- MCOptions
    MaxNow = 1
SPECIFICATION FairControlSpec
INVARIANTS InterlockOwned DeliveredOnce
PROPERTIES ExpiredWins WaitsEnd
CHECK_DEADLOCK FALSE
