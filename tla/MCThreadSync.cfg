\* Three threads and any two objects of the four kinds; deadlines at 1 or never.
\* Five tasks on two chains of the real depth of four members.
CONSTANTS
    Thread = {t1, t2, t3}
    Object = {o1, o2}
    Kinds <- Mixed
    ObjectQuota = 2
    WaitQuota = 3
    Options <- Timed
    MaxNow = 1
    NoThread = NoThread
    NoObject = NoObject
    Task = {c1, c2, c3, c4, c5}
    Capacity = 2
    MaxMembers = 4
SPECIFICATION SyncChainSpec
SYMMETRY Symmetry
INVARIANTS ObjectsExact NoLostWakeup OutcomeTrue NotReentrant
PROPERTIES HandedOver ImplementsCallGraph
CHECK_DEADLOCK FALSE
