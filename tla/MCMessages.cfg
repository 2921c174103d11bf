\* Three records for four identities, so that slots are reused after a reap;
\* one capability, which some tasks hold.  Two calls may wait at one server.
CONSTANTS
    Capacity = 3
    Resources <- MCResources
    Capability = {service}
    WaitKey = {key}
    MaxSpawned = 4
    NoSlot = NoSlot
    NoKey = NoKey
    NoTask = NoTask
    Server = {1, 2}
    Client = {3}
    Kernel = {4}
    Opens <- MCOpens
    Calls = 3
    MaxQueued = 2
    MaxBadges = 2
    MaxHandles = 1
    MaxMembers = 4
    MaxLeft = 1
    MaxLate = 0
    Width = 32
    Isn <- MCIsn
    Room = 1
    Mss = 1
    Attempts = 2
    Bytes <- MCBytes
    MaxOpens = 2
    MaxWork = 3
    Lag = 2
    Nothing = Nothing
SPECIFICATION MessagesSpec
CHECK_DEADLOCK FALSE
INVARIANTS NoWaitCycle CallsAgree StreamExact AcknowledgedIsHeld NoGhostAccepted
PROPERTIES ImplementsTasks KeepsItsTurn NoBypass
