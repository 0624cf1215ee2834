SPECIFICATION Spec
CONSTANTS
    Events = {e1, e2}
    Shutdowns = {s1, s2}
    NoMessage = NoMessage
    Capacity = 2
    BatchLimit = 1
    PipeCapacity = 1
INVARIANTS TypeOK DepthCounts NoLostWakeup
PROPERTIES ShutdownSlotKept ShutdownRequestEnds MailboxDrains
