\* One CPU that outruns main: the ring fills, samples are dropped, announced
\* and dropped again while main reads; main may be interrupted at any wait.
SPECIFICATION FairSpec
CONSTANTS
    Cpus = {c1}
    Uids = {u501}
    ConfigUid = u501
    NULL = NULL
    MsgSize = 2
    CMod = 16
    RingSize = 3
    MaxFires = 9
INVARIANTS
    GapsExplained
PROPERTIES
    ImplementsStream
    SamplesDelivered
    InterruptReturnsZero
CHECK_DEADLOCK FALSE
