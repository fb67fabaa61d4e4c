\* Ctrl-C while main waits in perf_buffer__poll.
SPECIFICATION FairSpec
CONSTANTS
    Cpus = {c1}
    Uids = {u501}
    ConfigUid = u501
    NULL = NULL
    MsgSize = 2
    CMod = 4
    RingSize = 2
    MaxFires = 1
PROPERTIES
    CtrlCGivesEINTR
CHECK_DEADLOCK FALSE
