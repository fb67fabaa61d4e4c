\* The smallest instance with an execve between attach and perf_buffer__new.
SPECIFICATION Spec
CONSTANTS
    Cpus = {c1}
    Uids = {u501}
    ConfigUid = u501
    NULL = NULL
    MsgSize = 2
    CMod = 4
    RingSize = 2
    MaxFires = 1
INVARIANTS
    BufferBeforeOutput
CHECK_DEADLOCK FALSE
