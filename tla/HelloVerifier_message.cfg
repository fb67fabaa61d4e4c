\* One event of user 501.
SPECIFICATION Spec
CONSTANTS
    Cpus = {c1}
    Uids = {u501}
    ConfigUid = u501
    NULL = NULL
    MsgSize = 2
    CMod = 4
    RingSize = 2
    MaxFires = 1
INVARIANTS
    MessagesTerminated
CHECK_DEADLOCK FALSE
