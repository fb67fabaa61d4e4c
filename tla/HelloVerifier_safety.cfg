\* Two CPUs race on c while main starts, polls and stops; c passes MsgSize and
\* wraps.
SPECIFICATION Spec
CONSTANTS
    Cpus = {c1, c2}
    Uids = {u501, u0}
    ConfigUid = u501
    NULL = NULL
    MsgSize = 3
    CMod = 4
    RingSize = 2
    MaxFires = 3
SYMMETRY CpuSymmetry
INVARIANTS
    TypeOK
    InBounds
    CountersNeverAhead
    MessageMatchesUid
    NothingLeftBehind
    StatusTellsWhy
PROPERTIES
    KeepsToApi
    ConfigFrozen
    OutputsReachBuffer
\* The system rests once main has ended.
CHECK_DEADLOCK FALSE
