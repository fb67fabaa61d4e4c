\* Two CPUs, root and two more users, a table of two entries that hold 0..3.
SPECIFICATION Spec
CONSTANTS
    Cpus = {c1, c2}
    Uids = {root, u1, u2}
    Gids = {g1}
    Root = root
    NULL = NULL
    Slots = {e1, e2}
    ValueMod = 4
    MaxRuns = 6
SYMMETRY CpuSlotSymmetry
INVARIANTS
    TypeOK
    BoundedByAllRuns
    KeysHaveEntered
    ExactWhenSerial
\* The system rests when no process calls execve any more.
CHECK_DEADLOCK FALSE
