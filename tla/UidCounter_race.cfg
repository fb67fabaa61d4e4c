\* Two CPUs, one user: the smallest instance in which two runs can overlap.
SPECIFICATION Spec
CONSTANTS
    Cpus = {c1, c2}
    Uids = {u1}
    Gids = {g1}
    NULL = NULL
    Slots = {e1}
    ValueMod = 5
    MaxRuns = 2
INVARIANTS
    CountsEveryRun
CHECK_DEADLOCK FALSE
