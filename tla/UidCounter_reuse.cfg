\* Two CPUs, two users: one CPU holds a pointer to an element that the other
\* replaces for the same user and reuses for the other user.
SPECIFICATION Spec
CONSTANTS
    Cpus = {c1, c2}
    Uids = {u1, u2}
    Gids = {g1}
    NULL = NULL
    Slots = {e1, e2}
    ValueMod = 9
    MaxRuns = 6
INVARIANTS
    CountsNoOtherRun
CHECK_DEADLOCK FALSE
