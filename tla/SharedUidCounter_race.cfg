\* Two CPUs and two users: one user's store falls between the lookup and the
\* update of the other.
SPECIFICATION Spec
CONSTANTS
    Cpus = {c1, c2}
    Uids = {root, u1}
    Gids = {g1}
    Root = root
    NULL = NULL
    Slots = {e1, e2}
    ValueMod = 5
    MaxRuns = 4
INVARIANTS
    CountsOwnRunsOnly
CHECK_DEADLOCK FALSE
