\* Two CPUs, three users and a table of two entries that hold 0..4: races on one
\* user, users side by side, replaced elements that are reused under a pointer,
\* a refused user and a wrapping count all occur within seven runs.
SPECIFICATION Spec
CONSTANTS
    Cpus = {c1, c2}
    Uids = {u1, u2, u3}
    Gids = {g1, g2}
    NULL = NULL
    Slots = {e1, e2}
    ValueMod = 5
    MaxRuns = 7
SYMMETRY CounterSymmetry
INVARIANTS
    TypeOK
    BoundedByStarted
    NeverForgotten
    ExactWithoutOverlap
    RefusedStayUncounted
PROPERTIES
    OnlyOwnEntry
    ImplementsTally
\* The system rests when no process calls execve any more.
CHECK_DEADLOCK FALSE
