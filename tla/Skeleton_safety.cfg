\* Every allocation and every libbpf call may fail; a log of one to three bytes
\* in an array of four, whose other bytes are anything.
SPECIFICATION StartupSpec
CONSTANTS
    NULL = NULL
    LogSize = 4
INVARIANTS
    NoLeak
    NoDoubleFree
    HandleComplete
    ErrnoTellsWhy
    LogPrinted
    PastEndOnlyWhenFull
PROPERTIES
    ImplementsApi
