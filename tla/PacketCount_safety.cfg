\* Two CPUs; the counter turns negative at 6 and wraps at 12; numbers are printed
\* in base 2, so that one, two and three characters occur.  Packet lengths on both
\* sides of an Ethernet header and of the byte at offset 100.
SPECIFICATION XdpSpec
CONSTANTS
    Cpus = {c1, c2}
    NULL = NULL
    Radix = 2
    CounterMod = 12
    MaxPackets = 13
    PacketLengths = {0, 13, 14, 100, 101}
SYMMETRY CpuSymmetry
INVARIANTS
    CountNeverAhead
    VerdictsByProgram
    PacketReadsInBounds
\* The counters rest when no packet arrives.
CHECK_DEADLOCK FALSE
