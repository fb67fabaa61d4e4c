---- MODULE MCPacketCount ----
(* Model-checking instances of XdpPrograms, with the counters it extends. *)
EXTENDS XdpPrograms, TLC

\* CPUs are interchangeable.
CpuSymmetry == Permutations(Cpus)
====
