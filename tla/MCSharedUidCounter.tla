---- MODULE MCSharedUidCounter ----
(* Model-checking instances of SharedUidCounter. *)
EXTENDS SharedUidCounter, TLC

\* CPUs and elements are interchangeable; users are not, Root is one of them.
CpuSlotSymmetry == Permutations(Cpus) \union Permutations(Slots)
====
