---- MODULE MCUidCounter ----
(* Model-checking instances of UidCounter. *)
EXTENDS UidCounter, TLC

\* CPUs, users and elements are interchangeable: no definition tells them apart.
CounterSymmetry == Permutations(Cpus) \union Permutations(Uids) \union Permutations(Slots)
====
