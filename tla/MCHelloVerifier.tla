---- MODULE MCHelloVerifier ----
(* Model-checking instances of HelloVerifier. *)
EXTENDS HelloVerifier, TLC

\* CPUs are interchangeable; of the users only ConfigUid is special.
CpuSymmetry == Permutations(Cpus)
====
