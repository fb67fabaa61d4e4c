---- MODULE MCSkeleton ----
(* Model-checking instance of VerifierLog, with the skeleton it extends. *)
EXTENDS VerifierLog
====
