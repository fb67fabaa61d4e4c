---- MODULE PerfRing ----
(***************************************************************************)
(* The per-CPU ring of a perf event, as bpf_perf_event_output writes it    *)
(* and perf_buffer__poll reads it.  Kernel and libbpf are not part of the  *)
(* repository; this is what hello-verifier relies on.                      *)
(*                                                                         *)
(* A ring holds at most size records.  A sample that does not fit is       *)
(* dropped and counted in lost; the next sample that does fit is preceded  *)
(* by a record announcing how many were dropped.  As bookkeeping, every    *)
(* record carries seq, the number of samples offered to the ring up to and *)
(* including those it stands for.                                          *)
(***************************************************************************)
EXTENDS Integers, Sequences

Sample(event, seq) == [kind |-> "sample", count |-> 1, seq |-> seq, event |-> event]
LostRecord(n, seq) == [kind |-> "lost", count |-> n, seq |-> seq]

\* The records that offering the seq-th sample appends, when they fit.
Offer(lost, seq, event) ==
    IF lost > 0 THEN <<LostRecord(lost, seq - 1), Sample(event, seq)>>
                ELSE <<Sample(event, seq)>>

Fits(ring, lost, size) == Len(ring) + (IF lost > 0 THEN 2 ELSE 1) <= size

\* What is left of a ring once its first n records are consumed.
Consume(ring, n) == SubSeq(ring, n + 1, Len(ring))
====
