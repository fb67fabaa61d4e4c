---- MODULE PacketCount ----
(***************************************************************************)
(* The three packet counters: packet_count, packet_count_float and         *)
(* error_packet_count.  Each prints the global counter, increments it and  *)
(* returns a verdict on the packet; they differ in the verdict only.  The  *)
(* object code loads counter once for bpf_printk and again for the         *)
(* increment, and stores it: three shared accesses of a CPU that handles   *)
(* one packet at a time.                                                   *)
(***************************************************************************)
EXTENDS BpfHelpers

CONSTANTS
    Cpus,         \* the CPUs that receive packets
    Radix,        \* the base %d prints in (10)
    CounterMod,   \* number of values of the 32-bit counter (2^32)
    MaxPackets    \* bound: packets received

ASSUME RadixNat == Radix \in Nat \ {0, 1}
ASSUME CounterModNat == CounterMod \in Nat \ {0, 1}
ASSUME MaxPacketsNat == MaxPackets \in Nat

Counters == {"packet_count", "packet_count_float", "error_packet_count"}

\* Programs that keep no state; module XdpPrograms says what they do.
Stateless == {"xdp_drop_prog", "xdp_parser_func", "xdp_hello"}

Programs == Counters \union Stateless

VARIABLES
    program,     \* the XDP program that is attached
    counter,     \* the global int counter, as its 32 bits
    pc,          \* per CPU: the next shared access
    printed,     \* per CPU: what bpf_printk was given
    reg,         \* per CPU: counter as loaded for the increment
    received,    \* history: packets whose program run has started
    completed,   \* history: packets whose program run has returned
    serial,      \* history: no two packets were ever in flight together
    notPassed    \* history: packets whose verdict was not XDP_PASS

vars == <<program, counter, pc, printed, reg, received, completed, serial, notPassed>>

Values == 0 .. CounterMod - 1

TypeOK ==
    /\ program \in Programs
    /\ counter \in Values
    /\ pc \in [Cpus -> {"idle", "load", "store"}]
    /\ printed \in [Cpus -> Values]
    /\ reg \in [Cpus -> Values]
    /\ received \in Nat /\ completed \in Nat /\ notPassed \in Nat
    /\ serial \in BOOLEAN

Init ==
    /\ program \in Programs
    /\ counter = 0
    /\ pc = [cpu \in Cpus |-> "idle"]
    /\ printed = [cpu \in Cpus |-> 0]
    /\ reg = [cpu \in Cpus |-> 0]
    /\ received = 0 /\ completed = 0 /\ notPassed = 0
    /\ serial = TRUE

(***************************************************************************)
(* What "%d" writes for the 32-bit v: a sign when v stands for a negative  *)
(* int, and the digits.  bpf_trace_printk returns the number of bytes.     *)
(***************************************************************************)
Magnitude(v) == IF 2 * v < CounterMod THEN v ELSE CounterMod - v
Digits[n \in Nat] == IF n < Radix THEN 1 ELSE 1 + Digits[n \div Radix]
Length(v) == Digits[Magnitude(v)] + (IF 2 * v < CounterMod THEN 0 ELSE 1)

\* Fault: the terminating NUL is counted too.
BytesWithNul(v) == Length(v) + 1

BytesPrinted(v) == Length(v)

XDP_PASS == 2            \* return XDP_PASS
FloatTwo == 1073741824   \* return 2.0, whose bits r0 holds

(***************************************************************************)
(* Register r0 at exit: XDP_PASS; the bits of the float 2.0; and, in the   *)
(* program without a return value, what bpf_trace_printk left there.       *)
(***************************************************************************)
Verdict(prog, v) ==
    CASE prog = "packet_count"       -> XDP_PASS
      [] prog = "packet_count_float" -> FloatTwo
      [] prog = "error_packet_count" -> BytesPrinted(v)

\* A packet arrives on this CPU: bpf_printk("%d", counter).
Receive(cpu) ==
    /\ program \in Counters
    /\ pc[cpu] = "idle"
    /\ received < MaxPackets
    /\ received' = received + 1
    /\ serial' = (serial /\ \A other \in Cpus : pc[other] = "idle")
    /\ printed' = [printed EXCEPT ![cpu] = counter]
    /\ pc' = [pc EXCEPT ![cpu] = "load"]
    /\ UNCHANGED <<program, counter, reg, completed, notPassed>>

\* counter++: the load
LoadCounter(cpu) ==
    /\ pc[cpu] = "load"
    /\ reg' = [reg EXCEPT ![cpu] = counter]
    /\ pc' = [pc EXCEPT ![cpu] = "store"]
    /\ UNCHANGED <<program, counter, printed, received, completed, serial, notPassed>>

Return(cpu, count) ==
    /\ pc[cpu] = "store"
    /\ counter' = count
    /\ completed' = completed + 1
    /\ notPassed' = IF Verdict(program, printed[cpu]) = XDP_PASS THEN notPassed ELSE notPassed + 1
    /\ pc' = [pc EXCEPT ![cpu] = "idle"]
    /\ UNCHANGED <<program, printed, reg, received, serial>>

\* Fault: counter is incremented twice.
StoreTwice(cpu) == Return(cpu, WrapInc(WrapInc(reg[cpu], CounterMod), CounterMod))

\* counter++: the store; then the verdict
StoreAndReturn(cpu) == Return(cpu, WrapInc(reg[cpu], CounterMod))

Next == \E cpu \in Cpus : Receive(cpu) \/ LoadCounter(cpu) \/ StoreAndReturn(cpu)

Spec == Init /\ [][Next]_vars

-----------------------------------------------------------------------------
(***************************************************************************)
(* CPUs that race on counter++ lose packets and never invent one; as long  *)
(* as no two packets were handled at once the count is exact.              *)
(***************************************************************************)
CountNeverAhead ==
    /\ counter <= completed
    /\ serial => counter = completed % CounterMod

(***************************************************************************)
(* What becomes of the traffic: packet_count passes every packet, the      *)
(* verdict 2.0 passes none, and the program without a return value passes  *)
(* exactly the packets whose counter prints as two characters (handled one *)
(* at a time and before the counter turns negative).                       *)
(***************************************************************************)
VerdictsByProgram ==
    /\ program = "packet_count" => notPassed = 0
    /\ program = "packet_count_float" => notPassed = completed
    /\ program = "error_packet_count" /\ serial /\ 2 * completed <= CounterMod =>
          completed - notPassed =
              Cardinality({n \in 0 .. completed - 1 : Radix <= n /\ n < Radix * Radix})
====
