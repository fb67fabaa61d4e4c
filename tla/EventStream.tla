---- MODULE EventStream ----
(***************************************************************************)
(* What a perf buffer promises the program that polls it.  Once the stream *)
(* of a CPU is open, a sample offered to it is either accepted or dropped; *)
(* what is accepted is received once and in order, behind a record of how  *)
(* many were dropped before it.  Closing forgets what is still pending.    *)
(* Nothing is said about room, or about how the reader gives it back.      *)
(***************************************************************************)
EXTENDS PerfRing

CONSTANTS Cpus, Events

VARIABLES
    open,        \* the CPUs whose stream is open
    offered,     \* per CPU: samples offered
    lost,        \* per CPU: samples dropped and not yet announced
    pending,     \* per CPU: records accepted and not yet received
    received     \* per CPU: records received

streamVars == <<open, offered, lost, pending, received>>

StreamInit ==
    /\ open = {}
    /\ offered = [cpu \in Cpus |-> 0]
    /\ lost = [cpu \in Cpus |-> 0]
    /\ pending = [cpu \in Cpus |-> <<>>]
    /\ received = [cpu \in Cpus |-> <<>>]

\* A stream is opened before anything is offered to it, hence once.
StreamOpen(cpu) ==
    /\ cpu \notin open
    /\ offered[cpu] = 0
    /\ open' = open \union {cpu}
    /\ UNCHANGED <<offered, lost, pending, received>>

StreamAccept(cpu, event) ==
    /\ pending' = [pending EXCEPT ![cpu] = @ \o Offer(lost[cpu], offered[cpu] + 1, event)]
    /\ lost' = [lost EXCEPT ![cpu] = 0]

StreamDrop(cpu) ==
    /\ lost' = [lost EXCEPT ![cpu] = @ + 1]
    /\ UNCHANGED pending

StreamOffer(cpu) ==
    /\ cpu \in open
    /\ offered' = [offered EXCEPT ![cpu] = @ + 1]
    /\ UNCHANGED <<open, received>>
    /\ StreamDrop(cpu) \/ \E event \in Events : StreamAccept(cpu, event)

StreamReceive(cpu) ==
    /\ cpu \in open
    /\ received' = [received EXCEPT ![cpu] = @ \o pending[cpu]]
    /\ pending' = [pending EXCEPT ![cpu] = <<>>]
    /\ UNCHANGED <<open, offered, lost>>

StreamClose ==
    /\ open' = {}
    /\ pending' = [cpu \in Cpus |-> <<>>]
    /\ UNCHANGED <<offered, lost, received>>

StreamNext ==
    \/ \E cpu \in Cpus : StreamOpen(cpu) \/ StreamOffer(cpu) \/ StreamReceive(cpu)
    \/ StreamClose

StreamSpec == StreamInit /\ [][StreamNext]_streamVars
====
