---- MODULE XdpPrograms ----
(***************************************************************************)
(* The XDP programs that keep no state, next to the packet counters: what  *)
(* xdp_drop_prog, xdp_parser_func (bpf_loop_ex) and xdp_hello do with one  *)
(* packet.  Their runs share nothing, so a run is one step.                *)
(*                                                                         *)
(* In xdp_drop_prog the loop over arr reads h_proto before it is set; the  *)
(* sum it computes is only printed and is left out, like all printing.     *)
(* Lines 48-55 of its source quote a verifier that refused to load it; the *)
(* model is of the source as written, in a kernel that does load it.       *)
(***************************************************************************)
EXTENDS PacketCount

CONSTANT PacketLengths       \* the lengths of packets, data_end - data

ASSUME PacketLengthsNat == PacketLengths \subseteq Nat

\* ipv4: the type field says so; match: the byte at SearchOffset is 123.
Packets == [len : PacketLengths, ipv4 : BOOLEAN, match : BOOLEAN]

VARIABLE last                \* what the last run of a stateless program did, or NULL

XDP_DROP == 1
EthHeader == 14              \* sizeof(struct ethhdr)
h_proto == 12 .. 13          \* where the type field is in it
SearchIndices == 1 .. 100    \* index > 0 && index <= 100
SearchOffset == 100          \* this_byte - data

\* The bytes of the packet that were read, and the indices do_check was called with.
Outcome(packet, verdict, reads, calls) ==
    [packet |-> packet, verdict |-> verdict, reads |-> reads, calls |-> calls]

(***************************************************************************)
(* bpf_loop(nr_loops, callback, ...): the indices the callback is called   *)
(* with, given those for which it returns 1.  It is called until then, and *)
(* not at all (-E2BIG) if nr_loops is above the limit.                     *)
(***************************************************************************)
BPF_MAX_LOOPS == 8388608     \* 1 << 23
bpf_loop(nr_loops, returnsOne) ==
    IF nr_loops > BPF_MAX_LOOPS THEN {}
    ELSE {k \in 0 .. nr_loops - 1 : returnsOne \cap 0 .. k - 1 = {}}

-----------------------------------------------------------------------------
\* bpf_loop over do_check, which always returns 0
DropLoops == 100000000
DropLoop == bpf_loop(DropLoops, {})

\* Fault: the length of the packet is not checked.
xdp_drop_progUnchecked(packet) == Outcome(packet, XDP_PASS, h_proto, DropLoop)

(***************************************************************************)
(* Too short for an Ethernet header: XDP_DROP.  Otherwise the type field   *)
(* is read; the if on it governs the printing alone, so XDP_PASS follows   *)
(* for every type and the last XDP_DROP is never reached.                  *)
(***************************************************************************)
xdp_drop_prog(packet) ==
    IF EthHeader > packet.len THEN Outcome(packet, XDP_DROP, {}, {})
    ELSE Outcome(packet, XDP_PASS, h_proto, DropLoop)

\* do_check of bpf_loop_ex: the byte it reads, if any, and when it returns 1
CheckReads(index, packet) ==
    IF index \in SearchIndices /\ SearchOffset < packet.len THEN {SearchOffset} ELSE {}
Found(packet) == {index \in SearchIndices : CheckReads(index, packet) # {} /\ packet.match}

\* bpf_loop(nr_loops, do_check, &search_ctx, 0), whose result is ignored
Parse(packet, nr_loops) ==
    LET calls == bpf_loop(nr_loops, Found(packet))
    IN  Outcome(packet, XDP_PASS, UNION {CheckReads(k, packet) : k \in calls}, calls)

xdp_parser_func(packet) == Parse(packet, 1)

\* Prints the bounds of the packet.
xdp_hello(packet) == Outcome(packet, XDP_PASS, {}, {})

Run(packet) ==
    CASE program = "xdp_drop_prog"   -> xdp_drop_prog(packet)
      [] program = "xdp_parser_func" -> xdp_parser_func(packet)
      [] program = "xdp_hello"       -> xdp_hello(packet)

\* A packet arrives at a stateless program.
Handle(packet) ==
    /\ program \in Stateless
    /\ last' = Run(packet)
    /\ UNCHANGED vars

XdpInit == Init /\ last = NULL

XdpNext ==
    \/ Next /\ UNCHANGED last
    \/ \E packet \in Packets : Handle(packet)

XdpSpec == XdpInit /\ [][XdpNext]_<<vars, last>>

-----------------------------------------------------------------------------
(***************************************************************************)
(* No program reads beyond the packet, however short it is; nor would      *)
(* do_check of bpf_loop_ex, whatever index it were called with.            *)
(***************************************************************************)
PacketReadsInBounds ==
    last # NULL =>
        LET inside == 0 .. last.packet.len - 1 IN
        /\ last.reads \subseteq inside
        /\ \A index \in 0 .. 101 : CheckReads(index, last.packet) \subseteq inside
====
