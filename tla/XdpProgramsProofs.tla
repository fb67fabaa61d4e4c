---- MODULE XdpProgramsProofs ----
(***************************************************************************)
(* Theorems about XdpPrograms, for packets of any length.                  *)
(***************************************************************************)
EXTENDS XdpPrograms, PacketCountProofs

\* What was done last was done by the attached program, to some packet.
LastOK == last # NULL => \E packet \in Packets : program \in Stateless /\ last = Run(packet)

LEMMA LastInductive == XdpSpec => []LastOK
<1>1. XdpInit => LastOK
  BY DEF XdpInit, LastOK
<1>2. ASSUME LastOK, [XdpNext]_<<vars, last>> PROVE LastOK'
  <2>1. program' = program
    BY <1>2 DEF XdpNext, Handle, vars, Next, Receive, LoadCounter, StoreAndReturn, Return
  <2>2. \A packet : Run(packet)' = Run(packet)
    BY <2>1 DEF Run
  <2>3. CASE UNCHANGED last
    BY <1>2, <2>1, <2>2, <2>3 DEF LastOK
  <2>4. ASSUME NEW packet \in Packets, Handle(packet) PROVE LastOK'
    BY <2>1, <2>2, <2>4 DEF LastOK, Handle
  <2>5. QED
    BY <1>2, <2>3, <2>4 DEF XdpNext
<1>3. QED
  BY <1>1, <1>2, PTL DEF XdpSpec

-----------------------------------------------------------------------------
LEMMA LoopLimit == DropLoops > BPF_MAX_LOOPS /\ ~(1 > BPF_MAX_LOOPS)
BY SMT DEF DropLoops, BPF_MAX_LOOPS

\* What bpf_loop does for the two loops.
LEMMA DropLoopRefused == DropLoop = {}
BY LoopLimit DEF DropLoop, bpf_loop

LEMMA ParseOnce ==
    ASSUME NEW packet
    PROVE  Parse(packet, 1) = Outcome(packet, XDP_PASS, {}, {0})
<1>1. bpf_loop(1, Found(packet)) = {0}
  BY LoopLimit DEF bpf_loop
<1>2. CheckReads(0, packet) = {}
  BY DEF CheckReads, SearchIndices
<1>3. UNION {CheckReads(k, packet) : k \in {0}} = {}
  BY <1>2
<1>4. QED
  BY <1>1, <1>3 DEF Parse

\* The whole of what the three programs do.
LEMMA Outcomes ==
    ASSUME NEW packet \in Packets
    PROVE  /\ xdp_drop_prog(packet) = IF packet.len < EthHeader
                 THEN Outcome(packet, XDP_DROP, {}, {}) ELSE Outcome(packet, XDP_PASS, h_proto, {})
           /\ xdp_parser_func(packet) = Outcome(packet, XDP_PASS, {}, {0})
           /\ xdp_hello(packet) = Outcome(packet, XDP_PASS, {}, {})
<1>1. packet.len \in Nat
  BY PacketLengthsNat DEF Packets
<1>2. EthHeader > packet.len <=> packet.len < EthHeader
  BY <1>1 DEF EthHeader
<1>3. QED
  BY <1>2, DropLoopRefused, ParseOnce DEF xdp_drop_prog, xdp_parser_func, xdp_hello

LEMMA SafeOutcome == LastOK => PacketReadsInBounds
<1> SUFFICES ASSUME LastOK, last # NULL PROVE PacketReadsInBounds
  BY DEF PacketReadsInBounds
<1>1. PICK packet \in Packets : program \in Stateless /\ last = Run(packet)
  BY DEF LastOK
<1>2. packet.len \in Nat
  BY PacketLengthsNat DEF Packets
<1>3. last.packet = packet
  BY <1>1, Outcomes DEF Run, Stateless, Outcome
<1>4. \A index \in 0 .. 101 : CheckReads(index, packet) \subseteq 0 .. packet.len - 1
  BY <1>2 DEF CheckReads, SearchOffset
<1>5. last.reads \subseteq 0 .. packet.len - 1
  <2>1. CASE program = "xdp_drop_prog"
    <3>1. last = IF packet.len < EthHeader
                 THEN Outcome(packet, XDP_DROP, {}, {}) ELSE Outcome(packet, XDP_PASS, h_proto, {})
      BY <1>1, <2>1, Outcomes DEF Run
    <3>2. last.reads = IF packet.len < EthHeader THEN {} ELSE h_proto
      BY <3>1 DEF Outcome
    <3>3. QED
      BY <1>2, <3>2 DEF EthHeader, h_proto
  <2>2. CASE program \in {"xdp_parser_func", "xdp_hello"}
    <3>1. last.reads = {}
      BY <1>1, <2>2, Outcomes DEF Run, Outcome
    <3>2. QED
      BY <3>1
  <2>3. QED
    BY <1>1, <2>1, <2>2 DEF Stateless
<1>6. QED
  BY <1>3, <1>4, <1>5 DEF PacketReadsInBounds

(***************************************************************************)
(* No stateless program reads beyond its packet, whatever its length.      *)
(***************************************************************************)
THEOREM XdpReadsInBounds == XdpSpec => []PacketReadsInBounds
BY SafeOutcome, LastInductive, PTL

(***************************************************************************)
(* The stateless programs leave the counters alone: what is proved of      *)
(* PacketCount holds next to them.                                         *)
(***************************************************************************)
THEOREM XdpKeepsCounters == XdpSpec => Spec
<1>1. [XdpNext]_<<vars, last>> => [Next]_vars
  BY DEF XdpNext, Handle
<1>2. QED
  BY <1>1, PTL DEF XdpSpec, XdpInit, Spec

(***************************************************************************)
(* The packet counters next to the stateless programs: races only lose     *)
(* packets, and each counter passes the packets its return value says.     *)
(***************************************************************************)
THEOREM XdpCounts == XdpSpec => []CountNeverAhead /\ []VerdictsByProgram
BY XdpKeepsCounters, PacketsNotInvented, PacketVerdicts, PTL
====
