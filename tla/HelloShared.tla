---- MODULE HelloShared ----
(***************************************************************************)
(* The kernel objects that the two halves of hello-verifier share: the     *)
(* link of kprobe_exec, and the maps my_config and output.                 *)
(***************************************************************************)
EXTENDS BpfHelpers, PerfRing

CONSTANTS
    Cpus,          \* the CPUs
    Uids,          \* user identifiers
    ConfigUid,     \* 501, the user with a message of their own
    MsgSize,       \* sizeof(message), 12
    CMod,          \* number of values of the 32-bit c (2^32)
    RingSize,      \* records that fit in the 8 pages of a ring
    MaxFires       \* bound: execve calls observed

ASSUME HelloCpus == Cpus # {} /\ IsFiniteSet(Cpus)
ASSUME ConfigUidIsUid == ConfigUid \in Uids
ASSUME MsgSizeNat == MsgSize \in Nat \ {0}
ASSUME CModNat == CMod \in Nat \ {0, 1}
ASSUME RingSizeNat == RingSize \in Nat
ASSUME MaxFiresNat == MaxFires \in Nat

VARIABLES
    attached,      \* kprobe_exec is attached to execve
    my_config,     \* the map from users to messages
    fds,           \* the CPUs with a perf event stored in the map output
    ring,          \* per CPU: the records of its ring
    lost,          \* per CPU: samples dropped and not yet announced
    offered,       \* history, per CPU: samples offered to its ring
    unbuffered     \* history: outputs that found no perf event

mapVars == <<my_config, fds>>
ringVars == <<ring, lost, offered, unbuffered>>
sharedVars == <<attached, mapVars, ringVars>>

(***************************************************************************)
(* A message is the text it starts with and whether a NUL byte ends it     *)
(* within its 12 bytes.                                                    *)
(***************************************************************************)
Messages == [text : {"Hello World", "hello Liz"}, terminated : BOOLEAN]

ASSUME NullIsNoMessage == NULL \notin Messages

\* char message[12] = "Hello World", which has room for the NUL.
message == [text |-> "Hello World", terminated |-> TRUE]

Events == [id : 0 .. MaxFires, uid : Uids, counter : 0 .. CMod - 1, message : Messages]

Samples == [kind : {"sample"}, count : {1}, seq : Nat, event : Events]
LostRecords == [kind : {"lost"}, count : Nat, seq : Nat]
Records == Samples \union LostRecords

SharedTypeOK ==
    /\ attached \in BOOLEAN
    /\ DOMAIN my_config \subseteq Uids
    /\ my_config \in [DOMAIN my_config -> Messages]
    /\ fds \subseteq Cpus
    /\ ring \in [Cpus -> Seq(Records)]
    /\ lost \in [Cpus -> Nat]
    /\ offered \in [Cpus -> Nat]
    /\ unbuffered \in Nat

SharedInit ==
    /\ attached = FALSE
    /\ my_config = [u \in {} |-> message]
    /\ fds = {}
    /\ ring = [cpu \in Cpus |-> <<>>]
    /\ lost = [cpu \in Cpus |-> 0]
    /\ offered = [cpu \in Cpus |-> 0]
    /\ unbuffered = 0
====
