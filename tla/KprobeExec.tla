---- MODULE KprobeExec ----
(***************************************************************************)
(* The eBPF program kprobe_exec of verifier_example/hello-verifier.bpf.c.  *)
(* Each execve on a CPU starts a run, which the CPU completes before it    *)
(* starts another.  Runs of different CPUs interleave at the accesses to   *)
(* the global c.  The committed object code makes three loads and a store: *)
(* one load for data.counter = c and c++ together, the store of c++, and a *)
(* load for each bounds check, whose register is then the array index.     *)
(***************************************************************************)
EXTENDS HelloShared

VARIABLES
    c,         \* the global int c
    kpc,       \* per CPU: the next step of its run
    data,      \* per CPU: the local struct data_t
    index,     \* per CPU: the register loaded from c for a bounds check
    touched,   \* history: the indices at which the message arrays were read
    fired,     \* history: runs started
    serial     \* history: no two runs were ever in flight together

kernelVars == <<c, kpc, data, index, touched, fired, serial>>

KLabels == {"idle", "store", "check_message", "read_message",
            "check_data", "read_data", "output"}

NoEvent == [id |-> 0, uid |-> ConfigUid, counter |-> 0, message |-> message]

KernelTypeOK ==
    /\ c \in 0 .. CMod - 1
    /\ kpc \in [Cpus -> KLabels]
    /\ data \in [Cpus -> Events]
    /\ index \in [Cpus -> 0 .. CMod - 1]
    /\ touched \subseteq Nat
    /\ fired \in 0 .. MaxFires
    /\ serial \in BOOLEAN

KernelInit ==
    /\ c = 1
    /\ kpc = [cpu \in Cpus |-> "idle"]
    /\ data = [cpu \in Cpus |-> NoEvent]
    /\ index = [cpu \in Cpus |-> 0]
    /\ touched = {}
    /\ fired = 0
    /\ serial = TRUE

goto(cpu, label) == kpc' = [kpc EXCEPT ![cpu] = label]

\* A run starts on this CPU for a user and notes a count.
Start(cpu, uid, count) ==
    /\ attached
    /\ kpc[cpu] = "idle"
    /\ fired < MaxFires
    /\ fired' = fired + 1
    /\ serial' = (serial /\ \A other \in Cpus : kpc[other] = "idle")
    /\ data' = [data EXCEPT ![cpu] =
                  [id |-> fired + 1, uid |-> uid, counter |-> count, message |-> message]]
    /\ goto(cpu, "store")
    /\ UNCHANGED <<sharedVars, c, index, touched>>

\* Fault: data.counter = ++c.
FirePreIncrement(cpu, uid) == Start(cpu, uid, WrapInc(c, CMod))

\* A user calls execve: data = {}, data.counter = c, data.uid = uid.
Fire(cpu, uid) == Start(cpu, uid, c)

(***************************************************************************)
(* The store of c++, then the message: the user's own, or the global one.  *)
(* my_config is not written while the program is attached (ConfigFrozen)   *)
(* and message never, so the element behind p is not reused and the copy   *)
(* needs no step of its own.                                               *)
(***************************************************************************)
StoreAndCopy(cpu) ==
    LET p == bpf_map_lookup_elem(my_config, data[cpu].uid) IN
    /\ kpc[cpu] = "store"
    /\ c' = WrapInc(data[cpu].counter, CMod)
    /\ data' = [data EXCEPT ![cpu].message =
                  IF p # NULL THEN p ELSE message]
    /\ goto(cpu, "check_message")
    /\ UNCHANGED <<sharedVars, index, touched, fired, serial>>

\* One load of c, compared with the size of the array.
Check(cpu, read) ==
    /\ index' = [index EXCEPT ![cpu] = c]
    /\ goto(cpu, IF c < MsgSize THEN read ELSE "output")
    /\ UNCHANGED <<sharedVars, c, data, touched, fired, serial>>

\* The array is read at position i.
ReadAt(cpu, i, next) ==
    /\ touched' = touched \union {i}
    /\ goto(cpu, next)
    /\ UNCHANGED <<sharedVars, c, data, index, fired, serial>>

\* if (c < sizeof(message)); a failed check skips both reads.
CheckMessage(cpu) == kpc[cpu] = "check_message" /\ Check(cpu, "read_message")

\* Fault: the index is loaded from c again, after the check.
ReadMessageReload(cpu) == kpc[cpu] = "read_message" /\ ReadAt(cpu, c, "check_data")

\* a = message[c], at the index that was checked
ReadMessage(cpu) == kpc[cpu] = "read_message" /\ ReadAt(cpu, index[cpu], "check_data")

\* if (c < sizeof(data.message)): c is loaded again.
CheckData(cpu) == kpc[cpu] = "check_data" /\ Check(cpu, "read_data")

\* a = data.message[c], at the index that was checked
ReadData(cpu) == kpc[cpu] = "read_data" /\ ReadAt(cpu, index[cpu], "output")

(***************************************************************************)
(* bpf_perf_event_output(ctx, &output, BPF_F_CURRENT_CPU, ...), whose      *)
(* result is ignored, and return 0.  It fails with -ENOENT when the CPU    *)
(* has no perf event yet and with -ENOSPC when its ring is full.           *)
(***************************************************************************)
Output(cpu) ==
    LET records == Offer(lost[cpu], offered[cpu] + 1, data[cpu]) IN
    /\ kpc[cpu] = "output"
    /\ \/ /\ cpu \notin fds
          /\ unbuffered' = unbuffered + 1
          /\ UNCHANGED <<ring, lost, offered>>
       \/ /\ cpu \in fds
          /\ offered' = [offered EXCEPT ![cpu] = @ + 1]
          /\ \/ /\ Fits(ring[cpu], lost[cpu], RingSize)
                /\ ring' = [ring EXCEPT ![cpu] = @ \o records]
                /\ lost' = [lost EXCEPT ![cpu] = 0]
             \/ /\ ~Fits(ring[cpu], lost[cpu], RingSize)
                /\ lost' = [lost EXCEPT ![cpu] = @ + 1]
                /\ UNCHANGED ring
          /\ UNCHANGED unbuffered
    /\ goto(cpu, "idle")
    /\ UNCHANGED <<attached, mapVars, c, data, index, touched, fired, serial>>

KernelStep(cpu) ==
    \/ StoreAndCopy(cpu)
    \/ CheckMessage(cpu) \/ ReadMessage(cpu)
    \/ CheckData(cpu) \/ ReadData(cpu)
    \/ Output(cpu)

KernelNext == \E cpu \in Cpus : (\E uid \in Uids : Fire(cpu, uid)) \/ KernelStep(cpu)
====
