---- MODULE SharedUidCounter ----
(***************************************************************************)
(* The eBPF program hello of bpf_maps_dup/hash_map_example.bpf.c: the      *)
(* counter of UidCounter with one difference, uid is a global variable of  *)
(* the program.  The lookup and the update take the address of the global, *)
(* so each uses the user that the last CPU to enter hello stored there.    *)
(***************************************************************************)
EXTENDS HashElements

CONSTANTS
    Gids,         \* group identifiers
    Root,         \* uid 0, the value a .bss variable starts with
    MaxRuns       \* bound: runs started

ASSUME SharedRootIsUid == Root \in Uids
ASSUME SharedMaxRunsNat == MaxRuns \in Nat

VARIABLES
    uid,             \* the global variable
    pc,              \* per CPU: the next shared access of its hello
    p, counter,      \* per CPU: the locals of hello
    user,            \* history, per CPU: whose execve its hello serves
    started,         \* history: runs started, of all users
    runs,            \* history: completed runs of each user
    entered,         \* history: users for whom hello was entered
    serial           \* history: no two runs were ever in flight together

vars == <<elementVars, uid, pc, p, counter, user, started, runs, entered, serial>>

Labels == {"idle", "lookup", "increment", "update"}

TypeOK ==
    /\ ElementTypeOK
    /\ uid \in Uids
    /\ pc \in [Cpus -> Labels]
    /\ p \in [Cpus -> Elements \union {NULL}]
    /\ counter \in [Cpus -> Values]
    /\ user \in [Cpus -> Uids \union {NULL}]
    /\ started \in Nat
    /\ runs \in [Uids -> Nat]
    /\ entered \subseteq Uids
    /\ serial \in BOOLEAN

InFlight(cpu) == pc[cpu] # "idle"

Init ==
    /\ ElementInit
    /\ uid = Root
    /\ pc = [cpu \in Cpus |-> "idle"]
    /\ p = [cpu \in Cpus |-> NULL]
    /\ counter = [cpu \in Cpus |-> 0]
    /\ user = [cpu \in Cpus |-> NULL]
    /\ started = 0
    /\ runs = [u \in Uids |-> 0]
    /\ entered = {}
    /\ serial = TRUE

\* The kprobe fires on this CPU for user u: counter = 0.
Arrive(cpu, u) ==
    /\ pc[cpu] = "idle"
    /\ started < MaxRuns
    /\ started' = started + 1
    /\ counter' = [counter EXCEPT ![cpu] = 0]
    /\ pc' = [pc EXCEPT ![cpu] = "lookup"]
    /\ user' = [user EXCEPT ![cpu] = u]
    /\ entered' = entered \union {u}
    /\ serial' = (serial /\ \A other \in Cpus : ~InFlight(other))
    /\ UNCHANGED <<elementVars, p, runs>>

\* Fault: the global is not set, it keeps its initial value.
EnterWithoutStore(cpu, cred) == Arrive(cpu, LowHalf(cred)) /\ UNCHANGED uid

\* An execve with these credentials: the low half is stored in the global.
Enter(cpu, cred) == Arrive(cpu, LowHalf(cred)) /\ uid' = LowHalf(cred)

\* bpf_map_lookup_elem(&counter_table, &uid)
Lookup(cpu) ==
    /\ pc[cpu] = "lookup"
    /\ p' = [p EXCEPT ![cpu] = bpf_map_lookup_elem(counter_table, uid)]
    /\ pc' = [pc EXCEPT ![cpu] = "increment"]
    /\ UNCHANGED <<elementVars, uid, counter, user, started, runs, entered, serial>>

Count(cpu, value) ==
    /\ pc[cpu] = "increment"
    /\ counter' = [counter EXCEPT ![cpu] = value]
    /\ pc' = [pc EXCEPT ![cpu] = "update"]
    /\ UNCHANGED <<elementVars, uid, p, user, started, runs, entered, serial>>

\* counter after "if (p != 0) counter = *p": what the element holds by now
ReadOf(cpu) == IF p[cpu] # NULL THEN stored[p[cpu]] ELSE counter[cpu]

\* Fault: the run counts itself twice.
IncrementTwice(cpu) == Count(cpu, WrapInc(WrapInc(ReadOf(cpu), ValueMod), ValueMod))

\* if (p != 0) counter = *p;  counter++
Increment(cpu) == Count(cpu, WrapInc(ReadOf(cpu), ValueMod))

\* bpf_map_update_elem(&counter_table, &uid, &counter, 0), result ignored
Update(cpu) ==
    /\ pc[cpu] = "update"
    /\ \/ Replace(cpu, uid, counter[cpu])
       \/ Insert(uid, counter[cpu])
       \/ Refuses(uid) /\ UNCHANGED elementVars
    /\ pc' = [pc EXCEPT ![cpu] = "idle"]
    /\ runs' = [runs EXCEPT ![user[cpu]] = @ + 1]
    /\ UNCHANGED <<uid, p, counter, user, started, entered, serial>>

Next == \E cpu \in Cpus :
    \/ \E cred \in Gids \X Uids : Enter(cpu, cred)
    \/ Lookup(cpu)
    \/ Increment(cpu)
    \/ Update(cpu)

Spec == Init /\ [][Next]_vars

-----------------------------------------------------------------------------
(***************************************************************************)
(* Runs end up under the wrong user, and pointers at reused elements; yet  *)
(* no entry exceeds the number of runs started for all users together:     *)
(* each update of hello adds one to a value that an earlier run wrote.     *)
(***************************************************************************)
BoundedByAllRuns ==
    \A u \in DOMAIN counter_table : Contents[u] <= started

(***************************************************************************)
(* Every key that hello puts in the table is a user some execve ran for:   *)
(* the initial value of the global is never used as a key.                 *)
(***************************************************************************)
KeysHaveEntered == DOMAIN counter_table \subseteq entered

(***************************************************************************)
(* As long as no two runs of anybody overlapped, the global is as good as  *)
(* a local: every user with an entry is counted exactly.                   *)
(***************************************************************************)
ExactWhenSerial ==
    serial => \A u \in DOMAIN counter_table :
                 runs[u] < ValueMod => Contents[u] = runs[u]

(***************************************************************************)
(* "How many times each different user has run programs."                  *)
(* (bpf_maps_dup/hash_map_example.bpf.c:7): no user is credited with more  *)
(* runs than hello served for them, the runs in flight included.           *)
(***************************************************************************)
CountsOwnRunsOnly ==
    \A u \in DOMAIN counter_table :
        Contents[u] <=
            runs[u] + Cardinality({cpu \in Cpus : InFlight(cpu) /\ user[cpu] = u})
====
