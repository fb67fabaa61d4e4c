---- MODULE UidCounter ----
(***************************************************************************)
(* The eBPF program hello of bpf_maps/hash_map_example.bpf.c (and of       *)
(* bpf_maps2, the same body under another map declaration): a kprobe on    *)
(* execve that counts, in the hash map counter_table, how many times each  *)
(* user has run programs.                                                  *)
(*                                                                         *)
(* A kprobe runs with preemption disabled, so a CPU executes one hello at  *)
(* a time; different CPUs interleave freely between the accesses to the    *)
(* shared map: the lookup, the read *p and the update.  Each is one        *)
(* action; everything in between is local to the CPU.  The pointer p is an *)
(* element of the map, which other CPUs can replace and reuse before *p is *)
(* read.                                                                   *)
(***************************************************************************)
EXTENDS HashElements

CONSTANTS
    Gids,         \* group identifiers
    MaxRuns       \* bound: runs started

ASSUME MaxRunsNat == MaxRuns \in Nat

VARIABLES
    pc,              \* per CPU: the next shared access of its hello
    uid, p, counter, \* per CPU: the locals of hello
    started,         \* history: runs started, of all users
    runs,            \* history: completed runs of each user
    overlapped,      \* history: users two of whose runs were in flight together
    refused          \* history: users an update of whose entry was refused

vars == <<elementVars, pc, uid, p, counter, started, runs, overlapped, refused>>

Labels == {"idle", "lookup", "increment", "update"}

TypeOK ==
    /\ ElementTypeOK
    /\ pc \in [Cpus -> Labels]
    /\ uid \in [Cpus -> Uids \union {NULL}]
    /\ p \in [Cpus -> Elements \union {NULL}]
    /\ counter \in [Cpus -> Values]
    /\ started \in Nat
    /\ runs \in [Uids -> Nat]
    /\ overlapped \subseteq Uids
    /\ refused \subseteq Uids

InFlight(cpu) == pc[cpu] # "idle"

Init ==
    /\ ElementInit
    /\ pc = [cpu \in Cpus |-> "idle"]
    /\ uid = [cpu \in Cpus |-> NULL]
    /\ p = [cpu \in Cpus |-> NULL]
    /\ counter = [cpu \in Cpus |-> 0]
    /\ started = 0
    /\ runs = [u \in Uids |-> 0]
    /\ overlapped = {}
    /\ refused = {}

\* The kprobe fires on this CPU for user u.
Arrive(cpu, u) ==
    /\ pc[cpu] = "idle"
    /\ started < MaxRuns
    /\ started' = started + 1
    /\ uid' = [uid EXCEPT ![cpu] = u]
    /\ pc' = [pc EXCEPT ![cpu] = "lookup"]
    /\ overlapped' = IF \E other \in Cpus : InFlight(other) /\ uid[other] = u
                     THEN overlapped \union {u} ELSE overlapped
    /\ UNCHANGED <<elementVars, p, runs, refused>>

(***************************************************************************)
(* A task with these credentials calls execve on this CPU: counter = 0,    *)
(* and uid is the low half of the credentials word.                        *)
(***************************************************************************)
Enter(cpu, cred) ==
    /\ Arrive(cpu, LowHalf(cred))
    /\ counter' = [counter EXCEPT ![cpu] = 0]

PointTo(cpu, elem) ==
    /\ pc[cpu] = "lookup"
    /\ p' = [p EXCEPT ![cpu] = elem]
    /\ pc' = [pc EXCEPT ![cpu] = "increment"]
    /\ UNCHANGED <<elementVars, uid, counter, started, runs, overlapped, refused>>

\* Fault: the pointer of the CPU's previous run is reused.
LookupCached(cpu) ==
    PointTo(cpu, IF p[cpu] # NULL THEN p[cpu]
                 ELSE bpf_map_lookup_elem(counter_table, uid[cpu]))

Lookup(cpu) == PointTo(cpu, bpf_map_lookup_elem(counter_table, uid[cpu]))

Count(cpu, value) ==
    /\ pc[cpu] = "increment"
    /\ counter' = [counter EXCEPT ![cpu] = value]
    /\ pc' = [pc EXCEPT ![cpu] = "update"]
    /\ UNCHANGED <<elementVars, uid, p, started, runs, overlapped, refused>>

\* counter after "if (p != 0) counter = *p": what the element holds by now
ReadOf(cpu) == IF p[cpu] # NULL THEN stored[p[cpu]] ELSE counter[cpu]

\* Fault: counter++ inside the braces of the if.
IncrementInsideIf(cpu) ==
    Count(cpu, IF p[cpu] # NULL THEN WrapInc(ReadOf(cpu), ValueMod) ELSE ReadOf(cpu))

\* Fault: the run counts itself twice.
IncrementTwice(cpu) == Count(cpu, WrapInc(WrapInc(ReadOf(cpu), ValueMod), ValueMod))

\* if (p != 0) counter = *p;  counter++
Increment(cpu) == Count(cpu, WrapInc(ReadOf(cpu), ValueMod))

\* return 0
Complete(cpu) ==
    /\ pc[cpu] = "update"
    /\ pc' = [pc EXCEPT ![cpu] = "idle"]
    /\ runs' = [runs EXCEPT ![uid[cpu]] = @ + 1]
    /\ UNCHANGED <<uid, p, counter, started, overlapped>>

\* Write counter at a key, whose update may be refused, and return 0.
WriteAt(cpu, key) ==
    /\ Complete(cpu)
    /\ \/ /\ Replace(cpu, key, counter[cpu]) \/ Insert(key, counter[cpu])
          /\ UNCHANGED refused
       \/ /\ Refuses(key)
          /\ refused' = refused \union {key}
          /\ UNCHANGED elementVars

\* Fault: the key is the uid stored last by any CPU.
UpdateSharedKey(cpu) == \E other \in Cpus : uid[other] # NULL /\ WriteAt(cpu, uid[other])

\* Fault: BPF_NOEXIST instead of BPF_ANY, an existing entry is not replaced.
UpdateNoexist(cpu) ==
    IF uid[cpu] \in DOMAIN counter_table
    THEN Complete(cpu) /\ UNCHANGED <<elementVars, refused>>
    ELSE WriteAt(cpu, uid[cpu])

\* The update, whose return value is ignored.
Update(cpu) == WriteAt(cpu, uid[cpu])

Step(cpu) == Lookup(cpu) \/ Increment(cpu) \/ Update(cpu)

Next == \E cpu \in Cpus : (\E cred \in Gids \X Uids : Enter(cpu, cred)) \/ Step(cpu)

Spec == Init /\ [][Next]_vars

-----------------------------------------------------------------------------
(***************************************************************************)
(* A run can read through its pointer a count that has since been stored   *)
(* for somebody else.  Still counts do not come from nowhere: whatever is  *)
(* reused under whomever, no entry exceeds the runs that were started.     *)
(***************************************************************************)
BoundedByStarted == \A u \in DOMAIN counter_table : Contents[u] <= started

(***************************************************************************)
(* However many counts the race loses, it never loses all of them: before  *)
(* as many runs have started as the counter has values, a user who         *)
(* completed a run and found room is not read as one who ran nothing.      *)
(***************************************************************************)
NeverForgotten ==
    started < ValueMod => \A u \in Uids \ refused : runs[u] > 0 => CountOf(u) >= 1

(***************************************************************************)
(* A user no two of whose execve calls overlapped, and whose entry found   *)
(* room, is counted exactly, whatever the other users do meanwhile, their  *)
(* races and the reuse of their elements included: the private uid of      *)
(* hello keeps users apart.                                                *)
(***************************************************************************)
ExactWithoutOverlap ==
    \A u \in Uids \ (overlapped \union refused) :
        runs[u] < ValueMod => CountOf(u) = runs[u]

(***************************************************************************)
(* The ignored return value of bpf_map_update_elem: an update is refused   *)
(* only once the table is at max_entries, and a user refused once has no   *)
(* entry ever after, so their runs are never counted.                      *)
(***************************************************************************)
RefusedStayUncounted ==
    /\ Cardinality(DOMAIN counter_table) <= MaxEntries
    /\ refused # {} => /\ Cardinality(DOMAIN counter_table) = MaxEntries
                       /\ refused \intersect DOMAIN counter_table = {}

(***************************************************************************)
(* A step of hello changes at most the count of the user it runs for: the  *)
(* element it fills is linked for nobody else.  No entry is ever removed.  *)
(***************************************************************************)
OnlyOwnEntry ==
    [][\A u \in DOMAIN counter_table :
          /\ u \in DOMAIN counter_table'
          /\ Contents'[u] # Contents[u] => runs'[u] = runs[u] + 1]_vars

\* hello implements the per-user counter of module UserTally.
Tally == INSTANCE UserTally WITH tally <- Contents, contended <- overlapped
ImplementsTally == Tally!TallySpec

(***************************************************************************)
(* "How many times each different user has run programs."                  *)
(* (bpf_maps/hash_map_example.bpf.c:7): with no run in flight and no entry *)
(* refused, the table holds the number of completed runs.                  *)
(***************************************************************************)
CountsEveryRun ==
    (\A cpu \in Cpus : ~InFlight(cpu)) =>
        \A u \in Uids \ refused : CountOf(u) = runs[u] % ValueMod

(***************************************************************************)
(* The same comment, read the other way: no user is credited with more     *)
(* runs than hello completed for them.                                     *)
(***************************************************************************)
CountsNoOtherRun == \A u \in DOMAIN counter_table : Contents[u] <= runs[u]
====
