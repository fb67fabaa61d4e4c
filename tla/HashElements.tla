---- MODULE HashElements ----
(***************************************************************************)
(* The map counter_table as its users see it through pointers.  The kernel *)
(* allocates the elements of a BPF_MAP_TYPE_HASH when the map is created:  *)
(* max_entries of them on a free list, and a spare one for each CPU.  The  *)
(* pointer that a lookup returns is the address of an element.  An update  *)
(* of an existing key does not write the element in place: it fills the    *)
(* spare of the CPU, links it for the key, and keeps the old element as    *)
(* the CPU's next spare, for whichever key that CPU updates then.  So the  *)
(* element behind an older pointer can come to hold another key's value.   *)
(*                                                                         *)
(* The kernel is not part of the repository; the programs use it so.       *)
(***************************************************************************)
EXTENDS BpfHelpers

CONSTANTS
    Cpus,         \* the CPUs
    Uids,         \* the keys: user identifiers
    Slots,        \* the max_entries elements on the free list (5000000)
    ValueMod      \* number of values of a uint64_t (2^64)

ASSUME CpusFinite == IsFiniteSet(Cpus)
ASSUME SlotsFinite == IsFiniteSet(Slots)
ASSUME SlotsAreNoCpus == Slots \intersect Cpus = {}
ASSUME NullIsNoElement == NULL \notin Slots \union Cpus
ASSUME NullIsNoUid == NULL \notin Uids
ASSUME ValueModNat == ValueMod \in Nat \ {0, 1}

VARIABLES
    counter_table,   \* the element linked for each key
    stored,          \* the value in each element, linked or not
    spare,           \* per CPU: the element that its next replacement fills
    free             \* the elements that were never used

elementVars == <<counter_table, stored, spare, free>>

\* The spare that a CPU starts with is named after the CPU.
Elements == Slots \union Cpus
MaxEntries == Cardinality(Slots)
Values == 0 .. ValueMod - 1

ElementTypeOK ==
    /\ DOMAIN counter_table \subseteq Uids
    /\ counter_table \in [DOMAIN counter_table -> Elements]
    /\ stored \in [Elements -> Values]
    /\ spare \in [Cpus -> Elements]
    /\ free \subseteq Elements

\* Fault: the spares are on the free list, too.
ElementInitAllFree ==
    /\ counter_table = [u \in {} |-> NULL]
    /\ stored = [e \in Elements |-> 0]
    /\ spare = [cpu \in Cpus |-> cpu]
    /\ free = Elements

ElementInit ==
    /\ counter_table = [u \in {} |-> NULL]
    /\ stored = [e \in Elements |-> 0]
    /\ spare = [cpu \in Cpus |-> cpu]
    /\ free = Slots

\* What user space reads: the value of each key, 0 when it has no entry.
Contents == [u \in DOMAIN counter_table |-> stored[counter_table[u]]]
CountOf(u) == IF u \in DOMAIN counter_table THEN stored[counter_table[u]] ELSE 0

-----------------------------------------------------------------------------
(***************************************************************************)
(* bpf_map_update_elem(&counter_table, &key, &value, BPF_ANY) on a CPU.    *)
(* The lock of the bucket makes it one step.                               *)
(***************************************************************************)
Replace(cpu, key, value) ==
    /\ key \in DOMAIN counter_table
    /\ counter_table' = [counter_table EXCEPT ![key] = spare[cpu]]
    /\ stored' = [stored EXCEPT ![spare[cpu]] = value]
    /\ spare' = [spare EXCEPT ![cpu] = counter_table[key]]
    /\ UNCHANGED free

Insert(key, value) ==
    /\ key \notin DOMAIN counter_table
    /\ \E e \in free :
          /\ counter_table' = bpf_map_update_elem(counter_table, key, e)
          /\ stored' = [stored EXCEPT ![e] = value]
          /\ free' = free \ {e}
    /\ UNCHANGED spare

\* -E2BIG: a new key, and nothing on the free list.
Refuses(key) == key \notin DOMAIN counter_table /\ free = {}
====
