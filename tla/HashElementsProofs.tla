---- MODULE HashElementsProofs ----
(***************************************************************************)
(* What module HashElements guarantees its users, for any number of CPUs,  *)
(* keys and elements: an update fills an element that is linked for nobody *)
(* and leaves the value of every other key alone, and the table refuses a  *)
(* key exactly when it holds max_entries others.                           *)
(***************************************************************************)
EXTENDS HashElements, FiniteSetTheorems, TLAPS

\* An element is linked for one key, or the spare of one CPU, or free.
Placed ==
    /\ \A u, v \in DOMAIN counter_table : counter_table[u] = counter_table[v] => u = v
    /\ \A c, d \in Cpus : spare[c] = spare[d] => c = d
    /\ \A u \in DOMAIN counter_table, c \in Cpus : counter_table[u] # spare[c]
    /\ \A u \in DOMAIN counter_table : counter_table[u] \notin free
    /\ \A c \in Cpus : spare[c] \notin free

\* Every entry was taken from the free list.
Counted ==
    /\ IsFiniteSet(free) /\ IsFiniteSet(DOMAIN counter_table)
    /\ Cardinality(free) + Cardinality(DOMAIN counter_table) = MaxEntries

ElementInv == ElementTypeOK /\ Placed /\ Counted

\* What an update that is not refused does.
Written(key, value) ==
    /\ DOMAIN counter_table' = DOMAIN counter_table \union {key}
    /\ stored'[counter_table'[key]] = value
    /\ \A u \in DOMAIN counter_table \ {key} :
          /\ counter_table'[u] = counter_table[u]
          /\ stored'[counter_table[u]] = stored[counter_table[u]]
    /\ \A e \in Elements : stored'[e] = stored[e] \/ stored'[e] = value

-----------------------------------------------------------------------------
\* max_entries is a number.
LEMMA MaxEntriesNat == MaxEntries \in Nat
BY SlotsFinite, FS_CardinalityType DEF MaxEntries

\* An unsigned increment stays within its width and grows by at most one.
LEMMA WrapIncBounds ==
    ASSUME NEW x \in Values
    PROVE  WrapInc(x, ValueMod) \in Values /\ WrapInc(x, ValueMod) <= x + 1
BY ValueModNat DEF WrapInc, Values

LEMMA ElementInitOK == ElementInit => ElementInv
<1> SUFFICES ASSUME ElementInit PROVE ElementInv
  OBVIOUS
<1>1. ElementTypeOK
  BY ValueModNat DEF ElementInit, ElementTypeOK, Elements, Values
<1>2. Placed
  BY SlotsAreNoCpus DEF ElementInit, Placed
<1>3. Counted
  <2>1. DOMAIN counter_table = {} /\ free = Slots
    BY DEF ElementInit
  <2>2. IsFiniteSet({}) /\ Cardinality({}) = 0
    BY FS_EmptySet
  <2>3. QED
    BY <2>1, <2>2, SlotsFinite, MaxEntriesNat DEF Counted, MaxEntries
<1>4. QED
  BY <1>1, <1>2, <1>3 DEF ElementInv

(***************************************************************************)
(* The old element becomes the spare and the spare is linked: no element   *)
(* is ever linked twice, so that filling one changes one key's value.      *)
(***************************************************************************)
LEMMA ReplaceEffect ==
    ASSUME ElementInv, NEW cpu \in Cpus, NEW key \in Uids, NEW value \in Values,
           Replace(cpu, key, value)
    PROVE  ElementInv' /\ Written(key, value)
<1> USE DEF ElementInv, ElementTypeOK
<1>1. /\ key \in DOMAIN counter_table
      /\ counter_table' = [counter_table EXCEPT ![key] = spare[cpu]]
      /\ stored' = [stored EXCEPT ![spare[cpu]] = value]
      /\ spare' = [spare EXCEPT ![cpu] = counter_table[key]]
      /\ free' = free
  BY DEF Replace
<1>2. DOMAIN counter_table' = DOMAIN counter_table
  BY <1>1
<1>3. spare[cpu] \in Elements /\ counter_table[key] \in Elements
  BY <1>1
<1>4. ElementTypeOK'
  BY <1>1, <1>2, <1>3
<1>5. Placed'
  BY <1>1, <1>2 DEF Placed
<1>6. Counted'
  BY <1>1, <1>2 DEF Counted
<1>7. Written(key, value)
  BY <1>1, <1>2, <1>3 DEF Written, Placed
<1>8. QED
  BY <1>4, <1>5, <1>6, <1>7

LEMMA InsertEffect ==
    ASSUME ElementInv, NEW key \in Uids, NEW value \in Values, Insert(key, value)
    PROVE  /\ ElementInv' /\ Written(key, value)
           /\ Cardinality(DOMAIN counter_table) < MaxEntries
<1> USE DEF ElementInv, ElementTypeOK
<1>1. PICK e \in free :
          /\ counter_table' = bpf_map_update_elem(counter_table, key, e)
          /\ stored' = [stored EXCEPT ![e] = value]
          /\ free' = free \ {e}
  BY DEF Insert
<1>2. key \notin DOMAIN counter_table /\ spare' = spare /\ e \in Elements
  BY DEF Insert
<1>3. /\ DOMAIN counter_table' = DOMAIN counter_table \union {key}
      /\ counter_table'[key] = e
      /\ \A u \in DOMAIN counter_table : counter_table'[u] = counter_table[u]
      /\ counter_table' \in [DOMAIN counter_table' -> Elements]
  BY <1>1, <1>2 DEF bpf_map_update_elem
<1>4. ElementTypeOK'
  BY <1>1, <1>2, <1>3
<1>5. Placed'
  BY <1>1, <1>2, <1>3 DEF Placed
<1>6. Counted' /\ Cardinality(DOMAIN counter_table) < MaxEntries
  <2>1. /\ IsFiniteSet(free') /\ Cardinality(free') = Cardinality(free) - 1
        /\ Cardinality(free) \in Nat /\ Cardinality(free') \in Nat
    BY <1>1, FS_RemoveElement, FS_CardinalityType DEF Counted
  <2>2. /\ IsFiniteSet(DOMAIN counter_table')
        /\ Cardinality(DOMAIN counter_table') = Cardinality(DOMAIN counter_table) + 1
        /\ Cardinality(DOMAIN counter_table) \in Nat
    BY <1>2, <1>3, FS_AddElement, FS_CardinalityType DEF Counted
  <2>3. QED
    BY <2>1, <2>2, MaxEntriesNat DEF Counted
<1>7. Written(key, value)
  BY <1>1, <1>2, <1>3 DEF Written, Placed
<1>8. QED
  BY <1>4, <1>5, <1>6, <1>7

LEMMA RefusesWhenFull ==
    ASSUME ElementInv, NEW key, Refuses(key)
    PROVE  key \notin DOMAIN counter_table /\ Cardinality(DOMAIN counter_table) = MaxEntries
<1>1. Cardinality(DOMAIN counter_table) \in Nat /\ Cardinality({}) = 0
  BY FS_CardinalityType, FS_EmptySet DEF ElementInv, Counted
<1>2. QED
  BY <1>1, MaxEntriesNat DEF ElementInv, Counted, Refuses
====
