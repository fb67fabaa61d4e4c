---- MODULE SharedUidCounterProofs ----
(***************************************************************************)
(* Theorems about SharedUidCounter, for any number of CPUs, users and      *)
(* entries: what the global uid still guarantees.                          *)
(***************************************************************************)
EXTENDS SharedUidCounter, HashElementsProofs

\* The number of runs in flight.
Flying == Cardinality({cpu \in Cpus : InFlight(cpu)})

(***************************************************************************)
(* The inductive invariant.  While a run is in flight the global holds a   *)
(* user who entered; every value in an element, linked or not, counts runs *)
(* that are over, anybody's, and the value about to be written counts one  *)
(* run on top.                                                             *)
(***************************************************************************)
LocalsOK ==
    \A cpu \in Cpus :
        /\ InFlight(cpu) => user[cpu] \in Uids /\ uid \in entered
        /\ pc[cpu] \in {"lookup", "increment"} => counter[cpu] = 0
        /\ pc[cpu] = "update" => counter[cpu] + Flying <= started + 1

StoredBounded == Flying <= started /\ \A e \in Elements : stored[e] + Flying <= started

SharedInv == TypeOK /\ ElementInv /\ LocalsOK /\ StoredBounded /\ KeysHaveEntered

(***************************************************************************)
(* Without overlap: one run at a time, the global is its user, its pointer *)
(* is the element linked for the user, what it has read is what the table  *)
(* holds, and a user who ran and has no entry met a full table, which      *)
(* stays full.                                                             *)
(***************************************************************************)
OneAtATime ==
    \A cpu \in Cpus : InFlight(cpu) =>
        /\ uid = user[cpu]
        /\ \A other \in Cpus : InFlight(other) => other = cpu

ReadsCurrent ==
    \A cpu \in Cpus :
        /\ pc[cpu] = "increment" => p[cpu] = bpf_map_lookup_elem(counter_table, uid)
        /\ pc[cpu] = "update" => counter[cpu] = WrapInc(CountOf(uid), ValueMod)

MissingMeansFull == \A u \in Uids \ DOMAIN counter_table : runs[u] > 0 => free = {}

SerialInv ==
    /\ SharedInv
    /\ serial => OneAtATime /\ ReadsCurrent /\ MissingMeansFull
    /\ ExactWhenSerial

-----------------------------------------------------------------------------
\* The runs in flight are at most one for each CPU.
LEMMA FlyingNat == /\ IsFiniteSet({cpu \in Cpus : InFlight(cpu)})
                   /\ Flying \in Nat
BY CpusFinite, FS_Subset, FS_CardinalityType DEF Flying

\* Entering hello adds a run in flight.
LEMMA FlyingUp ==
    ASSUME TypeOK, NEW cpu \in Cpus, NEW u, Arrive(cpu, u)
    PROVE  Flying' = Flying + 1
<1> DEFINE S == {c \in Cpus : InFlight(c)}
<1>1. cpu \notin S /\ S' = S \union {cpu}
  BY DEF TypeOK, Arrive, InFlight, Labels
<1>2. QED
  BY <1>1, FlyingNat, FS_AddElement DEF Flying

\* A step inside hello leaves the number alone.
LEMMA FlyingSame ==
    ASSUME TypeOK, NEW cpu \in Cpus, InFlight(cpu), NEW l \in Labels \ {"idle"},
           pc' = [pc EXCEPT ![cpu] = l]
    PROVE  Flying' = Flying
<1>1. {c \in Cpus : InFlight(c)}' = {c \in Cpus : InFlight(c)}
  BY DEF TypeOK, InFlight
<1>2. QED
  BY <1>1 DEF Flying

\* Returning takes the run out of flight.
LEMMA FlyingDown ==
    ASSUME TypeOK, NEW cpu \in Cpus, InFlight(cpu), pc' = [pc EXCEPT ![cpu] = "idle"]
    PROVE  Flying >= 1 /\ Flying' = Flying - 1
<1> DEFINE S == {c \in Cpus : InFlight(c)}
<1>1. cpu \in S /\ S' = S \ {cpu}
  BY DEF TypeOK, InFlight
<1>2. Cardinality(S \ {cpu}) \in Nat /\ Cardinality(S \ {cpu}) = Cardinality(S) - 1
  BY <1>1, FlyingNat, FS_RemoveElement, FS_CardinalityType
<1>3. QED
  BY <1>1, <1>2, FlyingNat DEF Flying

\* Whatever element the pointer has come to point at, what is read is bounded.
LEMMA ReadBounded ==
    ASSUME SharedInv, NEW cpu \in Cpus, pc[cpu] = "increment"
    PROVE  ReadOf(cpu) \in Values /\ ReadOf(cpu) + Flying <= started
<1>1. CASE p[cpu] = NULL
  BY <1>1, FlyingNat DEF SharedInv, TypeOK, LocalsOK, StoredBounded, ReadOf
<1>2. CASE p[cpu] # NULL
  BY <1>2 DEF SharedInv, TypeOK, ElementTypeOK, StoredBounded, ReadOf
<1>3. QED
  BY <1>1, <1>2

\* What the update of hello does to the table and to its elements.
LEMMA UpdateEffect ==
    ASSUME SharedInv, NEW cpu \in Cpus, Update(cpu)
    PROVE  /\ uid \in Uids /\ counter[cpu] \in Values
           /\ ElementInv'
           /\ free' \subseteq free
           /\ \/ Written(uid, counter[cpu]) /\ ~Refuses(uid)
              \/ Refuses(uid) /\ UNCHANGED elementVars
<1>1. uid \in Uids /\ counter[cpu] \in Values /\ ElementInv
  BY DEF SharedInv, TypeOK
<1>2. CASE Replace(cpu, uid, counter[cpu])
  BY <1>1, <1>2, ReplaceEffect DEF Refuses, Replace
<1>3. CASE Insert(uid, counter[cpu])
  BY <1>1, <1>3, InsertEffect DEF Refuses, Insert
<1>4. CASE Refuses(uid) /\ UNCHANGED elementVars
  BY <1>1, <1>4 DEF ElementInv, ElementTypeOK, Placed, Counted, elementVars
<1>5. QED
  BY <1>2, <1>3, <1>4 DEF Update

(***************************************************************************)
(* The states of hello stay well typed and its counts bounded.             *)
(***************************************************************************)
LEMMA SharedInvInductive ==
    /\ Init => SharedInv
    /\ SharedInv /\ [Next]_vars => SharedInv'
<1>1. Init => SharedInv
  <2> SUFFICES ASSUME Init PROVE SharedInv
    OBVIOUS
  <2>1. ElementInv
    BY ElementInitOK DEF Init
  <2>2. TypeOK
    BY <2>1, ValueModNat, SharedRootIsUid DEF Init, TypeOK, ElementInv, Labels, Values
  <2>3. Flying = 0
    <3>1. {cpu \in Cpus : InFlight(cpu)} = {}
      BY DEF Init, InFlight
    <3>2. QED
      BY <3>1, FS_EmptySet DEF Flying
  <2>4. LocalsOK /\ StoredBounded /\ KeysHaveEntered
    BY <2>3 DEF Init, ElementInit, LocalsOK, StoredBounded, KeysHaveEntered, InFlight
  <2>5. QED
    BY <2>1, <2>2, <2>4 DEF SharedInv
<1>2. ASSUME SharedInv, NEW cpu \in Cpus, NEW cred \in Gids \X Uids, Enter(cpu, cred)
      PROVE  SharedInv'
  <2>1. LowHalf(cred) \in Uids /\ Arrive(cpu, LowHalf(cred)) /\ uid' = LowHalf(cred)
    BY <1>2 DEF Enter, LowHalf
  <2>2. /\ Flying \in Nat /\ Flying' = Flying + 1 /\ started \in Nat /\ started' = started + 1
        /\ UNCHANGED elementVars
    BY <1>2, <2>1, FlyingUp, FlyingNat DEF SharedInv, TypeOK, Arrive
  <2>3. ElementInv' /\ KeysHaveEntered'
    BY <1>2, <2>1, <2>2
       DEF SharedInv, ElementInv, ElementTypeOK, Placed, Counted, KeysHaveEntered, Arrive, elementVars
  <2>4. TypeOK'
    BY <1>2, <2>1, <2>3, ValueModNat DEF SharedInv, TypeOK, ElementInv, Arrive, Labels, Values
  <2>5. LocalsOK'
    <3>1. \A c \in Cpus : counter[c] \in Nat
      BY <1>2, ValueModNat DEF SharedInv, TypeOK, Values
    <3>2. \A c \in Cpus : c # cpu =>
             pc'[c] = pc[c] /\ user'[c] = user[c] /\ counter'[c] = counter[c]
      BY <1>2, <2>1 DEF SharedInv, TypeOK, Arrive
    <3>3. /\ pc'[cpu] = "lookup" /\ user'[cpu] = LowHalf(cred) /\ counter'[cpu] = 0
          /\ uid' \in entered'
      BY <1>2, <2>1 DEF SharedInv, TypeOK, Arrive
    <3>4. QED
      BY <1>2, <2>1, <2>2, <3>1, <3>2, <3>3 DEF SharedInv, LocalsOK, InFlight
  <2>6. StoredBounded'
    <3>1. stored' = stored /\ \A e \in Elements : stored[e] \in Nat
      BY <1>2, <2>2, ValueModNat DEF SharedInv, ElementInv, ElementTypeOK, Values, elementVars
    <3>2. QED
      BY <1>2, <2>2, <3>1 DEF SharedInv, StoredBounded
  <2>7. QED
    BY <2>3, <2>4, <2>5, <2>6 DEF SharedInv
<1>3. ASSUME SharedInv, NEW cpu \in Cpus, Lookup(cpu)
      PROVE  SharedInv'
  <2>1. Flying' = Flying
    BY <1>3, FlyingSame DEF SharedInv, Lookup, InFlight, Labels
  <2>2. ElementInv' /\ StoredBounded' /\ KeysHaveEntered'
    BY <1>3, <2>1 DEF SharedInv, ElementInv, ElementTypeOK, Placed, Counted, StoredBounded,
                      KeysHaveEntered, Lookup, elementVars
  <2>3. bpf_map_lookup_elem(counter_table, uid) \in Elements \union {NULL}
    BY <1>3 DEF SharedInv, ElementInv, ElementTypeOK, bpf_map_lookup_elem
  <2>4. TypeOK'
    BY <1>3, <2>2, <2>3 DEF SharedInv, TypeOK, ElementInv, Lookup, Labels
  <2>5. LocalsOK'
    BY <1>3, <2>1 DEF SharedInv, TypeOK, LocalsOK, Lookup, InFlight
  <2>6. QED
    BY <2>2, <2>4, <2>5 DEF SharedInv
<1>4. ASSUME SharedInv, NEW cpu \in Cpus, Increment(cpu)
      PROVE  SharedInv'
  <2> DEFINE new == WrapInc(ReadOf(cpu), ValueMod)
  <2>1. Flying' = Flying /\ Flying \in Nat /\ started \in Nat /\ ValueMod \in Nat
    BY <1>4, FlyingSame, FlyingNat, ValueModNat DEF SharedInv, TypeOK, Increment, Count, InFlight, Labels
  <2>2. ElementInv' /\ StoredBounded' /\ KeysHaveEntered'
    BY <1>4, <2>1 DEF SharedInv, ElementInv, ElementTypeOK, Placed, Counted, StoredBounded,
                      KeysHaveEntered, Increment, Count, elementVars
  <2>3. ReadOf(cpu) \in Values /\ ReadOf(cpu) + Flying <= started
    BY <1>4, ReadBounded DEF Increment, Count
  <2>4. new \in Values /\ new <= ReadOf(cpu) + 1
    BY <2>3, WrapIncBounds
  <2>5. counter' = [counter EXCEPT ![cpu] = new]
    BY <1>4 DEF Increment, Count
  <2> HIDE DEF new
  <2>6. new + Flying <= started + 1
    BY <2>1, <2>3, <2>4 DEF Values
  <2>7. TypeOK'
    BY <1>4, <2>2, <2>4, <2>5 DEF SharedInv, TypeOK, ElementInv, Increment, Count, Labels
  <2>8. LocalsOK'
    BY <1>4, <2>1, <2>5, <2>6 DEF SharedInv, TypeOK, LocalsOK, Increment, Count, InFlight
  <2>9. QED
    BY <2>2, <2>7, <2>8 DEF SharedInv
<1>5. ASSUME SharedInv, NEW cpu \in Cpus, Update(cpu)
      PROVE  SharedInv'
  <2>1. /\ uid \in Uids /\ counter[cpu] \in Values /\ ElementInv'
        /\ Written(uid, counter[cpu]) \/ UNCHANGED elementVars
    BY <1>5, UpdateEffect
  <2>2. /\ pc[cpu] = "update" /\ pc' = [pc EXCEPT ![cpu] = "idle"]
        /\ user[cpu] \in Uids /\ uid \in entered
        /\ runs' = [runs EXCEPT ![user[cpu]] = @ + 1]
        /\ UNCHANGED <<uid, p, counter, user, started, entered, serial>>
    BY <1>5 DEF SharedInv, LocalsOK, Update, InFlight
  <2>3. /\ Flying \in Nat /\ Flying >= 1 /\ Flying' = Flying - 1
        /\ started \in Nat /\ counter[cpu] + Flying <= started + 1 /\ counter[cpu] \in Nat
    <3>1. Flying >= 1 /\ Flying' = Flying - 1
      BY <1>5, <2>2, FlyingDown DEF SharedInv, InFlight
    <3>2. started \in Nat /\ counter[cpu] + Flying <= started + 1 /\ counter[cpu] \in Nat
      BY <1>5, <2>1, <2>2, ValueModNat DEF SharedInv, TypeOK, LocalsOK, Values
    <3>3. QED
      BY <3>1, <3>2, FlyingNat
  <2>4. TypeOK'
    BY <1>5, <2>1, <2>2 DEF SharedInv, TypeOK, ElementInv, Labels
  <2>5. \A e \in Elements : stored'[e] = stored[e] \/ stored'[e] = counter[cpu]
    BY <2>1 DEF Written, elementVars
  <2>6. StoredBounded'
    <3>1. \A e \in Elements : stored[e] \in Nat /\ stored[e] + Flying <= started
      BY <1>5, ValueModNat DEF SharedInv, ElementInv, ElementTypeOK, Values, StoredBounded
    <3>2. QED
      BY <1>5, <2>2, <2>3, <2>5, <3>1 DEF SharedInv, StoredBounded
  <2>7. LocalsOK'
    <3>1. \A c \in Cpus : counter[c] \in Nat
      BY <1>5, ValueModNat DEF SharedInv, TypeOK, Values
    <3>2. \A c \in Cpus : pc'[c] = pc[c] \/ pc'[c] = "idle"
      BY <1>5, <2>2 DEF SharedInv, TypeOK
    <3>3. QED
      BY <1>5, <2>2, <2>3, <3>1, <3>2 DEF SharedInv, LocalsOK, InFlight
  <2>8. KeysHaveEntered'
    BY <1>5, <2>1, <2>2 DEF SharedInv, KeysHaveEntered, Written, elementVars
  <2>9. QED
    BY <2>1, <2>4, <2>6, <2>7, <2>8 DEF SharedInv
<1>6. ASSUME SharedInv, UNCHANGED vars
      PROVE  SharedInv'
  BY <1>6 DEF SharedInv, TypeOK, ElementInv, ElementTypeOK, Placed, Counted, LocalsOK, StoredBounded,
              KeysHaveEntered, Flying, InFlight, vars, elementVars
<1>7. QED
  BY <1>1, <1>2, <1>3, <1>4, <1>5, <1>6 DEF Next

(***************************************************************************)
(* Every variable of the program keeps its type: the table's keys are      *)
(* users, and a pointer into it is NULL or one of its elements.            *)
(***************************************************************************)
THEOREM SharedTypeCorrect == Spec => []TypeOK
<1>1. SharedInv => TypeOK
  BY DEF SharedInv
<1>2. QED
  BY SharedInvInductive, <1>1, PTL DEF Spec

(***************************************************************************)
(* However the CPUs interleave on the global uid and on reused elements,   *)
(* no count exceeds the number of runs of all users together.              *)
(***************************************************************************)
THEOREM BoundedCount == Spec => []BoundedByAllRuns
<1>1. SharedInv => BoundedByAllRuns
  <2> SUFFICES ASSUME SharedInv, NEW u \in DOMAIN counter_table
               PROVE  Contents[u] <= started
    BY DEF BoundedByAllRuns
  <2>1. counter_table[u] \in Elements /\ Contents[u] = stored[counter_table[u]]
    BY DEF SharedInv, ElementInv, ElementTypeOK, Contents
  <2>2. /\ stored[counter_table[u]] \in Nat /\ started \in Nat
        /\ stored[counter_table[u]] + Flying <= started
    BY <2>1, ValueModNat DEF SharedInv, TypeOK, ElementInv, ElementTypeOK, StoredBounded, Values
  <2>3. QED
    BY <2>1, <2>2, FlyingNat
<1>2. QED
  BY SharedInvInductive, <1>1, PTL DEF Spec

(***************************************************************************)
(* The initial value of the global uid, root's, is never used as a key     *)
(* before a process of root calls execve.                                  *)
(***************************************************************************)
THEOREM OnlyEnteredKeys == Spec => []KeysHaveEntered
<1>1. SharedInv => KeysHaveEntered
  BY DEF SharedInv
<1>2. QED
  BY SharedInvInductive, <1>1, PTL DEF Spec

-----------------------------------------------------------------------------
(***************************************************************************)
(* Runs that do not overlap find in the table what the previous run left.  *)
(***************************************************************************)
LEMMA SerialInductive ==
    /\ Init => SerialInv
    /\ SerialInv /\ [Next]_vars => SerialInv'
<1>1. Init => SerialInv
  <2> SUFFICES ASSUME Init PROVE SerialInv
    OBVIOUS
  <2>1. OneAtATime /\ ReadsCurrent /\ MissingMeansFull /\ ExactWhenSerial
    BY DEF Init, ElementInit, OneAtATime, ReadsCurrent, MissingMeansFull, ExactWhenSerial, InFlight
  <2>2. QED
    BY <2>1, SharedInvInductive DEF SerialInv
<1> SUFFICES ASSUME SerialInv, [Next]_vars PROVE SerialInv'
  BY <1>1
<1>2. SharedInv'
  BY SharedInvInductive DEF SerialInv
<1>3. serial' => serial
  BY DEF Next, Enter, Arrive, Lookup, Increment, Count, Update, vars
<1>4. CASE ~serial'
  BY <1>2, <1>4 DEF SerialInv, ExactWhenSerial
<1>5. CASE serial'
  <2> DEFINE Exact == \A u \in DOMAIN counter_table :
                         runs[u] < ValueMod => stored[counter_table[u]] = runs[u]
  <2>1. serial /\ OneAtATime /\ ReadsCurrent /\ MissingMeansFull /\ Exact
    BY <1>3, <1>5 DEF SerialInv, ExactWhenSerial, Contents
  <2>2. TypeOK /\ LocalsOK
    BY DEF SerialInv, SharedInv
  <2> DEFINE Goal == OneAtATime' /\ ReadsCurrent' /\ MissingMeansFull' /\ Exact'
  <2> SUFFICES Goal
    BY <1>2 DEF SerialInv, ExactWhenSerial, Contents
  <2>3. ASSUME NEW cpu \in Cpus, NEW cred \in Gids \X Uids, Enter(cpu, cred)
        PROVE  Goal
    <3>1. \A other \in Cpus : ~InFlight(other)
      BY <1>5, <2>3 DEF Enter, Arrive
    <3>2. \A other \in Cpus : InFlight(other)' => other = cpu
      BY <2>2, <2>3, <3>1 DEF Enter, Arrive, InFlight, TypeOK
    <3>3. OneAtATime'
      BY <2>2, <2>3, <3>2 DEF OneAtATime, Enter, Arrive, InFlight, TypeOK
    <3>4. ReadsCurrent'
      BY <2>2, <2>3, <3>1 DEF ReadsCurrent, Enter, Arrive, InFlight, TypeOK
    <3>5. QED
      BY <2>1, <2>3, <3>3, <3>4 DEF MissingMeansFull, Enter, Arrive, elementVars
  <2>4. ASSUME NEW cpu \in Cpus, Lookup(cpu)
        PROVE  Goal
    <3>1. OneAtATime'
      BY <2>1, <2>2, <2>4 DEF OneAtATime, Lookup, InFlight, TypeOK
    <3>2. ReadsCurrent'
      BY <2>1, <2>2, <2>4 DEF ReadsCurrent, Lookup, CountOf, TypeOK, elementVars
    <3>3. QED
      BY <2>1, <2>4, <3>1, <3>2 DEF MissingMeansFull, Lookup, elementVars
  <2>5. ASSUME NEW cpu \in Cpus, Increment(cpu)
        PROVE  Goal
    <3>1. OneAtATime'
      BY <2>1, <2>2, <2>5 DEF OneAtATime, Increment, Count, InFlight, TypeOK
    <3>2. ReadOf(cpu) = CountOf(uid)
      BY <2>1, <2>2, <2>5, NullIsNoElement
         DEF ReadsCurrent, LocalsOK, Increment, Count, ReadOf, CountOf, bpf_map_lookup_elem,
             TypeOK, ElementTypeOK, Elements
    <3>3. ReadsCurrent'
      BY <2>1, <2>2, <2>5, <3>2 DEF ReadsCurrent, Increment, Count, CountOf, TypeOK, elementVars
    <3>4. QED
      BY <2>1, <2>5, <3>1, <3>3 DEF MissingMeansFull, Increment, Count, elementVars
  <2>6. ASSUME NEW cpu \in Cpus, Update(cpu)
        PROVE  Goal
    <3>1. uid = user[cpu] /\ uid \in Uids /\ \A other \in Cpus : InFlight(other) => other = cpu
      BY <2>1, <2>2, <2>6 DEF OneAtATime, Update, InFlight, TypeOK
    <3>2. \A other \in Cpus : ~InFlight(other)'
      BY <2>2, <2>6, <3>1 DEF Update, InFlight, TypeOK
    <3>3. OneAtATime' /\ ReadsCurrent'
      BY <3>2 DEF OneAtATime, ReadsCurrent, InFlight
    <3>4. /\ free' \subseteq free
          /\ \/ Written(uid, counter[cpu]) /\ ~Refuses(uid)
             \/ Refuses(uid) /\ UNCHANGED elementVars
      BY <2>6, UpdateEffect DEF SerialInv
    <3>5. /\ runs \in [Uids -> Nat] /\ runs' = [runs EXCEPT ![uid] = @ + 1]
          /\ runs'[uid] = runs[uid] + 1
          /\ \A u \in Uids : u # uid => runs'[u] = runs[u]
      BY <2>2, <2>6, <3>1 DEF Update, TypeOK
    <3>6. CASE Written(uid, counter[cpu]) /\ ~Refuses(uid)
      <4>1. MissingMeansFull'
        BY <2>1, <3>4, <3>5, <3>6 DEF MissingMeansFull, Written
      <4>2. runs[uid] + 1 < ValueMod => CountOf(uid) = runs[uid]
        <5>1. CASE uid \in DOMAIN counter_table
          BY <2>1, <3>1, <3>5, <5>1, ValueModNat DEF CountOf
        <5>2. CASE uid \notin DOMAIN counter_table
          BY <2>1, <3>1, <3>5, <3>6, <5>2 DEF MissingMeansFull, Refuses, CountOf
        <5>3. QED
          BY <5>1, <5>2
      <4>3. counter[cpu] = WrapInc(CountOf(uid), ValueMod)
        BY <2>1, <2>6 DEF ReadsCurrent, Update
      <4>4. runs[uid] + 1 < ValueMod => counter[cpu] = runs[uid] + 1
        BY <3>1, <3>5, <4>2, <4>3, ValueModNat DEF WrapInc
      <4>5. DOMAIN counter_table \subseteq Uids
        BY <2>2 DEF TypeOK, ElementTypeOK
      <4>6. Exact'
        BY <2>1, <3>1, <3>5, <3>6, <4>4, <4>5 DEF Written
      <4>7. QED
        BY <3>3, <4>1, <4>6
    <3>7. CASE Refuses(uid) /\ UNCHANGED elementVars
      <4>1. MissingMeansFull'
        BY <3>7 DEF MissingMeansFull, Refuses, elementVars
      <4>2. Exact'
        BY <2>1, <2>2, <3>5, <3>7 DEF Refuses, elementVars, TypeOK, ElementTypeOK
      <4>3. QED
        BY <3>3, <4>1, <4>2
    <3>8. QED
      BY <3>4, <3>6, <3>7
  <2>7. ASSUME UNCHANGED vars
        PROVE  Goal
    BY <2>1, <2>7 DEF OneAtATime, ReadsCurrent, MissingMeansFull, InFlight, CountOf, vars, elementVars
  <2>8. QED
    BY <2>3, <2>4, <2>5, <2>6, <2>7 DEF Next
<1>6. QED
  BY <1>4, <1>5

(***************************************************************************)
(* As long as no two runs of hello overlapped, every entry is exact        *)
(* although the key is a global.                                           *)
(***************************************************************************)
THEOREM SerialExact == Spec => []ExactWhenSerial
<1>1. SerialInv => ExactWhenSerial
  BY DEF SerialInv
<1>2. QED
  BY SerialInductive, <1>1, PTL DEF Spec
====
