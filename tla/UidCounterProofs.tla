---- MODULE UidCounterProofs ----
(***************************************************************************)
(* Theorems about UidCounter, for any number of CPUs, users and entries.   *)
(***************************************************************************)
EXTENDS UidCounter, HashElementsProofs

\* The number of runs in flight.
Flying == Cardinality({cpu \in Cpus : InFlight(cpu)})

(***************************************************************************)
(* The inductive invariant.  Every run started is in flight or over, and a *)
(* value in any element, linked or not, counts runs that are over; the     *)
(* value a run is about to write counts the run itself on top.  Nothing is *)
(* said of the element behind a pointer: any bounded value may be read.    *)
(***************************************************************************)
LocalsOK ==
    \A cpu \in Cpus :
        /\ InFlight(cpu) => uid[cpu] \in Uids
        /\ pc[cpu] \in {"lookup", "increment"} => counter[cpu] = 0
        /\ pc[cpu] = "update" => counter[cpu] + Flying <= started + 1

StoredBounded == Flying <= started /\ \A e \in Elements : stored[e] + Flying <= started

SafeInv == TypeOK /\ ElementInv /\ LocalsOK /\ StoredBounded

\* Two runs of one user in flight together mark the user.
OverlapsMarked ==
    \A c1, c2 \in Cpus :
        c1 # c2 /\ InFlight(c1) /\ InFlight(c2) /\ uid[c1] = uid[c2]
            => uid[c1] \in overlapped

(***************************************************************************)
(* The pointer of a run whose user is not marked is still the element that *)
(* is linked for the user, and what the run has read still its value.      *)
(***************************************************************************)
ReadsCurrent ==
    \A cpu \in Cpus :
        /\ pc[cpu] = "increment" /\ uid[cpu] \notin overlapped
              => p[cpu] = bpf_map_lookup_elem(counter_table, uid[cpu])
        /\ pc[cpu] = "update" /\ uid[cpu] \notin overlapped
              => counter[cpu] = WrapInc(CountOf(uid[cpu]), ValueMod)

ExactInv == SafeInv /\ OverlapsMarked /\ ReadsCurrent /\ ExactWithoutOverlap

FullInv == SafeInv /\ RefusedStayUncounted

-----------------------------------------------------------------------------
\* The low half of a credentials word is a user.
LEMMA LowHalfIsUid ==
    ASSUME NEW cred \in Gids \X Uids
    PROVE  LowHalf(cred) \in Uids
BY DEF LowHalf

\* The runs in flight are at most one for each CPU.
LEMMA FlyingNat == /\ IsFiniteSet({cpu \in Cpus : InFlight(cpu)})
                   /\ Flying \in Nat
BY CpusFinite, FS_Subset, FS_CardinalityType DEF Flying

\* A CPU inside hello is one of them.
LEMMA FlyingPositive ==
    ASSUME NEW cpu \in Cpus, InFlight(cpu)
    PROVE  Flying >= 1
<1> DEFINE S == {c \in Cpus : InFlight(c)}
<1>1. Cardinality(S \ {cpu}) \in Nat /\ Cardinality(S \ {cpu}) = Cardinality(S) - 1
  BY FlyingNat, FS_RemoveElement, FS_CardinalityType
<1>2. QED
  BY <1>1, FlyingNat DEF Flying

\* Entering hello adds a run in flight.
LEMMA FlyingUp ==
    ASSUME TypeOK, NEW cpu \in Cpus, NEW u, Arrive(cpu, u)
    PROVE  Flying' = Flying + 1
<1> DEFINE S == {c \in Cpus : InFlight(c)}
<1>1. cpu \notin S /\ S' = S \union {cpu}
  BY DEF TypeOK, Arrive, InFlight, Labels
<1>2. QED
  BY <1>1, FlyingNat, FS_AddElement DEF Flying

\* A step inside hello leaves the number alone.
LEMMA FlyingSame ==
    ASSUME TypeOK, NEW cpu \in Cpus, InFlight(cpu), NEW l \in Labels \ {"idle"},
           pc' = [pc EXCEPT ![cpu] = l]
    PROVE  Flying' = Flying
<1>1. {c \in Cpus : InFlight(c)}' = {c \in Cpus : InFlight(c)}
  BY DEF TypeOK, InFlight
<1>2. QED
  BY <1>1 DEF Flying

\* Returning takes the run out of flight.
LEMMA FlyingDown ==
    ASSUME TypeOK, NEW cpu \in Cpus, Complete(cpu)
    PROVE  Flying >= 1 /\ Flying' = Flying - 1
<1> DEFINE S == {c \in Cpus : InFlight(c)}
<1>1. cpu \in S /\ S' = S \ {cpu}
  BY DEF TypeOK, Complete, InFlight, Labels
<1>2. Cardinality(S \ {cpu}) \in Nat /\ Cardinality(S \ {cpu}) = Cardinality(S) - 1
  BY <1>1, FlyingNat, FS_RemoveElement, FS_CardinalityType
<1>3. QED
  BY <1>1, <1>2, FlyingNat DEF Flying

\* Whatever element the pointer has come to point at, what is read is bounded.
LEMMA ReadBounded ==
    ASSUME SafeInv, NEW cpu \in Cpus, pc[cpu] = "increment"
    PROVE  ReadOf(cpu) \in Values /\ ReadOf(cpu) + Flying <= started
<1>1. CASE p[cpu] = NULL
  BY <1>1, FlyingNat DEF SafeInv, TypeOK, LocalsOK, StoredBounded, ReadOf
<1>2. CASE p[cpu] # NULL
  BY <1>2 DEF SafeInv, TypeOK, ElementTypeOK, StoredBounded, ReadOf
<1>3. QED
  BY <1>1, <1>2

\* What the update of hello does to the table and to its elements.
LEMMA UpdateEffect ==
    ASSUME SafeInv, NEW cpu \in Cpus, Update(cpu)
    PROVE  /\ uid[cpu] \in Uids /\ counter[cpu] \in Values /\ Complete(cpu)
           /\ ElementInv'
           /\ \/ Written(uid[cpu], counter[cpu]) /\ refused' = refused
              \/ /\ Refuses(uid[cpu]) /\ UNCHANGED elementVars
                 /\ refused' = refused \union {uid[cpu]}
<1>1. Complete(cpu) /\ uid[cpu] \in Uids /\ counter[cpu] \in Values
  BY DEF SafeInv, TypeOK, LocalsOK, Update, WriteAt, Complete, InFlight
<1>2. CASE Replace(cpu, uid[cpu], counter[cpu]) /\ UNCHANGED refused
  BY <1>1, <1>2, ReplaceEffect DEF SafeInv
<1>3. CASE Insert(uid[cpu], counter[cpu]) /\ UNCHANGED refused
  BY <1>1, <1>3, InsertEffect DEF SafeInv
<1>4. CASE /\ Refuses(uid[cpu]) /\ UNCHANGED elementVars
           /\ refused' = refused \union {uid[cpu]}
  BY <1>1, <1>4 DEF SafeInv, ElementInv, ElementTypeOK, Placed, Counted, elementVars
<1>5. QED
  BY <1>2, <1>3, <1>4 DEF Update, WriteAt

(***************************************************************************)
(* The states of hello stay well typed, and every value in the table and   *)
(* in the elements that were replaced stays bounded.                       *)
(***************************************************************************)
LEMMA SafeInvInductive ==
    /\ Init => SafeInv
    /\ SafeInv /\ [Next]_vars => SafeInv'
<1>1. Init => SafeInv
  <2> SUFFICES ASSUME Init PROVE SafeInv
    OBVIOUS
  <2>1. ElementInv
    BY ElementInitOK DEF Init
  <2>2. TypeOK
    BY <2>1, ValueModNat DEF Init, TypeOK, ElementInv, Labels, Values
  <2>3. Flying = 0
    <3>1. {cpu \in Cpus : InFlight(cpu)} = {}
      BY DEF Init, InFlight
    <3>2. QED
      BY <3>1, FS_EmptySet DEF Flying
  <2>4. LocalsOK /\ StoredBounded
    BY <2>3 DEF Init, ElementInit, LocalsOK, StoredBounded, InFlight
  <2>5. QED
    BY <2>1, <2>2, <2>4 DEF SafeInv
<1>2. ASSUME SafeInv, NEW cpu \in Cpus, NEW cred \in Gids \X Uids, Enter(cpu, cred)
      PROVE  SafeInv'
  <2>1. LowHalf(cred) \in Uids /\ Arrive(cpu, LowHalf(cred))
    BY <1>2, LowHalfIsUid DEF Enter
  <2>2. /\ Flying \in Nat /\ Flying' = Flying + 1 /\ started \in Nat /\ started' = started + 1
        /\ UNCHANGED elementVars
    BY <1>2, <2>1, FlyingUp, FlyingNat DEF SafeInv, TypeOK, Arrive
  <2>3. ElementInv'
    BY <1>2, <2>2 DEF SafeInv, ElementInv, ElementTypeOK, Placed, Counted, elementVars
  <2>4. TypeOK'
    BY <1>2, <2>1, <2>3, ValueModNat DEF SafeInv, TypeOK, ElementInv, Enter, Arrive, Labels, Values
  <2>5. LocalsOK'
    <3>1. \A c \in Cpus : counter[c] \in Nat
      BY <1>2, ValueModNat DEF SafeInv, TypeOK, Values
    <3>2. \A c \in Cpus : c # cpu =>
             pc'[c] = pc[c] /\ uid'[c] = uid[c] /\ counter'[c] = counter[c]
      BY <1>2 DEF SafeInv, TypeOK, Enter, Arrive
    <3>3. pc'[cpu] = "lookup" /\ uid'[cpu] = LowHalf(cred) /\ counter'[cpu] = 0
      BY <1>2 DEF SafeInv, TypeOK, Enter, Arrive
    <3>4. QED
      BY <1>2, <2>1, <2>2, <3>1, <3>2, <3>3 DEF SafeInv, LocalsOK, InFlight
  <2>6. StoredBounded'
    <3>1. stored' = stored /\ \A e \in Elements : stored[e] \in Nat
      BY <1>2, <2>2, ValueModNat DEF SafeInv, ElementInv, ElementTypeOK, Values, elementVars
    <3>2. QED
      BY <1>2, <2>2, <3>1 DEF SafeInv, StoredBounded
  <2>7. QED
    BY <2>3, <2>4, <2>5, <2>6 DEF SafeInv
<1>3. ASSUME SafeInv, NEW cpu \in Cpus, Lookup(cpu)
      PROVE  SafeInv'
  <2>1. Flying' = Flying /\ uid[cpu] \in Uids
    BY <1>3, FlyingSame DEF SafeInv, LocalsOK, Lookup, PointTo, InFlight, Labels
  <2>2. ElementInv' /\ StoredBounded'
    BY <1>3, <2>1 DEF SafeInv, ElementInv, ElementTypeOK, Placed, Counted, StoredBounded,
                      Lookup, PointTo, elementVars
  <2>3. bpf_map_lookup_elem(counter_table, uid[cpu]) \in Elements \union {NULL}
    BY <1>3 DEF SafeInv, ElementInv, ElementTypeOK, bpf_map_lookup_elem
  <2>4. TypeOK'
    BY <1>3, <2>2, <2>3 DEF SafeInv, TypeOK, ElementInv, Lookup, PointTo, Labels
  <2>5. LocalsOK'
    BY <1>3, <2>1 DEF SafeInv, TypeOK, LocalsOK, Lookup, PointTo, InFlight
  <2>6. QED
    BY <2>2, <2>4, <2>5 DEF SafeInv
<1>4. ASSUME SafeInv, NEW cpu \in Cpus, Increment(cpu)
      PROVE  SafeInv'
  <2> DEFINE new == WrapInc(ReadOf(cpu), ValueMod)
  <2>1. Flying' = Flying /\ Flying \in Nat /\ started \in Nat /\ ValueMod \in Nat
    BY <1>4, FlyingSame, FlyingNat, ValueModNat DEF SafeInv, TypeOK, Increment, Count, InFlight, Labels
  <2>2. ElementInv' /\ StoredBounded'
    BY <1>4, <2>1 DEF SafeInv, ElementInv, ElementTypeOK, Placed, Counted, StoredBounded,
                      Increment, Count, elementVars
  <2>3. ReadOf(cpu) \in Values /\ ReadOf(cpu) + Flying <= started
    BY <1>4, ReadBounded DEF Increment, Count
  <2>4. new \in Values /\ new <= ReadOf(cpu) + 1
    BY <2>3, WrapIncBounds
  <2>5. counter' = [counter EXCEPT ![cpu] = new]
    BY <1>4 DEF Increment, Count
  <2> HIDE DEF new
  <2>6. new + Flying <= started + 1
    BY <2>1, <2>3, <2>4 DEF Values
  <2>7. TypeOK'
    BY <1>4, <2>2, <2>4, <2>5 DEF SafeInv, TypeOK, ElementInv, Increment, Count, Labels
  <2>8. LocalsOK'
    BY <1>4, <2>1, <2>5, <2>6 DEF SafeInv, TypeOK, LocalsOK, Increment, Count, InFlight
  <2>9. QED
    BY <2>2, <2>7, <2>8 DEF SafeInv
<1>5. ASSUME SafeInv, NEW cpu \in Cpus, Update(cpu)
      PROVE  SafeInv'
  <2>1. /\ uid[cpu] \in Uids /\ counter[cpu] \in Values /\ Complete(cpu) /\ ElementInv'
        /\ \/ Written(uid[cpu], counter[cpu]) /\ refused' = refused
           \/ UNCHANGED elementVars /\ refused' = refused \union {uid[cpu]}
    BY <1>5, UpdateEffect
  <2>2. /\ Flying \in Nat /\ Flying >= 1 /\ Flying' = Flying - 1
        /\ started \in Nat /\ started' = started
        /\ counter[cpu] + Flying <= started + 1 /\ counter[cpu] \in Nat
    <3>1. Flying >= 1 /\ Flying' = Flying - 1
      BY <1>5, <2>1, FlyingDown DEF SafeInv
    <3>2. /\ started \in Nat /\ started' = started
          /\ counter[cpu] + Flying <= started + 1 /\ counter[cpu] \in Nat
      BY <1>5, <2>1, ValueModNat DEF SafeInv, TypeOK, LocalsOK, Complete, Values
    <3>3. QED
      BY <3>1, <3>2, FlyingNat
  <2>3. TypeOK'
    BY <1>5, <2>1 DEF SafeInv, TypeOK, ElementInv, Complete, Labels
  <2>4. \A e \in Elements : stored'[e] = stored[e] \/ stored'[e] = counter[cpu]
    BY <2>1 DEF Written, elementVars
  <2>5. StoredBounded'
    <3>1. \A e \in Elements : stored[e] \in Nat /\ stored[e] + Flying <= started
      BY <1>5, ValueModNat DEF SafeInv, ElementInv, ElementTypeOK, Values, StoredBounded
    <3>2. QED
      BY <1>5, <2>2, <2>4, <3>1 DEF SafeInv, StoredBounded
  <2>6. LocalsOK'
    <3>1. \A c \in Cpus : counter[c] \in Nat
      BY <1>5, ValueModNat DEF SafeInv, TypeOK, Values
    <3>2. UNCHANGED <<uid, counter>> /\ pc' = [pc EXCEPT ![cpu] = "idle"]
      BY <2>1 DEF Complete
    <3>3. \A c \in Cpus : pc'[c] = pc[c] \/ pc'[c] = "idle"
      BY <1>5, <3>2 DEF SafeInv, TypeOK
    <3>4. QED
      BY <1>5, <2>2, <3>1, <3>2, <3>3 DEF SafeInv, LocalsOK, InFlight
  <2>7. QED
    BY <2>1, <2>3, <2>5, <2>6 DEF SafeInv
<1>6. ASSUME SafeInv, UNCHANGED vars
      PROVE  SafeInv'
  BY <1>6 DEF SafeInv, TypeOK, ElementInv, ElementTypeOK, Placed, Counted, LocalsOK, StoredBounded,
              Flying, InFlight, vars, elementVars
<1> QED
  BY <1>1, <1>2, <1>3, <1>4, <1>5, <1>6 DEF Next, Step

(***************************************************************************)
(* Type correctness of hello.                                              *)
(***************************************************************************)
THEOREM TypeCorrect == Spec => []TypeOK
<1>1. SafeInv => TypeOK
  BY DEF SafeInv
<1> QED BY SafeInvInductive, <1>1, PTL DEF Spec

(***************************************************************************)
(* Whichever elements are reused under whichever pointers, no interleaving *)
(* of any number of CPUs writes a count above the number of runs started.  *)
(***************************************************************************)
THEOREM CountsBounded == Spec => []BoundedByStarted
<1>1. SafeInv => BoundedByStarted
  <2> SUFFICES ASSUME SafeInv, NEW u \in DOMAIN counter_table
               PROVE  Contents[u] <= started
    BY DEF BoundedByStarted
  <2>1. counter_table[u] \in Elements /\ Contents[u] = stored[counter_table[u]]
    BY DEF SafeInv, ElementInv, ElementTypeOK, Contents
  <2>2. /\ stored[counter_table[u]] \in Nat /\ started \in Nat
        /\ stored[counter_table[u]] + Flying <= started
    BY <2>1, ValueModNat DEF SafeInv, TypeOK, ElementInv, ElementTypeOK, StoredBounded, Values
  <2>3. QED
    BY <2>1, <2>2, FlyingNat
<1> QED BY SafeInvInductive, <1>1, PTL DEF Spec

-----------------------------------------------------------------------------
(***************************************************************************)
(* The inductive invariant.  A user who ran and was not refused has an     *)
(* entry; and a zero, in the table or about to be written, means that the  *)
(* runs started have reached the width of the counter.                     *)
(***************************************************************************)
RanHasEntry == \A u \in Uids \ refused : runs[u] > 0 => u \in DOMAIN counter_table

ZeroMeansWrapped ==
    /\ \A u \in DOMAIN counter_table : stored[counter_table[u]] = 0 => started >= ValueMod
    /\ \A cpu \in Cpus : pc[cpu] = "update" /\ counter[cpu] = 0 => started >= ValueMod

TraceInv == SafeInv /\ RanHasEntry /\ ZeroMeansWrapped

LEMMA TraceInvInit == Init => TraceInv
BY SafeInvInductive DEF Init, ElementInit, TraceInv, RanHasEntry, ZeroMeansWrapped

LEMMA TraceInvStep == TraceInv /\ [Next]_vars => TraceInv'
<1> SUFFICES ASSUME TraceInv, [Next]_vars PROVE RanHasEntry' /\ ZeroMeansWrapped'
  BY SafeInvInductive DEF TraceInv
<1>1. /\ runs \in [Uids -> Nat] /\ counter \in [Cpus -> Values] /\ ValueMod \in Nat /\ ValueMod >= 2
      /\ pc \in [Cpus -> Labels] /\ started \in Nat
  BY ValueModNat DEF TraceInv, SafeInv, TypeOK
<1>2. ASSUME NEW cpu \in Cpus, NEW cred \in Gids \X Uids, Enter(cpu, cred)
      PROVE  RanHasEntry' /\ ZeroMeansWrapped'
  BY <1>1, <1>2 DEF TraceInv, RanHasEntry, ZeroMeansWrapped, Enter, Arrive, elementVars
<1>3. ASSUME NEW cpu \in Cpus, Lookup(cpu)
      PROVE  RanHasEntry' /\ ZeroMeansWrapped'
  BY <1>1, <1>3 DEF TraceInv, RanHasEntry, ZeroMeansWrapped, Lookup, PointTo, elementVars
<1>4. ASSUME NEW cpu \in Cpus, Increment(cpu)
      PROVE  RanHasEntry' /\ ZeroMeansWrapped'
  <2>1. /\ pc[cpu] = "increment" /\ counter'[cpu] = WrapInc(ReadOf(cpu), ValueMod)
        /\ UNCHANGED <<counter_table, stored, uid, started, runs, refused>>
        /\ pc' = [pc EXCEPT ![cpu] = "update"]
        /\ \A other \in Cpus : other # cpu => counter'[other] = counter[other]
    BY <1>1, <1>4 DEF Increment, Count, elementVars
  <2>2. ReadOf(cpu) \in Nat /\ ReadOf(cpu) + Flying <= started
    BY <2>1, ReadBounded, ValueModNat DEF TraceInv, Values
  <2>3. Flying \in Nat /\ Flying >= 1
    BY <2>1, FlyingNat, FlyingPositive DEF InFlight
  <2>4. counter'[cpu] = 0 => ReadOf(cpu) = ValueMod - 1
    BY <1>1, <2>1, <2>2 DEF WrapInc
  <2>5. counter'[cpu] = 0 => started >= ValueMod
    BY <1>1, <2>2, <2>3, <2>4
  <2>6. QED
    BY <1>1, <2>1, <2>5 DEF TraceInv, RanHasEntry, ZeroMeansWrapped
<1>5. ASSUME NEW cpu \in Cpus, Update(cpu)
      PROVE  RanHasEntry' /\ ZeroMeansWrapped'
  <2> DEFINE u == uid[cpu]
  <2>1. /\ u \in Uids /\ counter[cpu] \in Values /\ Complete(cpu)
        /\ \/ Written(u, counter[cpu]) /\ refused' = refused
           \/ UNCHANGED elementVars /\ refused' = refused \union {u}
    BY <1>5, UpdateEffect DEF TraceInv
  <2>2. /\ pc[cpu] = "update" /\ runs' = [runs EXCEPT ![u] = @ + 1] /\ UNCHANGED <<counter, started>>
        /\ pc' = [pc EXCEPT ![cpu] = "idle"]
    BY <2>1 DEF Complete
  <2> HIDE DEF u
  <2>3. \A w \in Uids : w # u => runs'[w] = runs[w]
    BY <1>1, <2>1, <2>2
  <2>4. \A other \in Cpus : pc'[other] = "update" /\ counter'[other] = 0 => started' >= ValueMod
    BY <1>1, <2>2 DEF TraceInv, ZeroMeansWrapped
  <2>5. CASE UNCHANGED elementVars /\ refused' = refused \union {u}
    BY <2>2, <2>3, <2>4, <2>5 DEF TraceInv, RanHasEntry, ZeroMeansWrapped, elementVars
  <2>6. CASE Written(u, counter[cpu]) /\ refused' = refused
    <3>1. RanHasEntry'
      BY <2>3, <2>6 DEF TraceInv, RanHasEntry, Written
    <3>2. \A w \in DOMAIN counter_table' : stored'[counter_table'[w]] = 0 => started' >= ValueMod
      BY <2>2, <2>6 DEF TraceInv, ZeroMeansWrapped, Written
    <3>3. QED
      BY <2>4, <3>1, <3>2 DEF ZeroMeansWrapped
  <2>7. QED
    BY <2>1, <2>5, <2>6
<1>6. CASE UNCHANGED vars
  BY <1>6 DEF TraceInv, RanHasEntry, ZeroMeansWrapped, vars, elementVars
<1>7. QED
  BY <1>2, <1>3, <1>4, <1>5, <1>6 DEF Next, Step

(***************************************************************************)
(* However many CPUs race on a user's entry, the user who ran is not       *)
(* forgotten before the counter can have wrapped.                          *)
(***************************************************************************)
THEOREM RaceKeepsSome == Spec => []NeverForgotten
<1>1. TraceInv => NeverForgotten
  <2> SUFFICES ASSUME TraceInv, started < ValueMod, NEW u \in Uids \ refused, runs[u] > 0
               PROVE  CountOf(u) >= 1
    BY DEF NeverForgotten
  <2>1. u \in DOMAIN counter_table /\ stored[counter_table[u]] \in Values
    BY DEF TraceInv, SafeInv, ElementInv, ElementTypeOK, RanHasEntry
  <2>2. stored[counter_table[u]] # 0
    BY <2>1, ValueModNat DEF TraceInv, SafeInv, TypeOK, ZeroMeansWrapped
  <2>3. QED
    BY <2>1, <2>2, ValueModNat DEF CountOf, Values
<1>2. QED
  BY <1>1, TraceInvInit, TraceInvStep, PTL DEF Spec

-----------------------------------------------------------------------------
(***************************************************************************)
(* A user no two of whose runs overlap is served by one CPU at a time, so  *)
(* nothing changes their entry between the lookup and the update.          *)
(***************************************************************************)
LEMMA ExactInvInductive ==
    /\ Init => ExactInv
    /\ ExactInv /\ [Next]_vars => ExactInv'
<1>1. Init => ExactInv
  <2> SUFFICES ASSUME Init PROVE ExactInv
    OBVIOUS
  <2>1. SafeInv
    BY SafeInvInductive
  <2>2. OverlapsMarked /\ ReadsCurrent
    BY DEF Init, OverlapsMarked, ReadsCurrent, InFlight
  <2>3. ExactWithoutOverlap
    BY DEF Init, ElementInit, ExactWithoutOverlap, CountOf
  <2> QED BY <2>1, <2>2, <2>3 DEF ExactInv
<1>2. ASSUME ExactInv, NEW cpu \in Cpus, NEW cred \in Gids \X Uids, Enter(cpu, cred)
      PROVE  ExactInv'
  <2>1. SafeInv'
    BY <1>2, SafeInvInductive DEF ExactInv, Next
  <2>2. LowHalf(cred) \in Uids
    BY LowHalfIsUid
  <2>3. OverlapsMarked'
    BY <1>2, <2>2 DEF ExactInv, SafeInv, TypeOK, OverlapsMarked, Enter, Arrive, InFlight
  <2>4. ReadsCurrent'
    BY <1>2, <2>2 DEF ExactInv, SafeInv, TypeOK, ReadsCurrent, Enter, Arrive, CountOf, elementVars
  <2>5. ExactWithoutOverlap'
    BY <1>2 DEF ExactInv, ExactWithoutOverlap, Enter, Arrive, CountOf, elementVars
  <2> QED BY <2>1, <2>3, <2>4, <2>5 DEF ExactInv
<1>3. ASSUME ExactInv, NEW cpu \in Cpus, Lookup(cpu)
      PROVE  ExactInv'
  <2>1. SafeInv'
    BY <1>3, SafeInvInductive DEF ExactInv, Next, Step
  <2>2. OverlapsMarked'
    BY <1>3 DEF ExactInv, SafeInv, TypeOK, OverlapsMarked, Lookup, PointTo, InFlight
  <2>4. ReadsCurrent'
    BY <1>3 DEF ExactInv, SafeInv, TypeOK, ReadsCurrent, Lookup, PointTo, CountOf, elementVars
  <2>5. ExactWithoutOverlap'
    BY <1>3 DEF ExactInv, ExactWithoutOverlap, Lookup, PointTo, CountOf, elementVars
  <2> QED BY <2>1, <2>2, <2>4, <2>5 DEF ExactInv
<1>4. ASSUME ExactInv, NEW cpu \in Cpus, Increment(cpu)
      PROVE  ExactInv'
  <2>1. SafeInv'
    BY <1>4, SafeInvInductive DEF ExactInv, Next, Step
  <2>2. OverlapsMarked'
    BY <1>4 DEF ExactInv, SafeInv, TypeOK, OverlapsMarked, Increment, Count, InFlight
  <2>3. uid[cpu] \notin overlapped => ReadOf(cpu) = CountOf(uid[cpu])
    BY <1>4, NullIsNoElement
       DEF ExactInv, SafeInv, ElementInv, ElementTypeOK, Elements, LocalsOK, ReadsCurrent,
           Increment, Count, ReadOf, CountOf, bpf_map_lookup_elem
  <2>4. ReadsCurrent'
    BY <1>4, <2>3 DEF ExactInv, SafeInv, TypeOK, ReadsCurrent, Increment, Count, CountOf, elementVars
  <2>5. ExactWithoutOverlap'
    BY <1>4 DEF ExactInv, ExactWithoutOverlap, Increment, Count, CountOf, elementVars
  <2> QED BY <2>1, <2>2, <2>4, <2>5 DEF ExactInv
<1>5. ASSUME ExactInv, NEW cpu \in Cpus, Update(cpu)
      PROVE  ExactInv'
  <2> DEFINE u == uid[cpu]
  <2>1. SafeInv'
    BY <1>5, SafeInvInductive DEF ExactInv, Next, Step
  <2>2. /\ u \in Uids /\ counter[cpu] \in Values /\ Complete(cpu)
        /\ \/ Written(u, counter[cpu]) /\ refused' = refused
           \/ UNCHANGED elementVars /\ refused' = refused \union {u}
    BY <1>5, UpdateEffect DEF ExactInv
  <2>3. OverlapsMarked'
    BY <1>5, <2>2 DEF ExactInv, SafeInv, TypeOK, OverlapsMarked, Complete, InFlight
  <2>4. \A w : w # u =>
           /\ bpf_map_lookup_elem(counter_table, w)' = bpf_map_lookup_elem(counter_table, w)
           /\ CountOf(w)' = CountOf(w)
    <3>1. CASE UNCHANGED elementVars
      BY <3>1 DEF bpf_map_lookup_elem, CountOf, elementVars
    <3>2. CASE Written(u, counter[cpu])
      BY <3>2 DEF Written, bpf_map_lookup_elem, CountOf
    <3>3. QED
      BY <2>2, <3>1, <3>2
  <2>5. ReadsCurrent'
    <3> SUFFICES ASSUME NEW c \in Cpus, c # cpu, uid[c] \notin overlapped, InFlight(c)
                 PROVE  /\ pc[c] = "increment"
                              => p[c] = bpf_map_lookup_elem(counter_table', uid[c])
                        /\ pc[c] = "update" => counter[c] = WrapInc(CountOf(uid[c])', ValueMod)
      BY <1>5, <2>2 DEF ExactInv, SafeInv, TypeOK, ReadsCurrent, Complete, InFlight, CountOf
    <3>1. uid[c] # u
      BY <1>5, <2>2 DEF ExactInv, OverlapsMarked, Complete, InFlight
    <3>2. /\ bpf_map_lookup_elem(counter_table', uid[c]) = bpf_map_lookup_elem(counter_table, uid[c])
          /\ CountOf(uid[c])' = CountOf(uid[c])
      BY <2>2, <2>4, <3>1 DEF Complete, bpf_map_lookup_elem, CountOf
    <3>3. QED
      BY <1>5, <3>2 DEF ExactInv, ReadsCurrent
  <2>6. ExactWithoutOverlap'
    <3> SUFFICES ASSUME NEW w \in Uids, w \notin overlapped, w \notin refused',
                        runs'[w] < ValueMod
                 PROVE  CountOf(w)' = runs'[w]
      BY <1>5, <2>2 DEF ExactWithoutOverlap, Complete
    <3>1. w \notin refused
      BY <2>2
    <3>2. CASE w # u
      BY <1>5, <2>2, <2>4, <3>1, <3>2
         DEF ExactInv, SafeInv, TypeOK, ExactWithoutOverlap, Complete
    <3>3. CASE w = u
      <4>1. Written(u, counter[cpu])
        BY <2>2, <3>3
      <4>2. CountOf(w)' = counter[cpu]
        BY <4>1, <3>3 DEF CountOf, Written
      <4>3. counter[cpu] = WrapInc(CountOf(u), ValueMod)
        BY <1>5, <2>2, <3>3 DEF ExactInv, ReadsCurrent, Complete
      <4>4. runs[u] \in Nat /\ runs'[u] = runs[u] + 1
        BY <1>5, <2>2 DEF ExactInv, SafeInv, TypeOK, Complete
      <4>5. runs[u] < ValueMod
        BY <4>4, <3>3, ValueModNat
      <4>6. CountOf(u) = runs[u]
        BY <1>5, <2>2, <3>1, <3>3, <4>5 DEF ExactInv, ExactWithoutOverlap
      <4>7. QED
        BY <4>2, <4>3, <4>4, <4>6, <3>3, ValueModNat DEF WrapInc
    <3>4. QED
      BY <3>2, <3>3
  <2> QED BY <2>1, <2>3, <2>5, <2>6 DEF ExactInv
<1>6. ASSUME ExactInv, UNCHANGED vars
      PROVE  ExactInv'
  <2>1. SafeInv'
    BY <1>6, SafeInvInductive DEF ExactInv
  <2> QED
    BY <1>6, <2>1 DEF ExactInv, OverlapsMarked, ReadsCurrent, ExactWithoutOverlap,
                      InFlight, CountOf, vars, elementVars
<1> QED
  BY <1>1, <1>2, <1>3, <1>4, <1>5, <1>6 DEF Next, Step

(***************************************************************************)
(* Users do not disturb each other: whatever the other CPUs do, a user     *)
(* whose own execve calls never overlap is counted exactly by hello.       *)
(***************************************************************************)
THEOREM ExactCount == Spec => []ExactWithoutOverlap
<1>1. ExactInv => ExactWithoutOverlap
  BY DEF ExactInv
<1> QED BY ExactInvInductive, <1>1, PTL DEF Spec

-----------------------------------------------------------------------------
(***************************************************************************)
(* The table never exceeds max_entries, and once it has refused a user it  *)
(* is full for good, so that user never gets an entry.                     *)
(***************************************************************************)
LEMMA FullInvInductive ==
    /\ Init => FullInv
    /\ FullInv /\ [Next]_vars => FullInv'
<1>1. Init => FullInv
  <2> SUFFICES ASSUME Init PROVE FullInv
    OBVIOUS
  <2>1. DOMAIN counter_table = {} /\ refused = {}
    BY DEF Init, ElementInit
  <2>2. Cardinality(DOMAIN counter_table) = 0
    BY <2>1, FS_EmptySet
  <2>3. QED
    BY <2>1, <2>2, SafeInvInductive, MaxEntriesNat DEF FullInv, RefusedStayUncounted
<1>2. ASSUME FullInv, [Next]_vars, UNCHANGED <<counter_table, refused>>
      PROVE  FullInv'
  BY <1>2, SafeInvInductive DEF FullInv, RefusedStayUncounted
<1>3. ASSUME FullInv, NEW cpu \in Cpus, Update(cpu)
      PROVE  FullInv'
  <2> DEFINE u == uid[cpu]
             D == DOMAIN counter_table
  <2>1. SafeInv' /\ u \in Uids /\ counter[cpu] \in Values
    BY <1>3, SafeInvInductive, UpdateEffect DEF FullInv, Next, Step
  <2>2. /\ Cardinality(D) \in Nat /\ Cardinality(D') \in Nat
        /\ Cardinality(D') <= MaxEntries
    <3>1. Counted /\ Counted'
      BY <1>3, <2>1 DEF FullInv, SafeInv, ElementInv
    <3>2. /\ Cardinality(D) \in Nat /\ Cardinality(D') \in Nat
          /\ Cardinality(free') \in Nat
          /\ Cardinality(free') + Cardinality(D') = MaxEntries
      BY <3>1, FS_CardinalityType DEF Counted, MaxEntries
    <3>3. QED
      BY <3>2, MaxEntriesNat
  <2>3. CASE Replace(cpu, u, counter[cpu]) /\ UNCHANGED refused
    <3>1. D' = D
      BY <2>3 DEF Replace
    <3>2. QED
      BY <1>3, <2>1, <2>3, <3>1 DEF FullInv, RefusedStayUncounted
  <2>4. CASE Insert(u, counter[cpu]) /\ UNCHANGED refused
    <3>1. Cardinality(D) < MaxEntries
      BY <1>3, <2>1, <2>4, InsertEffect DEF FullInv, SafeInv
    <3>2. refused = {}
      BY <1>3, <2>2, <3>1, MaxEntriesNat DEF FullInv, RefusedStayUncounted
    <3>3. QED
      BY <2>1, <2>2, <2>4, <3>2 DEF FullInv, RefusedStayUncounted
  <2>5. CASE Refuses(u) /\ UNCHANGED elementVars /\ refused' = refused \union {u}
    <3>1. u \notin D /\ Cardinality(D) = MaxEntries /\ D' = D
      BY <1>3, <2>5, RefusesWhenFull DEF FullInv, SafeInv, elementVars
    <3>2. QED
      BY <1>3, <2>1, <2>2, <2>5, <3>1 DEF FullInv, RefusedStayUncounted
  <2>6. QED
    BY <1>3, <2>3, <2>4, <2>5 DEF Update, WriteAt
<1>4. QED
  BY <1>1, <1>2, <1>3
     DEF Next, Step, Enter, Arrive, Lookup, PointTo, Increment, Count, vars, elementVars

(***************************************************************************)
(* The return value hello ignores: updates are refused only by a full      *)
(* table, and a user refused once is never counted.                        *)
(***************************************************************************)
THEOREM RefusedForever == Spec => []RefusedStayUncounted
<1>1. FullInv => RefusedStayUncounted
  BY DEF FullInv
<1> QED BY FullInvInductive, <1>1, PTL DEF Spec

(***************************************************************************)
(* A step of hello changes no count but that of the user whose run it      *)
(* completes, and removes none: the element it fills is linked for nobody. *)
(***************************************************************************)
THEOREM OwnEntryOnly == Spec => OnlyOwnEntry
<1> DEFINE Own == \A u \in DOMAIN counter_table :
                    /\ u \in DOMAIN counter_table'
                    /\ Contents'[u] # Contents[u] => runs'[u] = runs[u] + 1
<1>1. ASSUME SafeInv, [Next]_vars
      PROVE  [Own]_vars
  <2>1. CASE UNCHANGED elementVars
    BY <2>1 DEF Contents, elementVars
  <2>2. ASSUME NEW cpu \in Cpus, Update(cpu)
        PROVE  Own
    <3>1. /\ uid[cpu] \in Uids /\ Complete(cpu) /\ runs \in [Uids -> Nat]
          /\ Written(uid[cpu], counter[cpu]) \/ UNCHANGED elementVars
      BY <1>1, <2>2, UpdateEffect DEF SafeInv, TypeOK
    <3>2. CASE Written(uid[cpu], counter[cpu])
      BY <3>1, <3>2 DEF Written, Contents, Complete
    <3>3. CASE UNCHANGED elementVars
      BY <3>3 DEF Contents, elementVars
    <3>4. QED
      BY <3>1, <3>2, <3>3
  <2> QED
    BY <1>1, <2>1, <2>2 DEF Next, Step, Enter, Arrive, Lookup, PointTo, Increment, Count, vars
<1> QED
  BY <1>1, SafeInvInductive, PTL DEF Spec, OnlyOwnEntry

(***************************************************************************)
(* hello implements the abstract counter of UserTally, the elements and    *)
(* their reuse hidden: entering is the abstract Start, the update is the   *)
(* abstract Run, every other step is invisible.                            *)
(***************************************************************************)
THEOREM TallyRefinement == Spec => ImplementsTally
<1>1. Init => Tally!TallyInit
  BY DEF Init, ElementInit, Contents, Tally!TallyInit
<1>2. ASSUME ExactInv, [Next]_vars
      PROVE  [Tally!TallyNext]_(Tally!tallyVars)
  <2>1. ASSUME NEW cpu \in Cpus, NEW cred \in Gids \X Uids, Enter(cpu, cred)
        PROVE  Tally!TallyNext
    <3>1. LowHalf(cred) \in Uids
      BY LowHalfIsUid
    <3>2. Contents' = Contents
      BY <2>1 DEF Enter, Arrive, Contents, elementVars
    <3>3. Tally!Start(LowHalf(cred))
      BY <2>1, <3>2 DEF Enter, Arrive, Tally!Start
    <3>4. QED
      BY <3>1, <3>3 DEF Tally!TallyNext
  <2>2. ASSUME NEW cpu \in Cpus, Update(cpu)
        PROVE  Tally!TallyNext
    <3> DEFINE u == uid[cpu]
    <3>1. u \in Uids /\ counter[cpu] \in Values /\ Complete(cpu) /\ SafeInv /\ ElementInv
      BY <1>2, <2>2, UpdateEffect DEF ExactInv, SafeInv
    <3>2. counter[cpu] \in 0 .. started
      <4>1. Flying \in Nat /\ Flying >= 1
        BY <3>1, FlyingNat, FlyingDown DEF SafeInv
      <4>2. /\ counter[cpu] \in Nat /\ started \in Nat
            /\ counter[cpu] + Flying <= started + 1
        BY <3>1, ValueModNat DEF SafeInv, TypeOK, LocalsOK, Complete, Values
      <4>3. QED
        BY <4>1, <4>2
    <3>3. u \notin overlapped => counter[cpu] = Tally!WrapInc(Tally!CountOf(u), ValueMod)
      BY <1>2, <3>1 DEF ExactInv, ReadsCurrent, Complete, WrapInc, CountOf, Contents,
                        Tally!WrapInc, Tally!CountOf
    <3>4. runs' = [runs EXCEPT ![u] = @ + 1] /\ UNCHANGED <<started, overlapped>>
      BY <3>1 DEF Complete
    <3>5. DOMAIN Contents = DOMAIN counter_table
      BY DEF Contents
    <3>6. CASE Written(u, counter[cpu]) /\ Tally!HasRoom(u)
      <4>1. Contents' = Tally!bpf_map_update_elem(Contents, u, counter[cpu])
        BY <3>6 DEF Written, Contents, Tally!bpf_map_update_elem
      <4>2. Tally!Run(u)
        BY <3>2, <3>3, <3>4, <3>6, <4>1 DEF Tally!Run
      <4>3. QED
        BY <3>1, <4>2 DEF Tally!TallyNext
    <3>7. CASE Replace(cpu, u, counter[cpu])
      BY <3>1, <3>5, <3>6, <3>7, ReplaceEffect DEF Tally!HasRoom, Replace
    <3>8. CASE Insert(u, counter[cpu])
      BY <3>1, <3>5, <3>6, <3>8, InsertEffect
         DEF Tally!HasRoom, Cardinality, Tally!Cardinality
    <3>9. CASE Refuses(u) /\ UNCHANGED elementVars
      <4>1. u \notin DOMAIN counter_table /\ ~(Cardinality(DOMAIN counter_table) < MaxEntries)
        BY <3>1, <3>9, RefusesWhenFull, MaxEntriesNat
      <4>2. ~Tally!HasRoom(u)
        BY <3>5, <4>1 DEF Tally!HasRoom, Cardinality, Tally!Cardinality
      <4>3. Contents' = Contents
        BY <3>9 DEF Contents, elementVars
      <4>4. Tally!Run(u)
        BY <3>4, <4>2, <4>3 DEF Tally!Run
      <4>5. QED
        BY <3>1, <4>4 DEF Tally!TallyNext
    <3>10. QED
      BY <2>2, <3>7, <3>8, <3>9 DEF Update, WriteAt
  <2>3. CASE UNCHANGED <<elementVars, started, runs, overlapped>>
    BY <2>3 DEF Contents, elementVars, Tally!tallyVars
  <2> QED
    BY <1>2, <2>1, <2>2, <2>3 DEF Next, Step, Lookup, PointTo, Increment, Count, vars
<1> QED
  BY <1>1, <1>2, ExactInvInductive, PTL DEF Spec, ImplementsTally, Tally!TallySpec
====
