---- MODULE HelloVerifierProofs ----
(***************************************************************************)
(* Theorems about HelloVerifier, for any number of CPUs, users, ring       *)
(* records and runs.                                                       *)
(***************************************************************************)
EXTENDS HelloVerifier, SequenceTheorems, TLAPS

-----------------------------------------------------------------------------
\* The message of a user, from the map or the global one, is a message.
LEMMA MessageType == message \in Messages
BY DEF message, Messages

\* c++ stays within the width of c.
LEMMA CIncrement == \A x \in 0 .. CMod - 1 : WrapInc(x, CMod) \in 0 .. CMod - 1
BY CModNat DEF WrapInc

\* What one output appends to a ring is a sequence of records.
LEMMA OfferType ==
    ASSUME NEW n \in Nat, NEW seq \in Nat \ {0}, NEW e \in Events
    PROVE  Offer(n, seq, e) \in Seq(Records)
<1>1. Sample(e, seq) \in Records
  BY DEF Sample, Records, Samples
<1>2. LostRecord(n, seq - 1) \in Records
  BY DEF LostRecord, Records, LostRecords
<1>3. QED
  BY <1>1, <1>2 DEF Offer

\* What is left of a ring is a ring.
LEMMA ConsumeType ==
    ASSUME NEW s \in Seq(Records), NEW n \in Nat
    PROVE  Consume(s, n) \in Seq(Records)
BY DEF Consume

LEMMA TypeInit == Init => TypeOK
<1> SUFFICES ASSUME Init PROVE TypeOK
  OBVIOUS
<1> USE DEF Init, SharedInit, KernelInit, UserInit
<1>1. SharedTypeOK
  <2>1. DOMAIN my_config = {} /\ my_config \in [DOMAIN my_config -> Messages]
    OBVIOUS
  <2>2. ring \in [Cpus -> Seq(Records)]
    OBVIOUS
  <2>3. QED
    BY <2>1, <2>2 DEF SharedTypeOK
<1>2. KernelTypeOK
  BY MessageType, CModNat, ConfigUidIsUid, MaxFiresNat DEF KernelTypeOK, KLabels, Events, NoEvent
<1>3. UserTypeOK
  BY DEF UserTypeOK, ULabels, EINTR, EIO
<1>4. QED
  BY <1>1, <1>2, <1>3 DEF TypeOK

LEMMA KernelType == 
    ASSUME TypeOK, KernelNext, UNCHANGED userVars
    PROVE  TypeOK'
<1>1. UserTypeOK'
  BY DEF TypeOK, UserTypeOK, userVars
<1> USE DEF TypeOK, KernelTypeOK, KLabels, goto, sharedVars, mapVars, ringVars
<1>2. ASSUME NEW cpu \in Cpus, NEW uid \in Uids, Fire(cpu, uid)
      PROVE  SharedTypeOK' /\ KernelTypeOK'
  <2>1. fired + 1 \in 0 .. MaxFires
    BY <1>2, MaxFiresNat DEF Fire, Start
  <2>2. [id |-> fired + 1, uid |-> uid, counter |-> c, message |-> message] \in Events
    BY <2>1, MessageType DEF Events
  <2>3. QED
    BY <1>2, <2>1, <2>2 DEF Fire, Start, SharedTypeOK
<1>3. ASSUME NEW cpu \in Cpus, StoreAndCopy(cpu)
      PROVE  SharedTypeOK' /\ KernelTypeOK'
  <2>1. data[cpu] \in Events
    BY DEF KernelTypeOK
  <2>2. WrapInc(data[cpu].counter, CMod) \in 0 .. CMod - 1
    BY <2>1, CIncrement DEF Events
  <2> DEFINE p == bpf_map_lookup_elem(my_config, data[cpu].uid)
             m == IF p # NULL THEN p ELSE message
  <2>3. m \in Messages
    BY MessageType DEF SharedTypeOK, bpf_map_lookup_elem
  <2>4. data' = [data EXCEPT ![cpu] = [data[cpu] EXCEPT !.message = m]]
    BY <1>3 DEF StoreAndCopy
  <2>5. [data[cpu] EXCEPT !.message = m] \in Events
    BY <2>1, <2>3 DEF Events
  <2> HIDE DEF m
  <2>6. QED
    BY <1>3, <2>2, <2>4, <2>5 DEF StoreAndCopy, SharedTypeOK
<1>4. ASSUME NEW cpu \in Cpus, CheckMessage(cpu) \/ CheckData(cpu)
      PROVE  SharedTypeOK' /\ KernelTypeOK'
  BY <1>4 DEF CheckMessage, CheckData, Check, SharedTypeOK
<1>5. ASSUME NEW cpu \in Cpus, ReadMessage(cpu) \/ ReadData(cpu)
      PROVE  SharedTypeOK' /\ KernelTypeOK'
  <2>1. index[cpu] \in Nat
    BY CModNat
  <2>2. QED
    BY <1>5, <2>1 DEF ReadMessage, ReadData, ReadAt, SharedTypeOK
<1>6. ASSUME NEW cpu \in Cpus, Output(cpu)
      PROVE  SharedTypeOK' /\ KernelTypeOK'
  <2> DEFINE records == Offer(lost[cpu], offered[cpu] + 1, data[cpu])
  <2>0. /\ ring \in [Cpus -> Seq(Records)]
        /\ lost \in [Cpus -> Nat] /\ offered \in [Cpus -> Nat]
        /\ unbuffered \in Nat
    BY DEF SharedTypeOK
  <2>1. lost[cpu] \in Nat /\ offered[cpu] + 1 \in Nat \ {0} /\ data[cpu] \in Events
    BY DEF SharedTypeOK
  <2>2. records \in Seq(Records)
    BY <2>1, OfferType
  <2> HIDE DEF records
  <2>3. ring[cpu] \o records \in Seq(Records)
    BY <2>2 DEF SharedTypeOK
  <2>4. /\ ring' \in [Cpus -> Seq(Records)]
        /\ lost' \in [Cpus -> Nat] /\ offered' \in [Cpus -> Nat]
        /\ unbuffered' \in Nat
    <3> HIDE DEF TypeOK, KernelTypeOK
    <3>1. \/ UNCHANGED ring
          \/ ring' = [ring EXCEPT ![cpu] = ring[cpu] \o records]
      BY <1>6 DEF Output, records
    <3>2. ring' \in [Cpus -> Seq(Records)]
      BY <2>0, <2>3, <3>1
    <3>3. lost' \in [Cpus -> Nat]
      <4>1. \/ UNCHANGED lost
            \/ lost' = [lost EXCEPT ![cpu] = 0]
            \/ lost' = [lost EXCEPT ![cpu] = lost[cpu] + 1]
        BY <1>6 DEF Output
      <4>2. QED
        BY <2>1, <2>0, <4>1
    <3>4. offered' \in [Cpus -> Nat]
      <4>1. UNCHANGED offered \/ offered' = [offered EXCEPT ![cpu] = offered[cpu] + 1]
        BY <1>6 DEF Output
      <4>2. QED
        BY <2>1, <2>0, <4>1
    <3>5. unbuffered' \in Nat
      <4>1. UNCHANGED unbuffered \/ unbuffered' = unbuffered + 1
        BY <1>6 DEF Output
      <4>2. QED
        BY <2>0, <4>1
    <3>6. QED
      BY <3>2, <3>3, <3>4, <3>5
  <2>5. QED
    BY <1>6, <2>4 DEF Output, SharedTypeOK
<1>7. QED
  BY <1>1, <1>2, <1>3, <1>4, <1>5, <1>6 DEF KernelNext, KernelStep


LEMMA UserType ==
    ASSUME TypeOK, UserNext, UNCHANGED kernelVars
    PROVE  TypeOK'
<1>1. KernelTypeOK'
  BY DEF TypeOK, KernelTypeOK, kernelVars
<1> SUFFICES SharedTypeOK' /\ UserTypeOK'
  BY <1>1 DEF TypeOK
<1> USE DEF TypeOK, SharedTypeOK, UserTypeOK, ULabels, EINTR, EIO, sharedVars, mapVars, ringVars
<1>2. CASE Open \/ Load \/ Attach
  BY <1>2 DEF Open, Load, Attach, destroy, return
<1>3. CASE Configure
  <2>1. ASSUME NEW nul \in BOOLEAN,
               my_config' = bpf_map_update_elem(my_config, ConfigUid,
                               [text |-> "hello Liz", terminated |-> nul])
        PROVE  DOMAIN my_config' \subseteq Uids /\ my_config' \in [DOMAIN my_config' -> Messages]
    <3>1. [text |-> "hello Liz", terminated |-> nul] \in Messages
      BY <2>1 DEF Messages
    <3>2. QED
      BY <2>1, <3>1, ConfigUidIsUid DEF bpf_map_update_elem
  <2>2. DOMAIN my_config' \subseteq Uids /\ my_config' \in [DOMAIN my_config' -> Messages]
    BY <1>3, <2>1 DEF Configure
  <2>3. QED
    BY <1>3, <2>2 DEF Configure
<1>4. CASE \E cpu \in Cpus : NewStore(cpu)
  BY <1>4 DEF NewStore, StoreFor
<1>5. ASSUME ring' = [cpu \in Cpus |-> <<>>]
      PROVE  ring' \in [Cpus -> Seq(Records)]
  BY <1>5
<1>6. CASE NewFails \/ Free \/ Sigint
  <2>1. ring' \in [Cpus -> Seq(Records)]
    BY <1>5, <1>6 DEF NewFails, NewGivesUp, Free, Sigint
  <2>2. QED
    BY <1>6, <2>1 DEF NewFails, NewGivesUp, Free, Sigint, destroy, return
<1>7. CASE PollWait \/ PollInterrupted \/ PollFails
  BY <1>7 DEF PollWait, PollInterrupted, PollFails, LeaveLoop
<1>8. ASSUME NEW cpu \in Cpus, ReadRecords(cpu)
      PROVE  SharedTypeOK' /\ UserTypeOK'
  <2>1. ring[cpu] \in Seq(Records) /\ Len(ring[cpu]) \in Nat
    OBVIOUS
  <2>2. delivered[cpu] \o ring[cpu] \in Seq(Records)
    BY <2>1
  <2>3. QED
    BY <1>8, <2>1, <2>2 DEF ReadRecords
<1>9. ASSUME NEW cpu \in Cpus, AdvanceTail(cpu)
      PROVE  SharedTypeOK' /\ UserTypeOK'
  <2>1. Consume(ring[cpu], taken[cpu]) \in Seq(Records)
    BY ConsumeType
  <2>2. QED
    BY <1>9, <2>1 DEF AdvanceTail, Advance
<1>10. CASE Destroy
  <2>1. -err \in {0, 4, 5}
    OBVIOUS
  <2>2. QED
    BY <1>10, <2>1 DEF Destroy, destroy, return
<1>11. QED
  BY <1>2, <1>3, <1>4, <1>6, <1>7, <1>8, <1>9, <1>10 DEF UserNext, Startup, Polling, Cleanup


\* The state of the two halves stays well typed.
LEMMA TypeStep == TypeOK /\ [Next]_vars => TypeOK'
<1>1. TypeOK /\ UNCHANGED vars => TypeOK'
  BY DEF TypeOK, SharedTypeOK, KernelTypeOK, UserTypeOK, vars, sharedVars, mapVars, ringVars,
         kernelVars, userVars
<1>2. QED
  BY <1>1, KernelType, UserType DEF Next

(***************************************************************************)
(* Type correctness of hello-verifier, both halves together.               *)
(***************************************************************************)
THEOREM HelloTypeCorrect == Spec => []TypeOK
BY TypeInit, TypeStep, PTL DEF Spec

-----------------------------------------------------------------------------
(***************************************************************************)
(* Array bounds.  A run about to read an array holds an index below the    *)
(* size: the register that was compared, which no other CPU can change.    *)
(***************************************************************************)
CheckedIndex ==
    \A cpu \in Cpus : kpc[cpu] \in {"read_message", "read_data"} => index[cpu] < MsgSize

BoundsInv == TypeOK /\ CheckedIndex /\ InBounds

LEMMA BoundsStep == BoundsInv /\ [Next]_vars => BoundsInv'
<1> SUFFICES ASSUME BoundsInv, [Next]_vars PROVE BoundsInv'
  OBVIOUS
<1>1. TypeOK'
  BY TypeStep DEF BoundsInv
<1> SUFFICES CheckedIndex' /\ InBounds'
  BY <1>1 DEF BoundsInv
<1> USE DEF BoundsInv, TypeOK, KernelTypeOK, KLabels, CheckedIndex, InBounds, goto
<1>2. ASSUME NEW cpu \in Cpus, NEW uid \in Uids, Fire(cpu, uid)
      PROVE  CheckedIndex' /\ InBounds'
  BY <1>2 DEF Fire, Start
<1>3. ASSUME NEW cpu \in Cpus, StoreAndCopy(cpu) \/ Output(cpu)
      PROVE  CheckedIndex' /\ InBounds'
  BY <1>3 DEF StoreAndCopy, Output
<1>4. ASSUME NEW cpu \in Cpus, CheckMessage(cpu) \/ CheckData(cpu)
      PROVE  CheckedIndex' /\ InBounds'
  BY <1>4 DEF CheckMessage, CheckData, Check
<1>5. ASSUME NEW cpu \in Cpus, ReadMessage(cpu) \/ ReadData(cpu)
      PROVE  CheckedIndex' /\ InBounds'
  <2>1. index[cpu] \in 0 .. MsgSize - 1
    BY <1>5, MsgSizeNat, CModNat DEF ReadMessage, ReadData
  <2>2. QED
    BY <1>5, <2>1 DEF ReadMessage, ReadData, ReadAt
<1>6. CASE UNCHANGED kernelVars
  BY <1>6 DEF kernelVars
<1>7. QED
  BY <1>2, <1>3, <1>4, <1>5, <1>6 DEF Next, KernelNext, KernelStep, vars

(***************************************************************************)
(* kprobe_exec never reads message or data.message out of bounds, however  *)
(* many CPUs increment c between its checks and its reads.                 *)
(***************************************************************************)
THEOREM ReadsInBounds == Spec => []InBounds
<1>1. Init => BoundsInv
  BY TypeInit DEF Init, KernelInit, BoundsInv, CheckedIndex, InBounds
<1>2. BoundsInv => InBounds
  BY DEF BoundsInv
<1>3. QED
  BY <1>1, <1>2, BoundsStep, PTL DEF Spec

-----------------------------------------------------------------------------
(***************************************************************************)
(* Ownership.  What main has created at each of its steps.                 *)
(***************************************************************************)
Owned ==
    /\ upc \in {"open", "done", "killed"} => skel = "none"
    /\ upc = "load" => skel = "open"
    /\ upc \notin {"open", "load", "done", "killed"} => skel = "loaded"
    /\ upc \in {"open", "load", "configure", "attach", "done", "killed"} => ~attached
    /\ upc \in {"open", "load", "configure", "attach", "destroy", "done", "killed"} => fds = {}

OwnInv == TypeOK /\ Owned

LEMMA OwnStep == OwnInv /\ [Next]_vars => OwnInv'
<1> SUFFICES ASSUME OwnInv, [Next]_vars PROVE OwnInv'
  OBVIOUS
<1>1. TypeOK'
  BY TypeStep DEF OwnInv
<1> SUFFICES Owned'
  BY <1>1 DEF OwnInv
<1> USE DEF OwnInv, Owned, TypeOK, SharedTypeOK, UserTypeOK, ULabels, sharedVars, mapVars
<1>2. CASE KernelNext /\ UNCHANGED userVars
  <2>1. UNCHANGED <<attached, fds>>
    BY <1>2 DEF KernelNext, KernelStep, Fire, Start, StoreAndCopy, CheckMessage, CheckData, Check,
                ReadMessage, ReadData, ReadAt, Output
  <2>2. QED
    BY <1>2, <2>1 DEF userVars
<1>3. CASE Startup
  <2>1. CASE Open
    BY <2>1 DEF Open, return
  <2>2. CASE Load \/ Attach
    BY <2>2 DEF Load, Attach, destroy, return
  <2>3. CASE Configure
    BY <2>3 DEF Configure
  <2>4. CASE \E cpu \in Cpus : NewStore(cpu)
    BY <2>4 DEF NewStore, StoreFor
  <2>5. CASE NewFails
    BY <2>5 DEF NewFails, NewGivesUp, destroy, return
  <2>6. QED
    BY <1>3, <2>1, <2>2, <2>3, <2>4, <2>5 DEF Startup
<1>4. CASE Polling
  BY <1>4 DEF Polling, PollWait, ReadRecords, AdvanceTail, Advance
<1>5. CASE PollInterrupted \/ PollFails
  BY <1>5 DEF PollInterrupted, PollFails, LeaveLoop
<1>6. CASE Cleanup \/ Sigint
  BY <1>6 DEF Cleanup, Free, Destroy, Sigint, destroy, return
<1>7. CASE UNCHANGED vars
  BY <1>7 DEF vars, userVars
<1>8. QED
  BY <1>2, <1>3, <1>4, <1>5, <1>6, <1>7 DEF Next, UserNext

LEMMA OwnInit == Init => OwnInv
BY TypeInit DEF Init, SharedInit, UserInit, OwnInv, Owned

(***************************************************************************)
(* Whatever fails during start-up, and however the poll loop ends, main    *)
(* leaves no program attached, no perf event and no object behind.         *)
(***************************************************************************)
THEOREM CleansUp == Spec => []NothingLeftBehind
<1>1. OwnInv => NothingLeftBehind
  BY DEF OwnInv, Owned, NothingLeftBehind
<1>2. QED
  BY <1>1, OwnInit, OwnStep, PTL DEF Spec

\* Why main leaves the loop, and what it will return for it.
Reason ==
    /\ upc \notin {"free", "destroy", "done", "killed"} => cause = "none"
    /\ upc \in {"free", "destroy"} =>
          (cause = "interrupt" /\ err = 0) \/ (cause = "error" /\ err = -EIO)
    /\ StatusTellsWhy

LEMMA ReasonStep == Reason /\ [Next]_vars => Reason'
<1> SUFFICES ASSUME Reason, [Next]_vars PROVE Reason'
  OBVIOUS
<1> USE DEF Reason, StatusTellsWhy, EIO
<1>1. CASE Startup
  <2>1. upc \in {"open", "load", "configure", "attach", "new"} /\ UNCHANGED cause
    BY <1>1 DEF Startup, Open, Load, Configure, Attach, NewStore, StoreFor, NewFails, NewGivesUp
  <2>2. cause = "none" /\ cause' = "none"
    BY <2>1
  <2>3. \/ upc' = "done" /\ exit' = 1
        \/ upc' \in {"load", "configure", "attach", "new", "poll"}
    <3>1. CASE Open
      BY <3>1 DEF Open, return
    <3>2. CASE Load
      BY <3>2 DEF Load, return
    <3>3. CASE Configure
      BY <3>3 DEF Configure
    <3>4. CASE Attach
      BY <3>4 DEF Attach, return
    <3>5. CASE (\E cpu \in Cpus : NewStore(cpu)) \/ NewFails
      BY <3>5 DEF NewStore, StoreFor, NewFails, NewGivesUp, return
    <3>6. QED
      BY <1>1, <3>1, <3>2, <3>3, <3>4, <3>5 DEF Startup
  <2>4. QED
    BY <2>2, <2>3
<1>2. CASE Polling
  BY <1>2 DEF Polling, PollWait, ReadRecords, AdvanceTail, Advance
<1>3. CASE PollInterrupted \/ PollFails
  <2>1. /\ upc' = "free"
        /\ (cause' = "interrupt" /\ err' = 0) \/ (cause' = "error" /\ err' = -EIO)
    BY <1>3 DEF PollInterrupted, PollFails, LeaveLoop
  <2>2. QED
    BY <2>1
<1>4. CASE Cleanup \/ Sigint
  BY <1>4 DEF Cleanup, Free, Destroy, Sigint, return
<1>5. CASE UNCHANGED userVars
  BY <1>5 DEF userVars
<1>6. QED
  BY <1>1, <1>2, <1>3, <1>4, <1>5 DEF Next, UserNext, vars

(***************************************************************************)
(* main returns 0 exactly after an interrupted wait, 1 if start-up failed, *)
(* and else the error of the poll.                                         *)
(***************************************************************************)
THEOREM ReportsEnd == Spec => []StatusTellsWhy
<1>1. Init => Reason
  BY DEF Init, UserInit, Reason, StatusTellsWhy
<1>2. Reason => StatusTellsWhy
  BY DEF Reason
<1>3. QED
  BY <1>1, <1>2, ReasonStep, PTL DEF Spec

\* Each step of either half is a step of the skeleton's lifecycle, or none.
LEMMA MainApiStep == OwnInv /\ [Next]_vars => [Api!ApiNext]_(Api!apiVars)
<1> SUFFICES ASSUME OwnInv, [Next]_vars PROVE [Api!ApiNext]_(Api!apiVars)
  OBVIOUS
<1> USE DEF OwnInv, Owned, sharedVars, Api!ApiNext, Api!ApiOpen, Api!ApiLoad, Api!ApiAttach,
            Api!ApiDetach, Api!ApiDestroy, Api!apiVars
<1>1. CASE KernelNext /\ UNCHANGED userVars
  BY <1>1 DEF userVars, KernelNext, KernelStep, Fire, Start, StoreAndCopy, CheckMessage, CheckData,
              Check, ReadMessage, ReadData, ReadAt, Output
<1>2. CASE Startup
  BY <1>2 DEF Startup, Open, Load, Configure, Attach, NewStore, StoreFor, NewFails, NewGivesUp, destroy, return
<1>3. CASE Polling
  BY <1>3 DEF Polling, PollWait, ReadRecords, AdvanceTail, Advance
<1>4. CASE PollInterrupted \/ PollFails
  BY <1>4 DEF PollInterrupted, PollFails, LeaveLoop
<1>5. CASE Cleanup \/ Sigint
  BY <1>5 DEF Cleanup, Free, Destroy, Sigint, destroy, return
<1>6. CASE UNCHANGED vars
  BY <1>6 DEF vars, userVars
<1>7. QED
  BY <1>1, <1>2, <1>3, <1>4, <1>5, <1>6 DEF Next, UserNext

(***************************************************************************)
(* main uses its skeleton as SkeletonApi promises, on every path.          *)
(***************************************************************************)
THEOREM MainKeepsToApi == Spec => KeepsToApi
<1>1. Init => Api!ApiInit
  BY DEF Init, SharedInit, UserInit, Api!ApiInit
<1>2. QED
  BY <1>1, OwnInit, OwnStep, MainApiStep, PTL DEF Spec, KeepsToApi, Api!ApiSpec

-----------------------------------------------------------------------------
(***************************************************************************)
(* Events.  What has to hold of an event, given whether ConfigUid has a    *)
(* message and whether the runs were serial, and of a sequence of records. *)
(***************************************************************************)
GoodCount(e, isSerial) == e.counter <= e.id /\ (isSerial /\ e.id < CMod => e.counter = e.id)

GoodMessage(e, configured) ==
    e.message.text = "hello Liz" <=> e.uid = ConfigUid /\ configured

GoodSeq(s, configured, isSerial) ==
    \A i \in DOMAIN s : IsSample(s[i]) =>
        GoodCount(s[i].event, isSerial) /\ GoodMessage(s[i].event, configured)

Configured == ConfigUid \in DOMAIN my_config

\* The two forms an appended output takes consist of good records.
LEMMA GoodOffer ==
    ASSUME NEW n \in Nat, NEW seq \in Nat \ {0}, NEW e \in Events, NEW conf \in BOOLEAN,
           NEW ser \in BOOLEAN, GoodCount(e, ser), GoodMessage(e, conf)
    PROVE  GoodSeq(Offer(n, seq, e), conf, ser)
BY DEF GoodSeq, Offer, Sample, LostRecord, IsSample

\* A concatenation of good sequences is good.
LEMMA GoodConcat ==
    ASSUME NEW s \in Seq(Records), NEW t \in Seq(Records), NEW conf, NEW ser,
           GoodSeq(s, conf, ser), GoodSeq(t, conf, ser)
    PROVE  GoodSeq(s \o t, conf, ser)
<1> SUFFICES ASSUME NEW i \in DOMAIN (s \o t)
             PROVE  \/ i \in DOMAIN s /\ (s \o t)[i] = s[i]
                    \/ i - Len(s) \in DOMAIN t /\ (s \o t)[i] = t[i - Len(s)]
  BY DEF GoodSeq
<1>1. i \in 1 .. Len(s) + Len(t)
  OBVIOUS
<1>2. QED
  BY <1>1

\* What is left of a good sequence is good.
LEMMA GoodConsume ==
    ASSUME NEW s \in Seq(Records), NEW n \in Nat, NEW conf, NEW ser, GoodSeq(s, conf, ser)
    PROVE  GoodSeq(Consume(s, n), conf, ser)
<1> SUFFICES ASSUME NEW i \in DOMAIN Consume(s, n)
             PROVE  i + n \in DOMAIN s /\ Consume(s, n)[i] = s[i + n]
  BY DEF GoodSeq
<1>1. QED
  BY DEF Consume

\* Losing seriality keeps a sequence good.
LEMMA GoodWeaken ==
    ASSUME NEW s, NEW conf, NEW ser, NEW ser2, GoodSeq(s, conf, ser), ser2 => ser
    PROVE  GoodSeq(s, conf, ser2)
BY DEF GoodSeq, GoodCount

(***************************************************************************)
(* The counters.  c is at most one ahead of the runs started, and so is    *)
(* what a run will store; in a serial execution c is exact except between  *)
(* the load and the store of the one run in flight.                        *)
(***************************************************************************)
Busy(cpu) == kpc[cpu] # "idle"

SerialCounts ==
    /\ \A cpu, other \in Cpus : Busy(cpu) /\ Busy(other) => cpu = other
    /\ (\A cpu \in Cpus : kpc[cpu] # "store") /\ fired + 1 < CMod => c = fired + 1
    /\ \A cpu \in Cpus : kpc[cpu] = "store" => data[cpu].id = fired

Counts ==
    /\ c <= fired + 1
    /\ \A cpu \in Cpus : Busy(cpu) => data[cpu].id <= fired /\ GoodCount(data[cpu], serial)
    /\ serial => SerialCounts

CountInv == TypeOK /\ Counts

LEMMA CountStep == CountInv /\ [Next]_vars => CountInv'
<1> SUFFICES ASSUME CountInv, [Next]_vars PROVE CountInv'
  OBVIOUS
<1>1. TypeOK'
  BY TypeStep DEF CountInv
<1> SUFFICES Counts'
  BY <1>1 DEF CountInv
<1>2. /\ c \in Nat /\ fired \in Nat /\ serial \in BOOLEAN
      /\ kpc \in [Cpus -> KLabels] /\ data \in [Cpus -> Events]
      /\ \A cpu \in Cpus : data[cpu].id \in Nat /\ data[cpu].counter \in Nat
  BY CModNat DEF CountInv, TypeOK, KernelTypeOK, Events
<1> USE DEF CountInv, Counts, SerialCounts, GoodCount, Busy, goto
<1>3. ASSUME NEW cpu \in Cpus, NEW uid \in Uids, Fire(cpu, uid)
      PROVE  Counts'
  <2> DEFINE e == [id |-> fired + 1, uid |-> uid, counter |-> c, message |-> message]
  <2>1. /\ data' = [data EXCEPT ![cpu] = e] /\ kpc' = [kpc EXCEPT ![cpu] = "store"]
        /\ c' = c /\ fired' = fired + 1 /\ kpc[cpu] = "idle"
        /\ serial' => serial /\ \A other \in Cpus : kpc[other] = "idle"
    BY <1>3 DEF Fire, Start
  <2>2. GoodCount(e, serial')
    BY <1>2, <2>1
  <2>3. \A other \in Cpus : other # cpu =>
           /\ data'[other] = data[other] /\ kpc'[other] = kpc[other]
           /\ Busy(other) => GoodCount(data[other], serial')
    BY <1>2, <2>1
  <2>4. \A other \in Cpus : Busy(other)' =>
           data'[other].id <= fired' /\ GoodCount(data'[other], serial')
    BY <1>2, <2>1, <2>2, <2>3
  <2>5. serial' => SerialCounts'
    BY <1>2, <2>1
  <2>6. QED
    BY <1>2, <2>1, <2>4, <2>5
<1>4. ASSUME NEW cpu \in Cpus, StoreAndCopy(cpu)
      PROVE  Counts'
  <2>1. /\ kpc' = [kpc EXCEPT ![cpu] = "check_message"] /\ kpc[cpu] = "store"
        /\ c' = WrapInc(data[cpu].counter, CMod)
        /\ UNCHANGED <<fired, serial>>
        /\ \A other \in Cpus : data'[other].id = data[other].id /\ data'[other].counter = data[other].counter
    BY <1>2, <1>4 DEF StoreAndCopy, Events
  <2>2. c' <= data[cpu].counter + 1 /\ (data[cpu].counter + 1 < CMod => c' = data[cpu].counter + 1)
    BY <1>2, <2>1, CModNat DEF WrapInc
  <2>3. c' \in Nat
    BY <1>1, CModNat DEF TypeOK, KernelTypeOK
  <2>4. c' <= fired + 1
    BY <1>2, <2>1, <2>2, <2>3
  <2>5. serial => (fired + 1 < CMod => c' = fired + 1)
    BY <1>2, <2>1, <2>2, CModNat
  <2>6. serial' => SerialCounts'
    BY <1>2, <2>1, <2>5
  <2>7. \A other \in Cpus : Busy(other)' =>
           data'[other].id <= fired' /\ GoodCount(data'[other], serial')
    BY <1>2, <2>1
  <2>8. QED
    BY <2>1, <2>4, <2>6, <2>7
<1>5. ASSUME NEW cpu \in Cpus, kpc[cpu] \notin {"idle", "store"}, NEW label \in KLabels \ {"store"},
             goto(cpu, label), UNCHANGED <<c, data, fired, serial>>
      PROVE  Counts'
  BY <1>2, <1>5 DEF KLabels
<1>6. ASSUME NEW cpu \in Cpus, CheckMessage(cpu) \/ CheckData(cpu)
      PROVE  Counts'
  BY <1>5, <1>6 DEF CheckMessage, CheckData, Check, KLabels
<1>7. ASSUME NEW cpu \in Cpus, ReadMessage(cpu) \/ ReadData(cpu)
      PROVE  Counts'
  BY <1>5, <1>7 DEF ReadMessage, ReadData, ReadAt, KLabels
<1>8. ASSUME NEW cpu \in Cpus, Output(cpu)
      PROVE  Counts'
  BY <1>5, <1>8 DEF Output, KLabels
<1>9. CASE UNCHANGED kernelVars
  BY <1>9 DEF kernelVars
<1>10. QED
  BY <1>3, <1>4, <1>6, <1>7, <1>8, <1>9 DEF Next, KernelNext, KernelStep, vars

(***************************************************************************)
(* The messages.  Until main has attached the program no run is in flight  *)
(* and no record exists, so the one write to my_config precedes every read *)
(* of it.                                                                  *)
(***************************************************************************)
Quiet ==
    upc \in {"open", "load", "configure", "attach"} =>
        \A cpu \in Cpus : kpc[cpu] = "idle" /\ ring[cpu] = <<>> /\ delivered[cpu] = <<>>

ConfigOK ==
    /\ DOMAIN my_config \subseteq {ConfigUid}
    /\ \A u \in DOMAIN my_config : my_config[u].text = "hello Liz"

CopiesOK ==
    \A cpu \in Cpus :
        kpc[cpu] \notin {"idle", "store"} => GoodMessage(data[cpu], Configured)

StreamsOK ==
    \A cpu \in Cpus : /\ GoodSeq(ring[cpu], Configured, serial)
                      /\ GoodSeq(delivered[cpu], Configured, serial)

EventInv == OwnInv /\ CountInv /\ Quiet /\ ConfigOK /\ CopiesOK /\ StreamsOK

LEMMA EventInit == Init => EventInv
<1> SUFFICES ASSUME Init PROVE EventInv
  OBVIOUS
<1>1. TypeOK /\ OwnInv
  BY TypeInit, OwnInit
<1>2. Counts
  BY CModNat DEF Init, KernelInit, Counts, SerialCounts, Busy
<1>3. Quiet /\ ConfigOK /\ CopiesOK /\ StreamsOK
  BY DEF Init, KernelInit, SharedInit, UserInit, Quiet, ConfigOK, CopiesOK, StreamsOK, GoodSeq
<1>4. QED
  BY <1>1, <1>2, <1>3 DEF EventInv, CountInv

\* The program is attached only after the configuration is written.
LEMMA QuietStep == EventInv /\ [Next]_vars => Quiet'
<1> SUFFICES ASSUME EventInv, [Next]_vars, upc' \in {"open", "load", "configure", "attach"}
             PROVE  \A cpu \in Cpus : kpc'[cpu] = "idle" /\ ring'[cpu] = <<>> /\ delivered'[cpu] = <<>>
  BY DEF Quiet
<1> USE DEF EventInv, OwnInv, Owned, Quiet, sharedVars, mapVars, ringVars
<1>1. CASE KernelNext /\ UNCHANGED userVars
  BY <1>1 DEF userVars, KernelNext, KernelStep, Fire, Start, StoreAndCopy, CheckMessage, CheckData,
              ReadMessage, ReadData, Output
<1>2. CASE Startup /\ UNCHANGED kernelVars
  BY <1>2 DEF kernelVars, Startup, Open, Load, Configure, Attach, NewStore, StoreFor, NewFails, NewGivesUp, return
<1>3. CASE Polling
  BY <1>3 DEF Polling, PollWait, ReadRecords, AdvanceTail, Advance
<1>4. CASE PollInterrupted \/ PollFails \/ Cleanup \/ Sigint
  BY <1>4 DEF PollInterrupted, PollFails, LeaveLoop, Cleanup, Free, Destroy, Sigint, return
<1>5. CASE UNCHANGED vars
  BY <1>5 DEF vars, userVars, kernelVars
<1>6. QED
  BY <1>1, <1>2, <1>3, <1>4, <1>5 DEF Next, UserNext

\* A step of the kernel half keeps messages and records good.
LEMMA KernelEvents ==
    ASSUME EventInv, KernelNext, UNCHANGED userVars
    PROVE  ConfigOK' /\ CopiesOK' /\ StreamsOK'
<1>1. TypeOK /\ TypeOK'
  BY TypeStep DEF EventInv, OwnInv, Next
<1>2. /\ kpc \in [Cpus -> KLabels] /\ data \in [Cpus -> Events]
      /\ ring \in [Cpus -> Seq(Records)] /\ serial \in BOOLEAN /\ Configured \in BOOLEAN
      /\ lost \in [Cpus -> Nat] /\ offered \in [Cpus -> Nat]
  BY <1>1 DEF TypeOK, KernelTypeOK, SharedTypeOK, Configured
<1>3. UNCHANGED <<my_config, delivered>> /\ Configured' = Configured
  BY DEF KernelNext, KernelStep, Fire, Start, StoreAndCopy, CheckMessage, CheckData, Check,
         ReadMessage, ReadData, ReadAt, Output, sharedVars, mapVars, userVars, Configured
<1>4. ConfigOK'
  BY <1>3 DEF ConfigOK, EventInv
<1>5. serial' => serial
  BY DEF KernelNext, KernelStep, Fire, Start, StoreAndCopy, CheckMessage, CheckData, Check,
         ReadMessage, ReadData, ReadAt, Output
<1>6. \A cpu \in Cpus : /\ GoodSeq(ring[cpu], Configured, serial')
                        /\ GoodSeq(delivered[cpu], Configured, serial')
  BY <1>5, GoodWeaken DEF EventInv, StreamsOK
<1>7. UNCHANGED ring => StreamsOK'
  BY <1>3, <1>6 DEF StreamsOK
<1> USE DEF CopiesOK, EventInv, goto
<1>8. ASSUME NEW cpu \in Cpus, NEW uid \in Uids, Fire(cpu, uid)
      PROVE  CopiesOK' /\ StreamsOK'
  BY <1>2, <1>3, <1>7, <1>8 DEF Fire, Start, sharedVars, ringVars
<1>9. ASSUME NEW cpu \in Cpus, StoreAndCopy(cpu)
      PROVE  CopiesOK' /\ StreamsOK'
  <2> DEFINE p == bpf_map_lookup_elem(my_config, data[cpu].uid)
             m == IF p # NULL THEN p ELSE message
  <2>1. /\ data'[cpu].message = m /\ data'[cpu].uid = data[cpu].uid
        /\ \A other \in Cpus : other # cpu => data'[other] = data[other]
        /\ kpc' = [kpc EXCEPT ![cpu] = "check_message"]
    BY <1>2, <1>9 DEF StoreAndCopy, Events
  <2>2. data[cpu].uid \in Uids
    BY <1>2 DEF Events
  <2>3. m.text = "hello Liz" <=> data[cpu].uid = ConfigUid /\ Configured
    <3>1. CASE data[cpu].uid \in DOMAIN my_config
      <4>1. p = my_config[data[cpu].uid] /\ my_config[data[cpu].uid] \in Messages
        BY <1>1, <3>1 DEF TypeOK, SharedTypeOK, bpf_map_lookup_elem
      <4>2. m = my_config[data[cpu].uid]
        BY <4>1, NullIsNoMessage
      <4>3. QED
        BY <3>1, <4>2 DEF ConfigOK, Configured
    <3>2. CASE data[cpu].uid \notin DOMAIN my_config
      BY <2>2, <3>2 DEF Configured, bpf_map_lookup_elem, message
    <3>3. QED
      BY <3>1, <3>2
  <2> HIDE DEF m
  <2>4. CopiesOK'
    BY <1>2, <1>3, <2>1, <2>3 DEF GoodMessage
  <2>5. QED
    BY <1>7, <1>9, <2>4 DEF StoreAndCopy, sharedVars, ringVars
<1>10. ASSUME NEW cpu \in Cpus, CheckMessage(cpu) \/ CheckData(cpu)
      PROVE  CopiesOK' /\ StreamsOK'
  BY <1>2, <1>3, <1>7, <1>10 DEF CheckMessage, CheckData, Check, sharedVars, ringVars
<1>11. ASSUME NEW cpu \in Cpus, ReadMessage(cpu) \/ ReadData(cpu)
      PROVE  CopiesOK' /\ StreamsOK'
  BY <1>2, <1>3, <1>7, <1>11 DEF ReadMessage, ReadData, ReadAt, sharedVars, ringVars
<1>12. ASSUME NEW cpu \in Cpus, Output(cpu)
       PROVE  CopiesOK' /\ StreamsOK'
  <2> DEFINE records == Offer(lost[cpu], offered[cpu] + 1, data[cpu])
  <2>1. CopiesOK'
    BY <1>2, <1>3, <1>12 DEF Output
  <2>2. serial' = serial /\ kpc[cpu] = "output"
    BY <1>12 DEF Output
  <2>3. GoodCount(data[cpu], serial) /\ GoodMessage(data[cpu], Configured)
    BY <2>2 DEF CountInv, Counts, Busy
  <2>4. GoodSeq(records, Configured, serial) /\ records \in Seq(Records)
    BY <1>2, <2>3, GoodOffer, OfferType
  <2>5. UNCHANGED ring \/ ring' = [ring EXCEPT ![cpu] = ring[cpu] \o records]
    BY <1>12 DEF Output
  <2> HIDE DEF records
  <2>6. GoodSeq(ring[cpu] \o records, Configured, serial)
    BY <1>2, <1>6, <2>2, <2>4, GoodConcat
  <2>7. StreamsOK'
    BY <1>2, <1>3, <1>6, <1>7, <2>2, <2>5, <2>6 DEF StreamsOK
  <2>8. QED
    BY <2>1, <2>7
<1>13. QED
  BY <1>4, <1>8, <1>9, <1>10, <1>11, <1>12 DEF KernelNext, KernelStep

\* A step of main keeps messages and records good.
LEMMA UserEvents ==
    ASSUME EventInv, UserNext, UNCHANGED kernelVars
    PROVE  ConfigOK' /\ CopiesOK' /\ StreamsOK'
<1>1. TypeOK
  BY DEF EventInv, OwnInv
<1>2. /\ ring \in [Cpus -> Seq(Records)] /\ delivered \in [Cpus -> Seq(Records)]
      /\ taken \in [Cpus -> Nat]
  BY <1>1 DEF TypeOK, SharedTypeOK, UserTypeOK
<1>3. UNCHANGED <<kpc, data, serial>>
  BY DEF kernelVars
<1>4. CASE Configure
  <2>1. ConfigOK'
    <3>1. ConfigOK
      BY DEF EventInv
    <3>2. CASE UNCHANGED my_config
      BY <3>1, <3>2 DEF ConfigOK
    <3>3. ASSUME NEW nul \in BOOLEAN,
                 my_config' = bpf_map_update_elem(my_config, ConfigUid,
                                 [text |-> "hello Liz", terminated |-> nul])
          PROVE  ConfigOK'
      <4> DEFINE m == [text |-> "hello Liz", terminated |-> nul]
      <4>1. m.text = "hello Liz"
        OBVIOUS
      <4>2. my_config' = bpf_map_update_elem(my_config, ConfigUid, m)
        BY <3>3
      <4> HIDE DEF m
      <4>3. DOMAIN my_config' = DOMAIN my_config \union {ConfigUid} /\ my_config'[ConfigUid] = m
        BY <4>2 DEF bpf_map_update_elem
      <4>4. \A u \in DOMAIN my_config' : u = ConfigUid
        BY <3>1, <4>3 DEF ConfigOK
      <4>5. QED
        BY <4>1, <4>3, <4>4 DEF ConfigOK
    <3>4. QED
      BY <1>4, <3>2, <3>3 DEF Configure
  <2>2. \A cpu \in Cpus : kpc'[cpu] = "idle" /\ ring'[cpu] = <<>> /\ delivered'[cpu] = <<>>
    BY <1>3, <1>4 DEF Configure, EventInv, Quiet, ringVars
  <2>3. QED
    BY <2>1, <2>2 DEF CopiesOK, StreamsOK, GoodSeq
<1>5. CASE ~Configure
  <2>1. UNCHANGED my_config /\ Configured' = Configured
    BY <1>5 DEF UserNext, Startup, Polling, Cleanup, Open, Load, Attach, NewStore, StoreFor, NewFails, NewGivesUp,
                PollWait, ReadRecords, AdvanceTail, Advance, PollInterrupted, PollFails, LeaveLoop, Free,
                Destroy, Sigint, sharedVars, mapVars, Configured
  <2>2. ConfigOK' /\ CopiesOK'
    BY <1>3, <2>1 DEF EventInv, ConfigOK, CopiesOK
  <2> SUFFICES StreamsOK'
    BY <2>2
  <2>3. ASSUME UNCHANGED <<ring, delivered>>
        PROVE  StreamsOK'
    BY <1>3, <2>1, <2>3 DEF EventInv, StreamsOK
  <2>4. CASE Open \/ Load \/ Attach \/ (\E cpu \in Cpus : NewStore(cpu)) \/ PollWait
                  \/ PollInterrupted \/ PollFails \/ Destroy
    BY <2>3, <2>4 DEF Open, Load, Attach, NewStore, StoreFor, PollWait, PollInterrupted, PollFails, LeaveLoop,
                      Destroy, sharedVars, ringVars
  <2>5. CASE NewFails \/ Free \/ Sigint
    <3>1. UNCHANGED delivered /\ ring' = [cpu \in Cpus |-> <<>>]
      BY <2>5 DEF NewFails, NewGivesUp, Free, Sigint
    <3>2. GoodSeq(<<>>, Configured, serial)
      BY DEF GoodSeq
    <3>3. QED
      BY <1>3, <2>1, <3>1, <3>2 DEF EventInv, StreamsOK
  <2>6. ASSUME NEW cpu \in Cpus, ReadRecords(cpu)
        PROVE  StreamsOK'
    <3>1. GoodSeq(delivered[cpu] \o ring[cpu], Configured, serial)
      BY <1>2, GoodConcat DEF EventInv, StreamsOK
    <3>2. QED
      BY <1>2, <1>3, <2>1, <2>6, <3>1 DEF ReadRecords, EventInv, StreamsOK, sharedVars, ringVars
  <2>7. ASSUME NEW cpu \in Cpus, AdvanceTail(cpu)
        PROVE  StreamsOK'
    <3>1. GoodSeq(Consume(ring[cpu], taken[cpu]), Configured, serial)
      BY <1>2, GoodConsume DEF EventInv, StreamsOK
    <3>2. QED
      BY <1>2, <1>3, <2>1, <2>7, <3>1 DEF AdvanceTail, Advance, EventInv, StreamsOK
  <2>8. QED
    BY <1>5, <2>4, <2>5, <2>6, <2>7 DEF UserNext, Startup, Polling, Cleanup
<1>6. QED
  BY <1>4, <1>5

LEMMA EventStep == EventInv /\ [Next]_vars => EventInv'
<1> SUFFICES ASSUME EventInv, [Next]_vars PROVE EventInv'
  OBVIOUS
<1>1. OwnInv' /\ CountInv' /\ Quiet'
  BY OwnStep, CountStep, QuietStep DEF EventInv
<1>2. CASE UNCHANGED vars
  BY <1>1, <1>2 DEF EventInv, ConfigOK, CopiesOK, StreamsOK, Configured, vars, sharedVars, mapVars,
                    ringVars, kernelVars, userVars
<1>3. QED
  BY <1>1, <1>2, KernelEvents, UserEvents DEF EventInv, Next

\* The events in a CPU's stream are good.
LEMMA StreamEvents ==
    ASSUME EventInv, NEW cpu \in Cpus, NEW e \in EventsOf(cpu)
    PROVE  GoodCount(e, serial) /\ GoodMessage(e, Configured)
<1>1. /\ ring[cpu] \in Seq(Records) /\ delivered[cpu] \in Seq(Records) /\ taken[cpu] \in Nat
      /\ GoodSeq(ring[cpu], Configured, serial) /\ GoodSeq(delivered[cpu], Configured, serial)
  BY DEF EventInv, OwnInv, TypeOK, SharedTypeOK, UserTypeOK, StreamsOK
<1>2. Consume(ring[cpu], taken[cpu]) \in Seq(Records)
      /\ GoodSeq(Consume(ring[cpu], taken[cpu]), Configured, serial)
  BY <1>1, ConsumeType, GoodConsume
<1>3. GoodSeq(Stream(cpu), Configured, serial)
  BY <1>1, <1>2, GoodConcat DEF Stream
<1>4. QED
  BY <1>3 DEF EventsOf, GoodSeq

(***************************************************************************)
(* No event handed to user space carries a counter ahead of the runs of    *)
(* kprobe_exec, and serial runs carry the exact one.                       *)
(***************************************************************************)
THEOREM CountersBounded == Spec => []CountersNeverAhead
<1>1. EventInv => CountersNeverAhead
  BY StreamEvents DEF CountersNeverAhead, GoodCount
<1>2. QED
  BY <1>1, EventInit, EventStep, PTL DEF Spec

(***************************************************************************)
(* Every event carries the message configured for its user.                *)
(***************************************************************************)
THEOREM RightMessage == Spec => []MessageMatchesUid
<1>1. EventInv => MessageMatchesUid
  BY StreamEvents DEF MessageMatchesUid, GoodMessage, Configured
<1>2. QED
  BY <1>1, EventInit, EventStep, PTL DEF Spec

(***************************************************************************)
(* Nothing writes my_config once a run of kprobe_exec may read it: main    *)
(* configures before it attaches, and no run is in flight until then.      *)
(***************************************************************************)
THEOREM ConfigStable == Spec => ConfigFrozen
<1>1. ASSUME EventInv, [Next]_vars
      PROVE  [my_config' # my_config => ~attached /\ \A cpu \in Cpus : kpc[cpu] = "idle"]_vars
  <2>1. CASE Configure
    BY <1>1, <2>1 DEF Configure, EventInv, OwnInv, Owned, Quiet
  <2>2. CASE KernelNext
    BY <2>2 DEF KernelNext, KernelStep, Fire, Start, StoreAndCopy, CheckMessage, CheckData, Check,
                ReadMessage, ReadData, ReadAt, Output, sharedVars, mapVars
  <2>3. CASE Open \/ Load \/ Attach \/ (\E cpu \in Cpus : NewStore(cpu)) \/ NewFails
    BY <2>3 DEF Open, Load, Attach, NewStore, StoreFor, NewFails, NewGivesUp, sharedVars, mapVars
  <2>4. CASE Polling \/ PollInterrupted \/ PollFails
    BY <2>4 DEF Polling, PollWait, ReadRecords, AdvanceTail, Advance, PollInterrupted, PollFails,
                LeaveLoop, sharedVars, mapVars
  <2>5. CASE Cleanup \/ Sigint
    BY <2>5 DEF Cleanup, Free, Destroy, Sigint, sharedVars, mapVars
  <2>6. QED
    BY <1>1, <2>1, <2>2, <2>3, <2>4, <2>5 DEF Next, UserNext, Startup
<1>2. QED
  BY <1>1, EventInit, EventStep, PTL DEF Spec, ConfigFrozen

-----------------------------------------------------------------------------
(***************************************************************************)
(* Gaps.  A stream is chained when each record starts where the one before *)
(* it ended; an output extends the chain by all it stands for.             *)
(***************************************************************************)
Before(s, i) == IF i = 1 THEN 0 ELSE s[i - 1].seq
Chained(s) == \A i \in DOMAIN s : s[i].seq = Before(s, i) + s[i].count
EndOf(s) == Before(s, Len(s) + 1)

\* Consuming nothing, and consuming everything.
LEMMA ConsumeEnds ==
    ASSUME NEW s \in Seq(Records)
    PROVE  Consume(s, 0) = s /\ Consume(s, Len(s)) = <<>>
BY DEF Consume

\* Concatenation of record sequences is associative.
LEMMA RecordsAssociative ==
    \A s, t, u \in Seq(Records) : s \o (t \o u) = (s \o t) \o u
<1> SUFFICES ASSUME NEW s \in Seq(Records), NEW t \in Seq(Records), NEW u \in Seq(Records)
             PROVE  (s \o t) \o u = s \o (t \o u)
  OBVIOUS
<1>1. QED
  BY ConcatAssociative

\* Records appended behind what was read are still to be read.
LEMMA ConsumeAppend ==
    ASSUME NEW s \in Seq(Records), NEW t \in Seq(Records), NEW n \in Nat, n <= Len(s)
    PROVE  Consume(s \o t, n) = Consume(s, n) \o t
<1> DEFINE left == Consume(s \o t, n)
           right == Consume(s, n) \o t
<1>1. Consume(s, n) \in Seq(Records) /\ Len(Consume(s, n)) = Len(s) - n
  BY ConsumeType DEF Consume
<1>2. left \in Seq(Records) /\ Len(left) = Len(s) + Len(t) - n
  BY ConsumeType DEF Consume
<1>3. right \in Seq(Records) /\ Len(right) = Len(s) + Len(t) - n
  BY <1>1
<1>4. ASSUME NEW i \in 1 .. Len(s) + Len(t) - n
      PROVE  left[i] = right[i]
  <2>1. left[i] = (s \o t)[i + n]
    BY DEF Consume
  <2>2. CASE i <= Len(s) - n
    <3>1. right[i] = Consume(s, n)[i]
      BY <1>1, <2>2
    <3>2. Consume(s, n)[i] = s[i + n]
      BY <2>2 DEF Consume
    <3>3. QED
      BY <2>1, <2>2, <3>1, <3>2
  <2>3. CASE i > Len(s) - n
    <3>1. right[i] = t[i - (Len(s) - n)]
      BY <1>1, <2>3
    <3>2. QED
      BY <2>1, <2>3, <3>1
  <2>4. i <= Len(s) - n \/ i > Len(s) - n
    OBVIOUS
  <2>5. QED
    BY <2>2, <2>3, <2>4
<1> HIDE DEF left, right
<1>5. left = right
  BY <1>2, <1>3, <1>4, SeqEqual
<1>6. QED
  BY <1>5 DEF left, right

\* A chain extended by one record that starts at its end.
LEMMA ChainAppend ==
    ASSUME NEW s \in Seq(Records), NEW r \in Records, Chained(s), r.seq = EndOf(s) + r.count
    PROVE  Chained(s \o <<r>>) /\ EndOf(s \o <<r>>) = r.seq
<1> DEFINE t == s \o <<r>>
<1>1. t \in Seq(Records) /\ Len(t) = Len(s) + 1 /\ t[Len(s) + 1] = r
  OBVIOUS
<1>2. \A i \in 1 .. Len(s) : t[i] = s[i]
  OBVIOUS
<1> HIDE DEF t
<1>3. EndOf(t) = r.seq
  BY <1>1 DEF EndOf, Before
<1>4. ASSUME NEW i \in DOMAIN t
      PROVE  t[i].seq = Before(t, i) + t[i].count
  <2>1. i \in 1 .. Len(s) + 1
    BY <1>1
  <2>2. CASE i \in 1 .. Len(s)
    BY <1>2, <2>2 DEF Chained, Before
  <2>3. CASE i = Len(s) + 1
    BY <1>1, <1>2, <2>3 DEF EndOf, Before
  <2>4. QED
    BY <2>1, <2>2, <2>3
<1>5. QED
  BY <1>3, <1>4 DEF Chained, t

\* A chain extended by what an output appends.
LEMMA ChainOffer ==
    ASSUME NEW s \in Seq(Records), NEW n \in Nat, NEW k \in Nat, NEW e \in Events,
           Chained(s), EndOf(s) + n = k, EndOf(s) \in Nat
    PROVE  Chained(s \o Offer(n, k + 1, e)) /\ EndOf(s \o Offer(n, k + 1, e)) = k + 1
<1> DEFINE sample == Sample(e, k + 1)
           gap == LostRecord(n, k)
<1>1. sample \in Records /\ sample.seq = k + 1 /\ sample.count = 1
  BY DEF Sample, Records, Samples
<1>2. gap \in Records /\ gap.seq = k /\ gap.count = n
  BY DEF LostRecord, Records, LostRecords
<1>3. Offer(n, k + 1, e) = IF n > 0 THEN <<gap, sample>> ELSE <<sample>>
  BY DEF Offer
<1> HIDE DEF sample, gap
<1>4. CASE n > 0
  <2>1. Chained(s \o <<gap>>) /\ EndOf(s \o <<gap>>) = k
    BY <1>2, ChainAppend
  <2>2. s \o <<gap>> \in Seq(Records)
    BY <1>2
  <2>3. Chained((s \o <<gap>>) \o <<sample>>) /\ EndOf((s \o <<gap>>) \o <<sample>>) = k + 1
    BY <1>1, <2>1, <2>2, ChainAppend
  <2>4. (s \o <<gap>>) \o <<sample>> = s \o <<gap, sample>>
    <3>1. <<gap>> \in Seq(Records) /\ <<sample>> \in Seq(Records)
      BY <1>1, <1>2
    <3> DEFINE a == <<gap>> \o <<sample>>
               b == <<gap, sample>>
    <3>2. a \in Seq(Records) /\ Len(a) = 2 /\ a[1] = gap /\ a[2] = sample
      BY <3>1
    <3>3. b \in Seq(Records) /\ Len(b) = 2 /\ b[1] = gap /\ b[2] = sample
      BY <1>1, <1>2
    <3> HIDE DEF a, b
    <3>4. \A i \in 1 .. Len(a) : a[i] = b[i]
      BY <3>2, <3>3
    <3>5. a = b
      BY <3>2, <3>3, <3>4, SeqEqual
    <3>6. (s \o <<gap>>) \o <<sample>> = s \o a
      BY <3>1, ConcatAssociative DEF a
    <3>7. QED
      BY <3>5, <3>6 DEF b
  <2>5. QED
    BY <1>3, <1>4, <2>3, <2>4
<1>5. CASE n = 0
  BY <1>1, <1>3, <1>5, ChainAppend
<1>6. QED
  BY <1>4, <1>5

\* The end of a stream is a number of samples.
LEMMA EndOfType ==
    ASSUME NEW s \in Seq(Records)
    PROVE  EndOf(s) \in Nat
<1>1. \A r \in Records : r.seq \in Nat
  BY DEF Records, Samples, LostRecords
<1>2. CASE Len(s) = 0
  BY <1>2 DEF EndOf, Before
<1>3. CASE Len(s) > 0
  BY <1>1, <1>3 DEF EndOf, Before
<1>4. QED
  BY <1>2, <1>3

(***************************************************************************)
(* At most one ring at a time has records read whose space is not given    *)
(* back; a CPU without a perf event has not offered anything yet.          *)
(***************************************************************************)
TakenOK ==
    /\ upc \notin {"tail", "killed"} => \A cpu \in Cpus : taken[cpu] = 0
    /\ \A cpu, other \in Cpus : taken[cpu] > 0 /\ taken[other] > 0 => cpu = other
    /\ \A cpu \in fds : taken[cpu] <= Len(ring[cpu])

Fresh ==
    upc \in {"open", "load", "configure", "attach", "new"} =>
        \A cpu \in Cpus \ fds :
            /\ delivered[cpu] = <<>> /\ ring[cpu] = <<>>
            /\ lost[cpu] = 0 /\ offered[cpu] = 0

Explained(cpu) == Chained(Stream(cpu)) /\ EndOf(Stream(cpu)) + lost[cpu] = offered[cpu]

GapInv == TypeOK /\ TakenOK /\ Fresh /\ \A cpu \in fds : Explained(cpu)

LEMMA GapInit == Init => GapInv
BY TypeInit DEF Init, SharedInit, UserInit, GapInv, TakenOK, Fresh

\* The streams are sequences of records.
LEMMA StreamType ==
    ASSUME TypeOK, NEW cpu \in Cpus
    PROVE  /\ Stream(cpu) \in Seq(Records) /\ ring[cpu] \in Seq(Records)
           /\ delivered[cpu] \in Seq(Records) /\ taken[cpu] \in Nat
           /\ Consume(ring[cpu], taken[cpu]) \in Seq(Records)
<1>1. ring[cpu] \in Seq(Records) /\ delivered[cpu] \in Seq(Records) /\ taken[cpu] \in Nat
  BY DEF TypeOK, SharedTypeOK, UserTypeOK
<1>2. Consume(ring[cpu], taken[cpu]) \in Seq(Records)
  BY <1>1, ConsumeType
<1>3. delivered[cpu] \o Consume(ring[cpu], taken[cpu]) \in Seq(Records)
  BY <1>1, <1>2, ConcatProperties
<1>4. QED
  BY <1>1, <1>2, <1>3 DEF Stream

LEMMA GapOutput ==
    ASSUME GapInv, NEW cpu \in Cpus, Output(cpu), UNCHANGED userVars
    PROVE  TakenOK' /\ Fresh' /\ \A other \in fds' : Explained(other)'
<1> DEFINE records == Offer(lost[cpu], offered[cpu] + 1, data[cpu])
<1>1. /\ lost \in [Cpus -> Nat] /\ offered \in [Cpus -> Nat] /\ fds \subseteq Cpus
      /\ ring \in [Cpus -> Seq(Records)] /\ data[cpu] \in Events
      /\ taken \in [Cpus -> Nat]
  BY DEF GapInv, TypeOK, SharedTypeOK, KernelTypeOK, UserTypeOK
<1>2. UNCHANGED <<fds, taken, delivered, upc>>
  BY DEF Output, userVars, mapVars
<1>3. records \in Seq(Records)
  <2>1. lost[cpu] \in Nat /\ offered[cpu] + 1 \in Nat \ {0} /\ data[cpu] \in Events
    BY <1>1
  <2>2. QED
    BY <2>1, OfferType
<1>4. \A other \in Cpus : other # cpu =>
         ring'[other] = ring[other] /\ lost'[other] = lost[other] /\ offered'[other] = offered[other]
  BY <1>1 DEF Output
<1>5. \A other \in fds : other # cpu => Explained(other)'
  BY <1>1, <1>2, <1>4 DEF GapInv, Explained, Stream
<1>6. CASE cpu \notin fds
  <2>1. UNCHANGED <<ring, lost, offered>>
    BY <1>6 DEF Output
  <2>2. QED
    BY <1>2, <1>5, <1>6, <2>1 DEF GapInv, TakenOK, Fresh
<1>7. CASE cpu \in fds /\ ~Fits(ring[cpu], lost[cpu], RingSize)
  <2>1. ring' = ring /\ lost'[cpu] = lost[cpu] + 1 /\ offered'[cpu] = offered[cpu] + 1
    BY <1>1, <1>7 DEF Output
  <2>2. Stream(cpu)' = Stream(cpu) /\ EndOf(Stream(cpu)) \in Nat
    BY <1>2, <2>1, StreamType, EndOfType DEF GapInv, Stream
  <2>3. Explained(cpu) /\ lost[cpu] \in Nat /\ offered[cpu] \in Nat
    BY <1>1, <1>7 DEF GapInv
  <2>4. Chained(Stream(cpu)') /\ EndOf(Stream(cpu)') + lost'[cpu] = offered'[cpu]
    BY <2>1, <2>2, <2>3 DEF Explained
  <2>5. Explained(cpu)'
    BY <2>4 DEF Explained, Chained, EndOf, Before
  <2>6. QED
    BY <1>1, <1>2, <1>4, <1>5, <1>7, <2>1, <2>5 DEF GapInv, TakenOK, Fresh
<1>8. CASE cpu \in fds /\ Fits(ring[cpu], lost[cpu], RingSize)
  <2>1. ring'[cpu] = ring[cpu] \o records /\ lost'[cpu] = 0 /\ offered'[cpu] = offered[cpu] + 1
    BY <1>1, <1>8 DEF Output
  <2> HIDE DEF records
  <2>2. taken[cpu] <= Len(ring[cpu]) /\ Explained(cpu)
    BY <1>8 DEF GapInv, TakenOK
  <2>3. /\ Stream(cpu) \in Seq(Records) /\ ring[cpu] \in Seq(Records)
        /\ delivered[cpu] \in Seq(Records) /\ taken[cpu] \in Nat
        /\ Consume(ring[cpu], taken[cpu]) \in Seq(Records)
    BY StreamType DEF GapInv
  <2>4. Consume(ring[cpu] \o records, taken[cpu]) = Consume(ring[cpu], taken[cpu]) \o records
    BY <1>3, <2>2, <2>3, ConsumeAppend
  <2>5. Stream(cpu)' = Stream(cpu) \o records
    <3> DEFINE rest == Consume(ring[cpu], taken[cpu])
    <3>1. Stream(cpu)' = delivered[cpu] \o (rest \o records)
      BY <1>2, <2>1, <2>4 DEF Stream
    <3>2. delivered[cpu] \in Seq(Records) /\ rest \in Seq(Records) /\ records \in Seq(Records)
      BY <1>3, <2>3
    <3> HIDE DEF rest
    <3>3. delivered[cpu] \o (rest \o records) = (delivered[cpu] \o rest) \o records
      BY <3>2, RecordsAssociative
    <3>4. QED
      BY <3>1, <3>3 DEF Stream, rest
  <2>6. Chained(Stream(cpu) \o records) /\ EndOf(Stream(cpu) \o records) = offered[cpu] + 1
    BY <1>1, <2>2, <2>3, ChainOffer, EndOfType DEF Explained, records
  <2>7. Explained(cpu)'
    <3>1. Chained(Stream(cpu)') /\ EndOf(Stream(cpu)') + lost'[cpu] = offered'[cpu]
      BY <1>1, <2>1, <2>5, <2>6
    <3>2. QED
      BY <3>1 DEF Explained, Chained, EndOf, Before
  <2>8. Len(ring'[cpu]) >= Len(ring[cpu])
    BY <1>3, <2>1, <2>3
  <2>9. taken[cpu] <= Len(ring'[cpu])
    BY <1>3, <2>1, <2>2, <2>3, <2>8
  <2>10. TakenOK'
    BY <1>1, <1>2, <1>4, <2>9 DEF GapInv, TakenOK
  <2>11. QED
    BY <1>1, <1>2, <1>4, <1>5, <1>8, <2>7, <2>10 DEF GapInv, Fresh
<1>9. QED
  BY <1>6, <1>7, <1>8

LEMMA GapRead ==
    ASSUME GapInv, NEW cpu \in Cpus, ReadRecords(cpu)
    PROVE  TakenOK' /\ Fresh' /\ \A other \in fds' : Explained(other)'
<1>1. /\ delivered \in [Cpus -> Seq(Records)] /\ taken \in [Cpus -> Nat] /\ fds \subseteq Cpus
      /\ ring \in [Cpus -> Seq(Records)]
  BY DEF GapInv, TypeOK, SharedTypeOK, UserTypeOK
<1>2. /\ upc = "records" /\ upc' = "tail" /\ UNCHANGED <<ring, lost, offered, fds>>
      /\ delivered'[cpu] = delivered[cpu] \o ring[cpu] /\ taken'[cpu] = Len(ring[cpu])
      /\ \A other \in Cpus : other # cpu =>
            delivered'[other] = delivered[other] /\ taken'[other] = taken[other]
  BY <1>1 DEF ReadRecords, sharedVars, mapVars, ringVars
<1>3. \A other \in Cpus : taken[other] = 0
  BY <1>2 DEF GapInv, TakenOK
<1>4. TakenOK'
  <2>1. \A other \in Cpus : Len(ring[other]) \in Nat
    BY <1>1
  <2>2. \A other \in Cpus : taken'[other] = IF other = cpu THEN Len(ring[cpu]) ELSE 0
    BY <1>2, <1>3
  <2>3. \A other \in Cpus : taken'[other] <= Len(ring'[other])
    BY <1>2, <2>1, <2>2
  <2>4. \A one, other \in Cpus : taken'[one] > 0 /\ taken'[other] > 0 => one = other
    BY <2>2
  <2>5. \A other \in fds' : taken'[other] <= Len(ring'[other])
    BY <1>1, <1>2, <2>3
  <2>6. QED
    BY <1>2, <2>4, <2>5 DEF TakenOK
<1>5. Stream(cpu)' = Stream(cpu)
  <2>1. ring[cpu] \in Seq(Records) /\ delivered[cpu] \in Seq(Records)
    BY <1>1
  <2>2. Stream(cpu)' = (delivered[cpu] \o ring[cpu]) \o <<>>
    BY <1>2, <2>1, ConsumeEnds DEF Stream
  <2>3. Stream(cpu) = delivered[cpu] \o ring[cpu]
    BY <1>3, <2>1, ConsumeEnds DEF Stream
  <2>4. QED
    BY <2>1, <2>2, <2>3, ConcatProperties, ConcatEmptySeq
<1>6. \A other \in fds : Stream(other)' = Stream(other)
  BY <1>1, <1>2, <1>5 DEF Stream
<1>7. \A other \in fds' : Explained(other)'
  BY <1>2, <1>6 DEF GapInv, Explained, Chained, EndOf, Before
<1>8. QED
  BY <1>2, <1>4, <1>7 DEF Fresh

LEMMA GapAdvance ==
    ASSUME GapInv, NEW cpu \in Cpus, AdvanceTail(cpu)
    PROVE  TakenOK' /\ Fresh' /\ \A other \in fds' : Explained(other)'
<1>1. /\ taken \in [Cpus -> Nat] /\ fds \subseteq Cpus /\ ring \in [Cpus -> Seq(Records)]
  BY DEF GapInv, TypeOK, SharedTypeOK, UserTypeOK
<1>2. /\ upc = "tail" /\ upc' \in {"poll", "records"} /\ UNCHANGED <<delivered, lost, offered, fds>>
      /\ taken[cpu] > 0 /\ taken'[cpu] = 0
      /\ ring'[cpu] = Consume(ring[cpu], taken[cpu])
      /\ \A other \in Cpus : other # cpu =>
            ring'[other] = ring[other] /\ taken'[other] = taken[other]
  BY <1>1 DEF AdvanceTail, Advance, mapVars
<1>3. \A other \in Cpus : taken'[other] = 0
  BY <1>1, <1>2 DEF GapInv, TakenOK
<1>4. ring'[cpu] \in Seq(Records) /\ Consume(ring'[cpu], 0) = ring'[cpu]
  BY <1>2, StreamType, ConsumeEnds DEF GapInv
<1>5. TakenOK'
  <2>1. \A other \in fds : ring'[other] \in Seq(Records)
    BY <1>1, <1>2, <1>4
  <2>2. QED
    BY <1>1, <1>2, <1>3, <2>1 DEF TakenOK
<1>6. \A other \in fds : Stream(other)' = Stream(other)
  BY <1>1, <1>2, <1>4 DEF Stream
<1>7. \A other \in fds' : Explained(other)'
  BY <1>2, <1>6 DEF GapInv, Explained, Chained, EndOf, Before
<1>8. QED
  BY <1>2, <1>5, <1>7 DEF Fresh

LEMMA GapStore ==
    ASSUME GapInv, NEW cpu \in Cpus, NewStore(cpu)
    PROVE  TakenOK' /\ Fresh' /\ \A other \in fds' : Explained(other)'
<1>1. /\ upc = "new" /\ upc' \in {"new", "poll"} /\ fds' = fds \union {cpu} /\ cpu \notin fds
      /\ UNCHANGED <<ring, taken, delivered, lost, offered>>
  BY DEF NewStore, StoreFor, ringVars
<1>2. /\ delivered[cpu] = <<>> /\ ring[cpu] = <<>> /\ lost[cpu] = 0 /\ offered[cpu] = 0
      /\ taken[cpu] = 0
  BY <1>1 DEF GapInv, Fresh, TakenOK
<1>3. Explained(cpu)'
  <2>1. Stream(cpu)' = <<>>
    BY <1>1, <1>2 DEF Stream, Consume
  <2>2. Chained(<<>>) /\ EndOf(<<>>) = 0
    BY DEF Chained, EndOf, Before
  <2>3. Chained(Stream(cpu)') /\ EndOf(Stream(cpu)') + lost'[cpu] = offered'[cpu]
    BY <1>1, <1>2, <2>1, <2>2
  <2>4. QED
    BY <2>3 DEF Explained, Chained, EndOf, Before
<1>4. \A other \in fds : Explained(other)'
  BY <1>1 DEF GapInv, Explained, Stream, Chained, EndOf, Before
<1>5. TakenOK' /\ Fresh'
  BY <1>1, <1>2 DEF GapInv, TakenOK, Fresh
<1>6. QED
  BY <1>1, <1>3, <1>4, <1>5

LEMMA GapStep == GapInv /\ [Next]_vars => GapInv'
<1> SUFFICES ASSUME GapInv, [Next]_vars PROVE GapInv'
  OBVIOUS
<1>1. TypeOK'
  BY TypeStep DEF GapInv
<1> SUFFICES TakenOK' /\ Fresh' /\ \A other \in fds' : Explained(other)'
  BY <1>1 DEF GapInv
<1>2. ASSUME UNCHANGED <<ring, taken, delivered, lost, offered, fds>>,
             upc' \in {"open", "load", "configure", "attach", "new"} =>
                 upc \in {"open", "load", "configure", "attach", "new"},
             upc' \notin {"tail", "killed"} => upc \notin {"tail", "killed"}
      PROVE  TakenOK' /\ Fresh' /\ \A other \in fds' : Explained(other)'
  BY <1>2 DEF GapInv, TakenOK, Fresh, Explained, Stream, Chained, EndOf, Before
<1>3. CASE KernelNext /\ UNCHANGED userVars
  <2>1. CASE \E cpu \in Cpus : Output(cpu)
    BY <1>3, <2>1, GapOutput
  <2>2. CASE ~\E cpu \in Cpus : Output(cpu)
    BY <1>2, <1>3, <2>2
       DEF KernelNext, KernelStep, Fire, Start, StoreAndCopy, CheckMessage, CheckData, Check,
           ReadMessage, ReadData, ReadAt, sharedVars, mapVars, ringVars, userVars
  <2>3. QED
    BY <2>1, <2>2
<1>4. CASE Open \/ Load \/ Configure \/ Attach \/ PollWait \/ PollInterrupted \/ PollFails \/ Destroy
  BY <1>2, <1>4 DEF Open, Load, Configure, Attach, PollWait, PollInterrupted, PollFails, LeaveLoop,
                    Destroy, return, sharedVars, mapVars, ringVars
<1>5. CASE NewFails \/ Free \/ Sigint
  <2>1. /\ fds' = {} /\ UNCHANGED taken /\ upc' \in {"done", "destroy", "killed"}
        /\ upc' # "killed" => upc \in {"new", "free"}
    BY <1>5 DEF NewFails, NewGivesUp, Free, Sigint, return
  <2>2. QED
    BY <2>1 DEF GapInv, TakenOK, Fresh
<1>6. CASE \E cpu \in Cpus : NewStore(cpu)
  BY <1>6, GapStore
<1>7. CASE \E cpu \in Cpus : ReadRecords(cpu) \/ AdvanceTail(cpu)
  BY <1>7, GapRead, GapAdvance
<1>8. CASE UNCHANGED vars
  BY <1>2, <1>8 DEF vars, sharedVars, mapVars, ringVars, userVars
<1>9. QED
  BY <1>3, <1>4, <1>5, <1>6, <1>7, <1>8 DEF Next, UserNext, Startup, Polling, Cleanup

(***************************************************************************)
(* Whatever the speed of the CPUs and of main, every sample offered to a   *)
(* ring is in the stream of its CPU once and in order, or accounted for.   *)
(***************************************************************************)
THEOREM GapsAccounted == Spec => []GapsExplained
<1>1. GapInv => GapsExplained
  BY DEF GapInv, GapsExplained, Explained, Chained, EndOf, Before
<1>2. QED
  BY <1>1, GapInit, GapStep, PTL DEF Spec

-----------------------------------------------------------------------------
\* Until it is freed, the perf buffer that perf_buffer__new returned is complete.
AllOpen == upc \in {"poll", "records", "tail", "free"} => fds = Cpus

LEMMA AllOpenStep == AllOpen /\ [Next]_vars => AllOpen'
<1> SUFFICES ASSUME AllOpen, [Next]_vars PROVE AllOpen'
  OBVIOUS
<1> USE DEF AllOpen, sharedVars, mapVars
<1>1. CASE KernelNext /\ UNCHANGED userVars
  BY <1>1 DEF userVars, KernelNext, KernelStep, Fire, Start, StoreAndCopy, CheckMessage, CheckData,
              Check, ReadMessage, ReadData, ReadAt, Output
<1>2. CASE Startup
  BY <1>2 DEF Startup, Open, Load, Configure, Attach, NewStore, StoreFor, NewFails, NewGivesUp, return
<1>3. CASE Polling \/ PollInterrupted \/ PollFails
  BY <1>3 DEF Polling, PollWait, ReadRecords, AdvanceTail, Advance, PollInterrupted, PollFails, LeaveLoop
<1>4. CASE Cleanup \/ Sigint
  BY <1>4 DEF Cleanup, Free, Destroy, Sigint, return
<1>5. CASE UNCHANGED vars
  BY <1>5 DEF vars, userVars
<1>6. QED
  BY <1>1, <1>2, <1>3, <1>4, <1>5 DEF Next, UserNext

(***************************************************************************)
(* While main polls, no output of kprobe_exec misses the perf buffer,      *)
(* whenever its run started.                                               *)
(***************************************************************************)
THEOREM LoopMissesNothing == Spec => OutputsReachBuffer
<1>1. Init => AllOpen
  BY DEF Init, UserInit, AllOpen
<1>2. ASSUME AllOpen, [Next]_vars
      PROVE  [unbuffered' # unbuffered => upc \notin {"poll", "records", "tail", "free"}]_vars
  <2>1. CASE KernelNext
    BY <1>2, <2>1 DEF AllOpen, KernelNext, KernelStep, Fire, Start, StoreAndCopy, CheckMessage,
                      CheckData, Check, ReadMessage, ReadData, ReadAt, Output, sharedVars, ringVars
  <2>2. CASE UserNext
    BY <2>2 DEF UserNext, Startup, Open, Load, Configure, Attach, NewStore, StoreFor, NewFails,
                NewGivesUp, Polling, PollWait, ReadRecords, AdvanceTail, Advance, PollInterrupted,
                PollFails, LeaveLoop, Cleanup, Free, Destroy, Sigint, sharedVars, ringVars
  <2>3. QED
    BY <1>2, <2>1, <2>2 DEF Next
<1>3. QED
  BY <1>1, <1>2, AllOpenStep, PTL DEF Spec, OutputsReachBuffer

-----------------------------------------------------------------------------
(***************************************************************************)
(* The refinement.  The records of a ring that main has not read yet are   *)
(* what is pending: reading them is the abstract receipt, and giving the   *)
(* space back a stutter, whatever was written to the ring in between.      *)
(***************************************************************************)
Unread == [cpu \in Cpus |-> Consume(ring[cpu], taken[cpu])]

LEMMA RefineOffer ==
    ASSUME GapInv, NEW cpu \in Cpus, Output(cpu), UNCHANGED userVars
    PROVE  Promised!StreamOffer(cpu) \/ UNCHANGED (Promised!streamVars)
<1> DEFINE records == Offer(lost[cpu], offered[cpu] + 1, data[cpu])
<1>1. /\ lost[cpu] \in Nat /\ offered[cpu] \in Nat /\ fds \subseteq Cpus
      /\ ring \in [Cpus -> Seq(Records)] /\ data[cpu] \in Events
  BY DEF GapInv, TypeOK, SharedTypeOK, KernelTypeOK
<1>2. UNCHANGED <<fds, taken, delivered>>
  BY DEF Output, userVars, mapVars
<1>3. CASE cpu \notin fds
  <2>1. UNCHANGED <<ring, lost, offered>>
    BY <1>3 DEF Output
  <2>2. QED
    BY <1>2, <2>1 DEF Promised!streamVars
<1>4. CASE cpu \in fds /\ ~Fits(ring[cpu], lost[cpu], RingSize)
  <2>1. /\ offered' = [offered EXCEPT ![cpu] = @ + 1]
        /\ lost' = [lost EXCEPT ![cpu] = @ + 1] /\ UNCHANGED ring
    BY <1>4 DEF Output
  <2>2. QED
    BY <1>2, <1>4, <2>1 DEF Promised!StreamOffer, Promised!StreamDrop
<1>5. CASE cpu \in fds /\ Fits(ring[cpu], lost[cpu], RingSize)
  <2>1. /\ offered' = [offered EXCEPT ![cpu] = @ + 1] /\ lost' = [lost EXCEPT ![cpu] = 0]
        /\ ring' = [ring EXCEPT ![cpu] = @ \o records]
    BY <1>5 DEF Output
  <2>2. records \in Seq(Records)
    <3>1. offered[cpu] + 1 \in Nat \ {0}
      BY <1>1
    <3>2. QED
      BY <1>1, <3>1, OfferType
  <2> HIDE DEF records
  <2>3. ring[cpu] \in Seq(Records) /\ taken[cpu] \in Nat /\ taken[cpu] <= Len(ring[cpu])
    BY <1>5, StreamType DEF GapInv, TakenOK
  <2>4. Consume(ring[cpu] \o records, taken[cpu]) = Consume(ring[cpu], taken[cpu]) \o records
    BY <2>2, <2>3, ConsumeAppend
  <2>5. ring'[cpu] = ring[cpu] \o records /\ \A other \in Cpus : other # cpu => ring'[other] = ring[other]
    BY <1>1, <2>1
  <2>6. Unread' = [Unread EXCEPT ![cpu] = @ \o records]
    BY <1>2, <2>4, <2>5 DEF Unread
  <2>7. Promised!StreamAccept(cpu, data[cpu])
    <3>1. Promised!Offer(lost[cpu], offered[cpu] + 1, data[cpu]) = records
      BY DEF Promised!Offer, Promised!Sample, Promised!LostRecord, Offer, Sample, LostRecord, records
    <3>2. QED
      BY <2>1, <2>6, <3>1 DEF Promised!StreamAccept, Unread
  <2>8. QED
    BY <1>1, <1>2, <1>5, <2>1, <2>7 DEF Promised!StreamOffer
<1>6. QED
  BY <1>3, <1>4, <1>5

LEMMA RefineReceive ==
    ASSUME GapInv, NEW cpu \in Cpus, ReadRecords(cpu), ready \subseteq fds
    PROVE  Promised!StreamReceive(cpu)
<1>1. ring \in [Cpus -> Seq(Records)] /\ taken \in [Cpus -> Nat]
  BY DEF GapInv, TypeOK, SharedTypeOK, UserTypeOK
<1>2. /\ upc = "records" /\ cpu \in fds /\ UNCHANGED <<ring, lost, offered, fds>>
      /\ delivered' = [delivered EXCEPT ![cpu] = @ \o ring[cpu]]
      /\ taken' = [taken EXCEPT ![cpu] = Len(ring[cpu])]
  BY DEF ReadRecords, sharedVars, mapVars, ringVars
<1>3. Consume(ring[cpu], taken[cpu]) = ring[cpu] /\ Consume(ring[cpu], Len(ring[cpu])) = <<>>
  BY <1>1, <1>2, ConsumeEnds DEF GapInv, TakenOK
<1>4. Unread' = [Unread EXCEPT ![cpu] = <<>>] /\ Unread[cpu] = ring[cpu]
  BY <1>1, <1>2, <1>3 DEF Unread
<1>5. QED
  BY <1>2, <1>4 DEF Promised!StreamReceive, Unread

LEMMA RefineAdvance ==
    ASSUME GapInv, NEW cpu \in Cpus, AdvanceTail(cpu)
    PROVE  UNCHANGED (Promised!streamVars)
<1>1. ring \in [Cpus -> Seq(Records)] /\ taken \in [Cpus -> Nat]
  BY DEF GapInv, TypeOK, SharedTypeOK, UserTypeOK
<1>2. /\ UNCHANGED <<delivered, lost, offered, fds>>
      /\ ring'[cpu] = Consume(ring[cpu], taken[cpu]) /\ taken'[cpu] = 0
      /\ \A other \in Cpus : other # cpu => ring'[other] = ring[other] /\ taken'[other] = taken[other]
  BY <1>1 DEF AdvanceTail, Advance, mapVars
<1>3. Consume(ring'[cpu], taken'[cpu]) = Consume(ring[cpu], taken[cpu])
  BY <1>2, StreamType, ConsumeEnds DEF GapInv
<1>4. Unread' = Unread
  BY <1>2, <1>3 DEF Unread
<1>5. QED
  BY <1>2, <1>4 DEF Promised!streamVars, Unread

LEMMA RefineClose ==
    ASSUME GapInv, fds' = {}, ring' = [cpu \in Cpus |-> <<>>],
           UNCHANGED <<offered, lost, delivered, taken>>
    PROVE  Promised!StreamClose
<1>1. \A cpu \in Cpus : taken[cpu] \in Nat
  BY DEF GapInv, TypeOK, UserTypeOK
<1>2. \A cpu \in Cpus : Consume(ring'[cpu], taken'[cpu]) = <<>>
  <2>1. \A n \in Nat : Consume(<<>>, n) = <<>>
    BY DEF Consume
  <2>2. QED
    BY <1>1, <2>1
<1>3. QED
  BY <1>2 DEF Promised!StreamClose

\* The rings that a poll still has to read are open.
ReadyOpen == upc \in {"records", "tail"} => ready \subseteq fds

StreamInv == GapInv /\ ReadyOpen

LEMMA StreamInvInit == Init => StreamInv
BY GapInit DEF StreamInv, ReadyOpen, Init, UserInit

LEMMA StreamInvStep == StreamInv /\ [Next]_vars => StreamInv'
<1> SUFFICES ASSUME StreamInv, [Next]_vars PROVE ReadyOpen'
  BY GapStep DEF StreamInv
<1>1. CASE KernelNext /\ UNCHANGED userVars
  <2>1. UNCHANGED <<fds, upc, ready>>
    BY <1>1 DEF KernelNext, KernelStep, Fire, Start, StoreAndCopy, CheckMessage, CheckData, Check,
                ReadMessage, ReadData, ReadAt, Output, sharedVars, mapVars, userVars
  <2>2. QED
    BY <2>1 DEF StreamInv, ReadyOpen
<1>2. CASE Polling
  BY <1>2 DEF Polling, PollWait, ReadRecords, AdvanceTail, Advance, StreamInv, ReadyOpen,
              sharedVars, mapVars
<1>3. CASE Startup \/ PollInterrupted \/ PollFails \/ Cleanup \/ Sigint
  BY <1>3 DEF Startup, Open, Load, Configure, Attach, NewStore, StoreFor, NewFails, NewGivesUp, PollInterrupted,
              PollFails, LeaveLoop, Cleanup, Free, Destroy, Sigint, return, ReadyOpen
<1>4. CASE UNCHANGED vars
  BY <1>4 DEF vars, sharedVars, mapVars, userVars, StreamInv, ReadyOpen
<1>5. QED
  BY <1>1, <1>2, <1>3, <1>4 DEF Next, UserNext

LEMMA StreamStep == StreamInv /\ [Next]_vars => [Promised!StreamNext]_(Promised!streamVars)
<1> SUFFICES ASSUME StreamInv, [Next]_vars
             PROVE  Promised!StreamNext \/ UNCHANGED (Promised!streamVars)
  OBVIOUS
<1>1. ASSUME UNCHANGED <<ring, taken, delivered, lost, offered, fds>>
      PROVE  UNCHANGED (Promised!streamVars)
  BY <1>1 DEF Promised!streamVars
<1>2. CASE KernelNext /\ UNCHANGED userVars
  <2>1. CASE \E cpu \in Cpus : Output(cpu)
    BY <1>2, <2>1, RefineOffer DEF StreamInv, Promised!StreamNext
  <2>2. CASE ~\E cpu \in Cpus : Output(cpu)
    BY <1>1, <1>2, <2>2
       DEF KernelNext, KernelStep, Fire, Start, StoreAndCopy, CheckMessage, CheckData, Check,
           ReadMessage, ReadData, ReadAt, sharedVars, mapVars, ringVars, userVars
  <2>3. QED
    BY <2>1, <2>2
<1>3. CASE Open \/ Load \/ Configure \/ Attach \/ PollWait \/ PollInterrupted \/ PollFails \/ Destroy
  BY <1>1, <1>3 DEF Open, Load, Configure, Attach, PollWait, PollInterrupted, PollFails, LeaveLoop,
                    Destroy, sharedVars, mapVars, ringVars
<1>4. CASE NewFails \/ Free \/ Sigint
  <2>1. /\ fds' = {} /\ ring' = [cpu \in Cpus |-> <<>>]
        /\ UNCHANGED <<offered, lost, delivered, taken>>
    BY <1>4 DEF NewFails, NewGivesUp, Free, Sigint
  <2>2. QED
    BY <2>1, RefineClose DEF StreamInv, Promised!StreamNext
<1>5. ASSUME NEW cpu \in Cpus, NewStore(cpu)
      PROVE  Promised!StreamNext
  <2>1. /\ upc = "new" /\ fds' = fds \union {cpu} /\ cpu \notin fds
        /\ UNCHANGED <<ring, taken, delivered, lost, offered>>
    BY <1>5 DEF NewStore, StoreFor, ringVars
  <2>2. offered[cpu] = 0
    BY <2>1 DEF StreamInv, GapInv, Fresh
  <2>3. Promised!StreamOpen(cpu)
    BY <2>1, <2>2 DEF Promised!StreamOpen
  <2>4. QED
    BY <2>3 DEF Promised!StreamNext
<1>6. ASSUME NEW cpu \in Cpus, ReadRecords(cpu)
      PROVE  Promised!StreamNext
  <2>1. ready \subseteq fds
    BY <1>6 DEF ReadRecords, StreamInv, ReadyOpen
  <2>2. QED
    BY <1>6, <2>1, RefineReceive DEF StreamInv, Promised!StreamNext
<1>7. ASSUME NEW cpu \in Cpus, AdvanceTail(cpu)
      PROVE  UNCHANGED (Promised!streamVars)
  BY <1>7, RefineAdvance DEF StreamInv
<1>8. CASE UNCHANGED vars
  BY <1>1, <1>8 DEF vars, sharedVars, mapVars, ringVars, userVars
<1>9. QED
  BY <1>2, <1>3, <1>4, <1>5, <1>6, <1>7, <1>8 DEF Next, UserNext, Startup, Polling, Cleanup

(***************************************************************************)
(* hello-verifier keeps the promise of a perf buffer, for every number of  *)
(* CPUs and every size of the rings: what is sent is received once, in     *)
(* order, and behind the count of what was dropped before it.              *)
(***************************************************************************)
THEOREM StreamRefinement == Spec => ImplementsStream
<1>1. Init => Promised!StreamInit
  <2> SUFFICES ASSUME Init PROVE Promised!StreamInit
    OBVIOUS
  <2>1. Consume(<<>>, 0) = <<>>
    BY DEF Consume
  <2>2. QED
    BY <2>1 DEF Init, SharedInit, UserInit, Promised!StreamInit
<1>2. QED
  BY <1>1, StreamInvInit, StreamInvStep, StreamStep, PTL DEF Spec, ImplementsStream, Promised!StreamSpec
====
