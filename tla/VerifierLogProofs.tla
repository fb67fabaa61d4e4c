---- MODULE VerifierLogProofs ----
(***************************************************************************)
(* Theorems about VerifierLog, for an array of any size and any contents.  *)
(***************************************************************************)
EXTENDS VerifierLog, SkeletonProofs

(***************************************************************************)
(* The inductive invariant.  What is printed is the array up to i; the     *)
(* loop has passed no two zero bytes in a row; once it has ended it stands *)
(* at two zero bytes or at the end; and the log lies where the load put    *)
(* it.                                                                     *)
(***************************************************************************)
PrintedPrefix == i = Len(printed) /\ \A j \in 1 .. i : printed[j] = log_buf[j - 1]

NoPairPassed == \A j \in 0 .. i - 1 : log_buf[j] # "NUL" \/ log_buf[j + 1] # "NUL"

EndedAtPair ==
    ~printing /\ length > 0 => i = LogSize \/ (log_buf[i] = "NUL" /\ log_buf[i + 1] = "NUL")

LogInPlace ==
    length > 0 => /\ \A j \in 0 .. length - 1 : log_buf[j] = "log"
                  /\ log_buf[length] = "NUL"

ReadsBehind ==
    /\ reads \subseteq 0 .. LogSize
    /\ LogSize \in reads => log_buf[LogSize - 1] = "NUL" /\ i >= LogSize - 1

LogInv == LogTypeOK /\ PrintedPrefix /\ NoPairPassed /\ EndedAtPair /\ LogInPlace /\ ReadsBehind

USE LogSizeNat

LEMMA LogInvInit == LogInit => LogInv
BY DEF LogInit, LogInv, LogTypeOK, PrintedPrefix, NoPairPassed, EndedAtPair, LogInPlace,
       ReadsBehind, Bytes

LEMMA LogInvStep == LogInv /\ [StartupNext]_startupVars => LogInv'
<1> SUFFICES ASSUME LogInv, [StartupNext]_startupVars PROVE LogInv'
  OBVIOUS
<1>1. ASSUME LoadAndLog PROVE LogInv'
  <2>1. /\ length' \in 0 .. LogSize - 1 /\ printing' = TRUE /\ i' = 0
        /\ printed' = <<>> /\ reads' = {}
        /\ log_buf' = WithLog(length') \/ (length' = 0 /\ log_buf' = WithoutLog)
    BY <1>1 DEF LoadAndLog
  <2>2. /\ WithLog(length') \in [0 .. LogSize -> Bytes]
        /\ WithoutLog \in [0 .. LogSize -> Bytes]
    BY <2>1 DEF WithLog, WithoutLog, Old, Bytes
  <2>3. LogTypeOK'
    BY <2>1, <2>2 DEF LogTypeOK
  <2>4. LogInPlace'
    BY <2>1 DEF LogInPlace, WithLog
  <2>5. PrintedPrefix' /\ NoPairPassed' /\ EndedAtPair' /\ ReadsBehind'
    BY <2>1 DEF PrintedPrefix, NoPairPassed, EndedAtPair, ReadsBehind
  <2>6. QED
    BY <2>3, <2>4, <2>5 DEF LogInv
<1>2. ASSUME Iterate PROVE LogInv'
  <2>1. /\ i \in 0 .. LogSize - 1 /\ log_buf \in [0 .. LogSize -> Bytes]
        /\ length \in 0 .. LogSize - 1 /\ printed \in Seq(Bytes) /\ Len(printed) = i
        /\ log_buf' = log_buf /\ length' = length /\ reads' = reads \union ConditionReads
        /\ ConditionReads \subseteq 0 .. LogSize
        /\ LogSize \in ConditionReads => log_buf[LogSize - 1] = "NUL" /\ i = LogSize - 1
    BY <1>2 DEF Iterate, LogInv, LogTypeOK, PrintedPrefix, ConditionReads
  <2>2. CASE TwoZeros /\ printing' = FALSE /\ UNCHANGED <<i, printed>>
    <3>1. LogTypeOK'
      BY <2>1, <2>2 DEF LogInv, LogTypeOK
    <3>2. PrintedPrefix' /\ NoPairPassed' /\ EndedAtPair' /\ LogInPlace'
      BY <2>1, <2>2 DEF LogInv, PrintedPrefix, NoPairPassed, EndedAtPair, LogInPlace, TwoZeros
    <3>3. ReadsBehind'
      BY <2>1, <2>2 DEF LogInv, ReadsBehind
    <3>4. QED
      BY <3>1, <3>2, <3>3 DEF LogInv
  <2>3. CASE /\ ~TwoZeros /\ printed' = Append(printed, log_buf[i]) /\ i' = i + 1
             /\ printing' = printing
    <3>1. /\ printed' \in Seq(Bytes) /\ Len(printed') = i + 1 /\ i' \in 0 .. LogSize
          /\ printed'[i + 1] = log_buf[i] /\ \A j \in 1 .. i : printed'[j] = printed[j]
          /\ log_buf[i] \in Bytes
      BY <2>1, <2>3
    <3>2. LogTypeOK'
      BY <2>1, <2>3, <3>1 DEF LogInv, LogTypeOK
    <3>3. PrintedPrefix'
      BY <2>1, <2>3, <3>1 DEF LogInv, PrintedPrefix
    <3>4. NoPairPassed'
      BY <2>1, <2>3 DEF LogInv, NoPairPassed, TwoZeros
    <3>5. EndedAtPair' /\ LogInPlace'
      BY <1>2, <2>1, <2>3 DEF LogInv, EndedAtPair, LogInPlace, Iterate
    <3>6. ReadsBehind'
      BY <2>1, <2>3 DEF LogInv, ReadsBehind
    <3>7. QED
      BY <3>2, <3>3, <3>4, <3>5, <3>6 DEF LogInv
  <2>4. QED
    BY <1>2, <2>2, <2>3 DEF Iterate
<1>3. ASSUME EndOfBuffer PROVE LogInv'
  BY <1>3 DEF EndOfBuffer, LogInv, LogTypeOK, PrintedPrefix, NoPairPassed, EndedAtPair,
              LogInPlace, ReadsBehind
<1>4. ASSUME UNCHANGED logVars PROVE LogInv'
  BY <1>4 DEF logVars, LogInv, LogTypeOK, PrintedPrefix, NoPairPassed, EndedAtPair,
              LogInPlace, ReadsBehind
<1>5. QED
  BY <1>1, <1>2, <1>3, <1>4 DEF StartupNext, OtherCall, startupVars

LEMMA LogInvInductive == StartupSpec => []LogInv
BY LogInvInit, LogInvStep, PTL DEF StartupSpec, StartupInit

(***************************************************************************)
(* The loop of main prints the whole log, whatever log_buf held before,    *)
(* and only the log exactly if a zero byte follows its NUL.                *)
(***************************************************************************)
THEOREM WholeLogPrinted == StartupSpec => []LogPrinted
<1>1. ASSUME LogInv PROVE LogPrinted
  <2> SUFFICES ASSUME ~printing, length > 0
               PROVE  /\ length <= Len(printed)
                      /\ \A j \in 1 .. length : printed[j] = "log"
                      /\ Len(printed) = length <=> log_buf[length + 1] = "NUL"
    BY DEF LogPrinted
  <2>1. /\ length \in 1 .. LogSize - 1 /\ i \in 0 .. LogSize /\ Len(printed) = i
        /\ \A j \in 0 .. length - 1 : log_buf[j] = "log"
        /\ log_buf[length] = "NUL"
        /\ \A j \in 1 .. i : printed[j] = log_buf[j - 1]
        /\ \A j \in 0 .. i - 1 : log_buf[j] # "NUL" \/ log_buf[j + 1] # "NUL"
        /\ i = LogSize \/ (log_buf[i] = "NUL" /\ log_buf[i + 1] = "NUL")
    BY <1>1 DEF LogInv, LogTypeOK, PrintedPrefix, NoPairPassed, EndedAtPair, LogInPlace
  <2>2. length <= i
    BY <2>1
  <2>3. \A j \in 1 .. length : printed[j] = "log"
    BY <2>1, <2>2
  <2>4. i = length <=> log_buf[length + 1] = "NUL"
    BY <2>1, <2>2
  <2>5. QED
    BY <2>1, <2>2, <2>3, <2>4
<1>2. QED
  BY <1>1, LogInvInductive, PTL

(***************************************************************************)
(* The loop of main reads one byte past log_buf at most, and only if the   *)
(* array ends in a single zero byte.                                       *)
(***************************************************************************)
THEOREM OnePastTheEnd == StartupSpec => []PastEndOnlyWhenFull
<1>1. LogInv => PastEndOnlyWhenFull
  BY DEF LogInv, LogTypeOK, NoPairPassed, ReadsBehind, PastEndOnlyWhenFull
<1>2. QED
  BY <1>1, LogInvInductive, PTL

(***************************************************************************)
(* Printing the log between its calls does not take main outside what the  *)
(* skeleton expects of a caller: what is proved of Skeleton holds of main  *)
(* with its log.                                                           *)
(***************************************************************************)
THEOREM StartupUsesSkeleton == StartupSpec => Spec
<1>1. StartupNext => Next \/ UNCHANGED vars
  BY DEF StartupNext, LoadAndLog, Iterate, EndOfBuffer, OtherCall, Next
<1>2. UNCHANGED startupVars => UNCHANGED vars
  BY DEF startupVars
<1>3. QED
  BY <1>1, <1>2, PTL DEF StartupSpec, StartupInit, Spec

(***************************************************************************)
(* So a caller that prints the log leaks nothing, frees nothing twice, is  *)
(* given complete objects and the cause of a failure, and sees the         *)
(* lifecycle of SkeletonApi.                                               *)
(***************************************************************************)
THEOREM StartupSafe ==
    StartupSpec => /\ []NoLeak /\ []NoDoubleFree /\ []HandleComplete /\ []ErrnoTellsWhy
                   /\ ImplementsApi
BY StartupUsesSkeleton, NothingLeaks, FreesOnce, ReturnsComplete, ReportsCause, ApiRefinement, PTL
====
