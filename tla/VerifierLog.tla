---- MODULE VerifierLog ----
(***************************************************************************)
(* The verifier's log.  main passes its local array log_buf to open_opts;  *)
(* the load leaves the log in it; main prints it byte by byte before it    *)
(* looks at the result of the load.  This module composes the skeleton     *)
(* with that caller.  open_and_load takes no options and leaves no log.    *)
(***************************************************************************)
EXTENDS Skeleton, Sequences

CONSTANT LogSize             \* sizeof(log_buf), 64 * 1024

ASSUME LogSizeNat == LogSize \in Nat \ {0, 1}

(***************************************************************************)
(* A byte is zero, or part of the log that the last load left, or          *)
(* anything else: log_buf is not initialised, and an earlier log is only   *)
(* overwritten as far as the next one reaches.                             *)
(***************************************************************************)
Bytes == {"NUL", "log", "old"}

VARIABLES
    log_buf,     \* the array, and at LogSize the byte that follows it in memory
    length,      \* history: bytes of the log in log_buf, 0 if there is none
    printing,    \* main is in the loop that prints log_buf
    i,           \* the index of the loop
    printed,     \* the bytes printed
    reads        \* history: the indices at which the loop has read log_buf

logVars == <<log_buf, length, printing, i, printed, reads>>

LogTypeOK ==
    /\ log_buf \in [0 .. LogSize -> Bytes]
    /\ length \in 0 .. LogSize - 1
    /\ printing \in BOOLEAN
    /\ i \in 0 .. LogSize
    /\ printed \in Seq(Bytes)
    /\ reads \subseteq Nat

LogInit ==
    /\ log_buf \in [0 .. LogSize -> {"NUL", "old"}]
    /\ length = 0
    /\ printing = FALSE
    /\ i = 0
    /\ printed = <<>>
    /\ reads = {}

(***************************************************************************)
(* What the load does to log_buf.  Each program that reaches the verifier  *)
(* leaves its log there, a text and a NUL, cut off where the array ends;   *)
(* what lies behind the NUL stays.  The log of an accepted program is      *)
(* never empty.  A load that fails before any program reaches the verifier *)
(* leaves the bytes of log_buf as they are.                                *)
(***************************************************************************)
Old(byte) == IF byte = "NUL" THEN "NUL" ELSE "old"
WithLog(n) ==
    [j \in 0 .. LogSize |-> IF j < n THEN "log" ELSE IF j = n THEN "NUL" ELSE Old(log_buf[j])]
WithoutLog == [j \in 0 .. LogSize |-> Old(log_buf[j])]

\* err = hello_verifier_bpf__load(skel), and the loop starts with i = 0.
LoadAndLog ==
    /\ ~printing
    /\ Load
    /\ length' \in 0 .. LogSize - 1
    /\ bpf' = "loaded" => length' > 0
    /\ \/ log_buf' = WithLog(length')
       \/ length' = 0 /\ log_buf' = WithoutLog
    /\ printing' = TRUE
    /\ i' = 0
    /\ printed' = <<>>
    /\ reads' = {}

\* Fault: || instead of &&.
EitherZero == log_buf[i] = "NUL" \/ log_buf[i + 1] = "NUL"

TwoZeros == log_buf[i] = "NUL" /\ log_buf[i + 1] = "NUL"

\* Fault: the operands of && are swapped.
NextReadFirst == IF log_buf[i + 1] = "NUL" THEN {i, i + 1} ELSE {i + 1}

\* The indices that the condition reads: && looks at its right side only if it has to.
ConditionReads == IF log_buf[i] = "NUL" THEN {i, i + 1} ELSE {i}

\* One iteration: leave the loop at two zero bytes, or print a byte.
Iterate ==
    /\ printing
    /\ i < LogSize
    /\ reads' = reads \union ConditionReads
    /\ \/ /\ TwoZeros
          /\ printing' = FALSE
          /\ UNCHANGED <<i, printed>>
       \/ /\ ~TwoZeros
          /\ printed' = Append(printed, log_buf[i])
          /\ i' = i + 1
          /\ UNCHANGED printing
    /\ UNCHANGED <<vars, log_buf, length>>

\* The loop reaches the end of log_buf.
EndOfBuffer ==
    /\ printing
    /\ i = LogSize
    /\ printing' = FALSE
    /\ UNCHANGED <<vars, log_buf, length, i, printed, reads>>

\* Every other call of the skeleton, before the load or after the loop.
OtherCall == ~printing /\ (Create \/ Attach \/ Detach \/ Destroy) /\ UNCHANGED logVars

StartupNext == LoadAndLog \/ Iterate \/ EndOfBuffer \/ OtherCall

startupVars == <<vars, logVars>>

StartupInit == Init /\ LogInit

StartupSpec == StartupInit /\ [][StartupNext]_startupVars

-----------------------------------------------------------------------------
(***************************************************************************)
(* "Print the verifier log" (hello-verifier.c:53).  Whatever the array     *)
(* held before, the whole log is printed, from its first byte on.  Nothing *)
(* else is printed exactly if a zero byte happens to follow the log's NUL; *)
(* otherwise main goes on to print what was there before.                  *)
(***************************************************************************)
LogPrinted ==
    ~printing /\ length > 0 =>
        /\ length <= Len(printed)
        /\ \A j \in 1 .. length : printed[j] = "log"
        /\ Len(printed) = length <=> log_buf[length + 1] = "NUL"

(***************************************************************************)
(* The loop reads log_buf[i+1] without a check against the end of the      *)
(* array.  It leaves the array by one byte at most, and only if the array  *)
(* ends in a zero byte and holds no two of them in a row, as it does when  *)
(* the log fills it.                                                       *)
(***************************************************************************)
PastEndOnlyWhenFull ==
    /\ reads \subseteq 0 .. LogSize
    /\ LogSize \in reads =>
          /\ log_buf[LogSize - 1] = "NUL"
          /\ \A j \in 0 .. LogSize - 2 : log_buf[j] # "NUL" \/ log_buf[j + 1] # "NUL"
====
