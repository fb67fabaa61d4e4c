---- MODULE HelloVerifier ----
(***************************************************************************)
(* hello-verifier as a whole: kprobe_exec on every CPU and main in user    *)
(* space, coupled by the link, the map my_config and the per-CPU rings.    *)
(***************************************************************************)
EXTENDS KprobeExec, HelloMain

vars == <<sharedVars, kernelVars, userVars>>

TypeOK == SharedTypeOK /\ KernelTypeOK /\ UserTypeOK

Init == SharedInit /\ KernelInit /\ UserInit

Next ==
    \/ KernelNext /\ UNCHANGED userVars
    \/ UserNext /\ UNCHANGED kernelVars

Spec == Init /\ [][Next]_vars

(***************************************************************************)
(* The scheduler lets main go on polling and cleaning up.  Whether an      *)
(* execve happens, a call of main fails or a signal arrives is up to the   *)
(* environment.                                                            *)
(***************************************************************************)
FairSpec == Spec /\ WF_vars((Polling \/ Cleanup) /\ UNCHANGED kernelVars)

-----------------------------------------------------------------------------
\* What user space has been or will be given for a CPU, in order.
Stream(cpu) == delivered[cpu] \o Consume(ring[cpu], taken[cpu])

IsSample(r) == r.kind = "sample"

\* The events in a CPU's stream.
EventsOf(cpu) ==
    LET s == Stream(cpu) IN {s[i].event : i \in {j \in DOMAIN s : IsSample(s[j])}}

(***************************************************************************)
(* "Changing this to <= means and c could have value beyond the bounds of  *)
(* the ... array" (hello-verifier.bpf.c:53, 61): although other CPUs       *)
(* increment c between the check and the read, the index that is read is   *)
(* one that was checked.                                                   *)
(***************************************************************************)
InBounds == touched \subseteq 0 .. MsgSize - 1

(***************************************************************************)
(* The unlocked c++ loses increments and never invents one: the counter of *)
(* an event is at most the number of runs started so far, and it is that   *)
(* number as long as no two runs overlapped.                               *)
(***************************************************************************)
CountersNeverAhead ==
    \A cpu \in Cpus : \A e \in EventsOf(cpu) :
        /\ e.counter <= e.id
        /\ serial /\ e.id < CMod => e.counter = e.id

(***************************************************************************)
(* my_config is written before the program is attached, so every event of  *)
(* user 501 carries the message configured for them (if the update whose   *)
(* result main ignores succeeded), and no other event does.                *)
(***************************************************************************)
MessageMatchesUid ==
    \A cpu \in Cpus : \A e \in EventsOf(cpu) :
        e.message.text = "hello Liz" <=>
            e.uid = ConfigUid /\ ConfigUid \in DOMAIN my_config

(***************************************************************************)
(* While the perf buffer exists, every sample offered to a ring is in the  *)
(* stream of its CPU exactly once and in order, or is counted by a record  *)
(* handed to lost_event before the next sample, or waits in lost for the   *)
(* next sample to announce it.                                             *)
(***************************************************************************)
GapsExplained ==
    \A cpu \in fds :
        LET s == Stream(cpu)
            before(i) == IF i = 1 THEN 0 ELSE s[i - 1].seq
        IN  /\ \A i \in DOMAIN s : s[i].seq = before(i) + s[i].count
            /\ before(Len(s) + 1) + lost[cpu] = offered[cpu]

(***************************************************************************)
(* However main ends, nothing it created stays behind: no attached         *)
(* program, no perf event, no open object.                                 *)
(***************************************************************************)
NothingLeftBehind ==
    upc \in {"done", "killed"} => ~attached /\ fds = {} /\ skel = "none"

(***************************************************************************)
(* main reports success exactly when the wait was interrupted: a start-up  *)
(* that fails at any point returns 1, and the error that ended the loop    *)
(* survives the clean-up in err and is returned.                           *)
(***************************************************************************)
StatusTellsWhy ==
    upc = "done" => /\ exit = 0 <=> cause = "interrupt"
                    /\ cause = "none" => exit = 1
                    /\ cause = "error" => exit = EIO

(***************************************************************************)
(* main keeps to the lifecycle of the skeleton, on every path: it loads    *)
(* what it opened and attaches only what is loaded.                        *)
(***************************************************************************)
Api == INSTANCE SkeletonApi WITH object <- skel, linked <- attached
KeepsToApi == Api!ApiSpec

(***************************************************************************)
(* The rings of all CPUs, filled while main reads them and given back a    *)
(* step later, are the streams of EventStream: handle_event and lost_event *)
(* are given what was sent, once and in order, and every drop is announced *)
(* before the next sample.                                                 *)
(***************************************************************************)
Promised == INSTANCE EventStream WITH
    open <- fds, received <- delivered,
    pending <- [cpu \in Cpus |-> Consume(ring[cpu], taken[cpu])]
ImplementsStream == Promised!StreamSpec

(***************************************************************************)
(* my_config does not change while kprobe_exec is attached or running, so  *)
(* the message a run copies is not overwritten under it.                   *)
(***************************************************************************)
ConfigFrozen ==
    [][my_config' # my_config => ~attached /\ \A cpu \in Cpus : kpc[cpu] = "idle"]_vars

(***************************************************************************)
(* From the return of perf_buffer__new to perf_buffer__free every output   *)
(* of kprobe_exec finds the perf event of its CPU, a run that started      *)
(* before the buffer existed included: only start-up and the end are       *)
(* exposed to the early attach.                                            *)
(***************************************************************************)
OutputsReachBuffer ==
    [][unbuffered' # unbuffered => upc \notin {"poll", "records", "tail", "free"}]_vars

(***************************************************************************)
(* A sample in a ring reaches handle_event, unless the poll loop ends by   *)
(* an interrupt, an error or Ctrl-C.                                       *)
(***************************************************************************)
InRing(cpu, n) == \E i \in DOMAIN ring[cpu] : IsSample(ring[cpu][i]) /\ ring[cpu][i].seq = n
Handled(cpu, n) == \E i \in DOMAIN delivered[cpu] :
                      IsSample(delivered[cpu][i]) /\ delivered[cpu][i].seq = n
SamplesDelivered ==
    \A cpu \in Cpus, n \in 1 .. MaxFires :
        InRing(cpu, n) /\ upc # "new" ~> Handled(cpu, n) \/ cause # "none"

(***************************************************************************)
(* An interrupted wait is a regular end of main: it cleans up and returns  *)
(* 0, unless Ctrl-C ends the process first.                                *)
(***************************************************************************)
InterruptReturnsZero ==
    cause = "interrupt" ~> (upc = "done" /\ exit = 0) \/ cause = "Ctrl-C"

-----------------------------------------------------------------------------
(***************************************************************************)
(* "This must be done before the eBPF program can send data into it."      *)
(* (bpf_helper_defs.h:669, of storing the perf events in the map): no      *)
(* output of kprobe_exec finds its CPU without a perf event.               *)
(***************************************************************************)
BufferBeforeOutput == unbuffered = 0

(***************************************************************************)
(* "Ctrl-C gives -EINTR" (hello-verifier.c:92): Ctrl-C during the wait     *)
(* makes perf_buffer__poll return, and main goes on to free and destroy.   *)
(***************************************************************************)
CtrlCGivesEINTR ==
    [][upc = "poll" /\ cause' = "Ctrl-C" /\ cause = "none" => upc' = "free"]_vars

(***************************************************************************)
(* "Configure a message to use only if the UID for the event is 501"       *)
(* (hello-verifier.c:67): what handle_event prints with %s is a message,   *)
(* so it ends within the 12 bytes of the array.                            *)
(***************************************************************************)
MessagesTerminated ==
    \A cpu \in Cpus : \A e \in EventsOf(cpu) : e.message.terminated
====
