---- MODULE HelloMain ----
(***************************************************************************)
(* The user-space half of hello-verifier, main of hello-verifier.c with    *)
(* its callbacks: open, load, configure, attach, create the perf buffer,   *)
(* poll until an error or an interrupt, clean up.  Between any two of its  *)
(* system calls the kernel half may run.                                   *)
(***************************************************************************)
EXTENDS HelloShared

VARIABLES
    upc,         \* the next call of main
    skel,        \* the skeleton's object: "none", "open" or "loaded"
    ready,       \* CPUs that the current poll still has to read
    taken,       \* per CPU: records read whose space is not yet given back
    delivered,   \* history, per CPU: records passed to the callbacks
    err,         \* the variable err of main, when it leaves the loop
    exit,        \* the exit status of main
    cause        \* history: why the poll loop ended

userVars == <<upc, skel, ready, taken, delivered, err, exit, cause>>

ULabels == {"open", "load", "configure", "attach", "new", "poll", "records",
            "tail", "free", "destroy", "done", "killed"}
EINTR == 4
EIO == 5       \* stands for any other error of perf_buffer__poll

UserTypeOK ==
    /\ upc \in ULabels
    /\ skel \in {"none", "open", "loaded"}
    /\ ready \subseteq Cpus
    /\ taken \in [Cpus -> Nat]
    /\ delivered \in [Cpus -> Seq(Records)]
    /\ err \in {0, -EINTR, -EIO}
    /\ exit \in {-1, 0, 1, EINTR, EIO}
    /\ cause \in {"none", "interrupt", "error", "Ctrl-C"}

UserInit ==
    /\ upc = "open"
    /\ skel = "none"
    /\ ready = {}
    /\ taken = [cpu \in Cpus |-> 0]
    /\ delivered = [cpu \in Cpus |-> <<>>]
    /\ err = 0
    /\ exit = -1
    /\ cause = "none"

\* hello_verifier_bpf__destroy: the link goes, then the maps, then the memory.
destroy ==
    /\ attached' = FALSE
    /\ skel' = "none"

return(status) ==
    /\ upc' = "done"
    /\ exit' = status

Open ==
    /\ upc = "open"
    /\ \/ skel' = "open" /\ upc' = "load" /\ UNCHANGED exit
       \/ return(1) /\ UNCHANGED skel
    /\ UNCHANGED <<sharedVars, ready, taken, delivered, err, cause>>

\* Fault: the result of the load is not checked.
LoadUnchecked ==
    /\ upc = "load"
    /\ skel' \in {"open", "loaded"}
    /\ upc' = "configure"
    /\ UNCHANGED <<sharedVars, ready, taken, delivered, err, exit, cause>>

\* Load, print the verifier's log, and give up if the verifier refused.
Load ==
    /\ upc = "load"
    /\ \/ skel' = "loaded" /\ upc' = "configure" /\ UNCHANGED <<attached, exit>>
       \/ destroy /\ return(1)
    /\ UNCHANGED <<mapVars, ringVars, ready, taken, delivered, err, cause>>

(***************************************************************************)
(* The message of user 501.  strncpy copies strlen(m) bytes, without the   *)
(* NUL, into the uninitialised msg: whether one follows is up to the       *)
(* stack.  A failure of bpf_map__update_elem goes unnoticed.               *)
(***************************************************************************)
Configure ==
    /\ upc = "configure"
    /\ \/ \E nul \in BOOLEAN :
             my_config' = bpf_map_update_elem(my_config, ConfigUid,
                             [text |-> "hello Liz", terminated |-> nul])
       \/ UNCHANGED my_config
    /\ upc' = "attach"
    /\ UNCHANGED <<attached, fds, ringVars, skel, ready, taken, delivered, err, exit, cause>>

\* Fault: the program is attached before its configuration is written.
AttachEarly ==
    /\ upc \in {"configure", "attach"}
    /\ attached' = TRUE
    /\ upc' = IF upc = "attach" THEN "new" ELSE "configure"
    /\ UNCHANGED <<mapVars, ringVars, skel, ready, taken, delivered, err, exit, cause>>

\* hello_verifier_bpf__attach attaches kprobe_exec (xdp_hello has no auto-attach).
Attach ==
    /\ upc = "attach"
    /\ \/ attached' = TRUE /\ upc' = "new" /\ UNCHANGED <<skel, exit>>
       \/ destroy /\ return(1)
    /\ UNCHANGED <<mapVars, ringVars, ready, taken, delivered, err, cause>>

StoreFor(cpu, next) ==
    /\ upc = "new"
    /\ cpu \in Cpus \ fds
    /\ fds' = fds \union {cpu}
    /\ upc' = next
    /\ UNCHANGED <<attached, my_config, ringVars, skel, ready, taken, delivered, err, exit, cause>>

\* Fault: perf_buffer__new returns after the first CPU.
NewStoreFirst(cpu) == StoreFor(cpu, "poll")

\* perf_buffer__new opens a ring for one CPU after the other.
NewStore(cpu) == StoreFor(cpu, IF fds \union {cpu} = Cpus THEN "poll" ELSE "new")

\* perf_buffer__new fails, takes back what it stored, and main returns 1.
NewGivesUp ==
    /\ upc = "new"
    /\ fds' = {}
    /\ ring' = [cpu \in Cpus |-> <<>>]
    /\ return(1)
    /\ UNCHANGED <<my_config, lost, offered, unbuffered, ready, taken, delivered, err, cause>>

\* Fault: main returns without hello_verifier_bpf__destroy.
NewFailsNoDestroy == NewGivesUp /\ UNCHANGED <<attached, skel>>

NewFails == NewGivesUp /\ destroy

-----------------------------------------------------------------------------
(***************************************************************************)
(* perf_buffer__poll.  It waits until some ring holds a record (a timeout  *)
(* returns 0 and main calls again: no step), then reads the rings that     *)
(* were ready one by one.                                                  *)
(***************************************************************************)
PollWait ==
    /\ upc = "poll"
    /\ ready' = {cpu \in fds : ring[cpu] # <<>>}
    /\ ready' # {}
    /\ upc' = "records"
    /\ UNCHANGED <<sharedVars, skel, taken, delivered, err, exit, cause>>

\* Every record up to the head goes to handle_event or lost_event.
ReadRecords(cpu) ==
    /\ upc = "records"
    /\ cpu \in ready
    /\ delivered' = [delivered EXCEPT ![cpu] = @ \o ring[cpu]]
    /\ taken' = [taken EXCEPT ![cpu] = Len(ring[cpu])]
    /\ upc' = "tail"
    /\ UNCHANGED <<sharedVars, skel, ready, err, exit, cause>>

\* The space of a ring is given back; the last ready ring ends the poll.
Advance(cpu, rest, next) ==
    /\ upc = "tail"
    /\ cpu \in ready
    /\ taken[cpu] > 0
    /\ ring' = [ring EXCEPT ![cpu] = rest]
    /\ taken' = [taken EXCEPT ![cpu] = 0]
    /\ ready' = ready \ {cpu}
    /\ upc' = IF ready' = {} THEN next ELSE "records"
    /\ UNCHANGED <<attached, mapVars, lost, offered, unbuffered, skel, delivered, err, exit, cause>>

\* Fault: the tail moves to the current head, not to the one that was read.
AdvanceTailToHead(cpu) == Advance(cpu, <<>>, "poll")

\* Fault: main leaves the loop whenever poll returns a nonzero count.
AdvanceTailAndLeave(cpu) == Advance(cpu, Consume(ring[cpu], taken[cpu]), "free")

\* Fault: what was read is not given back.
AdvanceTailForgotten(cpu) == Advance(cpu, ring[cpu], "poll")

\* What was read is given back; poll returns a count and main calls again.
AdvanceTail(cpu) == Advance(cpu, Consume(ring[cpu], taken[cpu]), "poll")

LeaveLoop(error, why) ==
    /\ upc = "poll"
    /\ err' = error
    /\ cause' = why
    /\ upc' = "free"
    /\ UNCHANGED <<sharedVars, skel, ready, taken, delivered, exit>>

\* Fault: err keeps -EINTR.
PollInterruptedErrKept == LeaveLoop(-EINTR, "interrupt")

\* The wait returns -EINTR (the process was stopped and continued): err = 0.
PollInterrupted == LeaveLoop(0, "interrupt")

PollFails == LeaveLoop(-EIO, "error")

\* perf_buffer__free removes the perf events; unread records are gone.
Free ==
    /\ upc = "free"
    /\ fds' = {}
    /\ ring' = [cpu \in Cpus |-> <<>>]
    /\ upc' = "destroy"
    /\ UNCHANGED <<attached, my_config, lost, offered, unbuffered, skel, ready, taken,
                   delivered, err, exit, cause>>

\* hello_verifier_bpf__destroy(skel); return -err
Destroy ==
    /\ upc = "destroy"
    /\ destroy
    /\ return(-err)
    /\ UNCHANGED <<mapVars, ringVars, ready, taken, delivered, err, cause>>

(***************************************************************************)
(* Ctrl-C.  main installs no handler for SIGINT, so the default action     *)
(* ends the process wherever it is; the kernel closes what it had open.    *)
(***************************************************************************)
Sigint ==
    /\ upc \notin {"done", "killed"}
    /\ upc' = "killed"
    /\ cause' = "Ctrl-C"
    /\ attached' = FALSE
    /\ fds' = {}
    /\ ring' = [cpu \in Cpus |-> <<>>]
    /\ skel' = "none"
    /\ UNCHANGED <<my_config, lost, offered, unbuffered, ready, taken, delivered, err, exit>>

Startup == Open \/ Load \/ Configure \/ Attach \/ (\E cpu \in Cpus : NewStore(cpu)) \/ NewFails
Polling == PollWait \/ \E cpu \in Cpus : ReadRecords(cpu) \/ AdvanceTail(cpu)
Cleanup == Free \/ Destroy

UserNext == Startup \/ Polling \/ PollInterrupted \/ PollFails \/ Cleanup \/ Sigint
====
