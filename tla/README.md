# TLA+ models of the eBPF examples in eBPF_notes

The repository collects notes on eBPF and, under `eBPF_Koka/`, a set of small
programs: eBPF programs that run in the kernel on every `execve` or packet, and
user-space programs that load them and read what they produce. The code is
short, but every kernel program runs on all CPUs at once, without locks, against
shared maps and global variables, and its user-space side runs concurrently with
it. That is what these modules model.

Paths below are relative to `src/eBPF_Koka/`.

## The system

| Component | State | Operations | Interaction |
|---|---|---|---|
| `bpf_maps/hash_map_example.bpf.c` `hello` | map `counter_table` | one run per `execve`: lookup, read, increment, update | CPUs share the map |
| `bpf_maps_dup/hash_map_example.bpf.c` `hello` | `counter_table`, global `uid` | the same, the key being the global | CPUs share map and key |
| `verifier_example/hello-verifier.bpf.c` `kprobe_exec` | global `c`, maps `my_config`, `output` | count, look up a message, bounds-checked reads, output an event | shares maps and rings with `main` |
| `verifier_example/hello-verifier.c` `main`, `handle_event`, `lost_event` | skeleton, perf buffer, `err` | open, load, configure, attach, create buffer, poll, clean up | writes `my_config`, reads the rings |
| `verifier_example/hello-verifier.skel.h` | allocations, object, links | create, open, load, attach, detach, destroy | called by `main` |
| `packet_count`, `packet_count_float`, `error_packet_count` | global `counter` | print, increment, verdict | CPUs share the counter |
| `xdp_drop_prog`, `bpf_loop`, `xdp_hello` | none | verdict of a packet, `bpf_loop` with a callback | none |
| `bpf_maps/bpf_maps_helper.c`, `bpf_maps2`, `bpf_maps3`, `bpf_map4`, `simple` | | cannot be built or loaded as they are | |

What is hard in it: read-modify-write sequences on shared entries and globals
(`hello`, `c++`, `counter++`); a pointer into the map whose element is replaced and
reused before it is read (`*p`); values checked and then used while other CPUs
change them (`c < sizeof(message)`); limits whose error result is ignored
(`max_entries`, a full ring); the order of set-up steps against a program that is
already running (`attach` before `perf_buffer__new`); failures half way through
start-up; signals during the wait; a loop over an uninitialised array that looks
one byte ahead; a helper that does nothing when asked for too much. `PROJECT.json` lists each as a hazard with its
line and the properties aimed at it.

## Modules

| Module | Models |
|---|---|
| `BpfHelpers` | hash-map helpers, unsigned increment, halves of a 64-bit word (kernel, external) |
| `HashElements` | the elements behind `counter_table`: linked, spare and free ones, and what an update does with them (kernel, external) |
| `HashElementsProofs` | lemmas about `HashElements`: no element is in two places |
| `UserTally` | what a per-user counter promises: the abstract specification |
| `UidCounter` | `hello` of `bpf_maps` |
| `UidCounterProofs` | theorems about `UidCounter` |
| `SharedUidCounter` | `hello` of `bpf_maps_dup` |
| `SharedUidCounterProofs` | theorems about `SharedUidCounter` |
| `PerfRing` | the per-CPU perf ring with dropped samples and lost records (kernel and libbpf, external) |
| `EventStream` | what a perf buffer promises its reader: the abstract event streams |
| `HelloShared` | the link, `my_config`, and the rings: what both halves of hello-verifier touch |
| `KprobeExec` | `kprobe_exec` |
| `HelloMain` | `main` with its callbacks |
| `HelloVerifier` | the two halves composed, and the properties of the whole |
| `HelloVerifierProofs` | theorems about `HelloVerifier` |
| `SkeletonApi` | what a skeleton promises its caller: the abstract lifecycle |
| `Skeleton` | the functions of `hello-verifier.skel.h`, their allocations and error paths |
| `SkeletonProofs` | theorems about `Skeleton` |
| `VerifierLog` | the verifier's log and the loop of `main` that prints it, composed with the skeleton |
| `VerifierLogProofs` | theorems about `VerifierLog` |
| `PacketCount` | `packet_count`, `packet_count_float`, `error_packet_count` |
| `PacketCountProofs` | theorems about `PacketCount` |
| `XdpPrograms` | `xdp_drop_prog`, `xdp_parser_func`, `xdp_hello`, next to the counters |
| `XdpProgramsProofs` | theorems about `XdpPrograms` |
| `MC*` | symmetry sets for the TLC runs |

`UidCounter` and `SharedUidCounter` extend `HashElements`.
`HelloVerifier` extends `KprobeExec` and `HelloMain`, which share `HelloShared`.
`UserTally` is refined by `UidCounter`; `SkeletonApi` by `Skeleton`, and by `main`
as its user: both sides of the interface are held to one specification. `EventStream`
is refined by `HelloVerifier`, whose unread records are what is pending.
`VerifierLog` extends `Skeleton`: its `StartupSpec` is a caller that prints the log
between a load and its next call. `XdpPrograms` extends `PacketCount`: one XDP
program is attached, a counter or a stateless one.

Operators named `...WithoutX`, `...Early` and the like, each headed *Fault:*, are
deliberately wrong variants of the definition that follows them. They are not
part of any specification; each replaces the definition in a run of its own that
must break the property it is paired with in `PROJECT.json`.

### Correspondence to the code

*HashElements.* A lookup returns the address of a hash-table element
(`bpf_maps/hash_map_example.md` shows the program adding the offset of the value to it
and reading there), so `counter_table` maps each key to an element and `stored`
holds the value in each element, linked or not. The map is declared without
`BPF_F_NO_PREALLOC`, so all elements exist from the start: `max_entries` of them on a
free list (`Slots`) and one spare per CPU. Updating an existing key fills the CPU's
spare, links it, and makes the old element the spare (`Replace`); a new key takes an
element from the free list (`Insert`) or is refused when there is none (`Refuses`).
A pointer obtained earlier still points at the old element, and reads whatever has
been put into it since.

*UidCounter.* `uid`, `p` and `counter` are the locals of each CPU's run, `p` being an
element or `NULL`; `pc` is the next shared access. `Enter` is the kprobe firing
(lines 18-33), `Lookup` line 34, `Increment` lines 35-39 (the read `*p`, of what the
element holds by then, and the local increment), `Update` lines 40-42. `started`,
`runs`, `overlapped` and `refused` are history. A kprobe runs with preemption
disabled, so a CPU has one run at a time.

*SharedUidCounter.* As above, with one `uid`; the object code passes the address
of the global to both helpers, so each reads it when it is called. Its map has the
same elements.

*KprobeExec.* The interleaving points are the accesses to `c`. The C source is
racy; the committed object code fixes what the race can do: one load for
`data.counter = c; c++`, one store, one load per bounds check with the register
reused as the index, and both reads skipped when the first check fails. The copy
of the message is part of the store's step because nothing writes `my_config`
once the program is attached and nothing ever writes `message`: the one element of
`my_config` is written once and never replaced under a run (`ConfigFrozen`). The fields `pid`
and `command`, and `bpf_printk` output, carry nothing a property needs.

*HelloMain.* One action per call of `main`, each with its failure branch.
`perf_buffer__new` stores the perf events CPU by CPU; `perf_buffer__poll` is
three steps: the wait that fixes the ready CPUs, reading a ring up to its head,
and giving the space back. The message of user 501 is abstracted to its text and
whether a NUL ends it, which the uninitialised `msg` leaves open. A poll that
times out changes nothing and is no step. `Sigint` is Ctrl-C under the default
disposition, since `main` installs no handler; `PollInterrupted` is the `-EINTR`
that a stop and continue of the process causes.

*Skeleton.* One action per allocation or libbpf call of `create_skeleton`,
`open_opts` and `open_and_load`, so that each can fail on its own, and one each
for `load`, `attach`, `detach` and `destroy`. A block is named after the variable
that first points to it; `live` is what is allocated. The clean-ups are steps of
their own, `CreateErr` (lines 187-189) and `ErrOut` (78-79, and the same in
`open_and_load`), which may change `errno`; `SetErrno` (80-81) comes after them.
`cause` is history: the error of the step that failed. `bpf_object__destroy_skeleton`
is libbpf's: it does nothing for NULL, and otherwise closes links and object and
frees the two arrays and the skeleton itself. The caller is any caller that opens
before it loads, loads before it attaches and does not use a destroyed object.
The strings, sizes and addresses filled into the arrays, and the embedded ELF
image, are left out.

*VerifierLog.* `LoadAndLog` is line 52 (with the skeleton's `Load`), `Iterate` one
turn of the loop, lines 54-59, and `EndOfBuffer` its regular end. A byte is `"NUL"`,
`"log"` (of the log the last load left) or `"old"` (anything else: `log_buf` is
uninitialised stack memory, and each load of a program overwrites the log of the
one before, as `libbpf.h:158` says). Index `LogSize` is the byte behind the array:
in the committed binary it is padding of the stack frame, which can be read and
holds anything. `ConditionReads` follows the short-circuit of `&&`.

*XdpPrograms.* The stateless programs touch nothing that is shared, so a run is one
step and its outcome a record: verdict, bytes read, callback indices. A packet is
its length, whether its type field says IPv4 and whether its byte at offset 100 is
123. The numbers are the code's own (14, 100, 100000000, 2^23), none is scaled.
The committed `xdp_drop_prog.bpf.o` was built from an earlier text of the program,
so the model follows the C source. Lines 48-55 of that source quote a verifier that
refused to load the program ("BPF program is too large. Processed 1000001 insn");
they do not say of which text of it, and `bpf_loop`, which the verifier checks without
unrolling it, stands where a loop used to be (lines 34-36). The model is of the
program as written, in a kernel that accepts it: if none does, its part of
`packet_count_safety` is about no execution. The sum over `arr`, which reads `h_proto` before
it is set, reaches only a `bpf_printk`.

*PacketCount.* The object code loads `counter` for `bpf_printk` and again for the
increment, then stores it, so a run has three shared accesses. The verdict is
register r0: 2 in `packet_count`; the bits of the float 2.0, 1073741824, in
`packet_count_float`; and in `error_packet_count`, which returns nothing, the
number of bytes that `bpf_trace_printk` wrote.

*Assumptions on the kernel.* A helper reads its key once. `BPF_ANY` updates fail
only for a new key in a full table. An update runs under the lock of the bucket and
is one step: it fills the element and links it. A reader with a stale pointer may in
fact see the new value just before it is linked. The bound by the runs started holds
all the same: a count is a chain of distinct runs, each of which read the one before,
and the reader only adds itself. Map entries are not deleted,
and elements are never returned to the allocator, so a pointer always points at some
element, though not always at the one of its key. A sample that does not fit its ring is dropped and counted; the
count is announced by a record written just before the next sample that fits. The
verifier's log is a text without zero bytes and a NUL, and is cut off to fit.
`bpf_loop` calls nothing and returns an error above 2^23 iterations
(`bpf_helper_defs.h:4174`).

## Runs

| Run | Result | Shows |
|---|---|---|
| `uid_counter_safety` | passes | two CPUs, three users, two entries, values 0..4, seven runs: overlap, an element reused under a pointer, a refused user and wrap-around all occur. Counts never exceed the runs started and do not vanish; users whose own runs never overlap are counted exactly; refused users never get an entry; a step changes only its own user's count; `hello` implements `UserTally` |
| `uid_counter_race` | violated | `hash_map_example.bpf.c:7`, "How many times each different user has run programs.": two overlapping runs of a user count once |
| `uid_counter_reuse` | violated | the same comment, and `../Notes/eBPF_map.md:45`, "the counter is set to the current value in the hashtable (pointed to by p)": a run looks its user up; another CPU completes a run of that user, which replaces the element, and runs of a second user, which reuse it; `*p` is then the second user's count, and the first user is credited with it |
| `shared_uid_safety` | passes | with the global `uid`, two CPUs, three users, two entries, six runs: entries bounded by all runs started, keys are users who ran, serial runs exact |
| `shared_uid_race` | violated | the same comment in `bpf_maps_dup`: a user is credited with another's run |
| `hello_verifier_safety` | passes | two CPUs, three `execve` calls, all of `main`: indices in bounds, counters never ahead of the runs and exact when serial, messages belong to their user, nothing left behind at the end, exit status 0 only after an interrupted wait; `main` keeps to the lifecycle of `SkeletonApi`, writes `my_config` only while no run can read it, and no output misses the perf buffer while it polls |
| `hello_verifier_ring` | passes | one CPU, nine samples through a ring of three records: order, no duplicates, every gap announced; the rings implement `EventStream`. Under fairness of `main`: samples are delivered while the loop lives, although the CPU writes on while its ring is read; an interrupt ends in clean-up and status 0 |
| `hello_verifier_window` | violated | `bpf_helper_defs.h:669`, perf events stored "before the eBPF program can send data": `main` attaches first |
| `hello_verifier_sigint` | violated | `hello-verifier.c:92`, "Ctrl-C gives -EINTR": it ends the process |
| `hello_verifier_message` | violated | `hello-verifier.c:67-71`: the configured message has no NUL |
| `skeleton_safety` | passes | every failure in every sequence of calls: no leak, no double free, only complete objects returned, errno names the step that failed, across the clean-ups; implements `SkeletonApi`. With the log of the verifier in an array of four bytes, over all its earlier contents: the whole log is printed, and nothing else exactly if a zero byte follows its NUL; the loop leaves the array by one byte at most, and only if the array ends in a lone zero byte. Deadlock is checked |
| `packet_count_safety` | passes | two CPUs, thirteen packets, a counter that turns negative at 6 and wraps at 12: races only lose packets; `packet_count` passes all packets, the float verdict none, the missing return value those whose counter prints as two characters. For the stateless programs, packets on both sides of 14 and of 100 bytes: no read beyond the packet |

Some things a reader should know although no run is red for them. `main` announces
"Print the verifier log" (`hello-verifier.c:53`) and prints more than the log whenever
the byte behind the log's NUL is not zero. The rest follow from single lines of the
code, so that no property is stated about them. The loop that
`xdp_drop_prog.bpf.c:37` calls "8 million" asks for 100000000 iterations, more than
`bpf_loop` accepts, so it runs none, and nobody looks at the result. The `if` of line
39 has no braces, so the `return XDP_PASS` indented under it is unconditional and the
last `XDP_DROP` is never reached. `bpf_loop_ex.bpf.c:40` asks for one iteration, index
0, which `do_check` skips. And when the update of `my_config` fails
(`hello-verifier.c:72`), user 501 silently gets the default message, which
`MessageMatchesUid` has to allow.

*Bounds.* `MaxRuns` (runs started), `MaxFires` and `MaxPackets` bound how often users
and packets come; they are the only guards not in the code. Two CPUs are enough for
every race here, since each is between one run's accesses and another's.
`Slots`, `ValueMod`, `CMod`, `CounterMod`, `MsgSize` and `RingSize` shrink
the code's 5000000 elements, 2^64, 2^32, 2^32, 12 and 8 pages so that each limit is
reached and passed within the bound on runs; `Radix` 2 instead of 10 makes the
counter print as one, two and three characters. A ring is measured in records,
not bytes. `Skeleton` needs no bound: its state space is finite. `LogSize` 4 instead
of 65536 has room for a log with nothing, one byte and two bytes behind its NUL.

*Fairness.* Only the polling and the clean-up of `main` in `HelloVerifier` are
weakly fair: `main` is a runnable process, and a poll whose ring has a record
returns. No `execve`, signal, failure or step of a kernel program is assumed.

*Deadlock* is not checked where the system rests: when nobody calls `execve`, no
packet arrives, or `main` has ended.

## Proofs

The theorems hold for every set of CPUs and users, every table and ring size,
every number of counter values above one, and every bound on runs. Each rests on
an inductive invariant that is stronger than the property; the assumptions are the
named ASSUMEs of the modules (`NULL` is no user, message or element, CPUs and
elements are finite, the numeric constants are in range), which TLC evaluates on every run.

*HashElementsProofs.* `ElementInv`: each element is linked for one key, the spare of
one CPU, or free, and never two of these. It is what makes `Replace` and `Insert`
change one key's count only (`ReplaceEffect`, `InsertEffect`), and the number of linked
and free elements is constant, so a refusal means a table at `MaxEntries`.

*UidCounterProofs.*

* `TypeCorrect`, `CountsBounded`: `SafeInv` says nothing of the element behind a
  pointer, since it can be anybody's by now. It bounds the values in all elements
  instead, linked or not: a stored value plus the number of runs in flight (`Flying`)
  is at most the runs started, and a value about to be written counts its own run on
  top. Without the runs in flight the bound is not inductive: two of them could each
  add one to what the other wrote.
* `RaceKeepsSome`: `TraceInv` adds that a user who ran and was not refused has an
  entry, and that a zero, in the table or about to be written, means that the runs
  started have reached the width of the counter.
* `ExactCount`: `ExactInv` adds that two runs of one user in flight mark that
  user, that the pointer of an unmarked user's run is still the element linked for
  that user, and that what the run has read is still there (`ReadsCurrent`): only a
  run of the same user replaces the element.
* `RefusedForever`: `FullInv`, with the count of elements from `ElementInv`.
* `OwnEntryOnly`, an action property, from `SafeInv`.
* `TallyRefinement`, from `ExactInv`: `Enter` is the abstract `Start`, `Update` is
  `Run`, all else is a stutter. The tally promises exactness until two runs of a user
  overlap, and afterwards no more than the bound by the runs started.

*SharedUidCounterProofs.* `SharedTypeCorrect`, `BoundedCount` and `OnlyEnteredKeys` from
`SharedInv`, the same bound with runs in flight. `SerialExact` from `SerialInv`: in
a serial execution there is one run at a time, the global is its user, its pointer is
the linked element and what it has read is current, and a user who ran and has no
entry met an empty free list, which stays empty.

*HelloVerifierProofs.*

* `HelloTypeCorrect`, for the two halves together.
* `ReadsInBounds`: a run about to read holds an index that was compared
  (`CheckedIndex`); c itself may be anything by then.
* `CleansUp`, `MainKeepsToApi`: `Owned` lists what exists at each step of `main`.
* `ReportsEnd`: `Reason` says why `main` left the loop and what `err` holds until the return.
* `CountersBounded`: `Counts` bounds c and the counters in flight by the runs
  started, and says when c is exact in a serial execution.
* `RightMessage`: `Quiet` says that before the attach no run is in flight and no
  record exists, so the one write to `my_config` precedes every read; `CopiesOK`
  and `StreamsOK` carry that from the copy to the stream.
* `GapsAccounted`: `GapInv` says that at most one ring has records read and not
  given back, that they are a prefix of it, and that a CPU without a perf event
  has offered nothing. Reading and giving back then leave the stream unchanged,
  and an output extends it by exactly what it stands for (`ChainOffer`).
* `StreamRefinement`, from `GapInv` and `ReadyOpen` (the rings a poll still has to
  read are open): pending are the records behind those taken. `Output` is the
  abstract offer, an append behind what was read (`ConsumeAppend`); `ReadRecords` is
  the receipt of all that is pending; `AdvanceTail` is a stutter; `NewFails`, `Free`
  and `Sigint` close.
* `ConfigStable`, an action property, from `Owned` and `Quiet`. `StoreAndCopy` copies
  the message in one step, which is sound because of it.
* `LoopMissesNothing`, an action property, from `AllOpen`: from the return of
  `perf_buffer__new` until it is freed, the buffer has every CPU. It bounds the window
  that `hello_verifier_window` shows.

*SkeletonProofs.* `NothingLeaks`, `FreesOnce`, `ReturnsComplete`, `ReportsCause`
and `ApiRefinement` from `SkelInv`, which states for each place in the code
exactly which blocks are live. `ReportsCause` adds `CauseKept`: from the failing step
to `SetErrno` the local `err` holds the cause, whatever the clean-ups do to `errno`.

*VerifierLogProofs.* `WholeLogPrinted` and `OnePastTheEnd` from `LogInv`: what is
printed is the array up to `i`, the loop has passed no two zero bytes in a row, and
once it has ended it stands at two of them or at the end of the array. With the
log's NUL in place that decides where the loop stops. `StartupUsesSkeleton`: every
step of `StartupSpec` is one of `Skeleton` or leaves its variables alone, so the
theorems of `SkeletonProofs` hold for `main` with its log; `StartupSafe` states them.

*PacketCountProofs.* `PacketsNotInvented`; the step needs that an increment with
wrap-around follows the number of packets modulo the width (`WrapIncMod`).
`PacketVerdicts` in two parts. `VerdictInv` adds that in a serial execution what a run
has printed is still the counter, and so counts the packets whose number prints as two
characters (`VerdictsByLength`). `TwoDigits` says which numbers those are. `Digits` is a
recursive function, and the library's induction and recursion theorems cannot be
instantiated by the provers, so `DigitsDefined` shows directly that the recursion has a
solution: induction is the existence of a least counterexample (`LeastNatural`), the
solutions on `0 .. m` exist and agree (`ApproximationsExist`, `ApproximationsAgree`),
and their values along the diagonal are one on all numbers.

*XdpProgramsProofs.* `XdpReadsInBounds`, for packets of any length, from what each program's outcome is (`Outcomes`). `XdpKeepsCounters`
carries the theorems about `PacketCount` over, and `XdpCounts` states them.

Only model-checked: liveness (`SamplesDelivered`, `InterruptReturnsZero`), which is
outside what the proof system handles. Every other property of the passing runs is
proved, of the specification that the run checks.

## Plan

Done: the counters with their abstract specification and proofs; hello-verifier's
two halves, their composition and proofs; the skeleton, its lifecycle and the log;
the packet counters and the stateless XDP programs. Every program that can be built
and loaded is modelled, and every safety property the runs check is proved.

## Not modelled

* `bpf_maps/bpf_maps_helper.c` does not compile: it calls libbpf's
  `bpf_map_lookup_elem` with two of its three arguments and uses the `int` it returns
  as a pointer. No Makefile builds it.
* `bpf_maps2`: libbpf refuses its map declaration (the messages are quoted in the
  file). Its `hello` is that of `bpf_maps`.
* `bpf_maps3`: calls `bpf_map_create`, which is not a BPF helper; `bpf_sys.c` has no
  caller.
* `bpf_map4`: written for BCC, whose headers and loader are not in the repository.
* `simple`: a function in no program section; libbpf cannot load it.
* Vendored and generated files: `vmlinux.h`, `bpf_helper_defs.h` and `libbpf.h` are
  declarations without behaviour, and most of `hello-verifier.skel.h` is an embedded
  ELF image. They are nearly all of the repository's lines.
* `libbpf_print_fn`, the callbacks' output and all `bpf_printk` text.
