---- MODULE UserTally ----
(***************************************************************************)
(* What a per-user run counter promises, without saying how: a completed   *)
(* run of user u touches u's entry only; it adds exactly one as long as no *)
(* two runs of u have ever been in flight together; afterwards the entry   *)
(* may be any number of runs, anybody's, that have been started.  A run is *)
(* dropped only when u has no entry and the table is full.                 *)
(***************************************************************************)
EXTENDS BpfHelpers

CONSTANTS Uids, MaxEntries, ValueMod

VARIABLES
    tally,       \* the table, a function from a subset of Uids to counts
    started,     \* runs started, of all users
    runs,        \* completed runs of each user
    contended    \* users two of whose runs have been in flight together

tallyVars == <<tally, started, runs, contended>>

\* The count of u, 0 when u has no entry.
CountOf(u) == IF u \in DOMAIN tally THEN tally[u] ELSE 0

\* The entry of u exists, or there is room for it.
HasRoom(u) == u \in DOMAIN tally \/ Cardinality(DOMAIN tally) < MaxEntries

TallyInit ==
    /\ tally = [u \in {} |-> 0]
    /\ started = 0
    /\ runs = [u \in Uids |-> 0]
    /\ contended = {}

Start(u) ==
    /\ started' = started + 1
    /\ contended' \in {contended, contended \union {u}}
    /\ UNCHANGED <<tally, runs>>

Run(u) ==
    /\ runs' = [runs EXCEPT ![u] = @ + 1]
    /\ UNCHANGED <<started, contended>>
    /\ \/ /\ HasRoom(u)
          /\ \E n \in 0 .. started :
                /\ u \notin contended => n = WrapInc(CountOf(u), ValueMod)
                /\ tally' = bpf_map_update_elem(tally, u, n)
       \/ /\ ~HasRoom(u)
          /\ UNCHANGED tally

TallyNext == \E u \in Uids : Start(u) \/ Run(u)

TallySpec == TallyInit /\ [][TallyNext]_tallyVars
====
