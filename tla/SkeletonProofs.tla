---- MODULE SkeletonProofs ----
(***************************************************************************)
(* Proofs about module Skeleton: memory safety of every error path, what   *)
(* the caller is told, and the refinement of SkeletonApi.  The invariant   *)
(* says, for each place in the code, exactly what is allocated there, and  *)
(* that err carries the cause of a failure from frame to frame.            *)
(***************************************************************************)
EXTENDS Skeleton, TLAPS

\* Nothing exists behind the caller's back.
Empty == live = {} /\ bpf = "none" /\ ~link

\* The object, but nothing of its skeleton.
Bare == live = {"obj"} /\ skeleton = NULL /\ bpf = "none" /\ ~link

\* Everything that a successful create_skeleton leaves.
Full == live = Blocks /\ skeleton = "s" /\ s_maps = "maps" /\ s_progs = "progs"

Shape ==
    /\ pc = "caller" /\ handle = NULL => Empty
    /\ pc = "calloc_obj" => Empty
    /\ pc = "calloc_s" => Bare
    /\ pc = "calloc_maps" =>
          /\ live = {"obj", "s"} /\ skeleton = NULL
          /\ s_maps = NULL /\ s_progs = NULL /\ bpf = "none" /\ ~link
    /\ pc = "calloc_progs" =>
          /\ live = {"obj", "s", "maps"} /\ skeleton = NULL
          /\ s_maps = "maps" /\ s_progs = NULL /\ bpf = "none" /\ ~link
    /\ pc = "open_skeleton" => Full /\ bpf = "none" /\ ~link
    /\ pc = "create_err" =>
          /\ skeleton = NULL /\ bpf = "none" /\ ~link
          /\ \/ live = {"obj"}
             \/ live = {"obj", "s"} /\ s_maps = NULL /\ s_progs = NULL
             \/ live = {"obj", "s", "maps"} /\ s_maps = "maps" /\ s_progs = NULL
    /\ pc = "err_out" => Bare \/ (Full /\ ~link)
    /\ pc = "load" => Full /\ bpf = "open" /\ ~link
    /\ pc = "set_errno" => Empty

Held == handle # NULL => pc = "caller" /\ Full /\ bpf # "none"

\* A call in progress, or one that returned an object, has not failed.
Unfailed == pc # "caller" \/ handle # NULL => ~failed

\* While errno comes and goes, err remembers the cause until it is reported.
CauseKept == pc \in {"create_err", "err_out", "set_errno"} => err = cause

SkelInv ==
    TypeOK /\ Shape /\ Held /\ Unfailed /\ CauseKept /\ NoDoubleFree /\ ErrnoTellsWhy

LEMMA SkelInit == Init => SkelInv
BY NullIsNoBlock DEF Init, SkelInv, TypeOK, Shape, Held, Unfailed, CauseKept, Empty, Bare, Full,
   NoDoubleFree, ErrnoTellsWhy, Labels, Errors, Blocks

LEMMA SkelStep == SkelInv /\ [Next]_vars => SkelInv'
<1> SUFFICES ASSUME SkelInv, [Next]_vars PROVE SkelInv'
  OBVIOUS
<1> USE NullIsNoBlock DEF SkelInv, TypeOK, Shape, Held, Unfailed, CauseKept, Empty, Bare, Full,
                          NoDoubleFree, ErrnoTellsWhy, Labels, Errors, Blocks
<1>1. CASE CallOpen
  BY <1>1 DEF CallOpen
<1>2. CASE CallocObj
  <2>1. CASE live' = live \union {"obj"} /\ skeleton' = NULL /\ pc' = "calloc_s" /\ UNCHANGED errVars
    BY <1>2, <2>1 DEF CallocObj, errVars
  <2>2. CASE /\ errno' = "ENOMEM" /\ cause' = "ENOMEM" /\ failed' = TRUE /\ pc' = "caller"
             /\ UNCHANGED <<live, skeleton, err>>
    BY <1>2, <2>2 DEF CallocObj
  <2>3. QED
    BY <1>2, <2>1, <2>2 DEF CallocObj
<1>3. CASE CallocS
  BY <1>3 DEF CallocS, fails, errVars
<1>4. CASE CallocMaps
  BY <1>4 DEF CallocMaps, fails, errVars
<1>5. CASE CallocProgs
  BY <1>5 DEF CallocProgs, Progs, fails, errVars
<1>6. CASE OpenSkeleton
  BY <1>6 DEF OpenSkeleton, fails, errVars
<1>7. CASE CreateErr \/ ErrOut \/ SetErrno
  <2>1. CASE CreateErr
    BY <2>1 DEF CreateErr, closeObject, SkeletonBlocks, free, clobbersErrno
  <2>2. CASE ErrOut
    BY <2>2 DEF ErrOut, destroyObj, closeObject, SkeletonBlocks, free, clobbersErrno
  <2>3. CASE SetErrno
    BY <2>3 DEF SetErrno
  <2>4. QED
    BY <1>7, <2>1, <2>2, <2>3
<1>8. CASE OpenAndLoad
  BY <1>8 DEF OpenAndLoad, fails, errVars
<1>9. CASE Load
  BY <1>9 DEF Load, errVars
<1>10. CASE Attach
  BY <1>10 DEF Attach, errVars
<1>11. CASE Detach
  BY <1>11 DEF Detach, errVars
<1>12. CASE Destroy
  BY <1>12 DEF Destroy, destroyObj, closeObject, SkeletonBlocks, free, clobbersErrno
<1>13. CASE UNCHANGED vars
  BY <1>13 DEF vars, errVars
<1>14. QED
  BY <1>1, <1>2, <1>3, <1>4, <1>5, <1>6, <1>7, <1>8, <1>9, <1>10, <1>11, <1>12, <1>13 DEF Next, Create

\* Whatever fails, a caller without an object owns no memory, object or link.
THEOREM NothingLeaks == Spec => []NoLeak
<1>1. SkelInv => NoLeak
  BY DEF SkelInv, Shape, Empty, NoLeak
<1>2. QED
  BY <1>1, SkelInit, SkelStep, PTL DEF Spec

\* No sequence of calls and failures frees a block that is not live.
THEOREM FreesOnce == Spec => []NoDoubleFree
<1>1. SkelInv => NoDoubleFree
  BY DEF SkelInv
<1>2. QED
  BY <1>1, SkelInit, SkelStep, PTL DEF Spec

\* What open_opts and open_and_load return is complete.
THEOREM ReturnsComplete == Spec => []HandleComplete
<1>1. SkelInv => HandleComplete
  BY DEF SkelInv, Held, Full, HandleComplete
<1>2. QED
  BY <1>1, SkelInit, SkelStep, PTL DEF Spec

(***************************************************************************)
(* After a failed open_opts or open_and_load, errno is the error of the    *)
(* step that failed, whatever its clean-ups left there on the way out.     *)
(***************************************************************************)
THEOREM ReportsCause == Spec => []ErrnoTellsWhy
<1>1. SkelInv => ErrnoTellsWhy
  BY DEF SkelInv
<1>2. QED
  BY <1>1, SkelInit, SkelStep, PTL DEF Spec

-----------------------------------------------------------------------------
\* Each step of the code is a step of the caller's lifecycle, or none.
LEMMA ApiStep == SkelInv /\ [Next]_vars => [Api!ApiNext]_(Api!apiVars)
<1> SUFFICES ASSUME SkelInv, [Next]_vars PROVE [Api!ApiNext]_(Api!apiVars)
  OBVIOUS
<1> USE NullIsNoBlock DEF SkelInv, Shape, Held, Empty, Bare, Full, Blocks, TypeOK,
                          Api!ApiNext, Api!ApiOpen, Api!ApiLoad, Api!ApiAttach, Api!ApiDetach,
                          Api!ApiDestroy, Api!apiVars
<1>1. CASE CallOpen
  BY <1>1 DEF CallOpen
<1>2. CASE CallocObj
  BY <1>2 DEF CallocObj, errVars
<1>3. CASE CallocS
  BY <1>3 DEF CallocS, fails, errVars
<1>4. CASE CallocMaps
  BY <1>4 DEF CallocMaps, fails, errVars
<1>5. CASE CallocProgs
  BY <1>5 DEF CallocProgs, Progs, fails, errVars
<1>6. CASE OpenSkeleton
  BY <1>6 DEF OpenSkeleton, fails, errVars
<1>7. CASE CreateErr \/ ErrOut \/ SetErrno
  BY <1>7 DEF CreateErr, ErrOut, SetErrno, destroyObj, closeObject
<1>8. CASE OpenAndLoad
  BY <1>8 DEF OpenAndLoad, fails, errVars
<1>9. CASE Load
  BY <1>9 DEF Load
<1>10. CASE Attach
  BY <1>10 DEF Attach
<1>11. CASE Detach
  BY <1>11 DEF Detach
<1>12. CASE Destroy
  BY <1>12 DEF Destroy, destroyObj, closeObject
<1>13. CASE UNCHANGED vars
  BY <1>13 DEF vars
<1>14. QED
  BY <1>1, <1>2, <1>3, <1>4, <1>5, <1>6, <1>7, <1>8, <1>9, <1>10, <1>11, <1>12, <1>13 DEF Next, Create

\* The skeleton implements the lifecycle of SkeletonApi.
THEOREM ApiRefinement == Spec => ImplementsApi
<1>1. Init => Api!ApiInit
  BY DEF Init, Api!ApiInit
<1>2. QED
  BY <1>1, SkelInit, SkelStep, ApiStep, PTL DEF Spec, ImplementsApi, Api!ApiSpec
====
