---- MODULE Skeleton ----
(***************************************************************************)
(* The skeleton of hello-verifier.skel.h: which memory its functions       *)
(* allocate and free on every success and error path, for a caller that    *)
(* opens, loads, attaches, detaches and destroys in any legal order, any   *)
(* number of times.  Every calloc and every libbpf call may fail.          *)
(*                                                                         *)
(* A block of memory is named after the variable that first points to it:  *)
(* "obj" (struct hello_verifier_bpf), "s" (struct bpf_object_skeleton),    *)
(* "maps" and "progs" (the arrays of s).                                   *)
(***************************************************************************)
EXTENDS Integers

CONSTANT NULL                \* the null pointer

Blocks == {"obj", "s", "maps", "progs"}

ASSUME NullIsNoBlock == NULL \notin Blocks

VARIABLES
    pc,          \* where the skeleton's code is; "caller" outside of it
    thenLoad,    \* the call is open_and_load
    handle,      \* the pointer the caller holds
    live,        \* the blocks allocated and not freed
    skeleton,    \* obj->skeleton
    s_maps,      \* s->maps
    s_progs,     \* s->progs
    bpf,         \* the bpf_object behind obj->obj: "none", "open" or "loaded"
    link,        \* obj->links.kprobe_exec is set
    err,         \* the local err of the function that runs
    errno,       \* what the caller finds in errno
    failed,      \* history: the caller's last call returned NULL
    cause,       \* history: the error of the step that made it fail
    misused      \* history: a block was freed that was not live

errVars == <<err, errno, failed, cause>>
vars == <<pc, thenLoad, handle, live, skeleton, s_maps, s_progs, bpf, link, errVars, misused>>

Labels == {"caller", "calloc_obj", "calloc_s", "calloc_maps", "calloc_progs",
           "create_err", "open_skeleton", "load", "err_out", "set_errno"}

\* ENOMEM of a calloc, an error of libbpf, and whatever a clean-up leaves.
Errors == {"ENOMEM", "libbpf", "cleanup"}

TypeOK ==
    /\ pc \in Labels
    /\ thenLoad \in BOOLEAN
    /\ handle \in {NULL, "obj"}
    /\ live \subseteq Blocks
    /\ skeleton \in {NULL, "s"}
    /\ s_maps \in {NULL, "maps"}
    /\ s_progs \in {NULL, "progs"}
    /\ bpf \in {"none", "open", "loaded"}
    /\ link \in BOOLEAN
    /\ err \in Errors
    /\ errno \in Errors
    /\ failed \in BOOLEAN
    /\ cause \in Errors
    /\ misused \in BOOLEAN

Init ==
    /\ pc = "caller"
    /\ thenLoad = FALSE
    /\ handle = NULL
    /\ live = {}
    /\ skeleton = NULL
    /\ s_maps = NULL
    /\ s_progs = NULL
    /\ bpf = "none"
    /\ link = FALSE
    /\ err = "cleanup"
    /\ errno = "cleanup"
    /\ failed = FALSE
    /\ cause = "cleanup"
    /\ misused = FALSE

\* free() of these pointers; free(NULL) does nothing.
free(pointers) ==
    /\ live' = live \ pointers
    /\ misused' = (misused \/ ~(pointers \ {NULL} \subseteq live))

(***************************************************************************)
(* bpf_object__destroy_skeleton(s) of libbpf: the links, the object, the   *)
(* two arrays and s itself.  Its effect on memory is the set it frees.     *)
(***************************************************************************)
SkeletonBlocks(s) == IF s = NULL THEN {} ELSE {s, s_maps, s_progs}
closeObject(s) ==
    /\ bpf' = IF s = NULL THEN bpf ELSE "none"
    /\ link' = IF s = NULL \/ s_progs = NULL THEN link ELSE FALSE

\* Fault: obj->skeleton is not destroyed.
destroyObjOnly ==
    /\ free({"obj"})
    /\ skeleton' = NULL
    /\ UNCHANGED <<bpf, link>>

\* hello_verifier_bpf__destroy(obj), obj not NULL
destroyObj ==
    /\ closeObject(skeleton)
    /\ free(SkeletonBlocks(skeleton) \union {"obj"})
    /\ skeleton' = NULL

(***************************************************************************)
(* A step fails and its error is in err; the library call that failed may  *)
(* have left anything in errno.                                            *)
(***************************************************************************)
fails(error, label) ==
    /\ err' = error
    /\ errno' \in Errors
    /\ cause' = error
    /\ pc' = label
    /\ UNCHANGED failed

\* A clean-up makes calls of its own, which may change errno.
clobbersErrno == errno' \in {errno, "cleanup"}

\* The caller calls open_opts, or open_and_load, without holding an object.
CallOpen ==
    /\ pc = "caller"
    /\ handle = NULL
    /\ thenLoad' \in BOOLEAN
    /\ pc' = "calloc_obj"
    /\ failed' = FALSE
    /\ UNCHANGED <<handle, live, skeleton, s_maps, s_progs, bpf, link, err, errno, cause, misused>>

\* obj = calloc(1, sizeof(*obj)), all its pointers NULL; or errno = ENOMEM, return NULL
CallocObj ==
    /\ pc = "calloc_obj"
    /\ \/ /\ live' = live \union {"obj"}
          /\ skeleton' = NULL
          /\ pc' = "calloc_s"
          /\ UNCHANGED errVars
       \/ /\ errno' = "ENOMEM"
          /\ cause' = "ENOMEM"
          /\ failed' = TRUE
          /\ pc' = "caller"
          /\ UNCHANGED <<live, skeleton, err>>
    /\ UNCHANGED <<thenLoad, handle, s_maps, s_progs, bpf, link, misused>>

\* create_skeleton: s, its pointers NULL; or goto err
CallocS ==
    /\ pc = "calloc_s"
    /\ \/ /\ live' = live \union {"s"}
          /\ s_maps' = NULL
          /\ s_progs' = NULL
          /\ pc' = "calloc_maps"
          /\ UNCHANGED errVars
       \/ /\ fails("ENOMEM", "create_err")
          /\ UNCHANGED <<live, s_maps, s_progs>>
    /\ UNCHANGED <<thenLoad, handle, skeleton, bpf, link, misused>>

\* create_skeleton: s->maps; or goto err
CallocMaps ==
    /\ pc = "calloc_maps"
    /\ \/ /\ live' = live \union {"maps"}
          /\ s_maps' = "maps"
          /\ pc' = "calloc_progs"
          /\ UNCHANGED errVars
       \/ /\ fails("ENOMEM", "create_err")
          /\ UNCHANGED <<live, s_maps>>
    /\ UNCHANGED <<thenLoad, handle, skeleton, s_progs, bpf, link, misused>>

Progs ==
    /\ pc = "calloc_progs"
    /\ \/ /\ live' = live \union {"progs"}
          /\ s_progs' = "progs"
          /\ pc' = "open_skeleton"
          /\ UNCHANGED errVars
       \/ /\ fails("ENOMEM", "create_err")
          /\ UNCHANGED <<live, s_progs>>
    /\ UNCHANGED <<thenLoad, handle, s_maps, bpf, link, misused>>

\* Fault: obj->skeleton is set before s->progs is checked.
CallocProgsEarlySet == Progs /\ skeleton' = "s"

\* create_skeleton: s->progs, then obj->skeleton = s; or goto err
CallocProgs == Progs /\ skeleton' = IF pc' = "open_skeleton" THEN "s" ELSE skeleton

\* err of create_skeleton: destroy_skeleton(s), s NULL or not, and return err
CreateErr ==
    LET s == IF "s" \in live THEN "s" ELSE NULL IN
    /\ pc = "create_err"
    /\ closeObject(s)
    /\ free(SkeletonBlocks(s))
    /\ clobbersErrno
    /\ pc' = "err_out"
    /\ UNCHANGED <<thenLoad, handle, skeleton, s_maps, s_progs, err, failed, cause>>

\* Fault: the object is returned although libbpf failed to open it.
OpenSkeletonUnchecked ==
    /\ pc = "open_skeleton"
    /\ bpf' \in {"none", "open"}
    /\ handle' = "obj"
    /\ pc' = "caller"
    /\ UNCHANGED <<thenLoad, live, skeleton, s_maps, s_progs, link, errVars, misused>>

(***************************************************************************)
(* bpf_object__open_skeleton.  It can fail before or after the object is   *)
(* open (a map or a program of the skeleton is missing from it).           *)
(***************************************************************************)
OpenSkeleton ==
    /\ pc = "open_skeleton"
    /\ \/ /\ bpf' = "open"
          /\ IF thenLoad THEN pc' = "load" /\ UNCHANGED handle
                         ELSE pc' = "caller" /\ handle' = "obj"
          /\ UNCHANGED errVars
       \/ /\ bpf' \in {"none", "open"}
          /\ fails("libbpf", "err_out")
          /\ UNCHANGED handle
    /\ UNCHANGED <<thenLoad, live, skeleton, s_maps, s_progs, link, misused>>

\* open_and_load after the open: load; or, as in open_opts, clean up
OpenAndLoad ==
    /\ pc = "load"
    /\ \/ /\ bpf' = "loaded"
          /\ handle' = "obj"
          /\ pc' = "caller"
          /\ UNCHANGED errVars
       \/ /\ fails("libbpf", "err_out")
          /\ UNCHANGED <<bpf, handle>>
    /\ UNCHANGED <<thenLoad, live, skeleton, s_maps, s_progs, link, misused>>

\* Fault: errno = -err, then destroy(obj) and return NULL.
ErrOutErrnoFirst ==
    /\ pc = "err_out"
    /\ destroyObj
    /\ errno' \in {err, "cleanup"}
    /\ failed' = TRUE
    /\ pc' = "caller"
    /\ UNCHANGED <<thenLoad, handle, s_maps, s_progs, err, cause>>

\* err_out of open_opts, and the same lines in open_and_load: destroy(obj)
ErrOut ==
    /\ pc = "err_out"
    /\ destroyObj
    /\ clobbersErrno
    /\ pc' = "set_errno"
    /\ UNCHANGED <<thenLoad, handle, s_maps, s_progs, err, failed, cause>>

\* errno = -err, return NULL
SetErrno ==
    /\ pc = "set_errno"
    /\ errno' = err
    /\ failed' = TRUE
    /\ pc' = "caller"
    /\ UNCHANGED <<thenLoad, handle, live, skeleton, s_maps, s_progs, bpf, link, err, cause, misused>>

\* Load of an object that is open; on failure it stays open.
Load ==
    /\ pc = "caller"
    /\ handle # NULL
    /\ bpf = "open"
    /\ bpf' \in {"open", "loaded"}
    /\ UNCHANGED <<pc, thenLoad, handle, live, skeleton, s_maps, s_progs, link, errVars, misused>>

\* Attach of a loaded object; on failure there is no link.
Attach ==
    /\ pc = "caller"
    /\ handle # NULL
    /\ bpf = "loaded"
    /\ link' \in {link, TRUE}
    /\ UNCHANGED <<pc, thenLoad, handle, live, skeleton, s_maps, s_progs, bpf, errVars, misused>>

Detach ==
    /\ pc = "caller"
    /\ handle # NULL
    /\ link' = FALSE
    /\ UNCHANGED <<pc, thenLoad, handle, live, skeleton, s_maps, s_progs, bpf, errVars, misused>>

\* destroy(handle); destroy(NULL) returns at once and is no step.
Destroy ==
    /\ pc = "caller"
    /\ handle # NULL
    /\ destroyObj
    /\ handle' = NULL
    /\ clobbersErrno
    /\ UNCHANGED <<pc, thenLoad, s_maps, s_progs, err, failed, cause>>

Create == CallOpen \/ CallocObj \/ CallocS \/ CallocMaps \/ CallocProgs \/ CreateErr
              \/ OpenSkeleton \/ OpenAndLoad \/ ErrOut \/ SetErrno

Next == Create \/ Load \/ Attach \/ Detach \/ Destroy

Spec == Init /\ [][Next]_vars

-----------------------------------------------------------------------------
(***************************************************************************)
(* Whichever allocation or libbpf call failed: a caller without an object  *)
(* owns no memory, no BPF object and no link.                              *)
(***************************************************************************)
NoLeak == pc = "caller" /\ handle = NULL => live = {} /\ bpf = "none" /\ ~link

(***************************************************************************)
(* The two error paths that may both destroy the skeleton (create_skeleton *)
(* and err_out of open_opts) never free a block twice.                     *)
(***************************************************************************)
NoDoubleFree == ~misused

(***************************************************************************)
(* What open_opts and open_and_load return is complete: every block is     *)
(* live, obj->skeleton is set and the BPF object is open.                  *)
(***************************************************************************)
HandleComplete ==
    handle # NULL => live = Blocks /\ skeleton = "s" /\ bpf # "none"

(***************************************************************************)
(* When open_opts or open_and_load has returned NULL, errno is the error   *)
(* of the step that failed, although up to two clean-ups of two functions  *)
(* ran since, each with calls that change errno.                           *)
(***************************************************************************)
ErrnoTellsWhy == pc = "caller" /\ failed => errno = cause

\* The caller sees the lifecycle of module SkeletonApi.
Api == INSTANCE SkeletonApi WITH
          object <- IF handle = NULL THEN "none" ELSE bpf, linked <- link
ImplementsApi == Api!ApiSpec
====
