---- MODULE SkeletonApi ----
(***************************************************************************)
(* What a BPF skeleton promises its caller: an object is opened, possibly  *)
(* loaded, possibly attached, and destroyed at any point; a call that      *)
(* fails leaves the object as it was, or does not return one.              *)
(***************************************************************************)
VARIABLES
    object,      \* "none", "open" or "loaded"
    linked       \* its programs are attached

apiVars == <<object, linked>>

ApiInit == object = "none" /\ linked = FALSE

ApiOpen ==
    /\ object = "none"
    /\ object' \in {"open", "loaded"}
    /\ UNCHANGED linked

ApiLoad ==
    /\ object = "open"
    /\ object' = "loaded"
    /\ UNCHANGED linked

ApiAttach ==
    /\ object = "loaded"
    /\ linked' = TRUE
    /\ UNCHANGED object

ApiDetach ==
    /\ linked' = FALSE
    /\ UNCHANGED object

ApiDestroy == object' = "none" /\ linked' = FALSE

ApiNext == ApiOpen \/ ApiLoad \/ ApiAttach \/ ApiDetach \/ ApiDestroy

ApiSpec == ApiInit /\ [][ApiNext]_apiVars
====
