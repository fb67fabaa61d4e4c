---- MODULE BpfHelpers ----
(***************************************************************************)
(* What the example programs rely on in the kernel: the hash-map helpers   *)
(* and the 64-bit words packed from two 32-bit halves.  The kernel is not  *)
(* part of the repository; these operators state how its programs use it.  *)
(*                                                                         *)
(* A BPF_MAP_TYPE_HASH is a function from its keys to elements.  A lookup  *)
(* returns the element linked for the key at that moment, or NULL; what    *)
(* becomes of the element later is the subject of module HashElements.     *)
(***************************************************************************)
EXTENDS Integers, FiniteSets

CONSTANT NULL                  \* the null pointer

bpf_map_lookup_elem(map, key) == IF key \in DOMAIN map THEN map[key] ELSE NULL

\* The map once elem is linked for key.
bpf_map_update_elem(map, key, elem) ==
    [k \in DOMAIN map \union {key} |-> IF k = key THEN elem ELSE map[k]]

(***************************************************************************)
(* bpf_get_current_uid_gid() packs gid << 32 | uid.  The word is kept as   *)
(* the pair of its halves; w & 0xFFFFFFFF selects the low one.             *)
(***************************************************************************)
LowHalf(w) == w[2]

\* Fault: no wrap-around.
PlainInc(x, mod) == x + 1

\* x++ on an unsigned integer that takes the values 0 .. mod - 1
WrapInc(x, mod) == IF x + 1 = mod THEN 0 ELSE x + 1
====
