----------------------------- MODULE Namespace -----------------------------
(***************************************************************************)
(* What the metadata layer of sdfs promises its callers: a map from        *)
(* locations to checksums in which a location takes a checksum when it is  *)
(* free and gives it up on a delete, and never changes its content in one  *)
(* step.                                                                   *)
(***************************************************************************)
CONSTANTS Loc, Hash, None

VARIABLE ns

Init == ns = [l \in Loc |-> None]

Put(l, h) == ns[l] = None /\ ns' = [ns EXCEPT ![l] = h]

Remove(l) == ns' = [ns EXCEPT ![l] = None]

Next == \E l \in Loc : Remove(l) \/ \E h \in Hash : Put(l, h)

Spec == Init /\ [][Next]_ns
=============================================================================
