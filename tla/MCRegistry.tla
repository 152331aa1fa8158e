----------------------------- MODULE MCRegistry -----------------------------
(***************************************************************************)
(* Four nodes for TLC, three levels of the heap: three whose free space    *)
(* never changes and one whose does.                                       *)
(***************************************************************************)
EXTENDS Registry, TLC

CONSTANTS n1, n2, n3, n4

Spaces == (n1 :> {1}) @@ (n2 :> {2}) @@ (n3 :> {3}) @@ (n4 :> {0, 2})
=============================================================================
