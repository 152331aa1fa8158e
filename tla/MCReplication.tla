--------------------------- MODULE MCReplication ---------------------------
(***************************************************************************)
(* Instances of Replication for TLC with two joining masters.  Overlapping *)
(* is one master called by two heartbeat goroutines at a time, so that its *)
(* requests and replies overtake each other, and one that joins and cannot *)
(* be reached.                                                             *)
(***************************************************************************)
EXTENDS Replication, TLC

CONSTANTS f1, f2, s1, s2

Overlapping == (f1 :> {s1, s2}) @@ (f2 :> {})
=============================================================================
