------------------------------ MODULE MCReigns ------------------------------
(***************************************************************************)
(* Three founding masters for TLC.                                         *)
(***************************************************************************)
EXTENDS Reigns, TLC

CONSTANTS s1, s2, s3, x, y, z, n

Three  == <<s1, s2, s3>>
Terms  == (s1 :> 3) @@ (s2 :> 2) @@ (s3 :> 2)
Addr   == [j \in Joiner \cup NodeId |->
             IF j = z THEN {s1} ELSE IF j = n THEN {s1, s2} ELSE {s3}]
Symmetry == Permutations({x, y})
=============================================================================
