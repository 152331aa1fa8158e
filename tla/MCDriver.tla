------------------------------ MODULE MCDriver ------------------------------
(***************************************************************************)
(* Headers of every kind for TLC, around the sizes of the files.           *)
(***************************************************************************)
EXTENDS Driver

Parts ==
    {Garbage} \cup {From(a) : a \in {0, 2, 5}} \cup {Suffix(n) : n \in {0, 1, 5, 9}}
    \cup {Closed(a, b) : a \in {0, 2}, b \in {1, 4, 5}}

Headers == {NoHeader} \cup {<<p>> : p \in Parts} \cup {<<p, From(0)>> : p \in Parts}
=============================================================================
