---------------------------- MODULE MCElection ----------------------------
(***************************************************************************)
(* Small clusters of masters for TLC.                                      *)
(***************************************************************************)
EXTENDS Election, TLC

CONSTANTS s1, s2, s3

\* Two masters that both joined through s1 before it led.
StarPeers == s1 :> {s2, s3} @@ s2 :> {s1} @@ s3 :> {s1}

\* Three masters that know each other.
MeshPeers == s1 :> {s2, s3} @@ s2 :> {s1, s3} @@ s3 :> {s1, s2}

\* Empty logs, before any entry has been submitted.
EmptyLogs == [i \in Server |-> [index |-> 0, term |-> 0]]

\* Logs after s1 has led in term 1: it stores its term, the others store 0; s3
\* lags behind.
LedLogs == [i \in Server |-> [index |-> IF i = s3 THEN 1 ELSE 2,
                              term  |-> IF i = s1 THEN 1 ELSE 0]]
===========================================================================
