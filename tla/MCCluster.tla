----------------------------- MODULE MCCluster -----------------------------
(***************************************************************************)
(* Instances of Cluster for TLC.  Some: p1 has a content of its own, p2 is *)
(* given two, of which it shares one with p3.                              *)
(***************************************************************************)
EXTENDS Cluster, TLC

CONSTANTS p1, p2, p3, h1, h2, h3

Some == {<<p1, h1>>, <<p2, h2>>, <<p2, h3>>, <<p3, h3>>}

Symmetry == Permutations(FileId) \cup Permutations(UploadId) \cup Permutations(NodeId)
            \cup Permutations(Deleter)

\* What no action reads any more: what is left in a File that nothing points to
\* (AddFile writes all of it), and the nodes known when there is no upload left to
\* grant.  States that differ in nothing else are one state to TLC.
Reachable ==
    <<IF \A id \in UploadId : client[id] # Idle THEN None ELSE registry,
      manager, entry, ChecksumDB,
      [f \in FileId |-> IF f \in InUse \/ (fin.at = "got" /\ fin.f = f) THEN file[f] ELSE None],
      clients, store, del, overlapped>>
=============================================================================
