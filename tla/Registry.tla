------------------------------ MODULE Registry ------------------------------
(***************************************************************************)
(* The data nodes a master knows and the heap it picks upload nodes from:  *)
(* HeartbeatHandler (router/master.go), UpdateNode (raft/server.go) and    *)
(* the heap of the upload manager (module PQueue), on one master and the   *)
(* nodes that were started with its address.  The master gains and loses   *)
(* the lead at any moment (module Election), and may restart, which leaves *)
(* it with nothing.                                                        *)
(*                                                                         *)
(* A heartbeat looks at the master's state, takes cm.mu to enter the node, *)
(* releases it, submits the AddNode entry under cm.mu again, and pushes    *)
(* the node onto the heap under the heap's own mutex: four steps between   *)
(* which the lead may be lost.  A node sends one heartbeat after another.  *)
(* A node that is redirected posts to PeerAddr, the gRPC address of a      *)
(* master without scheme or path, which always fails (node/node.go), so    *)
(* redirects lead nowhere.                                                 *)
(***************************************************************************)
EXTENDS PQueue

CONSTANTS Node,        \* data nodes, by address
          DiskOf,      \* the values of free space each of them may report
          Id,          \* ids a draw may give
          None,
          MaxHandlers  \* bound on the heartbeats handled at a time

ASSUME DiskAssumption == DiskOf \in [Node -> SUBSET Nat]
ASSUME RegistryAssumption ==
    None \notin Id \cup Node /\ MaxHandlers \in Nat

VARIABLES
    leading,   \* cm.state = LEADER
    disk,      \* nodeAddr: per address, Disk of its Node, or -1
    id,        \* per address, ID of its Node
    nodes,     \* the map from ids to addresses
    heap,      \* uploadNodes
    beat,      \* per node, the heartbeat being handled
    refused,   \* nodes whose first heartbeat reached Submit after the lead was lost
    twice      \* history: nodes whose id was drawn again by one that drew two taken ids

vars == <<leading, disk, id, nodes, heap, beat, refused, twice>>
table == <<disk, id, nodes, twice>>

Idle == [at |-> "idle", disk |-> 0]
At(stage, d) == [at |-> stage, disk |-> d]
AlwaysKnown(n) == TRUE
Known(n) == disk[n] # -1

Init ==
    /\ leading = FALSE
    /\ disk = [n \in Node |-> -1]
    /\ id = [n \in Node |-> None]
    /\ nodes = [i \in Id |-> None]
    /\ heap = << >>
    /\ beat = [n \in Node |-> Idle]
    /\ refused = {}
    /\ twice = {}

(***************************************************************************)
(* HeartbeatHandler, up to the call of UpdateNode: a master that does not  *)
(* lead redirects at once, which changes nothing.                          *)
(***************************************************************************)
HeartbeatHandler(n, d) ==
    /\ beat[n] = Idle
    /\ Cardinality({m \in Node : beat[m] # Idle}) < MaxHandlers
    /\ leading
    /\ beat' = [beat EXCEPT ![n] = At("checked", d)]
    /\ UNCHANGED <<leading, table, heap, refused>>

(***************************************************************************)
(* UpdateNode under cm.mu.  A known node gets its new values in place.  A  *)
(* new one gets an id: one that is taken is drawn again, once, and the     *)
(* second draw is used without looking at the map again.                   *)
(***************************************************************************)
UpdateNodeKnown(n) ==
    /\ beat[n].at = "checked"
    /\ Known(n)
    /\ disk' = [disk EXCEPT ![n] = beat[n].disk]
    /\ beat' = [beat EXCEPT ![n] = Idle]
    /\ UNCHANGED <<leading, id, nodes, heap, refused, twice>>

Taken(i) == nodes[i] # None
FirstDraw(i, j) == i
Draw(i, j) == IF Taken(i) THEN j ELSE i

UpdateNodeNew(n, i, j) ==
    LET rnd == Draw(i, j) IN
    /\ beat[n].at = "checked"
    /\ ~Known(n)
    /\ disk' = [disk EXCEPT ![n] = beat[n].disk]
    /\ id' = [id EXCEPT ![n] = rnd]
    /\ nodes' = [nodes EXCEPT ![rnd] = n]
    /\ beat' = [beat EXCEPT ![n] = At("entered", 0)]
    /\ twice' = IF Taken(i) /\ Taken(j) THEN twice \cup {nodes[j]} ELSE twice
    /\ UNCHANGED <<leading, heap, refused>>

(***************************************************************************)
(* UpdateNode goes on: Submit, which only a leader accepts (the entry is   *)
(* the subject of module Replication), and the push.                       *)
(***************************************************************************)
Submit(n) ==
    /\ beat[n].at = "entered"
    /\ IF leading
       THEN beat' = [beat EXCEPT ![n] = At("submitted", 0)] /\ UNCHANGED refused
       ELSE beat' = [beat EXCEPT ![n] = Idle] /\ refused' = refused \cup {n}
    /\ UNCHANGED <<leading, table, heap>>

PushNode(n) ==
    /\ beat[n].at = "submitted"
    /\ heap' = Push(heap, n, disk)
    /\ beat' = [beat EXCEPT ![n] = Idle]
    /\ UNCHANGED <<leading, table, refused>>

(***************************************************************************)
(* The consensus module: startLeader and becomeFollower.                   *)
(***************************************************************************)
LeadChanges ==
    /\ leading' = ~leading
    /\ UNCHANGED <<table, heap, beat, refused>>

(***************************************************************************)
(* The master process ends and is started again.                           *)
(***************************************************************************)
NewServer ==
    /\ leading' = FALSE
    /\ disk' = [n \in Node |-> -1]
    /\ id' = [n \in Node |-> None]
    /\ nodes' = [i \in Id |-> None]
    /\ heap' = << >>
    /\ beat' = [n \in Node |-> Idle]
    /\ refused' = {}
    /\ twice' = {}

UpdateNode(n) ==
    \/ UpdateNodeKnown(n)
    \/ \E i, j \in Id : UpdateNodeNew(n, i, j)
    \/ Submit(n)
    \/ PushNode(n)

Heartbeat(n) == (\E d \in DiskOf[n] : HeartbeatHandler(n, d)) \/ UpdateNode(n)

Next ==
    \/ \E n \in Node : Heartbeat(n)
    \/ LeadChanges
    \/ NewServer

Spec == Init /\ [][Next]_vars

(***************************************************************************)
(* Every node sends a heartbeat a second, and handlers run to their end.   *)
(* The lead and restarts are not bound to any fairness.                    *)
(***************************************************************************)
FairSpec == Spec /\ \A n \in Node : SF_vars(Heartbeat(n))
-----------------------------------------------------------------------------
(***************************************************************************)
(* Properties.                                                             *)
(***************************************************************************)
InHeap == {heap[i] : i \in DOMAIN heap}

\* The heap and the table agree, however the heartbeats of several nodes and the
\* loss of the lead interleave: a node is in the heap once and only if it is
\* known; a known node that no heartbeat is working on is in the heap, unless the
\* lead was lost between the entry into the table and Submit.  Such a node stays
\* out for good: its later heartbeats find it known and return before the push.
KnownIsOffered ==
    /\ Cardinality(InHeap) = Len(heap)
    /\ \A n \in InHeap : Known(n) /\ n \notin refused
    /\ \A n \in Node : Known(n) /\ beat[n].at \in {"idle", "checked"} =>
          n \in InHeap \cup refused

\* File.Host keeps node ids, and MasterDelete and MasterDownload turn them back
\* into addresses with NodeAddr: the id of a known node names that node and no
\* other, also when a draw collides.  The exception is a node whose id another one
\* took with its second draw: UpdateNode looks at the first draw only, so a new
\* node that draws two taken ids in a row takes the entry of the second's owner.
IdNamesNode == \A n \in Node \ twice : Known(n) => nodes[id[n]] = n

Steady(n) == \A c, d \in DiskOf[n] : c = d

\* As long as no node in the heap reports changing free space, First is one with
\* most space.  (UpdateNode writes a new Disk into the heap's items without moving
\* them, so with other nodes the heap may be in no order.)
SteadyFirstIsMost ==
    (\A n \in InHeap : Steady(n)) => \A n \in InHeap : disk[First(heap, None)] >= disk[n]

\* Whenever the heap is in order, Pop hands its nodes out in order of free space,
\* none lost and none twice.
PopsInOrder ==
    HeapOrdered(heap, disk) =>
        /\ Descending(Drained(heap, disk), disk)
        /\ SameItems(Drained(heap, disk), heap)

\* A node that keeps sending heartbeats to a master that keeps leading ends up
\* among the nodes uploads go to, or was turned away by Submit before.
NodeRegistered ==
    \A n \in Node : <>[]leading => <>(n \in InHeap \cup refused)
=============================================================================
