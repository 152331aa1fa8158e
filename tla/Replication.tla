---------------------------- MODULE Replication ----------------------------
(***************************************************************************)
(* Log replication and cluster growth under one leader (raft/raft.go,      *)
(* raft/server.go): the regime in which no election timeout fires.  The    *)
(* leader takes AddServer entries from joining masters and AddNode entries *)
(* from storage nodes, its heartbeats carry the log to the followers, and  *)
(* the replies move nextIndex, matchIndex and commitIndex.                 *)
(*                                                                         *)
(* A heartbeat goroutine to a follower is a slot of calls[f]: idle, its    *)
(* request on the way ("req") or the reply on the way ("resp").  Several   *)
(* run at once (one per 150 ms tick, each with a 300 ms timeout), and they *)
(* are not ordered.  Losing either message frees the slot.                 *)
(*                                                                         *)
(* Every reply of the regime carries the leader's own term, so terms of    *)
(* requests and replies are left out; terms of log entries are kept.       *)
(***************************************************************************)
EXTENDS RaftLog

CONSTANTS Leader,     \* id of the leader, the first master of the cluster
          Follower,   \* ids of the masters that may join it
          NodeId,     \* storage nodes that may send a first heartbeat
          Slot,       \* bound: AppendEntries goroutines, and of those
          SlotOf,     \*   the ones that may call a given follower
          LeaderTerm  \* the leader's currentTerm

ASSUME LeaderAssumption == Leader \notin Follower
ASSUME FollowerAssumption == IsFiniteSet(Follower)
ASSUME TermAssumption == LeaderTerm \in Nat \ {0}
ASSUME SlotAssumption == SlotOf \in [Follower -> SUBSET Slot]

VARIABLES
    log, commitIndex,       \* per master
    peerIds,                \* per master, a bag of ids: [Master -> Nat]
    nextIndex, matchIndex,  \* of the leader, per follower
    join,                   \* per follower, the progress of NewServer
    snap,                   \* per follower, the slice NewServer's append has read
    nodes,                  \* the leader's node table
    stuck,                  \* followers whose cm.mu is held for ever
    calls                   \* per follower and slot, a call in progress

vars == <<log, commitIndex, peerIds, nextIndex, matchIndex, join, snap, nodes,
          stuck, calls>>
leaderVars == <<nextIndex, matchIndex, nodes>>
joinVars   == <<join, snap>>

Master == {Leader} \cup Follower
Idle   == [phase |-> "idle"]
NoPeer == [m \in Master |-> 0]

(***************************************************************************)
(* The leader's peer list; RegisterMaster admits an id once.               *)
(***************************************************************************)
Peers == {f \in Follower : peerIds[Leader][f] # 0}

Init ==
    /\ log = [m \in Master |-> <<>>]
    /\ commitIndex = [m \in Master |-> 0]
    /\ peerIds = [m \in Master |-> NoPeer]
    /\ nextIndex = [f \in Follower |-> 1]
    /\ matchIndex = [f \in Follower |-> 0]
    /\ join = [f \in Follower |-> "new"]
    /\ snap = [f \in Follower |-> NoPeer]
    /\ nodes = {}
    /\ stuck = {}
    /\ calls = [f \in Follower |-> [s \in Slot |-> Idle]]

(***************************************************************************)
(* RegisterMaster, up to the unlock: the leader adds the peer.             *)
(***************************************************************************)
RegisterMaster(f) ==
    /\ join[f] = "new"
    /\ join' = [join EXCEPT ![f] = "registered"]
    /\ peerIds' = [peerIds EXCEPT ![Leader][f] = @ + 1]
    /\ UNCHANGED <<log, commitIndex, leaderVars, snap, stuck, calls>>

(***************************************************************************)
(* Submit: the leader appends the command with its own term.               *)
(***************************************************************************)
Submit(cmd) ==
    log' = [log EXCEPT ![Leader] = Append(@, [term |-> LeaderTerm, cmd |-> cmd])]

(***************************************************************************)
(* RegisterMaster, after the unlock: it submits the AddServer entry and    *)
(* answers.                                                                *)
(***************************************************************************)
SubmitAddServer(f) ==
    /\ join[f] = "registered"
    /\ join' = [join EXCEPT ![f] = "answered"]
    /\ Submit(AddServerStruct(f))
    /\ UNCHANGED <<commitIndex, peerIds, leaderVars, snap, stuck, calls>>

(***************************************************************************)
(* NewServer, once RegisterMaster has answered: cm.peerIds = append(       *)
(* cm.peerIds, ConnectId) without cm.mu, while the gRPC server already     *)
(* runs AppendEntries.  The slice is read and written in separate steps.   *)
(***************************************************************************)
JoinRead(f) ==
    /\ join[f] = "answered"
    /\ join' = [join EXCEPT ![f] = "appending"]
    /\ snap' = [snap EXCEPT ![f] = peerIds[f]]
    /\ UNCHANGED <<log, commitIndex, peerIds, leaderVars, stuck, calls>>

JoinWrite(f) ==
    /\ join[f] = "appending"
    /\ join' = [join EXCEPT ![f] = "joined"]
    /\ peerIds' = [peerIds EXCEPT ![f] = [snap[f] EXCEPT ![Leader] = @ + 1]]
    /\ snap' = [snap EXCEPT ![f] = NoPeer]
    /\ UNCHANGED <<log, commitIndex, leaderVars, stuck, calls>>

(***************************************************************************)
(* UpdateNode for an address the leader does not know.  A heartbeat of a   *)
(* known node changes its metrics only.                                    *)
(***************************************************************************)
UpdateNode(n) ==
    /\ n \notin nodes
    /\ nodes' = nodes \cup {n}
    /\ Submit(AddNodeStruct(n))
    /\ UNCHANGED <<commitIndex, peerIds, nextIndex, matchIndex, joinVars, stuck, calls>>

(***************************************************************************)
(* leaderSendHeartbeats, the goroutine of one peer up to the RPC.          *)
(***************************************************************************)
LeaderCommitLen == Len(log[Leader]) + 1
LeaderCommit    == commitIndex[Leader]

SendAppendEntries(f, s) ==
    /\ f \in Peers
    /\ calls[f][s] = Idle
    /\ calls' = [calls EXCEPT ![f][s] =
                    [phase        |-> "req",
                     ni           |-> nextIndex[f],
                     prevLogTerm  |-> TermAt(log[Leader], nextIndex[f] - 1),
                     entries      |-> WireEntries(log[Leader], nextIndex[f]),
                     leaderCommit |-> LeaderCommit]]
    /\ UNCHANGED <<log, commitIndex, peerIds, leaderVars, joinVars, stuck>>

Reply(f, s, ok) ==
    calls' = [calls EXCEPT ![f][s] = [phase |-> "resp",
                                      ni    |-> calls[f][s].ni,
                                      n     |-> Len(calls[f][s].entries),
                                      ok    |-> ok]]

(***************************************************************************)
(* AppendEntries on the follower, refusing.                                *)
(***************************************************************************)
RefuseAppendEntries(f, s) ==
    LET c == calls[f][s] IN
    /\ c.phase = "req"
    /\ f \notin stuck
    /\ ~AcceptsPrev(log[f], c.ni - 1, c.prevLogTerm)
    /\ Reply(f, s, FALSE)
    /\ UNCHANGED <<log, commitIndex, peerIds, leaderVars, joinVars, stuck>>

(***************************************************************************)
(* AppendEntries on the follower, accepting.  A leaderCommit beyond the    *)
(* log sends on newCommitReadyChan, a nil channel: the handler blocks for  *)
(* ever with cm.mu held.                                                   *)
(***************************************************************************)
AcceptAppendEntries(f, s) ==
    LET c == calls[f][s] IN
    /\ c.phase = "req"
    /\ f \notin stuck
    /\ AcceptsPrev(log[f], c.ni - 1, c.prevLogTerm)
    /\ ~ExecutorBlocks(log[f], c.ni - 1, c.entries)
    /\ peerIds' = [peerIds EXCEPT ![f] =
                      ExecuteAddServers(@, f, c.entries,
                          ExecutedEntries(log[f], c.ni - 1, c.entries))]
    /\ LET l == MergedLog(log[f], c.ni - 1, c.entries) IN
       /\ log' = [log EXCEPT ![f] = l]
       /\ IF c.leaderCommit > commitIndex[f] /\ Len(l) < c.leaderCommit
          THEN /\ commitIndex' = [commitIndex EXCEPT ![f] = Len(l)]
               /\ stuck' = stuck \cup {f}
               /\ calls' = [calls EXCEPT ![f][s] = Idle]
          ELSE /\ commitIndex' = [commitIndex EXCEPT ![f] =
                      IF c.leaderCommit > @ THEN c.leaderCommit ELSE @]
               /\ Reply(f, s, TRUE)
               /\ UNCHANGED stuck
    /\ UNCHANGED <<leaderVars, joinVars>>

(***************************************************************************)
(* AppendEntries on the follower, reaching an AddNode entry: the executor  *)
(* waits for the mutex the handler holds.  cm.log is not assigned yet; the *)
(* AddServer entries before it have been executed.                         *)
(***************************************************************************)
BlockInExecutor(f, s) ==
    LET c == calls[f][s] IN
    /\ c.phase = "req"
    /\ f \notin stuck
    /\ AcceptsPrev(log[f], c.ni - 1, c.prevLogTerm)
    /\ ExecutorBlocks(log[f], c.ni - 1, c.entries)
    /\ peerIds' = [peerIds EXCEPT ![f] =
                      ExecuteAddServers(@, f, c.entries,
                          ExecutedEntries(log[f], c.ni - 1, c.entries))]
    /\ stuck' = stuck \cup {f}
    /\ calls' = [calls EXCEPT ![f][s] = Idle]
    /\ UNCHANGED <<log, commitIndex, leaderVars, joinVars>>

(***************************************************************************)
(* leaderSendHeartbeats, the goroutine after the RPC: success.             *)
(***************************************************************************)
MatchIsNext(c)    == c.ni + c.n
MatchTwoBelow(c)  == c.ni + c.n - 2
MatchAfter(c)     == c.ni + c.n - 1

ReceiveSuccess(f, s) ==
    LET c == calls[f][s] IN
    /\ c.phase = "resp" /\ c.ok
    /\ nextIndex' = [nextIndex EXCEPT ![f] = c.ni + c.n]
    /\ matchIndex' = [matchIndex EXCEPT ![f] = MatchAfter(c)]
    /\ \E i \in AdvancedCommit(log[Leader], commitIndex[Leader], Peers, matchIndex') :
          commitIndex' = [commitIndex EXCEPT ![Leader] = i]
    /\ calls' = [calls EXCEPT ![f][s] = Idle]
    /\ UNCHANGED <<log, peerIds, nodes, joinVars, stuck>>

(***************************************************************************)
(* The same, failure: one entry back from the index this call was sent at. *)
(***************************************************************************)
NextUnmoved(c)     == c.ni
NextAfterFailure(c) == c.ni - 1

ReceiveFailure(f, s) ==
    LET c == calls[f][s] IN
    /\ c.phase = "resp" /\ ~c.ok
    /\ nextIndex' = [nextIndex EXCEPT ![f] = NextAfterFailure(c)]
    /\ calls' = [calls EXCEPT ![f][s] = Idle]
    /\ UNCHANGED <<log, commitIndex, peerIds, matchIndex, nodes, joinVars, stuck>>

(***************************************************************************)
(* The request or the reply is lost, or the 300 ms run out.                *)
(***************************************************************************)
CallFails(f, s) ==
    /\ calls[f][s] # Idle
    /\ calls' = [calls EXCEPT ![f][s] = Idle]
    /\ UNCHANGED <<log, commitIndex, peerIds, leaderVars, joinVars, stuck>>

HandleAppendEntries(f, s) ==
    \/ RefuseAppendEntries(f, s)
    \/ AcceptAppendEntries(f, s)
    \/ BlockInExecutor(f, s)

ReceiveReply(f, s) == ReceiveSuccess(f, s) \/ ReceiveFailure(f, s)

Joining(f) == RegisterMaster(f) \/ SubmitAddServer(f) \/ JoinRead(f) \/ JoinWrite(f)

Calling(f, s) ==
    \/ SendAppendEntries(f, s)
    \/ HandleAppendEntries(f, s)
    \/ ReceiveReply(f, s)
    \/ CallFails(f, s)

Next ==
    \/ \E f \in Follower : Joining(f)
    \/ \E n \in NodeId : UpdateNode(n)
    \/ \E f \in Follower : \E s \in SlotOf[f] : Calling(f, s)

Spec == Init /\ [][Next]_vars

(***************************************************************************)
(* The heartbeat ticker never stops, RegisterMaster runs to its end, and   *)
(* the network lets one of infinitely many calls through.                  *)
(***************************************************************************)
Fairness ==
    /\ \A f \in Follower : WF_vars(SubmitAddServer(f))
    /\ \A f \in Follower : \A s \in SlotOf[f] :
          /\ WF_vars(SendAppendEntries(f, s))
          /\ SF_vars(HandleAppendEntries(f, s))
          /\ SF_vars(ReceiveReply(f, s))

FairSpec == Spec /\ Fairness
-----------------------------------------------------------------------------
(***************************************************************************)
(* Properties.                                                             *)
(***************************************************************************)
Command == {AddServerStruct(f) : f \in Follower} \cup {AddNodeStruct(n) : n \in NodeId}
Entry   == [term : {0, LeaderTerm}, cmd : Command]
Bag     == [Master -> Nat]
Call    == {Idle}
           \cup [phase : {"req"}, ni : Nat, prevLogTerm : {0, LeaderTerm},
                 entries : Seq(Entry), leaderCommit : Nat]
           \cup [phase : {"resp"}, ni : Nat, n : Nat, ok : BOOLEAN]

\* Every variable keeps the shape its Go counterpart has.
TypeOK ==
    /\ log \in [Master -> Seq(Entry)]
    /\ commitIndex \in [Master -> Nat]
    /\ peerIds \in [Master -> Bag]
    /\ nextIndex \in [Follower -> Nat]
    /\ matchIndex \in [Follower -> Nat]
    /\ join \in [Follower -> {"new", "registered", "answered", "appending", "joined"}]
    /\ snap \in [Follower -> Bag]
    /\ nodes \in SUBSET NodeId
    /\ stuck \in SUBSET Follower
    /\ calls \in [Follower -> [Slot -> Call]]

\* Whatever order requests and replies arrive in, a follower's log holds the
\* commands of a prefix of the leader's log (AppendEntries merges by position
\* and by terms that the wire has erased).
LogPrefix ==
    \A f \in Follower :
        /\ Len(log[f]) <= Len(log[Leader])
        /\ \A k \in 1 .. Len(log[f]) : log[f][k].cmd = log[Leader][k].cmd

\* leaderSendHeartbeats never slices outside cm.log: late replies and repeated
\* failures keep nextIndex between 1 (below it ni - 1 wraps around and the
\* sentinel would be serialised) and one past the end of the log.
NextIndexInLog == \A f \in Follower : nextIndex[f] \in 1 .. Len(log[Leader]) + 1

\* matchIndex, on which commitIndex rests, never promises more than the
\* follower holds, although a late reply may set it back.
MatchIndexHeld == \A f \in Follower : matchIndex[f] <= Len(log[f])

\* When the leader's commitIndex moves, more than half of the masters it knows
\* of, itself included, hold the log up to the new index.
CommitHeldByMajority ==
    [][commitIndex'[Leader] # commitIndex[Leader] =>
          (Cardinality({f \in Peers : Len(log[f]) >= commitIndex'[Leader]}) + 1) * 2
              > Cardinality(Peers) + 1]_vars

\* A follower commits only what the leader has committed and it holds itself.
FollowerCommitBehind ==
    \A f \in Follower :
        commitIndex[f] <= commitIndex[Leader] /\ commitIndex[f] <= Len(log[f])

\* Every index stays in the log it points into: nextIndex in the leader's,
\* matchIndex and the follower's commitIndex in the follower's, however late the
\* replies that set them.
IndicesInLogs == NextIndexInLog /\ MatchIndexHeld /\ FollowerCommitBehind

\* The send on the nil channel newCommitReadyChan is never reached: a follower
\* that holds cm.mu for ever does so in the executor of an AddNode entry.
OnlyExecutorBlocks ==
    \A f \in stuck :
        \E k \in Len(log[f]) + 1 .. Len(log[Leader]) :
            log[Leader][k].cmd.type = "AddNode"

\* Requests that overlap, or arrive twice with the same entries, execute an
\* AddServer entry once: no peer list names a master twice or its own owner,
\* so len(peerIds) + 1 is never more than the number of masters.
PeersCountedOnce ==
    \A m \in Master : peerIds[m][m] = 0 /\ \A p \in Master : peerIds[m][p] <= 1

\* A registered follower that can be reached catches up with the leader's log and
\* commits all of it again and again, or has stopped in the executor of an AddNode
\* entry (OnlyExecutorBlocks), although each round of heartbeats first walks
\* nextIndex back to 1 (stored terms differ on the two sides).
EntriesCommitted ==
    \A f \in {g \in Follower : SlotOf[g] # {}} :
        []<>(f \in Peers => commitIndex[f] = Len(log[Leader]) \/ f \in stuck)

CallTracksLogs(c, leaderLog, leaderCommit, followerLog) ==
    /\ c.phase = "req" =>
          /\ c.ni >= 1
          /\ c.ni - 1 + Len(c.entries) <= Len(leaderLog)
          /\ \A k \in 1 .. Len(c.entries) :
                c.entries[k].term = 0 /\ c.entries[k].cmd = leaderLog[c.ni - 1 + k].cmd
          /\ c.leaderCommit <= c.ni - 1 + Len(c.entries)
          /\ c.leaderCommit <= leaderCommit
    /\ c.phase = "resp" =>
          /\ c.ni - 1 + c.n <= Len(leaderLog)
          /\ IF c.ok THEN c.ni >= 1 /\ c.ni - 1 + c.n <= Len(followerLog) ELSE c.ni >= 2

\* The calls in flight and the logs agree: a request carries a stretch of the
\* leader's log with erased terms and a commit index that stretch reaches; a
\* success reply means the follower holds the stretch, and a failure reply is
\* never an answer to ni = 1.
CallsTrackLogs ==
    \A f \in Follower, s \in Slot :
        CallTracksLogs(calls[f][s], log[Leader], commitIndex[Leader], log[f])

\* Entries a follower has received carry term 0, and the leader commits within
\* its log.
StoredTermsErased ==
    /\ \A f \in Follower : \A k \in 1 .. Len(log[f]) : log[f][k].term = 0
    /\ commitIndex[Leader] <= Len(log[Leader])

\* The inductive invariant behind the safety properties.
IndInv ==
    /\ TypeOK
    /\ StoredTermsErased
    /\ CallsTrackLogs
    /\ LogPrefix
    /\ NextIndexInLog
    /\ MatchIndexHeld
    /\ FollowerCommitBehind
    /\ OnlyExecutorBlocks
=============================================================================
