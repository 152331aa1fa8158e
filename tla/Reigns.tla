------------------------------- MODULE Reigns -------------------------------
(***************************************************************************)
(* Elections and log replication together, over several reigns             *)
(* (raft/raft.go, raft/server.go): what a master keeps when it stops and   *)
(* starts to lead, what the requests of a deposed leader do, and what      *)
(* becomes of the logs.  Module Replication has one reign in finer steps,  *)
(* module Election the races of an election; here an election is one step. *)
(*                                                                         *)
(* The masters have founded their cluster: First led in term 1, the others *)
(* registered with it one by one and have its log.  A master that crashes  *)
(* takes no more steps.  One that restarts has a new id and nothing of its *)
(* log (LoadLog is not called), and registers again: it is one of Joiner,  *)
(* ids that register and are not reached afterwards.                       *)
(* Data nodes register with leaders; a follower that executes the entry of *)
(* one hangs for ever.                                                     *)
(*                                                                         *)
(* AppendEntries calls time out after 300 ms, votes after 1 s, an election *)
(* timer at 4 s (0.5 s when re-elections are forced): the calls a master   *)
(* has made are over when it starts an election.                           *)
(***************************************************************************)
EXTENDS RaftLog, FiniteSetsExt

CONSTANTS Founders,  \* the founding masters, in the order they registered
          Joiner,    \* ids that register later
          NodeId,    \* data nodes
          Contact,   \* per joiner, the masters whose address it may be started with; per
                     \* data node, the masters it finds leading
          None,
          MaxTerm,   \* bound on the terms each master starts elections for
          MaxCalls   \* bound on the AppendEntries calls in flight

VARIABLES
    state, currentTerm, votedFor,
    log, commitIndex,
    peerIds,                \* per master, a bag of ids
    nextIndex, matchIndex,  \* per master and id, kept from reign to reign
    calls,                  \* AppendEntries calls
    nodes,                  \* per master, the data nodes it knows
    halted,                 \* masters that have panicked or send on the nil channel for ever
    blocked,                \* masters that wait for cm.mu in AddNodeExecutor, and hold it
    cut                     \* masters whose log was cut by another's entries

vars == <<state, currentTerm, votedFor, log, commitIndex, peerIds, nextIndex,
          matchIndex, calls, nodes, halted, blocked, cut>>
roleVars  == <<state, currentTerm, votedFor>>
indexVars == <<nextIndex, matchIndex>>
stopVars  == <<halted, blocked>>

Server == {Founders[k] : k \in DOMAIN Founders}
First  == Founders[1]
Id     == Server \cup Joiner

ASSUME FoundersAssumption ==
    /\ Founders \in Seq(Server) /\ Len(Founders) > 0
    /\ \A j, k \in DOMAIN Founders : Founders[j] = Founders[k] => j = k
ASSUME JoinerAssumption ==
    /\ Joiner \cap Server = {}
    /\ Contact \in [Joiner \cup NodeId -> SUBSET Server]
ASSUME BoundAssumption == MaxTerm \in [Server -> Nat] /\ MaxCalls \in Nat

Running(i) == i \notin halted \cup blocked

Registrations(t) ==
    [k \in 1 .. Len(Founders) - 1 |-> [term |-> t, cmd |-> AddServerStruct(Founders[k + 1])]]
Founded == Len(Founders) - 1

Init ==
    /\ state = [i \in Server |-> IF i = First THEN "LEADER" ELSE "FOLLOWER"]
    /\ currentTerm = [i \in Server |-> 1]
    /\ votedFor = [i \in Server |-> IF i = First THEN First ELSE None]
    /\ log = [i \in Server |-> Registrations(IF i = First THEN 1 ELSE 0)]
    /\ commitIndex = [i \in Server |-> Founded]
    /\ peerIds = [i \in Server |-> [p \in Id |-> IF p \in Server \ {i} THEN 1 ELSE 0]]
    /\ nextIndex = [i \in Server |-> [p \in Id |->
                       IF i = First /\ p \in Server THEN Founded + 1 ELSE 1]]
    /\ matchIndex = [i \in Server |-> [p \in Id |->
                       IF i = First /\ p \in Server THEN Founded ELSE 0]]
    /\ calls = {}
    /\ nodes = [i \in Server |-> {}]
    /\ halted = {}
    /\ blocked = {}
    /\ cut = {}

(***************************************************************************)
(* len(peerIds) + 1, and the majority of it.                               *)
(***************************************************************************)
Times(peers, S) == MapThenSumSet(LAMBDA p : peers[p], S)
Majority(i, n) == n * 2 > Times(peerIds[i], Id) + 1

becomeFollower(i, term) ==
    /\ state' = [state EXCEPT ![i] = "FOLLOWER"]
    /\ currentTerm' = [currentTerm EXCEPT ![i] = term]
    /\ votedFor' = [votedFor EXCEPT ![i] = None]

-----------------------------------------------------------------------------
(***************************************************************************)
(* startElection, the RequestVote calls that get through to the peers in   *)
(* heard, and the replies.  A vote is not written to votedFor.  A voter    *)
(* behind the candidate's term compares votedFor before becomeFollower     *)
(* resets it, so that it may refuse a first request and grant the next: a  *)
(* candidate that has a peer twice asks it twice and counts both votes.  A *)
(* peer ahead of the candidate makes it a follower.                        *)
(***************************************************************************)
LogUpToDate(i, v) ==
    AtLeastAsUpToDate(LastLogIndexAndTerm(log[i]), LastLogIndexAndTerm(log[v]))

VotesOf(i, v, term) ==
    IF ~LogUpToDate(i, v) \/ term < currentTerm[v] THEN 0
    ELSE IF votedFor[v] \in {None, i} THEN peerIds[i][v]
    ELSE IF term > currentTerm[v] THEN peerIds[i][v] - 1
    ELSE 0

startElection(i, heard) ==
    LET term   == currentTerm[i] + 1
        ahead  == {v \in heard : currentTerm[v] > term}
        behind == {v \in heard : currentTerm[v] < term}
        votes  == 1 + Times([v \in heard |-> VotesOf(i, v, term)], heard)
        Campaign(role, t, vote) ==
            /\ state' = [j \in Server |-> IF j = i THEN role
                                          ELSE IF j \in behind THEN "FOLLOWER" ELSE state[j]]
            /\ currentTerm' = [j \in Server |-> IF j = i THEN t
                                                ELSE IF j \in behind THEN term ELSE currentTerm[j]]
            /\ votedFor' = [j \in Server |-> IF j = i THEN vote
                                             ELSE IF j \in behind THEN None ELSE votedFor[j]]
    IN
    /\ Running(i)
    /\ state[i] = "FOLLOWER"
    /\ currentTerm[i] < MaxTerm[i]
    /\ \A v \in heard : peerIds[i][v] > 0 /\ Running(v)
    /\ \/ \E v \in ahead : Campaign("FOLLOWER", currentTerm[v], None)
       \/ ahead = {} /\ Majority(i, votes) /\ Campaign("LEADER", term, i)
       \/ ahead = {} /\ ~Majority(i, 1) /\ Campaign("CANDIDATE", term, i)
    /\ calls' = {c \in calls : c.from # i}
    /\ UNCHANGED <<log, commitIndex, peerIds, indexVars, nodes, stopVars, cut>>

-----------------------------------------------------------------------------
(***************************************************************************)
(* RegisterMaster on any master, with the Submit that only a leader        *)
(* accepts: with another master the newcomer is added to its peers alone,  *)
(* and is told that it has joined.                                         *)
(***************************************************************************)
RegisterMaster(i, x) ==
    /\ Running(i)
    /\ \A j \in Server : peerIds[j][x] = 0
    /\ peerIds' = [peerIds EXCEPT ![i][x] = 1]
    /\ log' = IF state[i] # "LEADER" THEN log
              ELSE [log EXCEPT ![i] = Append(@, [term |-> currentTerm[i],
                                                 cmd  |-> AddServerStruct(x)])]
    /\ UNCHANGED <<roleVars, commitIndex, indexVars, calls, nodes, stopVars, cut>>

(***************************************************************************)
(* UpdateNode on a leader, for a data node that it does not know yet.      *)
(* (One that loses the lead before Submit: module Registry.)               *)
(***************************************************************************)
UpdateNode(i, n) ==
    /\ Running(i) /\ state[i] = "LEADER"
    /\ n \notin nodes[i]
    /\ nodes' = [nodes EXCEPT ![i] = @ \cup {n}]
    /\ log' = [log EXCEPT ![i] = Append(@, [term |-> currentTerm[i], cmd |-> AddNodeStruct(n)])]
    /\ UNCHANGED <<roleVars, commitIndex, peerIds, indexVars, calls, stopVars, cut>>

-----------------------------------------------------------------------------
(***************************************************************************)
(* leaderSendHeartbeats to one peer.  nextIndex is what the last reign     *)
(* left; beyond the log, cm.log[prevLogIndex] panics.                      *)
(***************************************************************************)
SendAppendEntries(i, p) ==
    LET ni == nextIndex[i][p] IN
    /\ Running(i) /\ state[i] = "LEADER"
    /\ peerIds[i][p] > 0
    /\ Cardinality(calls) < MaxCalls
    /\ ni <= Len(log[i]) + 1
    /\ calls' = calls \cup {[phase |-> "req", from |-> i, to |-> p, term |-> currentTerm[i],
                             ni |-> ni, prevLogTerm |-> TermAt(log[i], ni - 1),
                             entries |-> WireEntries(log[i], ni),
                             leaderCommit |-> commitIndex[i]]}
    /\ UNCHANGED <<roleVars, log, commitIndex, peerIds, indexVars, nodes, stopVars, cut>>

SliceOutOfRange(i, p) ==
    /\ Running(i) /\ state[i] = "LEADER"
    /\ peerIds[i][p] > 0
    /\ nextIndex[i][p] > Len(log[i]) + 1
    /\ halted' = halted \cup {i}
    /\ UNCHANGED <<roleVars, log, commitIndex, peerIds, indexVars, calls, nodes, blocked, cut>>

(***************************************************************************)
(* AppendEntries: the role first; then, whatever the term of the request,  *)
(* the log.                                                                *)
(***************************************************************************)
StepsDownFor(i, term) ==
    \/ term > currentTerm[i]
    \/ term = currentTerm[i] /\ state[i] # "FOLLOWER"

Reply(c, i, ok) ==
    calls' = (calls \ {c}) \cup
             {[phase |-> "resp", from |-> c.from, to |-> i, term |-> c.term, ni |-> c.ni,
               n |-> Len(c.entries), ok |-> ok, rterm |-> currentTerm'[i]]}

NewRole(i, c) ==
    IF StepsDownFor(i, c.term) THEN becomeFollower(i, c.term) ELSE UNCHANGED roleVars

RefuseAppendEntries(c) ==
    LET i == c.to IN
    /\ c.phase = "req" /\ i \in Server /\ Running(i)
    /\ ~AcceptsPrev(log[i], c.ni - 1, c.prevLogTerm)
    /\ NewRole(i, c)
    /\ Reply(c, i, FALSE)
    /\ UNCHANGED <<log, commitIndex, peerIds, indexVars, nodes, stopVars, cut>>

(***************************************************************************)
(* The entries from the first one whose term differs are replaced and      *)
(* executed, those this master had executed before included.  A commit     *)
(* index beyond the log ends in the send on the nil channel.               *)
(***************************************************************************)
ExecuteEntries(i, c) ==
    peerIds' = [peerIds EXCEPT ![i] = ExecuteAddServers(@, i, c.entries,
                   ExecutedEntries(log[i], c.ni - 1, c.entries))]

IsCut(old, new) == ~(Len(old) <= Len(new) /\ \A k \in 1 .. Len(old) : new[k] = old[k])

AcceptAppendEntries(c) ==
    LET i == c.to
        l == MergedLog(log[i], c.ni - 1, c.entries)
    IN
    /\ c.phase = "req" /\ i \in Server /\ Running(i)
    /\ AcceptsPrev(log[i], c.ni - 1, c.prevLogTerm)
    /\ ~ExecutorBlocks(log[i], c.ni - 1, c.entries)
    /\ NewRole(i, c)
    /\ ExecuteEntries(i, c)
    /\ log' = [log EXCEPT ![i] = l]
    /\ cut' = IF IsCut(log[i], l) THEN cut \cup {i} ELSE cut
    /\ IF c.leaderCommit > commitIndex[i] /\ Len(l) < c.leaderCommit
       THEN /\ commitIndex' = [commitIndex EXCEPT ![i] = Len(l)]
            /\ halted' = halted \cup {i}
            /\ calls' = calls \ {c}
       ELSE /\ commitIndex' = [commitIndex EXCEPT ![i] =
                   IF c.leaderCommit > @ THEN c.leaderCommit ELSE @]
            /\ Reply(c, i, TRUE)
            /\ UNCHANGED halted
    /\ UNCHANGED <<indexVars, nodes, blocked>>

(***************************************************************************)
(* An AddNode entry among those to execute: its executor locks cm.mu,      *)
(* which AppendEntries holds.  The entries before it have been executed,   *)
(* none has been appended.                                                 *)
(***************************************************************************)
AddNodeExecutorBlocks(c) ==
    LET i == c.to IN
    /\ c.phase = "req" /\ i \in Server /\ Running(i)
    /\ AcceptsPrev(log[i], c.ni - 1, c.prevLogTerm)
    /\ ExecutorBlocks(log[i], c.ni - 1, c.entries)
    /\ NewRole(i, c)
    /\ ExecuteEntries(i, c)
    /\ blocked' = blocked \cup {i}
    /\ calls' = calls \ {c}
    /\ UNCHANGED <<log, commitIndex, indexVars, nodes, halted, cut>>

(***************************************************************************)
(* leaderSendHeartbeats after the RPC.                                     *)
(***************************************************************************)
ReceiveHigherTerm(c) ==
    /\ c.phase = "resp" /\ Running(c.from)
    /\ c.rterm > c.term
    /\ becomeFollower(c.from, c.rterm)
    /\ calls' = calls \ {c}
    /\ UNCHANGED <<log, commitIndex, peerIds, indexVars, nodes, stopVars, cut>>

NextSkipsOne(c) == c.ni + c.n + 1
NextAfter(c) == c.ni + c.n

MatchAfter(c) == c.ni + c.n - 1

HeldCount(i, match, k) == Times(peerIds[i], {p \in Id : match[p] >= k}) + 1

ReceiveSuccess(c) ==
    LET i == c.from
        match == [matchIndex[i] EXCEPT ![c.to] = MatchAfter(c)]
        held == {k \in commitIndex[i] + 1 .. Len(log[i]) : Majority(i, HeldCount(i, match, k))}
    IN
    /\ c.phase = "resp" /\ Running(i)
    /\ c.rterm = c.term /\ c.ok
    /\ state[i] = "LEADER"
    /\ nextIndex' = [nextIndex EXCEPT ![i][c.to] = NextAfter(c)]
    /\ matchIndex' = [matchIndex EXCEPT ![i] = match]
    /\ \E k \in {commitIndex[i]} \cup held :
          /\ \A h \in held : h <= k
          /\ commitIndex' = [commitIndex EXCEPT ![i] = k]
    /\ calls' = calls \ {c}
    /\ UNCHANGED <<roleVars, log, peerIds, nodes, stopVars, cut>>

NextAfterFailure(c) == c.ni - 1

ReceiveFailure(c) ==
    /\ c.phase = "resp" /\ Running(c.from)
    /\ c.rterm = c.term /\ ~c.ok
    /\ state[c.from] = "LEADER"
    /\ nextIndex' = [nextIndex EXCEPT ![c.from][c.to] = NextAfterFailure(c)]
    /\ calls' = calls \ {c}
    /\ UNCHANGED <<roleVars, log, commitIndex, peerIds, matchIndex, nodes, stopVars, cut>>

(***************************************************************************)
(* The call is lost or times out, or its reply is ignored.                 *)
(***************************************************************************)
CallFails(c) ==
    /\ calls' = calls \ {c}
    /\ UNCHANGED <<roleVars, log, commitIndex, peerIds, indexVars, nodes, stopVars, cut>>

HandleAppendEntries(c) ==
    RefuseAppendEntries(c) \/ AcceptAppendEntries(c) \/ AddNodeExecutorBlocks(c)
ReceiveReply(c) == ReceiveHigherTerm(c) \/ ReceiveSuccess(c) \/ ReceiveFailure(c)

Next ==
    \/ \E i \in Server : \E heard \in SUBSET Server : startElection(i, heard)
    \/ \E x \in Joiner : \E i \in Contact[x] : RegisterMaster(i, x)
    \/ \E n \in NodeId : \E i \in Contact[n] : UpdateNode(i, n)
    \/ \E i, p \in Server : SendAppendEntries(i, p) \/ SliceOutOfRange(i, p)
    \/ \E c \in calls : HandleAppendEntries(c) \/ ReceiveReply(c) \/ CallFails(c)

Spec == Init /\ [][Next]_vars
-----------------------------------------------------------------------------
(***************************************************************************)
(* Properties.                                                             *)
(***************************************************************************)
\* Every master named in a master's log counts as its peer, whether it was added
\* by RegisterMaster or by the executor, and however often the log was replaced.
LoggedArePeers ==
    \A i \in Server : \A k \in DOMAIN log[i] : \A p \in Id \ {i} :
        log[i][k].cmd = AddServerStruct(p) => peerIds[i][p] > 0

\* A master loses entries to another leader only if it has submitted the first of
\* them itself: received entries carry term 0, as do those on the wire, so that
\* they are never found to differ.
OnlyOwnEntriesCut ==
    [][\A i \in Server : IsCut(log[i], log'[i]) =>
          \E k \in DOMAIN log[i] :
             /\ log[i][k].term # 0
             /\ \A j \in 1 .. k - 1 : log'[i][j] = log[i][j]]_vars

\* The indices a reign leaves behind are stale in the next one only where a log
\* was cut in between: otherwise nextIndex stays within the leader's log (beyond
\* it the next heartbeat panics), matchIndex within the follower's, the commit
\* index within the log it is for, and no master has panicked or is left sending
\* on the nil channel.  Unsigned nextIndex never passes 0.  (The other way to hang
\* needs no cut: an AddNode entry blocks each follower that executes it, and all of
\* this holds of those too.)
StaleOnlyAfterCut ==
    \A i \in Server :
        /\ \A p \in Id : nextIndex[i][p] >= 1 /\ (i \notin cut => nextIndex[i][p] <= Len(log[i]) + 1)
        /\ i \notin cut => commitIndex[i] <= Len(log[i])
        /\ \A p \in Server \ cut : matchIndex[i][p] <= Len(log[p])
        /\ i \in halted => cut # {}

\* A master counts another one twice, and its votes too, only after it has had
\* entries of its own replaced, which executes them once more.  (A master that
\* blocks in AddNodeExecutor half-way through may have executed some of them, with
\* its log not replaced yet; it counts nothing any more.)
TwiceOnlyAfterCut ==
    \A i \in Server \ (cut \cup blocked) : \A p \in Id : peerIds[i][p] <= 1

\* Raft's state machine safety: what two masters have committed at an index is
\* the same entry.
CommittedAgree ==
    \A i, j \in Server : \A k \in 1 .. Len(log[i]) :
        k <= commitIndex[i] /\ k <= commitIndex[j] /\ k <= Len(log[j]) =>
            log[i][k].cmd = log[j][k].cmd
=============================================================================
