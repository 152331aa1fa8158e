------------------------------ MODULE RaftLog ------------------------------
(***************************************************************************)
(* The log of a master and what the consensus module does with it          *)
(* (raft/raft.go, raft/types.go, raft/addServer.go, raft/addNode.go), as   *)
(* operators without state.                                                *)
(*                                                                         *)
(* cm.log[0] is a sentinel that is never replaced, so a log is modelled    *)
(* without it: Go's cm.log[i] is log[i] for i >= 1, the sentinel's term is *)
(* TermAt(log, 0), and Go's len(cm.log) is Len(log) + 1.                   *)
(***************************************************************************)
EXTENDS Integers, Sequences, FiniteSets

(***************************************************************************)
(* The two commands with a registered converter (types.go).                *)
(***************************************************************************)
AddServerStruct(s) == [type |-> "AddServer", id |-> s]
AddNodeStruct(n)   == [type |-> "AddNode", id |-> n]

(***************************************************************************)
(* A log entry as it travels in an AppendEntries request.  The converters  *)
(* fill in Type and Data of the protobuf Entry and never its Term, which   *)
(* therefore arrives as 0.                                                 *)
(***************************************************************************)
Serialize(e) == [term |-> 0, cmd |-> e.cmd]

TermAt(l, i) == IF i = 0 THEN 0 ELSE l[i].term

(***************************************************************************)
(* cm.log[ni:], serialised.                                                *)
(***************************************************************************)
WireEntries(l, ni) == [k \in 1 .. Len(l) + 1 - ni |-> Serialize(l[ni + k - 1])]

(***************************************************************************)
(* lastLogIndexAndTerm, and the comparison a voter makes with it.          *)
(***************************************************************************)
LastLogIndexAndTerm(l) == [index |-> Len(l), term |-> TermAt(l, Len(l))]

AtLeastAsUpToDate(req, own) ==
    \/ req.term > own.term
    \/ req.term = own.term /\ req.index >= own.index

(***************************************************************************)
(* AppendEntries: the check of the previous entry.                         *)
(***************************************************************************)
AcceptsPrev(l, prev, prevTerm) ==
    prev = 0 \/ (prev <= Len(l) /\ prevTerm = TermAt(l, prev))

(***************************************************************************)
(* AppendEntries: how many of the received entries the log already has;    *)
(* entries are compared by term only.                                      *)
(***************************************************************************)
SameTerm(l, prev, es, k) == prev + k <= Len(l) /\ l[prev + k].term = es[k].term

MatchesNothing(l, prev, es) == 0
MatchedEntries(l, prev, es) ==
    CHOOSE k \in 0 .. Len(es) :
        /\ \A j \in 1 .. k : SameTerm(l, prev, es, j)
        /\ k < Len(es) => ~SameTerm(l, prev, es, k + 1)

(***************************************************************************)
(* AppendEntries: the log afterwards.  Nothing is cut off when every       *)
(* received entry was matched.                                             *)
(***************************************************************************)
AppendsAtEnd(l, prev, es) == l \o es
MergedLog(l, prev, es) ==
    LET k == MatchedEntries(l, prev, es)
    IN  IF k < Len(es)
        THEN SubSeq(l, 1, prev + k) \o SubSeq(es, k + 1, Len(es))
        ELSE l

(***************************************************************************)
(* AppendEntries executes each entry it is about to append.  An AddNode    *)
(* executor locks cm.mu, which AppendEntries already holds, so it never    *)
(* returns and nothing after it is executed.                               *)
(***************************************************************************)
NewEntries(l, prev, es) == MatchedEntries(l, prev, es) + 1 .. Len(es)

ExecutedEntries(l, prev, es) ==
    {k \in NewEntries(l, prev, es) :
        \A j \in NewEntries(l, prev, es) : j <= k => es[j].cmd.type # "AddNode"}

ExecutorBlocks(l, prev, es) ==
    \E k \in NewEntries(l, prev, es) : es[k].cmd.type = "AddNode"

(***************************************************************************)
(* AddServerExecutor for every entry of es whose index is in ks: peerIds,  *)
(* here a bag since its order is never used, gains the entry's id.         *)
(***************************************************************************)
ExecutesNothing(peers, self, es, ks) == peers
ExecuteAddServers(peers, self, es, ks) ==
    [p \in DOMAIN peers |->
        IF p = self
        THEN peers[p]
        ELSE peers[p] + Cardinality({k \in ks : es[k].cmd = AddServerStruct(p)})]

(***************************************************************************)
(* The commit loop of the leader: the last index that a majority of the    *)
(* peers and the leader itself hold, or the old commitIndex.  There is no  *)
(* check of the entry's term.  The result is a singleton.                  *)
(***************************************************************************)
HeldByHalf(peers, match, i) ==
    (Cardinality({p \in peers : match[p] >= i}) + 1) * 2 >= Cardinality(peers) + 1
HeldByMajority(peers, match, i) ==
    (Cardinality({p \in peers : match[p] >= i}) + 1) * 2 > Cardinality(peers) + 1

AdvancedCommit(l, ci, peers, match) ==
    LET held == {i \in ci + 1 .. Len(l) : HeldByMajority(peers, match, i)}
    IN  {c \in {ci} \cup held : \A d \in held : d <= c}
=============================================================================
