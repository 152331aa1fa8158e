------------------------- MODULE ReplicationProofs -------------------------
(***************************************************************************)
(* IndInv is an invariant of Replication, for every set of followers,      *)
(* nodes and slots.  The heart of the argument is MergedLogErased: on logs *)
(* whose terms are erased, AppendEntries only ever extends the log.        *)
(***************************************************************************)
EXTENDS Replication, SequenceTheorems, FiniteSetTheorems, TLAPS

\* A position of a merged log beyond the old end is one of the new entries.
LEMMA TailIndex ==
    ASSUME NEW p \in Nat, NEW n \in Nat, NEW a \in Nat, NEW b \in Nat, NEW k \in a + 1 .. b,
           p <= a, b = IF p + n <= a THEN a ELSE p + n
    PROVE  k - p \in 1 .. n /\ p + (k - p) = k
  OBVIOUS

(***************************************************************************)
(* What AppendEntries computes when all terms are 0: everything both sides *)
(* have is matched.                                                        *)
(***************************************************************************)
LEMMA MatchedErased ==
    ASSUME NEW S, NEW l \in Seq(S), NEW es \in Seq(S), NEW prev \in 0 .. Len(l),
           \A k \in 1 .. Len(l) : l[k].term = 0,
           \A k \in 1 .. Len(es) : es[k].term = 0
    PROVE  MatchedEntries(l, prev, es)
               = IF prev + Len(es) <= Len(l) THEN Len(es) ELSE Len(l) - prev
<1> DEFINE m == IF prev + Len(es) <= Len(l) THEN Len(es) ELSE Len(l) - prev
           P(k) == /\ \A j \in 1 .. k : SameTerm(l, prev, es, j)
                   /\ k < Len(es) => ~SameTerm(l, prev, es, k + 1)
<1>1. Len(l) \in Nat /\ Len(es) \in Nat
  OBVIOUS
<1>2. m \in 0 .. Len(es)
  BY <1>1
<1>3. \A j \in 1 .. Len(es) : SameTerm(l, prev, es, j) <=> prev + j <= Len(l)
  BY <1>1 DEF SameTerm
<1>4. P(m)
  BY SMTT(30), <1>1, <1>2, <1>3
<1>5. ASSUME NEW k \in 0 .. Len(es), P(k)
      PROVE  k = m
  <2>1. k < Len(es) => ~(prev + k + 1 <= Len(l))
    BY <1>1, <1>3, <1>5
  <2>2. k > 0 => prev + k <= Len(l)
    BY <1>1, <1>3, <1>5
  <2> QED
    BY <1>1, <2>1, <2>2
<1> HIDE DEF m
<1>6. (CHOOSE k \in 0 .. Len(es) : P(k)) = m
  BY <1>2, <1>4, <1>5
<1>7. MatchedEntries(l, prev, es) = CHOOSE k \in 0 .. Len(es) : P(k)
  BY DEF MatchedEntries
<1> QED
  BY <1>6, <1>7 DEF m

(***************************************************************************)
(* So the follower's log is extended and never cut or overwritten.         *)
(***************************************************************************)
LEMMA MergedLogErased ==
    ASSUME NEW S, NEW l \in Seq(S), NEW es \in Seq(S), NEW prev \in 0 .. Len(l),
           \A k \in 1 .. Len(l) : l[k].term = 0,
           \A k \in 1 .. Len(es) : es[k].term = 0
    PROVE  LET m == MergedLog(l, prev, es) IN
           /\ m \in Seq(S)
           /\ Len(m) = IF prev + Len(es) <= Len(l) THEN Len(l) ELSE prev + Len(es)
           /\ \A k \in 1 .. Len(l) : m[k] = l[k]
           /\ \A k \in Len(l) + 1 .. Len(m) : m[k] = es[k - prev]
<1> DEFINE k == MatchedEntries(l, prev, es)
           m == MergedLog(l, prev, es)
<1>1. k = IF prev + Len(es) <= Len(l) THEN Len(es) ELSE Len(l) - prev
  BY MatchedErased
<1>2. m = IF k < Len(es)
          THEN SubSeq(l, 1, prev + k) \o SubSeq(es, k + 1, Len(es)) ELSE l
  BY DEF MergedLog
<1> HIDE DEF k, m
<1>3. CASE prev + Len(es) <= Len(l)
  BY <1>1, <1>2, <1>3 DEF m
<1>4. CASE ~(prev + Len(es) <= Len(l))
  <2>1. k = Len(l) - prev /\ k \in 0 .. Len(es) - 1 /\ prev + k = Len(l)
    BY <1>1, <1>4
  <2>2. m = SubSeq(l, 1, Len(l)) \o SubSeq(es, k + 1, Len(es))
    <3>1. k < Len(es)
      BY <2>1
    <3>2. prev + k = Len(l)
      BY <2>1
    <3> QED
      BY <1>2, <3>1, <3>2, Zenon
  <2> DEFINE a == SubSeq(l, 1, Len(l))  b == SubSeq(es, k + 1, Len(es))
  <2>3. a \in Seq(S) /\ Len(a) = Len(l) /\ \A i \in 1 .. Len(l) : a[i] = l[i]
    OBVIOUS
  <2>4. /\ b \in Seq(S) /\ Len(b) = Len(es) - k
        /\ \A i \in 1 .. Len(es) - k : b[i] = es[k + i]
    BY <2>1
  <2> HIDE DEF a, b
  <2>0. m = a \o b
    BY <2>2 DEF a, b
  <2>5. /\ m \in Seq(S) /\ Len(m) = Len(l) + Len(es) - k
        /\ \A i \in 1 .. Len(m) : m[i] = IF i <= Len(l) THEN a[i] ELSE b[i - Len(l)]
    <3>1. /\ a \o b \in Seq(S)
          /\ Len(a \o b) = Len(a) + Len(b)
          /\ \A i \in 1 .. Len(a) + Len(b) :
                (a \o b)[i] = IF i <= Len(a) THEN a[i] ELSE b[i - Len(a)]
      <4>1. a \in Seq(S) /\ b \in Seq(S)
        BY <2>3, <2>4
      <4> QED
        BY <4>1, ConcatProperties, Zenon
    <3>2. Len(a) + Len(b) = Len(l) + Len(es) - k
      BY <2>1, <2>3, <2>4
    <3> QED
      BY <2>0, <2>3, <3>1, <3>2, Zenon
  <2>6. Len(m) = prev + Len(es)
    BY <2>1, <2>5
  <2>7. \A i \in 1 .. Len(l) : m[i] = l[i]
    BY <2>1, <2>3, <2>5
  <2>8. \A i \in Len(l) + 1 .. Len(m) : m[i] = es[i - prev]
    <3> TAKE i \in Len(l) + 1 .. Len(m)
    <3>1. m[i] = b[i - Len(l)]
      BY <2>1, <2>5
    <3>2. i - Len(l) \in 1 .. Len(es) - k /\ k + (i - Len(l)) = i - prev
      BY <2>1, <2>5
    <3> QED
      BY <3>1, <3>2, <2>4
  <2> QED
    BY <1>4, <2>5, <2>6, <2>7, <2>8 DEF m
<1> QED
  BY <1>3, <1>4

(***************************************************************************)
(* Only entries beyond the follower's log are executed.                    *)
(***************************************************************************)
LEMMA NewEntriesErased ==
    ASSUME NEW S, NEW l \in Seq(S), NEW es \in Seq(S), NEW prev \in 0 .. Len(l),
           \A k \in 1 .. Len(l) : l[k].term = 0,
           \A k \in 1 .. Len(es) : es[k].term = 0
    PROVE  \A k \in NewEntries(l, prev, es) : k \in 1 .. Len(es) /\ prev + k > Len(l)
<1>1. MatchedEntries(l, prev, es)
          = IF prev + Len(es) <= Len(l) THEN Len(es) ELSE Len(l) - prev
  BY MatchedErased
<1> QED
  BY <1>1 DEF NewEntries
(***************************************************************************)
(* A call in flight has the fields its phase says.                         *)
(***************************************************************************)
LEMMA CallFields ==
    ASSUME NEW c \in Call
    PROVE  /\ c.phase = "req" =>
                /\ c.ni \in Nat /\ c.prevLogTerm \in {0, LeaderTerm}
                /\ c.entries \in Seq(Entry) /\ c.leaderCommit \in Nat
           /\ c.phase = "resp" => c.ni \in Nat /\ c.n \in Nat /\ c.ok \in BOOLEAN
           /\ c.phase \in {"idle", "req", "resp"}
           /\ c.phase = "idle" <=> c = Idle
BY DEF Call, Idle

LEMMA IntervalEqual ==
    ASSUME NEW a \in Nat, NEW b \in Nat, 1 .. a = 1 .. b
    PROVE  a = b
<1>1. a # 0 => a \in 1 .. a
  OBVIOUS
<1>2. b # 0 => b \in 1 .. b
  OBVIOUS
<1>3. a # 0 => a \in 1 .. b
  BY <1>1, Zenon
<1>4. b # 0 => b \in 1 .. a
  BY <1>2, Zenon
<1> QED
  BY <1>3, <1>4

(***************************************************************************)
(* The entries of a request are a stretch of the leader's log.             *)
(***************************************************************************)
LEMMA WireEntriesType ==
    ASSUME NEW l \in Seq(Entry), NEW ni \in 1 .. Len(l) + 1
    PROVE  LET es == WireEntries(l, ni) IN
           /\ es \in Seq(Entry)
           /\ Len(es) = Len(l) + 1 - ni
           /\ \A k \in 1 .. Len(es) : es[k].term = 0 /\ es[k].cmd = l[ni - 1 + k].cmd
<1> DEFINE n == Len(l) + 1 - ni
           es == [k \in 1 .. n |-> Serialize(l[ni + k - 1])]
<1>1. n \in Nat
  OBVIOUS
<1>2. ASSUME NEW k \in 1 .. n
      PROVE  /\ Serialize(l[ni + k - 1]) \in Entry
             /\ Serialize(l[ni + k - 1]).term = 0
             /\ Serialize(l[ni + k - 1]).cmd = l[ni - 1 + k].cmd
  <2>1. ni + k - 1 \in 1 .. Len(l) /\ ni - 1 + k = ni + k - 1
    OBVIOUS
  <2>2. l[ni + k - 1] \in Entry
    BY <2>1
  <2> QED
    BY <2>1, <2>2 DEF Serialize, Entry
<1> HIDE DEF n
<1>3. es \in Seq(Entry) /\ Len(es) = n
  <2>1. es \in [1 .. n -> Entry]
    BY <1>2
  <2>2. es \in Seq(Entry)
    BY <1>1, <2>1, SeqDef, Zenon
  <2>3. DOMAIN es = 1 .. Len(es) /\ Len(es) \in Nat
    BY <2>2, LenProperties, Zenon
  <2>4. DOMAIN es = 1 .. n
    OBVIOUS
  <2> HIDE DEF es
  <2>5. 1 .. Len(es) = 1 .. n
    BY <2>3, <2>4, Zenon
  <2>6. Len(es) = n
    BY <1>1, <2>3, <2>5, IntervalEqual, Zenon
  <2> QED
    BY <2>2, <2>6
<1>4. \A k \in 1 .. n : es[k].term = 0 /\ es[k].cmd = l[ni - 1 + k].cmd
  BY <1>2
<1> HIDE DEF es
<1>5. WireEntries(l, ni) = es
  BY DEF WireEntries, es, n
<1> QED
  BY <1>3, <1>4, <1>5 DEF n

LEMMA AdvancedCommitRange ==
    ASSUME NEW l \in Seq(Entry), NEW ci \in 0 .. Len(l), NEW peers, NEW match,
           NEW c \in AdvancedCommit(l, ci, peers, match)
    PROVE  c \in ci .. Len(l)
BY DEF AdvancedCommit

LEMMA ExecuteAddServersType ==
    ASSUME NEW peers \in Bag, NEW self, NEW es \in Seq(Entry), NEW ks \in SUBSET (1 .. Len(es))
    PROVE  ExecuteAddServers(peers, self, es, ks) \in Bag
<1>1. ASSUME NEW p \in Master
      PROVE  Cardinality({k \in ks : es[k].cmd = AddServerStruct(p)}) \in Nat
  <2>1. IsFiniteSet(1 .. Len(es))
    BY FS_Interval
  <2> QED
    BY <2>1, FS_Subset, FS_CardinalityType
<1> QED
  BY <1>1 DEF ExecuteAddServers, Bag
LEMMA CallsUpdate ==
    ASSUME NEW cs \in [Follower -> [Slot -> Call]], NEW f \in Follower, NEW s \in Slot,
           NEW c \in Call
    PROVE  LET new == [cs EXCEPT ![f][s] = c] IN
           /\ new \in [Follower -> [Slot -> Call]]
           /\ \A g \in Follower, t \in Slot :
                 new[g][t] = IF g = f /\ t = s THEN c ELSE cs[g][t]
OBVIOUS

(***************************************************************************)
(* Logs only grow and so does the commit index, so a call that told the    *)
(* truth keeps telling it.                                                 *)
(***************************************************************************)
Extends(new, old) ==
    Len(old) <= Len(new) /\ \A k \in 1 .. Len(old) : new[k] = old[k]

LEMMA CallTracksStable ==
    ASSUME NEW c \in Call,
           NEW ll \in Seq(Entry), NEW ll2 \in Seq(Entry), Extends(ll2, ll),
           NEW lf \in Seq(Entry), NEW lf2 \in Seq(Entry), Extends(lf2, lf),
           NEW ci \in Nat, NEW ci2 \in Nat, ci <= ci2,
           CallTracksLogs(c, ll, ci, lf)
    PROVE  CallTracksLogs(c, ll2, ci2, lf2)
<1>1. CASE c.phase = "req"
  <2>1. c.ni \in Nat /\ c.entries \in Seq(Entry) /\ c.leaderCommit \in Nat
    BY <1>1, CallFields
  <2>2. \A k \in 1 .. Len(c.entries) : c.ni - 1 + k \in 1 .. Len(ll)
    BY SMTT(30), <1>1, <2>1 DEF CallTracksLogs
  <2>3. \A k \in 1 .. Len(c.entries) : ll2[c.ni - 1 + k] = ll[c.ni - 1 + k]
    BY <2>2 DEF Extends
  <2>4. \A k \in 1 .. Len(c.entries) :
            c.entries[k].term = 0 /\ c.entries[k].cmd = ll2[c.ni - 1 + k].cmd
    BY <1>1, <2>3 DEF CallTracksLogs
  <2>5. /\ c.ni >= 1
        /\ c.ni - 1 + Len(c.entries) <= Len(ll2)
        /\ c.leaderCommit <= c.ni - 1 + Len(c.entries)
        /\ c.leaderCommit <= ci2
    BY SMTT(30), <1>1, <2>1 DEF CallTracksLogs, Extends
  <2> QED
    BY <1>1, <2>4, <2>5 DEF CallTracksLogs
<1>2. CASE c.phase = "resp"
  BY <1>2, CallFields DEF CallTracksLogs, Extends
<1> QED
  BY <1>1, <1>2 DEF CallTracksLogs

(***************************************************************************)
(* The initial states.                                                     *)
(***************************************************************************)
LEMMA InitInv == Init => IndInv
<1> SUFFICES ASSUME Init PROVE IndInv
  OBVIOUS
<1> USE DEF Init
<1>1. TypeOK
  BY DEF TypeOK, NoPeer, Bag, Idle, Call
<1>2. StoredTermsErased /\ LogPrefix /\ NextIndexInLog /\ MatchIndexHeld /\ FollowerCommitBehind
  BY DEF StoredTermsErased, LogPrefix, NextIndexInLog, MatchIndexHeld, FollowerCommitBehind, Master
<1>3. CallsTrackLogs
  BY DEF CallsTrackLogs, CallTracksLogs, Idle
<1>4. OnlyExecutorBlocks
  BY DEF OnlyExecutorBlocks
<1> QED
  BY <1>1, <1>2, <1>3, <1>4 DEF IndInv

(***************************************************************************)
(* The steps that touch neither logs nor calls: RegisterMaster, JoinRead   *)
(* and JoinWrite.                                                          *)
(***************************************************************************)
LEMMA JoinSteps ==
    ASSUME IndInv, NEW f \in Follower,
           RegisterMaster(f) \/ JoinRead(f) \/ JoinWrite(f)
    PROVE  IndInv'
<1>1. TypeOK
  BY DEF IndInv
<1>2. Leader \in Master /\ f \in Master
  BY DEF Master
<1>3. UNCHANGED <<log, commitIndex, nextIndex, matchIndex, nodes, stuck, calls>>
  BY DEF RegisterMaster, JoinRead, JoinWrite, leaderVars
<1>4. join' \in [Follower -> {"new", "registered", "answered", "appending", "joined"}]
  BY <1>1 DEF RegisterMaster, JoinRead, JoinWrite, TypeOK
<1>5. peerIds' \in [Master -> Bag] /\ snap' \in [Follower -> Bag]
  <2>1. CASE RegisterMaster(f)
    BY <1>1, <1>2, <2>1 DEF RegisterMaster, TypeOK, Bag
  <2>2. CASE JoinRead(f)
    BY <1>1, <1>2, <2>2 DEF JoinRead, TypeOK, Bag
  <2>3. CASE JoinWrite(f)
    <3>1. [snap[f] EXCEPT ![Leader] = @ + 1] \in Bag
      BY <1>1, <1>2 DEF TypeOK, Bag
    <3>2. NoPeer \in Bag
      BY DEF NoPeer, Bag
    <3> QED
      BY <1>1, <1>2, <2>3, <3>1, <3>2 DEF JoinWrite, TypeOK
  <2> QED
    BY <2>1, <2>2, <2>3
<1>6. TypeOK'
  BY <1>1, <1>3, <1>4, <1>5 DEF TypeOK
<1> QED
  BY <1>3, <1>6 DEF IndInv, StoredTermsErased, CallsTrackLogs, LogPrefix, NextIndexInLog,
     MatchIndexHeld, FollowerCommitBehind, OnlyExecutorBlocks

(***************************************************************************)
(* The steps that append to the leader's log.                              *)
(***************************************************************************)
LEMMA SubmitStep ==
    ASSUME IndInv, NEW cmd \in Command, Submit(cmd),
           UNCHANGED <<commitIndex, nextIndex, matchIndex, stuck, calls>>
    PROVE  /\ log' \in [Master -> Seq(Entry)]
           /\ StoredTermsErased' /\ CallsTrackLogs' /\ LogPrefix' /\ NextIndexInLog'
           /\ MatchIndexHeld' /\ FollowerCommitBehind' /\ OnlyExecutorBlocks'
<1>1. /\ TypeOK /\ StoredTermsErased /\ CallsTrackLogs /\ LogPrefix /\ NextIndexInLog
      /\ MatchIndexHeld /\ FollowerCommitBehind /\ OnlyExecutorBlocks
  BY DEF IndInv
<1>2. Leader \in Master /\ Follower \subseteq Master /\ Leader \notin Follower
  BY LeaderAssumption DEF Master
<1> DEFINE e == [term |-> LeaderTerm, cmd |-> cmd]
<1>3. e \in Entry
  BY DEF Entry
<1>4. log[Leader] \in Seq(Entry) /\ \A f \in Follower : log[f] \in Seq(Entry)
  BY <1>1, <1>2 DEF TypeOK
<1> DEFINE new == Append(log[Leader], e)
<1>5. /\ new \in Seq(Entry) /\ Len(new) = Len(log[Leader]) + 1
      /\ \A k \in 1 .. Len(log[Leader]) : new[k] = log[Leader][k]
  BY <1>3, <1>4
<1>6. log' = [log EXCEPT ![Leader] = new]
  BY DEF Submit
<1> HIDE DEF new
<1>7. log'[Leader] = new /\ \A f \in Follower : log'[f] = log[f]
  BY <1>1, <1>2, <1>6 DEF TypeOK
<1>8. log' \in [Master -> Seq(Entry)]
  BY <1>1, <1>5, <1>6 DEF TypeOK
<1>9. StoredTermsErased'
  BY <1>1, <1>2, <1>4, <1>5, <1>7 DEF StoredTermsErased, TypeOK
<1>10. CallsTrackLogs'
  <2> SUFFICES ASSUME NEW f \in Follower, NEW s \in Slot
               PROVE  CallTracksLogs(calls[f][s], new, commitIndex[Leader], log[f])
    BY <1>7 DEF CallsTrackLogs
  <2>1. calls[f][s] \in Call /\ commitIndex[Leader] \in Nat
    BY <1>1, <1>2 DEF TypeOK
  <2>2. Extends(new, log[Leader]) /\ Extends(log[f], log[f])
    BY <1>4, <1>5 DEF Extends
  <2>3. CallTracksLogs(calls[f][s], log[Leader], commitIndex[Leader], log[f])
    BY <1>1 DEF CallsTrackLogs
  <2>4. commitIndex[Leader] <= commitIndex[Leader]
    BY <2>1
  <2> QED
    BY <1>4, <1>5, <2>1, <2>2, <2>3, <2>4, CallTracksStable
<1>11. LogPrefix'
  <2> SUFFICES ASSUME NEW f \in Follower
               PROVE  /\ Len(log[f]) <= Len(new)
                      /\ \A k \in 1 .. Len(log[f]) : log[f][k].cmd = new[k].cmd
    BY <1>7 DEF LogPrefix
  <2>1. /\ Len(log[f]) <= Len(log[Leader])
        /\ \A k \in 1 .. Len(log[f]) : log[f][k].cmd = log[Leader][k].cmd
    BY <1>1 DEF LogPrefix
  <2>2. \A k \in 1 .. Len(log[f]) : k \in 1 .. Len(log[Leader])
    BY <1>4, <2>1
  <2>3. Len(log[f]) <= Len(new)
    BY <1>4, <1>5, <2>1
  <2> QED
    BY <1>5, <2>1, <2>2, <2>3
<1>12. NextIndexInLog'
  BY <1>1, <1>4, <1>5, <1>7 DEF NextIndexInLog
<1>13. MatchIndexHeld' /\ FollowerCommitBehind'
  BY <1>1, <1>7 DEF MatchIndexHeld, FollowerCommitBehind
<1>14. OnlyExecutorBlocks'
  <2> SUFFICES ASSUME NEW f \in stuck
               PROVE  \E k \in Len(log[f]) + 1 .. Len(new) : new[k].cmd.type = "AddNode"
    BY <1>1, <1>7 DEF OnlyExecutorBlocks, TypeOK
  <2>1. f \in Follower
    BY <1>1 DEF TypeOK
  <2>2. PICK k \in Len(log[f]) + 1 .. Len(log[Leader]) : log[Leader][k].cmd.type = "AddNode"
    BY <1>1 DEF OnlyExecutorBlocks
  <2>3. k \in Len(log[f]) + 1 .. Len(new) /\ k \in 1 .. Len(log[Leader])
    BY <1>4, <1>5, <2>1
  <2> QED
    BY <1>5, <2>2, <2>3
<1> QED
  BY <1>8, <1>9, <1>10, <1>11, <1>12, <1>13, <1>14

LEMMA SubmitSteps ==
    ASSUME IndInv,
           \/ \E f \in Follower : SubmitAddServer(f)
           \/ \E n \in NodeId : UpdateNode(n)
    PROVE  IndInv'
<1>1. TypeOK
  BY DEF IndInv
<1>2. CASE \E f \in Follower : SubmitAddServer(f)
  <2>1. PICK f \in Follower : SubmitAddServer(f)
    BY <1>2
  <2>2. AddServerStruct(f) \in Command
    BY DEF Command
  <2>3. UNCHANGED <<commitIndex, peerIds, nextIndex, matchIndex, nodes, snap, stuck, calls>>
    BY <2>1 DEF SubmitAddServer, leaderVars
  <2>4. join' \in [Follower -> {"new", "registered", "answered", "appending", "joined"}]
    BY <1>1, <2>1 DEF SubmitAddServer, TypeOK
  <2>5. Submit(AddServerStruct(f))
    BY <2>1 DEF SubmitAddServer
  <2> QED
    BY <1>1, <2>2, <2>3, <2>4, <2>5, SubmitStep DEF IndInv, TypeOK
<1>3. CASE \E n \in NodeId : UpdateNode(n)
  <2>1. PICK n \in NodeId : UpdateNode(n)
    BY <1>3
  <2>2. AddNodeStruct(n) \in Command
    BY DEF Command
  <2>3. UNCHANGED <<commitIndex, peerIds, nextIndex, matchIndex, join, snap, stuck, calls>>
    BY <2>1 DEF UpdateNode, joinVars
  <2>4. nodes' \in SUBSET NodeId
    BY <1>1, <2>1 DEF UpdateNode, TypeOK
  <2>5. Submit(AddNodeStruct(n))
    BY <2>1 DEF UpdateNode
  <2> QED
    BY <1>1, <2>2, <2>3, <2>4, <2>5, SubmitStep DEF IndInv, TypeOK
<1> QED
  BY <1>2, <1>3

(***************************************************************************)
(* A step that only changes calls keeps everything once the changed call   *)
(* is typed and tracks the logs.                                           *)
(***************************************************************************)
LEMMA CallStep ==
    ASSUME IndInv, NEW f \in Follower, NEW s \in Slot, NEW c \in Call,
           CallTracksLogs(c, log[Leader], commitIndex[Leader], log[f]),
           calls' = [calls EXCEPT ![f][s] = c],
           UNCHANGED <<log, commitIndex, peerIds, nextIndex, matchIndex, join, snap, nodes, stuck>>
    PROVE  IndInv'
<1>1. TypeOK /\ CallsTrackLogs
  BY DEF IndInv
<1>2. /\ calls' \in [Follower -> [Slot -> Call]]
      /\ \A g \in Follower, t \in Slot :
            calls'[g][t] = IF g = f /\ t = s THEN c ELSE calls[g][t]
  BY <1>1, CallsUpdate DEF TypeOK
<1>3. TypeOK'
  BY <1>1, <1>2 DEF TypeOK
<1>4. CallsTrackLogs'
  BY <1>1, <1>2 DEF CallsTrackLogs
<1> QED
  BY <1>3, <1>4 DEF IndInv, StoredTermsErased, LogPrefix, NextIndexInLog, MatchIndexHeld,
     FollowerCommitBehind, OnlyExecutorBlocks

LEMMA SendStep ==
    ASSUME IndInv, NEW f \in Follower, NEW s \in Slot, SendAppendEntries(f, s)
    PROVE  IndInv'
<1> DEFINE ll == log[Leader]
           ni == nextIndex[f]
           c  == [phase |-> "req", ni |-> ni, prevLogTerm |-> TermAt(ll, ni - 1),
                  entries |-> WireEntries(ll, ni), leaderCommit |-> commitIndex[Leader]]
<1>1. /\ ll \in Seq(Entry) /\ ni \in 1 .. Len(ll) + 1
      /\ commitIndex[Leader] \in 0 .. Len(ll)
  BY DEF IndInv, TypeOK, NextIndexInLog, StoredTermsErased, Master
<1>2. /\ WireEntries(ll, ni) \in Seq(Entry)
      /\ Len(WireEntries(ll, ni)) = Len(ll) + 1 - ni
      /\ \A k \in 1 .. Len(WireEntries(ll, ni)) :
            /\ WireEntries(ll, ni)[k].term = 0
            /\ WireEntries(ll, ni)[k].cmd = ll[ni - 1 + k].cmd
  BY <1>1, WireEntriesType
<1>3. TermAt(ll, ni - 1) \in {0, LeaderTerm}
  <2>1. CASE ni = 1
    BY <2>1 DEF TermAt
  <2>2. CASE ni # 1
    <3>1. ll[ni - 1] \in Entry
      BY <1>1, <2>2
    <3> QED
      BY <1>1, <2>2, <3>1 DEF TermAt, Entry
  <2> QED
    BY <2>1, <2>2
<1>4. /\ calls' = [calls EXCEPT ![f][s] = c]
      /\ UNCHANGED <<log, commitIndex, peerIds, nextIndex, matchIndex, join, snap, nodes, stuck>>
  BY DEF SendAppendEntries, LeaderCommit, leaderVars, joinVars
<1>5. c \in Call
  BY <1>1, <1>2, <1>3 DEF Call
<1>6. CallTracksLogs(c, ll, commitIndex[Leader], log[f])
  BY <1>1, <1>2 DEF CallTracksLogs
<1> QED
  BY <1>4, <1>5, <1>6, CallStep

LEMMA RefuseStep ==
    ASSUME IndInv, NEW f \in Follower, NEW s \in Slot, RefuseAppendEntries(f, s)
    PROVE  IndInv'
<1> DEFINE c == calls[f][s]
           r == [phase |-> "resp", ni |-> c.ni, n |-> Len(c.entries), ok |-> FALSE]
<1>1. c \in Call /\ c.phase = "req"
  BY DEF IndInv, TypeOK, RefuseAppendEntries
<1>2. c.ni \in Nat /\ c.entries \in Seq(Entry)
  BY <1>1, CallFields
<1>3. CallTracksLogs(c, log[Leader], commitIndex[Leader], log[f])
  BY DEF IndInv, CallsTrackLogs
<1>4. c.ni >= 1 /\ c.ni - 1 + Len(c.entries) <= Len(log[Leader])
  BY <1>1, <1>3 DEF CallTracksLogs
<1>5. c.ni # 1
  BY DEF RefuseAppendEntries, AcceptsPrev
<1>6. /\ calls' = [calls EXCEPT ![f][s] = r]
      /\ UNCHANGED <<log, commitIndex, peerIds, nextIndex, matchIndex, join, snap, nodes, stuck>>
  BY DEF RefuseAppendEntries, Reply, leaderVars, joinVars
<1> HIDE DEF c
<1>7. r \in Call
  BY <1>2 DEF Call
<1>8. CallTracksLogs(r, log[Leader], commitIndex[Leader], log[f])
  BY <1>2, <1>4, <1>5 DEF CallTracksLogs
<1> HIDE DEF r
<1> QED
  BY <1>6, <1>7, <1>8, CallStep

LEMMA FailStep ==
    ASSUME IndInv, NEW f \in Follower, NEW s \in Slot, CallFails(f, s)
    PROVE  IndInv'
<1>1. Idle \in Call /\ CallTracksLogs(Idle, log[Leader], commitIndex[Leader], log[f])
  BY DEF Idle, Call, CallTracksLogs
<1>2. /\ calls' = [calls EXCEPT ![f][s] = Idle]
      /\ UNCHANGED <<log, commitIndex, peerIds, nextIndex, matchIndex, join, snap, nodes, stuck>>
  BY DEF CallFails, leaderVars, joinVars
<1> QED
  BY <1>1, <1>2, CallStep

(***************************************************************************)
(* The two replies.  calls changes as in CallStep, with an idle slot.      *)
(***************************************************************************)
LEMMA ReceiveSteps ==
    ASSUME IndInv, NEW f \in Follower, NEW s \in Slot, ReceiveReply(f, s)
    PROVE  IndInv'
<1> DEFINE c == calls[f][s]
<1>1. /\ TypeOK /\ StoredTermsErased /\ CallsTrackLogs /\ LogPrefix /\ NextIndexInLog
      /\ MatchIndexHeld /\ FollowerCommitBehind /\ OnlyExecutorBlocks
  BY DEF IndInv
<1>2. c \in Call /\ c.phase = "resp"
  BY <1>1 DEF TypeOK, ReceiveReply, ReceiveSuccess, ReceiveFailure
<1>3. c.ni \in Nat /\ c.n \in Nat
  BY <1>2, CallFields
<1>4. /\ c.ni - 1 + c.n <= Len(log[Leader])
      /\ IF c.ok THEN c.ni >= 1 /\ c.ni - 1 + c.n <= Len(log[f]) ELSE c.ni >= 2
  BY <1>1, <1>2 DEF CallsTrackLogs, CallTracksLogs
<1>5. /\ calls' = [calls EXCEPT ![f][s] = Idle]
      /\ UNCHANGED <<log, peerIds, nodes, join, snap, stuck>>
  BY DEF ReceiveReply, ReceiveSuccess, ReceiveFailure, joinVars
<1>6. Idle \in Call
  BY DEF Idle, Call
<1>7. /\ calls' \in [Follower -> [Slot -> Call]]
      /\ \A g \in Follower, t \in Slot :
            calls'[g][t] = IF g = f /\ t = s THEN Idle ELSE calls[g][t]
  BY <1>1, <1>5, <1>6, CallsUpdate DEF TypeOK
<1>8. /\ Leader \in Master /\ Follower \subseteq Master /\ Leader \notin Follower
      /\ \A m \in Master : log[m] \in Seq(Entry) /\ commitIndex[m] \in Nat
  BY <1>1, LeaderAssumption DEF Master, TypeOK
<1> HIDE DEF c
<1>9. /\ nextIndex' \in [Follower -> Nat] /\ matchIndex' \in [Follower -> Nat]
      /\ NextIndexInLog' /\ MatchIndexHeld'
  <2>1. CASE ReceiveSuccess(f, s)
    <3>1. /\ c.ok
          /\ nextIndex' = [nextIndex EXCEPT ![f] = c.ni + c.n]
          /\ matchIndex' = [matchIndex EXCEPT ![f] = c.ni + c.n - 1]
      BY <2>1 DEF ReceiveSuccess, MatchAfter, c
    <3>2. /\ c.ni + c.n \in 1 .. Len(log[Leader]) + 1
          /\ c.ni + c.n - 1 \in 0 .. Len(log[f])
      BY SMTT(30), <1>3, <1>4, <1>8, <3>1
    <3>3. nextIndex' \in [Follower -> Nat] /\ matchIndex' \in [Follower -> Nat]
      BY <1>1, <1>3, <3>1, <3>2, SMTT(30) DEF TypeOK
    <3>4. NextIndexInLog' /\ MatchIndexHeld'
      BY <1>1, <1>5, <3>1, <3>2 DEF NextIndexInLog, MatchIndexHeld, TypeOK
    <3> QED
      BY <3>3, <3>4
  <2>2. CASE ReceiveFailure(f, s)
    <3>1. /\ ~c.ok
          /\ nextIndex' = [nextIndex EXCEPT ![f] = c.ni - 1]
          /\ matchIndex' = matchIndex
      BY <2>2 DEF ReceiveFailure, NextAfterFailure, c
    <3>2. c.ni - 1 \in 1 .. Len(log[Leader]) + 1
      BY <1>3, <1>4, <1>8, <3>1
    <3>3. nextIndex' \in [Follower -> Nat]
      BY <1>1, <3>1, <3>2 DEF TypeOK
    <3>4. NextIndexInLog' /\ MatchIndexHeld'
      BY <1>1, <1>5, <3>1, <3>2 DEF NextIndexInLog, MatchIndexHeld, TypeOK
    <3> QED
      BY <1>1, <3>1, <3>3, <3>4 DEF TypeOK
  <2> QED
    BY <2>1, <2>2 DEF ReceiveReply
<1>10. /\ commitIndex' \in [Master -> Nat]
       /\ \A g \in Follower : commitIndex'[g] = commitIndex[g]
       /\ commitIndex'[Leader] \in commitIndex[Leader] .. Len(log[Leader])
  <2>1. commitIndex[Leader] \in 0 .. Len(log[Leader])
    BY <1>1, <1>8 DEF StoredTermsErased
  <2>2. CASE ReceiveSuccess(f, s)
    <3>1. PICK i \in AdvancedCommit(log[Leader], commitIndex[Leader], Peers, matchIndex') :
              commitIndex' = [commitIndex EXCEPT ![Leader] = i]
      BY <2>2 DEF ReceiveSuccess
    <3>2. i \in commitIndex[Leader] .. Len(log[Leader])
      BY <1>8, <2>1, <3>1, AdvancedCommitRange
    <3> QED
      BY <1>1, <1>8, <3>1, <3>2 DEF TypeOK
  <2>3. CASE ReceiveFailure(f, s)
    <3>1. commitIndex' = commitIndex
      BY <2>3 DEF ReceiveFailure
    <3> QED
      BY <1>1, <1>8, <2>1, <3>1 DEF TypeOK
  <2> QED
    BY <2>2, <2>3 DEF ReceiveReply
<1>11. TypeOK'
  BY <1>1, <1>5, <1>7, <1>9, <1>10 DEF TypeOK
<1>12. CallsTrackLogs'
  <2> SUFFICES ASSUME NEW g \in Follower, NEW t \in Slot
               PROVE  CallTracksLogs(calls'[g][t], log[Leader], commitIndex'[Leader], log[g])
    BY <1>5 DEF CallsTrackLogs
  <2>1. CASE calls'[g][t] = Idle
    BY <2>1 DEF CallTracksLogs, Idle
  <2>2. CASE calls'[g][t] = calls[g][t]
    <3>1. calls[g][t] \in Call /\ log[Leader] \in Seq(Entry) /\ log[g] \in Seq(Entry)
      BY <1>1, <1>8 DEF TypeOK
    <3>2. Extends(log[Leader], log[Leader]) /\ Extends(log[g], log[g])
      BY <3>1 DEF Extends
    <3>3. /\ commitIndex[Leader] \in Nat /\ commitIndex'[Leader] \in Nat
          /\ commitIndex[Leader] <= commitIndex'[Leader]
      BY <1>8, <1>10
    <3>4. CallTracksLogs(calls[g][t], log[Leader], commitIndex[Leader], log[g])
      BY <1>1 DEF CallsTrackLogs
    <3> QED
      BY <2>2, <3>1, <3>2, <3>3, <3>4, CallTracksStable
  <2> QED
    BY <1>7, <2>1, <2>2
<1>13. StoredTermsErased' /\ LogPrefix' /\ OnlyExecutorBlocks'
  BY <1>1, <1>5, <1>8, <1>10 DEF StoredTermsErased, LogPrefix, OnlyExecutorBlocks
<1>14. FollowerCommitBehind'
  BY <1>1, <1>5, <1>8, <1>10 DEF FollowerCommitBehind
<1> QED
  BY <1>9, <1>11, <1>12, <1>13, <1>14 DEF IndInv

(***************************************************************************)
(* What the follower's two accepting steps start from.                     *)
(***************************************************************************)
LEMMA RequestFacts ==
    ASSUME IndInv, NEW f \in Follower, NEW s \in Slot, calls[f][s].phase = "req",
           AcceptsPrev(log[f], calls[f][s].ni - 1, calls[f][s].prevLogTerm)
    PROVE  LET c == calls[f][s] IN
           /\ c \in Call
           /\ c.ni \in Nat /\ c.entries \in Seq(Entry) /\ c.leaderCommit \in Nat
           /\ c.ni - 1 \in 0 .. Len(log[f])
           /\ c.ni - 1 + Len(c.entries) <= Len(log[Leader])
           /\ \A k \in 1 .. Len(c.entries) :
                 c.entries[k].term = 0 /\ c.entries[k].cmd = log[Leader][c.ni - 1 + k].cmd
           /\ c.leaderCommit <= c.ni - 1 + Len(c.entries)
           /\ c.leaderCommit <= commitIndex[Leader]
           /\ log[f] \in Seq(Entry) /\ log[Leader] \in Seq(Entry)
           /\ \A k \in 1 .. Len(log[f]) : log[f][k].term = 0
<1> DEFINE c == calls[f][s]
<1>1. c \in Call
  BY DEF IndInv, TypeOK
<1>2. c.ni \in Nat /\ c.entries \in Seq(Entry) /\ c.leaderCommit \in Nat
  BY <1>1, CallFields
<1>3. CallTracksLogs(c, log[Leader], commitIndex[Leader], log[f])
  BY DEF IndInv, CallsTrackLogs
<1>4. log[f] \in Seq(Entry) /\ log[Leader] \in Seq(Entry)
  BY DEF IndInv, TypeOK, Master
<1>5. \A k \in 1 .. Len(log[f]) : log[f][k].term = 0
  BY DEF IndInv, StoredTermsErased
<1>6. c.ni >= 1
  BY <1>3 DEF CallTracksLogs
<1>7. c.ni - 1 \in 0 .. Len(log[f])
  BY <1>2, <1>4, <1>6 DEF AcceptsPrev
<1> QED
  BY <1>1, <1>2, <1>3, <1>4, <1>5, <1>7 DEF CallTracksLogs

LEMMA ExecutedPeersType ==
    ASSUME IndInv, NEW f \in Follower, NEW es \in Seq(Entry), NEW prev \in 0 .. Len(log[f]),
           \A k \in 1 .. Len(es) : es[k].term = 0,
           peerIds' = [peerIds EXCEPT ![f] =
                          ExecuteAddServers(@, f, es, ExecutedEntries(log[f], prev, es))]
    PROVE  peerIds' \in [Master -> Bag]
<1>1. /\ peerIds \in [Master -> Bag] /\ f \in Master /\ log[f] \in Seq(Entry)
      /\ \A k \in 1 .. Len(log[f]) : log[f][k].term = 0
  BY DEF IndInv, TypeOK, Master, StoredTermsErased
<1>2. \A k \in NewEntries(log[f], prev, es) : k \in 1 .. Len(es) /\ prev + k > Len(log[f])
  BY <1>1, NewEntriesErased
<1>3. ExecutedEntries(log[f], prev, es) \in SUBSET (1 .. Len(es))
  BY <1>2 DEF ExecutedEntries
<1>4. ExecuteAddServers(peerIds[f], f, es, ExecutedEntries(log[f], prev, es)) \in Bag
  BY <1>1, <1>3, ExecuteAddServersType
<1> QED
  BY <1>1, <1>4

(***************************************************************************)
(* The handler that never returns: its log stays as it was, and the AddNode *)
(* entry it waits on lies beyond it in the leader's log.                   *)
(***************************************************************************)
LEMMA BlockStep ==
    ASSUME IndInv, NEW f \in Follower, NEW s \in Slot, BlockInExecutor(f, s)
    PROVE  IndInv'
<1> DEFINE c == calls[f][s]
<1>1. TypeOK /\ CallsTrackLogs /\ OnlyExecutorBlocks
  BY DEF IndInv
<1>2. /\ c.phase = "req" /\ AcceptsPrev(log[f], c.ni - 1, c.prevLogTerm)
      /\ ExecutorBlocks(log[f], c.ni - 1, c.entries)
      /\ peerIds' = [peerIds EXCEPT ![f] =
                        ExecuteAddServers(@, f, c.entries,
                            ExecutedEntries(log[f], c.ni - 1, c.entries))]
      /\ stuck' = stuck \cup {f}
      /\ calls' = [calls EXCEPT ![f][s] = Idle]
      /\ UNCHANGED <<log, commitIndex, nextIndex, matchIndex, nodes, join, snap>>
  BY DEF BlockInExecutor, leaderVars, joinVars
<1>3. /\ c \in Call
      /\ c.ni \in Nat /\ c.entries \in Seq(Entry)
      /\ c.ni - 1 \in 0 .. Len(log[f])
      /\ c.ni - 1 + Len(c.entries) <= Len(log[Leader])
      /\ \A k \in 1 .. Len(c.entries) :
            c.entries[k].term = 0 /\ c.entries[k].cmd = log[Leader][c.ni - 1 + k].cmd
      /\ log[f] \in Seq(Entry) /\ log[Leader] \in Seq(Entry)
      /\ \A k \in 1 .. Len(log[f]) : log[f][k].term = 0
  BY <1>2, RequestFacts
<1> HIDE DEF c
<1>4. peerIds' \in [Master -> Bag]
  BY <1>2, <1>3, ExecutedPeersType
<1>5. Idle \in Call
  BY DEF Idle, Call
<1>6. /\ calls' \in [Follower -> [Slot -> Call]]
      /\ \A g \in Follower, t \in Slot :
            calls'[g][t] = IF g = f /\ t = s THEN Idle ELSE calls[g][t]
  BY <1>1, <1>2, <1>5, CallsUpdate DEF TypeOK
<1>7. TypeOK'
  BY <1>1, <1>2, <1>4, <1>6 DEF TypeOK
<1>8. CallsTrackLogs'
  <2>1. \A lg, ci, lf : CallTracksLogs(Idle, lg, ci, lf)
    BY DEF CallTracksLogs, Idle
  <2> QED
    BY <1>1, <1>2, <1>6, <2>1 DEF CallsTrackLogs
<1>9. OnlyExecutorBlocks'
  <2>1. PICK j \in NewEntries(log[f], c.ni - 1, c.entries) : c.entries[j].cmd.type = "AddNode"
    BY <1>2 DEF ExecutorBlocks
  <2>2. j \in 1 .. Len(c.entries) /\ c.ni - 1 + j > Len(log[f])
    BY <1>3, NewEntriesErased
  <2> DEFINE n == Len(c.entries)  a == Len(log[f])  b == Len(log[Leader])
  <2>3. c.ni - 1 + j \in a + 1 .. b
    <3>1. c.ni \in Nat /\ n \in Nat /\ a \in Nat /\ b \in Nat /\ c.ni - 1 + n <= b
      BY <1>3
    <3>2. j \in 1 .. n /\ c.ni - 1 + j > a
      BY <2>2
    <3> HIDE DEF n, a, b
    <3> QED
      BY <3>1, <3>2
  <2>4. log[Leader][c.ni - 1 + j].cmd.type = "AddNode"
    BY <1>3, <2>1, <2>2
  <2> QED
    BY <1>1, <1>2, <2>3, <2>4 DEF OnlyExecutorBlocks
<1> QED
  BY <1>2, <1>7, <1>8, <1>9 DEF IndInv, StoredTermsErased, LogPrefix, NextIndexInLog,
     MatchIndexHeld, FollowerCommitBehind

(***************************************************************************)
(* The handler that returns: the log grows to at least the stretch of the  *)
(* request, so leaderCommit never lies beyond it.                          *)
(***************************************************************************)
LEMMA AcceptStep ==
    ASSUME IndInv, NEW f \in Follower, NEW s \in Slot, AcceptAppendEntries(f, s)
    PROVE  IndInv'
<1> DEFINE c  == calls[f][s]
           ll == log[Leader]
           lf == log[f]
           m  == MergedLog(lf, c.ni - 1, c.entries)
           r  == [phase |-> "resp", ni |-> c.ni, n |-> Len(c.entries), ok |-> TRUE]
<1>1. /\ TypeOK /\ StoredTermsErased /\ CallsTrackLogs /\ LogPrefix /\ NextIndexInLog
      /\ MatchIndexHeld /\ FollowerCommitBehind /\ OnlyExecutorBlocks
  BY DEF IndInv
<1>2. /\ c.phase = "req" /\ f \notin stuck /\ AcceptsPrev(lf, c.ni - 1, c.prevLogTerm)
      /\ peerIds' = [peerIds EXCEPT ![f] =
                        ExecuteAddServers(@, f, c.entries,
                            ExecutedEntries(lf, c.ni - 1, c.entries))]
      /\ log' = [log EXCEPT ![f] = m]
      /\ UNCHANGED <<nextIndex, matchIndex, nodes, join, snap>>
  BY DEF AcceptAppendEntries, leaderVars, joinVars
<1>3. /\ c \in Call
      /\ c.ni \in Nat /\ c.entries \in Seq(Entry) /\ c.leaderCommit \in Nat
      /\ c.ni - 1 \in 0 .. Len(lf)
      /\ c.ni - 1 + Len(c.entries) <= Len(ll)
      /\ \A k \in 1 .. Len(c.entries) :
            c.entries[k].term = 0 /\ c.entries[k].cmd = ll[c.ni - 1 + k].cmd
      /\ c.leaderCommit <= c.ni - 1 + Len(c.entries)
      /\ c.leaderCommit <= commitIndex[Leader]
      /\ lf \in Seq(Entry) /\ ll \in Seq(Entry)
      /\ \A k \in 1 .. Len(lf) : lf[k].term = 0
  BY <1>2, RequestFacts
<1>4. /\ Leader \in Master /\ Follower \subseteq Master /\ Leader # f /\ Leader \notin Follower
      /\ f \in Master
  BY LeaderAssumption DEF Master
<1> DEFINE ci == IF c.leaderCommit > commitIndex[f] THEN c.leaderCommit ELSE commitIndex[f]
<1>5. /\ m \in Seq(Entry)
      /\ Len(m) = IF c.ni - 1 + Len(c.entries) <= Len(lf)
                  THEN Len(lf) ELSE c.ni - 1 + Len(c.entries)
      /\ \A k \in 1 .. Len(lf) : m[k] = lf[k]
      /\ \A k \in Len(lf) + 1 .. Len(m) : m[k] = c.entries[k - (c.ni - 1)]
  <2> DEFINE es == c.entries  prev == c.ni - 1
  <2>1. /\ lf \in Seq(Entry) /\ es \in Seq(Entry) /\ prev \in 0 .. Len(lf)
        /\ \A k \in 1 .. Len(lf) : lf[k].term = 0
        /\ \A k \in 1 .. Len(es) : es[k].term = 0
    BY <1>3
  <2>2. m = MergedLog(lf, prev, es)
    OBVIOUS
  <2> HIDE DEF lf, m, es, prev
  <2>3. /\ m \in Seq(Entry)
        /\ Len(m) = IF prev + Len(es) <= Len(lf) THEN Len(lf) ELSE prev + Len(es)
        /\ \A k \in 1 .. Len(lf) : m[k] = lf[k]
        /\ \A k \in Len(lf) + 1 .. Len(m) : m[k] = es[k - prev]
    BY <2>1, <2>2, MergedLogErased, SMTT(30)
  <2> QED
    BY <2>3 DEF es, prev
<1>6. Len(lf) <= Len(m) /\ c.ni - 1 + Len(c.entries) <= Len(m)
  <2> HIDE DEF c, lf, ll, m
  <2> QED
    BY <1>3, <1>5
<1>7. ~(Len(m) < c.leaderCommit)
  <2> HIDE DEF c, lf, ll, m
  <2> QED
    BY <1>3, <1>5, <1>6
<1>8. /\ commitIndex' = [commitIndex EXCEPT ![f] = ci]
      /\ calls' = [calls EXCEPT ![f][s] = r]
      /\ stuck' = stuck
  BY <1>7 DEF AcceptAppendEntries, Reply
<1> HIDE DEF c, m, r, ci
<1>9. /\ log' \in [Master -> Seq(Entry)] /\ log'[f] = m /\ log'[Leader] = ll
      /\ \A g \in Follower : g # f => log'[g] = log[g]
  BY <1>1, <1>2, <1>4, <1>5 DEF TypeOK
<1>10. /\ ci \in Nat /\ commitIndex[f] \in Nat /\ commitIndex[Leader] \in Nat
       /\ ci <= commitIndex[Leader] /\ ci <= Len(m)
  <2>1. /\ commitIndex[f] \in Nat /\ commitIndex[Leader] \in Nat
        /\ commitIndex[f] <= commitIndex[Leader] /\ commitIndex[f] <= Len(lf)
    BY <1>1, <1>4 DEF TypeOK, FollowerCommitBehind
  <2> QED
    BY <1>3, <1>5, <1>6, <1>7, <2>1 DEF ci
<1>11. /\ commitIndex' \in [Master -> Nat] /\ commitIndex'[f] = ci
       /\ commitIndex'[Leader] = commitIndex[Leader]
       /\ \A g \in Follower : g # f => commitIndex'[g] = commitIndex[g]
  BY <1>1, <1>4, <1>8, <1>10 DEF TypeOK
<1>12. r \in Call /\ CallTracksLogs(r, ll, commitIndex[Leader], m)
  <2>1. r.phase = "resp" /\ r.ni = c.ni /\ r.n = Len(c.entries) /\ r.ok = TRUE
    BY DEF r
  <2>2. r \in Call
    BY <1>3 DEF r, Call
  <2>3. c.ni >= 1
    BY <1>3
  <2> QED
    BY <1>3, <1>6, <2>1, <2>2, <2>3 DEF CallTracksLogs
<1>13. /\ calls' \in [Follower -> [Slot -> Call]]
       /\ \A g \in Follower, t \in Slot :
             calls'[g][t] = IF g = f /\ t = s THEN r ELSE calls[g][t]
  BY <1>1, <1>8, <1>12, CallsUpdate DEF TypeOK
<1>14. peerIds' \in [Master -> Bag]
  BY <1>2, <1>3, ExecutedPeersType
<1>15. TypeOK'
  BY <1>1, <1>2, <1>8, <1>9, <1>11, <1>13, <1>14 DEF TypeOK
<1>16. CallsTrackLogs'
  <2> SUFFICES ASSUME NEW g \in Follower, NEW t \in Slot
               PROVE  CallTracksLogs(calls'[g][t], ll, commitIndex[Leader], log'[g])
    BY <1>9, <1>11 DEF CallsTrackLogs
  <2>1. CASE g = f /\ t = s
    BY <1>9, <1>12, <1>13, <2>1
  <2>2. CASE ~(g = f /\ t = s)
    <3>1. calls'[g][t] = calls[g][t] /\ calls[g][t] \in Call
      BY <1>1, <1>13, <2>2 DEF TypeOK
    <3>2. CallTracksLogs(calls[g][t], ll, commitIndex[Leader], log[g])
      BY <1>1 DEF CallsTrackLogs
    <3>3. log[g] \in Seq(Entry) /\ log'[g] \in Seq(Entry)
      BY <1>1, <1>4, <1>9 DEF TypeOK
    <3>4. Extends(log'[g], log[g])
      <4>1. CASE g = f
        BY <1>5, <1>6, <1>9, <4>1 DEF Extends
      <4>2. CASE g # f
        BY <1>9, <3>3, <4>2 DEF Extends
      <4> QED
        BY <4>1, <4>2
    <3>5. Extends(ll, ll) /\ commitIndex[Leader] <= commitIndex[Leader]
      BY <1>3, <1>10 DEF Extends
    <3> HIDE DEF ll
    <3> QED
      BY <1>3, <1>10, <3>1, <3>2, <3>3, <3>4, <3>5, CallTracksStable
  <2> QED
    BY <2>1, <2>2
<1>17. \A k \in 1 .. Len(m) : m[k].term = 0 /\ m[k].cmd = ll[k].cmd
  <2> TAKE k \in 1 .. Len(m)
  <2>1. CASE k \in 1 .. Len(lf)
    BY <1>1, <1>3, <1>5, <2>1 DEF LogPrefix
  <2>2. CASE k \in Len(lf) + 1 .. Len(m)
    <3> DEFINE n == Len(c.entries)  a == Len(lf)  b == Len(m)
    <3>1. k - (c.ni - 1) \in 1 .. n /\ c.ni - 1 + (k - (c.ni - 1)) = k
      <4>1. /\ c.ni \in Nat /\ n \in Nat /\ a \in Nat /\ b \in Nat
            /\ c.ni - 1 \in 0 .. a /\ k \in a + 1 .. b
            /\ b = IF c.ni - 1 + n <= a THEN a ELSE c.ni - 1 + n
        BY <1>3, <1>5, <2>2
      <4> HIDE DEF n, a, b
      <4> DEFINE p == c.ni - 1
      <4>2. p \in Nat /\ p <= a /\ k \in a + 1 .. b
            /\ b = IF p + n <= a THEN a ELSE p + n
        BY <4>1
      <4> HIDE DEF p
      <4>3. k - p \in 1 .. n /\ p + (k - p) = k
        BY <4>1, <4>2, TailIndex
      <4> QED
        BY <4>3 DEF p
    <3>2. m[k] = c.entries[k - (c.ni - 1)]
      BY <1>5, <2>2
    <3> QED
      BY <1>3, <3>1, <3>2
  <2> QED
    BY <1>3, <1>5, <2>1, <2>2
<1>18. LogPrefix'
  <2>1. Len(m) <= Len(ll)
    BY <1>1, <1>3, <1>5 DEF LogPrefix
  <2> QED
    BY <1>1, <1>9, <1>17, <2>1 DEF LogPrefix
<1>19. StoredTermsErased'
  <2>1. \A k \in 1 .. Len(log'[f]) : log'[f][k].term = 0
    BY <1>9, <1>17
  <2>2. \A g \in Follower \ {f} : log'[g] = log[g]
    BY <1>9
  <2>3. \A g \in Follower : \A k \in 1 .. Len(log'[g]) : log'[g][k].term = 0
    BY <1>1, <2>1, <2>2 DEF StoredTermsErased
  <2>4. commitIndex'[Leader] <= Len(log'[Leader])
    BY <1>1, <1>9, <1>11 DEF StoredTermsErased
  <2> QED
    BY <2>3, <2>4 DEF StoredTermsErased
<1>20. MatchIndexHeld'
  <2>1. matchIndex[f] \in Nat /\ matchIndex[f] <= Len(lf)
    BY <1>1 DEF MatchIndexHeld, TypeOK
  <2>2. matchIndex[f] <= Len(m)
    BY <1>3, <1>5, <1>6, <2>1
  <2> QED
    BY <1>1, <1>2, <1>9, <2>2 DEF MatchIndexHeld
<1>21. FollowerCommitBehind'
  BY <1>1, <1>9, <1>10, <1>11 DEF FollowerCommitBehind
<1>22. NextIndexInLog'
  BY <1>1, <1>2, <1>9 DEF NextIndexInLog
<1>23. OnlyExecutorBlocks'
  <2>1. \A g \in stuck : g \in Follower /\ g # f
    BY <1>1, <1>2 DEF TypeOK
  <2>2. stuck' = stuck /\ \A g \in stuck : log'[g] = log[g]
    BY <1>8, <1>9, <2>1
  <2> QED
    BY <1>1, <1>9, <2>2 DEF OnlyExecutorBlocks
<1> QED
  BY <1>15, <1>16, <1>18, <1>19, <1>20, <1>21, <1>22, <1>23 DEF IndInv

(***************************************************************************)
(* IndInv holds in every reachable state.                                  *)
(***************************************************************************)
THEOREM Invariance == Spec => []IndInv
<1>1. IndInv /\ [Next]_vars => IndInv'
  <2> SUFFICES ASSUME IndInv, [Next]_vars PROVE IndInv'
    OBVIOUS
  <2>1. CASE \E f \in Follower : Joining(f)
    BY <2>1, JoinSteps, SubmitSteps DEF Joining
  <2>2. CASE \E n \in NodeId : UpdateNode(n)
    BY <2>2, SubmitSteps
  <2>3. CASE \E f \in Follower : \E s \in SlotOf[f] : Calling(f, s)
    <3>1. PICK f \in Follower, s \in Slot : Calling(f, s)
      BY <2>3, SlotAssumption
    <3> QED
      BY <3>1, SendStep, RefuseStep, AcceptStep, BlockStep, ReceiveSteps, FailStep
         DEF Calling, HandleAppendEntries
  <2>4. CASE UNCHANGED vars
    BY <2>4 DEF vars, IndInv, TypeOK, StoredTermsErased, CallsTrackLogs, LogPrefix,
       NextIndexInLog, MatchIndexHeld, FollowerCommitBehind, OnlyExecutorBlocks
  <2> QED
    BY <2>1, <2>2, <2>3, <2>4 DEF Next
<1> QED
  BY <1>1, InitInv, PTL DEF Spec

(***************************************************************************)
(* The state variables keep the types of their Go counterparts.            *)
(***************************************************************************)
THEOREM TypeCorrect == Spec => []TypeOK
<1>1. IndInv => TypeOK
  BY DEF IndInv
<1> QED
  BY <1>1, Invariance, PTL

(***************************************************************************)
(* However AppendEntries calls overlap, are lost or arrive late, every     *)
(* follower's log holds a prefix of the leader's commands.                 *)
(***************************************************************************)
THEOREM PrefixReplication == Spec => []LogPrefix
<1>1. IndInv => LogPrefix
  BY DEF IndInv
<1> QED
  BY <1>1, Invariance, PTL

(***************************************************************************)
(* leaderSendHeartbeats never slices cm.log out of range, matchIndex never *)
(* counts what the follower has not stored, and a follower never commits   *)
(* beyond the leader or its own log, also after late replies.              *)
(***************************************************************************)
THEOREM IndicesFit == Spec => []IndicesInLogs
<1>1. IndInv => IndicesInLogs
  BY DEF IndInv, IndicesInLogs
<1> QED
  BY <1>1, Invariance, PTL

(***************************************************************************)
(* AppendEntries never sends on the nil channel newCommitReadyChan: only   *)
(* AddNode executors keep a handler from returning.                        *)
(***************************************************************************)
THEOREM NilChannelUnreached == Spec => []OnlyExecutorBlocks
<1>1. IndInv => OnlyExecutorBlocks
  BY DEF IndInv
<1> QED
  BY <1>1, Invariance, PTL

(***************************************************************************)
(* Every AppendEntries call in flight, however old, still fits the logs of *)
(* the leader and of the follower it is for.                               *)
(***************************************************************************)
THEOREM CallsFitLogs == Spec => []CallsTrackLogs
<1>1. IndInv => CallsTrackLogs
  BY DEF IndInv
<1> QED
  BY <1>1, Invariance, PTL
-----------------------------------------------------------------------------
(***************************************************************************)
(* Who holds a committed entry.                                            *)
(***************************************************************************)
\* A majority of matchIndexes at i is a majority of logs that reach i.
LEMMA MatchIsHeld ==
    ASSUME NEW i \in Nat, NEW match \in [Follower -> Nat], TypeOK,
           \A f \in Follower : match[f] <= Len(log[f]),
           HeldByMajority(Peers, match, i)
    PROVE  (Cardinality({f \in Peers : Len(log[f]) >= i}) + 1) * 2 > Cardinality(Peers) + 1
<1> DEFINE A == {f \in Peers : match[f] >= i}
           B == {f \in Peers : Len(log[f]) >= i}
<1>1. Peers \subseteq Follower /\ IsFiniteSet(Peers)
  BY FollowerAssumption, FS_Subset DEF Peers
<1>2. \A f \in Follower : Len(log[f]) \in Nat /\ match[f] \in Nat
  BY DEF TypeOK, Master
<1>3. A \subseteq B /\ B \subseteq Peers
  BY <1>1, <1>2
<1>4. IsFiniteSet(B)
  BY <1>1, <1>3, FS_Subset
<1>5. IsFiniteSet(A) /\ Cardinality(A) <= Cardinality(B)
  BY <1>3, <1>4, FS_Subset
<1>6. Cardinality(A) \in Nat /\ Cardinality(B) \in Nat /\ Cardinality(Peers) \in Nat
  BY <1>1, <1>4, <1>5, FS_CardinalityType
<1>7. (Cardinality(A) + 1) * 2 > Cardinality(Peers) + 1
  BY DEF HeldByMajority
<1> HIDE DEF A, B
<1>8. (Cardinality(B) + 1) * 2 > Cardinality(Peers) + 1
  BY <1>5, <1>6, <1>7
<1> QED
  BY <1>8 DEF B

\* Only the reply of a successful call moves the leader's commitIndex.
LEMMA CommitMoves ==
    ASSUME IndInv, [Next]_vars, commitIndex'[Leader] # commitIndex[Leader]
    PROVE  \E f \in Follower, s \in Slot : ReceiveSuccess(f, s)
<1>1. commitIndex \in [Master -> Nat] /\ Leader \in Master
  BY DEF IndInv, TypeOK, Master
<1>2. \A f \in Follower : f # Leader
  BY LeaderAssumption
<1>3. CASE \E f \in Follower, s \in Slot : Calling(f, s)
  <2>1. PICK f \in Follower, s \in Slot : Calling(f, s)
    BY <1>3
  <2>2. ~SendAppendEntries(f, s) /\ ~RefuseAppendEntries(f, s) /\ ~BlockInExecutor(f, s)
        /\ ~CallFails(f, s) /\ ~ReceiveFailure(f, s)
    BY DEF SendAppendEntries, RefuseAppendEntries, BlockInExecutor, CallFails, ReceiveFailure
  <2>3. ~AcceptAppendEntries(f, s)
    <3>1. \A x : [commitIndex EXCEPT ![f] = x][Leader] = commitIndex[Leader]
      BY <1>1, <1>2
    <3>2. AcceptAppendEntries(f, s) => \E x : commitIndex' = [commitIndex EXCEPT ![f] = x]
      BY DEF AcceptAppendEntries
    <3> QED
      BY <3>1, <3>2
  <2> QED
    BY <2>1, <2>2, <2>3 DEF Calling, HandleAppendEntries, ReceiveReply
<1>4. ~(\E f \in Follower : Joining(f))
  BY DEF Joining, RegisterMaster, SubmitAddServer, JoinRead, JoinWrite
<1>5. ~(\E n \in NodeId : UpdateNode(n))
  BY DEF UpdateNode
<1>6. ~(UNCHANGED vars)
  BY DEF vars
<1> QED
  BY <1>3, <1>4, <1>5, <1>6, SlotAssumption DEF Next

\* When the leader's commitIndex moves, more than half of the masters it knows of
\* hold the log up to there, although matchIndex is set back and forth by late
\* replies.
THEOREM CommitHeld == Spec => CommitHeldByMajority
<1>1. ASSUME IndInv, IndInv', [Next]_vars, commitIndex'[Leader] # commitIndex[Leader]
      PROVE  (Cardinality({f \in Peers : Len(log[f]) >= commitIndex'[Leader]}) + 1) * 2
                 > Cardinality(Peers) + 1
  <2>1. PICK f \in Follower, s \in Slot : ReceiveSuccess(f, s)
    BY <1>1, CommitMoves
  <2>2. PICK i \in AdvancedCommit(log[Leader], commitIndex[Leader], Peers, matchIndex') :
            commitIndex' = [commitIndex EXCEPT ![Leader] = i]
    BY <2>1 DEF ReceiveSuccess
  <2>3. /\ commitIndex \in [Master -> Nat] /\ Leader \in Master /\ TypeOK
        /\ log[Leader] \in Seq(Entry)
    BY <1>1 DEF IndInv, TypeOK, Master
  <2>4. commitIndex'[Leader] = i
    BY <2>2, <2>3
  <2>5. i \in Nat /\ HeldByMajority(Peers, matchIndex', i)
    BY <1>1, <2>2, <2>3, <2>4 DEF AdvancedCommit
  <2>6. log' = log
    BY <2>1 DEF ReceiveSuccess
  <2>7. matchIndex' \in [Follower -> Nat] /\ \A g \in Follower : matchIndex'[g] <= Len(log[g])
    BY <1>1, <2>6 DEF IndInv, TypeOK, MatchIndexHeld
  <2>8. PICK match \in [Follower -> Nat] : match = matchIndex'
    BY <2>7
  <2>9. (Cardinality({g \in Peers : Len(log[g]) >= i}) + 1) * 2 > Cardinality(Peers) + 1
    BY <2>3, <2>5, <2>7, <2>8, MatchIsHeld
  <2> QED
    BY <2>4, <2>9
<1>2. IndInv /\ IndInv' /\ [Next]_vars =>
          [commitIndex'[Leader] # commitIndex[Leader] =>
              (Cardinality({f \in Peers : Len(log[f]) >= commitIndex'[Leader]}) + 1) * 2
                  > Cardinality(Peers) + 1]_vars
  BY <1>1
<1> QED
  BY Invariance, <1>2, PTL DEF Spec, CommitHeldByMajority
-----------------------------------------------------------------------------
(***************************************************************************)
(* PeersCountedOnce.  AddServerExecutor has no check against duplicates,   *)
(* so that a peer is counted once rests on three facts: the leader submits *)
(* one AddServer entry per master (RegisterMaster admits an id once), a    *)
(* follower executes an entry only when it lies beyond its log, and the    *)
(* slice that NewServer writes back was itself built that way.             *)
(***************************************************************************)
AddServerAt(k, p) == log[Leader][k].cmd = AddServerStruct(p)

AddServersOnce ==
    /\ \A p \in Follower : \A k \in 1 .. Len(log[Leader]) :
          AddServerAt(k, p) => join[p] \notin {"new", "registered"}
    /\ \A p \in Follower : \A j, k \in 1 .. Len(log[Leader]) :
          AddServerAt(j, p) /\ AddServerAt(k, p) => j = k

\* A bag that the followers' executor may have built at f: a peer in it has its
\* entry in f's log, or f is stuck in the middle of executing.
BuiltFrom(bag, f) ==
    /\ bag[f] = 0
    /\ \A p \in Follower :
          \/ bag[p] = 0
          \/ bag[p] = 1 /\ (f \in stuck \/ \E k \in 1 .. Len(log[f]) : AddServerAt(k, p))

LeaderPeers ==
    /\ peerIds[Leader][Leader] = 0
    /\ \A f \in Follower : peerIds[Leader][f] = IF join[f] = "new" THEN 0 ELSE 1

FollowerPeers ==
    \A f \in Follower :
        /\ BuiltFrom(peerIds[f], f)
        /\ peerIds[f][Leader] = IF join[f] = "joined" THEN 1 ELSE 0
        /\ BuiltFrom(snap[f], f)
        /\ snap[f][Leader] = 0

PeersInv == AddServersOnce /\ LeaderPeers /\ FollowerPeers

LEMMA AtMostOne ==
    ASSUME NEW S, \A x, y \in S : x = y
    PROVE  Cardinality(S) = IF S = {} THEN 0 ELSE 1
<1>1. CASE S = {}
  BY <1>1, FS_EmptySet
<1>2. CASE S # {}
  <2>1. PICK x \in S : TRUE
    BY <1>2
  <2>2. S = {x}
    BY <2>1
  <2> QED
    BY <1>2, <2>2, FS_Singleton
<1> QED
  BY <1>1, <1>2

\* The shapes the steps below rest on.
LEMMA PeerTypes ==
    ASSUME TypeOK
    PROVE  /\ Leader \in Master /\ Leader \notin Follower /\ Follower \subseteq Master
           /\ log \in [Master -> Seq(Entry)] /\ log[Leader] \in Seq(Entry)
           /\ \A f \in Follower : log[f] \in Seq(Entry) /\ Len(log[f]) \in Nat
           /\ Len(log[Leader]) \in Nat
           /\ peerIds \in [Master -> [Master -> Nat]]
           /\ snap \in [Follower -> [Master -> Nat]]
<1>1. Leader \in Master /\ Leader \notin Follower /\ Follower \subseteq Master
  BY LeaderAssumption DEF Master
<1>2. /\ log \in [Master -> Seq(Entry)]
      /\ peerIds \in [Master -> [Master -> Nat]] /\ snap \in [Follower -> [Master -> Nat]]
  BY DEF TypeOK, Bag
<1>3. \A m \in Master : log[m] \in Seq(Entry) /\ Len(log[m]) \in Nat
  BY <1>2
<1> QED
  BY <1>1, <1>2, <1>3

\* Logs and the set of stuck followers only grow, so what a bag was built from
\* stays.
LEMMA BuiltKept ==
    ASSUME IndInv, TypeOK', NEW bag, NEW f \in Follower, BuiltFrom(bag, f),
           stuck \subseteq stuck', Extends(log'[Leader], log[Leader]),
           Len(log[f]) <= Len(log'[f])
    PROVE  BuiltFrom(bag, f)'
<1>1. /\ Len(log[f]) \in Nat /\ Len(log'[f]) \in Nat /\ Len(log[Leader]) \in Nat
      /\ Len(log[f]) <= Len(log[Leader])
  BY PeerTypes DEF IndInv, LogPrefix, TypeOK, Master
<1>2. \A k \in 1 .. Len(log[f]), p \in Follower :
          AddServerAt(k, p) => k \in 1 .. Len(log'[f]) /\ AddServerAt(k, p)'
  BY <1>1 DEF Extends, AddServerAt
<1> QED
  BY <1>2 DEF BuiltFrom

\* The steps that leave logs and stuck alone.
LEMMA JoinPeers ==
    ASSUME IndInv, IndInv', PeersInv, NEW f \in Follower,
           RegisterMaster(f) \/ JoinRead(f) \/ JoinWrite(f)
    PROVE  PeersInv'
<1>1. /\ TypeOK /\ AddServersOnce /\ LeaderPeers /\ FollowerPeers
      /\ UNCHANGED <<log, stuck>>
  BY DEF IndInv, PeersInv, RegisterMaster, JoinRead, JoinWrite
<1>2. /\ Leader \in Master /\ Leader \notin Follower /\ Follower \subseteq Master
      /\ peerIds \in [Master -> [Master -> Nat]]
      /\ snap \in [Follower -> [Master -> Nat]]
  BY <1>1, PeerTypes
<1>3. \A bag, g : BuiltFrom(bag, g) <=>
          /\ bag[g] = 0
          /\ \A p \in Follower :
                \/ bag[p] = 0
                \/ bag[p] = 1 /\ (g \in stuck \/ \E k \in 1 .. Len(log[g]) : AddServerAt(k, p))
  BY DEF BuiltFrom
<1>4. join \in [Follower -> {"new", "registered", "answered", "appending", "joined"}]
  BY <1>1 DEF TypeOK
<1>5. CASE RegisterMaster(f)
  <2>1. /\ join[f] = "new" /\ join' = [join EXCEPT ![f] = "registered"] /\ snap' = snap
        /\ peerIds' = [peerIds EXCEPT ![Leader][f] = @ + 1]
    BY <1>5 DEF RegisterMaster
  <2>2. \A g \in Follower : peerIds'[g] = peerIds[g]
    BY <1>2, <2>1
  <2>3. AddServersOnce'
    BY <1>1, <1>4, <2>1 DEF AddServersOnce, AddServerAt
  <2>4. LeaderPeers'
    <3>1. peerIds[Leader][f] = 0 /\ f # Leader
      BY <1>1, <1>2, <2>1 DEF LeaderPeers
    <3>2. /\ peerIds'[Leader][f] = 1 /\ peerIds'[Leader][Leader] = peerIds[Leader][Leader]
          /\ \A g \in Follower \ {f} : peerIds'[Leader][g] = peerIds[Leader][g]
      BY <1>2, <2>1, <3>1
    <3> QED
      BY <1>1, <1>4, <2>1, <3>2 DEF LeaderPeers
  <2>5. FollowerPeers'
    BY <1>1, <1>4, <2>1, <2>2 DEF FollowerPeers, BuiltFrom, AddServerAt
  <2> QED
    BY <2>3, <2>4, <2>5 DEF PeersInv
<1>6. CASE JoinRead(f)
  <2>1. /\ join[f] = "answered" /\ join' = [join EXCEPT ![f] = "appending"]
        /\ snap' = [snap EXCEPT ![f] = peerIds[f]] /\ peerIds' = peerIds
    BY <1>6 DEF JoinRead
  <2>2. AddServersOnce' /\ LeaderPeers'
    BY <1>1, <1>4, <2>1 DEF AddServersOnce, LeaderPeers, AddServerAt
  <2>3. FollowerPeers'
    <3> SUFFICES ASSUME NEW g \in Follower
                 PROVE  /\ BuiltFrom(peerIds[g], g)'
                        /\ peerIds'[g][Leader] = IF join'[g] = "joined" THEN 1 ELSE 0
                        /\ BuiltFrom(snap[g], g)'
                        /\ snap'[g][Leader] = 0
      BY DEF FollowerPeers
    <3>1. BuiltFrom(peerIds[g], g) /\ BuiltFrom(snap[g], g)
      BY <1>1 DEF FollowerPeers
    <3>2. snap'[g] = snap[g] \/ (snap'[g] = peerIds[g] /\ g = f)
      BY <1>2, <2>1
    <3>3. BuiltFrom(peerIds[g], g)' /\ BuiltFrom(snap[g], g)'
      BY <1>1, <2>1, <3>1, <3>2 DEF BuiltFrom, AddServerAt
    <3> QED
      BY <1>1, <1>4, <2>1, <3>2, <3>3 DEF FollowerPeers
  <2> QED
    BY <2>2, <2>3 DEF PeersInv
<1>7. CASE JoinWrite(f)
  <2>1. /\ join[f] = "appending" /\ join' = [join EXCEPT ![f] = "joined"]
        /\ peerIds' = [peerIds EXCEPT ![f] = [snap[f] EXCEPT ![Leader] = @ + 1]]
        /\ snap' = [snap EXCEPT ![f] = NoPeer]
    BY <1>7 DEF JoinWrite
  <2>2. peerIds'[Leader] = peerIds[Leader]
    BY <1>2, <2>1
  <2>3. AddServersOnce' /\ LeaderPeers'
    BY <1>1, <1>4, <2>1, <2>2 DEF AddServersOnce, LeaderPeers, AddServerAt
  <2>4. FollowerPeers'
    <3> SUFFICES ASSUME NEW g \in Follower
                 PROVE  /\ BuiltFrom(peerIds[g], g)'
                        /\ peerIds'[g][Leader] = IF join'[g] = "joined" THEN 1 ELSE 0
                        /\ BuiltFrom(snap[g], g)'
                        /\ snap'[g][Leader] = 0
      BY DEF FollowerPeers
    <3>1. /\ BuiltFrom(peerIds[g], g) /\ BuiltFrom(snap[g], g) /\ snap[g][Leader] = 0
          /\ peerIds[g][Leader] = IF join[g] = "joined" THEN 1 ELSE 0
      BY <1>1 DEF FollowerPeers
    <3>2. CASE g = f
      <4>1. peerIds'[g] = [snap[f] EXCEPT ![Leader] = @ + 1] /\ snap'[g] = NoPeer
        BY <1>2, <2>1, <3>2
      <4>2. snap[f] \in [Master -> Nat] /\ g \in Master /\ g # Leader
        BY <1>2
      <4>3. peerIds'[g][Leader] = 1 /\ \A p \in Follower : peerIds'[g][p] = snap[g][p]
        BY <1>2, <3>1, <3>2, <4>1, <4>2
      <4>4. snap'[g][Leader] = 0 /\ \A p \in Follower : snap'[g][p] = 0
        BY <1>2, <4>1 DEF NoPeer
      <4>5. BuiltFrom(peerIds[g], g)' /\ BuiltFrom(snap[g], g)'
        BY <1>1, <3>1, <4>3, <4>4 DEF BuiltFrom, AddServerAt
      <4> QED
        BY <1>4, <2>1, <3>2, <4>3, <4>4, <4>5
    <3>3. CASE g # f
      <4>1. peerIds'[g] = peerIds[g] /\ snap'[g] = snap[g] /\ join'[g] = join[g]
        BY <1>2, <1>4, <2>1, <3>3
      <4>2. BuiltFrom(peerIds[g], g)' /\ BuiltFrom(snap[g], g)'
        BY <1>1, <3>1, <4>1 DEF BuiltFrom, AddServerAt
      <4> QED
        BY <3>1, <4>1, <4>2
    <3> QED
      BY <3>2, <3>3
  <2> QED
    BY <2>3, <2>4 DEF PeersInv
<1> QED
  BY <1>5, <1>6, <1>7

\* The leader submits: the AddServer entry of a master that had none, or an entry
\* that is no AddServer entry.
LEMMA SubmitPeers ==
    ASSUME IndInv, IndInv', PeersInv,
           \/ \E f \in Follower : SubmitAddServer(f)
           \/ \E n \in NodeId : UpdateNode(n)
    PROVE  PeersInv'
<1>1. /\ TypeOK /\ AddServersOnce /\ LeaderPeers /\ FollowerPeers /\ TypeOK'
      /\ UNCHANGED <<peerIds, snap, stuck>>
  BY DEF IndInv, PeersInv, SubmitAddServer, UpdateNode, joinVars
<1>2. /\ Leader \in Master /\ Leader \notin Follower /\ Follower \subseteq Master
      /\ log \in [Master -> Seq(Entry)] /\ log[Leader] \in Seq(Entry)
      /\ Len(log[Leader]) \in Nat
      /\ \A g \in Follower : Len(log[g]) \in Nat
  BY <1>1, PeerTypes
<1>3. join \in [Follower -> {"new", "registered", "answered", "appending", "joined"}]
  BY <1>1 DEF TypeOK
<1>4. PICK cmd \in Command : Submit(cmd)
  BY DEF SubmitAddServer, UpdateNode, Command
<1>5. /\ \A g \in Follower : log'[g] = log[g]
      /\ Len(log'[Leader]) = Len(log[Leader]) + 1
      /\ \A k \in 1 .. Len(log[Leader]) : log'[Leader][k] = log[Leader][k]
      /\ log'[Leader][Len(log[Leader]) + 1].cmd = cmd
  <2> DEFINE e == [term |-> LeaderTerm, cmd |-> cmd]
  <2>1. e \in Entry /\ e.cmd = cmd
    BY DEF Entry
  <2>2. log' = [log EXCEPT ![Leader] = Append(log[Leader], e)]
    BY <1>4 DEF Submit
  <2> HIDE DEF e
  <2>3. log'[Leader] = Append(log[Leader], e) /\ \A g \in Follower : log'[g] = log[g]
    BY <1>2, <2>2
  <2> QED
    BY <1>2, <2>1, <2>3
<1>6. ASSUME NEW g \in Follower, NEW bag, BuiltFrom(bag, g)
      PROVE  BuiltFrom(bag, g)'
  <2>1. Extends(log'[Leader], log[Leader])
    BY <1>2, <1>5 DEF Extends
  <2>2. Len(log[g]) <= Len(log'[g])
    BY <1>2, <1>5
  <2> QED
    BY <1>1, <1>6, <2>1, <2>2, BuiltKept
<1>7. ASSUME NEW g \in Follower
      PROVE  BuiltFrom(peerIds[g], g)' /\ BuiltFrom(snap[g], g)'
  <2>1. PICK b : b = peerIds[g]
    OBVIOUS
  <2>2. PICK c : c = snap[g]
    OBVIOUS
  <2>3. BuiltFrom(b, g) /\ BuiltFrom(c, g)
    BY <1>1, <2>1, <2>2 DEF FollowerPeers
  <2>4. BuiltFrom(b, g)' /\ BuiltFrom(c, g)'
    BY <1>6, <2>3
  <2>5. peerIds'[g] = b /\ snap'[g] = c
    BY <1>1, <2>1, <2>2
  <2> QED
    BY <2>4, <2>5 DEF BuiltFrom
<1>8. \A k \in 1 .. Len(log'[Leader]), p \in Follower :
          AddServerAt(k, p)' =>
              \/ k \in 1 .. Len(log[Leader]) /\ AddServerAt(k, p)
              \/ k = Len(log[Leader]) + 1 /\ cmd = AddServerStruct(p)
  BY <1>2, <1>5 DEF AddServerAt
<1>9. CASE \E f \in Follower : SubmitAddServer(f)
  <2>1. PICK f \in Follower : SubmitAddServer(f)
    BY <1>9
  <2>2. join[f] = "registered" /\ join' = [join EXCEPT ![f] = "answered"]
    BY <2>1 DEF SubmitAddServer
  <2>3. cmd = AddServerStruct(f)
    <3>1. log'[Leader] = Append(log[Leader], [term |-> LeaderTerm, cmd |-> AddServerStruct(f)])
      BY <1>2, <2>1 DEF SubmitAddServer, Submit
    <3>2. AddServerStruct(f) \in Command
      BY DEF Command
    <3>3. [term |-> LeaderTerm, cmd |-> AddServerStruct(f)] \in Entry
      BY <3>2 DEF Entry
    <3> QED
      BY <1>2, <1>5, <3>1, <3>3
  <2>4. \A p \in Follower : cmd = AddServerStruct(p) => p = f
    BY <2>3 DEF AddServerStruct
  <2>5. \A k \in 1 .. Len(log[Leader]) : ~AddServerAt(k, f)
    BY <1>1, <2>2 DEF AddServersOnce
  <2>6. AddServersOnce'
    <3>1. \A p \in Follower : \A k \in 1 .. Len(log'[Leader]) :
              AddServerAt(k, p)' => join'[p] \notin {"new", "registered"}
      BY <1>1, <1>3, <1>8, <2>2, <2>4 DEF AddServersOnce
    <3>2. \A p \in Follower : \A j, k \in 1 .. Len(log'[Leader]) :
              AddServerAt(j, p)' /\ AddServerAt(k, p)' => j = k
      BY <1>1, <1>8, <2>4, <2>5 DEF AddServersOnce
    <3> QED
      BY <3>1, <3>2 DEF AddServersOnce
  <2>7. LeaderPeers'
    BY <1>1, <1>3, <2>2 DEF LeaderPeers
  <2>8. FollowerPeers'
    BY <1>1, <1>3, <1>7, <2>2 DEF FollowerPeers
  <2> QED
    BY <2>6, <2>7, <2>8 DEF PeersInv
<1>10. CASE \E n \in NodeId : UpdateNode(n)
  <2>1. PICK n \in NodeId : UpdateNode(n)
    BY <1>10
  <2>2. join' = join
    BY <2>1 DEF UpdateNode, joinVars
  <2>3. cmd = AddNodeStruct(n)
    <3>1. log'[Leader] = Append(log[Leader], [term |-> LeaderTerm, cmd |-> AddNodeStruct(n)])
      BY <1>2, <2>1 DEF UpdateNode, Submit
    <3>2. AddNodeStruct(n) \in Command
      BY DEF Command
    <3>3. [term |-> LeaderTerm, cmd |-> AddNodeStruct(n)] \in Entry
      BY <3>2 DEF Entry
    <3> QED
      BY <1>2, <1>5, <3>1, <3>3
  <2>4. \A p \in Follower : cmd # AddServerStruct(p)
    BY <2>3 DEF AddServerStruct, AddNodeStruct
  <2>5. AddServersOnce'
    BY <1>1, <1>8, <2>2, <2>4 DEF AddServersOnce
  <2>6. LeaderPeers' /\ FollowerPeers'
    BY <1>1, <1>7, <2>2 DEF LeaderPeers, FollowerPeers
  <2> QED
    BY <2>5, <2>6 DEF PeersInv
<1> QED
  BY <1>9, <1>10

\* A follower that executes the entries of a request counts a peer at most once:
\* those entries lie beyond its log, where the peers it has counted have none.
LEMMA ExecutedOnce ==
    ASSUME IndInv, PeersInv, NEW f \in Follower, f \notin stuck,
           NEW es \in Seq(Entry), NEW prev \in 0 .. Len(log[f]),
           prev + Len(es) <= Len(log[Leader]),
           \A k \in 1 .. Len(es) : es[k].term = 0 /\ es[k].cmd = log[Leader][prev + k].cmd,
           NEW bag \in [Master -> Nat],
           bag = ExecuteAddServers(peerIds[f], f, es, ExecutedEntries(log[f], prev, es))
    PROVE  /\ bag[f] = 0
           /\ bag[Leader] = peerIds[f][Leader]
           /\ \A p \in Follower :
                 \/ bag[p] = 0
                 \/ bag[p] = 1 /\ \E k \in 1 .. prev + Len(es) : AddServerAt(k, p)
                 \/ bag[p] = 1 /\ \E k \in 1 .. Len(log[f]) : AddServerAt(k, p)
<1> DEFINE ks == ExecutedEntries(log[f], prev, es)
           Of(p) == {k \in ks : es[k].cmd = AddServerStruct(p)}
<1>1. /\ Leader \in Master /\ Leader \notin Follower /\ Follower \subseteq Master
      /\ log[f] \in Seq(Entry) /\ Len(log[f]) \in Nat /\ Len(log[Leader]) \in Nat
      /\ peerIds[f] \in [Master -> Nat]
      /\ Len(log[f]) <= Len(log[Leader]) /\ Len(es) \in Nat
  BY PeerTypes DEF IndInv, LogPrefix
<1>2. \A k \in ks : k \in 1 .. Len(es) /\ prev + k > Len(log[f])
  BY <1>1, NewEntriesErased DEF IndInv, StoredTermsErased, ExecutedEntries
<1> HIDE DEF ks
<1>3. \A p \in Master : bag[p] = IF p = f THEN peerIds[f][p]
                                 ELSE peerIds[f][p] + Cardinality(Of(p))
  BY <1>1 DEF ExecuteAddServers, ks
<1>4. \A p \in Follower : \A k \in Of(p) :
          /\ k \in 1 .. Len(es) /\ prev + k \in 1 .. Len(log[Leader])
          /\ prev + k \in 1 .. prev + Len(es)
          /\ prev + k > Len(log[f]) /\ AddServerAt(prev + k, p)
  BY <1>1, <1>2, SMTT(30) DEF AddServerAt
<1>5. ASSUME NEW p \in Follower
      PROVE  Cardinality(Of(p)) = IF Of(p) = {} THEN 0 ELSE 1
  <2>1. \A j, k \in Of(p) : prev + j = prev + k
    BY <1>4 DEF PeersInv, AddServersOnce
  <2>2. \A j, k \in Of(p) : j = k
    BY <1>4, <2>1
  <2> HIDE DEF Of
  <2> QED
    BY <2>2, AtMostOne
<1>6. Of(Leader) = {}
  <2>1. \A k \in ks : es[k].cmd \in Command
    <3>1. \A k \in ks : es[k] \in Entry
      BY <1>2
    <3> QED
      BY <3>1 DEF Entry
  <2>2. AddServerStruct(Leader) \notin Command
    BY <1>1 DEF Command, AddServerStruct, AddNodeStruct
  <2> QED
    BY <2>1, <2>2
<1>7. bag[Leader] = peerIds[f][Leader]
  <2>1. Cardinality(Of(Leader)) = 0
    BY <1>6, FS_EmptySet
  <2>2. /\ bag[Leader] = peerIds[f][Leader] + Cardinality(Of(Leader))
        /\ peerIds[f][Leader] \in Nat
    BY <1>1, <1>3
  <2> HIDE DEF Of
  <2> QED
    BY <2>1, <2>2
<1>8. BuiltFrom(peerIds[f], f)
  BY DEF PeersInv, FollowerPeers
<1>9. bag[f] = 0
  BY <1>1, <1>3, <1>8 DEF BuiltFrom
<1>10. ASSUME NEW p \in Follower
       PROVE  \/ bag[p] = 0
              \/ bag[p] = 1 /\ \E k \in 1 .. prev + Len(es) : AddServerAt(k, p)
              \/ bag[p] = 1 /\ \E k \in 1 .. Len(log[f]) : AddServerAt(k, p)
  <2>1. \/ peerIds[f][p] = 0
        \/ peerIds[f][p] = 1 /\ \E k \in 1 .. Len(log[f]) : AddServerAt(k, p)
    BY <1>8 DEF BuiltFrom
  <2>2. CASE p = f
    BY <1>9, <2>2
  <2>3. CASE p # f /\ Of(p) = {}
    <3>1. bag[p] = peerIds[f][p]
      <4>1. Cardinality(Of(p)) = 0
        BY <1>5, <2>3
      <4>2. bag[p] = peerIds[f][p] + Cardinality(Of(p)) /\ peerIds[f][p] \in Nat
        BY <1>1, <1>3, <2>3
      <4> HIDE DEF Of
      <4> QED
        BY <4>1, <4>2
    <3> QED
      BY <2>1, <3>1
  <2>4. CASE p # f /\ Of(p) # {}
    <3>1. PICK k \in Of(p) : TRUE
      BY <2>4
    <3>2. /\ prev + k \in 1 .. prev + Len(es) /\ prev + k \in 1 .. Len(log[Leader])
          /\ prev + k > Len(log[f]) /\ AddServerAt(prev + k, p)
      BY <1>4, <3>1
    <3>3. ~(\E j \in 1 .. Len(log[f]) : AddServerAt(j, p))
      <4> SUFFICES ASSUME NEW j \in 1 .. Len(log[f]), AddServerAt(j, p) PROVE FALSE
        OBVIOUS
      <4>1. j \in 1 .. Len(log[Leader])
        BY <1>1
      <4>2. j = prev + k
        BY <3>2, <4>1 DEF PeersInv, AddServersOnce
      <4> QED
        BY <1>1, <3>2, <4>2
    <3>4. bag[p] = 1
      <4>1. Cardinality(Of(p)) = 1
        BY <1>5, <2>4
      <4>2. bag[p] = peerIds[f][p] + Cardinality(Of(p)) /\ peerIds[f][p] = 0
        BY <1>1, <1>3, <2>1, <2>4, <3>3
      <4> HIDE DEF Of
      <4> QED
        BY <4>1, <4>2
    <3> QED
      BY <3>2, <3>4
  <2> QED
    BY <2>2, <2>3, <2>4
<1> QED
  BY <1>7, <1>9, <1>10

\* Both accepting steps of a follower.
LEMMA ExecutePeers ==
    ASSUME IndInv, IndInv', PeersInv, NEW f \in Follower, NEW s \in Slot,
           AcceptAppendEntries(f, s) \/ BlockInExecutor(f, s)
    PROVE  PeersInv'
<1> DEFINE c    == calls[f][s]
           prev == c.ni - 1
           new  == ExecuteAddServers(peerIds[f], f, c.entries,
                       ExecutedEntries(log[f], prev, c.entries))
<1>1. /\ TypeOK /\ TypeOK' /\ AddServersOnce /\ LeaderPeers /\ FollowerPeers
  BY DEF IndInv, PeersInv
<1>2. /\ c.phase = "req" /\ f \notin stuck /\ AcceptsPrev(log[f], prev, c.prevLogTerm)
      /\ peerIds' = [peerIds EXCEPT ![f] = new]
      /\ UNCHANGED <<join, snap>>
  BY DEF AcceptAppendEntries, BlockInExecutor, joinVars
<1>3. /\ c.entries \in Seq(Entry) /\ prev \in 0 .. Len(log[f])
      /\ prev + Len(c.entries) <= Len(log[Leader])
      /\ \A k \in 1 .. Len(c.entries) :
            c.entries[k].term = 0 /\ c.entries[k].cmd = log[Leader][prev + k].cmd
      /\ \A k \in 1 .. Len(log[f]) : log[f][k].term = 0
      /\ log[f] \in Seq(Entry)
  BY <1>2, RequestFacts
<1>4. /\ Leader \in Master /\ Leader \notin Follower /\ Follower \subseteq Master
      /\ log \in [Master -> Seq(Entry)] /\ log[Leader] \in Seq(Entry)
      /\ \A g \in Follower : Len(log[g]) \in Nat
      /\ peerIds \in [Master -> [Master -> Nat]]
  BY <1>1, PeerTypes
<1>5. /\ stuck \subseteq stuck' /\ log'[Leader] = log[Leader]
      /\ \A g \in Follower : Len(log[g]) <= Len(log'[g])
      /\ f \in stuck' \/ prev + Len(c.entries) <= Len(log'[f])
  <2>1. CASE BlockInExecutor(f, s)
    <3>1. stuck' = stuck \cup {f} /\ log' = log
      BY <2>1 DEF BlockInExecutor
    <3> QED
      BY <1>4, <3>1
  <2>2. CASE AcceptAppendEntries(f, s)
    <3> DEFINE m == MergedLog(log[f], prev, c.entries)
    <3>1. log' = [log EXCEPT ![f] = m] /\ stuck \subseteq stuck'
      BY <2>2 DEF AcceptAppendEntries
    <3> HIDE DEF m
    <3>2. log'[f] = m /\ \A g \in Master \ {f} : log'[g] = log[g]
      BY <1>4, <3>1
    <3>3. Len(log[f]) <= Len(m) /\ prev + Len(c.entries) <= Len(m)
      <4> DEFINE es == c.entries
      <4>1. /\ es \in Seq(Entry) /\ log[f] \in Seq(Entry) /\ prev \in 0 .. Len(log[f])
            /\ \A k \in 1 .. Len(log[f]) : log[f][k].term = 0
            /\ \A k \in 1 .. Len(es) : es[k].term = 0
            /\ m = MergedLog(log[f], prev, es)
        BY <1>3 DEF m
      <4> HIDE DEF c, prev, es
      <4>2. Len(m) = IF prev + Len(es) <= Len(log[f]) THEN Len(log[f]) ELSE prev + Len(es)
        BY <4>1, MergedLogErased
      <4>3. Len(log[f]) <= Len(m) /\ prev + Len(es) <= Len(m)
        BY <4>1, <4>2
      <4> QED
        BY <4>3 DEF es
    <3> QED
      BY <1>4, <3>1, <3>2, <3>3
  <2> QED
    BY <2>1, <2>2
<1> HIDE DEF c, prev
<1>6. /\ new[f] = 0
      /\ new[Leader] = peerIds[f][Leader]
      /\ \A p \in Follower :
            \/ new[p] = 0
            \/ new[p] = 1 /\ \E k \in 1 .. prev + Len(c.entries) : AddServerAt(k, p)
            \/ new[p] = 1 /\ \E k \in 1 .. Len(log[f]) : AddServerAt(k, p)
  <2>1. new \in [Master -> Nat]
    <3> HIDE DEF new
    <3>1. peerIds' \in [Master -> [Master -> Nat]] /\ f \in Master
      BY <1>1, <1>4 DEF TypeOK, Bag
    <3> QED
      BY <1>2, <1>4, <3>1
  <2>2. PICK es \in Seq(Entry), k \in 0 .. Len(log[f]), bag \in [Master -> Nat] :
           es = c.entries /\ k = prev /\ bag = new
    BY <1>3, <2>1
  <2>3. /\ k + Len(es) <= Len(log[Leader])
        /\ \A j \in 1 .. Len(es) : es[j].term = 0 /\ es[j].cmd = log[Leader][k + j].cmd
        /\ bag = ExecuteAddServers(peerIds[f], f, es, ExecutedEntries(log[f], k, es))
        /\ f \notin stuck
    BY <1>2, <1>3, <2>2
  <2> HIDE DEF new
  <2>4. /\ bag[f] = 0
        /\ bag[Leader] = peerIds[f][Leader]
        /\ \A p \in Follower :
              \/ bag[p] = 0
              \/ bag[p] = 1 /\ \E j \in 1 .. k + Len(es) : AddServerAt(j, p)
              \/ bag[p] = 1 /\ \E j \in 1 .. Len(log[f]) : AddServerAt(j, p)
    BY <2>3, ExecutedOnce
  <2> QED
    BY <2>2, <2>4
<1> HIDE DEF new
<1>7. peerIds'[f] = new /\ \A m \in Master \ {f} : peerIds'[m] = peerIds[m]
  BY <1>2, <1>4
<1>8. \A k, p : AddServerAt(k, p)' <=> AddServerAt(k, p)
  BY <1>5 DEF AddServerAt
<1>9. AddServersOnce' /\ LeaderPeers'
  BY <1>1, <1>2, <1>4, <1>5, <1>7, <1>8 DEF AddServersOnce, LeaderPeers
<1>10. Extends(log'[Leader], log[Leader])
  BY <1>4, <1>5 DEF Extends
<1>11. ASSUME NEW g \in Follower, NEW bag, BuiltFrom(bag, g)
       PROVE  BuiltFrom(bag, g)'
  BY <1>1, <1>5, <1>10, <1>11, BuiltKept
<1>12. BuiltFrom(peerIds[f], f)'
  <2>1. \A k \in 1 .. Len(log[f]) : k \in 1 .. Len(log'[f])
    BY <1>1, <1>4, <1>5 DEF TypeOK, Master
  <2>2. \A k \in 1 .. prev + Len(c.entries) : f \in stuck' \/ k \in 1 .. Len(log'[f])
    <3>1. Len(log'[f]) \in Nat /\ prev + Len(c.entries) \in Nat
      BY <1>1, <1>3 DEF TypeOK, Master
    <3> QED
      BY <1>5, <3>1
  <2> QED
    BY <1>6, <1>7, <1>8, <2>1, <2>2 DEF BuiltFrom
<1>13. ASSUME NEW g \in Follower
       PROVE  /\ BuiltFrom(peerIds[g], g)' /\ BuiltFrom(snap[g], g)'
              /\ peerIds'[g][Leader] = peerIds[g][Leader]
  <2>1. PICK b : b = peerIds[g]
    OBVIOUS
  <2>2. PICK d : d = snap[g]
    OBVIOUS
  <2>3. BuiltFrom(b, g)' /\ BuiltFrom(d, g)'
    BY <1>1, <1>11, <2>1, <2>2 DEF FollowerPeers
  <2>4. BuiltFrom(snap[g], g)'
    BY <1>2, <2>2, <2>3 DEF BuiltFrom
  <2>5. BuiltFrom(peerIds[g], g)'
    <3>1. CASE g = f
      BY <1>12, <3>1
    <3>2. CASE g # f
      BY <1>4, <1>7, <2>1, <2>3, <3>2 DEF BuiltFrom
    <3> QED
      BY <3>1, <3>2
  <2> QED
    BY <1>4, <1>6, <1>7, <2>4, <2>5
<1>14. FollowerPeers'
  BY <1>1, <1>2, <1>13 DEF FollowerPeers
<1> QED
  BY <1>9, <1>14 DEF PeersInv

\* However heartbeats overlap and repeat, and although NewServer writes its peer
\* list without cm.mu while AppendEntries may run, no list counts a master twice
\* or its own owner; so len(peerIds) + 1 never exceeds the number of masters.
THEOREM PeersOnce == Spec => []PeersCountedOnce
<1>1. Init => PeersInv
  <2> SUFFICES ASSUME Init PROVE PeersInv
    OBVIOUS
  <2>1. log[Leader] = <<>> /\ \A m \in Master : peerIds[m] = NoPeer
    BY DEF Init, Master
  <2>2. AddServersOnce
    BY <2>1 DEF AddServersOnce
  <2>3. LeaderPeers /\ FollowerPeers
    BY <2>1 DEF Init, LeaderPeers, FollowerPeers, BuiltFrom, NoPeer, Master
  <2> QED
    BY <2>2, <2>3 DEF PeersInv
<1>2. IndInv /\ IndInv' /\ PeersInv /\ [Next]_vars => PeersInv'
  <2> SUFFICES ASSUME IndInv, IndInv', PeersInv, [Next]_vars PROVE PeersInv'
    OBVIOUS
  <2>1. CASE \E f \in Follower : Joining(f)
    BY <2>1, JoinPeers, SubmitPeers DEF Joining
  <2>2. CASE \E n \in NodeId : UpdateNode(n)
    BY <2>2, SubmitPeers
  <2>3. CASE \E f \in Follower : \E s \in SlotOf[f] : Calling(f, s)
    <3>1. PICK f \in Follower, s \in Slot : Calling(f, s)
      BY <2>3, SlotAssumption
    <3>2. CASE AcceptAppendEntries(f, s) \/ BlockInExecutor(f, s)
      BY <3>2, ExecutePeers
    <3>3. CASE \/ SendAppendEntries(f, s) \/ RefuseAppendEntries(f, s)
               \/ ReceiveReply(f, s) \/ CallFails(f, s)
      <4>1. UNCHANGED <<log, peerIds, join, snap, stuck>>
        BY <3>3 DEF SendAppendEntries, RefuseAppendEntries, ReceiveReply, ReceiveSuccess,
           ReceiveFailure, CallFails, joinVars
      <4> QED
        BY <4>1 DEF PeersInv, AddServersOnce, LeaderPeers, FollowerPeers, BuiltFrom, AddServerAt
    <3> QED
      BY <3>1, <3>2, <3>3 DEF Calling, HandleAppendEntries
  <2>4. CASE UNCHANGED vars
    BY <2>4 DEF vars, PeersInv, AddServersOnce, LeaderPeers, FollowerPeers, BuiltFrom,
       AddServerAt
  <2> QED
    BY <2>1, <2>2, <2>3, <2>4 DEF Next
<1>3. IndInv /\ PeersInv => PeersCountedOnce
  <2> SUFFICES ASSUME IndInv, PeersInv, NEW m \in Master
               PROVE  peerIds[m][m] = 0 /\ \A p \in Master : peerIds[m][p] <= 1
    BY DEF PeersCountedOnce
  <2>1. CASE m = Leader
    BY <2>1 DEF PeersInv, LeaderPeers, Master
  <2>2. CASE m \in Follower
    BY <2>2 DEF PeersInv, FollowerPeers, BuiltFrom, Master
  <2> QED
    BY <2>1, <2>2 DEF Master
<1> QED
  BY Invariance, <1>1, <1>2, <1>3, PTL DEF Spec
=============================================================================
