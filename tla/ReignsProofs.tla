---------------------------- MODULE ReignsProofs ----------------------------
(***************************************************************************)
(* Proofs about the logs, indices and peer lists over several reigns, for  *)
(* any number of founding masters, joining ids, terms and calls in flight. *)
(*                                                                         *)
(* IndInv is about indices.  Logs that were never cut only grow, so what a *)
(* call or an index said about such a log when it was made stays true; all *)
(* that can become stale is what was said about, or by, a master that has  *)
(* been cut.                                                               *)
(*                                                                         *)
(* PeersInv is about peer lists.  AppendEntries keeps an entry at its      *)
(* index, so that the AddServer entry of a master has one position, in     *)
(* every log and in every request; a log that is not cut executes it once. *)
(***************************************************************************)
EXTENDS Reigns, SequenceTheorems, FiniteSetTheorems, WellFoundedInduction, TLAPS

Cmd   == {AddServerStruct(p) : p \in Id} \cup {AddNodeStruct(n) : n \in NodeId}
Entry == [term : Nat, cmd : Cmd]
Req   == [phase : {"req"}, from : Server, to : Server, term : Nat, ni : Nat,
          prevLogTerm : Nat, entries : Seq(Entry), leaderCommit : Nat]
Resp  == [phase : {"resp"}, from : Server, to : Server, term : Nat, ni : Nat, n : Nat,
          ok : BOOLEAN, rterm : Nat]

TypeOK ==
    /\ currentTerm \in [Server -> Nat]
    /\ log \in [Server -> Seq(Entry)]
    /\ commitIndex \in [Server -> Nat]
    /\ peerIds \in [Server -> [Id -> Nat]]
    /\ nextIndex \in [Server -> [Id -> Nat]]
    /\ matchIndex \in [Server -> [Id -> Nat]]
    /\ calls \subseteq Req \cup Resp
    /\ halted \subseteq Server /\ cut \subseteq Server

\* A request carries erased terms, and a stretch of its sender's log as long as
\* that has not been cut; its commit index reaches beyond that only if some log was
\* cut.
RequestTrue(c) ==
    /\ c.ni >= 1
    /\ \A k \in 1 .. Len(c.entries) : c.entries[k].term = 0
    /\ c.from \notin cut => c.ni - 1 + Len(c.entries) <= Len(log[c.from])
    /\ cut = {} => c.leaderCommit <= c.ni - 1 + Len(c.entries)

ReplyTrue(c) ==
    /\ c.ni >= 1
    /\ c.from \notin cut => c.ni - 1 + c.n <= Len(log[c.from])
    /\ IF c.ok THEN c.to \notin cut => c.ni - 1 + c.n <= Len(log[c.to]) ELSE c.ni >= 2

CallTrue(c) == IF c.phase = "req" THEN RequestTrue(c) ELSE ReplyTrue(c)
CallsTrue == \A c \in calls : CallTrue(c)

IndInv == TypeOK /\ CallsTrue /\ StaleOnlyAfterCut

\* Index k holds the AddServer entry of p in some log, or will in one that accepts
\* some request.
InLog(k, p)  == \E i \in Server : k \in 1 .. Len(log[i]) /\ log[i][k].cmd = AddServerStruct(p)
InCall(k, p) == \E c \in calls : /\ c.phase = "req"
                                 /\ \E j \in 1 .. Len(c.entries) :
                                       k = c.ni - 1 + j /\ c.entries[j].cmd = AddServerStruct(p)
Placed(k, p) == InLog(k, p) \/ InCall(k, p)

PlacedOnce == \A p \in Id : \A j, k \in Nat : Placed(j, p) /\ Placed(k, p) => j = k

PlacedKnown ==
    \A x \in Joiner : \A k \in Nat : Placed(k, x) => \E i \in Server : peerIds[i][x] # 0

BuiltOnce(i) ==
    /\ peerIds[i][i] = 0
    /\ \A p \in Id :
          \/ peerIds[i][p] = 0
          \/ /\ peerIds[i][p] = 1
             /\ \/ \E k \in 1 .. Len(log[i]) : log[i][k].cmd = AddServerStruct(p)
                \/ \A k \in Nat : ~Placed(k, p)

PeersInv ==
    /\ LoggedArePeers /\ PlacedOnce /\ PlacedKnown
    /\ \A i \in Server \ (cut \cup blocked) : BuiltOnce(i)

(***************************************************************************)
(* A non-empty set of naturals has a least element; hence MatchedEntries   *)
(* is the number of entries before the first whose term differs.           *)
(***************************************************************************)
LEMMA NatMin ==
    ASSUME NEW T, T \subseteq Nat, T # {}
    PROVE  \E n \in T : \A m \in T : n <= m
<1> DEFINE R == OpToRel(<, Nat)
<1>1. IsWellFoundedOn(R, Nat)
  BY NatLessThanWellFounded, Zenon
<1>2. \A m, n \in Nat : m < n => <<m, n>> \in R
  BY DEF OpToRel
<1> HIDE DEF R
<1>3. PICK n \in T : \A m \in T : ~(<<m, n>> \in R)
  BY <1>1, WFMin, Zenon
<1>4. ASSUME NEW m \in T
      PROVE  n <= m
  <2>1. m \in Nat /\ n \in Nat
    OBVIOUS
  <2>2. ~(m < n)
    BY <1>2, <1>3, <2>1, Zenon
  <2> QED
    BY <2>1, <2>2
<1> QED
  BY <1>4

LEMMA MatchedSpec ==
    ASSUME NEW l, NEW prev, NEW es, Len(es) \in Nat
    PROVE  LET k == MatchedEntries(l, prev, es) IN
           /\ k \in 0 .. Len(es)
           /\ \A j \in 1 .. k : SameTerm(l, prev, es, j)
           /\ k < Len(es) => ~SameTerm(l, prev, es, k + 1)
<1> DEFINE P(k) == /\ \A j \in 1 .. k : SameTerm(l, prev, es, j)
                   /\ k < Len(es) => ~SameTerm(l, prev, es, k + 1)
           T == {k \in 0 .. Len(es) : k < Len(es) => ~SameTerm(l, prev, es, k + 1)}
<1>1. T \subseteq Nat /\ Len(es) \in T
  OBVIOUS
<1>2. PICK k \in T : \A m \in T : k <= m
  <2> HIDE DEF T
  <2>1. T # {}
    BY <1>1
  <2> QED
    BY <1>1, <2>1, NatMin, Zenon
<1>3. \A j \in 1 .. k : SameTerm(l, prev, es, j)
  <2> SUFFICES ASSUME NEW j \in 1 .. k, ~SameTerm(l, prev, es, j) PROVE FALSE
    OBVIOUS
  <2>1. j - 1 \in 0 .. Len(es) /\ j - 1 < Len(es) /\ (j - 1) + 1 = j /\ ~(k <= j - 1)
    OBVIOUS
  <2>2. ~SameTerm(l, prev, es, (j - 1) + 1)
    BY <2>1
  <2>3. j - 1 \in T
    BY <2>1, <2>2
  <2> QED
    BY <1>2, <2>1, <2>3
<1>4. k \in 0 .. Len(es) /\ P(k)
  BY <1>3
<1>5. MatchedEntries(l, prev, es) = CHOOSE n \in 0 .. Len(es) : P(n)
  BY DEF MatchedEntries
<1> HIDE DEF P
<1>6. MatchedEntries(l, prev, es) \in 0 .. Len(es) /\ P(MatchedEntries(l, prev, es))
  BY <1>4, <1>5, Zenon
<1> QED
  BY <1>6 DEF P

\* m is the first a elements of l followed by those of es beyond the first k.
IsSpliced(m, S, l, a, es, k) ==
    /\ m \in Seq(S) /\ Len(m) = a + Len(es) - k
    /\ \A j \in 1 .. a : m[j] = l[j]
    /\ \A j \in a + 1 .. Len(m) : m[j] = es[j - a + k]

LEMMA SplicedSpec ==
    ASSUME NEW S, NEW l \in Seq(S), NEW es \in Seq(S), NEW a \in 0 .. Len(l),
           NEW k \in 0 .. Len(es)
    PROVE  IsSpliced(SubSeq(l, 1, a) \o SubSeq(es, k + 1, Len(es)), S, l, a, es, k)
<1> DEFINE f == SubSeq(l, 1, a)  b == SubSeq(es, k + 1, Len(es))
<1>1. f \in Seq(S) /\ Len(f) = a /\ \A i \in 1 .. a : f[i] = l[i]
  OBVIOUS
<1>2. /\ b \in Seq(S) /\ Len(b) = Len(es) - k
      /\ \A i \in 1 .. Len(es) - k : b[i] = es[k + i]
  OBVIOUS
<1> HIDE DEF f, b
<1>3. /\ f \o b \in Seq(S)
      /\ Len(f \o b) = Len(f) + Len(b)
      /\ \A i \in 1 .. Len(f) + Len(b) : (f \o b)[i] = IF i <= Len(f) THEN f[i] ELSE b[i - Len(f)]
  BY <1>1, <1>2, ConcatProperties, Zenon
<1> DEFINE m == f \o b
<1> HIDE DEF m
<1>4. /\ m \in Seq(S) /\ Len(m) = a + Len(es) - k
      /\ \A i \in 1 .. Len(m) : m[i] = IF i <= a THEN f[i] ELSE b[i - a]
  BY <1>1, <1>2, <1>3 DEF m
<1>5. \A j \in 1 .. a : m[j] = l[j]
  BY <1>1, <1>4, SMTT(30)
<1>6. ASSUME NEW j \in a + 1 .. Len(m) PROVE m[j] = es[j - a + k]
  <2>1. m[j] = b[j - a] /\ j - a \in 1 .. Len(es) - k /\ k + (j - a) = j - a + k
    BY <1>4
  <2> QED
    BY <2>1, <1>2
<1> QED
  BY <1>4, <1>5, <1>6 DEF m, f, b, IsSpliced

LEMMA MergedSpec ==
    ASSUME NEW S, NEW l \in Seq(S), NEW es \in Seq(S), NEW prev \in 0 .. Len(l)
    PROVE  LET m == MergedLog(l, prev, es)
               k == MatchedEntries(l, prev, es)
           IN  /\ m \in Seq(S)
               /\ k \in 0 .. Len(es) /\ prev + k <= Len(l)
               /\ Len(m) >= prev + Len(es)
               /\ \A j \in 1 .. prev + k : m[j] = l[j]
               /\ k = Len(es) => m = l
               /\ k < Len(es) =>
                     /\ Len(m) = prev + Len(es)
                     /\ \A j \in prev + k + 1 .. Len(m) : m[j] = es[j - prev]
                     /\ prev + k < Len(l) => l[prev + k + 1].term # es[k + 1].term
<1> DEFINE m == MergedLog(l, prev, es)
           k == MatchedEntries(l, prev, es)
<1>1. Len(es) \in Nat /\ Len(l) \in Nat
  OBVIOUS
<1>2. /\ k \in 0 .. Len(es)
      /\ \A j \in 1 .. k : SameTerm(l, prev, es, j)
      /\ k < Len(es) => ~SameTerm(l, prev, es, k + 1)
  BY <1>1, MatchedSpec
<1>3. m = IF k < Len(es) THEN SubSeq(l, 1, prev + k) \o SubSeq(es, k + 1, Len(es)) ELSE l
  BY DEF MergedLog
<1> HIDE DEF m, k
<1>4. prev + k <= Len(l)
  <2>1. k > 0 => SameTerm(l, prev, es, k)
    BY <1>2
  <2> QED
    BY <1>1, <1>2, <2>1 DEF SameTerm
<1>5. k = Len(es) => m = l
  BY <1>2, <1>3
<1>6. CASE k = Len(es)
  BY <1>1, <1>2, <1>4, <1>5, <1>6 DEF m, k
<1>7. CASE k # Len(es)
  <2>1. k < Len(es) /\ prev + k \in 0 .. Len(l)
    BY <1>1, <1>2, <1>4, <1>7
  <2>2. m = SubSeq(l, 1, prev + k) \o SubSeq(es, k + 1, Len(es))
    BY <1>3, <2>1
  <2>3. /\ m \in Seq(S) /\ Len(m) = prev + k + Len(es) - k
        /\ \A j \in 1 .. prev + k : m[j] = l[j]
        /\ \A j \in prev + k + 1 .. Len(m) : m[j] = es[j - (prev + k) + k]
    <3>1. PICK a : a = prev + k
      OBVIOUS
    <3>2. a \in 0 .. Len(l) /\ m = SubSeq(l, 1, a) \o SubSeq(es, k + 1, Len(es))
      BY <2>1, <2>2, <3>1
    <3>3. /\ m \in Seq(S) /\ Len(m) = a + Len(es) - k
          /\ \A j \in 1 .. a : m[j] = l[j]
          /\ \A j \in a + 1 .. Len(m) : m[j] = es[j - a + k]
      <4>1. IsSpliced(m, S, l, a, es, k)
        BY <1>2, <3>2, SplicedSpec, Zenon
      <4> QED
        BY <4>1 DEF IsSpliced
    <3> QED
      BY <3>1, <3>3
  <2>4. Len(m) = prev + Len(es)
    BY <1>1, <1>2, <2>3
  <2>5. ASSUME NEW j \in prev + k + 1 .. Len(m) PROVE m[j] = es[j - prev]
    <3>1. j - (prev + k) + k = j - prev
      BY <1>2, <2>4
    <3> QED
      BY <2>3, <3>1
  <2>6. prev + k < Len(l) => l[prev + k + 1].term # es[k + 1].term
    <3>1. prev + (k + 1) = prev + k + 1
      BY <1>2
    <3> QED
      BY <1>1, <1>2, <2>1, <3>1 DEF SameTerm
  <2>7. Len(m) >= prev + Len(es)
    BY <1>1, <2>4
  <2> QED
    BY <1>2, <1>4, <1>5, <2>3, <2>4, <2>5, <2>6, <2>7 DEF m, k
<1> QED
  BY <1>6, <1>7

(***************************************************************************)
(* With erased terms on the wire, a log is cut at an entry that has a      *)
(* term, and a log that is not cut gains its new entries at the end.       *)
(***************************************************************************)
LEMMA CutOrGrown ==
    ASSUME NEW S, NEW l \in Seq(S), NEW es \in Seq(S), NEW prev \in 0 .. Len(l),
           \A k \in 1 .. Len(es) : es[k].term = 0
    PROVE  LET m == MergedLog(l, prev, es)
               k == MatchedEntries(l, prev, es)
           IN  /\ IsCut(l, m) =>
                     /\ prev + k + 1 \in 1 .. Len(l)
                     /\ l[prev + k + 1].term # 0
                     /\ \A j \in 1 .. prev + k : m[j] = l[j]
               /\ ~IsCut(l, m) =>
                     /\ Len(l) <= Len(m)
                     /\ \A j \in 1 .. Len(l) : m[j] = l[j]
                     /\ k < Len(es) => prev + k = Len(l)
<1> DEFINE m == MergedLog(l, prev, es)
           k == MatchedEntries(l, prev, es)
<1>1. /\ m \in Seq(S)
      /\ k \in 0 .. Len(es) /\ prev + k <= Len(l)
      /\ Len(m) >= prev + Len(es)
      /\ \A j \in 1 .. prev + k : m[j] = l[j]
      /\ k = Len(es) => m = l
      /\ k < Len(es) =>
            /\ Len(m) = prev + Len(es)
            /\ \A j \in prev + k + 1 .. Len(m) : m[j] = es[j - prev]
            /\ prev + k < Len(l) => l[prev + k + 1].term # es[k + 1].term
  BY MergedSpec, SMTT(30)
<1>2. Len(l) \in Nat /\ Len(es) \in Nat
  OBVIOUS
<1> HIDE DEF m, k
<1>3. IsCut(l, m) => k < Len(es) /\ prev + k < Len(l)
  <2>1. k = Len(es) => ~IsCut(l, m)
    BY <1>1, <1>2 DEF IsCut
  <2>2. k < Len(es) /\ prev + k = Len(l) => ~IsCut(l, m)
    BY <1>1, <1>2 DEF IsCut
  <2> QED
    BY <1>1, <1>2, <2>1, <2>2
<1>4. k < Len(es) => es[k + 1].term = 0
  BY <1>1, <1>2
<1>5. IsCut(l, m) => prev + k + 1 \in 1 .. Len(l) /\ l[prev + k + 1].term # 0
  BY <1>1, <1>2, <1>3, <1>4
<1>6. ASSUME ~IsCut(l, m), k < Len(es)
      PROVE  prev + k = Len(l)
  <2> SUFFICES ASSUME prev + k < Len(l) PROVE FALSE
    BY <1>1, <1>2
  <2>1. prev + k + 1 \in 1 .. Len(l) /\ prev + k + 1 \in prev + k + 1 .. Len(m)
        /\ (prev + k + 1) - prev = k + 1
    BY <1>1, <1>2, <1>6
  <2>2. m[prev + k + 1] = es[k + 1]
    BY <1>1, <1>6, <2>1
  <2>3. m[prev + k + 1] = l[prev + k + 1]
    BY <1>6, <2>1 DEF IsCut
  <2> QED
    BY <1>1, <1>6, <2>2, <2>3
<1> QED
  BY <1>1, <1>5, <1>6 DEF IsCut, m, k

LEMMA IntervalEqual ==
    ASSUME NEW a \in Nat, NEW b \in Nat, 1 .. a = 1 .. b
    PROVE  a = b
<1>1. a # 0 => a \in 1 .. a
  OBVIOUS
<1>2. b # 0 => b \in 1 .. b
  OBVIOUS
<1>3. a # 0 => a \in 1 .. b
  BY <1>1, Zenon
<1>4. b # 0 => b \in 1 .. a
  BY <1>2, Zenon
<1> QED
  BY <1>3, <1>4

LEMMA TabulatedSeq ==
    ASSUME NEW S, NEW n \in Nat, NEW f \in [1 .. n -> S]
    PROVE  f \in Seq(S) /\ Len(f) = n
<1>1. f \in Seq(S)
  BY SeqDef, Zenon
<1>2. DOMAIN f = 1 .. Len(f) /\ Len(f) \in Nat /\ DOMAIN f = 1 .. n
  BY <1>1, LenProperties, Zenon
<1>3. Len(f) = n
  BY <1>2, IntervalEqual, Zenon
<1> QED
  BY <1>1, <1>3

\* The entries of a request are a stretch of the leader's log.
LEMMA WireEntriesType ==
    ASSUME NEW l \in Seq(Entry), NEW ni \in 1 .. Len(l) + 1
    PROVE  LET es == WireEntries(l, ni) IN
           /\ es \in Seq(Entry)
           /\ Len(es) = Len(l) + 1 - ni
           /\ \A k \in 1 .. Len(es) : es[k].term = 0 /\ es[k].cmd = l[ni - 1 + k].cmd
<1> DEFINE n == Len(l) + 1 - ni
           es == [k \in 1 .. n |-> Serialize(l[ni + k - 1])]
<1>1. n \in Nat
  OBVIOUS
<1>2. ASSUME NEW k \in 1 .. n
      PROVE  /\ Serialize(l[ni + k - 1]) \in Entry
             /\ Serialize(l[ni + k - 1]).term = 0
             /\ Serialize(l[ni + k - 1]).cmd = l[ni - 1 + k].cmd
  <2>1. ni + k - 1 \in 1 .. Len(l) /\ ni - 1 + k = ni + k - 1
    OBVIOUS
  <2>2. l[ni + k - 1] \in Entry
    BY <2>1
  <2> QED
    BY <2>1, <2>2 DEF Serialize, Entry
<1> HIDE DEF n
<1>3. es \in [1 .. n -> Entry]
  BY <1>2
<1>4. \A k \in 1 .. n : es[k].term = 0 /\ es[k].cmd = l[ni - 1 + k].cmd
  BY <1>2
<1>5. WireEntries(l, ni) = es
  BY DEF WireEntries, n
<1> HIDE DEF es
<1>6. es \in Seq(Entry) /\ Len(es) = n
  BY <1>1, <1>3, TabulatedSeq, Zenon
<1> QED
  BY <1>4, <1>5, <1>6 DEF n

LEMMA RegistrationsType ==
    ASSUME NEW t \in Nat
    PROVE  /\ Registrations(t) \in Seq(Entry)
           /\ Len(Registrations(t)) = Founded /\ Founded \in Nat
           /\ \A k \in 1 .. Founded : /\ Registrations(t)[k].cmd = AddServerStruct(Founders[k + 1])
                                      /\ k + 1 \in DOMAIN Founders
<1> DEFINE f == Registrations(t)
<1>1. Founded \in Nat
  BY FoundersAssumption DEF Founded
<1>2. ASSUME NEW k \in 1 .. Founded
      PROVE  k + 1 \in DOMAIN Founders /\ Founders[k + 1] \in Id
  BY FoundersAssumption DEF Founded, Id
<1>3. f \in [1 .. Founded -> Entry]
  BY <1>2 DEF Registrations, Founded, Entry, Cmd
<1>4. \A k \in 1 .. Founded : f[k].cmd = AddServerStruct(Founders[k + 1])
  BY DEF Registrations, Founded
<1> HIDE DEF f
<1>5. f \in Seq(Entry) /\ Len(f) = Founded
  BY <1>1, <1>3, TabulatedSeq, Zenon
<1> QED
  BY <1>1, <1>2, <1>4, <1>5 DEF f

LEMMA ExecuteAddServersType ==
    ASSUME NEW peers \in [Id -> Nat], NEW self, NEW es \in Seq(Entry),
           NEW ks \in SUBSET (1 .. Len(es))
    PROVE  ExecuteAddServers(peers, self, es, ks) \in [Id -> Nat]
<1>1. ASSUME NEW p \in Id
      PROVE  Cardinality({k \in ks : es[k].cmd = AddServerStruct(p)}) \in Nat
  <2>1. IsFiniteSet(1 .. Len(es))
    BY FS_Interval
  <2> QED
    BY <2>1, FS_Subset, FS_CardinalityType
<1> QED
  BY <1>1 DEF ExecuteAddServers

LEMMA ExecutedInRange ==
    ASSUME NEW l \in Seq(Entry), NEW es \in Seq(Entry), NEW prev
    PROVE  ExecutedEntries(l, prev, es) \in SUBSET (1 .. Len(es))
<1>1. MatchedEntries(l, prev, es) \in 0 .. Len(es)
  BY MatchedSpec
<1> QED
  BY <1>1 DEF ExecutedEntries, NewEntries

LEMMA CallFields ==
    ASSUME NEW c \in Req \cup Resp
    PROVE  /\ c.phase \in {"req", "resp"}
           /\ c.from \in Server /\ c.to \in Server /\ c.term \in Nat /\ c.ni \in Nat
           /\ c.phase = "req" => c.entries \in Seq(Entry) /\ c.leaderCommit \in Nat
           /\ c.phase = "resp" => c.n \in Nat /\ c.ok \in BOOLEAN /\ c.rterm \in Nat
BY DEF Req, Resp

-----------------------------------------------------------------------------
(***************************************************************************)
(* Logs that are not cut grow, which keeps calls and indices true.         *)
(***************************************************************************)
Grown ==
    /\ cut \subseteq cut' /\ cut' \subseteq Server
    /\ \A i \in Server : Len(log[i]) \in Nat /\ Len(log[i])' \in Nat
    /\ \A i \in Server \ cut' : Len(log[i]) <= Len(log[i])'

LEMMA CallKept ==
    ASSUME Grown, NEW c \in Req \cup Resp, CallTrue(c)
    PROVE  CallTrue(c)'
<1>1. c.from \in Server /\ c.to \in Server
  BY CallFields
<1>2. c.from \notin cut' => c.from \notin cut /\ Len(log[c.from]) <= Len(log[c.from])'
  BY <1>1 DEF Grown
<1>3. c.to \notin cut' => c.to \notin cut /\ Len(log[c.to]) <= Len(log[c.to])'
  BY <1>1 DEF Grown
<1>4. cut' = {} => cut = {}
  BY DEF Grown
<1>5. Len(log[c.from]) \in Nat /\ Len(log[c.from])' \in Nat
      /\ Len(log[c.to]) \in Nat /\ Len(log[c.to])' \in Nat
  BY <1>1 DEF Grown
<1>6. CASE c.phase = "req"
  <2>1. c.entries \in Seq(Entry) /\ c.ni \in Nat
    BY <1>6, CallFields
  <2>2. RequestTrue(c)
    BY <1>6 DEF CallTrue
  <2>3. c.from \notin cut' => c.ni - 1 + Len(c.entries) <= Len(log[c.from])'
    BY <1>2, <1>5, <2>1, <2>2, SMTT(30) DEF RequestTrue
  <2>4. RequestTrue(c)'
    BY <1>4, <2>2, <2>3 DEF RequestTrue
  <2> QED
    BY <1>6, <2>4 DEF CallTrue
<1>7. CASE c.phase # "req"
  <2>1. c.n \in Nat /\ c.ni \in Nat
    BY <1>7, CallFields
  <2>2. ReplyTrue(c)
    BY <1>7 DEF CallTrue
  <2>3. c.from \notin cut' => c.ni - 1 + c.n <= Len(log[c.from])'
    BY <1>2, <1>5, <2>1, <2>2 DEF ReplyTrue
  <2>4. c.ok => (c.to \notin cut' => c.ni - 1 + c.n <= Len(log[c.to])')
    BY <1>3, <1>5, <2>1, <2>2 DEF ReplyTrue
  <2>5. ReplyTrue(c)'
    BY <2>2, <2>3, <2>4 DEF ReplyTrue
  <2> QED
    BY <1>7, <2>5 DEF CallTrue
<1> QED
  BY <1>6, <1>7

LEMMA StaleKept ==
    ASSUME TypeOK, StaleOnlyAfterCut, Grown, UNCHANGED indexVars,
           \A i \in Server : i \notin cut' => commitIndex[i]' <= Len(log[i])',
           halted' \subseteq Server, cut' = {} => halted' \subseteq halted
    PROVE  StaleOnlyAfterCut'
<1> SUFFICES ASSUME NEW i \in Server
             PROVE  /\ \A p \in Id : /\ nextIndex[i][p]' >= 1
                                     /\ i \notin cut' => nextIndex[i][p]' <= Len(log[i])' + 1
                    /\ i \notin cut' => commitIndex[i]' <= Len(log[i])'
                    /\ \A p \in Server \ cut' : matchIndex[i][p]' <= Len(log[p])'
                    /\ i \in halted' => cut' # {}
  BY DEF StaleOnlyAfterCut
<1>1. nextIndex' = nextIndex /\ matchIndex' = matchIndex
  BY DEF indexVars
<1>2. ASSUME NEW p \in Id
      PROVE  nextIndex[i][p]' >= 1 /\ (i \notin cut' => nextIndex[i][p]' <= Len(log[i])' + 1)
  <2>1. nextIndex[i][p] \in Nat /\ nextIndex[i][p]' = nextIndex[i][p]
    BY <1>1 DEF TypeOK
  <2>2. nextIndex[i][p] >= 1 /\ (i \notin cut => nextIndex[i][p] <= Len(log[i]) + 1)
    BY DEF StaleOnlyAfterCut
  <2>3. Len(log[i]) \in Nat /\ Len(log[i])' \in Nat
    BY DEF Grown
  <2>4. i \notin cut' => i \notin cut /\ Len(log[i]) <= Len(log[i])'
    BY DEF Grown
  <2> QED
    BY <2>1, <2>2, <2>3, <2>4
<1>3. ASSUME NEW p \in Server \ cut'
      PROVE  matchIndex[i][p]' <= Len(log[p])'
  <2>1. p \in Id /\ p \in Server \ cut
    BY DEF Id, Grown
  <2>2. matchIndex[i][p] \in Nat /\ matchIndex[i][p]' = matchIndex[i][p]
    BY <1>1, <2>1 DEF TypeOK
  <2>3. matchIndex[i][p] <= Len(log[p])
    BY <2>1 DEF StaleOnlyAfterCut
  <2>4. Len(log[p]) \in Nat /\ Len(log[p])' \in Nat /\ Len(log[p]) <= Len(log[p])'
    BY DEF Grown
  <2> QED
    BY <2>2, <2>3, <2>4
<1>4. i \in halted' => cut' # {}
  BY DEF StaleOnlyAfterCut, Grown
<1> QED
  BY <1>2, <1>3, <1>4

\* The same when no log changes.
LEMMA SameLogs ==
    ASSUME TypeOK, UNCHANGED <<log, cut>>
    PROVE  Grown
BY DEF TypeOK, Grown

LEMMA CallsKept ==
    ASSUME TypeOK, CallsTrue, Grown,
           \A c \in calls' : c \in calls \/ (c \in Req \cup Resp /\ CallTrue(c)')
    PROVE  CallsTrue' /\ calls' \subseteq Req \cup Resp
<1>1. \A c \in calls' : c \in Req \cup Resp
  BY DEF TypeOK
<1>2. ASSUME NEW c \in calls' PROVE CallTrue(c)'
  <2>1. CASE c \in calls
    BY <2>1, <1>1, CallKept DEF CallsTrue
  <2> QED
    BY <2>1
<1> QED
  BY <1>1, <1>2 DEF CallsTrue

-----------------------------------------------------------------------------
LEMMA InitInd == Init => IndInv
<1> SUFFICES ASSUME Init PROVE IndInv
  OBVIOUS
<1>1. \A i \in Server : /\ log[i] \in Seq(Entry) /\ Len(log[i]) = Founded
                        /\ Founded \in Nat
  <2> TAKE i \in Server
  <2>1. PICK t \in {0, 1} : log[i] = Registrations(t)
    BY DEF Init
  <2>2. t \in Nat
    OBVIOUS
  <2> QED
    BY <2>1, <2>2, RegistrationsType, Zenon
<1>2. Founded \in Nat
  BY RegistrationsType
<1>3. log \in [Server -> Seq(Entry)]
  BY <1>1 DEF Init
<1>4. TypeOK
  BY <1>2, <1>3 DEF Init, TypeOK
<1>5. CallsTrue
  BY DEF Init, CallsTrue
<1>6. StaleOnlyAfterCut
  <2> SUFFICES ASSUME NEW i \in Server
               PROVE  /\ \A p \in Id : nextIndex[i][p] >= 1 /\ nextIndex[i][p] <= Founded + 1
                      /\ commitIndex[i] <= Founded
                      /\ \A p \in Server : matchIndex[i][p] <= Founded
                      /\ i \notin halted
    BY <1>1 DEF StaleOnlyAfterCut
  <2> QED
    BY <1>2 DEF Init, Id
<1> QED
  BY <1>4, <1>5, <1>6 DEF IndInv

LEMMA ElectionInd ==
    ASSUME IndInv, NEW i \in Server, NEW heard \in SUBSET Server, startElection(i, heard)
    PROVE  IndInv'
<1> USE DEF IndInv
<1>1. UNCHANGED <<log, commitIndex, peerIds, indexVars, halted, cut>> /\ calls' \subseteq calls
  BY DEF startElection, stopVars
<1>2. Grown
  BY <1>1, SameLogs
<1>3. CallsTrue' /\ calls' \subseteq Req \cup Resp
  BY <1>1, <1>2, CallsKept
<1>4. currentTerm' \in [Server -> Nat]
  <2>1. currentTerm[i] + 1 \in Nat /\ \A v \in heard : currentTerm[v] \in Nat
    BY DEF TypeOK
  <2> DEFINE T(t) == [j \in Server |->
                         IF j = i THEN t
                         ELSE IF j \in {v \in heard : currentTerm[v] < currentTerm[i] + 1}
                              THEN currentTerm[i] + 1 ELSE currentTerm[j]]
  <2>2. \E t \in Nat : currentTerm' = T(t)
    BY <2>1 DEF startElection
  <2>3. \A t \in Nat : T(t) \in [Server -> Nat]
    BY <2>1 DEF TypeOK
  <2> QED
    BY <2>2, <2>3
<1>5. TypeOK'
  BY <1>1, <1>3, <1>4 DEF TypeOK, indexVars
<1>6. StaleOnlyAfterCut'
  <2>1. \A j \in Server : j \notin cut' => commitIndex[j]' <= Len(log[j])'
    BY <1>1 DEF StaleOnlyAfterCut
  <2> QED
    BY <1>1, <1>2, <2>1, StaleKept DEF TypeOK
<1> QED
  BY <1>3, <1>5, <1>6

\* Submit on a leader, and what RegisterMaster and UpdateNode do around it.
LEMMA SubmitInd ==
    ASSUME IndInv, NEW i \in Server, NEW e \in Entry,
           log' = log \/ log' = [log EXCEPT ![i] = Append(@, e)],
           peerIds' \in [Server -> [Id -> Nat]],
           UNCHANGED <<roleVars, commitIndex, indexVars, calls, halted, cut>>
    PROVE  IndInv'
<1> USE DEF IndInv
<1>1. /\ log' \in [Server -> Seq(Entry)]
      /\ \A j \in Server : Len(log[j]) <= Len(log[j])'
  <2>1. log \in [Server -> Seq(Entry)]
    BY DEF TypeOK
  <2>2. \A j \in Server : log[j] \in Seq(Entry) /\ Len(log[j]) \in Nat
    BY <2>1
  <2>3. CASE log' = log
    BY <2>1, <2>2, <2>3
  <2>4. CASE log' = [log EXCEPT ![i] = Append(@, e)]
    <3>1. Append(log[i], e) \in Seq(Entry) /\ Len(Append(log[i], e)) = Len(log[i]) + 1
      BY <2>2
    <3>2. log' \in [Server -> Seq(Entry)]
      BY <2>1, <2>4, <3>1
    <3> QED
      BY <2>1, <2>2, <2>4, <3>1, <3>2
  <2> QED
    BY <2>3, <2>4
<1>2. Grown
  BY <1>1 DEF Grown, TypeOK
<1>3. CallsTrue' /\ calls' \subseteq Req \cup Resp
  BY <1>2, CallsKept
<1>4. TypeOK'
  BY <1>1, <1>3 DEF TypeOK, indexVars, roleVars
<1>5. StaleOnlyAfterCut'
  <2>1. \A j \in Server : j \notin cut' => commitIndex[j]' <= Len(log[j])'
    <3> TAKE j \in Server
    <3> HAVE j \notin cut'
    <3>1. commitIndex[j] <= Len(log[j]) /\ commitIndex[j] \in Nat /\ Len(log[j]) \in Nat
          /\ Len(log[j])' \in Nat
      BY <1>1 DEF StaleOnlyAfterCut, TypeOK
    <3> QED
      BY <1>1, <3>1
  <2> QED
    BY <1>2, <2>1, StaleKept DEF TypeOK
<1> QED
  BY <1>3, <1>4, <1>5

LEMMA RegisterInd ==
    ASSUME IndInv, NEW x \in Joiner, NEW i \in Server, RegisterMaster(i, x)
    PROVE  IndInv'
<1> DEFINE e == [term |-> currentTerm[i], cmd |-> AddServerStruct(x)]
<1>1. e \in Entry /\ x \in Id
  BY DEF IndInv, TypeOK, Entry, Cmd, Id
<1>2. peerIds' \in [Server -> [Id -> Nat]]
  BY <1>1 DEF RegisterMaster, IndInv, TypeOK
<1>3. log' = log \/ log' = [log EXCEPT ![i] = Append(@, e)]
  BY DEF RegisterMaster
<1>4. UNCHANGED <<roleVars, commitIndex, indexVars, calls, halted, cut>>
  BY DEF RegisterMaster, stopVars
<1> HIDE DEF e
<1> QED
  BY <1>1, <1>2, <1>3, <1>4, SubmitInd

LEMMA UpdateInd ==
    ASSUME IndInv, NEW n \in NodeId, NEW i \in Server, UpdateNode(i, n)
    PROVE  IndInv'
<1> DEFINE e == [term |-> currentTerm[i], cmd |-> AddNodeStruct(n)]
<1>1. e \in Entry
  BY DEF IndInv, TypeOK, Entry, Cmd
<1>2. peerIds' \in [Server -> [Id -> Nat]]
  BY DEF UpdateNode, IndInv, TypeOK
<1>3. log' = [log EXCEPT ![i] = Append(@, e)]
  BY DEF UpdateNode
<1>4. UNCHANGED <<roleVars, commitIndex, indexVars, calls, halted, cut>>
  BY DEF UpdateNode, stopVars
<1> HIDE DEF e
<1> QED
  BY <1>1, <1>2, <1>3, <1>4, SubmitInd

LEMMA SendInd ==
    ASSUME IndInv, NEW i \in Server, NEW p \in Server, SendAppendEntries(i, p)
    PROVE  IndInv'
<1> USE DEF IndInv
<1> DEFINE ni == nextIndex[i][p]
           es == WireEntries(log[i], ni)
           r == [phase |-> "req", from |-> i, to |-> p, term |-> currentTerm[i],
                 ni |-> ni, prevLogTerm |-> TermAt(log[i], ni - 1),
                 entries |-> es, leaderCommit |-> commitIndex[i]]
<1>1. /\ UNCHANGED <<roleVars, log, commitIndex, peerIds, indexVars, halted, cut>>
      /\ calls' = calls \cup {r} /\ ni <= Len(log[i]) + 1
  BY DEF SendAppendEntries, stopVars
<1>2. Grown
  BY <1>1, SameLogs
<1>3. log[i] \in Seq(Entry) /\ ni \in 1 .. Len(log[i]) + 1
  BY <1>1 DEF TypeOK, StaleOnlyAfterCut, Id
<1>4. /\ es \in Seq(Entry) /\ Len(es) = Len(log[i]) + 1 - ni
      /\ \A k \in 1 .. Len(es) : es[k].term = 0
  <2>1. PICK l : l = log[i]
    OBVIOUS
  <2>2. PICK n : n = ni
    OBVIOUS
  <2> QED
    BY <1>3, <2>1, <2>2, WireEntriesType
<1>5. TermAt(log[i], ni - 1) \in Nat
  <2>1. ni - 1 # 0 => ni - 1 \in 1 .. Len(log[i])
    BY <1>3
  <2>2. ni - 1 # 0 => log[i][ni - 1] \in Entry
    BY <1>3, <2>1
  <2>3. ni - 1 # 0 => log[i][ni - 1].term \in Nat
    BY <2>2 DEF Entry
  <2> QED
    BY <2>3 DEF TermAt
<1>6. PICK c : c = r
  OBVIOUS
<1> HIDE DEF es
<1>7. c \in Req
  BY <1>3, <1>4, <1>5, <1>6 DEF Req, TypeOK
<1>8. CallTrue(c)'
  <2>1. ni - 1 + Len(es) = Len(log[i])
    BY <1>3, <1>4
  <2>2. cut = {} => commitIndex[i] <= Len(log[i])
    BY DEF StaleOnlyAfterCut
  <2>3. c.ni = ni /\ c.entries = es /\ c.leaderCommit = commitIndex[i] /\ c.from = i
        /\ c.phase = "req"
    BY <1>6
  <2>4. ni >= 1
    BY <1>3
  <2>5. RequestTrue(c)
    BY <1>4, <2>1, <2>2, <2>3, <2>4 DEF RequestTrue
  <2> QED
    BY <1>1, <2>3, <2>5 DEF CallTrue, RequestTrue
<1>9. CallsTrue' /\ calls' \subseteq Req \cup Resp
  BY <1>1, <1>2, <1>6, <1>7, <1>8, CallsKept
<1>10. TypeOK'
  BY <1>1, <1>9 DEF TypeOK, indexVars, roleVars
<1>11. StaleOnlyAfterCut'
  <2>1. \A j \in Server : j \notin cut' => commitIndex[j]' <= Len(log[j])'
    BY <1>1 DEF StaleOnlyAfterCut
  <2> QED
    BY <1>1, <1>2, <2>1, StaleKept DEF TypeOK
<1> QED
  BY <1>9, <1>10, <1>11

LEMMA PanicInd ==
    ASSUME IndInv, NEW i \in Server, NEW p \in Server, SliceOutOfRange(i, p)
    PROVE  IndInv'
<1> USE DEF IndInv
<1>1. /\ UNCHANGED <<roleVars, log, commitIndex, peerIds, indexVars, calls, cut>>
      /\ halted' = halted \cup {i} /\ nextIndex[i][p] > Len(log[i]) + 1
  BY DEF SliceOutOfRange
<1>2. Grown
  BY <1>1, SameLogs
<1>3. i \in cut
  <2>1. p \in Id /\ log[i] \in Seq(Entry)
    BY DEF TypeOK, Id
  <2>3. nextIndex[i][p] \in Nat /\ Len(log[i]) \in Nat
    BY <2>1 DEF TypeOK
  <2>2. i \notin cut => nextIndex[i][p] <= Len(log[i]) + 1
    BY <2>1 DEF StaleOnlyAfterCut
  <2> QED
    BY <1>1, <2>2, <2>3
<1>4. CallsTrue' /\ calls' \subseteq Req \cup Resp
  BY <1>1, <1>2, CallsKept
<1>5. TypeOK'
  BY <1>1, <1>4 DEF TypeOK, indexVars, roleVars
<1>6. StaleOnlyAfterCut'
  <2>1. \A j \in Server : j \notin cut' => commitIndex[j]' <= Len(log[j])'
    BY <1>1 DEF StaleOnlyAfterCut
  <2>2. cut' # {} /\ halted' \subseteq Server
    BY <1>1, <1>3, <1>5 DEF TypeOK
  <2> QED
    BY <1>1, <1>2, <2>1, <2>2, StaleKept
<1> QED
  BY <1>4, <1>5, <1>6

LEMMA NewRoleType ==
    ASSUME TypeOK, NEW i \in Server, NEW c \in Req \cup Resp, NewRole(i, c)
    PROVE  currentTerm' \in [Server -> Nat] /\ currentTerm'[i] \in Nat
<1>1. c.term \in Nat
  BY CallFields
<1>2. currentTerm' \in [Server -> Nat]
  BY <1>1 DEF TypeOK, NewRole, becomeFollower, roleVars
<1> QED
  BY <1>2

LEMMA ReplyIsResp ==
    ASSUME NEW c \in Req, NEW i \in Server, NEW ok \in BOOLEAN, NEW t \in Nat
    PROVE  [phase |-> "resp", from |-> c.from, to |-> i, term |-> c.term, ni |-> c.ni,
            n |-> Len(c.entries), ok |-> ok, rterm |-> t] \in Resp
<1>1. c.from \in Server /\ c.term \in Nat /\ c.ni \in Nat /\ Len(c.entries) \in Nat
  BY DEF Req
<1> QED
  BY <1>1 DEF Resp

LEMMA RefuseInd ==
    ASSUME IndInv, NEW c \in calls, RefuseAppendEntries(c)
    PROVE  IndInv'
<1> USE DEF IndInv
<1> DEFINE i == c.to
           r == [phase |-> "resp", from |-> c.from, to |-> i, term |-> c.term, ni |-> c.ni,
                 n |-> Len(c.entries), ok |-> FALSE, rterm |-> currentTerm'[i]]
<1>1. /\ UNCHANGED <<log, commitIndex, peerIds, indexVars, halted, cut>>
      /\ calls' = (calls \ {c}) \cup {r}
      /\ c.phase = "req" /\ i \in Server /\ c \in Req
      /\ NewRole(i, c)
      /\ ~AcceptsPrev(log[i], c.ni - 1, c.prevLogTerm)
  BY DEF RefuseAppendEntries, Reply, TypeOK, Req, Resp, stopVars
<1>2. Grown
  BY <1>1, SameLogs
<1>3. currentTerm' \in [Server -> Nat] /\ currentTerm'[i] \in Nat
  BY <1>1, NewRoleType, Zenon
<1>4. r \in Resp
  BY <1>1, <1>3, ReplyIsResp, Zenon
<1>5. RequestTrue(c)
  BY <1>1 DEF CallsTrue, CallTrue
<1>6. PICK d : d = r
  OBVIOUS
<1>7. CallTrue(d)'
  <2>1. c.ni \in Nat /\ c.ni >= 2
    <3>1. c.ni \in Nat /\ c.ni >= 1 /\ c.ni - 1 # 0
      BY <1>1, <1>5 DEF AcceptsPrev, RequestTrue, Req
    <3> QED
      BY <3>1
  <2>2. c.from \notin cut => c.ni - 1 + Len(c.entries) <= Len(log[c.from])
    BY <1>5 DEF RequestTrue
  <2>3. d.phase = "resp" /\ d.ni = c.ni /\ d.n = Len(c.entries) /\ d.from = c.from
        /\ d.ok = FALSE
    BY <1>6
  <2>4. ReplyTrue(d)
    BY <1>5, <2>1, <2>2, <2>3 DEF ReplyTrue, RequestTrue
  <2> QED
    BY <1>1, <2>3, <2>4 DEF CallTrue, ReplyTrue
<1>8. CallsTrue' /\ calls' \subseteq Req \cup Resp
  <2> HIDE DEF r
  <2>1. \A b \in calls' : b \in calls \/ (b \in Req \cup Resp /\ CallTrue(b)')
    BY <1>1, <1>4, <1>6, <1>7
  <2> QED
    BY <1>2, <2>1, CallsKept
<1>9. TypeOK'
  BY <1>1, <1>3, <1>8 DEF TypeOK, indexVars
<1>10. StaleOnlyAfterCut'
  <2>1. \A j \in Server : j \notin cut' => commitIndex[j]' <= Len(log[j])'
    BY <1>1 DEF StaleOnlyAfterCut
  <2> QED
    BY <1>1, <1>2, <2>1, StaleKept DEF TypeOK
<1> QED
  BY <1>8, <1>9, <1>10

\* What an accepted request does to the log l of its receiver i.
Accepted(c, i, l, prev, es, m) ==
    /\ i = c.to /\ l = log[i] /\ prev = c.ni - 1 /\ es = c.entries /\ m = MergedLog(l, prev, es)
    /\ c \in Req /\ RequestTrue(c) /\ i \in Server
    /\ l \in Seq(Entry) /\ es \in Seq(Entry) /\ prev \in 0 .. Len(l)
    /\ \A k \in 1 .. Len(es) : es[k].term = 0
    /\ m \in Seq(Entry)
    /\ log' = [log EXCEPT ![i] = m]
    /\ cut' = IF IsCut(l, m) THEN cut \cup {i} ELSE cut

LEMMA AcceptFacts ==
    ASSUME IndInv, NEW c \in calls, AcceptAppendEntries(c)
    PROVE  \E i, l, prev, es, m : Accepted(c, i, l, prev, es, m)
<1> USE DEF IndInv
<1>a. PICK i : i = c.to
  OBVIOUS
<1>b. PICK l : l = log[i]
  OBVIOUS
<1>c. PICK prev : prev = c.ni - 1
  OBVIOUS
<1>d. PICK es : es = c.entries
  OBVIOUS
<1>1. c \in Req /\ i \in Server /\ RequestTrue(c) /\ l \in Seq(Entry) /\ es \in Seq(Entry)
  BY <1>a, <1>b, <1>d DEF AcceptAppendEntries, TypeOK, Req, Resp, CallsTrue, CallTrue
<1>2. prev \in 0 .. Len(l)
  <2>1. c.ni \in Nat /\ c.ni >= 1 /\ Len(l) \in Nat
    BY <1>1 DEF Req, RequestTrue
  <2>2. prev = 0 \/ prev <= Len(l)
    BY <1>a, <1>b, <1>c DEF AcceptAppendEntries, AcceptsPrev
  <2> QED
    BY <1>c, <2>1, <2>2
<1>3. \A k \in 1 .. Len(es) : es[k].term = 0
  BY <1>1, <1>d DEF RequestTrue
<1>4. log' = [log EXCEPT ![i] = MergedLog(l, prev, es)]
  BY <1>a, <1>b, <1>c, <1>d DEF AcceptAppendEntries
<1>5. cut' = IF IsCut(l, MergedLog(l, prev, es)) THEN cut \cup {i} ELSE cut
  BY <1>a, <1>b, <1>c, <1>d DEF AcceptAppendEntries
<1>6. MergedLog(l, prev, es) \in Seq(Entry)
  BY <1>1, <1>2, MergedSpec
<1> QED
  <2>1. Accepted(c, i, l, prev, es, MergedLog(l, prev, es))
    BY <1>a, <1>b, <1>c, <1>d, <1>1, <1>2, <1>3, <1>4, <1>5, <1>6, Zenon DEF Accepted
  <2> QED
    BY <2>1

LEMMA ExecuteType ==
    ASSUME TypeOK, NEW i \in Server, NEW c \in Req, ExecuteEntries(i, c)
    PROVE  peerIds' \in [Server -> [Id -> Nat]]
<1>1. PICK es : es = c.entries
  OBVIOUS
<1>2. PICK ks : ks = ExecutedEntries(log[i], c.ni - 1, es)
  OBVIOUS
<1>3. PICK b : b = peerIds[i]
  OBVIOUS
<1>4. ks \in SUBSET (1 .. Len(es)) /\ b \in [Id -> Nat] /\ es \in Seq(Entry)
  <2>1. log[i] \in Seq(Entry) /\ es \in Seq(Entry) /\ b \in [Id -> Nat]
    BY <1>1, <1>3 DEF TypeOK, Req
  <2> QED
    BY <1>2, <2>1, ExecutedInRange
<1>5. ExecuteAddServers(b, i, es, ks) \in [Id -> Nat]
  BY <1>4, ExecuteAddServersType, Zenon
<1>6. peerIds' = [peerIds EXCEPT ![i] = ExecuteAddServers(b, i, es, ks)]
  BY <1>1, <1>2, <1>3 DEF ExecuteEntries
<1> QED
  BY <1>5, <1>6 DEF TypeOK

LEMMA AcceptInd ==
    ASSUME IndInv, NEW c \in calls, AcceptAppendEntries(c)
    PROVE  IndInv'
<1> USE DEF IndInv
<1>0. PICK i, l, prev, es, m : Accepted(c, i, l, prev, es, m)
  BY AcceptFacts
<1>1. i = c.to
  BY <1>0 DEF Accepted
<1>2. l = log[i]
  BY <1>0 DEF Accepted
<1>3. prev = c.ni - 1
  BY <1>0 DEF Accepted
<1>4. es = c.entries
  BY <1>0 DEF Accepted
<1>5. m = MergedLog(l, prev, es)
  BY <1>0 DEF Accepted
<1>6. /\ c \in Req /\ RequestTrue(c) /\ i \in Server
      /\ l \in Seq(Entry) /\ es \in Seq(Entry) /\ prev \in 0 .. Len(l)
      /\ \A k \in 1 .. Len(es) : es[k].term = 0
      /\ log' = [log EXCEPT ![i] = m]
      /\ m \in Seq(Entry)
      /\ cut' = IF IsCut(l, m) THEN cut \cup {i} ELSE cut
  BY <1>0, Zenon DEF Accepted
<1>7. Len(m) \in Nat /\ Len(l) \in Nat /\ Len(es) \in Nat /\ Len(m) >= prev + Len(es)
      /\ (~IsCut(l, m) => Len(l) <= Len(m))
  <2>1. Len(m) >= prev + Len(es)
    BY <1>5, <1>6, MergedSpec
  <2>2. ~IsCut(l, m) => Len(l) <= Len(m)
    BY <1>5, <1>6, CutOrGrown
  <2> QED
    BY <1>6, <2>1, <2>2
<1>8. /\ log' \in [Server -> Seq(Entry)]
      /\ log[i]' = m /\ \A j \in Server \ {i} : log[j]' = log[j]
  BY <1>1, <1>6 DEF TypeOK
<1>9. Grown
  <2>1. cut \subseteq cut' /\ cut' \subseteq Server
    BY <1>6 DEF TypeOK
  <2>2. \A j \in Server : Len(log[j]) \in Nat /\ Len(log[j])' \in Nat
    BY <1>8 DEF TypeOK
  <2>3. ASSUME NEW j \in Server \ cut' PROVE Len(log[j]) <= Len(log[j])'
    <3>1. CASE j = i
      <4>1. ~IsCut(l, m)
        BY <1>6, <3>1
      <4> QED
        BY <1>2, <1>7, <1>8, <3>1, <4>1
    <3>2. CASE j # i
      BY <1>8, <2>2, <3>2
    <3> QED
      BY <3>1, <3>2
  <2> QED
    BY <2>1, <2>2, <2>3 DEF Grown
<1>10. NewRole(i, c) /\ UNCHANGED indexVars
  BY <1>1 DEF AcceptAppendEntries
<1>11. currentTerm' \in [Server -> Nat] /\ currentTerm'[i] \in Nat
  BY <1>6, <1>10, NewRoleType
<1> DEFINE r == [phase |-> "resp", from |-> c.from, to |-> i, term |-> c.term, ni |-> c.ni,
                 n |-> Len(c.entries), ok |-> TRUE, rterm |-> currentTerm'[i]]
<1>12. r \in Resp
  BY <1>6, <1>11, ReplyIsResp
<1>13. PICK d : d = r
  OBVIOUS
<1>14. CallTrue(d)'
  <2>1. d.phase = "resp" /\ d.ni = c.ni /\ d.n = Len(es) /\ d.from = c.from /\ d.to = i
        /\ d.ok = TRUE
    BY <1>4, <1>13
  <2>2. c.ni \in Nat /\ c.ni >= 1 /\ c.from \in Server
    BY <1>6 DEF RequestTrue, Req
  <2>3. c.from \notin cut' => c.ni - 1 + Len(es) <= Len(log[c.from])'
    <3>1. c.from \notin cut' => c.from \notin cut /\ Len(log[c.from]) <= Len(log[c.from])'
      BY <1>9, <2>2 DEF Grown
    <3>2. c.from \notin cut => c.ni - 1 + Len(es) <= Len(log[c.from])
      BY <1>4, <1>6 DEF RequestTrue
    <3>3. Len(log[c.from]) \in Nat /\ Len(log[c.from])' \in Nat
      BY <1>9, <2>2 DEF Grown
    <3> QED
      BY <1>7, <2>2, <3>1, <3>2, <3>3
  <2>4. c.ni - 1 + Len(es) <= Len(log[i])'
    BY <1>3, <1>7, <1>8
  <2>5. ReplyTrue(d)'
    BY <2>1, <2>2, <2>3, <2>4 DEF ReplyTrue
  <2> QED
    BY <2>1, <2>5 DEF CallTrue
<1>15. calls' = (calls \ {c}) \cup {r} \/ calls' = calls \ {c}
  BY <1>1 DEF AcceptAppendEntries, Reply
<1>16. CallsTrue' /\ calls' \subseteq Req \cup Resp
  <2> HIDE DEF r
  <2>1. \A b \in calls' : b \in calls \/ (b \in Req \cup Resp /\ CallTrue(b)')
    BY <1>12, <1>13, <1>14, <1>15
  <2> QED
    BY <1>9, <2>1, CallsKept
<1>17. peerIds' \in [Server -> [Id -> Nat]]
  BY <1>1, <1>6, ExecuteType DEF AcceptAppendEntries
<1>18. /\ commitIndex' \in [Server -> Nat]
       /\ \A j \in Server \ {i} : commitIndex[j]' = commitIndex[j]
       /\ commitIndex[i]' = commitIndex[i] \/ commitIndex[i]' <= Len(m)
       /\ halted' = halted \/ (halted' = halted \cup {i} /\ Len(m) < c.leaderCommit)
  <2>1. commitIndex \in [Server -> Nat] /\ c.leaderCommit \in Nat
    BY <1>6 DEF TypeOK, Req
  <2>2. CASE c.leaderCommit > commitIndex[i] /\ Len(m) < c.leaderCommit
    <3>1. commitIndex' = [commitIndex EXCEPT ![i] = Len(m)] /\ halted' = halted \cup {i}
      BY <1>1, <1>2, <1>3, <1>4, <1>5, <2>2 DEF AcceptAppendEntries
    <3> QED
      BY <1>6, <1>7, <2>1, <2>2, <3>1
  <2>3. CASE ~(c.leaderCommit > commitIndex[i] /\ Len(m) < c.leaderCommit)
    <3>1. /\ commitIndex' = [commitIndex EXCEPT ![i] =
                   IF c.leaderCommit > commitIndex[i] THEN c.leaderCommit ELSE commitIndex[i]]
          /\ halted' = halted
      BY <1>1, <1>2, <1>3, <1>4, <1>5, <2>3 DEF AcceptAppendEntries
    <3> QED
      BY <1>6, <1>7, <2>1, <2>3, <3>1
  <2> QED
    BY <2>2, <2>3
<1>19. TypeOK'
  BY <1>6, <1>8, <1>9, <1>10, <1>11, <1>16, <1>17, <1>18 DEF TypeOK, indexVars, Grown
<1>20. StaleOnlyAfterCut'
  <2>1. ASSUME NEW j \in Server, j \notin cut' PROVE commitIndex[j]' <= Len(log[j])'
    <3>1. /\ commitIndex[j] <= Len(log[j]) /\ Len(log[j]) <= Len(log[j])'
          /\ commitIndex[j] \in Nat /\ Len(log[j]) \in Nat /\ Len(log[j])' \in Nat
      BY <1>9, <2>1 DEF StaleOnlyAfterCut, Grown, TypeOK
    <3> QED
      BY <1>8, <1>18, <3>1
  <2>2. cut' = {} => halted' \subseteq halted
    <3> SUFFICES ASSUME cut' = {}, Len(m) < c.leaderCommit PROVE FALSE
      BY <1>18
    <3>1. cut = {}
      BY <1>9 DEF Grown
    <3>2. c.leaderCommit <= prev + Len(es) /\ c.leaderCommit \in Nat
      BY <1>3, <1>4, <1>6, <3>1 DEF RequestTrue, Req
    <3> QED
      BY <1>6, <1>7, <3>2
  <2>3. halted' \subseteq Server
    BY <1>19 DEF TypeOK
  <2> QED
    BY <1>9, <1>10, <2>1, <2>2, <2>3, StaleKept
<1> QED
  BY <1>16, <1>19, <1>20

LEMMA DropInd ==
    ASSUME IndInv, NEW c \in calls, calls' = calls \ {c},
           UNCHANGED <<log, commitIndex, indexVars, halted, cut>>,
           peerIds' \in [Server -> [Id -> Nat]], currentTerm' \in [Server -> Nat]
    PROVE  IndInv'
<1> USE DEF IndInv
<1>1. Grown
  BY SameLogs
<1>2. CallsTrue' /\ calls' \subseteq Req \cup Resp
  BY <1>1, CallsKept
<1>3. TypeOK'
  BY <1>2 DEF TypeOK, indexVars
<1>4. StaleOnlyAfterCut'
  <2>1. \A j \in Server : j \notin cut' => commitIndex[j]' <= Len(log[j])'
    BY DEF StaleOnlyAfterCut
  <2> QED
    BY <1>1, <2>1, StaleKept DEF TypeOK
<1> QED
  BY <1>2, <1>3, <1>4

LEMMA ReplyFacts ==
    ASSUME IndInv, NEW c \in calls, c.phase = "resp"
    PROVE  /\ c \in Resp /\ ReplyTrue(c) /\ c.from \in Server /\ c.to \in Server
           /\ c.ni \in Nat /\ c.n \in Nat /\ c.ok \in BOOLEAN /\ c.rterm \in Nat
           /\ c.to \in Id
<1>1. c \in Resp /\ ReplyTrue(c)
  BY DEF IndInv, TypeOK, CallsTrue, CallTrue, Req, Resp
<1> QED
  BY <1>1 DEF Resp, Id

LEMMA HigherTermInd ==
    ASSUME IndInv, NEW c \in calls, ReceiveHigherTerm(c)
    PROVE  IndInv'
<1>1. c.from \in Server /\ c.rterm \in Nat
  BY ReplyFacts DEF ReceiveHigherTerm
<1>2. currentTerm' \in [Server -> Nat]
  BY <1>1 DEF ReceiveHigherTerm, becomeFollower, IndInv, TypeOK
<1>3. /\ calls' = calls \ {c} /\ UNCHANGED <<log, commitIndex, indexVars, halted, cut>>
      /\ peerIds' \in [Server -> [Id -> Nat]]
  BY DEF ReceiveHigherTerm, stopVars, IndInv, TypeOK
<1> QED
  BY <1>2, <1>3, DropInd

LEMMA BlocksInd ==
    ASSUME IndInv, NEW c \in calls, AddNodeExecutorBlocks(c)
    PROVE  IndInv'
<1>1. TypeOK /\ c \in Req /\ c.to \in Server
  BY DEF AddNodeExecutorBlocks, IndInv, TypeOK, Req, Resp
<1>2. NewRole(c.to, c) /\ ExecuteEntries(c.to, c)
  BY DEF AddNodeExecutorBlocks
<1>3. currentTerm' \in [Server -> Nat]
  BY <1>1, <1>2, NewRoleType
<1>4. peerIds' \in [Server -> [Id -> Nat]]
  BY <1>1, <1>2, ExecuteType
<1>5. calls' = calls \ {c} /\ UNCHANGED <<log, commitIndex, indexVars, halted, cut>>
  BY DEF AddNodeExecutorBlocks
<1> QED
  BY <1>3, <1>4, <1>5, DropInd

LEMMA CallFailsInd ==
    ASSUME IndInv, NEW c \in calls, CallFails(c)
    PROVE  IndInv'
<1>1. currentTerm' \in [Server -> Nat]
  BY DEF CallFails, roleVars, IndInv, TypeOK
<1>2. /\ calls' = calls \ {c} /\ UNCHANGED <<log, commitIndex, indexVars, halted, cut>>
      /\ peerIds' \in [Server -> [Id -> Nat]]
  BY DEF CallFails, stopVars, IndInv, TypeOK
<1> QED
  BY <1>1, <1>2, DropInd

(***************************************************************************)
(* A reply moves the indices its call was about.                           *)
(***************************************************************************)
LEMMA ReplyInd ==
    ASSUME IndInv, NEW c \in calls, NEW i \in Server, NEW q \in Server,
           NEW next \in Nat, NEW match \in Nat, NEW commit \in Nat,
           calls' = calls \ {c}, UNCHANGED <<roleVars, log, peerIds, halted, cut>>,
           nextIndex' = [nextIndex EXCEPT ![i][q] = next],
           matchIndex' = [matchIndex EXCEPT ![i][q] = match] \/ matchIndex' = matchIndex,
           commitIndex' = [commitIndex EXCEPT ![i] = commit],
           next >= 1, i \notin cut => next <= Len(log[i]) + 1,
           q \notin cut => match <= Len(log[q]),
           i \notin cut => commit <= Len(log[i])
    PROVE  IndInv'
<1> USE DEF IndInv
<1>1. Grown
  BY SameLogs
<1>2. CallsTrue' /\ calls' \subseteq Req \cup Resp
  BY <1>1, CallsKept
<1>3. /\ nextIndex' \in [Server -> [Id -> Nat]]
      /\ \A j \in Server, p \in Id :
            nextIndex'[j][p] = IF j = i /\ p = q THEN next ELSE nextIndex[j][p]
  BY DEF TypeOK
<1>4. /\ matchIndex' \in [Server -> [Id -> Nat]]
      /\ \A j \in Server, p \in Id : \/ j = i /\ p = q /\ matchIndex'[j][p] = match
                                     \/ matchIndex'[j][p] = matchIndex[j][p]
  <2>1. CASE matchIndex' = matchIndex
    BY <2>1 DEF TypeOK
  <2>2. CASE matchIndex' = [matchIndex EXCEPT ![i][q] = match]
    <3>1. \A j \in Server, p \in Id :
             matchIndex'[j][p] = IF j = i /\ p = q THEN match ELSE matchIndex[j][p]
      BY <2>2 DEF TypeOK
    <3>2. matchIndex' \in [Server -> [Id -> Nat]]
      BY <2>2 DEF TypeOK
    <3> QED
      BY <3>1, <3>2
  <2> QED
    BY <2>1, <2>2
<1>5. /\ commitIndex' \in [Server -> Nat]
      /\ \A j \in Server : commitIndex'[j] = IF j = i THEN commit ELSE commitIndex[j]
  BY DEF TypeOK
<1>6. TypeOK'
  BY <1>2, <1>3, <1>4, <1>5 DEF TypeOK, roleVars
<1>7. ASSUME NEW j \in Server
      PROVE  /\ \A p \in Id : /\ nextIndex'[j][p] >= 1
                              /\ j \notin cut => nextIndex'[j][p] <= Len(log[j]) + 1
             /\ j \notin cut => commitIndex'[j] <= Len(log[j])
             /\ \A p \in Server \ cut : matchIndex'[j][p] <= Len(log[p])
             /\ j \in halted => cut # {}
  <2>1. \A p \in Id : /\ nextIndex[j][p] >= 1
                      /\ j \notin cut => nextIndex[j][p] <= Len(log[j]) + 1
    BY DEF StaleOnlyAfterCut
  <2>2. \A p \in Server \ cut : matchIndex[j][p] <= Len(log[p])
    BY DEF StaleOnlyAfterCut
  <2>3. (j \notin cut => commitIndex[j] <= Len(log[j])) /\ (j \in halted => cut # {})
    BY DEF StaleOnlyAfterCut
  <2>4. \A p \in Server \ cut : matchIndex'[j][p] <= Len(log[p])
    BY <1>4, <2>2 DEF Id
  <2> QED
    BY <1>3, <1>5, <2>1, <2>3, <2>4
<1>8. StaleOnlyAfterCut'
  BY <1>7 DEF StaleOnlyAfterCut
<1> QED
  BY <1>2, <1>6, <1>8

LEMMA SuccessInd ==
    ASSUME IndInv, NEW c \in calls, ReceiveSuccess(c)
    PROVE  IndInv'
<1> USE DEF IndInv
<1>1. /\ ReplyTrue(c) /\ c.from \in Server /\ c.to \in Server
      /\ c.ni \in Nat /\ c.n \in Nat /\ c.ok
  BY ReplyFacts DEF ReceiveSuccess
<1>2. PICK i \in Server : i = c.from
  BY <1>1
<1>3. PICK q \in Server : q = c.to
  BY <1>1
<1>4. PICK next \in Nat : next = c.ni + c.n
  BY <1>1
<1>5. c.ni >= 1 /\ (i \notin cut => c.ni - 1 + c.n <= Len(log[i]))
      /\ (q \notin cut => c.ni - 1 + c.n <= Len(log[q]))
  BY <1>1, <1>2, <1>3 DEF ReplyTrue
<1>6. PICK match \in Nat : match = c.ni + c.n - 1
  BY <1>1, <1>5
<1>7. /\ nextIndex' = [nextIndex EXCEPT ![i][q] = next]
      /\ calls' = calls \ {c} /\ UNCHANGED <<roleVars, log, peerIds, halted, cut>>
  BY <1>2, <1>3, <1>4 DEF ReceiveSuccess, NextAfter, stopVars
<1>8. matchIndex' = [matchIndex EXCEPT ![i][q] = match]
  <2>1. matchIndex' = [matchIndex EXCEPT ![i] = [matchIndex[i] EXCEPT ![q] = match]]
    BY <1>2, <1>3, <1>6 DEF ReceiveSuccess, MatchAfter
  <2> QED
    BY <2>1 DEF TypeOK
<1>9. PICK commit \in {commitIndex[i]} \cup (commitIndex[i] + 1 .. Len(log[i])) :
          commitIndex' = [commitIndex EXCEPT ![i] = commit]
  BY <1>2 DEF ReceiveSuccess
<1>10. /\ Len(log[i]) \in Nat /\ Len(log[q]) \in Nat /\ commitIndex[i] \in Nat
       /\ (i \notin cut => commitIndex[i] <= Len(log[i]))
  BY DEF TypeOK, StaleOnlyAfterCut
<1>11. commit \in Nat /\ (i \notin cut => commit <= Len(log[i]))
  BY <1>9, <1>10
<1>12. next >= 1 /\ (i \notin cut => next <= Len(log[i]) + 1)
       /\ (q \notin cut => match <= Len(log[q]))
  BY <1>1, <1>4, <1>5, <1>6, <1>10, SMTT(30)
<1> QED
  BY <1>7, <1>8, <1>9, <1>11, <1>12, ReplyInd

LEMMA FailureInd ==
    ASSUME IndInv, NEW c \in calls, ReceiveFailure(c)
    PROVE  IndInv'
<1> USE DEF IndInv
<1>1. /\ ReplyTrue(c) /\ c.from \in Server /\ c.to \in Server
      /\ c.ni \in Nat /\ c.n \in Nat /\ ~c.ok
  BY ReplyFacts DEF ReceiveFailure
<1>2. PICK i \in Server : i = c.from
  BY <1>1
<1>3. PICK q \in Server : q = c.to
  BY <1>1
<1>4. c.ni >= 2 /\ (i \notin cut => c.ni - 1 + c.n <= Len(log[i]))
  BY <1>1, <1>2 DEF ReplyTrue
<1>5. PICK next \in Nat : next = c.ni - 1
  BY <1>1, <1>4
<1>6. /\ nextIndex' = [nextIndex EXCEPT ![i][q] = next]
      /\ calls' = calls \ {c} /\ UNCHANGED <<roleVars, log, peerIds, halted, cut>>
      /\ matchIndex' = matchIndex /\ commitIndex' = commitIndex
  BY <1>2, <1>3, <1>5 DEF ReceiveFailure, NextAfterFailure, stopVars
<1>7. /\ Len(log[i]) \in Nat /\ commitIndex[i] \in Nat
      /\ (i \notin cut => commitIndex[i] <= Len(log[i]))
  BY DEF TypeOK, StaleOnlyAfterCut
<1>8. next >= 1 /\ (i \notin cut => next <= Len(log[i]) + 1)
  BY <1>1, <1>4, <1>5, <1>7
<1>9. commitIndex' = [commitIndex EXCEPT ![i] = commitIndex[i]]
  BY <1>6 DEF TypeOK
<1>10. PICK commit \in Nat : commit = commitIndex[i]
  BY <1>7
<1>11. PICK match \in Nat : q \notin cut => match <= Len(log[q])
  <2>1. Len(log[q]) \in Nat
    BY DEF TypeOK
  <2>2. 0 \in Nat /\ 0 <= Len(log[q])
    BY <2>1
  <2> QED
    BY <2>2
<1>12. /\ commitIndex' = [commitIndex EXCEPT ![i] = commit]
       /\ i \notin cut => commit <= Len(log[i])
  BY <1>7, <1>9, <1>10
<1> QED
  BY <1>6, <1>8, <1>11, <1>12, ReplyInd

LEMMA StepInd == IndInv /\ [Next]_vars => IndInv'
<1> SUFFICES ASSUME IndInv, [Next]_vars PROVE IndInv'
  OBVIOUS
<1>1. CASE \E i \in Server : \E heard \in SUBSET Server : startElection(i, heard)
  BY <1>1, ElectionInd
<1>2. CASE \E x \in Joiner : \E i \in Contact[x] : RegisterMaster(i, x)
  BY <1>2, RegisterInd, JoinerAssumption
<1>3. CASE \E i, p \in Server : SendAppendEntries(i, p)
  BY <1>3, SendInd
<1>4. CASE \E i, p \in Server : SliceOutOfRange(i, p)
  BY <1>4, PanicInd
<1>5. CASE \E c \in calls : HandleAppendEntries(c)
  BY <1>5, RefuseInd, AcceptInd, BlocksInd DEF HandleAppendEntries
<1>6. CASE \E c \in calls : ReceiveReply(c)
  BY <1>6, HigherTermInd, SuccessInd, FailureInd DEF ReceiveReply
<1>7. CASE \E c \in calls : CallFails(c)
  BY <1>7, CallFailsInd
<1>8. CASE UNCHANGED vars
  BY <1>8 DEF vars, IndInv, TypeOK, CallsTrue, CallTrue, RequestTrue, ReplyTrue, StaleOnlyAfterCut
<1>9. CASE \E n \in NodeId : \E i \in Contact[n] : UpdateNode(i, n)
  BY <1>9, UpdateInd, JoinerAssumption
<1> QED
  BY <1>1, <1>2, <1>3, <1>4, <1>5, <1>6, <1>7, <1>8, <1>9 DEF Next

\* IndInv: types, what the calls in flight say about the logs, and the indices.
THEOREM IndInvariance == Spec => []IndInv
  BY InitInd, StepInd, PTL DEF Spec

\* nextIndex, matchIndex and commitIndex, which a leader keeps from an earlier reign,
\* lie within the logs they are about, and no master panics in leaderSendHeartbeats
\* or is left sending on the nil channel in AppendEntries, unless a log was cut:
\* whatever the number of masters, reigns and calls in flight, and of followers that
\* an AddNode entry has blocked.
THEOREM StaleIndices == Spec => []StaleOnlyAfterCut
<1>1. IndInv => StaleOnlyAfterCut
  BY DEF IndInv
<1> QED
  BY IndInvariance, <1>1, PTL

-----------------------------------------------------------------------------
\* AppendEntries cuts a log at an entry the receiver has submitted itself.
LEMMA StepCuts ==
    ASSUME IndInv, [Next]_vars, NEW i \in Server, IsCut(log[i], log'[i])
    PROVE  \E k \in DOMAIN log[i] :
              /\ log[i][k].term # 0
              /\ \A j \in 1 .. k - 1 : log'[i][j] = log[i][j]
<1>0. log[i] \in Seq(Entry)
  BY DEF IndInv, TypeOK
<1>1. ~IsCut(log[i], log[i])
  BY <1>0 DEF IsCut
<1>2. log'[i] # log[i]
  BY <1>1
<1>3. ASSUME NEW x \in Joiner, NEW j \in Server, RegisterMaster(j, x) PROVE FALSE
  <2>1. PICK e : log'[i] = Append(log[i], e)
    BY <1>2, <1>3 DEF RegisterMaster, IndInv, TypeOK
  <2>2. ~IsCut(log[i], Append(log[i], e))
    BY <1>0 DEF IsCut
  <2> QED
    BY <2>1, <2>2
<1>n. ASSUME NEW n \in NodeId, NEW j \in Server, UpdateNode(j, n) PROVE FALSE
  <2>1. PICK e : log'[i] = Append(log[i], e)
    BY <1>2, <1>n DEF UpdateNode, IndInv, TypeOK
  <2>2. ~IsCut(log[i], Append(log[i], e))
    BY <1>0 DEF IsCut
  <2> QED
    BY <2>1, <2>2
<1>4. PICK c \in calls : AcceptAppendEntries(c)
  <2>1. ASSUME NEW j \in Server, NEW heard, startElection(j, heard) PROVE FALSE
    BY <1>2, <2>1 DEF startElection
  <2>2. ASSUME NEW j, NEW p, SendAppendEntries(j, p) \/ SliceOutOfRange(j, p) PROVE FALSE
    BY <1>2, <2>2 DEF SendAppendEntries, SliceOutOfRange
  <2>3. ASSUME NEW c \in calls, RefuseAppendEntries(c) \/ AddNodeExecutorBlocks(c) PROVE FALSE
    BY <1>2, <2>3 DEF RefuseAppendEntries, AddNodeExecutorBlocks
  <2>4. ASSUME NEW c \in calls, ReceiveReply(c) \/ CallFails(c) PROVE FALSE
    BY <1>2, <2>4 DEF ReceiveReply, ReceiveHigherTerm, ReceiveSuccess, ReceiveFailure, CallFails
  <2>5. ~UNCHANGED vars
    BY <1>2 DEF vars
  <2>6. \A x \in Joiner \cup NodeId : Contact[x] \subseteq Server
    BY JoinerAssumption
  <2>7. Next
    BY <2>5
  <2> QED
    BY <1>3, <1>n, <2>1, <2>2, <2>3, <2>4, <2>6, <2>7 DEF Next, HandleAppendEntries
<1>5. PICK h, l, prev, es, m : Accepted(c, h, l, prev, es, m)
  BY <1>4, AcceptFacts
<1>6. i = h /\ l = log[i] /\ log'[i] = m
  BY <1>2, <1>5 DEF Accepted, IndInv, TypeOK
<1>7. PICK n : n = MatchedEntries(l, prev, es)
  OBVIOUS
<1>8. /\ prev + n + 1 \in 1 .. Len(l) /\ l[prev + n + 1].term # 0
      /\ \A j \in 1 .. prev + n : m[j] = l[j]
  <2>1. /\ l \in Seq(Entry) /\ es \in Seq(Entry) /\ prev \in 0 .. Len(l)
        /\ \A k \in 1 .. Len(es) : es[k].term = 0
        /\ m = MergedLog(l, prev, es)
    BY <1>5 DEF Accepted
  <2> QED
    BY <1>6, <1>7, <2>1, CutOrGrown
<1>9. n \in Nat /\ prev \in Nat
  <2>1. l \in Seq(Entry) /\ es \in Seq(Entry) /\ prev \in 0 .. Len(l)
    BY <1>5 DEF Accepted
  <2> QED
    BY <1>7, <2>1, MatchedSpec
<1>10. PICK k : k = prev + n + 1
  OBVIOUS
<1>11. k \in DOMAIN log[i] /\ k - 1 = prev + n
  BY <1>0, <1>6, <1>8, <1>9, <1>10
<1>12. log[i][k].term # 0 /\ \A j \in 1 .. k - 1 : log'[i][j] = log[i][j]
  BY <1>6, <1>8, <1>10, <1>11
<1> QED
  BY <1>11, <1>12

\* In every reign, and with the requests of deposed leaders still arriving, a master's
\* log is cut only from an entry on that it has submitted itself as a leader
\* (AppendEntries compares terms, which the wire format drops).
THEOREM OwnEntriesCut == Spec => OnlyOwnEntriesCut
<1>1. IndInv /\ [Next]_vars =>
         [\A i \in Server : IsCut(log[i], log'[i]) =>
             \E k \in DOMAIN log[i] :
                /\ log[i][k].term # 0
                /\ \A j \in 1 .. k - 1 : log'[i][j] = log[i][j]]_vars
  BY StepCuts
<1> QED
  BY IndInvariance, <1>1, PTL DEF Spec, OnlyOwnEntriesCut

-----------------------------------------------------------------------------
(***************************************************************************)
(* Peer lists.                                                             *)
(***************************************************************************)
LEMMA SameStruct ==
    ASSUME NEW p, NEW q
    PROVE  /\ AddServerStruct(p) = AddServerStruct(q) <=> p = q
           /\ AddServerStruct(p) # AddNodeStruct(q)
BY DEF AddServerStruct, AddNodeStruct

LEMMA AtMostOne ==
    ASSUME NEW S, \A x, y \in S : x = y
    PROVE  Cardinality(S) = IF S = {} THEN 0 ELSE 1
<1>1. CASE S = {}
  BY <1>1, FS_EmptySet
<1>2. CASE S # {}
  <2>1. PICK x \in S : TRUE
    BY <1>2
  <2>2. S = {x}
    BY <2>1
  <2> QED
    BY <1>2, <2>2, FS_Singleton
<1> QED
  BY <1>1, <1>2

LEMMA PeersTypes ==
    ASSUME IndInv
    PROVE  /\ \A i \in Server : log[i] \in Seq(Entry) /\ Len(log[i]) \in Nat
           /\ \A i \in Server, p \in Id : peerIds[i][p] \in Nat
           /\ Server \subseteq Id /\ cut \subseteq Server
           /\ \A i \in Server : DOMAIN log[i] = 1 .. Len(log[i])
<1>1. \A i \in Server : log[i] \in Seq(Entry)
  BY DEF IndInv, TypeOK
<1> QED
  BY <1>1 DEF IndInv, TypeOK, Id

LEMMA InitPeers == Init => PeersInv
<1> SUFFICES ASSUME Init PROVE PeersInv
  OBVIOUS
<1>1. ASSUME NEW i \in Server
      PROVE  /\ Len(log[i]) = Founded /\ Founded \in Nat /\ DOMAIN log[i] = 1 .. Founded
             /\ \A k \in 1 .. Founded : /\ log[i][k].cmd = AddServerStruct(Founders[k + 1])
                                        /\ k + 1 \in DOMAIN Founders
  <2>1. PICK t \in {0, 1} : log[i] = Registrations(t)
    BY DEF Init
  <2>2. t \in Nat
    OBVIOUS
  <2>3. /\ log[i] \in Seq(Entry) /\ Len(log[i]) = Founded /\ Founded \in Nat
        /\ \A k \in 1 .. Founded : /\ log[i][k].cmd = AddServerStruct(Founders[k + 1])
                                   /\ k + 1 \in DOMAIN Founders
    BY <2>1, <2>2, RegistrationsType, Zenon
  <2> QED
    BY <2>3
<1>2. ASSUME NEW k, NEW p, Placed(k, p)
      PROVE  k \in 1 .. Founded /\ k + 1 \in DOMAIN Founders /\ p = Founders[k + 1]
  <2>1. InLog(k, p)
    BY <1>2 DEF Placed, InCall, Init
  <2> QED
    BY <1>1, <2>1, SameStruct DEF InLog
<1>3. LoggedArePeers
  <2> SUFFICES ASSUME NEW i \in Server, NEW k \in DOMAIN log[i], NEW q \in Id \ {i},
                      log[i][k].cmd = AddServerStruct(q)
               PROVE  peerIds[i][q] > 0
    BY DEF LoggedArePeers
  <2>1. k \in 1 .. Founded
    BY <1>1
  <2>2. q = Founders[k + 1] /\ k + 1 \in DOMAIN Founders
    BY <1>1, <2>1, SameStruct
  <2>3. q \in Server
    BY <2>2 DEF Server
  <2>4. peerIds[i][q] = 1
    BY <2>3 DEF Init, Id
  <2> QED
    BY <2>4
<1>4. PlacedOnce
  <2> SUFFICES ASSUME NEW p \in Id, NEW j \in Nat, NEW k \in Nat, Placed(j, p), Placed(k, p)
               PROVE  j = k
    BY DEF PlacedOnce
  <2>1. Founders[j + 1] = Founders[k + 1] /\ j + 1 \in DOMAIN Founders
        /\ k + 1 \in DOMAIN Founders
    BY <1>2
  <2>2. j + 1 = k + 1
    BY <2>1, FoundersAssumption
  <2> QED
    BY <2>2
<1>5. PlacedKnown
  <2>1. ASSUME NEW x \in Joiner, NEW k \in Nat, Placed(k, x) PROVE FALSE
    <3>1. x \in Server
      BY <1>2, <2>1 DEF Server
    <3> QED
      BY <3>1, JoinerAssumption
  <2> QED
    BY <2>1 DEF PlacedKnown
<1>6. ASSUME NEW i \in Server PROVE BuiltOnce(i)
  <2>1. peerIds[i] = [p \in Id |-> IF p \in Server \ {i} THEN 1 ELSE 0] /\ i \in Id
    BY DEF Init, Id
  <2>2. peerIds[i][i] = 0
    BY <2>1
  <2>3. ASSUME NEW p \in Id, peerIds[i][p] # 0
        PROVE  /\ peerIds[i][p] = 1
               /\ \/ \E k \in 1 .. Len(log[i]) : log[i][k].cmd = AddServerStruct(p)
                  \/ \A k \in Nat : ~Placed(k, p)
    <3>1. p \in Server /\ peerIds[i][p] = 1
      BY <2>1, <2>3
    <3>2. ASSUME NEW k \in Nat, Placed(k, p)
          PROVE  \E n \in 1 .. Len(log[i]) : log[i][n].cmd = AddServerStruct(p)
      <4>1. k \in 1 .. Founded /\ p = Founders[k + 1]
        BY <1>2, <3>2
      <4>2. k \in 1 .. Len(log[i]) /\ log[i][k].cmd = AddServerStruct(p)
        BY <1>1, <4>1
      <4> QED
        BY <4>2
    <3> QED
      BY <3>1, <3>2
  <2> QED
    BY <2>2, <2>3 DEF BuiltOnce
<1> QED
  BY <1>3, <1>4, <1>5, <1>6 DEF PeersInv

(***************************************************************************)
(* Steps that change neither logs nor peer lists, and place nothing new.   *)
(***************************************************************************)
LEMMA QuietPeers ==
    ASSUME PeersInv, UNCHANGED <<log, peerIds, cut>>, blocked \subseteq blocked',
           \A k \in Nat, p \in Id : Placed(k, p)' => Placed(k, p)
    PROVE  PeersInv'
<1>1. LoggedArePeers'
  BY DEF PeersInv, LoggedArePeers
<1>2. PlacedOnce'
  BY DEF PeersInv, PlacedOnce
<1>3. PlacedKnown'
  BY DEF PeersInv, PlacedKnown, Id
<1>4. ASSUME NEW i \in Server \ (cut \cup blocked)' PROVE BuiltOnce(i)'
  <2>1. BuiltOnce(i)
    BY DEF PeersInv
  <2> QED
    BY <2>1 DEF BuiltOnce
<1> QED
  BY <1>1, <1>2, <1>3, <1>4 DEF PeersInv

LEMMA NoNewRequests ==
    ASSUME NEW k, NEW p, UNCHANGED log,
           \A c \in calls' : c.phase = "req" => c \in calls
    PROVE  Placed(k, p)' => Placed(k, p)
BY DEF Placed, InLog, InCall

LEMMA SendPeers ==
    ASSUME IndInv, PeersInv, NEW i \in Server, NEW q \in Server, SendAppendEntries(i, q)
    PROVE  PeersInv'
<1> DEFINE ni == nextIndex[i][q]
           es == WireEntries(log[i], ni)
<1>1. log[i] \in Seq(Entry) /\ ni \in 1 .. Len(log[i]) + 1
  BY DEF SendAppendEntries, IndInv, TypeOK, StaleOnlyAfterCut, Id
<1>2. /\ Len(es) = Len(log[i]) + 1 - ni
      /\ \A j \in 1 .. Len(es) : es[j].cmd = log[i][ni - 1 + j].cmd
  <2>1. PICK l : l = log[i]
    OBVIOUS
  <2>2. PICK n : n = ni
    OBVIOUS
  <2> QED
    BY <1>1, <2>1, <2>2, WireEntriesType
<1> HIDE DEF es
<1>3. ASSUME NEW c \in calls', c.phase = "req", c \notin calls
      PROVE  c.ni = ni /\ c.entries = es
  BY <1>3 DEF SendAppendEntries, es
<1>4. ASSUME NEW k \in Nat, NEW p \in Id, Placed(k, p)' PROVE Placed(k, p)
  <2>1. CASE InLog(k, p)'
    BY <2>1 DEF SendAppendEntries, InLog, Placed
  <2>2. CASE InCall(k, p)'
    <3>1. PICK c \in calls' : /\ c.phase = "req"
                              /\ \E j \in 1 .. Len(c.entries) :
                                    k = c.ni - 1 + j /\ c.entries[j].cmd = AddServerStruct(p)
      BY <2>2 DEF InCall
    <3>2. CASE c \in calls
      BY <3>1, <3>2 DEF InCall, Placed
    <3>3. CASE c \notin calls
      <4>1. PICK j \in 1 .. Len(es) : k = ni - 1 + j /\ es[j].cmd = AddServerStruct(p)
        BY <1>3, <3>1, <3>3
      <4>2. k \in 1 .. Len(log[i])
        BY <1>1, <1>2, <4>1, SMTT(30)
      <4>3. log[i][k].cmd = AddServerStruct(p)
        BY <1>2, <4>1
      <4> QED
        BY <4>2, <4>3 DEF InLog, Placed
    <3> QED
      BY <3>2, <3>3
  <2> QED
    BY <1>4, <2>1, <2>2 DEF Placed
<1>5. UNCHANGED <<log, peerIds, cut, blocked>>
  BY DEF SendAppendEntries, stopVars
<1> QED
  BY <1>4, <1>5, QuietPeers

(***************************************************************************)
(* RegisterMaster gives the newcomer, which no log or request has, at most *)
(* one position.                                                           *)
(***************************************************************************)
LEMMA RegisterPeers ==
    ASSUME IndInv, PeersInv, NEW x \in Joiner, NEW i \in Server, RegisterMaster(i, x)
    PROVE  PeersInv'
<1> DEFINE e == [term |-> currentTerm[i], cmd |-> AddServerStruct(x)]
           n == Len(log[i]) + 1
<1>1. /\ \A j \in Server : log[j] \in Seq(Entry) /\ Len(log[j]) \in Nat
      /\ \A j \in Server, p \in Id : peerIds[j][p] \in Nat
      /\ Server \subseteq Id /\ x \in Id /\ x \notin Server
      /\ \A j \in Server : DOMAIN log[j] = 1 .. Len(log[j])
  BY PeersTypes, JoinerAssumption DEF Id
<1>2. /\ calls' = calls /\ cut' = cut /\ blocked' = blocked
      /\ peerIds' = [peerIds EXCEPT ![i][x] = 1]
      /\ \A j \in Server : peerIds[j][x] = 0
  BY DEF RegisterMaster, stopVars
<1>3. \A j \in Server, p \in Id :
          peerIds'[j][p] = IF j = i /\ p = x THEN 1 ELSE peerIds[j][p]
  BY <1>1, <1>2 DEF IndInv, TypeOK
<1>4. /\ \A j \in Server \ {i} : log'[j] = log[j]
      /\ log'[i] = log[i] \/ log'[i] = Append(log[i], e)
  BY DEF RegisterMaster, IndInv, TypeOK
<1>5. e.cmd = AddServerStruct(x)
  OBVIOUS
<1> HIDE DEF e
<1>6. /\ \A j \in Server : /\ Len(log'[j]) \in Nat /\ DOMAIN log'[j] = 1 .. Len(log'[j])
                           /\ Len(log[j]) <= Len(log'[j])
                           /\ \A k \in 1 .. Len(log[j]) : log'[j][k] = log[j][k]
                           /\ \A k \in 1 .. Len(log'[j]) : \/ k \in 1 .. Len(log[j])
                                                           \/ /\ j = i /\ k = n
                                                              /\ log'[j][k].cmd = AddServerStruct(x)
  <2>0. n \in Nat
    BY <1>1
  <2>1. ASSUME NEW j \in Server \ {i}
        PROVE  log'[j] = log[j] /\ log[j] \in Seq(Entry)
    BY <1>1, <1>4
  <2>2. /\ Len(log'[i]) \in Nat /\ DOMAIN log'[i] = 1 .. Len(log'[i])
        /\ Len(log[i]) <= Len(log'[i])
        /\ \A k \in 1 .. Len(log[i]) : log'[i][k] = log[i][k]
        /\ \A k \in 1 .. Len(log'[i]) : \/ k \in 1 .. Len(log[i])
                                        \/ k = n /\ log'[i][k].cmd = AddServerStruct(x)
    <3>1. log[i] \in Seq(Entry) /\ Len(log[i]) \in Nat /\ DOMAIN log[i] = 1 .. Len(log[i])
      BY <1>1
    <3>2. CASE log'[i] = log[i]
      BY <3>1, <3>2
    <3>3. CASE log'[i] = Append(log[i], e)
      <4>1. e \in Entry
        BY <1>1 DEF e, Entry, Cmd, IndInv, TypeOK
      <4>2. /\ log'[i] \in Seq(Entry) /\ Len(log'[i]) = Len(log[i]) + 1
            /\ \A k \in 1 .. Len(log[i]) : log'[i][k] = log[i][k]
            /\ log'[i][Len(log[i]) + 1] = e
        BY <3>1, <3>3, <4>1
      <4> QED
        BY <1>5, <3>1, <4>2
    <3> QED
      BY <1>4, <3>2, <3>3
  <2> QED
    BY <2>1, <2>2
<1>7. \A k \in Nat : ~Placed(k, x)
  BY <1>2 DEF PeersInv, PlacedKnown
<1>8. ASSUME NEW k \in Nat, NEW p \in Id, Placed(k, p)'
      PROVE  Placed(k, p) \/ (k = n /\ p = x)
  <2>1. CASE InCall(k, p)'
    BY <1>2, <2>1 DEF InCall, Placed
  <2>2. CASE InLog(k, p)'
    BY <1>6, <2>2, SameStruct DEF InLog, Placed
  <2> QED
    BY <1>8, <2>1, <2>2 DEF Placed
<1>9. LoggedArePeers'
  <2> SUFFICES ASSUME NEW j \in Server, NEW k \in DOMAIN log'[j], NEW q \in Id \ {j},
                      log'[j][k].cmd = AddServerStruct(q)
               PROVE  peerIds'[j][q] > 0
    BY DEF LoggedArePeers
  <2>2. CASE k \in 1 .. Len(log[j])
    <3>1. log[j][k].cmd = AddServerStruct(q) /\ k \in DOMAIN log[j]
      BY <1>1, <1>6, <2>2
    <3>2. peerIds[j][q] > 0
      BY <3>1 DEF PeersInv, LoggedArePeers
    <3> QED
      BY <1>3, <3>2
  <2>3. CASE k \notin 1 .. Len(log[j])
    <3>1. j = i /\ q = x
      BY <1>6, <2>3, SameStruct
    <3>2. peerIds'[j][x] = 1
      BY <1>1, <1>3, <3>1
    <3> QED
      BY <3>1, <3>2
  <2> QED
    BY <2>2, <2>3
<1>10. PlacedOnce'
  <2> SUFFICES ASSUME NEW p \in Id, NEW j \in Nat, NEW k \in Nat, Placed(j, p)', Placed(k, p)'
               PROVE  j = k
    BY DEF PlacedOnce
  <2>1. CASE p = x
    BY <1>7, <1>8, <2>1
  <2>2. CASE p # x
    BY <1>8, <2>2 DEF PeersInv, PlacedOnce
  <2> QED
    BY <2>1, <2>2
<1>11. PlacedKnown'
  <2> SUFFICES ASSUME NEW y \in Joiner, NEW k \in Nat, Placed(k, y)'
               PROVE  \E j \in Server : peerIds'[j][y] # 0
    BY DEF PlacedKnown
  <2>0. y \in Id
    BY DEF Id
  <2>1. CASE y = x
    BY <1>1, <1>3, <2>1
  <2>2. CASE y # x
    <3>1. PICK j \in Server : peerIds[j][y] # 0
      BY <1>8, <2>0, <2>2 DEF PeersInv, PlacedKnown
    <3> QED
      BY <1>3, <2>0, <2>2, <3>1
  <2> QED
    BY <2>1, <2>2
<1>12. ASSUME NEW j \in Server \ (cut \cup blocked)' PROVE BuiltOnce(j)'
  <2>1. BuiltOnce(j)
    BY <1>2 DEF PeersInv
  <2>2. peerIds'[j][j] = 0
    BY <1>1, <1>3, <2>1 DEF BuiltOnce
  <2>3. ASSUME NEW p \in Id
        PROVE  \/ peerIds'[j][p] = 0
               \/ /\ peerIds'[j][p] = 1
                  /\ \/ \E k \in 1 .. Len(log'[j]) : log'[j][k].cmd = AddServerStruct(p)
                     \/ \A k \in Nat : ~Placed(k, p)'
    <3>1. CASE p # x
      <4>1. peerIds'[j][p] = peerIds[j][p]
        BY <1>3, <3>1
      <4>2. (\A k \in Nat : ~Placed(k, p)) => \A k \in Nat : ~Placed(k, p)'
        BY <1>8, <3>1
      <4>3. ASSUME NEW k \in 1 .. Len(log[j]), log[j][k].cmd = AddServerStruct(p)
            PROVE  \E h \in 1 .. Len(log'[j]) : log'[j][h].cmd = AddServerStruct(p)
        <5>1. k \in 1 .. Len(log'[j]) /\ log'[j][k].cmd = AddServerStruct(p)
          BY <1>1, <1>6, <4>3
        <5> QED
          BY <5>1
      <4> QED
        BY <2>1, <4>1, <4>2, <4>3 DEF BuiltOnce
    <3>2. CASE p = x /\ j # i
      BY <1>2, <1>3, <3>2
    <3>3. CASE p = x /\ j = i
      <4>1. peerIds'[j][p] = 1
        BY <1>3, <3>3
      <4>2. ASSUME NEW k \in Nat, Placed(k, p)'
            PROVE  \E h \in 1 .. Len(log'[j]) : log'[j][h].cmd = AddServerStruct(p)
        <5>1. ~InCall(k, p)'
          BY <1>2, <1>7, <3>3 DEF InCall, Placed
        <5>2. InLog(k, p)'
          BY <4>2, <5>1 DEF Placed
        <5>3. PICK h \in Server : k \in 1 .. Len(log'[h]) /\ log'[h][k].cmd = AddServerStruct(p)
          BY <5>2 DEF InLog
        <5>4. h = i
          <6> SUFFICES ASSUME h # i PROVE FALSE
            OBVIOUS
          <6>1. k \in 1 .. Len(log[h]) /\ log[h][k].cmd = AddServerStruct(p)
            BY <1>4, <5>3
          <6> QED
            BY <1>7, <3>3, <6>1 DEF Placed, InLog
        <5> QED
          BY <3>3, <5>3, <5>4
      <4> QED
        BY <4>1, <4>2
    <3> QED
      BY <3>1, <3>2, <3>3
  <2> QED
    BY <2>2, <2>3 DEF BuiltOnce
<1> QED
  BY <1>9, <1>10, <1>11, <1>12 DEF PeersInv

(***************************************************************************)
(* AppendEntries stores every entry at the index it has in the request,    *)
(* and executes those it stores.                                           *)
(***************************************************************************)
LEMMA AllNewExecuted ==
    ASSUME NEW l, NEW es, NEW prev, ~ExecutorBlocks(l, prev, es)
    PROVE  ExecutedEntries(l, prev, es) = MatchedEntries(l, prev, es) + 1 .. Len(es)
BY DEF ExecutedEntries, ExecutorBlocks, NewEntries

LEMMA AcceptPeers ==
    ASSUME IndInv, PeersInv, NEW c \in calls, AcceptAppendEntries(c)
    PROVE  PeersInv'
<1>0. PICK i, l, prev, es, m : Accepted(c, i, l, prev, es, m)
  BY AcceptFacts
<1>1. /\ i \in Server /\ l = log[i] /\ prev = c.ni - 1 /\ es = c.entries
      /\ m = MergedLog(l, prev, es) /\ c \in Req /\ i = c.to
      /\ l \in Seq(Entry) /\ es \in Seq(Entry) /\ m \in Seq(Entry) /\ prev \in 0 .. Len(l)
      /\ \A k \in 1 .. Len(es) : es[k].term = 0
      /\ log' = [log EXCEPT ![i] = m]
      /\ cut' = IF IsCut(l, m) THEN cut \cup {i} ELSE cut
  BY <1>0 DEF Accepted
<1>2. /\ \A j \in Server : log[j] \in Seq(Entry) /\ Len(log[j]) \in Nat
      /\ \A j \in Server, p \in Id : peerIds[j][p] \in Nat
      /\ Server \subseteq Id
      /\ \A j \in Server : DOMAIN log[j] = 1 .. Len(log[j])
      /\ Len(l) \in Nat /\ Len(es) \in Nat /\ Len(m) \in Nat /\ DOMAIN m = 1 .. Len(m)
  BY <1>1, PeersTypes
<1>3. PICK n : n = MatchedEntries(l, prev, es)
  OBVIOUS
<1>4. /\ n \in 0 .. Len(es) /\ prev + n <= Len(l)
      /\ \A j \in 1 .. prev + n : m[j] = l[j]
      /\ n = Len(es) => m = l
      /\ n < Len(es) => /\ Len(m) = prev + Len(es)
                        /\ \A j \in prev + n + 1 .. Len(m) : m[j] = es[j - prev]
  <2>1. l \in Seq(Entry) /\ es \in Seq(Entry) /\ prev \in 0 .. Len(l)
        /\ m = MergedLog(l, prev, es)
    BY <1>1
  <2> QED
    BY <2>1, <1>3, MergedSpec
<1>5. ~IsCut(l, m) => /\ Len(l) <= Len(m) /\ \A j \in 1 .. Len(l) : m[j] = l[j]
                      /\ n < Len(es) => prev + n = Len(l)
  <2>1. l \in Seq(Entry) /\ es \in Seq(Entry) /\ prev \in 0 .. Len(l)
        /\ m = MergedLog(l, prev, es) /\ \A k \in 1 .. Len(es) : es[k].term = 0
    BY <1>1
  <2> QED
    BY <2>1, <1>3, CutOrGrown
<1>6. log'[i] = m /\ \A j \in Server \ {i} : log'[j] = log[j]
  BY <1>1 DEF IndInv, TypeOK
\* An entry of the new log was in the old one or is executed now.
<1>7. ASSUME NEW k \in 1 .. Len(m)
      PROVE  \/ k \in 1 .. Len(l) /\ m[k] = l[k]
             \/ k - prev \in n + 1 .. Len(es) /\ m[k] = es[k - prev] /\ prev + (k - prev) = k
  <2>0. prev \in Nat /\ n \in Nat
    BY <1>1, <1>2, <1>4
  <2>1. CASE n = Len(es)
    BY <1>4, <2>1
  <2>2. CASE n # Len(es) /\ k <= prev + n
    <3>0. prev + n <= Len(l) /\ Len(l) \in Nat
      BY <1>2, <1>4
    <3>1. k \in 1 .. Len(l) /\ k \in 1 .. prev + n
      BY <2>0, <2>2, <3>0
    <3> QED
      BY <1>4, <3>1
  <2>3. CASE n # Len(es) /\ ~(k <= prev + n)
    <3>1. k \in prev + n + 1 .. Len(m) /\ Len(m) = prev + Len(es)
      BY <1>2, <1>4, <2>0, <2>3
    <3>2. k - prev \in n + 1 .. Len(es) /\ prev + (k - prev) = k
      BY <1>2, <2>0, <3>1
    <3> QED
      BY <1>2, <1>4, <2>3, <3>1, <3>2
  <2> QED
    BY <2>1, <2>2, <2>3
<1>8. ASSUME NEW j \in 1 .. Len(es), NEW p, es[j].cmd = AddServerStruct(p)
      PROVE  Placed(prev + j, p)
  <2>1. c.phase = "req"
    BY <1>1 DEF Req
  <2> QED
    BY <1>1, <1>8, <2>1 DEF Placed, InCall
<1>9. ASSUME NEW k \in Nat, NEW p \in Id, Placed(k, p)'
      PROVE  Placed(k, p)
  <2>1. CASE InCall(k, p)'
    <3>1. \A b \in calls' : b.phase = "req" => b \in calls
      BY DEF AcceptAppendEntries, Reply
    <3> QED
      BY <2>1, <3>1 DEF InCall, Placed
  <2>2. CASE InLog(k, p)'
    <3>1. PICK h \in Server : k \in 1 .. Len(log'[h]) /\ log'[h][k].cmd = AddServerStruct(p)
      BY <2>2 DEF InLog
    <3>2. CASE h # i
      <4>1. k \in 1 .. Len(log[h]) /\ log[h][k].cmd = AddServerStruct(p)
        BY <1>6, <3>1, <3>2
      <4> QED
        BY <4>1 DEF InLog, Placed
    <3>3. CASE h = i
      <4>1. k \in 1 .. Len(m) /\ m[k].cmd = AddServerStruct(p)
        BY <1>6, <3>1, <3>3
      <4>2. CASE k \in 1 .. Len(l) /\ m[k] = l[k]
        BY <1>1, <4>1, <4>2 DEF InLog, Placed
      <4>3. CASE k - prev \in n + 1 .. Len(es) /\ m[k] = es[k - prev] /\ prev + (k - prev) = k
        <5>1. k - prev \in 1 .. Len(es)
          BY <1>2, <1>4, <4>3
        <5>2. Placed(prev + (k - prev), p)
          BY <1>8, <4>1, <4>3, <5>1
        <5> QED
          BY <4>3, <5>2
      <4> QED
        BY <1>7, <4>1, <4>2, <4>3
    <3> QED
      BY <3>2, <3>3
  <2> QED
    BY <1>9, <2>1, <2>2 DEF Placed
<1> DEFINE Of(p) == {k \in n + 1 .. Len(es) : es[k].cmd = AddServerStruct(p)}
<1>10. \A j \in Server, p \in Id :
          peerIds'[j][p] = IF j # i \/ p = i THEN peerIds[j][p]
                           ELSE peerIds[j][p] + Cardinality(Of(p))
  <2>0. ~ExecutorBlocks(l, prev, es)
    BY <1>1 DEF AcceptAppendEntries
  <2>1. ExecutedEntries(l, prev, es) = n + 1 .. Len(es)
    BY <1>3, <2>0, AllNewExecuted
  <2>2. peerIds' = [peerIds EXCEPT ![i] = ExecuteAddServers(peerIds[i], i, es, n + 1 .. Len(es))]
    BY <1>1, <2>1 DEF AcceptAppendEntries, ExecuteEntries
  <2>3. \A p \in Id : ExecuteAddServers(peerIds[i], i, es, n + 1 .. Len(es))[p]
                        = IF p = i THEN peerIds[i][p] ELSE peerIds[i][p] + Cardinality(Of(p))
    BY <1>1 DEF ExecuteAddServers, IndInv, TypeOK
  <2> HIDE DEF Of
  <2> QED
    BY <1>1, <2>2, <2>3 DEF IndInv, TypeOK
<1>11. ASSUME NEW p \in Id
       PROVE  /\ \A k \in Of(p) : k \in 1 .. Len(es) /\ k > n /\ es[k].cmd = AddServerStruct(p)
              /\ \A k \in n + 1 .. Len(es) : es[k].cmd = AddServerStruct(p) => k \in Of(p)
  BY <1>1, <1>2, <1>4, SMTT(30)
<1> HIDE DEF Of
<1>12. ASSUME NEW p \in Id
       PROVE  Cardinality(Of(p)) = IF Of(p) = {} THEN 0 ELSE 1
  <2>1. ASSUME NEW j \in Of(p), NEW k \in Of(p) PROVE j = k
    <3>1. Placed(prev + j, p) /\ Placed(prev + k, p) /\ prev + j \in Nat /\ prev + k \in Nat
          /\ j \in Nat /\ k \in Nat /\ prev \in Nat
      <4>1. j \in 1 .. Len(es) /\ es[j].cmd = AddServerStruct(p) /\ k \in 1 .. Len(es) /\ es[k].cmd = AddServerStruct(p)
        BY <1>11
      <4>2. Placed(prev + j, p) /\ Placed(prev + k, p)
        BY <1>8, <4>1
      <4>3. prev \in Nat /\ j \in Nat /\ k \in Nat
        BY <1>1, <1>2, <4>1
      <4> QED
        BY <4>2, <4>3
    <3>2. PICK a \in Nat : a = prev + j
      BY <3>1
    <3>3. PICK b \in Nat : b = prev + k
      BY <3>1
    <3>4. a = b
      BY <3>1, <3>2, <3>3 DEF PeersInv, PlacedOnce
    <3> QED
      BY <3>1, <3>2, <3>3, <3>4
  <2> QED
    BY <2>1, AtMostOne
<1>13. \A j \in Server, p \in Id : peerIds[j][p] # 0 => peerIds'[j][p] # 0
  BY <1>2, <1>10, <1>12
<1>14. LoggedArePeers'
  <2> SUFFICES ASSUME NEW j \in Server, NEW k \in DOMAIN log'[j], NEW q \in Id \ {j},
                      log'[j][k].cmd = AddServerStruct(q)
               PROVE  peerIds'[j][q] > 0
    BY DEF LoggedArePeers
  <2>0. log'[j] \in Seq(Entry) /\ k \in 1 .. Len(log'[j])
    BY <1>1, <1>2, <1>6
  <2>2. q \in Id /\ q # j
    OBVIOUS
  <2>3. ASSUME k \in 1 .. Len(log[j]), log'[j][k] = log[j][k]
        PROVE  peerIds'[j][q] # 0
    <3>1. k \in DOMAIN log[j] /\ log[j][k].cmd = AddServerStruct(q)
      BY <1>2, <2>3
    <3>2. peerIds[j][q] > 0
      BY <2>2, <3>1 DEF PeersInv, LoggedArePeers
    <3> QED
      BY <1>2, <1>13, <2>2, <3>2
  <2>4. ASSUME j # i PROVE peerIds'[j][q] # 0
    BY <1>6, <2>0, <2>3, <2>4
  <2>5. ASSUME j = i PROVE peerIds'[j][q] # 0
    <3>1. k \in 1 .. Len(m) /\ m[k].cmd = AddServerStruct(q)
      BY <1>6, <2>0, <2>5
    <3>2. CASE k \in 1 .. Len(l) /\ m[k] = l[k]
      BY <1>1, <1>6, <2>3, <2>5, <3>2
    <3>3. CASE k - prev \in n + 1 .. Len(es) /\ m[k] = es[k - prev]
      <4>1. k - prev \in Of(q)
        BY <1>11, <2>2, <3>1, <3>3
      <4>2. Cardinality(Of(q)) = 1
        BY <1>12, <2>2, <4>1
      <4> QED
        BY <1>2, <1>10, <2>2, <2>5, <4>2
    <3> QED
      BY <1>7, <3>1, <3>2, <3>3
  <2>6. peerIds'[j][q] # 0 /\ peerIds'[j][q] \in Nat
    <3>1. Cardinality(Of(q)) \in Nat /\ peerIds[j][q] \in Nat
      BY <1>2, <1>12, <2>2
    <3>2. peerIds'[j][q] \in Nat
      BY <1>10, <2>2, <3>1
    <3> QED
      BY <2>4, <2>5, <3>2
  <2> QED
    BY <2>6
<1>15. PlacedOnce'
  BY <1>9 DEF PeersInv, PlacedOnce
<1>16. PlacedKnown'
  <2> SUFFICES ASSUME NEW y \in Joiner, NEW k \in Nat, Placed(k, y)'
               PROVE  \E j \in Server : peerIds'[j][y] # 0
    BY DEF PlacedKnown
  <2>1. y \in Id
    BY DEF Id
  <2>2. PICK j \in Server : peerIds[j][y] # 0
    BY <1>9, <2>1 DEF PeersInv, PlacedKnown
  <2> QED
    BY <1>13, <2>1, <2>2
<1>17. ASSUME NEW j \in Server \ (cut \cup blocked)' PROVE BuiltOnce(j)'
  <2>1. BuiltOnce(j)
    BY <1>1 DEF PeersInv, AcceptAppendEntries
  <2>2. peerIds'[j][j] = 0
    BY <1>2, <1>10, <2>1 DEF BuiltOnce
  <2>3. Len(log[j]) <= Len(log'[j]) /\ \A k \in 1 .. Len(log[j]) : log'[j][k] = log[j][k]
    <3>1. CASE j = i
      <4>1. ~IsCut(l, m)
        BY <1>1, <3>1
      <4>2. Len(l) <= Len(m) /\ \A k \in 1 .. Len(l) : m[k] = l[k]
        BY <1>5, <4>1
      <4>3. log[j] = l /\ log'[j] = m
        BY <1>1, <1>6, <3>1
      <4> QED
        BY <4>2, <4>3
    <3>2. CASE j # i
      BY <1>2, <1>6, <3>2
    <3> QED
      BY <3>1, <3>2
  <2>4. Len(log[j]) \in Nat /\ Len(log'[j]) \in Nat
    BY <1>2, <1>6
  <2>5. ASSUME NEW p \in Id, peerIds'[j][p] = peerIds[j][p]
        PROVE  \/ peerIds'[j][p] = 0
               \/ /\ peerIds'[j][p] = 1
                  /\ \/ \E k \in 1 .. Len(log'[j]) : log'[j][k].cmd = AddServerStruct(p)
                     \/ \A k \in Nat : ~Placed(k, p)'
    <3>1. ASSUME NEW k \in 1 .. Len(log[j]), log[j][k].cmd = AddServerStruct(p)
          PROVE  \E h \in 1 .. Len(log'[j]) : log'[j][h].cmd = AddServerStruct(p)
      <4>1. k \in 1 .. Len(log'[j]) /\ log'[j][k].cmd = AddServerStruct(p)
        BY <2>3, <2>4, <3>1
      <4> QED
        BY <4>1
    <3> QED
      BY <1>9, <2>1, <2>5, <3>1 DEF BuiltOnce
  <2>6. ASSUME NEW p \in Id, peerIds'[j][p] # peerIds[j][p]
        PROVE  /\ peerIds'[j][p] = 1
               /\ \E k \in 1 .. Len(log'[j]) : log'[j][k].cmd = AddServerStruct(p)
    <3>1. j = i /\ p # i /\ Of(p) # {} /\ peerIds'[i][p] = peerIds[i][p] + 1
      BY <1>2, <1>10, <1>12, <2>6
    <3>2. ~IsCut(l, m)
      BY <1>1, <3>1
    <3>3. PICK k \in Of(p) : TRUE
      BY <3>1
    <3>4. k \in 1 .. Len(es) /\ k > n /\ es[k].cmd = AddServerStruct(p)
      BY <1>11
    <3>5. /\ prev + n = Len(l) /\ Len(m) = prev + Len(es)
          /\ prev + k \in prev + n + 1 .. Len(m) /\ prev + k \in Nat /\ prev + k > Len(l)
          /\ (prev + k) - prev = k /\ prev + k \in 1 .. Len(m)
      <4>1. n < Len(es) /\ n \in Nat /\ prev \in Nat
        BY <1>1, <1>2, <1>4, <3>4
      <4>2. prev + n = Len(l) /\ Len(m) = prev + Len(es)
        BY <1>4, <1>5, <3>2, <4>1
      <4> QED
        BY <1>2, <3>4, <4>1, <4>2
    <3>6. m[prev + k].cmd = AddServerStruct(p)
      <4>1. n < Len(es)
        BY <1>2, <1>4, <3>4
      <4> QED
        BY <1>4, <3>4, <3>5, <4>1
    <3>7. PICK a \in Nat : a = prev + k
      BY <3>5
    <3>8. Placed(a, p)
      BY <1>8, <3>4, <3>7
    <3>9. ~\E h \in 1 .. Len(log[i]) : log[i][h].cmd = AddServerStruct(p)
      <4> SUFFICES ASSUME NEW h \in 1 .. Len(log[i]), log[i][h].cmd = AddServerStruct(p) PROVE FALSE
        OBVIOUS
      <4>1. Placed(h, p) /\ h \in Nat
        BY <1>1 DEF Placed, InLog
      <4>2. h = a
        BY <3>8, <4>1 DEF PeersInv, PlacedOnce
      <4> QED
        BY <1>1, <1>2, <3>5, <3>7, <4>2, SMTT(30)
    <3>10. peerIds[i][p] = 0
      BY <2>1, <3>1, <3>8, <3>9 DEF BuiltOnce
    <3> QED
      BY <1>6, <3>1, <3>5, <3>6, <3>10
  <2> QED
    BY <2>2, <2>5, <2>6 DEF BuiltOnce
<1> QED
  BY <1>14, <1>15, <1>16, <1>17 DEF PeersInv

\* UpdateNode places an AddNode entry, which is no master's.
LEMMA UpdatePeers ==
    ASSUME IndInv, PeersInv, NEW n \in NodeId, NEW i \in Server, UpdateNode(i, n)
    PROVE  PeersInv'
<1> DEFINE e == [term |-> currentTerm[i], cmd |-> AddNodeStruct(n)]
<1>1. /\ UNCHANGED <<calls, peerIds, cut, blocked>>
      /\ log' = [log EXCEPT ![i] = Append(@, e)]
  BY DEF UpdateNode, stopVars
<1>2. e \in Entry /\ \A p \in Id : e.cmd # AddServerStruct(p)
  <2>1. e \in Entry /\ e.cmd = AddNodeStruct(n)
    BY DEF Entry, Cmd, IndInv, TypeOK
  <2> QED
    BY <2>1, SameStruct
<1> HIDE DEF e
<1>3. /\ \A j \in Server : log[j] \in Seq(Entry) /\ Len(log[j]) \in Nat
      /\ \A j \in Server : DOMAIN log[j] = 1 .. Len(log[j])
  BY PeersTypes
<1>4. ASSUME NEW j \in Server
      PROVE  /\ Len(log'[j]) \in Nat /\ DOMAIN log'[j] = 1 .. Len(log'[j])
             /\ Len(log[j]) <= Len(log'[j])
             /\ \A k \in 1 .. Len(log[j]) : log'[j][k] = log[j][k]
             /\ \A k \in 1 .. Len(log'[j]) : k \in 1 .. Len(log[j]) \/ log'[j][k] = e
  <2>1. CASE j # i
    <3>1. log'[j] = log[j]
      BY <1>1, <2>1 DEF IndInv, TypeOK
    <3> QED
      BY <1>3, <3>1
  <2>2. CASE j = i
    <3>1. log'[j] = Append(log[j], e) /\ log[j] \in Seq(Entry)
      BY <1>1, <1>3, <2>2 DEF IndInv, TypeOK
    <3>2. /\ log'[j] \in Seq(Entry) /\ Len(log'[j]) = Len(log[j]) + 1
          /\ \A k \in 1 .. Len(log[j]) : log'[j][k] = log[j][k]
          /\ log'[j][Len(log[j]) + 1] = e
      BY <1>2, <3>1
    <3> QED
      BY <1>3, <3>2
  <2> QED
    BY <2>1, <2>2
<1>5. ASSUME NEW j \in Server, NEW k \in 1 .. Len(log'[j]), NEW p \in Id,
             log'[j][k].cmd = AddServerStruct(p)
      PROVE  k \in 1 .. Len(log[j]) /\ log[j][k].cmd = AddServerStruct(p)
  BY <1>2, <1>4, <1>5
<1>6. ASSUME NEW k \in Nat, NEW p \in Id, Placed(k, p)' PROVE Placed(k, p)
  <2>1. CASE InCall(k, p)'
    BY <1>1, <2>1 DEF InCall, Placed
  <2>2. CASE InLog(k, p)'
    BY <1>5, <2>2 DEF InLog, Placed
  <2> QED
    BY <1>6, <2>1, <2>2 DEF Placed
<1>7. LoggedArePeers'
  <2> SUFFICES ASSUME NEW j \in Server, NEW k \in DOMAIN log'[j], NEW q \in Id \ {j},
                      log'[j][k].cmd = AddServerStruct(q)
               PROVE  peerIds'[j][q] > 0
    BY DEF LoggedArePeers
  <2>1. k \in DOMAIN log[j] /\ log[j][k].cmd = AddServerStruct(q)
    BY <1>3, <1>4, <1>5
  <2> QED
    BY <1>1, <2>1 DEF PeersInv, LoggedArePeers
<1>8. PlacedOnce' /\ PlacedKnown'
  <2>1. PlacedOnce'
    BY <1>6 DEF PeersInv, PlacedOnce
  <2>2. PlacedKnown'
    BY <1>1, <1>6 DEF PeersInv, PlacedKnown, Id
  <2> QED
    BY <2>1, <2>2
<1>9. ASSUME NEW j \in Server \ (cut \cup blocked)' PROVE BuiltOnce(j)'
  <2>1. BuiltOnce(j) /\ peerIds'[j] = peerIds[j]
    BY <1>1 DEF PeersInv
  <2>2. ASSUME NEW p \in Id, NEW k \in 1 .. Len(log[j]), log[j][k].cmd = AddServerStruct(p)
        PROVE  \E h \in 1 .. Len(log'[j]) : log'[j][h].cmd = AddServerStruct(p)
    <3>1. k \in 1 .. Len(log'[j]) /\ log'[j][k].cmd = AddServerStruct(p)
      BY <1>3, <1>4, <2>2
    <3> QED
      BY <3>1
  <2> QED
    BY <1>6, <2>1, <2>2 DEF BuiltOnce
<1> QED
  BY <1>7, <1>8, <1>9 DEF PeersInv

\* A master that blocks in AddNodeExecutor has gained peers; its log is as it was.
LEMMA BlocksPeers ==
    ASSUME IndInv, PeersInv, NEW c \in calls, AddNodeExecutorBlocks(c)
    PROVE  PeersInv'
<1>0. PICK i \in Server : i = c.to
  BY DEF AddNodeExecutorBlocks
<1>1. /\ UNCHANGED <<log, cut>> /\ blocked' = blocked \cup {i} /\ calls' = calls \ {c}
      /\ ExecuteEntries(i, c)
  BY <1>0 DEF AddNodeExecutorBlocks
<1>2. PICK es : es = c.entries
  OBVIOUS
<1>3. PICK ks : ks = ExecutedEntries(log[i], c.ni - 1, es)
  OBVIOUS
<1>4. ks \in SUBSET (1 .. Len(es)) /\ es \in Seq(Entry)
  <2>1. log[i] \in Seq(Entry) /\ es \in Seq(Entry)
    BY <1>0, <1>2 DEF AddNodeExecutorBlocks, IndInv, TypeOK, Req, Resp
  <2> QED
    BY <1>3, <2>1, ExecutedInRange
<1>5. ASSUME NEW p \in Id
      PROVE  Cardinality({k \in ks : es[k].cmd = AddServerStruct(p)}) \in Nat
  <2>1. IsFiniteSet(1 .. Len(es))
    BY <1>4, FS_Interval
  <2> QED
    BY <1>4, <2>1, FS_Subset, FS_CardinalityType
<1>6. peerIds' = [peerIds EXCEPT ![i] = ExecuteAddServers(peerIds[i], i, es, ks)]
  BY <1>1, <1>2, <1>3 DEF ExecuteEntries
<1>7. \A p \in Id : \/ ExecuteAddServers(peerIds[i], i, es, ks)[p] = peerIds[i][p]
                    \/ ExecuteAddServers(peerIds[i], i, es, ks)[p] =
                          peerIds[i][p] + Cardinality({k \in ks : es[k].cmd = AddServerStruct(p)})
  BY <1>0 DEF ExecuteAddServers, IndInv, TypeOK
<1>8. \A j \in Server, p \in Id : peerIds[j][p] \in Nat
  BY PeersTypes
<1>9. /\ \A p \in Id : peerIds[i][p] > 0 => peerIds'[i][p] > 0
      /\ \A j \in Server \ {i} : peerIds'[j] = peerIds[j]
  <2>1. \A j \in Server \ {i} : peerIds'[j] = peerIds[j]
    BY <1>6 DEF IndInv, TypeOK
  <2>2. ASSUME NEW p \in Id, peerIds[i][p] > 0 PROVE peerIds'[i][p] > 0
    <3>1. PICK u : u = Cardinality({k \in ks : es[k].cmd = AddServerStruct(p)})
      OBVIOUS
    <3>2. peerIds'[i][p] = peerIds[i][p] \/ peerIds'[i][p] = peerIds[i][p] + u
      BY <1>6, <1>7, <3>1 DEF IndInv, TypeOK
    <3>3. u \in Nat /\ peerIds[i][p] \in Nat
      BY <1>5, <1>8, <3>1
    <3> QED
      BY <2>2, <3>2, <3>3
  <2> QED
    BY <2>1, <2>2
<1>10. \A j \in Server, p \in Id : peerIds[j][p] > 0 => peerIds'[j][p] > 0
  BY <1>9
<1>11. \A k \in Nat, p \in Id : Placed(k, p)' => Placed(k, p)
  BY <1>1, NoNewRequests
<1>12. LoggedArePeers'
  BY <1>1, <1>10 DEF PeersInv, LoggedArePeers
<1>13. PlacedOnce'
  BY <1>11 DEF PeersInv, PlacedOnce
<1>14. PlacedKnown'
  <2> SUFFICES ASSUME NEW y \in Joiner, NEW k \in Nat, Placed(k, y)'
               PROVE  \E j \in Server : peerIds'[j][y] # 0
    BY DEF PlacedKnown
  <2>1. y \in Id
    BY DEF Id
  <2>2. PICK j \in Server : peerIds[j][y] # 0
    BY <1>11, <2>1 DEF PeersInv, PlacedKnown
  <2>3. peerIds'[j][y] > 0
    BY <1>8, <1>10, <2>1, <2>2
  <2> QED
    BY <2>3
<1>15. ASSUME NEW j \in Server \ (cut \cup blocked)' PROVE BuiltOnce(j)'
  <2>1. BuiltOnce(j) /\ peerIds'[j] = peerIds[j] /\ log' = log
    BY <1>1, <1>9 DEF PeersInv
  <2> QED
    BY <1>11, <2>1 DEF BuiltOnce
<1> QED
  BY <1>12, <1>13, <1>14, <1>15 DEF PeersInv

LEMMA StepPeers == IndInv /\ PeersInv /\ [Next]_vars => PeersInv'
<1> SUFFICES ASSUME IndInv, PeersInv, [Next]_vars PROVE PeersInv'
  OBVIOUS
<1>1. CASE \E x \in Joiner : \E i \in Contact[x] : RegisterMaster(i, x)
  BY <1>1, RegisterPeers, JoinerAssumption
<1>2. CASE \E i, p \in Server : SendAppendEntries(i, p)
  BY <1>2, SendPeers
<1>3. CASE \E c \in calls : AcceptAppendEntries(c)
  BY <1>3, AcceptPeers
<1>4. ASSUME UNCHANGED <<log, peerIds, cut, blocked>>,
             \A c \in calls' : c.phase = "req" => c \in calls
      PROVE  PeersInv'
  <2>1. \A k \in Nat, p \in Id : Placed(k, p)' => Placed(k, p)
    BY <1>4, NoNewRequests
  <2> QED
    BY <1>4, <2>1, QuietPeers
<1>5. CASE \E i \in Server : \E heard \in SUBSET Server : startElection(i, heard)
  BY <1>4, <1>5 DEF startElection, stopVars
<1>6. CASE \E i, p \in Server : SliceOutOfRange(i, p)
  BY <1>4, <1>6 DEF SliceOutOfRange
<1>7. CASE \E c \in calls : RefuseAppendEntries(c)
  BY <1>4, <1>7 DEF RefuseAppendEntries, Reply, stopVars
<1>8. CASE \E c \in calls : ReceiveReply(c) \/ CallFails(c)
  BY <1>4, <1>8 DEF ReceiveReply, ReceiveHigherTerm, ReceiveSuccess, ReceiveFailure, CallFails,
     stopVars
<1>9. CASE UNCHANGED vars
  BY <1>4, <1>9 DEF vars
<1>10. CASE \E n \in NodeId : \E i \in Contact[n] : UpdateNode(i, n)
  BY <1>10, UpdatePeers, JoinerAssumption
<1>11. CASE \E c \in calls : AddNodeExecutorBlocks(c)
  BY <1>11, BlocksPeers
<1> QED
  BY <1>1, <1>2, <1>3, <1>5, <1>6, <1>7, <1>8, <1>9, <1>10, <1>11 DEF Next, HandleAppendEntries

\* PeersInv: an AddServer entry has one index in all logs and requests, and a master
\* that was never cut, and is not blocked, has executed it once.
THEOREM PeersInvariance == Spec => []PeersInv
  BY IndInvariance, InitPeers, StepPeers, PTL DEF Spec

\* Every master named in a master's log is among its peers, however often the log has
\* been replaced (RegisterMaster, AddServerExecutor).
THEOREM LoggedPeers == Spec => []LoggedArePeers
<1>1. PeersInv => LoggedArePeers
  BY DEF PeersInv
<1> QED
  BY PeersInvariance, <1>1, PTL

\* A master that was never cut, and is not blocked, counts no master twice, so that a majority of its peer
\* list is a majority of masters (AddServerExecutor, called from AppendEntries).
THEOREM CountedOnceUncut == Spec => []TwiceOnlyAfterCut
<1>1. PeersInv => TwiceOnlyAfterCut
  <2> SUFFICES ASSUME PeersInv, NEW i \in Server \ (cut \cup blocked), NEW p \in Id PROVE peerIds[i][p] <= 1
    BY DEF TwiceOnlyAfterCut
  <2>1. peerIds[i][p] = 0 \/ peerIds[i][p] = 1
    BY DEF PeersInv, BuiltOnce
  <2> QED
    BY <2>1
<1> QED
  BY PeersInvariance, <1>1, PTL
=============================================================================
