--------------------------- MODULE RegistryProofs ---------------------------
(***************************************************************************)
(* Theorems about module Registry and the heap of module PQueue, for any   *)
(* number of nodes, handlers and ids.                                      *)
(*                                                                         *)
(* The loops of the heap are recursive functions.  For each of them a      *)
(* function that satisfies its equation exists (it is built up, the least  *)
(* index at which it could not be built giving a contradiction), and what  *)
(* the loop returns follows from the equation in the same way.             *)
(***************************************************************************)
EXTENDS Registry, SequenceTheorems, FiniteSetTheorems, NaturalsInduction,
        WellFoundedInduction, TLAPS

\* A non-empty set of naturals has a least element.
LEMMA NatMin ==
    ASSUME NEW T, T \subseteq Nat, T # {}
    PROVE  \E n \in T : \A m \in T : n <= m
<1> DEFINE R == OpToRel(<, Nat)
<1>1. IsWellFoundedOn(R, Nat)
  BY NatLessThanWellFounded, Zenon
<1>2. \A m, n \in Nat : m < n => <<m, n>> \in R
  BY DEF OpToRel
<1> HIDE DEF R
<1>3. PICK n \in T : \A m \in T : ~(<<m, n>> \in R)
  BY <1>1, WFMin, Zenon
<1>4. ASSUME NEW m \in T
      PROVE  n <= m
  <2>1. m \in Nat /\ n \in Nat
    OBVIOUS
  <2>2. ~(m < n)
    BY <1>2, <1>3, <2>1, Zenon
  <2> QED
    BY <2>1, <2>2
<1> QED
  BY <1>4

(***************************************************************************)
(* Arrays, positions and exchanges.                                        *)
(***************************************************************************)
LEMMA SwapType ==
    ASSUME NEW n \in Nat, NEW pri, NEW e \in Arrays(n, pri), NEW a \in 1 .. n, NEW b \in 1 .. n
    PROVE  /\ Swap(e, a, b) \in Arrays(n, pri)
           /\ Swap(e, a, b)[a] = e[b]
           /\ Swap(e, a, b)[b] = e[a]
           /\ \A i \in 1 .. n : i # a /\ i # b => Swap(e, a, b)[i] = e[i]
  BY DEF Swap, Arrays

LEMMA ArraysAreSeqs ==
    ASSUME NEW n \in Nat, NEW pri, NEW e \in Arrays(n, pri)
    PROVE  e \in Seq(DOMAIN pri) /\ Len(e) = n /\ DOMAIN e = 1 .. n
  BY DEF Arrays

LEMMA SeqsAreArrays ==
    ASSUME NEW pri, NEW e \in Seq(DOMAIN pri)
    PROVE  Len(e) \in Nat /\ e \in Arrays(Len(e), pri)
  BY DEF Arrays

LEMMA ParentIn == \A k \in Nat : k > 1 => parent(k) \in 1 .. (k - 1)
  BY DEF parent

(***************************************************************************)
(* up: one iteration, given the loop g from the parent on, and that g is   *)
(* the loop of SiftUp for the positions up to m of an array of length n.   *)
(***************************************************************************)
UpStep(g, k, pri, e) ==
    IF k > 1 /\ pri[e[parent(k)]] < pri[e[k]]
    THEN g[parent(k)][Swap(e, parent(k), k)]
    ELSE e

UpRuns(g, n, m, pri) ==
    \A k \in 1 .. m : \A e \in Arrays(n, pri) : g[k][e] = UpStep(g, k, pri, e)

\* There is such a loop: a parent comes before its children.
LEMMA UpExists ==
    ASSUME NEW n \in Nat, NEW pri
    PROVE  \E g : UpRuns(g, n, n, pri)
<1> DEFINE T == {m \in 0 .. n : ~\E g : UpRuns(g, n, m, pri)}
<1>1. SUFFICES T = {}
  <2>1. n \in 0 .. n
    OBVIOUS
  <2> QED
    BY <1>1, <2>1, Zenon
<1>2. SUFFICES ASSUME T # {} PROVE FALSE
  OBVIOUS
<1>3. PICK m \in T : \A i \in T : m <= i
  <2>1. T \subseteq Nat
    OBVIOUS
  <2> HIDE DEF T
  <2> QED
    BY <1>2, <2>1, NatMin
<1>4. m # 0
  <2>1. UpRuns(0, n, 0, pri)
    BY DEF UpRuns
  <2> QED
    BY <2>1
<1>5. PICK g : UpRuns(g, n, m - 1, pri)
  BY <1>3, <1>4
<1> DEFINE h == [k \in 1 .. n |->
                   IF k = m THEN [e \in Arrays(n, pri) |-> UpStep(g, m, pri, e)] ELSE g[k]]
<1>6. ASSUME NEW k \in 1 .. m, NEW e \in Arrays(n, pri)
      PROVE  h[k][e] = UpStep(h, k, pri, e)
  <2>1. ASSUME k > 1
        PROVE  h[parent(k)] = g[parent(k)]
    BY <2>1, ParentIn
  <2>2. UpStep(h, k, pri, e) = UpStep(g, k, pri, e)
    <3> HIDE DEF h
    <3> QED
      BY <2>1 DEF UpStep
  <2> QED
    BY <1>5, <2>2 DEF UpRuns
<1>7. UpRuns(h, n, m, pri)
  BY <1>6 DEF UpRuns
<1> QED
  BY <1>7

\* SiftUp is what that loop returns.
LEMMA SiftUpRuns ==
    ASSUME NEW d, NEW c, NEW pri, Len(d) \in Nat
    PROVE  \E g : UpRuns(g, Len(d), Len(d), pri) /\ SiftUp(d, c, pri) = g[c][d]
<1> DEFINE n == Len(d)
           B(g) == [k \in 1 .. n |-> [e \in Arrays(n, pri) |-> UpStep(g, k, pri, e)]]
           up == CHOOSE g : g = B(g)
<1>1. PICK g : UpRuns(g, n, n, pri)
  BY UpExists
<1> DEFINE f == [k \in 1 .. n |-> [e \in Arrays(n, pri) |-> g[k][e]]]
<1>2. ASSUME NEW k \in 1 .. n, NEW e \in Arrays(n, pri)
      PROVE  f[k][e] = UpStep(f, k, pri, e)
  <2>1. ASSUME k > 1
        PROVE  /\ parent(k) \in 1 .. n
               /\ Swap(e, parent(k), k) \in Arrays(n, pri)
    <3>1. parent(k) \in 1 .. n
      BY <2>1, ParentIn
    <3> HIDE DEF f
    <3> QED
      BY <3>1, SwapType
  <2>2. UpStep(f, k, pri, e) = UpStep(g, k, pri, e)
    BY <2>1 DEF UpStep
  <2> QED
    BY <1>1, <2>2 DEF UpRuns
<1>3. f = B(f)
  BY <1>2
<1>4. up = B(up)
  BY <1>3
<1>5. UpRuns(up, n, n, pri)
  <2> HIDE DEF up
  <2> QED
    BY <1>4 DEF UpRuns
<1>6. SiftUp(d, c, pri) = up[c][d]
  BY DEF SiftUp, UpStep
<1> QED
  BY <1>5, <1>6

(***************************************************************************)
(* e holds the items of d, and each once if d does.                        *)
(***************************************************************************)
Permuted(n, d, e) ==
    /\ \A i \in 1 .. n : \E j \in 1 .. n : e[i] = d[j]
    /\ \A j \in 1 .. n : \E i \in 1 .. n : e[i] = d[j]
    /\ (\A i, j \in 1 .. n : d[i] = d[j] => i = j) => (\A i, j \in 1 .. n : e[i] = e[j] => i = j)

LEMMA SwapPermutes ==
    ASSUME NEW n \in Nat, NEW pri, NEW e \in Arrays(n, pri), NEW a \in 1 .. n, NEW b \in 1 .. n
    PROVE  Permuted(n, e, Swap(e, a, b))
<1> DEFINE r == Swap(e, a, b)
<1>0. /\ r[a] = e[b] /\ r[b] = e[a]
      /\ \A i \in 1 .. n : i # a /\ i # b => r[i] = e[i]
  BY SwapType
<1> HIDE DEF r
<1>1. \A i \in 1 .. n : \E j \in 1 .. n : r[i] = e[j]
  BY <1>0
<1>2. \A j \in 1 .. n : \E i \in 1 .. n : r[i] = e[j]
  BY <1>0
<1>3. ASSUME \A i, j \in 1 .. n : e[i] = e[j] => i = j
      PROVE  \A i, j \in 1 .. n : r[i] = r[j] => i = j
  BY <1>0, <1>3
<1>4. Permuted(n, e, r)
  BY <1>1, <1>2, <1>3 DEF Permuted
<1> QED
  BY <1>4 DEF r

LEMMA PermutedTrans ==
    ASSUME NEW n, NEW a, NEW b, NEW c, Permuted(n, a, b), Permuted(n, b, c)
    PROVE  Permuted(n, a, c)
<1>1. ASSUME NEW i \in 1 .. n
      PROVE  \E j \in 1 .. n : c[i] = a[j]
  <2>1. PICK l \in 1 .. n : c[i] = b[l]
    BY DEF Permuted
  <2>2. PICK j \in 1 .. n : b[l] = a[j]
    BY DEF Permuted
  <2> QED
    BY <2>1, <2>2
<1>2. ASSUME NEW j \in 1 .. n
      PROVE  \E i \in 1 .. n : c[i] = a[j]
  <2>1. PICK l \in 1 .. n : b[l] = a[j]
    BY DEF Permuted
  <2>2. PICK i \in 1 .. n : c[i] = b[l]
    BY DEF Permuted
  <2> QED
    BY <2>1, <2>2
<1>3. (\A i, j \in 1 .. n : a[i] = a[j] => i = j) => (\A i, j \in 1 .. n : c[i] = c[j] => i = j)
  BY Zenon DEF Permuted
<1> QED
  BY <1>1, <1>2, <1>3 DEF Permuted

LEMMA PermutedRefl ==
    ASSUME NEW n, NEW a
    PROVE  Permuted(n, a, a)
  BY DEF Permuted

(***************************************************************************)
(* The invariant of up, with the item at k: all is in order but for k and  *)
(* its parent, and that parent is in order with the children of k.         *)
(***************************************************************************)
Priorities(pri) == \A x \in DOMAIN pri : pri[x] \in Int

UpInv(n, e, k, pri) ==
    /\ \A c \in 2 .. n : c # k => pri[e[parent(c)]] >= pri[e[c]]
    /\ k > 1 => \A c \in 2 .. n : parent(c) = k => pri[e[parent(k)]] >= pri[e[c]]

LEMMA UpInvStep ==
    ASSUME NEW n \in Nat, NEW pri, Priorities(pri), NEW e \in Arrays(n, pri),
           NEW k \in 2 .. n, UpInv(n, e, k, pri), pri[e[parent(k)]] < pri[e[k]]
    PROVE  UpInv(n, Swap(e, parent(k), k), parent(k), pri)
<1> DEFINE p == parent(k)
           r == Swap(e, p, k)
<1>1. /\ \A c \in 2 .. n : parent(c) \in 1 .. n /\ parent(c) < c
      /\ p \in 1 .. n /\ p < k
  BY ParentIn
<1>2. /\ r[p] = e[k] /\ r[k] = e[p]
      /\ \A i \in 1 .. n : i # p /\ i # k => r[i] = e[i]
  <2>1. p \in 1 .. n /\ k \in 1 .. n
    BY <1>1
  <2> HIDE DEF p
  <2> QED
    BY <2>1, SwapType
<1>3. \A i \in 1 .. n : pri[e[i]] \in Int
  BY DEF Arrays, Priorities
<1>4. /\ \A c \in 2 .. n : c # k => pri[e[parent(c)]] >= pri[e[c]]
      /\ \A c \in 2 .. n : parent(c) = k => pri[e[p]] >= pri[e[c]]
      /\ pri[e[p]] < pri[e[k]]
  BY DEF UpInv
<1> HIDE DEF r, p
<1>5. ASSUME NEW c \in 2 .. n, c # p
      PROVE  pri[r[parent(c)]] >= pri[r[c]]
  <2>1. CASE c = k
    BY <1>1, <1>2, <1>3, <1>4, <2>1 DEF p
  <2>2. CASE c # k /\ parent(c) = p
    BY <1>1, <1>2, <1>3, <1>4, <1>5, <2>2
  <2>3. CASE c # k /\ parent(c) = k
    BY <1>1, <1>2, <1>3, <1>4, <1>5, <2>3
  <2>4. CASE c # k /\ parent(c) # k /\ parent(c) # p
    BY <1>1, <1>2, <1>3, <1>4, <1>5, <2>4
  <2> QED
    BY <2>1, <2>2, <2>3, <2>4
<1>6. ASSUME p > 1, NEW c \in 2 .. n, parent(c) = p
      PROVE  pri[r[parent(p)]] >= pri[r[c]]
  <2>1. /\ p \in 2 .. n /\ parent(p) \in 1 .. n /\ parent(p) < p
        /\ r[parent(p)] = e[parent(p)] /\ pri[e[parent(p)]] >= pri[e[p]]
    BY <1>1, <1>2, <1>4, <1>6
  <2>2. CASE c = k
    BY <1>1, <1>2, <1>3, <2>1, <2>2
  <2>3. CASE c # k
    BY <1>1, <1>2, <1>3, <1>4, <1>6, <2>1, <2>3
  <2> QED
    BY <2>2, <2>3
<1>7. UpInv(n, r, p, pri)
  BY <1>5, <1>6 DEF UpInv
<1> QED
  BY <1>7 DEF r, p

\* up loses no item and leaves the array in order if its invariant held.
LEMMA UpResult ==
    ASSUME NEW n \in Nat, NEW pri, Priorities(pri), NEW g, UpRuns(g, n, n, pri),
           NEW k \in 1 .. n, NEW e \in Arrays(n, pri)
    PROVE  /\ g[k][e] \in Arrays(n, pri)
           /\ Permuted(n, e, g[k][e])
           /\ UpInv(n, e, k, pri) => HeapOrdered(g[k][e], pri)
<1> DEFINE Right(i) == \A x \in Arrays(n, pri) :
                          /\ g[i][x] \in Arrays(n, pri)
                          /\ Permuted(n, x, g[i][x])
                          /\ UpInv(n, x, i, pri) => HeapOrdered(g[i][x], pri)
           T == {i \in 1 .. n : ~Right(i)}
<1> SUFFICES T = {}
  OBVIOUS
<1>1. SUFFICES ASSUME T # {} PROVE FALSE
  OBVIOUS
<1>2. PICK i \in T : \A j \in T : i <= j
  <2>1. T \subseteq Nat
    OBVIOUS
  <2> HIDE DEF T
  <2> QED
    BY <1>1, <2>1, NatMin
<1>3. i \in 1 .. n /\ ~Right(i) /\ \A j \in 1 .. (i - 1) : Right(j)
  <2> HIDE DEF Right
  <2> QED
    BY <1>2
<1> HIDE DEF T
<1>4. ASSUME NEW x \in Arrays(n, pri)
      PROVE  /\ g[i][x] \in Arrays(n, pri)
             /\ Permuted(n, x, g[i][x])
             /\ UpInv(n, x, i, pri) => HeapOrdered(g[i][x], pri)
  <2>1. g[i][x] = UpStep(g, i, pri, x)
    BY <1>3 DEF UpRuns
  <2>2. CASE i > 1 /\ pri[x[parent(i)]] < pri[x[i]]
    <3> DEFINE y == Swap(x, parent(i), i)
    <3>1. parent(i) \in 1 .. (i - 1)
      BY <1>3, <2>2, ParentIn
    <3>2. y \in Arrays(n, pri) /\ Permuted(n, x, y)
      BY <1>3, <3>1, SwapType, SwapPermutes
    <3>3. UpInv(n, x, i, pri) => UpInv(n, y, parent(i), pri)
      BY <1>3, <2>2, UpInvStep
    <3>4. g[i][x] = g[parent(i)][y]
      BY <2>1, <2>2 DEF UpStep
    <3> HIDE DEF y
    <3>5. /\ g[parent(i)][y] \in Arrays(n, pri)
          /\ Permuted(n, y, g[parent(i)][y])
          /\ UpInv(n, y, parent(i), pri) => HeapOrdered(g[parent(i)][y], pri)
      BY <1>3, <3>1, <3>2
    <3> QED
      BY <3>2, <3>3, <3>4, <3>5, PermutedTrans
  <2>3. CASE ~(i > 1 /\ pri[x[parent(i)]] < pri[x[i]])
    <3>1. g[i][x] = x
      BY <2>1, <2>3 DEF UpStep
    <3>2. \A j \in 1 .. n : pri[x[j]] \in Int
      BY DEF Arrays, Priorities
    <3>3. UpInv(n, x, i, pri) => HeapOrdered(x, pri)
      <4>1. Len(x) = n
        BY ArraysAreSeqs
      <4>2. \A c \in 2 .. n : parent(c) \in 1 .. n
        BY ParentIn
      <4> QED
        BY <1>3, <2>3, <3>2, <4>1, <4>2 DEF UpInv, HeapOrdered
    <3> QED
      BY <3>1, <3>3, PermutedRefl
  <2> QED
    BY <2>2, <2>3
<1> QED
  BY <1>3, <1>4

\* down goes to a child, and to one no other child is above.
LEMMA HigherChildIn ==
    ASSUME NEW n \in Nat, NEW pri, Priorities(pri), NEW e \in Arrays(n, pri),
           NEW k \in 1 .. n, lChild(k) <= n
    PROVE  LET h == HigherChild(e, k, pri) IN
           /\ h \in (k + 1) .. n /\ parent(h) = k
           /\ \A c \in 2 .. n : parent(c) = k => pri[e[h]] >= pri[e[c]]
<1>1. Len(e) = n
  BY ArraysAreSeqs
<1>2. \A i \in 1 .. n : pri[e[i]] \in Int
  BY DEF Arrays, Priorities
<1>3. \A c \in 2 .. n : parent(c) = k => c = lChild(k) \/ c = rChild(k)
  BY DEF parent, lChild, rChild
<1>4. /\ lChild(k) \in (k + 1) .. n /\ parent(lChild(k)) = k
      /\ rChild(k) \in Nat /\ rChild(k) > k /\ parent(rChild(k)) = k
  BY DEF parent, lChild, rChild
<1> QED
  BY <1>1, <1>2, <1>3, <1>4 DEF HigherChild

(***************************************************************************)
(* down: one iteration, given the loop g from the children on, and that g  *)
(* is the loop of SiftDown for the positions from m.                       *)
(***************************************************************************)
DownStep(g, n, k, pri, e) ==
    IF lChild(k) <= n /\ pri[e[k]] < pri[e[HigherChild(e, k, pri)]]
    THEN g[HigherChild(e, k, pri)][Swap(e, k, HigherChild(e, k, pri))]
    ELSE e

DownRuns(g, n, m, pri) ==
    \A k \in m .. n : \A e \in Arrays(n, pri) : g[k][e] = DownStep(g, n, k, pri, e)

\* There is such a loop: children come after their parent.
LEMMA DownExists ==
    ASSUME NEW n \in Nat, NEW pri, Priorities(pri)
    PROVE  \E g : DownRuns(g, n, 1, pri)
<1> DEFINE T == {m \in 0 .. n : ~\E g : DownRuns(g, n, n + 1 - m, pri)}
<1>1. SUFFICES T = {}
  <2>1. n \in 0 .. n /\ n + 1 - n = 1
    OBVIOUS
  <2> QED
    BY <1>1, <2>1
<1>2. SUFFICES ASSUME T # {} PROVE FALSE
  OBVIOUS
<1>3. PICK m \in T : \A i \in T : m <= i
  <2>1. T \subseteq Nat
    OBVIOUS
  <2> HIDE DEF T
  <2> QED
    BY <1>2, <2>1, NatMin
<1>4. m # 0
  <2>1. DownRuns(0, n, n + 1 - 0, pri)
    BY DEF DownRuns
  <2> QED
    BY <2>1
<1> DEFINE l == n + 1 - m
<1>5. PICK g : DownRuns(g, n, l + 1, pri)
  <2>1. m - 1 \in 0 .. n /\ n + 1 - (m - 1) = l + 1
    BY <1>4
  <2>2. ~(m <= m - 1)
    OBVIOUS
  <2> QED
    BY <1>3, <2>1, <2>2
<1>6. l \in 1 .. n
  BY <1>4
<1> HIDE DEF l
<1> DEFINE f == [k \in 1 .. n |->
                   IF k = l THEN [e \in Arrays(n, pri) |-> DownStep(g, n, l, pri, e)] ELSE g[k]]
<1>7. ASSUME NEW k \in l .. n, NEW e \in Arrays(n, pri)
      PROVE  f[k][e] = DownStep(f, n, k, pri, e)
  <2> DEFINE h == HigherChild(e, k, pri)
  <2>1. ASSUME lChild(k) <= n
        PROVE  f[h] = g[h]
    <3>1. h \in (k + 1) .. n
      BY <1>6, <2>1, HigherChildIn
    <3> HIDE DEF h
    <3> QED
      BY <1>6, <3>1
  <2>2. DownStep(f, n, k, pri, e) = DownStep(g, n, k, pri, e)
    <3> HIDE DEF f
    <3> QED
      BY <2>1 DEF DownStep
  <2>3. k = l \/ k \in (l + 1) .. n
    BY <1>6
  <2> QED
    BY <1>5, <1>6, <2>2, <2>3 DEF DownRuns
<1>8. DownRuns(f, n, l, pri)
  BY <1>7 DEF DownRuns
<1> QED
  BY <1>8 DEF l

\* SiftDown is what that loop returns.
LEMMA SiftDownRuns ==
    ASSUME NEW d, NEW c, NEW pri, Priorities(pri), Len(d) \in Nat
    PROVE  \E g : DownRuns(g, Len(d), 1, pri) /\ SiftDown(d, c, pri) = g[c][d]
<1> DEFINE n == Len(d)
           B(g) == [k \in 1 .. n |-> [e \in Arrays(n, pri) |-> DownStep(g, n, k, pri, e)]]
           down == CHOOSE g : g = B(g)
<1>1. PICK g : DownRuns(g, n, 1, pri)
  BY DownExists
<1> DEFINE f == [k \in 1 .. n |-> [e \in Arrays(n, pri) |-> g[k][e]]]
<1>2. ASSUME NEW k \in 1 .. n, NEW e \in Arrays(n, pri)
      PROVE  f[k][e] = DownStep(f, n, k, pri, e)
  <2> DEFINE h == HigherChild(e, k, pri)
  <2>1. ASSUME lChild(k) <= n
        PROVE  h \in 1 .. n /\ Swap(e, k, h) \in Arrays(n, pri)
    <3>1. h \in (k + 1) .. n
      BY <2>1, HigherChildIn
    <3>2. h \in 1 .. n
      BY <3>1
    <3> HIDE DEF f, h
    <3> QED
      BY <3>2, SwapType
  <2>2. DownStep(f, n, k, pri, e) = DownStep(g, n, k, pri, e)
    BY <2>1 DEF DownStep
  <2> QED
    BY <1>1, <2>2 DEF DownRuns
<1>3. f = B(f)
  BY <1>2
<1>4. down = B(down)
  BY <1>3
<1>5. DownRuns(down, n, 1, pri)
  <2> HIDE DEF down
  <2> QED
    BY <1>4 DEF DownRuns
<1>6. SiftDown(d, c, pri) = down[c][d]
  BY DEF SiftDown, DownStep
<1> QED
  BY <1>5, <1>6

(***************************************************************************)
(* The invariant of down, with the item at k: all is in order but for k    *)
(* and its children, and those are in order with the parent of k.          *)
(***************************************************************************)
DownInv(n, e, k, pri) ==
    /\ \A c \in 2 .. n : parent(c) # k => pri[e[parent(c)]] >= pri[e[c]]
    /\ k > 1 => \A c \in 2 .. n : parent(c) = k => pri[e[parent(k)]] >= pri[e[c]]

LEMMA DownInvStep ==
    ASSUME NEW n \in Nat, NEW pri, Priorities(pri), NEW e \in Arrays(n, pri),
           NEW k \in 1 .. n, NEW h \in (k + 1) .. n, parent(h) = k,
           \A c \in 2 .. n : parent(c) = k => pri[e[h]] >= pri[e[c]],
           DownInv(n, e, k, pri), pri[e[k]] < pri[e[h]]
    PROVE  DownInv(n, Swap(e, k, h), h, pri)
<1> DEFINE r == Swap(e, k, h)
<1>1. /\ \A c \in 2 .. n : parent(c) \in 1 .. n /\ parent(c) < c
      /\ h \in 2 .. n /\ k < h
  BY ParentIn
<1>2. /\ r[k] = e[h] /\ r[h] = e[k]
      /\ \A i \in 1 .. n : i # k /\ i # h => r[i] = e[i]
  <2>1. h \in 1 .. n
    BY <1>1
  <2> QED
    BY <2>1, SwapType
<1>3. \A i \in 1 .. n : pri[e[i]] \in Int
  BY DEF Arrays, Priorities
<1>4. /\ \A c \in 2 .. n : parent(c) # k => pri[e[parent(c)]] >= pri[e[c]]
      /\ k > 1 => \A c \in 2 .. n : parent(c) = k => pri[e[parent(k)]] >= pri[e[c]]
  BY DEF DownInv
<1> HIDE DEF r
<1>5. ASSUME NEW c \in 2 .. n, parent(c) # h
      PROVE  pri[r[parent(c)]] >= pri[r[c]]
  <2>1. CASE c = h
    BY <1>1, <1>2, <1>3, <2>1
  <2>2. CASE c # h /\ parent(c) = k
    <3>1. r[parent(c)] = e[h] /\ r[c] = e[c]
      BY <1>1, <1>2, <2>2
    <3> QED
      BY <3>1, <2>2
  <2>3. CASE c = k
    <3>1. r[parent(c)] = e[parent(c)] /\ r[c] = e[h] /\ k > 1
      BY <1>1, <1>2, <1>5, <2>3
    <3> QED
      BY <1>1, <1>4, <2>3, <3>1
  <2>4. CASE c # k /\ c # h /\ parent(c) # k
    BY <1>1, <1>2, <1>4, <1>5, <2>4
  <2> QED
    BY <2>1, <2>2, <2>3, <2>4
<1>6. ASSUME NEW c \in 2 .. n, parent(c) = h
      PROVE  pri[r[parent(h)]] >= pri[r[c]]
  <2>1. r[parent(h)] = e[h] /\ r[c] = e[c]
    BY <1>1, <1>2, <1>6
  <2> QED
    BY <1>1, <1>4, <1>6, <2>1
<1>7. DownInv(n, r, h, pri)
  BY <1>5, <1>6 DEF DownInv
<1> QED
  BY <1>7 DEF r

\* down loses no item and leaves the array in order if its invariant held.
LEMMA DownResult ==
    ASSUME NEW n \in Nat, NEW pri, Priorities(pri), NEW g, DownRuns(g, n, 1, pri),
           NEW k \in 1 .. n, NEW e \in Arrays(n, pri)
    PROVE  /\ g[k][e] \in Arrays(n, pri)
           /\ Permuted(n, e, g[k][e])
           /\ DownInv(n, e, k, pri) => HeapOrdered(g[k][e], pri)
<1> DEFINE Right(i) == \A x \in Arrays(n, pri) :
                          /\ g[i][x] \in Arrays(n, pri)
                          /\ Permuted(n, x, g[i][x])
                          /\ DownInv(n, x, i, pri) => HeapOrdered(g[i][x], pri)
           T == {i \in 0 .. (n - 1) : ~Right(n - i)}
<1> SUFFICES T = {}
  <2>1. n - k \in 0 .. (n - 1) /\ n - (n - k) = k
    OBVIOUS
  <2>2. Right(n - (n - k))
    <3> HIDE DEF Right
    <3> QED
      BY <2>1
  <2> QED
    BY <2>1, <2>2
<1>1. SUFFICES ASSUME T # {} PROVE FALSE
  OBVIOUS
<1>2. PICK l \in T : \A j \in T : l <= j
  <2>1. T \subseteq Nat
    OBVIOUS
  <2> HIDE DEF T
  <2> QED
    BY <1>1, <2>1, NatMin
<1> DEFINE i == n - l
<1>3. i \in 1 .. n /\ ~Right(i) /\ \A j \in (i + 1) .. n : Right(j)
  <2> HIDE DEF Right
  <2>1. i \in 1 .. n /\ ~Right(i)
    BY <1>2
  <2>2. ASSUME NEW j \in (i + 1) .. n
        PROVE  Right(j)
    <3>1. n - j \in 0 .. (n - 1) /\ ~(l <= n - j) /\ n - (n - j) = j
      BY <1>2
    <3>2. Right(n - (n - j))
      BY <1>2, <3>1
    <3> QED
      BY <3>1, <3>2
  <2> QED
    BY <2>1, <2>2
<1> HIDE DEF T, i
<1>4. ASSUME NEW x \in Arrays(n, pri)
      PROVE  /\ g[i][x] \in Arrays(n, pri)
             /\ Permuted(n, x, g[i][x])
             /\ DownInv(n, x, i, pri) => HeapOrdered(g[i][x], pri)
  <2> DEFINE h == HigherChild(x, i, pri)
  <2>1. g[i][x] = DownStep(g, n, i, pri, x)
    BY <1>3 DEF DownRuns
  <2>2. CASE lChild(i) <= n /\ pri[x[i]] < pri[x[h]]
    <3> DEFINE y == Swap(x, i, h)
    <3>1. /\ h \in (i + 1) .. n /\ parent(h) = i
          /\ \A c \in 2 .. n : parent(c) = i => pri[x[h]] >= pri[x[c]]
      BY <1>3, <2>2, HigherChildIn
    <3>4. g[i][x] = g[h][y]
      BY <2>1, <2>2 DEF DownStep
    <3>a. pri[x[i]] < pri[x[h]]
      BY <2>2
    <3> HIDE DEF h
    <3>2. y \in Arrays(n, pri) /\ Permuted(n, x, y)
      <4>1. h \in 1 .. n
        BY <1>3, <3>1
      <4> QED
        BY <1>3, <4>1, SwapType, SwapPermutes
    <3>3. DownInv(n, x, i, pri) => DownInv(n, y, h, pri)
      BY <1>3, <3>1, <3>a, DownInvStep
    <3> HIDE DEF y
    <3>5. /\ g[h][y] \in Arrays(n, pri)
          /\ Permuted(n, y, g[h][y])
          /\ DownInv(n, y, h, pri) => HeapOrdered(g[h][y], pri)
      BY <1>3, <3>1, <3>2
    <3> QED
      BY <3>2, <3>3, <3>4, <3>5, PermutedTrans
  <2>3. CASE ~(lChild(i) <= n /\ pri[x[i]] < pri[x[h]])
    <3>1. g[i][x] = x
      BY <2>1, <2>3 DEF DownStep
    <3>2. \A j \in 1 .. n : pri[x[j]] \in Int
      BY DEF Arrays, Priorities
    <3>3. ASSUME NEW c \in 2 .. n, parent(c) = i
          PROVE  pri[x[i]] >= pri[x[c]]
      <4>1. lChild(i) <= n
        BY <1>3, <3>3 DEF parent, lChild
      <4>2. h \in (i + 1) .. n /\ pri[x[h]] >= pri[x[c]]
        BY <1>3, <3>3, <4>1, HigherChildIn
      <4>3. ~(pri[x[i]] < pri[x[h]])
        BY <2>3, <4>1
      <4> HIDE DEF h
      <4> QED
        BY <1>3, <3>2, <4>2, <4>3
    <3>4. DownInv(n, x, i, pri) => HeapOrdered(x, pri)
      <4>1. Len(x) = n
        BY ArraysAreSeqs
      <4> QED
        BY <3>3, <4>1 DEF DownInv, HeapOrdered
    <3> QED
      BY <3>1, <3>4, PermutedRefl
  <2> QED
    BY <2>2, <2>3
<1> QED
  BY <1>3, <1>4

(***************************************************************************)
(* Push adds its item, Pop takes the root out, and both keep the order,    *)
(* which puts an item of highest priority at the root.                     *)
(***************************************************************************)
LEMMA PushResult ==
    ASSUME NEW pri, Priorities(pri), NEW d \in Seq(DOMAIN pri), NEW x \in DOMAIN pri
    PROVE  /\ Push(d, x, pri) \in Arrays(Len(d) + 1, pri)
           /\ Permuted(Len(d) + 1, Append(d, x), Push(d, x, pri))
           /\ HeapOrdered(d, pri) => HeapOrdered(Push(d, x, pri), pri)
<1> DEFINE e == Append(d, x)
           n == Len(d) + 1
<1>1. /\ n \in Nat /\ Len(e) = n /\ n \in 1 .. n /\ e \in Arrays(n, pri)
      /\ \A i \in 1 .. (n - 1) : e[i] = d[i]
  <2>1. /\ e \in Seq(DOMAIN pri) /\ Len(e) = Len(d) + 1
        /\ \A i \in 1 .. Len(d) : e[i] = d[i]
    BY AppendProperties
  <2>2. Len(d) \in Nat
    BY LenProperties
  <2>3. e \in Arrays(n, pri)
    <3> HIDE DEF e
    <3> QED
      BY <2>1, SeqsAreArrays
  <2> HIDE DEF e
  <2> QED
    BY <2>1, <2>2, <2>3
<1>2. HeapOrdered(d, pri) => UpInv(n, e, n, pri)
  <2>1. \A c \in 2 .. n : parent(c) \in 1 .. (n - 1)
    BY <1>1, ParentIn
  <2> HIDE DEF e
  <2> QED
    BY <1>1, <2>1 DEF UpInv, HeapOrdered
<1> HIDE DEF e, n
<1>3. PICK g : UpRuns(g, n, n, pri) /\ SiftUp(e, n, pri) = g[n][e]
  BY <1>1, SiftUpRuns
<1>4. Push(d, x, pri) = g[n][e]
  BY <1>3 DEF Push, e, n
<1>5. /\ g[n][e] \in Arrays(n, pri)
      /\ Permuted(n, e, g[n][e])
      /\ UpInv(n, e, n, pri) => HeapOrdered(g[n][e], pri)
  BY <1>1, <1>3, UpResult
<1> QED
  BY <1>2, <1>4, <1>5 DEF e, n

LEMMA PopResult ==
    ASSUME NEW n \in Nat \ {0}, NEW pri, Priorities(pri), NEW d \in Arrays(n, pri)
    PROVE  /\ Pop(d, pri) \in Arrays(n - 1, pri)
           /\ \A i \in 1 .. (n - 1) : \E j \in 2 .. n : Pop(d, pri)[i] = d[j]
           /\ \A j \in 2 .. n : \E i \in 1 .. (n - 1) : Pop(d, pri)[i] = d[j]
           /\ HeapOrdered(d, pri) => HeapOrdered(Pop(d, pri), pri)
<1>1. Len(d) = n /\ d \in Seq(DOMAIN pri)
  BY ArraysAreSeqs
<1>2. CASE n = 1
  <2>1. Pop(d, pri) = << >>
    BY <1>1, <1>2 DEF Pop
  <2>2. << >> \in Arrays(0, pri)
    BY DEF Arrays
  <2> QED
    BY <1>2, <2>1, <2>2 DEF HeapOrdered
<1>3. CASE n > 1
  <2> DEFINE e == [SubSeq(d, 1, n - 1) EXCEPT ![1] = d[n]]
             m == n - 1
  <2>1. /\ m \in Nat /\ e \in Arrays(m, pri) /\ e[1] = d[n]
        /\ \A i \in 2 .. m : e[i] = d[i]
    <3> DEFINE u == SubSeq(d, 1, n - 1)
    <3>1. /\ u \in Seq(DOMAIN pri) /\ Len(u) = n - 1
          /\ \A i \in 1 .. (n - 1) : u[i] = d[i]
      BY <1>1, <1>3
    <3>2. u \in Arrays(n - 1, pri)
      BY <3>1, SeqsAreArrays
    <3>3. d[n] \in DOMAIN pri
      BY DEF Arrays
    <3> HIDE DEF u
    <3>4. [u EXCEPT ![1] = d[n]] \in Arrays(n - 1, pri)
      BY <1>3, <3>2, <3>3 DEF Arrays
    <3>5. /\ [u EXCEPT ![1] = d[n]][1] = d[n]
          /\ \A i \in 2 .. (n - 1) : [u EXCEPT ![1] = d[n]][i] = d[i]
      BY <1>3, <3>1, <3>2, <3>3 DEF Arrays
    <3> QED
      BY <1>3, <3>4, <3>5 DEF u
  <2>2. Pop(d, pri) = SiftDown(e, 1, pri)
    BY <1>1, <1>3 DEF Pop
  <2>3. HeapOrdered(d, pri) => DownInv(m, e, 1, pri)
    <3>1. \A c \in 2 .. m : parent(c) # 1 => parent(c) \in 2 .. m
      BY <1>3, ParentIn
    <3> HIDE DEF e
    <3> QED
      BY <1>1, <1>3, <2>1, <3>1 DEF DownInv, HeapOrdered
  <2> HIDE DEF e
  <2>4. Len(e) = m
    BY <2>1, ArraysAreSeqs
  <2>5. PICK g : DownRuns(g, m, 1, pri) /\ SiftDown(e, 1, pri) = g[1][e]
    <3>1. Len(e) \in Nat
      BY <2>1, <2>4
    <3>2. \E g : DownRuns(g, Len(e), 1, pri) /\ SiftDown(e, 1, pri) = g[1][e]
      BY <3>1, SiftDownRuns
    <3> QED
      BY <2>4, <3>2
  <2>6. /\ g[1][e] \in Arrays(m, pri)
        /\ Permuted(m, e, g[1][e])
        /\ DownInv(m, e, 1, pri) => HeapOrdered(g[1][e], pri)
    <3>1. 1 \in 1 .. m
      BY <1>3
    <3> HIDE DEF m
    <3> QED
      BY <2>1, <2>5, <3>1, DownResult
  <2> DEFINE r == g[1][e]
  <2>7. Pop(d, pri) = r
    BY <2>2, <2>5
  <2> HIDE DEF r
  <2>8. ASSUME NEW i \in 1 .. m
        PROVE  \E j \in 2 .. n : r[i] = d[j]
    <3>1. PICK l \in 1 .. m : r[i] = e[l]
      BY <2>6 DEF Permuted, r
    <3>2. CASE l = 1
      BY <1>3, <2>1, <3>1, <3>2
    <3>3. CASE l # 1
      BY <1>3, <2>1, <3>1, <3>3
    <3> QED
      BY <3>2, <3>3
  <2>9. ASSUME NEW j \in 2 .. n
        PROVE  \E i \in 1 .. m : r[i] = d[j]
    <3>1. PICK l \in 1 .. m : e[l] = d[j]
      <4>1. CASE j = n
        BY <1>3, <2>1, <4>1
      <4>2. CASE j # n
        BY <1>3, <2>1, <4>2
      <4> QED
        BY <4>1, <4>2
    <3> QED
      BY <2>6, <3>1 DEF Permuted, r
  <2> QED
    BY <2>3, <2>6, <2>7, <2>8, <2>9 DEF r
<1> QED
  BY <1>2, <1>3

LEMMA RootIsMost ==
    ASSUME NEW n \in Nat, NEW pri, Priorities(pri), NEW d \in Arrays(n, pri),
           HeapOrdered(d, pri), NEW i \in 1 .. n
    PROVE  pri[d[1]] >= pri[d[i]]
<1> DEFINE T == {j \in 1 .. n : ~(pri[d[1]] >= pri[d[j]])}
<1> SUFFICES ASSUME T # {} PROVE FALSE
  OBVIOUS
<1>1. PICK j \in T : \A l \in T : j <= l
  <2>1. T \subseteq Nat
    OBVIOUS
  <2> HIDE DEF T
  <2> QED
    BY <2>1, NatMin
<1>2. \A l \in 1 .. n : pri[d[l]] \in Int
  BY DEF Arrays, Priorities
<1>3. Len(d) = n
  BY ArraysAreSeqs
<1>4. j \in 2 .. n /\ parent(j) \in 1 .. n /\ parent(j) < j
  <2>1. j # 1
    BY <1>1, <1>2
  <2> QED
    BY <1>1, <2>1, ParentIn
<1>5. pri[d[1]] >= pri[d[parent(j)]]
  BY <1>1, <1>4
<1>6. pri[d[parent(j)]] >= pri[d[j]]
  BY <1>3, <1>4 DEF HeapOrdered
<1> QED
  BY <1>1, <1>2, <1>4, <1>5, <1>6

(***************************************************************************)
(* Drained: one Pop, given what the rest gives, and the whole of it.       *)
(***************************************************************************)
DrainStep(g, n, pri, e) ==
    IF n = 0 THEN << >> ELSE <<e[1]>> \o g[n - 1][Pop(e, pri)]

DrainRuns(g, m, pri) ==
    \A n \in 0 .. m : \A e \in Arrays(n, pri) : g[n][e] = DrainStep(g, n, pri, e)

LEMMA DrainExists ==
    ASSUME NEW n \in Nat, NEW pri
    PROVE  \E g : DrainRuns(g, n, pri)
<1> DEFINE T == {m \in 0 .. n : ~\E g : DrainRuns(g, m, pri)}
<1>1. SUFFICES T = {}
  <2>1. n \in 0 .. n
    OBVIOUS
  <2> QED
    BY <1>1, <2>1, Zenon
<1>2. SUFFICES ASSUME T # {} PROVE FALSE
  OBVIOUS
<1>3. PICK m \in T : \A i \in T : m <= i
  <2>1. T \subseteq Nat
    OBVIOUS
  <2> HIDE DEF T
  <2> QED
    BY <1>2, <2>1, NatMin
<1>4. \E g : m # 0 => DrainRuns(g, m - 1, pri)
  BY <1>3
<1>5. PICK g : m # 0 => DrainRuns(g, m - 1, pri)
  BY <1>4
<1> DEFINE f == [k \in 0 .. n |->
                   IF k = m THEN [e \in Arrays(m, pri) |-> DrainStep(g, m, pri, e)] ELSE g[k]]
<1>6. ASSUME NEW k \in 0 .. m, NEW e \in Arrays(k, pri)
      PROVE  f[k][e] = DrainStep(f, k, pri, e)
  <2>1. ASSUME k # 0
        PROVE  f[k - 1] = g[k - 1]
    BY <2>1
  <2>2. DrainStep(f, k, pri, e) = DrainStep(g, k, pri, e)
    <3> HIDE DEF f
    <3> QED
      BY <2>1 DEF DrainStep
  <2> QED
    BY <1>5, <2>2 DEF DrainRuns
<1>7. DrainRuns(f, m, pri)
  BY <1>6 DEF DrainRuns
<1> QED
  BY <1>7

LEMMA DrainedRuns ==
    ASSUME NEW d, NEW pri, Priorities(pri), Len(d) \in Nat
    PROVE  \E g : DrainRuns(g, Len(d), pri) /\ Drained(d, pri) = g[Len(d)][d]
<1> DEFINE n == Len(d)
           B(g) == [k \in 0 .. n |-> [e \in Arrays(k, pri) |-> DrainStep(g, k, pri, e)]]
           drain == CHOOSE g : g = B(g)
<1>1. PICK g : DrainRuns(g, n, pri)
  BY DrainExists
<1> DEFINE f == [k \in 0 .. n |-> [e \in Arrays(k, pri) |-> g[k][e]]]
<1>2. ASSUME NEW k \in 0 .. n, NEW e \in Arrays(k, pri)
      PROVE  f[k][e] = DrainStep(f, k, pri, e)
  <2>1. ASSUME k # 0
        PROVE  k - 1 \in 0 .. n /\ Pop(e, pri) \in Arrays(k - 1, pri)
    BY <2>1, PopResult
  <2>2. DrainStep(f, k, pri, e) = DrainStep(g, k, pri, e)
    BY <2>1 DEF DrainStep
  <2> QED
    BY <1>1, <2>2 DEF DrainRuns
<1>3. f = B(f)
  BY <1>2
<1>4. drain = B(drain)
  BY <1>3
<1>5. DrainRuns(drain, n, pri)
  <2> HIDE DEF drain
  <2> QED
    BY <1>4 DEF DrainRuns
<1>6. Drained(d, pri) = drain[n][d]
  BY DEF Drained, DrainStep
<1> QED
  BY <1>5, <1>6

\* r holds the items of e by descending priority.
InOrder(r, n, e, pri) ==
    /\ r \in Arrays(n, pri)
    /\ \A i \in 1 .. n : \E j \in 1 .. n : r[i] = e[j]
    /\ \A j \in 1 .. n : \E i \in 1 .. n : r[i] = e[j]
    /\ \A i, j \in 1 .. n : i < j => pri[r[i]] >= pri[r[j]]

LEMMA DrainResult ==
    ASSUME NEW m \in Nat, NEW pri, Priorities(pri), NEW g, DrainRuns(g, m, pri),
           NEW e \in Arrays(m, pri), HeapOrdered(e, pri)
    PROVE  InOrder(g[m][e], m, e, pri)
<1> DEFINE Right(n) == \A x \in Arrays(n, pri) : HeapOrdered(x, pri) => InOrder(g[n][x], n, x, pri)
           T == {n \in 0 .. m : ~Right(n)}
<1> SUFFICES T = {}
  OBVIOUS
<1>1. SUFFICES ASSUME T # {} PROVE FALSE
  OBVIOUS
<1>2. PICK n \in T : \A j \in T : n <= j
  <2>1. T \subseteq Nat
    OBVIOUS
  <2> HIDE DEF T
  <2> QED
    BY <1>1, <2>1, NatMin
<1>3. n \in 0 .. m /\ ~Right(n) /\ (n # 0 => Right(n - 1))
  <2> HIDE DEF Right
  <2> QED
    BY <1>2
<1> HIDE DEF T
<1>4. ASSUME NEW x \in Arrays(n, pri), HeapOrdered(x, pri)
      PROVE  InOrder(g[n][x], n, x, pri)
  <2>1. g[n][x] = DrainStep(g, n, pri, x)
    BY <1>3 DEF DrainRuns
  <2>2. CASE n = 0
    <3>1. g[n][x] = << >>
      BY <2>1, <2>2 DEF DrainStep
    <3>2. << >> \in Arrays(0, pri)
      BY DEF Arrays
    <3> QED
      BY <2>2, <3>1, <3>2 DEF InOrder
  <2>3. CASE n # 0
    <3> DEFINE q == Pop(x, pri)
               t == g[n - 1][q]
               r == g[n][x]
    <3>1. /\ n \in Nat \ {0} /\ 1 \in 1 .. n
      BY <1>3, <2>3
    <3>2. /\ q \in Arrays(n - 1, pri) /\ HeapOrdered(q, pri)
          /\ \A i \in 1 .. (n - 1) : \E j \in 2 .. n : q[i] = x[j]
          /\ \A j \in 2 .. n : \E i \in 1 .. (n - 1) : q[i] = x[j]
      BY <1>4, <3>1, PopResult
    <3>3. r = <<x[1]>> \o t
      BY <2>1, <2>3 DEF DrainStep
    <3> HIDE DEF q
    <3>4. InOrder(t, n - 1, q, pri)
      BY <1>3, <2>3, <3>2
    <3>5. \A i \in 1 .. n : pri[x[1]] >= pri[x[i]]
      BY <1>4, <3>1, RootIsMost
    <3> HIDE DEF r, t
    <3>6. /\ r \in Arrays(n, pri) /\ r[1] = x[1]
          /\ \A i \in 2 .. n : r[i] = t[i - 1]
      <4>1. t \in Seq(DOMAIN pri) /\ Len(t) = n - 1
        BY <3>1, <3>4, ArraysAreSeqs DEF InOrder
      <4>2. x[1] \in DOMAIN pri
        BY <3>1 DEF Arrays
      <4>3. <<x[1]>> \in Seq(DOMAIN pri) /\ Len(<<x[1]>>) = 1 /\ <<x[1]>>[1] = x[1]
        BY <4>2
      <4>4. /\ r \in Seq(DOMAIN pri) /\ Len(r) = n
            /\ \A i \in 1 .. n : r[i] = IF i <= 1 THEN <<x[1]>>[i] ELSE t[i - 1]
        BY <3>1, <3>3, <4>1, <4>3, ConcatProperties
      <4>5. r \in Arrays(n, pri)
        BY <4>4, SeqsAreArrays
      <4> QED
        BY <3>1, <4>3, <4>4, <4>5
    <3>7. ASSUME NEW i \in 2 .. n
          PROVE  \E j \in 2 .. n : r[i] = x[j]
      <4>1. PICK l \in 1 .. (n - 1) : t[i - 1] = q[l]
        <5>1. i - 1 \in 1 .. (n - 1)
          BY <3>1
        <5> QED
          BY <3>4, <5>1 DEF InOrder
      <4>2. PICK j \in 2 .. n : q[l] = x[j]
        BY <3>2
      <4> QED
        BY <3>6, <4>1, <4>2
    <3>8. \A i \in 1 .. n : \E j \in 1 .. n : r[i] = x[j]
      BY <3>1, <3>6, <3>7
    <3>9. ASSUME NEW j \in 1 .. n
          PROVE  \E i \in 1 .. n : r[i] = x[j]
      <4>1. CASE j = 1
        BY <3>1, <3>6, <4>1
      <4>2. CASE j # 1
        <5>1. PICK l \in 1 .. (n - 1) : q[l] = x[j]
          BY <3>1, <3>2, <4>2
        <5>2. PICK k \in 1 .. (n - 1) : t[k] = q[l]
          BY <3>4 DEF InOrder
        <5>3. k + 1 \in 2 .. n /\ k + 1 \in 1 .. n /\ (k + 1) - 1 = k
          BY <3>1
        <5>4. r[k + 1] = x[j]
          BY <3>6, <5>1, <5>2, <5>3
        <5> QED
          BY <5>3, <5>4
      <4> QED
        BY <4>1, <4>2
    <3>10. ASSUME NEW i \in 1 .. n, NEW j \in 1 .. n, i < j
           PROVE  pri[r[i]] >= pri[r[j]]
      <4>1. CASE i = 1
        <5>1. PICK l \in 2 .. n : r[j] = x[l]
          BY <3>7, <3>10
        <5> QED
          BY <3>1, <3>5, <3>6, <4>1, <5>1
      <4>2. CASE i # 1
        <5>1. i - 1 \in 1 .. (n - 1) /\ j - 1 \in 1 .. (n - 1) /\ i - 1 < j - 1
          BY <3>1, <3>10, <4>2
        <5>2. pri[t[i - 1]] >= pri[t[j - 1]]
          BY <3>4, <5>1 DEF InOrder
        <5> QED
          BY <3>6, <3>10, <4>2, <5>2
      <4> QED
        BY <4>1, <4>2
    <3> QED
      BY <3>6, <3>8, <3>9, <3>10 DEF InOrder, r
  <2> QED
    BY <2>2, <2>3
<1> QED
  BY <1>3, <1>4

LEMMA DrainedInOrder ==
    ASSUME NEW pri, Priorities(pri), NEW d \in Seq(DOMAIN pri), HeapOrdered(d, pri)
    PROVE  Descending(Drained(d, pri), pri) /\ SameItems(Drained(d, pri), d)
<1> DEFINE n == Len(d)
           r == Drained(d, pri)
<1>1. n \in Nat /\ d \in Arrays(n, pri) /\ DOMAIN d = 1 .. n
  BY SeqsAreArrays, ArraysAreSeqs
<1>2. PICK g : DrainRuns(g, n, pri) /\ r = g[n][d]
  BY <1>1, DrainedRuns
<1>3. InOrder(r, n, d, pri)
  BY <1>1, <1>2, DrainResult
<1> HIDE DEF r, n
<1>4. Len(r) = n /\ DOMAIN r = 1 .. n
  BY <1>1, <1>3, ArraysAreSeqs DEF InOrder
<1>5. Descending(r, pri)
  BY <1>3, <1>4 DEF InOrder, Descending
<1>6. {r[i] : i \in DOMAIN r} = {d[i] : i \in DOMAIN d}
  <2>1. /\ \A i \in 1 .. n : \E j \in 1 .. n : r[i] = d[j]
        /\ \A j \in 1 .. n : \E i \in 1 .. n : r[i] = d[j]
    BY <1>3 DEF InOrder
  <2>2. {r[i] : i \in 1 .. n} = {d[i] : i \in 1 .. n}
    <3>1. ASSUME NEW y \in {r[i] : i \in 1 .. n}
          PROVE  y \in {d[i] : i \in 1 .. n}
      <4>1. PICK i \in 1 .. n : y = r[i]
        OBVIOUS
      <4> QED
        BY <2>1, <4>1
    <3>2. ASSUME NEW y \in {d[i] : i \in 1 .. n}
          PROVE  y \in {r[i] : i \in 1 .. n}
      <4>1. PICK j \in 1 .. n : y = d[j]
        OBVIOUS
      <4>2. PICK i \in 1 .. n : r[i] = d[j]
        BY <2>1
      <4> QED
        BY <4>1, <4>2
    <3> QED
      BY <3>1, <3>2
  <2> QED
    BY <1>1, <1>4, <2>2
<1>7. SameItems(r, d)
  BY <1>4, <1>6 DEF SameItems, n
<1> QED
  BY <1>5, <1>7 DEF r
-----------------------------------------------------------------------------
(***************************************************************************)
(* The two maps of the master.  A second draw writes over what is there:   *)
(* it takes the id of a node only if both draws were taken, and then the   *)
(* node is recorded.                                                       *)
(***************************************************************************)
TableOK ==
    /\ disk \in [Node -> Nat \cup {-1}]
    /\ id \in [Node -> Id \cup {None}]
    /\ nodes \in [Id -> Node \cup {None}]
    /\ beat \in [Node -> [at : {"idle", "checked", "entered", "submitted"}, disk : Nat]]

OwnId == \A n \in Node : Known(n) => id[n] \in Id

IndInv == TableOK /\ OwnId /\ IdNamesNode

LEMMA InitInv == Init => IndInv
  BY DEF Init, IndInv, TableOK, OwnId, IdNamesNode, Known, Idle

\* A step that leaves the maps alone keeps what is said of them.
LEMMA TableUnchanged ==
    ASSUME IndInv, UNCHANGED table,
           beat' \in [Node -> [at : {"idle", "checked", "entered", "submitted"}, disk : Nat]]
    PROVE  IndInv'
  BY DEF IndInv, TableOK, OwnId, IdNamesNode, Known, table

LEMMA NextInv == IndInv /\ [Next]_vars => IndInv'
  <1> SUFFICES ASSUME IndInv, [Next]_vars PROVE IndInv'
    OBVIOUS
  <1>t. /\ beat \in [Node -> [at : {"idle", "checked", "entered", "submitted"}, disk : Nat]]
        /\ Idle \in [at : {"idle", "checked", "entered", "submitted"}, disk : Nat]
    BY DEF IndInv, TableOK, Idle
  <1>1. ASSUME NEW n \in Node, NEW d \in DiskOf[n], HeartbeatHandler(n, d)
        PROVE  IndInv'
    <2>1. d \in Nat
      BY DiskAssumption
    <2> QED
      BY <1>t, <1>1, <2>1, TableUnchanged DEF HeartbeatHandler, At
  <1>2. ASSUME NEW n \in Node, UpdateNodeKnown(n)
        PROVE  IndInv'
    <2>1. /\ disk' = [disk EXCEPT ![n] = beat[n].disk] /\ beat[n].disk \in Nat
          /\ Known(n) /\ UNCHANGED <<id, nodes, twice>>
          /\ beat' \in [Node -> [at : {"idle", "checked", "entered", "submitted"}, disk : Nat]]
      BY <1>t, <1>2 DEF UpdateNodeKnown
    <2> QED
      BY <2>1 DEF IndInv, TableOK, OwnId, IdNamesNode, Known
  <1>3. ASSUME NEW n \in Node, NEW i \in Id, NEW j \in Id, UpdateNodeNew(n, i, j)
        PROVE  IndInv'
    <2> DEFINE rnd == Draw(i, j)
    <2>1. /\ rnd \in Id
          /\ nodes[rnd] # None => rnd = j /\ Taken(i) /\ Taken(j)
      BY DEF Draw, Taken
    <2>2. /\ disk' = [disk EXCEPT ![n] = beat[n].disk] /\ beat[n].disk \in Nat
          /\ id' = [id EXCEPT ![n] = rnd] /\ nodes' = [nodes EXCEPT ![rnd] = n]
          /\ ~Known(n)
          /\ twice' = IF Taken(i) /\ Taken(j) THEN twice \cup {nodes[j]} ELSE twice
          /\ beat' \in [Node -> [at : {"idle", "checked", "entered", "submitted"}, disk : Nat]]
      BY <1>t, <1>3 DEF UpdateNodeNew, At
    <2> HIDE DEF rnd
    <2>3. TableOK'
      BY <2>1, <2>2 DEF IndInv, TableOK
    <2>4. OwnId'
      BY <2>1, <2>2 DEF IndInv, TableOK, OwnId, Known
    <2>5. ASSUME NEW m \in Node \ twice', m # n, Known(m)
          PROVE  m \notin twice /\ id[m] # rnd
      <3>1. m \notin twice
        BY <2>2, <2>5
      <3>2. nodes[id[m]] = m /\ m # None
        BY <2>5, <3>1, RegistryAssumption DEF IndInv, IdNamesNode
      <3> QED
        BY <2>1, <2>2, <2>5, <3>1, <3>2
    <2>6. IdNamesNode'
      BY <2>1, <2>2, <2>5 DEF IndInv, TableOK, OwnId, IdNamesNode, Known
    <2> QED
      BY <2>3, <2>4, <2>6 DEF IndInv
  <1>4. ASSUME NEW n \in Node, Submit(n)
        PROVE  IndInv'
    BY <1>t, <1>4, TableUnchanged DEF Submit, At
  <1>5. ASSUME NEW n \in Node, PushNode(n)
        PROVE  IndInv'
    BY <1>t, <1>5, TableUnchanged DEF PushNode
  <1>6. CASE LeadChanges
    BY <1>t, <1>6, TableUnchanged DEF LeadChanges
  <1>7. CASE NewServer
    BY <1>t, <1>7 DEF NewServer, IndInv, TableOK, OwnId, IdNamesNode, Known
  <1>8. CASE UNCHANGED vars
    BY <1>t, <1>8, TableUnchanged DEF vars, table
  <1> QED
    BY <1>1, <1>2, <1>3, <1>4, <1>5, <1>6, <1>7, <1>8 DEF Next, Heartbeat, UpdateNode

\* The id of a known node names that node and no other, for any number of nodes
\* that register at the same time, unless a later node drew two taken ids in a row
\* and this one's was the second: UpdateNode enters a node under cm.mu.
THEOREM IdsNameNodes == Spec => []IdNamesNode
  <1>1. IndInv => IdNamesNode
    BY DEF IndInv
  <1> QED
    BY <1>1, InitInv, NextInv, PTL DEF Spec

-----------------------------------------------------------------------------
(***************************************************************************)
(* The heap and the table.  Of a node that is being registered the         *)
(* invariant says that it is in the table and not yet in the heap, so that *)
(* the push cannot enter it twice; of a disk value, that its node may      *)
(* report it, so that writing a value of a steady node changes nothing.    *)
(***************************************************************************)
HeapItems ==
    /\ heap \in Seq(Node)
    /\ \A i, j \in 1 .. Len(heap) : heap[i] = heap[j] => i = j
    /\ refused \subseteq Node

Offered ==
    /\ \A n \in InHeap : Known(n) /\ n \notin refused
    /\ \A n \in refused : Known(n)
    /\ \A n \in Node : beat[n].at \in {"entered", "submitted"} =>
          Known(n) /\ n \notin InHeap /\ n \notin refused
    /\ \A n \in Node : Known(n) /\ beat[n].at \in {"idle", "checked"} =>
          n \in InHeap \cup refused

Reported ==
    /\ \A n \in Node : Known(n) => disk[n] \in DiskOf[n]
    /\ \A n \in Node : beat[n].at = "checked" => beat[n].disk \in DiskOf[n]

SteadyOrdered == (\A n \in InHeap : Steady(n)) => HeapOrdered(heap, disk)

HeapInv == HeapItems /\ Offered /\ Reported /\ SteadyOrdered

LEMMA InitHeap == Init => HeapInv
<1> SUFFICES ASSUME Init PROVE HeapInv
  OBVIOUS
<1>1. heap = << >> /\ Len(heap) = 0 /\ InHeap = {}
  BY DEF Init, InHeap
<1>2. HeapItems
  BY <1>1 DEF Init, HeapItems
<1>3. Offered /\ Reported
  BY <1>1 DEF Init, Offered, Reported, Known, Idle
<1>4. SteadyOrdered
  BY <1>1 DEF SteadyOrdered, HeapOrdered
<1> QED
  BY <1>2, <1>3, <1>4 DEF HeapInv

\* New values of nodes outside the heap, or of steady ones, leave the heap in order.
LEMMA OrderKept ==
    ASSUME HeapItems, SteadyOrdered, heap' = heap,
           \A n \in InHeap : Steady(n) => disk'[n] = disk[n]
    PROVE  SteadyOrdered'
<1> SUFFICES ASSUME \A n \in InHeap : Steady(n)
             PROVE  HeapOrdered(heap, disk')
  BY DEF SteadyOrdered, InHeap, Steady
<1>1. \A i \in 1 .. Len(heap) : heap[i] \in InHeap
  BY DEF HeapItems, InHeap
<1>2. \A c \in 2 .. Len(heap) : parent(c) \in 1 .. Len(heap) /\ c \in 1 .. Len(heap)
  BY ParentIn DEF HeapItems
<1> QED
  BY <1>1, <1>2 DEF SteadyOrdered, HeapOrdered

\* The push of a node that is not in the heap.
LEMMA PushStep ==
    ASSUME TableOK, HeapItems, NEW n \in Node, n \notin InHeap, heap' = Push(heap, n, disk),
           UNCHANGED <<disk, refused>>, SteadyOrdered
    PROVE  /\ HeapItems' /\ SteadyOrdered'
           /\ InHeap' = InHeap \cup {n}
<1> DEFINE m == Len(heap) + 1
           e == Append(heap, n)
<1>1. DOMAIN disk = Node /\ Priorities(disk) /\ heap \in Seq(Node) /\ Len(heap) \in Nat
  BY LenProperties DEF TableOK, Priorities, HeapItems
<1>2. /\ heap' \in Arrays(m, disk)
      /\ Permuted(m, e, heap')
      /\ HeapOrdered(heap, disk) => HeapOrdered(heap', disk)
  BY <1>1, PushResult
<1>3. heap' \in Seq(Node) /\ Len(heap') = m /\ DOMAIN heap' = 1 .. m
  BY <1>1, <1>2, ArraysAreSeqs
<1>4. /\ \A i \in 1 .. Len(heap) : e[i] = heap[i]
      /\ e[m] = n
  BY <1>1, AppendProperties
<1>5. \A i \in 1 .. Len(heap) : heap[i] \in InHeap
  BY <1>1, LenProperties DEF InHeap
<1> HIDE DEF e
<1>6. \A i, j \in 1 .. m : e[i] = e[j] => i = j
  <2>1. \A i \in 1 .. Len(heap) : e[i] # n
    BY <1>4, <1>5
  <2>2. \A i \in 1 .. m : i = m \/ i \in 1 .. Len(heap)
    BY <1>1
  <2> QED
    BY <1>4, <2>1, <2>2 DEF HeapItems
<1>7. HeapItems'
  <2>1. \A i, j \in 1 .. m : heap'[i] = heap'[j] => i = j
    BY <1>2, <1>6 DEF Permuted
  <2> QED
    BY <1>3, <2>1 DEF HeapItems
<1>8. ASSUME NEW x \in InHeap'
      PROVE  x \in InHeap \cup {n}
  <2>1. PICK i \in 1 .. m : x = heap'[i]
    BY <1>3 DEF InHeap
  <2>2. PICK j \in 1 .. m : x = e[j]
    BY <1>2, <2>1 DEF Permuted
  <2> QED
    BY <1>1, <1>4, <1>5, <2>2
<1>9. ASSUME NEW x \in InHeap \cup {n}
      PROVE  x \in InHeap'
  <2>1. PICK j \in 1 .. m : x = e[j]
    <3>1. CASE x = n
      BY <1>1, <1>4, <3>1
    <3>2. CASE x \in InHeap
      <4>1. PICK j \in 1 .. Len(heap) : x = heap[j]
        BY <1>1, <3>2, LenProperties DEF InHeap
      <4> QED
        BY <1>1, <1>4, <4>1
    <3> QED
      BY <3>1, <3>2
  <2>2. PICK i \in 1 .. m : x = heap'[i]
    BY <1>2, <2>1 DEF Permuted
  <2> QED
    BY <1>3, <2>2 DEF InHeap
<1>10. InHeap' = InHeap \cup {n}
  BY <1>8, <1>9
<1>11. SteadyOrdered'
  BY <1>2, <1>10 DEF SteadyOrdered, Steady
<1> QED
  BY <1>7, <1>10, <1>11

LEMMA NextHeap == TableOK /\ HeapInv /\ [Next]_vars => HeapInv'
<1> SUFFICES ASSUME TableOK, HeapInv, [Next]_vars PROVE HeapInv'
  OBVIOUS
<1> USE DEF HeapInv
<1>t. /\ disk \in [Node -> Nat \cup {-1}]
      /\ beat \in [Node -> [at : {"idle", "checked", "entered", "submitted"}, disk : Nat]]
      /\ InHeap \subseteq Node
  <2>1. InHeap \subseteq Node
    BY LenProperties DEF HeapItems, InHeap
  <2> QED
    BY <2>1 DEF TableOK
<1>h. ASSUME heap' = heap, UNCHANGED refused
      PROVE  HeapItems' /\ InHeap' = InHeap
  BY <1>h DEF HeapItems, InHeap
<1>1. ASSUME NEW n \in Node, NEW d \in DiskOf[n], HeartbeatHandler(n, d)
      PROVE  HeapInv'
  <2>1. /\ beat[n].at = "idle" /\ UNCHANGED <<disk, heap, refused>>
        /\ beat' = [beat EXCEPT ![n] = [at |-> "checked", disk |-> d]]
    BY <1>1 DEF HeartbeatHandler, Idle, At, table
  <2>2. HeapItems' /\ InHeap' = InHeap
    BY <1>h, <2>1
  <2>3. Offered'
    BY <1>t, <2>1, <2>2 DEF Offered, Known
  <2>4. Reported'
    BY <1>t, <2>1 DEF Reported, Known
  <2>5. SteadyOrdered'
    BY <2>1, OrderKept
  <2> QED
    BY <2>2, <2>3, <2>4, <2>5
<1>2. ASSUME NEW n \in Node, UpdateNodeKnown(n)
      PROVE  HeapInv'
  <2>1. /\ beat[n].at = "checked" /\ UNCHANGED <<heap, refused>> /\ Known(n)
        /\ disk' = [disk EXCEPT ![n] = beat[n].disk]
        /\ beat' = [beat EXCEPT ![n] = [at |-> "idle", disk |-> 0]]
    BY <1>2 DEF UpdateNodeKnown, Idle
  <2>2. HeapItems' /\ InHeap' = InHeap
    BY <1>h, <2>1
  <2>3. \A m \in Node : Known(m)' <=> Known(m)
    BY <1>t, <2>1 DEF Known
  <2>4. Offered'
    BY <1>t, <2>1, <2>2, <2>3 DEF Offered, HeapItems
  <2>5. Reported'
    BY <1>t, <2>1, <2>3 DEF Reported
  <2>6. \A m \in InHeap : Steady(m) => disk'[m] = disk[m]
    BY <1>t, <2>1 DEF Reported, Steady
  <2>7. SteadyOrdered'
    BY <2>1, <2>6, OrderKept
  <2> QED
    BY <2>2, <2>4, <2>5, <2>7
<1>3. ASSUME NEW n \in Node, NEW i \in Id, NEW j \in Id, UpdateNodeNew(n, i, j)
      PROVE  HeapInv'
  <2>1. /\ beat[n].at = "checked" /\ UNCHANGED <<heap, refused>> /\ ~Known(n)
        /\ disk' = [disk EXCEPT ![n] = beat[n].disk]
        /\ beat' = [beat EXCEPT ![n] = [at |-> "entered", disk |-> 0]]
    BY <1>3 DEF UpdateNodeNew, At
  <2>2. HeapItems' /\ InHeap' = InHeap
    BY <1>h, <2>1
  <2>3. \A m \in Node : Known(m)' <=> Known(m) \/ m = n
    BY <1>t, <2>1 DEF Known
  <2>4. n \notin InHeap /\ n \notin refused
    BY <2>1 DEF Offered
  <2>5. Offered'
    BY <1>t, <2>1, <2>2, <2>3, <2>4 DEF Offered, HeapItems
  <2>6. Reported'
    BY <1>t, <2>1, <2>3 DEF Reported
  <2>7. \A m \in InHeap : disk'[m] = disk[m]
    BY <1>t, <2>1, <2>4
  <2>8. SteadyOrdered'
    BY <2>1, <2>7, OrderKept
  <2> QED
    BY <2>2, <2>5, <2>6, <2>8
<1>4. ASSUME NEW n \in Node, Submit(n)
      PROVE  HeapInv'
  <2>1. beat[n].at = "entered" /\ UNCHANGED <<disk, heap>>
    BY <1>4 DEF Submit, table
  <2>2. InHeap' = InHeap /\ SteadyOrdered' /\ \A m \in Node : Known(m)' <=> Known(m)
    BY <2>1, OrderKept DEF InHeap, Known
  <2>3. CASE leading
    <3>1. UNCHANGED refused /\ beat' = [beat EXCEPT ![n] = [at |-> "submitted", disk |-> 0]]
      BY <1>4, <2>3 DEF Submit, At
    <3>2. HeapItems' /\ Offered' /\ Reported'
      BY <1>t, <2>1, <2>2, <3>1 DEF HeapItems, Offered, Reported
    <3> QED
      BY <2>2, <3>2
  <2>4. CASE ~leading
    <3>1. refused' = refused \cup {n} /\ beat' = [beat EXCEPT ![n] = [at |-> "idle", disk |-> 0]]
      BY <1>4, <2>4 DEF Submit, Idle
    <3>2. HeapItems' /\ Reported'
      BY <1>t, <2>1, <2>2, <3>1 DEF HeapItems, Reported
    <3>3. Offered'
      BY <1>t, <2>1, <2>2, <3>1 DEF HeapItems, Offered
    <3> QED
      BY <2>2, <3>2, <3>3
  <2> QED
    BY <2>3, <2>4
<1>5. ASSUME NEW n \in Node, PushNode(n)
      PROVE  HeapInv'
  <2>1. /\ beat[n].at = "submitted" /\ UNCHANGED <<disk, refused>>
        /\ heap' = Push(heap, n, disk)
        /\ beat' = [beat EXCEPT ![n] = [at |-> "idle", disk |-> 0]]
    BY <1>5 DEF PushNode, Idle, table
  <2>2. Known(n) /\ n \notin InHeap /\ n \notin refused
    BY <2>1 DEF Offered
  <2>3. HeapItems' /\ SteadyOrdered' /\ InHeap' = InHeap \cup {n}
    BY <2>1, <2>2, PushStep
  <2>4. \A m \in Node : Known(m)' <=> Known(m)
    BY <2>1 DEF Known
  <2>5. Offered'
    BY <1>t, <2>1, <2>2, <2>3, <2>4 DEF Offered, HeapItems
  <2>6. Reported'
    BY <1>t, <2>1, <2>4 DEF Reported
  <2> QED
    BY <2>3, <2>5, <2>6
<1>6. CASE LeadChanges
  <2>1. UNCHANGED <<disk, heap, beat, refused>>
    BY <1>6 DEF LeadChanges, table
  <2> QED
    BY <1>h, <2>1, OrderKept DEF Offered, Reported, Known
<1>7. CASE NewServer
  <2>1. Init'
    BY <1>7 DEF NewServer, Init
  <2> QED
    BY <2>1, InitHeap, PTL
<1>8. CASE UNCHANGED vars
  <2>1. UNCHANGED <<disk, heap, beat, refused>>
    BY <1>8 DEF vars
  <2> QED
    BY <1>h, <2>1, OrderKept DEF Offered, Reported, Known
<1> QED
  BY <1>1, <1>2, <1>3, <1>4, <1>5, <1>6, <1>7, <1>8 DEF Next, Heartbeat, UpdateNode

\* No node is in the heap twice.
LEMMA InHeapCount ==
    ASSUME HeapItems
    PROVE  Cardinality(InHeap) = Len(heap)
<1> DEFINE n == Len(heap)
<1>1. n \in Nat /\ heap \in [1 .. n -> Node] /\ DOMAIN heap = 1 .. n
  BY LenProperties DEF HeapItems
<1>2. heap \in Bijection(1 .. n, InHeap)
  <2>1. \A i, j \in 1 .. n : heap[i] = heap[j] => i = j
    BY DEF HeapItems
  <2>2. heap \in [1 .. n -> InHeap] /\ \A x \in InHeap : \E i \in 1 .. n : heap[i] = x
    BY <1>1 DEF InHeap
  <2> QED
    BY <2>1, <2>2 DEF Bijection, Injection, Surjection, IsInjective
<1>3. ExistsBijection(1 .. n, InHeap)
  BY <1>2 DEF ExistsBijection
<1>4. IsFiniteSet(1 .. n) /\ Cardinality(1 .. n) = n
  BY <1>1, FS_Interval
<1> HIDE DEF n
<1>5. Cardinality(InHeap) = n
  BY <1>3, <1>4, FS_Bijection
<1> QED
  BY <1>5 DEF n

LEMMA HeapInvariance == Spec => [](TableOK /\ HeapInv)
<1>1. IndInv => TableOK
  BY DEF IndInv
<1> QED
  BY <1>1, InitInv, NextInv, InitHeap, NextHeap, PTL DEF Spec

\* For any number of nodes that register, report and are turned away while the
\* lead comes and goes: UpdateNode puts a node into the heap at most once, and
\* never one that is not in the table; a node of the table that no heartbeat is
\* working on is in the heap, unless Submit refused it.
THEOREM HeapAndTableAgree == Spec => []KnownIsOffered
<1>1. TableOK /\ HeapInv => KnownIsOffered
  <2> SUFFICES ASSUME HeapInv PROVE KnownIsOffered
    OBVIOUS
  <2>1. Cardinality(InHeap) = Len(heap)
    BY InHeapCount DEF HeapInv
  <2> QED
    BY <2>1 DEF HeapInv, Offered, KnownIsOffered
<1> QED
  BY <1>1, HeapInvariance, PTL

\* First, which names the node of the next upload, has most free space as long as
\* the nodes in the heap report what they reported before: pushes keep the order,
\* and only UpdateNode writing a different Disk in place can break it.
THEOREM FirstHasMost == Spec => []SteadyFirstIsMost
<1>1. TableOK /\ HeapInv => SteadyFirstIsMost
  <2> SUFFICES ASSUME TableOK, HeapInv, \A n \in InHeap : Steady(n), NEW n \in InHeap
               PROVE  disk[First(heap, None)] >= disk[n]
    BY DEF SteadyFirstIsMost
  <2>1. HeapOrdered(heap, disk)
    BY DEF HeapInv, SteadyOrdered
  <2>2. DOMAIN disk = Node /\ Priorities(disk) /\ heap \in Seq(Node)
    BY DEF TableOK, Priorities, HeapInv, HeapItems
  <2>3. Len(heap) \in Nat /\ heap \in Arrays(Len(heap), disk) /\ DOMAIN heap = 1 .. Len(heap)
    BY <2>2, SeqsAreArrays, LenProperties
  <2>4. PICK i \in 1 .. Len(heap) : n = heap[i]
    BY <2>3 DEF InHeap
  <2>5. disk[heap[1]] >= disk[heap[i]]
    BY <2>1, <2>2, <2>3, RootIsMost
  <2>6. First(heap, None) = heap[1]
    <3>1. heap # << >>
      BY <2>3, <2>4
    <3> QED
      BY <3>1 DEF First
  <2> QED
    BY <2>4, <2>5, <2>6
<1> QED
  BY <1>1, HeapInvariance, PTL

\* Pop, called until the queue is empty, hands out every node of a heap in order,
\* none lost and none twice, by descending free space, for heaps of any size.
THEOREM PopsByFreeSpace == Spec => []PopsInOrder
<1>1. TableOK /\ HeapInv => PopsInOrder
  <2> SUFFICES ASSUME TableOK, HeapInv, HeapOrdered(heap, disk)
               PROVE  /\ Descending(Drained(heap, disk), disk)
                      /\ SameItems(Drained(heap, disk), heap)
    BY DEF PopsInOrder
  <2>1. DOMAIN disk = Node /\ Priorities(disk) /\ heap \in Seq(Node)
    BY DEF TableOK, Priorities, HeapInv, HeapItems
  <2> QED
    BY <2>1, DrainedInOrder
<1> QED
  BY <1>1, HeapInvariance, PTL
=============================================================================
