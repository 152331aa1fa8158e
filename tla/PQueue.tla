------------------------------- MODULE PQueue -------------------------------
(***************************************************************************)
(* The binary heap of pkg/pqueue/pqueue.go, as operators on the used part  *)
(* of p.data: item data[i] of Go is d[i + 1], and p.length is Len(d).  The *)
(* slice behind it doubles when it is full, which a sequence need not.     *)
(*                                                                         *)
(* The queue holds pointers and asks an item for its priority whenever it  *)
(* compares, so the priorities pri are a parameter of every operation and  *)
(* not a part of the heap.                                                 *)
(***************************************************************************)
EXTENDS Integers, Sequences, FiniteSets

parent(c) == c \div 2
lChild(c) == 2 * c
rChild(c) == 2 * c + 1

Swap(d, a, b) == [d EXCEPT ![a] = d[b], ![b] = d[a]]

\* What the used part of p.data may hold.
Arrays(n, pri) == [1 .. n -> DOMAIN pri]

(***************************************************************************)
(* up: an item moves towards the root past parents of lower priority.      *)
(* up[k] is the loop once the item is at k, as a map of the array.         *)
(***************************************************************************)
SiftUp(d, c, pri) ==
    LET up[k \in 1 .. Len(d)] ==
            [e \in Arrays(Len(d), pri) |->
                IF k > 1 /\ pri[e[parent(k)]] < pri[e[k]]
                THEN up[parent(k)][Swap(e, parent(k), k)]
                ELSE e]
    IN  up[c][d]

(***************************************************************************)
(* down: an item changes places with its child of higher priority, the     *)
(* right one when they are equal.                                          *)
(***************************************************************************)
LeftChild(e, k, pri) == lChild(k)
HigherChild(e, k, pri) ==
    IF rChild(k) > Len(e) \/ pri[e[lChild(k)]] > pri[e[rChild(k)]]
    THEN lChild(k)
    ELSE rChild(k)

SiftDown(d, c, pri) ==
    LET down[k \in 1 .. Len(d)] ==
            [e \in Arrays(Len(d), pri) |->
                IF lChild(k) <= Len(d) /\ pri[e[k]] < pri[e[HigherChild(e, k, pri)]]
                THEN down[HigherChild(e, k, pri)][Swap(e, k, HigherChild(e, k, pri))]
                ELSE e]
    IN  down[c][d]

OverLast(d, x, pri) == IF d = << >> THEN <<x>> ELSE SiftUp([d EXCEPT ![Len(d)] = x], Len(d), pri)
Unsifted(d, x, pri) == Append(d, x)
Push(d, x, pri) == SiftUp(Append(d, x), Len(d) + 1, pri)

(***************************************************************************)
(* First and Pop return nil for an empty queue.                            *)
(***************************************************************************)
First(d, nil) == IF d = << >> THEN nil ELSE d[1]

Pop(d, pri) ==
    IF Len(d) <= 1
    THEN << >>
    ELSE SiftDown([SubSeq(d, 1, Len(d) - 1) EXCEPT ![1] = d[Len(d)]], 1, pri)
-----------------------------------------------------------------------------
(***************************************************************************)
(* What the heap is for: every item has at least the priority of its       *)
(* children, and taking items out one by one gives them in order.          *)
(***************************************************************************)
HeapOrdered(d, pri) == \A c \in 2 .. Len(d) : pri[d[parent(c)]] >= pri[d[c]]

Drained(d, pri) ==
    LET drain[n \in 0 .. Len(d)] ==
            [e \in Arrays(n, pri) |->
                IF n = 0 THEN << >> ELSE <<e[1]>> \o drain[n - 1][Pop(e, pri)]]
    IN  drain[Len(d)][d]

Descending(d, pri) == \A i, j \in DOMAIN d : i < j => pri[d[i]] >= pri[d[j]]

SameItems(d, e) ==
    /\ Len(d) = Len(e)
    /\ {d[i] : i \in DOMAIN d} = {e[i] : i \in DOMAIN e}
=============================================================================
