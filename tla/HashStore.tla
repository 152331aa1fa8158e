----------------------------- MODULE HashStore -----------------------------
(***************************************************************************)
(* The store of a data node (sdfs/hashstore.go) under the handlers that    *)
(* use it: Upload, Delete, and Download from the point where it has found  *)
(* its link (router/node.go).  Add copies the body with no lock held and   *)
(* enters it under h.mu; Get counts a reader in under h.mu; the reader is  *)
(* counted out, by an atomic add without h.mu, only on the paths that      *)
(* reach the deferred decrement.                                           *)
(*                                                                         *)
(* A file object is the Go pointer that Get hands out.  The data is on     *)
(* disk before its entry and is never deleted, so it is not modelled.  A   *)
(* restart of the node starts from an empty sdfs.Hs: LoadHS fills another  *)
(* HashStore, node.HS, which no handler reads.                             *)
(***************************************************************************)
EXTENDS Integers, FiniteSetsExt

CONSTANTS Hash,        \* checksums of contents
          SizeOf,      \* size of a content
          FileId,      \* file objects; one nobody points to is reused
          Uploader,    \* Upload requests that may run at once
          Reader,      \* Download requests that may run at once
          None,
          BadRanges,   \* contents asked for with Range headers ParseRange rejects
          MaxReplicas, \* bound on ReplicaCount
          MaxOpen      \* bound on OpenCount

ASSUME SizeAssumption == SizeOf \in [Hash -> Nat]
ASSUME NoneAssumption == None \notin Hash \cup FileId /\ Hash # {}
ASSUME ReaderAssumption == IsFiniteSet(Reader)
ASSUME BoundAssumption ==
    BadRanges \subseteq Hash /\ MaxReplicas \in Nat \ {0} /\ MaxOpen \in Nat

VARIABLES
    s,      \* h.s: the file object of a hash, or None
    file,   \* the file objects: Hash, OpenCount, ReplicaCount
    Size,   \* h.Size
    up,     \* per Uploader, the content it has copied to a temporary file
    rd      \* per Reader, the file object it holds and how far it got

vars == <<s, file, Size, up, rd>>

NotReading == [stage |-> "idle"]

Unused(f) ==
    /\ \A h \in Hash : s[h] # f
    /\ \A r \in Reader : rd[r] # NotReading => rd[r].file # f

NewFile(h) == [Hash |-> h, OpenCount |-> 0, ReplicaCount |-> 1]

Init ==
    /\ s = [h \in Hash |-> None]
    /\ file = [f \in FileId |-> NewFile(CHOOSE h \in Hash : TRUE)]
    /\ Size = 0
    /\ up = [u \in Uploader |-> None]
    /\ rd = [r \in Reader |-> NotReading]

-----------------------------------------------------------------------------
(***************************************************************************)
(* Add: the copy to the temporary file, then the section under h.mu.  A    *)
(* failed rename reports an error and enters nothing.                      *)
(***************************************************************************)
AddCopy(u, h) ==
    /\ up[u] = None
    /\ up' = [up EXCEPT ![u] = h]
    /\ UNCHANGED <<s, file, Size, rd>>

AddKnown(u) ==
    LET f == s[up[u]] IN
    /\ up[u] # None
    /\ f # None
    /\ file[f].ReplicaCount < MaxReplicas
    /\ file' = [file EXCEPT ![f].ReplicaCount = @ + 1]
    /\ up' = [up EXCEPT ![u] = None]
    /\ UNCHANGED <<s, Size, rd>>

NotGrown(h) == Size
GrownBy(h)  == Size + SizeOf[h]

AddNew(u, f) ==
    LET h == up[u] IN
    /\ h # None
    /\ s[h] = None
    /\ Unused(f)
    /\ s' = [s EXCEPT ![h] = f]
    /\ file' = [file EXCEPT ![f] = NewFile(h)]
    /\ Size' = GrownBy(h)
    /\ up' = [up EXCEPT ![u] = None]
    /\ UNCHANGED rd

AddFails(u) ==
    /\ up[u] # None
    /\ s[up[u]] = None
    /\ up' = [up EXCEPT ![u] = None]
    /\ UNCHANGED <<s, file, Size, rd>>

-----------------------------------------------------------------------------
(***************************************************************************)
(* Download: Get counts the reader in; a bad Range header returns at once; *)
(* otherwise the deferred decrement runs when the copy ends or the file    *)
(* cannot be opened.                                                       *)
(***************************************************************************)
Get(r, h) ==
    LET f == s[h] IN
    /\ rd[r] = NotReading
    /\ f # None
    /\ file[f].OpenCount < MaxOpen
    /\ file' = [file EXCEPT ![f].OpenCount = @ + 1]
    /\ rd' = [rd EXCEPT ![r] = [stage |-> "got", file |-> f]]
    /\ UNCHANGED <<s, Size, up>>

ParseRangeFails(r) ==
    /\ rd[r].stage = "got"
    /\ file[rd[r].file].Hash \in BadRanges
    /\ rd' = [rd EXCEPT ![r] = NotReading]
    /\ UNCHANGED <<s, file, Size, up>>

NotCounted(n) == n
CountTwice(n) == n - 2
CountOut(n)   == n - 1

Open(r) ==
    /\ rd[r].stage = "got"
    /\ rd' = [rd EXCEPT ![r].stage = "reading"]
    /\ UNCHANGED <<s, file, Size, up>>

Closed(r) ==
    LET f == rd[r].file IN
    /\ rd[r].stage \in {"got", "reading"}
    /\ rd' = [rd EXCEPT ![r] = NotReading]
    /\ file' = [file EXCEPT ![f].OpenCount = CountOut(@)]
    /\ UNCHANGED <<s, Size, up>>

-----------------------------------------------------------------------------
(***************************************************************************)
(* Delete: Remove, wholly under h.mu.                                      *)
(***************************************************************************)
RemoveReplica(h) ==
    LET f == s[h] IN
    /\ f # None
    /\ file[f].ReplicaCount > 1
    /\ file' = [file EXCEPT ![f].ReplicaCount = @ - 1]
    /\ UNCHANGED <<s, Size, up, rd>>

Unchecked(f) == file[f].ReplicaCount <= 1
Removable(f) == file[f].ReplicaCount <= 1 /\ file[f].OpenCount = 0

RemoveLast(h) ==
    LET f == s[h] IN
    /\ f # None
    /\ Removable(f)
    /\ Size' = Size - SizeOf[file[f].Hash]
    /\ s' = [s EXCEPT ![h] = None]
    /\ UNCHANGED <<file, up, rd>>

(***************************************************************************)
(* The node process ends and is started again.                             *)
(***************************************************************************)
NewHashStore ==
    /\ s' = [h \in Hash |-> None]
    /\ Size' = 0
    /\ up' = [u \in Uploader |-> None]
    /\ rd' = [r \in Reader |-> NotReading]
    /\ UNCHANGED file

Upload(u) ==
    \/ \E h \in Hash : AddCopy(u, h)
    \/ AddKnown(u) \/ (\E f \in FileId : AddNew(u, f)) \/ AddFails(u)

Download(r) ==
    \/ \E h \in Hash : Get(r, h)
    \/ ParseRangeFails(r) \/ Open(r) \/ Closed(r)

Delete == \E h \in Hash : RemoveReplica(h) \/ RemoveLast(h)

Next ==
    \/ \E u \in Uploader : Upload(u)
    \/ \E r \in Reader : Download(r)
    \/ Delete
    \/ NewHashStore

Spec == Init /\ [][Next]_vars
-----------------------------------------------------------------------------
(***************************************************************************)
(* Properties.                                                             *)
(***************************************************************************)
File == [Hash : Hash, OpenCount : Nat, ReplicaCount : Nat \ {0}]

\* Every variable keeps its shape; OpenCount, a signed number, is never negative.
TypeOK ==
    /\ s \in [Hash -> FileId \cup {None}]
    /\ file \in [FileId -> File]
    /\ Size \in Int
    /\ up \in [Uploader -> Hash \cup {None}]
    /\ rd \in [Reader -> {NotReading} \cup [stage : {"got", "reading"}, file : FileId]]

\* Size, which DebugPrintHS shows, is the total size of the contents the store
\* holds, however uploads of the same content and deletes interleave.
SizeAccounted ==
    Size = MapThenSumSet(LAMBDA h : SizeOf[h], {h \in Hash : s[h] # None})

Holds(r, f) == rd[r] # NotReading /\ rd[r].file = f

\* While a download holds a file object, the store keeps that very object:
\* neither a Remove nor a Remove and a new Add gets in between.
OpenedStaysStored ==
    \A r \in Reader : rd[r] # NotReading => s[file[rd[r].file].Hash] = rd[r].file

RefusalHasReader(h) ==
    s[h] # None /\ file[s[h]].ReplicaCount <= 1 /\ file[s[h]].OpenCount # 0
        => \E r \in Reader : Holds(r, s[h])

\* Remove answers "file is being accessed by other goroutine" only while some
\* download is accessing it, unless a rejected Range header has named the content
\* (Download then returns before the decrement is deferred): each of the other
\* ways out of Download counts the reader out.
ReadersCountedOut == \A h \in Hash \ BadRanges : RefusalHasReader(h)
=============================================================================
