-------------------------- MODULE HashStoreProofs --------------------------
(***************************************************************************)
(* Proofs about the store of a data node and its download links, for every *)
(* set of contents and links and any number of concurrent requests.        *)
(*                                                                         *)
(* OpenedStaysStored is not inductive: Remove looks at OpenCount, not at   *)
(* the downloads.  IndInv adds that OpenCount is at least the number of    *)
(* downloads holding the file (more once a bad Range header has leaked     *)
(* one), and that the store files an object under its own hash.            *)
(*                                                                         *)
(* The last part is about the download links of the same node, which are a *)
(* component of their own with a specification of their own, LinksSpec.    *)
(***************************************************************************)
EXTENDS HashStore, DownloadLinks, SequenceTheorems, FiniteSetTheorems,
        NaturalsInduction, WellFoundedInduction, TLAPS

Holders(f) == {r \in Reader : Holds(r, f)}

ReadersCounted == \A f \in FileId : Cardinality(Holders(f)) <= file[f].OpenCount

HashAgrees == \A h \in Hash : s[h] # None => file[s[h]].Hash = h

IndInv == TypeOK /\ HashAgrees /\ OpenedStaysStored /\ ReadersCounted

USE DEF NotReading

\* The holders of a file are finitely many; there are none exactly when their
\* number is 0.
LEMMA HoldersFinite ==
    ASSUME NEW f \in FileId
    PROVE  /\ IsFiniteSet(Holders(f))
           /\ Cardinality(Holders(f)) \in Nat
           /\ Cardinality(Holders(f)) = 0 <=> Holders(f) = {}
<1>1. Holders(f) \subseteq Reader
  BY DEF Holders
<1>2. IsFiniteSet(Holders(f))
  BY <1>1, ReaderAssumption, FS_Subset
<1> QED
  BY <1>2, FS_CardinalityType, FS_EmptySet

LEMMA InitInvariant == Init => IndInv
<1> SUFFICES ASSUME Init PROVE IndInv
  OBVIOUS
<1>1. (CHOOSE h \in Hash : TRUE) \in Hash
  BY NoneAssumption
<1>2. file \in [FileId -> File]
  BY <1>1 DEF Init, NewFile, File
<1>3. TypeOK
  BY <1>2 DEF Init, TypeOK
<1>4. HashAgrees /\ OpenedStaysStored
  BY DEF Init, HashAgrees, OpenedStaysStored
<1>5. \A f \in FileId : Holders(f) = {}
  BY DEF Init, Holders, Holds
<1>6. ReadersCounted
  <2>1. \A f \in FileId : file[f].OpenCount = 0
    BY DEF Init, NewFile
  <2> QED
    BY <2>1, <1>5, FS_EmptySet DEF ReadersCounted
<1> QED
  BY <1>3, <1>4, <1>6 DEF IndInv

\* A step that leaves the downloads, and every OpenCount, alone.
LEMMA HoldersKept ==
    ASSUME IndInv, rd' = rd,
           \A f \in FileId : file'[f].OpenCount = file[f].OpenCount \/ Holders(f) = {},
           file' \in [FileId -> File]
    PROVE  ReadersCounted'
<1> SUFFICES ASSUME NEW f \in FileId
             PROVE  Cardinality(Holders(f)') <= file'[f].OpenCount
  BY DEF ReadersCounted
<1>1. Holders(f)' = Holders(f)
  BY DEF Holders, Holds
<1>2. Cardinality(Holders(f)) <= file[f].OpenCount
  BY DEF IndInv, ReadersCounted
<1>3. file'[f].OpenCount \in Nat
  BY DEF File
<1>4. CASE file'[f].OpenCount = file[f].OpenCount
  BY <1>1, <1>2, <1>4
<1>5. CASE Holders(f) = {}
  BY <1>1, <1>3, <1>5, FS_EmptySet
<1> QED
  BY <1>4, <1>5

\* One download more or one fewer changes the number of holders by one.
LEMMA HoldersCount ==
    ASSUME NEW r \in Reader, NEW f \in FileId, TypeOK
    PROVE  /\ rd[r] = NotReading /\ rd' = [rd EXCEPT ![r] = [stage |-> "got", file |-> f]] =>
                /\ Cardinality(Holders(f)') = Cardinality(Holders(f)) + 1
                /\ \A g \in FileId \ {f} : Holders(g)' = Holders(g)
           /\ Holds(r, f) /\ rd' = [rd EXCEPT ![r] = NotReading] =>
                /\ Cardinality(Holders(f)') = Cardinality(Holders(f)) - 1
                /\ Cardinality(Holders(f)) > 0
                /\ \A g \in FileId \ {f} : Holders(g)' = Holders(g)
<1>0. IsFiniteSet(Holders(f))
  BY HoldersFinite
<1>1. ASSUME rd[r] = NotReading, rd' = [rd EXCEPT ![r] = [stage |-> "got", file |-> f]]
      PROVE  /\ Cardinality(Holders(f)') = Cardinality(Holders(f)) + 1
             /\ \A g \in FileId \ {f} : Holders(g)' = Holders(g)
  <2>1. \A q \in Reader \ {r} : rd'[q] = rd[q]
    BY <1>1 DEF TypeOK
  <2>2. rd'[r] = [stage |-> "got", file |-> f]
    BY <1>1 DEF TypeOK
  <2>3. Holders(f)' = Holders(f) \cup {r} /\ r \notin Holders(f)
    BY <2>1, <2>2, <1>1 DEF Holders, Holds
  <2>4. \A g \in FileId \ {f} : Holders(g)' = Holders(g)
    BY <2>1, <2>2, <1>1 DEF Holders, Holds
  <2> QED
    BY <2>3, <2>4, <1>0, FS_AddElement
<1>2. ASSUME Holds(r, f), rd' = [rd EXCEPT ![r] = NotReading]
      PROVE  /\ Cardinality(Holders(f)') = Cardinality(Holders(f)) - 1
             /\ Cardinality(Holders(f)) > 0
             /\ \A g \in FileId \ {f} : Holders(g)' = Holders(g)
  <2>1. \A q \in Reader \ {r} : rd'[q] = rd[q]
    BY <1>2 DEF TypeOK
  <2>2. rd'[r] = NotReading
    BY <1>2 DEF TypeOK
  <2>3. Holders(f)' = Holders(f) \ {r} /\ r \in Holders(f)
    BY <2>1, <2>2, <1>2 DEF Holders, Holds
  <2>4. \A g \in FileId \ {f} : Holders(g)' = Holders(g)
    BY <2>1, <2>2, <1>2 DEF Holders, Holds
  <2>5. Cardinality(Holders(f)) # 0 /\ Cardinality(Holders(f)) \in Nat
    BY <2>3, HoldersFinite
  <2> QED
    BY SMTT(30), <2>3, <2>4, <2>5, <1>0, FS_RemoveElement
<1> QED
  BY <1>1, <1>2

\* Changing one count of a file object keeps its type and its hash.
LEMMA Counted ==
    ASSUME TypeOK, NEW f \in FileId, NEW F \in File, F.Hash = file[f].Hash,
           file' = [file EXCEPT ![f] = F]
    PROVE  /\ file' \in [FileId -> File]
           /\ \A g \in FileId : file'[g].Hash = file[g].Hash
           /\ \A g \in FileId \ {f} : file'[g] = file[g]
           /\ file'[f] = F
BY DEF TypeOK

\* With the store and the hashes as they were, and no new file object in the
\* hands of a download except the one stored, the links between them stay.
LEMMA LinksKept ==
    ASSUME IndInv, s' = s,
           file' \in [FileId -> File],
           \A g \in FileId : file'[g].Hash = file[g].Hash,
           \A r \in Reader : \/ rd'[r] = NotReading
                             \/ rd[r] # NotReading /\ rd'[r].file = rd[r].file
                             \/ \E h \in Hash : s[h] # None /\ rd'[r].file = s[h]
    PROVE  HashAgrees' /\ OpenedStaysStored'
<1>0. TypeOK /\ HashAgrees /\ OpenedStaysStored
  BY DEF IndInv
<1>1. HashAgrees'
  BY <1>0 DEF HashAgrees, TypeOK
<1>2. ASSUME NEW r \in Reader, rd'[r] # NotReading
      PROVE  s'[file'[rd'[r].file].Hash] = rd'[r].file
  <2>1. CASE rd[r] # NotReading /\ rd'[r].file = rd[r].file
    <3>1. rd[r].file \in FileId
      BY <2>1, <1>0 DEF TypeOK
    <3> QED
      BY <2>1, <3>1, <1>0 DEF OpenedStaysStored
  <2>2. CASE \E h \in Hash : s[h] # None /\ rd'[r].file = s[h]
    BY <2>2, <1>0 DEF HashAgrees, TypeOK
  <2> QED
    BY <1>2, <2>1, <2>2
<1> QED
  BY <1>1, <1>2 DEF OpenedStaysStored

LEMMA UploadStep ==
    ASSUME IndInv, NEW u \in Uploader, Upload(u)
    PROVE  IndInv'
<1>0. TypeOK /\ HashAgrees /\ OpenedStaysStored /\ ReadersCounted
  BY DEF IndInv
<1>1. ASSUME \/ \E h \in Hash : AddCopy(u, h)
             \/ AddFails(u)
      PROVE  IndInv'
  <2>1. s' = s /\ file' = file /\ rd' = rd /\ Size' = Size
    BY <1>1 DEF AddCopy, AddFails
  <2>2. TypeOK'
    BY <1>0, <1>1, <2>1 DEF AddCopy, AddFails, TypeOK
  <2>3. HashAgrees' /\ OpenedStaysStored'
    BY <1>0, <2>1 DEF HashAgrees, OpenedStaysStored
  <2>4. ReadersCounted'
    BY <1>0, <2>1 DEF ReadersCounted, Holders, Holds
  <2> QED
    BY <2>2, <2>3, <2>4 DEF IndInv
<1>2. ASSUME AddKnown(u)
      PROVE  IndInv'
  <2> DEFINE f == s[up[u]]
             F == [file[f] EXCEPT !.ReplicaCount = @ + 1]
  <2>1. up[u] \in Hash /\ f \in FileId
    BY <1>0, <1>2 DEF AddKnown, TypeOK
  <2>2. F \in File /\ F.Hash = file[f].Hash /\ F.OpenCount = file[f].OpenCount
    BY <1>0, <2>1 DEF TypeOK, File
  <2>3. file' = [file EXCEPT ![f] = F] /\ s' = s /\ rd' = rd
    BY <1>2 DEF AddKnown
  <2>a. /\ Size' = Size
        /\ up' = [up EXCEPT ![u] = None]
    BY <1>2 DEF AddKnown
  <2> HIDE DEF f, F
  <2>4. /\ file' \in [FileId -> File]
        /\ \A g \in FileId : file'[g].Hash = file[g].Hash
        /\ \A g \in FileId \ {f} : file'[g] = file[g]
        /\ file'[f] = F
    BY <1>0, <2>1, <2>2, <2>3, Counted
  <2>5. TypeOK'
    BY <1>0, <2>3, <2>4, <2>a DEF TypeOK
  <2>6. HashAgrees' /\ OpenedStaysStored'
    BY <2>3, <2>4, LinksKept
  <2>7. ReadersCounted'
    BY <2>2, <2>3, <2>4, HoldersKept
  <2> QED
    BY <2>5, <2>6, <2>7 DEF IndInv
<1>3. ASSUME NEW f \in FileId, AddNew(u, f)
      PROVE  IndInv'
  <2> DEFINE h == up[u]
             F == NewFile(h)
  <2>1. h \in Hash /\ s[h] = None /\ Unused(f)
    BY <1>0, <1>3 DEF AddNew, TypeOK
  <2>2. F \in File /\ F.Hash = h /\ F.OpenCount = 0
    BY <2>1 DEF NewFile, File
  <2>3. /\ file' = [file EXCEPT ![f] = F]
        /\ s' = [s EXCEPT ![h] = f]
        /\ rd' = rd
        /\ Size' = Size + SizeOf[h]
        /\ up' = [up EXCEPT ![u] = None]
    BY <1>3 DEF AddNew, GrownBy
  <2> HIDE DEF h, F
  <2>4. file' \in [FileId -> File] /\ file'[f] = F /\ \A g \in FileId \ {f} : file'[g] = file[g]
    BY <1>0, <2>2, <2>3 DEF TypeOK
  <2>5. TypeOK'
    <3>1. Size' \in Int
      <4>1. Size \in Int
        BY <1>0 DEF TypeOK
      <4>2. SizeOf[h] \in Nat
        BY <2>1, SizeAssumption
      <4> QED
        BY <4>1, <4>2, <2>3
    <3> QED
      BY <1>0, <2>1, <2>3, <2>4, <3>1 DEF TypeOK
  <2>6. HashAgrees'
    <3> SUFFICES ASSUME NEW k \in Hash, s'[k] # None PROVE file'[s'[k]].Hash = k
      BY DEF HashAgrees
    <3>1. CASE k = h
      BY <3>1, <1>0, <2>1, <2>2, <2>3, <2>4 DEF TypeOK
    <3>2. CASE k # h
      <4>1. s'[k] = s[k] /\ s[k] \in FileId /\ s[k] # f
        BY <3>2, <1>0, <2>1, <2>3 DEF TypeOK, Unused
      <4> QED
        BY <4>1, <1>0, <2>4 DEF HashAgrees
    <3> QED
      BY <3>1, <3>2
  <2>7. OpenedStaysStored'
    <3> SUFFICES ASSUME NEW r \in Reader, rd[r] # NotReading
                 PROVE  s'[file'[rd[r].file].Hash] = rd[r].file
      BY <2>3 DEF OpenedStaysStored
    <3>1. rd[r].file \in FileId /\ rd[r].file # f
      BY <1>0, <2>1 DEF TypeOK, Unused
    <3>2. s[file[rd[r].file].Hash] = rd[r].file /\ file'[rd[r].file] = file[rd[r].file]
      BY <3>1, <1>0, <2>4 DEF OpenedStaysStored
    <3>3. file[rd[r].file].Hash \in Hash
      BY <3>1, <1>0 DEF TypeOK, File
    <3>4. file[rd[r].file].Hash # h
      BY <3>1, <3>2, <2>1, NoneAssumption
    <3> QED
      BY <3>2, <3>3, <3>4, <1>0, <2>3 DEF TypeOK
  <2>8. Holders(f) = {}
    BY <2>1 DEF Unused, Holders, Holds
  <2>9. ReadersCounted'
    BY <2>3, <2>4, <2>8, HoldersKept
  <2> QED
    BY <2>5, <2>6, <2>7, <2>9 DEF IndInv
<1> QED
  BY <1>1, <1>2, <1>3 DEF Upload

LEMMA DownloadStep ==
    ASSUME IndInv, NEW r \in Reader, Download(r)
    PROVE  IndInv'
<1>0. TypeOK /\ HashAgrees /\ OpenedStaysStored /\ ReadersCounted
  BY DEF IndInv
<1>1. ASSUME NEW h \in Hash, Get(r, h)
      PROVE  IndInv'
  <2>0. s[h] \in FileId /\ s[h] # None /\ rd[r] = NotReading
    BY <1>0, <1>1 DEF Get, TypeOK
  <2>1. PICK f \in FileId : f = s[h]
    BY <2>0
  <2> DEFINE F == [file[f] EXCEPT !.OpenCount = @ + 1]
  <2>2. F \in File /\ F.Hash = file[f].Hash /\ F.OpenCount = file[f].OpenCount + 1
    BY <1>0, <2>1 DEF TypeOK, File
  <2>3. /\ file' = [file EXCEPT ![f] = F]
        /\ s' = s
        /\ rd' = [rd EXCEPT ![r] = [stage |-> "got", file |-> f]]
        /\ Size' = Size /\ up' = up
    BY <1>1, <2>1 DEF Get
  <2>4. \A q \in Reader : \/ rd'[q] = rd[q]
                          \/ rd'[q].file = s[h]
    BY <1>0, <2>1, <2>3 DEF TypeOK
  <2> HIDE DEF F
  <2>5. /\ file' \in [FileId -> File]
        /\ \A g \in FileId : file'[g].Hash = file[g].Hash
        /\ \A g \in FileId \ {f} : file'[g] = file[g]
        /\ file'[f] = F
    BY <1>0, <2>1, <2>2, <2>3, Counted
  <2>6. TypeOK'
    BY <1>0, <2>1, <2>3, <2>5 DEF TypeOK
  <2>7. HashAgrees' /\ OpenedStaysStored'
    <3>1. \A q \in Reader : \/ rd'[q] = NotReading
                            \/ rd[q] # NotReading /\ rd'[q].file = rd[q].file
                            \/ \E k \in Hash : s[k] # None /\ rd'[q].file = s[k]
      BY <2>0, <2>4
    <3> QED
      BY <2>3, <2>5, <3>1, LinksKept
  <2>8. /\ Cardinality(Holders(f)') = Cardinality(Holders(f)) + 1
        /\ \A g \in FileId \ {f} : Holders(g)' = Holders(g)
    BY <1>0, <2>0, <2>3, HoldersCount
  <2>9. ReadersCounted'
    <3> SUFFICES ASSUME NEW g \in FileId
                 PROVE  Cardinality(Holders(g)') <= file'[g].OpenCount
      BY DEF ReadersCounted
    <3>1. Cardinality(Holders(g)) \in Nat /\ file[g].OpenCount \in Nat
      BY <1>0, HoldersFinite DEF TypeOK, File
    <3>2. Cardinality(Holders(g)) <= file[g].OpenCount
      BY <1>0 DEF ReadersCounted
    <3>3. CASE g = f
      BY <3>1, <3>2, <3>3, <2>2, <2>5, <2>8
    <3>4. CASE g # f
      BY <3>2, <3>4, <2>5, <2>8
    <3> QED
      BY <3>3, <3>4
  <2> QED
    BY <2>6, <2>7, <2>9 DEF IndInv
<1>2. ASSUME Open(r)
      PROVE  IndInv'
  <2>1. /\ s' = s /\ file' = file /\ Size' = Size /\ up' = up
        /\ rd' = [rd EXCEPT ![r].stage = "reading"]
        /\ rd[r].stage = "got"
    BY <1>2 DEF Open
  <2>2. rd[r] \in [stage : {"got", "reading"}, file : FileId]
    BY <1>0, <2>1 DEF TypeOK
  <2>3. rd'[r] = [stage |-> "reading", file |-> rd[r].file] /\ rd[r] # NotReading
    BY <1>0, <2>1, <2>2 DEF TypeOK
  <2>4. \A q \in Reader \ {r} : rd'[q] = rd[q]
    BY <1>0, <2>1 DEF TypeOK
  <2>5. TypeOK'
    BY <1>0, <2>1, <2>2 DEF TypeOK
  <2>6. HashAgrees' /\ OpenedStaysStored'
    BY <1>0, <2>1, <2>3, <2>4 DEF HashAgrees, OpenedStaysStored
  <2>7. \A f \in FileId : Holders(f)' = Holders(f)
    BY <2>3, <2>4 DEF Holders, Holds
  <2>8. ReadersCounted'
    BY <1>0, <2>1, <2>7 DEF ReadersCounted
  <2> QED
    BY <2>5, <2>6, <2>8 DEF IndInv
<1>3. ASSUME ParseRangeFails(r)
      PROVE  IndInv'
  <2>1. /\ s' = s /\ file' = file /\ Size' = Size /\ up' = up
        /\ rd' = [rd EXCEPT ![r] = NotReading]
        /\ rd[r].stage = "got"
    BY <1>3 DEF ParseRangeFails
  <2>2. rd[r] \in [stage : {"got", "reading"}, file : FileId]
    BY <1>0, <2>1 DEF TypeOK
  <2>3. TypeOK'
    BY <1>0, <2>1 DEF TypeOK
  <2>4. \A q \in Reader : rd'[q] = NotReading \/ rd'[q] = rd[q]
    BY <1>0, <2>1 DEF TypeOK
  <2>5. HashAgrees' /\ OpenedStaysStored'
    BY <1>0, <2>1, <2>4 DEF HashAgrees, OpenedStaysStored
  <2>6. ReadersCounted'
    <3> SUFFICES ASSUME NEW g \in FileId
                 PROVE  Cardinality(Holders(g)') <= file'[g].OpenCount
      BY DEF ReadersCounted
    <3>1. Cardinality(Holders(g)) \in Nat /\ file[g].OpenCount \in Nat
      BY <1>0, HoldersFinite DEF TypeOK, File
    <3>2. Cardinality(Holders(g)) <= file[g].OpenCount
      BY <1>0 DEF ReadersCounted
    <3>3. CASE Holds(r, g)
      <4>1. Cardinality(Holders(g)') = Cardinality(Holders(g)) - 1
        BY <3>3, <1>0, <2>1, HoldersCount
      <4> QED
        BY <4>1, <3>1, <3>2, <2>1
    <3>4. CASE ~Holds(r, g)
      <4>1. Holders(g)' = Holders(g)
        BY <3>4, <1>0, <2>1 DEF Holders, Holds, TypeOK
      <4> QED
        BY <4>1, <3>2, <2>1
    <3> QED
      BY <3>3, <3>4
  <2> QED
    BY <2>3, <2>5, <2>6 DEF IndInv
<1>4. ASSUME Closed(r)
      PROVE  IndInv'
  <2>1. rd[r] \in [stage : {"got", "reading"}, file : FileId] /\ rd[r] # NotReading
    BY <1>0, <1>4 DEF Closed, TypeOK
  <2>a. PICK f \in FileId : f = rd[r].file
    BY <2>1
  <2> DEFINE F == [file[f] EXCEPT !.OpenCount = CountOut(@)]
  <2>2. f \in FileId /\ Holds(r, f) /\ file[f] \in File
    BY <1>0, <2>1, <2>a DEF Holds, TypeOK
  <2>3. /\ file' = [file EXCEPT ![f] = F]
        /\ s' = s
        /\ rd' = [rd EXCEPT ![r] = NotReading]
        /\ Size' = Size /\ up' = up
    BY <1>4, <2>a DEF Closed
  <2>4. /\ Cardinality(Holders(f)') = Cardinality(Holders(f)) - 1
        /\ Cardinality(Holders(f)) > 0
        /\ \A g \in FileId \ {f} : Holders(g)' = Holders(g)
    BY <1>0, <2>2, <2>3, HoldersCount
  <2>5. /\ Cardinality(Holders(f)) \in Nat
        /\ Cardinality(Holders(f)) <= file[f].OpenCount
        /\ file[f].OpenCount \in Nat
    BY <1>0, <2>2, HoldersFinite DEF ReadersCounted, File
  <2>6. file[f].OpenCount - 1 \in Nat
    BY <2>4, <2>5
  <2>7. F \in File /\ F.Hash = file[f].Hash /\ F.OpenCount = file[f].OpenCount - 1
    BY <2>2, <2>6 DEF File, CountOut
  <2> HIDE DEF F
  <2>8. /\ file' \in [FileId -> File]
        /\ \A g \in FileId : file'[g].Hash = file[g].Hash
        /\ \A g \in FileId \ {f} : file'[g] = file[g]
        /\ file'[f] = F
    BY <1>0, <2>2, <2>7, <2>3, Counted
  <2>9. TypeOK'
    BY <1>0, <2>3, <2>8 DEF TypeOK
  <2>10. \A q \in Reader : rd'[q] = NotReading \/ rd'[q] = rd[q]
    BY <1>0, <2>3 DEF TypeOK
  <2>11. HashAgrees' /\ OpenedStaysStored'
    BY <2>3, <2>8, <2>10, LinksKept
  <2>12. ReadersCounted'
    <3> SUFFICES ASSUME NEW g \in FileId
                 PROVE  Cardinality(Holders(g)') <= file'[g].OpenCount
      BY DEF ReadersCounted
    <3>1. CASE g = f
      BY <3>1, <2>4, <2>5, <2>7, <2>8
    <3>2. CASE g # f
      BY <3>2, <1>0, <2>4, <2>8 DEF ReadersCounted
    <3> QED
      BY <3>1, <3>2
  <2> QED
    BY <2>9, <2>11, <2>12 DEF IndInv
<1> QED
  BY <1>1, <1>2, <1>3, <1>4 DEF Download

\* Remove: a file object that leaves the store has OpenCount 0, so nobody
\* holds it.
LEMMA DeleteStep ==
    ASSUME IndInv, NEW h \in Hash, RemoveReplica(h) \/ RemoveLast(h)
    PROVE  IndInv'
<1>0. TypeOK /\ HashAgrees /\ OpenedStaysStored /\ ReadersCounted
  BY DEF IndInv
<1>1. s[h] \in FileId
  BY <1>0 DEF RemoveReplica, RemoveLast, TypeOK
<1>2. PICK f \in FileId : f = s[h]
  BY <1>1
<1>3. file[f] \in File /\ file[f].Hash = h
  BY <1>0, <1>2, NoneAssumption DEF TypeOK, HashAgrees
<1>4. CASE RemoveReplica(h)
  <2> DEFINE F == [file[f] EXCEPT !.ReplicaCount = @ - 1]
  <2>1. /\ file' = [file EXCEPT ![f] = F]
        /\ file[f].ReplicaCount > 1
        /\ UNCHANGED <<s, Size, up, rd>>
    BY <1>2, <1>4 DEF RemoveReplica
  <2>2. F \in File /\ F.Hash = file[f].Hash /\ F.OpenCount = file[f].OpenCount
    BY <1>3, <2>1 DEF File
  <2> HIDE DEF F
  <2>3. /\ file' \in [FileId -> File]
        /\ \A g \in FileId : file'[g].Hash = file[g].Hash
        /\ \A g \in FileId \ {f} : file'[g] = file[g]
        /\ file'[f] = F
    BY <1>0, <2>1, <2>2, Counted
  <2>4. TypeOK'
    BY <1>0, <2>1, <2>3 DEF TypeOK
  <2>5. HashAgrees' /\ OpenedStaysStored'
    BY <2>1, <2>3, LinksKept
  <2>6. ReadersCounted'
    BY <2>1, <2>2, <2>3, HoldersKept
  <2> QED
    BY <2>4, <2>5, <2>6 DEF IndInv
<1>5. CASE RemoveLast(h)
  <2>1. /\ s' = [s EXCEPT ![h] = None]
        /\ Size' = Size - SizeOf[h]
        /\ file[f].OpenCount = 0
        /\ UNCHANGED <<file, up, rd>>
    BY <1>2, <1>3, <1>5 DEF RemoveLast, Removable
  <2>2. Size' \in Int
    <3>1. Size \in Int
      BY <1>0 DEF TypeOK
    <3>2. SizeOf[h] \in Nat
      BY SizeAssumption
    <3> QED
      BY <3>1, <3>2, <2>1
  <2>3. TypeOK'
    BY <1>0, <2>1, <2>2 DEF TypeOK
  <2>4. HashAgrees'
    BY <1>0, <2>1 DEF HashAgrees, TypeOK
  <2>5. Holders(f) = {}
    <3>1. Cardinality(Holders(f)) <= 0
      BY <1>0, <2>1 DEF ReadersCounted
    <3> QED
      BY <3>1, HoldersFinite
  <2>6. OpenedStaysStored'
    <3> SUFFICES ASSUME NEW r \in Reader, rd[r] # NotReading
                 PROVE  s'[file[rd[r].file].Hash] = rd[r].file
      BY <2>1 DEF OpenedStaysStored
    <3>1. rd[r].file \in FileId /\ rd[r].file # f
      BY <1>0, <2>5 DEF TypeOK, Holders, Holds
    <3>2. s[file[rd[r].file].Hash] = rd[r].file /\ file[rd[r].file].Hash \in Hash
      BY <3>1, <1>0 DEF OpenedStaysStored, TypeOK, File
    <3>3. file[rd[r].file].Hash # h
      BY <3>1, <3>2, <1>2
    <3> QED
      BY <3>2, <3>3, <1>0, <2>1 DEF TypeOK
  <2>7. ReadersCounted'
    BY <1>0, <2>1 DEF ReadersCounted, Holders, Holds
  <2> QED
    BY <2>3, <2>4, <2>6, <2>7 DEF IndInv
<1> QED
  BY <1>4, <1>5

LEMMA RestartStep ==
    ASSUME IndInv, NewHashStore
    PROVE  IndInv'
<1>0. TypeOK
  BY DEF IndInv
<1>1. TypeOK'
  BY <1>0 DEF NewHashStore, TypeOK
<1>2. HashAgrees' /\ OpenedStaysStored'
  BY DEF NewHashStore, HashAgrees, OpenedStaysStored
<1>3. \A f \in FileId : Holders(f)' = {}
  BY DEF NewHashStore, Holders, Holds
<1>4. \A f \in FileId : file'[f].OpenCount \in Nat
  BY <1>1 DEF TypeOK, File
<1>5. ReadersCounted'
  BY <1>3, <1>4, FS_EmptySet DEF ReadersCounted
<1> QED
  BY <1>1, <1>2, <1>5 DEF IndInv

\* The inductive invariant holds in every reachable state.
THEOREM Invariance == Spec => []IndInv
<1>1. ASSUME IndInv, [Next]_vars
      PROVE  IndInv'
  <2>1. CASE \E u \in Uploader : Upload(u)
    BY <2>1, <1>1, UploadStep
  <2>2. CASE \E r \in Reader : Download(r)
    BY <2>2, <1>1, DownloadStep
  <2>3. CASE Delete
    BY <2>3, <1>1, DeleteStep DEF Delete
  <2>4. CASE NewHashStore
    BY <2>4, <1>1, RestartStep
  <2>5. CASE UNCHANGED vars
    BY <2>5, <1>1 DEF vars, IndInv, TypeOK, HashAgrees, OpenedStaysStored,
                      ReadersCounted, Holders, Holds
  <2> QED
    BY <1>1, <2>1, <2>2, <2>3, <2>4, <2>5 DEF Next
<1> QED
  BY InitInvariant, <1>1, PTL DEF Spec

\* Type correctness; in particular a download never counts OpenCount, a signed
\* number, below 0, after which Remove would refuse for good.
THEOREM TypeCorrect == Spec => []TypeOK
<1>1. IndInv => TypeOK
  BY DEF IndInv
<1> QED
  BY Invariance, <1>1, PTL

\* However many downloads, uploads and deletes run at once, and whatever Range
\* headers clients send, the store keeps a file object while a download has it.
THEOREM OpenedStays == Spec => []OpenedStaysStored
<1>1. IndInv => OpenedStaysStored
  BY DEF IndInv
<1> QED
  BY Invariance, <1>1, PTL
-----------------------------------------------------------------------------
(***************************************************************************)
(* Without bad Range headers nothing leaks: the OpenCount of a stored      *)
(* content outside BadRanges is exactly the number of its downloads.  This *)
(* is a second invariant, inductive relative to IndInv.                    *)
(***************************************************************************)
CountIsExact(h) == Cardinality(Holders(s[h])) = file[s[h]].OpenCount

ReadersExact == \A h \in Hash \ BadRanges : s[h] # None => CountIsExact(h)

\* A step that leaves alone the object stored for h, its readers and its
\* OpenCount keeps the count of h exact.
LEMMA ExactKept ==
    ASSUME ReadersExact, NEW h \in Hash \ BadRanges, s'[h] # None, s'[h] = s[h],
           Holders(s[h])' = Holders(s[h]), file'[s[h]].OpenCount = file[s[h]].OpenCount
    PROVE  CountIsExact(h)'
<1>1. CountIsExact(h)
  BY DEF ReadersExact
<1> QED
  BY <1>1 DEF CountIsExact

\* Uploads, deletes and a restart change no OpenCount of an object that stays
\* stored and no download of one.
LEMMA ExactOtherSteps ==
    ASSUME IndInv, ReadersExact,
           \/ \E u \in Uploader : Upload(u)
           \/ Delete
           \/ NewHashStore
           \/ UNCHANGED vars
    PROVE  ReadersExact'
<1>0. TypeOK /\ HashAgrees
  BY DEF IndInv
<1> SUFFICES ASSUME NEW h \in Hash \ BadRanges, s'[h] # None
             PROVE  CountIsExact(h)'
  BY DEF ReadersExact
<1>1. CASE NewHashStore
  BY <1>1 DEF NewHashStore
<1>2. CASE \E u \in Uploader, f \in FileId : AddNew(u, f)
  <2>1. PICK u \in Uploader, f \in FileId : AddNew(u, f)
    BY <1>2
  <2>2. /\ s' = [s EXCEPT ![up[u]] = f]
        /\ file' = [file EXCEPT ![f] = NewFile(up[u])]
        /\ rd' = rd /\ Unused(f)
    BY <2>1 DEF AddNew
  <2>3. CASE h = up[u]
    <3>1. s'[h] = f /\ file'[f].OpenCount = 0
      BY <2>2, <2>3, <1>0 DEF TypeOK, NewFile
    <3>2. Holders(s[h])' = {}
      BY <3>1, <2>2 DEF Holders, Holds, Unused
    <3> QED
      BY <3>1, <3>2, FS_EmptySet DEF CountIsExact, Holders, Holds
  <2>4. CASE h # up[u]
    <3>1. s'[h] = s[h] /\ s[h] # f /\ s[h] \in FileId
      BY <2>2, <2>4, <1>0 DEF TypeOK, Unused
    <3>2. file'[s[h]] = file[s[h]]
      BY <3>1, <2>2, <1>0 DEF TypeOK
    <3>3. Holders(s[h])' = Holders(s[h])
      BY <3>1, <2>2 DEF Holders, Holds
    <3> QED
      BY <3>1, <3>2, <3>3, ExactKept
  <2> QED
    BY <2>3, <2>4
<1>3. CASE \/ \E u \in Uploader : (\E k \in Hash : AddCopy(u, k)) \/ AddKnown(u) \/ AddFails(u)
           \/ Delete
           \/ UNCHANGED vars
  <2>1. rd' = rd
    BY <1>3 DEF AddCopy, AddKnown, AddFails, Delete, RemoveReplica, RemoveLast, vars
  <2>2. s'[h] = s[h] /\ s[h] \in FileId
    BY <1>3, <1>0 DEF AddCopy, AddKnown, AddFails, Delete, RemoveReplica, RemoveLast, vars, TypeOK
  <2>3. file'[s[h]].OpenCount = file[s[h]].OpenCount
    <3>1. CASE \/ \E u \in Uploader : (\E k \in Hash : AddCopy(u, k)) \/ AddFails(u)
               \/ \E k \in Hash : RemoveLast(k)
               \/ UNCHANGED vars
      BY <3>1 DEF AddCopy, AddFails, RemoveLast, vars
    <3>2. ASSUME NEW f, NEW F, file' = [file EXCEPT ![f] = F], F.OpenCount = file[f].OpenCount
          PROVE  file'[s[h]].OpenCount = file[s[h]].OpenCount
      BY <3>2, <2>2, <1>0 DEF TypeOK
    <3>3. ASSUME NEW u \in Uploader, AddKnown(u)
          PROVE  file'[s[h]].OpenCount = file[s[h]].OpenCount
      <4>1. s[up[u]] \in FileId
        BY <3>3, <1>0 DEF AddKnown, TypeOK
      <4>2. file[s[up[u]]] \in File
        BY <4>1, <1>0 DEF TypeOK
      <4>3. [file[s[up[u]]] EXCEPT !.ReplicaCount = @ + 1].OpenCount
                = file[s[up[u]]].OpenCount
        BY <4>2 DEF File
      <4>4. file' = [file EXCEPT ![s[up[u]]] = [file[s[up[u]]] EXCEPT !.ReplicaCount = @ + 1]]
        BY <3>3 DEF AddKnown
      <4> QED
        BY <4>3, <4>4, <3>2
    <3>4. ASSUME NEW k \in Hash, RemoveReplica(k)
          PROVE  file'[s[h]].OpenCount = file[s[h]].OpenCount
      <4>1. s[k] \in FileId
        BY <3>4, <1>0 DEF RemoveReplica, TypeOK
      <4>2. file[s[k]] \in File
        BY <4>1, <1>0 DEF TypeOK
      <4>3. [file[s[k]] EXCEPT !.ReplicaCount = @ - 1].OpenCount = file[s[k]].OpenCount
        BY <4>2 DEF File
      <4>4. file' = [file EXCEPT ![s[k]] = [file[s[k]] EXCEPT !.ReplicaCount = @ - 1]]
        BY <3>4 DEF RemoveReplica
      <4> QED
        BY <4>3, <4>4, <3>2
    <3> QED
      BY <1>3, <3>1, <3>3, <3>4 DEF Delete
  <2>4. Holders(s[h])' = Holders(s[h])
    BY <2>1, <2>2 DEF Holders, Holds
  <2> QED
    BY <2>2, <2>3, <2>4, ExactKept
<1> QED
  BY <1>1, <1>2, <1>3 DEF Upload

\* Get and the deferred decrement move both sides by one; only a bad Range header
\* takes a download away without the decrement, and its content is in BadRanges.
LEMMA ExactDownload ==
    ASSUME IndInv, ReadersExact, NEW r \in Reader, Download(r)
    PROVE  ReadersExact'
<1>0. TypeOK /\ HashAgrees /\ OpenedStaysStored
  BY DEF IndInv
<1> SUFFICES ASSUME NEW k \in Hash \ BadRanges, s'[k] # None
             PROVE  CountIsExact(k)'
  BY DEF ReadersExact
<1>1. s' = s
  BY DEF Download, Get, ParseRangeFails, Open, Closed
<1>2. s[k] \in FileId /\ file[s[k]] \in File /\ file[s[k]].Hash = k
  BY <1>0, <1>1 DEF TypeOK, HashAgrees
<1>3. /\ Cardinality(Holders(s[k])) = file[s[k]].OpenCount
      /\ Cardinality(Holders(s[k])) \in Nat
  BY <1>1, <1>2, HoldersFinite DEF ReadersExact, CountIsExact
<1>4. SUFFICES Cardinality(Holders(s[k])') = file'[s[k]].OpenCount
  BY <1>1 DEF CountIsExact, Holders, Holds
<1>5. ASSUME NEW h \in Hash, Get(r, h)
      PROVE  Cardinality(Holders(s[k])') = file'[s[k]].OpenCount
  <2>1. /\ rd[r] = NotReading /\ s[h] \in FileId
        /\ file' = [file EXCEPT ![s[h]].OpenCount = @ + 1]
        /\ rd' = [rd EXCEPT ![r] = [stage |-> "got", file |-> s[h]]]
    BY <1>5, <1>0 DEF Get, TypeOK
  <2>2. /\ Cardinality(Holders(s[h])') = Cardinality(Holders(s[h])) + 1
        /\ \A g \in FileId \ {s[h]} : Holders(g)' = Holders(g)
    <3>1. PICK f \in FileId : f = s[h]
      BY <2>1
    <3>2. /\ Cardinality(Holders(f)') = Cardinality(Holders(f)) + 1
          /\ \A g \in FileId \ {f} : Holders(g)' = Holders(g)
      BY <3>1, <2>1, <1>0, HoldersCount
    <3> QED
      BY <3>1, <3>2, <1>1 DEF Holders, Holds
  <2>3. CASE s[k] = s[h]
    <3>1. file'[s[k]].OpenCount = file[s[k]].OpenCount + 1
      BY <2>1, <2>3, <1>0, <1>2 DEF TypeOK, File
    <3>2. Cardinality(Holders(s[k])') = Cardinality(Holders(s[k])) + 1
      BY <2>2, <2>3, <1>1
    <3> QED
      BY <3>1, <3>2, <1>3
  <2>4. CASE s[k] # s[h]
    <3>1. file'[s[k]] = file[s[k]]
      BY <2>1, <2>4, <1>0, <1>2 DEF TypeOK
    <3> QED
      BY <3>1, <2>2, <2>4, <1>2, <1>3, <1>1 DEF Holders, Holds
  <2> QED
    BY <2>3, <2>4
<1>6. CASE Open(r)
  <2>1. rd[r].stage = "got" /\ rd' = [rd EXCEPT ![r].stage = "reading"] /\ file' = file
    BY <1>6 DEF Open
  <2>2. rd[r] \in [stage : {"got", "reading"}, file : FileId]
    BY <1>0, <2>1 DEF TypeOK
  <2>3. \A q \in Reader : (rd'[q] # NotReading <=> rd[q] # NotReading) /\ rd'[q].file = rd[q].file
    BY <1>0, <2>1, <2>2 DEF TypeOK
  <2>4. Holders(s[k])' = Holders(s[k])
    BY <2>3, <1>1 DEF Holders, Holds
  <2> QED
    BY <2>1, <2>4, <1>3
<1>7. ASSUME ParseRangeFails(r) \/ Closed(r)
      PROVE  Cardinality(Holders(s[k])') = file'[s[k]].OpenCount
  <2>1. /\ rd[r] \in [stage : {"got", "reading"}, file : FileId] /\ rd[r] # NotReading
        /\ rd' = [rd EXCEPT ![r] = NotReading]
    BY <1>7, <1>0 DEF ParseRangeFails, Closed, TypeOK
  <2>2. PICK f \in FileId : f = rd[r].file
    BY <2>1
  <2>3. Holds(r, f)
    BY <2>1, <2>2 DEF Holds
  <2>4. /\ Cardinality(Holders(f)') = Cardinality(Holders(f)) - 1
        /\ \A g \in FileId \ {f} : Holders(g)' = Holders(g)
    BY <2>1, <2>3, <1>0, HoldersCount
  <2>5. CASE s[k] = f
    <3>1. ~ParseRangeFails(r)
      BY <2>2, <2>5, <1>2 DEF ParseRangeFails
    <3>2. file' = [file EXCEPT ![f].OpenCount = @ - 1]
      BY <3>1, <2>2, <1>7 DEF Closed, CountOut
    <3>3. file'[f].OpenCount = file[f].OpenCount - 1
      BY <3>2, <2>5, <1>0, <1>2 DEF TypeOK, File
    <3>4. Holders(s[k])' = Holders(f)'
      BY <2>5, <1>1 DEF Holders, Holds
    <3> QED
      BY <3>3, <3>4, <2>4, <2>5, <1>3
  <2>6. CASE s[k] # f
    <3>1. file'[s[k]] = file[s[k]]
      BY <1>7, <2>2, <2>6, <1>0, <1>2 DEF TypeOK, ParseRangeFails, Closed
    <3>2. Holders(s[k])' = Holders(s[k])
      BY <2>4, <2>6, <1>1, <1>2 DEF Holders, Holds
    <3> QED
      BY <3>1, <3>2, <1>3
  <2> QED
    BY <2>5, <2>6
<1> QED
  BY <1>5, <1>6, <1>7 DEF Download

\* For every content that no rejected Range header names, OpenCount is exactly
\* the number of downloads that hold the stored object; so Remove's "file is being
\* accessed by other goroutine" is always true.
THEOREM ReadersOut == Spec => []ReadersCountedOut
<1>1. Init => ReadersExact
  BY DEF Init, ReadersExact
<1>2. ASSUME IndInv, ReadersExact, [Next]_vars
      PROVE  ReadersExact'
  BY <1>2, ExactOtherSteps, ExactDownload DEF Next
<1>3. ASSUME IndInv, ReadersExact
      PROVE  ReadersCountedOut
  <2> SUFFICES ASSUME NEW h \in Hash \ BadRanges, s[h] # None, file[s[h]].OpenCount # 0
               PROVE  \E r \in Reader : Holds(r, s[h])
    BY DEF ReadersCountedOut, RefusalHasReader
  <2>1. s[h] \in FileId /\ Cardinality(Holders(s[h])) # 0
    BY <1>3 DEF IndInv, TypeOK, ReadersExact, CountIsExact
  <2>2. Holders(s[h]) # {}
    BY <2>1, HoldersFinite
  <2> QED
    BY <2>2 DEF Holders
<1> QED
  BY Invariance, <1>1, <1>2, <1>3, PTL DEF Spec

-----------------------------------------------------------------------------
(***************************************************************************)
(* The total size of a set of contents.  It is a fold, hence a recursive   *)
(* function on the subsets of that set, which takes a chosen element out   *)
(* at a time: g folds the subsets of S with at most m elements.            *)
(***************************************************************************)
TotalSize(S) == MapThenSumSet(LAMBDA h : SizeOf[h], S)

Stored == {h \in Hash : s[h] # None}

Chosen(U) == CHOOSE h \in U : TRUE

SumStep(g, U) == IF U = {} THEN 0 ELSE SizeOf[Chosen(U)] + g[U \ {Chosen(U)}]

Sums(g, S, m) == \A U \in SUBSET S : Cardinality(U) <= m => g[U] = SumStep(g, U)

\* A non-empty set of naturals has a least element.
LEMMA NatMin ==
    ASSUME NEW T, T \subseteq Nat, T # {}
    PROVE  \E n \in T : \A m \in T : n <= m
<1> DEFINE R == OpToRel(<, Nat)
<1>1. IsWellFoundedOn(R, Nat)
  BY NatLessThanWellFounded, Zenon
<1>2. \A m, n \in Nat : m < n => <<m, n>> \in R
  BY DEF OpToRel
<1> HIDE DEF R
<1>3. PICK n \in T : \A m \in T : ~(<<m, n>> \in R)
  BY <1>1, WFMin, Zenon
<1>4. ASSUME NEW m \in T
      PROVE  n <= m
  <2>1. m \in Nat /\ n \in Nat
    OBVIOUS
  <2>2. ~(m < n)
    BY <1>2, <1>3, <2>1, Zenon
  <2> QED
    BY <2>1, <2>2
<1> QED
  BY <1>4

LEMMA ChosenIn ==
    ASSUME NEW U, IsFiniteSet(U), U # {}
    PROVE  /\ Chosen(U) \in U
           /\ Cardinality(U \ {Chosen(U)}) = Cardinality(U) - 1
           /\ IsFiniteSet(U \ {Chosen(U)})
<1>1. Chosen(U) \in U
  BY DEF Chosen
<1> QED
  BY <1>1, FS_RemoveElement

\* There is a function that folds all subsets: those with fewer elements come first.
LEMMA SumsExist ==
    ASSUME NEW S, IsFiniteSet(S)
    PROVE  \E g : Sums(g, S, Cardinality(S))
<1> DEFINE n == Cardinality(S)
           T == {m \in 0 .. n : ~\E g : Sums(g, S, m)}
<1>1. n \in Nat
  BY FS_CardinalityType
<1>c. \A U \in SUBSET S : IsFiniteSet(U) /\ Cardinality(U) \in Nat
  BY FS_Subset, FS_CardinalityType
<1>2. SUFFICES T = {}
  <2>1. n \in 0 .. n
    BY <1>1
  <2> QED
    BY <1>2, <2>1, Zenon
<1>3. SUFFICES ASSUME T # {} PROVE FALSE
  OBVIOUS
<1> HIDE DEF n
<1>4. PICK m \in T : \A i \in T : m <= i
  <2>1. T \subseteq Nat
    BY <1>1
  <2> HIDE DEF T
  <2> QED
    BY <1>3, <2>1, NatMin
<1>5. \E g : m # 0 => Sums(g, S, m - 1)
  BY <1>1, <1>4
<1>6. PICK g : m # 0 => Sums(g, S, m - 1)
  BY <1>5
<1> DEFINE f == [U \in SUBSET S |-> IF Cardinality(U) = m THEN SumStep(g, U) ELSE g[U]]
<1>7. ASSUME NEW U \in SUBSET S, Cardinality(U) <= m
      PROVE  f[U] = SumStep(f, U)
  <2>1. ASSUME U # {}
        PROVE  f[U \ {Chosen(U)}] = g[U \ {Chosen(U)}]
    <3>1. Cardinality(U \ {Chosen(U)}) # m
      BY <1>c, <1>1, <1>4, <1>7, <2>1, ChosenIn
    <3> QED
      BY <3>1
  <2>2. SumStep(f, U) = SumStep(g, U)
    <3> HIDE DEF f
    <3> QED
      BY <2>1 DEF SumStep
  <2>3. CASE Cardinality(U) = m
    BY <2>2, <2>3
  <2>4. CASE Cardinality(U) # m
    <3>1. m # 0 /\ Cardinality(U) <= m - 1
      BY <1>c, <1>1, <1>4, <1>7, <2>4
    <3>2. g[U] = SumStep(g, U)
      BY <1>6, <3>1 DEF Sums
    <3> QED
      BY <2>2, <2>4, <3>2
  <2> QED
    BY <2>3, <2>4
<1>8. Sums(f, S, m)
  <2> HIDE DEF f
  <2> QED
    BY <1>7 DEF Sums
<1> QED
  BY <1>4, <1>8

LEMMA TotalSums ==
    ASSUME NEW S, IsFiniteSet(S)
    PROVE  \E g : Sums(g, S, Cardinality(S)) /\ TotalSize(S) = g[S]
<1> DEFINE n == Cardinality(S)
           B(g) == [U \in SUBSET S |-> SumStep(g, U)]
           sum == CHOOSE g : g = B(g)
<1>1. PICK g : Sums(g, S, n)
  BY SumsExist
<1>2. \A U \in SUBSET S : Cardinality(U) <= n
  BY FS_Subset
<1> DEFINE f == [U \in SUBSET S |-> g[U]]
<1>3. ASSUME NEW U \in SUBSET S
      PROVE  f[U] = SumStep(f, U)
  <2>1. SumStep(f, U) = SumStep(g, U)
    BY DEF SumStep
  <2> QED
    BY <1>1, <1>2, <2>1 DEF Sums
<1>4. f = B(f)
  BY <1>3
<1>5. sum = B(sum)
  BY <1>4
<1>6. Sums(sum, S, n)
  <2> HIDE DEF sum
  <2> QED
    BY <1>5 DEF Sums
<1>7. TotalSize(S) = sum[S]
  BY DEF TotalSize, MapThenSumSet, MapThenFoldSet, SumStep, Chosen
<1> QED
  BY <1>6, <1>7

\* Any element can be taken out first.
LEMMA SumsAnyOrder ==
    ASSUME NEW S \in SUBSET Hash, IsFiniteSet(S), NEW g, Sums(g, S, Cardinality(S))
    PROVE  \A U \in SUBSET S : g[U] \in Nat /\ \A h \in U : g[U] = SizeOf[h] + g[U \ {h}]
<1> DEFINE P(U) == g[U] \in Nat /\ \A h \in U : g[U] = SizeOf[h] + g[U \ {h}]
           T == {k \in Nat : \E U \in SUBSET S : Cardinality(U) = k /\ ~P(U)}
<1>c. \A U \in SUBSET S : /\ IsFiniteSet(U) /\ Cardinality(U) \in Nat
                          /\ g[U] = SumStep(g, U)
  BY FS_Subset, FS_CardinalityType DEF Sums
<1> SUFFICES ASSUME T # {} PROVE FALSE
  <2> HIDE DEF P
  <2> SUFFICES \A U \in SUBSET S : P(U)
    BY DEF P
  <2> QED
    BY <1>c
<1>1. PICK k \in T : \A i \in T : k <= i
  <2>1. T \subseteq Nat
    OBVIOUS
  <2> HIDE DEF T
  <2> QED
    BY <2>1, NatMin
<1>2. PICK U \in SUBSET S : Cardinality(U) = k /\ ~P(U)
  BY <1>1
<1> HIDE DEF P
<1>3. ASSUME NEW V \in SUBSET S, Cardinality(V) < k
      PROVE  P(V)
  BY <1>c, <1>1, <1>3
<1> HIDE DEF T
<1>4. CASE U = {}
  BY <1>c, <1>2, <1>4 DEF P, SumStep
<1>5. CASE U # {}
  <2> DEFINE x == Chosen(U)
  <2>1. /\ x \in U /\ U \ {x} \in SUBSET S /\ Cardinality(U \ {x}) < k
        /\ g[U] = SizeOf[x] + g[U \ {x}]
    BY <1>c, <1>2, <1>5, ChosenIn DEF SumStep
  <2> HIDE DEF x
  <2>2. g[U \ {x}] \in Nat /\ \A h \in U \ {x} : g[U \ {x}] = SizeOf[h] + g[(U \ {x}) \ {h}]
    BY <1>3, <2>1 DEF P
  <2>3. \A h \in Hash : SizeOf[h] \in Nat
    BY SizeAssumption
  <2>4. g[U] \in Nat
    BY <2>1, <2>2, <2>3
  <2>5. ASSUME NEW h \in U, h # x
        PROVE  g[U] = SizeOf[h] + g[U \ {h}]
    <3>1. U \ {h} \in SUBSET S /\ Cardinality(U \ {h}) < k /\ x \in U \ {h}
      BY <1>c, <1>2, <2>1, <2>5, FS_RemoveElement
    <3>2. g[U \ {h}] \in Nat /\ g[U \ {h}] = SizeOf[x] + g[(U \ {h}) \ {x}]
      BY <1>3, <3>1 DEF P
    <3>3. (U \ {h}) \ {x} = (U \ {x}) \ {h}
      OBVIOUS
    <3> DEFINE W == (U \ {x}) \ {h}
    <3>4. W \in SUBSET S /\ Cardinality(W) < k
      <4>1. IsFiniteSet(U \ {x}) /\ Cardinality(U \ {x}) \in Nat /\ h \in U \ {x}
        BY <1>c, <2>1, <2>5
      <4>2. Cardinality(W) = Cardinality(U \ {x}) - 1
        BY <4>1, FS_RemoveElement
      <4> QED
        BY <1>c, <1>2, <2>1, <4>1, <4>2
    <3>5. g[W] \in Nat
      BY <1>3, <3>4 DEF P
    <3>6. g[U \ {x}] = SizeOf[h] + g[W] /\ g[U \ {h}] = SizeOf[x] + g[W]
      BY <2>2, <2>5, <3>2, <3>3
    <3> HIDE DEF W
    <3> QED
      BY <2>1, <2>3, <3>5, <3>6
  <2>6. P(U)
    BY <2>1, <2>4, <2>5 DEF P
  <2> QED
    BY <1>2, <2>6
<1> QED
  BY <1>4, <1>5

\* Two functions that fold agree where both do.
LEMMA SumsAgree ==
    ASSUME NEW S, IsFiniteSet(S), NEW R \in SUBSET S, NEW f, NEW g,
           Sums(f, S, Cardinality(S)), Sums(g, R, Cardinality(R))
    PROVE  f[R] = g[R]
<1> DEFINE T == {k \in Nat : \E U \in SUBSET R : Cardinality(U) = k /\ f[U] # g[U]}
<1>c. \A U \in SUBSET R : /\ IsFiniteSet(U) /\ Cardinality(U) \in Nat
                          /\ f[U] = SumStep(f, U) /\ g[U] = SumStep(g, U)
  <2>1. IsFiniteSet(R)
    BY FS_Subset
  <2>2. \A U \in SUBSET R : U \in SUBSET S /\ IsFiniteSet(U) /\ Cardinality(U) \in Nat
    BY <2>1, FS_Subset, FS_CardinalityType
  <2>3. \A U \in SUBSET R : Cardinality(U) <= Cardinality(R) /\ Cardinality(U) <= Cardinality(S)
    BY <2>1, <2>2, FS_Subset
  <2> QED
    BY <2>2, <2>3 DEF Sums
<1> SUFFICES ASSUME T # {} PROVE FALSE
  BY <1>c
<1>1. PICK k \in T : \A i \in T : k <= i
  <2>1. T \subseteq Nat
    OBVIOUS
  <2> HIDE DEF T
  <2> QED
    BY <2>1, NatMin
<1>2. PICK U \in SUBSET R : Cardinality(U) = k /\ f[U] # g[U]
  BY <1>1
<1>3. ASSUME NEW V \in SUBSET R, Cardinality(V) < k
      PROVE  f[V] = g[V]
  BY <1>c, <1>1, <1>3
<1> HIDE DEF T
<1>4. U # {}
  BY <1>c, <1>2 DEF SumStep
<1>5. U \ {Chosen(U)} \in SUBSET R /\ Cardinality(U \ {Chosen(U)}) < k
  BY <1>c, <1>2, <1>4, ChosenIn
<1>6. f[U \ {Chosen(U)}] = g[U \ {Chosen(U)}]
  BY <1>3, <1>5
<1> QED
  BY <1>c, <1>2, <1>6 DEF SumStep

\* The total of a finite set of contents, with one of them left out.
LEMMA TotalWithout ==
    ASSUME NEW S \in SUBSET Hash, IsFiniteSet(S), NEW h \in S
    PROVE  /\ TotalSize(S) = SizeOf[h] + TotalSize(S \ {h})
           /\ TotalSize(S \ {h}) \in Nat
<1>1. PICK f : Sums(f, S, Cardinality(S)) /\ TotalSize(S) = f[S]
  BY TotalSums
<1>2. IsFiniteSet(S \ {h})
  BY FS_RemoveElement
<1>3. PICK g : Sums(g, S \ {h}, Cardinality(S \ {h})) /\ TotalSize(S \ {h}) = g[S \ {h}]
  BY <1>2, TotalSums
<1>4. f[S \ {h}] = g[S \ {h}]
  BY <1>1, <1>3, SumsAgree
<1>5. /\ \A U \in SUBSET S : f[U] \in Nat /\ \A x \in U : f[U] = SizeOf[x] + f[U \ {x}]
  BY <1>1, SumsAnyOrder
<1>6. f[S] = SizeOf[h] + f[S \ {h}] /\ f[S \ {h}] \in Nat
  BY <1>5
<1> QED
  BY <1>1, <1>3, <1>4, <1>6

LEMMA TotalOfNone == TotalSize({}) = 0
<1>1. IsFiniteSet({}) /\ Cardinality({}) = 0
  BY FS_EmptySet
<1>2. PICK g : Sums(g, {}, Cardinality({})) /\ TotalSize({}) = g[{}]
  BY <1>1, TotalSums
<1> QED
  BY <1>1, <1>2 DEF Sums, SumStep

(***************************************************************************)
(* The store holds finitely many contents at any time, and Size is theirs. *)
(***************************************************************************)
SizeInv == IsFiniteSet(Stored) /\ Size = TotalSize(Stored)

LEMMA SizeInit == Init => SizeInv
<1> SUFFICES ASSUME Init PROVE SizeInv
  OBVIOUS
<1>1. Stored = {} /\ Size = 0
  BY DEF Init, Stored
<1> QED
  BY <1>1, TotalOfNone, FS_EmptySet DEF SizeInv

LEMMA SizeNext == IndInv /\ SizeInv /\ [Next]_vars => SizeInv'
<1> SUFFICES ASSUME IndInv, SizeInv, [Next]_vars PROVE SizeInv'
  OBVIOUS
<1>0. ASSUME UNCHANGED <<s, Size>> PROVE SizeInv'
  <2>1. Stored' = Stored /\ Size' = Size
    BY <1>0 DEF Stored
  <2> QED
    BY <2>1 DEF SizeInv
<1>1. ASSUME NEW u \in Uploader, Upload(u)
      PROVE  SizeInv'
  <2>1. CASE \E f \in FileId : AddNew(u, f)
    <3>1. PICK f \in FileId : AddNew(u, f)
      BY <2>1
    <3> DEFINE h == up[u]
    <3>2. /\ h \in Hash /\ s[h] = None /\ s' = [s EXCEPT ![h] = f] /\ Size' = Size + SizeOf[h]
          /\ s \in [Hash -> FileId \cup {None}] /\ f # None
      BY <3>1, NoneAssumption DEF AddNew, GrownBy, IndInv, TypeOK
    <3> HIDE DEF h
    <3>3. Stored' = Stored \cup {h} /\ h \notin Stored
      BY <3>2 DEF Stored
    <3>4. Stored' \in SUBSET Hash /\ IsFiniteSet(Stored') /\ h \in Stored' /\ Stored' \ {h} = Stored
      <4>1. IsFiniteSet(Stored \cup {h})
        BY FS_AddElement DEF SizeInv
      <4> QED
        BY <3>2, <3>3, <4>1 DEF Stored
    <3>5. /\ TotalSize(Stored') = SizeOf[h] + TotalSize(Stored)
          /\ TotalSize(Stored) \in Nat
      BY <3>4, TotalWithout
    <3>6. SizeOf[h] \in Nat
      BY <3>2, SizeAssumption
    <3>7. Size' = TotalSize(Stored')
      BY <3>2, <3>5, <3>6 DEF SizeInv
    <3> QED
      BY <3>4, <3>7 DEF SizeInv
  <2>2. CASE (\E h \in Hash : AddCopy(u, h)) \/ AddKnown(u) \/ AddFails(u)
    BY <1>0, <2>2 DEF AddCopy, AddKnown, AddFails
  <2> QED
    BY <1>1, <2>1, <2>2 DEF Upload
<1>2. ASSUME NEW r \in Reader, Download(r)
      PROVE  SizeInv'
  BY <1>0, <1>2 DEF Download, Get, ParseRangeFails, Open, Closed
<1>3. ASSUME NEW h \in Hash, RemoveReplica(h)
      PROVE  SizeInv'
  BY <1>0, <1>3 DEF RemoveReplica
<1>4. ASSUME NEW h \in Hash, RemoveLast(h)
      PROVE  SizeInv'
  <2>1. /\ s[h] # None /\ s' = [s EXCEPT ![h] = None] /\ Size' = Size - SizeOf[h]
        /\ s \in [Hash -> FileId \cup {None}]
    BY <1>4 DEF RemoveLast, IndInv, TypeOK, HashAgrees
  <2>2. Stored' = Stored \ {h} /\ h \in Stored /\ Stored \in SUBSET Hash
    BY <2>1 DEF Stored
  <2>3. /\ TotalSize(Stored) = SizeOf[h] + TotalSize(Stored \ {h})
        /\ TotalSize(Stored \ {h}) \in Nat
    BY <2>2, TotalWithout DEF SizeInv
  <2>4. SizeOf[h] \in Nat /\ IsFiniteSet(Stored \ {h})
    BY SizeAssumption, FS_RemoveElement DEF SizeInv
  <2>5. Size' = TotalSize(Stored \ {h})
    BY <2>1, <2>3, <2>4 DEF SizeInv
  <2> QED
    BY <2>2, <2>4, <2>5 DEF SizeInv
<1>5. CASE NewHashStore
  <2>1. Stored' = {} /\ Size' = 0
    BY <1>5 DEF NewHashStore, Stored
  <2>2. TotalSize({}) = 0 /\ IsFiniteSet({})
    BY TotalOfNone, FS_EmptySet
  <2> QED
    BY <2>1, <2>2 DEF SizeInv
<1>6. CASE UNCHANGED vars
  BY <1>0, <1>6 DEF vars
<1> QED
  BY <1>1, <1>2, <1>3, <1>4, <1>5, <1>6 DEF Next, Delete

\* h.Size is the total size of the contents in the store, whatever the number of
\* contents and however uploads, downloads, deletes and restarts interleave: the
\* second of two concurrent Adds of one content adds nothing, and Remove takes
\* away what the Add of that very object had added.
THEOREM SizeIsTotal == Spec => []SizeAccounted
<1>1. SizeInv => SizeAccounted
  BY DEF SizeInv, SizeAccounted, TotalSize, Stored
<1> QED
  BY <1>1, Invariance, SizeInit, SizeNext, PTL DEF Spec

-----------------------------------------------------------------------------
(***************************************************************************)
(* The other state of a data node: its download links (module              *)
(* DownloadLinks), for any number of requests and links.                   *)
(*                                                                         *)
(* UpdateQueue's loop is a recursive function of the number of iterations; *)
(* g is that loop for the first m of them.                                 *)
(***************************************************************************)
LoopState(n) == [data : [1 .. n -> Id], len : 0 .. n, gone : SUBSET Id, panic : BOOLEAN]

LoopStart ==
    [data |-> downloadsQueue, len |-> Len(downloadsQueue), gone |-> {}, panic |-> FALSE]

LoopBody(p, i, t) ==
    IF p.panic \/ ~Stale(p.data[i], t) THEN p
    ELSE IF i > p.len
    THEN [p EXCEPT !.gone = @ \cup {p.data[i]}, !.panic = TRUE]
    ELSE [data |-> ShiftedFrom(p.data, i, p.len), len |-> p.len - 1,
          gone |-> p.gone \cup {p.data[i]}, panic |-> FALSE]

LoopStep(g, i, t) == IF i = 0 THEN LoopStart ELSE LoopBody(g[i - 1], i, t)

LoopRuns(g, m, t) == \A i \in 0 .. m : g[i] = LoopStep(g, i, t)

\* There is such a loop, and UpdateLoop is what it returns.
LEMMA LoopExists ==
    ASSUME NEW n \in Nat, NEW t
    PROVE  \E g : LoopRuns(g, n, t)
<1> DEFINE T == {m \in 0 .. n : ~\E g : LoopRuns(g, m, t)}
<1>1. SUFFICES T = {}
  <2>1. n \in 0 .. n
    OBVIOUS
  <2> QED
    BY <1>1, <2>1, Zenon
<1>2. SUFFICES ASSUME T # {} PROVE FALSE
  OBVIOUS
<1>3. PICK m \in T : \A i \in T : m <= i
  <2>1. T \subseteq Nat
    OBVIOUS
  <2> HIDE DEF T
  <2> QED
    BY <1>2, <2>1, NatMin
<1>4. \E g : m # 0 => LoopRuns(g, m - 1, t)
  BY <1>3
<1>5. PICK g : m # 0 => LoopRuns(g, m - 1, t)
  BY <1>4
<1> DEFINE f == [i \in 0 .. n |-> IF i = m THEN LoopStep(g, m, t) ELSE g[i]]
<1>6. ASSUME NEW i \in 0 .. m
      PROVE  f[i] = LoopStep(f, i, t)
  <2>1. ASSUME i # 0
        PROVE  f[i - 1] = g[i - 1]
    BY <2>1
  <2>2. LoopStep(f, i, t) = LoopStep(g, i, t)
    <3> HIDE DEF f
    <3> QED
      BY <2>1 DEF LoopStep
  <2> QED
    BY <1>5, <2>2 DEF LoopRuns
<1>7. LoopRuns(f, m, t)
  BY <1>6 DEF LoopRuns
<1> QED
  BY <1>7

LEMMA UpdateLoopRuns ==
    ASSUME NEW t, Len(downloadsQueue) \in Nat
    PROVE  \E g : /\ LoopRuns(g, Len(downloadsQueue), t)
                  /\ UpdateLoop(t) = g[Len(downloadsQueue)]
<1> DEFINE n == Len(downloadsQueue)
           B(g) == [i \in 0 .. n |-> LoopStep(g, i, t)]
           loop == CHOOSE g : g = B(g)
<1>1. PICK g : LoopRuns(g, n, t)
  BY LoopExists
<1> DEFINE f == [i \in 0 .. n |-> g[i]]
<1>2. ASSUME NEW i \in 0 .. n
      PROVE  f[i] = LoopStep(f, i, t)
  <2>1. i # 0 => i - 1 \in 0 .. n
    OBVIOUS
  <2>2. LoopStep(f, i, t) = LoopStep(g, i, t)
    BY <2>1 DEF LoopStep
  <2> QED
    BY <1>1, <2>2 DEF LoopRuns
<1>3. f = B(f)
  BY <1>2
<1>4. loop = B(loop)
  BY <1>3
<1>5. LoopRuns(loop, n, t)
  <2> HIDE DEF loop
  <2> QED
    BY <1>4 DEF LoopRuns
<1>6. UpdateLoop(t) = loop[n]
  BY DEF UpdateLoop, LoopStep, LoopStart, LoopBody
<1> QED
  BY <1>5, <1>6

\* The queue holds the links of the map, each once.
QueueMatches ==
    /\ downloadsQueue \in Seq(Id)
    /\ \A i, j \in 1 .. Len(downloadsQueue) : downloadsQueue[i] = downloadsQueue[j] => i = j
    /\ {downloadsQueue[i] : i \in 1 .. Len(downloadsQueue)} = downloads

\* The array up to len holds the links not gone, each once.
LoopGood(p) ==
    /\ \A i, j \in 1 .. p.len : p.data[i] = p.data[j] => i = j
    /\ {p.data[i] : i \in 1 .. p.len} = downloads \ p.gone

\* A removal takes one link out of the array and shifts the others; a loop that
\* does not panic hence leaves those not gone, and only stale links are gone.
LEMMA LoopBodyGood ==
    ASSUME NEW n \in Nat, NEW t, NEW p \in LoopState(n), NEW i \in 1 .. n,
           p.panic \/ LoopGood(p), \A x \in p.gone : Stale(x, t)
    PROVE  LET r == LoopBody(p, i, t) IN
           /\ r \in LoopState(n)
           /\ r.panic \/ LoopGood(r)
           /\ \A x \in r.gone : Stale(x, t)
<1> DEFINE r == LoopBody(p, i, t)
<1>t. /\ p.data \in [1 .. n -> Id] /\ p.len \in 0 .. n /\ p.gone \in SUBSET Id
      /\ p.panic \in BOOLEAN /\ p.data[i] \in Id
  BY DEF LoopState
<1>1. CASE p.panic \/ ~Stale(p.data[i], t)
  BY <1>1 DEF LoopBody
<1>2. CASE ~p.panic /\ Stale(p.data[i], t) /\ i > p.len
  <2>1. r = [p EXCEPT !.gone = @ \cup {p.data[i]}, !.panic = TRUE]
    BY <1>2 DEF LoopBody
  <2> HIDE DEF r
  <2>2. r \in LoopState(n) /\ r.panic /\ r.gone = p.gone \cup {p.data[i]}
    BY <1>t, <2>1 DEF LoopState
  <2> QED
    BY <1>2, <2>2 DEF r
<1>3. CASE ~p.panic /\ Stale(p.data[i], t) /\ i <= p.len
  <2> DEFINE l == p.len
             d == p.data
             e == ShiftedFrom(d, i, l)
  <2>1. r = [data |-> e, len |-> l - 1, gone |-> p.gone \cup {d[i]}, panic |-> FALSE]
    BY <1>t, <1>3 DEF LoopBody
  <2>2. /\ e \in [1 .. n -> Id]
        /\ \A k \in 1 .. (i - 1) : e[k] = d[k]
        /\ \A k \in i .. (l - 1) : e[k] = d[k + 1]
    <3> DEFINE v(k) == IF k >= i /\ k < l THEN d[k + 1] ELSE d[k]
    <3>1. e = [k \in 1 .. n |-> v(k)]
      BY <1>t DEF ShiftedFrom
    <3>2. \A k \in 1 .. n : v(k) \in Id
      BY <1>t, <1>3
    <3>3. \A k \in 1 .. n : e[k] = v(k)
      <4> HIDE DEF v, e
      <4> QED
        BY <3>1
    <3>4. e \in [1 .. n -> Id]
      <4> HIDE DEF v, e
      <4> QED
        BY <3>1, <3>2
    <3>5. ASSUME NEW k \in 1 .. (i - 1)
          PROVE  e[k] = d[k]
      <4>1. k \in 1 .. n /\ ~(k >= i)
        BY <1>t
      <4> QED
        BY <3>3, <4>1
    <3>6. ASSUME NEW k \in i .. (l - 1)
          PROVE  e[k] = d[k + 1]
      <4>1. k \in 1 .. n /\ k >= i /\ k < l
        BY <1>t
      <4> QED
        BY <3>3, <4>1
    <3> QED
      BY <3>4, <3>5, <3>6
  <2> HIDE DEF e, r
  <2>3. /\ r \in LoopState(n) /\ r.data = e /\ r.len = l - 1 /\ r.gone = p.gone \cup {d[i]}
    <3>1. l - 1 \in 0 .. n
      BY <1>t, <1>3
    <3> QED
      BY <1>t, <2>1, <2>2, <3>1 DEF LoopState
  <2>4. /\ \A x, y \in 1 .. l : d[x] = d[y] => x = y
        /\ {d[x] : x \in 1 .. l} = downloads \ p.gone
    BY <1>3 DEF LoopGood
  <2> DEFINE src(k) == IF k < i THEN k ELSE k + 1
  <2>5. /\ \A k \in 1 .. (l - 1) : src(k) \in 1 .. l /\ src(k) # i /\ e[k] = d[src(k)]
        /\ \A x, y \in 1 .. (l - 1) : src(x) = src(y) => x = y
    <3>1. ASSUME NEW k \in 1 .. (l - 1)
          PROVE  src(k) \in 1 .. l /\ src(k) # i /\ e[k] = d[src(k)]
      <4>1. CASE k < i
        BY <1>t, <2>2, <4>1
      <4>2. CASE ~(k < i)
        BY <1>t, <2>2, <4>2
      <4> QED
        BY <4>1, <4>2
    <3>2. \A x, y \in 1 .. (l - 1) : src(x) = src(y) => x = y
      BY <1>t
    <3> QED
      BY <3>1, <3>2
  <2>6. \A x \in 1 .. l : x # i => \E k \in 1 .. (l - 1) : src(k) = x
    <3> SUFFICES ASSUME NEW x \in 1 .. l, x # i
                 PROVE  \E k \in 1 .. (l - 1) : src(k) = x
      OBVIOUS
    <3>1. CASE x < i
      <4>1. x \in 1 .. (l - 1) /\ src(x) = x
        BY <1>t, <1>3, <3>1
      <4> QED
        BY <4>1
    <3>2. CASE x > i
      <4>1. x - 1 \in 1 .. (l - 1) /\ src(x - 1) = x
        BY <1>t, <1>3, <3>2
      <4> QED
        BY <4>1
    <3> QED
      BY <1>t, <3>1, <3>2
  <2> HIDE DEF src
  <2>7. \A x, y \in 1 .. (l - 1) : e[x] = e[y] => x = y
    BY <2>4, <2>5
  <2>8. {e[k] : k \in 1 .. (l - 1)} = downloads \ (p.gone \cup {d[i]})
    <3>1. ASSUME NEW k \in 1 .. (l - 1)
          PROVE  e[k] \in downloads \ (p.gone \cup {d[i]})
      <4>1. d[src(k)] \in downloads \ p.gone
        BY <2>4, <2>5
      <4>2. i \in 1 .. l
        BY <1>t, <1>3
      <4>3. d[src(k)] # d[i]
        BY <2>4, <2>5, <4>2
      <4> QED
        BY <2>5, <4>1, <4>3
    <3>2. ASSUME NEW x \in downloads \ (p.gone \cup {d[i]})
          PROVE  \E k \in 1 .. (l - 1) : e[k] = x
      <4>1. PICK y \in 1 .. l : x = d[y]
        BY <2>4
      <4>2. y # i
        BY <4>1
      <4>3. PICK k \in 1 .. (l - 1) : src(k) = y
        BY <2>6, <4>2
      <4> QED
        BY <2>5, <4>1, <4>3
    <3> QED
      BY <3>1, <3>2
  <2>9. LoopGood(r)
    BY <2>3, <2>7, <2>8 DEF LoopGood
  <2>10. \A x \in r.gone : Stale(x, t)
    BY <1>3, <2>3
  <2> QED
    BY <2>3, <2>9, <2>10 DEF r
<1> QED
  BY <1>t, <1>1, <1>2, <1>3

LEMMA UpdateLoopGood ==
    ASSUME NEW t, QueueMatches
    PROVE  LET end == UpdateLoop(t) IN
           /\ end \in LoopState(Len(downloadsQueue))
           /\ end.panic \/ LoopGood(end)
           /\ \A x \in end.gone : Stale(x, t)
<1> DEFINE n == Len(downloadsQueue)
           Right(p) == /\ p \in LoopState(n)
                       /\ p.panic \/ LoopGood(p)
                       /\ \A x \in p.gone : Stale(x, t)
<1>1. n \in Nat /\ downloadsQueue \in [1 .. n -> Id]
  BY LenProperties DEF QueueMatches
<1>2. PICK g : LoopRuns(g, n, t) /\ UpdateLoop(t) = g[n]
  BY <1>1, UpdateLoopRuns
<1>3. Right(LoopStart)
  <2>1. LoopStart \in LoopState(n)
    BY <1>1 DEF LoopStart, LoopState
  <2>2. LoopGood(LoopStart)
    BY DEF LoopStart, LoopGood, QueueMatches
  <2> QED
    BY <2>1, <2>2 DEF LoopStart
<1>4. ASSUME NEW p, Right(p), NEW i \in 1 .. n
      PROVE  Right(LoopBody(p, i, t))
  <2> HIDE DEF n
  <2> QED
    BY <1>1, <1>4, LoopBodyGood
<1> HIDE DEF Right, n
<1>5. \A i \in 0 .. n : Right(g[i])
  <2> DEFINE T == {i \in 0 .. n : ~Right(g[i])}
  <2> SUFFICES ASSUME T # {} PROVE FALSE
    OBVIOUS
  <2>1. PICK i \in T : \A j \in T : i <= j
    <3>1. T \subseteq Nat
      BY <1>1
    <3> HIDE DEF T
    <3> QED
      BY <3>1, NatMin
  <2>2. g[i] = LoopStep(g, i, t)
    BY <1>2 DEF LoopRuns
  <2>3. CASE i = 0
    BY <1>3, <2>2, <2>3 DEF LoopStep
  <2>4. CASE i # 0
    <3>1. i \in 1 .. n /\ Right(g[i - 1])
      BY <1>1, <2>1, <2>4
    <3>2. g[i] = LoopBody(g[i - 1], i, t)
      BY <2>2, <2>4 DEF LoopStep
    <3>3. Right(g[i])
      BY <1>4, <3>1, <3>2
    <3> QED
      BY <3>3
  <2> QED
    BY <2>3, <2>4
<1>6. Right(UpdateLoop(t))
  BY <1>1, <1>2, <1>5
<1> QED
  BY <1>6 DEF Right, n

\* If one link of the queue is stale, the loop takes it out and goes on: every
\* other link it looks at, moved or not, is one of the queue.
LEMMA UpdateLoopLone ==
    ASSUME NEW t, QueueMatches, NEW id \in downloads,
           \A x \in downloads : Stale(x, t) <=> x = id
    PROVE  UpdateLoop(t).gone = {id} /\ ~UpdateLoop(t).panic
<1> DEFINE q == downloadsQueue
           n == Len(q)
<1>1. n \in Nat /\ q \in [1 .. n -> Id] /\ DOMAIN q = 1 .. n
  BY LenProperties DEF QueueMatches
<1>2. PICK g : LoopRuns(g, n, t) /\ UpdateLoop(t) = g[n]
  BY <1>1, UpdateLoopRuns
<1>q. /\ \A i, j \in 1 .. n : q[i] = q[j] => i = j
      /\ {q[i] : i \in 1 .. n} = downloads
  BY DEF QueueMatches
<1>3. PICK j \in 1 .. n : q[j] = id
  BY <1>q
<1> DEFINE After == [data |-> ShiftedFrom(q, j, n), len |-> n - 1,
                     gone |-> {id}, panic |-> FALSE]
           Right(i) == g[i] = IF i < j THEN LoopStart ELSE After
<1>4. \A i \in 1 .. n : Stale(q[i], t) <=> i = j
  BY <1>q, <1>3
<1>5. ASSUME NEW i \in (j + 1) .. n
      PROVE  ~Stale(ShiftedFrom(q, j, n)[i], t)
  <2>1. CASE i < n
    <3>1. ShiftedFrom(q, j, n)[i] = q[i + 1] /\ i + 1 \in 1 .. n /\ i + 1 # j
      BY <1>1, <1>3, <2>1 DEF ShiftedFrom
    <3> QED
      BY <1>4, <3>1
  <2>2. CASE ~(i < n)
    <3>1. ShiftedFrom(q, j, n)[i] = q[i] /\ i \in 1 .. n /\ i # j
      BY <1>1, <1>3, <2>2 DEF ShiftedFrom
    <3> QED
      BY <1>4, <3>1
  <2> QED
    BY <2>1, <2>2
<1>6. LoopStart = [data |-> q, len |-> n, gone |-> {}, panic |-> FALSE]
  BY DEF LoopStart
<1> HIDE DEF q, n
<1>7. \A i \in 0 .. n : Right(i)
  <2> DEFINE T == {i \in 0 .. n : ~Right(i)}
  <2> HIDE DEF Right
  <2> SUFFICES ASSUME T # {} PROVE FALSE
    OBVIOUS
  <2>1. PICK i \in T : \A k \in T : i <= k
    <3>1. T \subseteq Nat
      BY <1>1
    <3> HIDE DEF T
    <3> QED
      BY <3>1, NatMin
  <2>2. g[i] = LoopStep(g, i, t)
    BY <1>2 DEF LoopRuns
  <2>3. CASE i = 0
    BY <1>1, <2>2, <2>3 DEF LoopStep, Right
  <2>4. CASE i # 0
    <3>1. i \in 1 .. n /\ Right(i - 1)
      BY <1>1, <2>1, <2>4
    <3>2. g[i] = LoopBody(g[i - 1], i, t)
      BY <2>2, <2>4 DEF LoopStep
    <3>3. CASE i < j
      <4>1. g[i - 1] = LoopStart /\ ~Stale(q[i], t)
        BY <1>1, <1>4, <3>1, <3>3 DEF Right
      <4>2. g[i] = LoopStart
        BY <1>6, <3>2, <4>1 DEF LoopBody
      <4> QED
        BY <3>1, <3>3, <4>2 DEF Right
    <3>4. CASE i = j
      <4>1. g[i - 1] = LoopStart /\ Stale(q[i], t) /\ q[i] = id
        BY <1>1, <1>3, <1>4, <3>1, <3>4 DEF Right
      <4>2. g[i] = After
        BY <1>1, <1>6, <3>1, <3>2, <3>4, <4>1 DEF LoopBody
      <4> QED
        BY <3>1, <3>4, <4>2 DEF Right
    <3>5. CASE i > j
      <4>1. g[i - 1] = After /\ ~Stale(ShiftedFrom(q, j, n)[i], t)
        BY <1>1, <1>5, <3>1, <3>5 DEF Right
      <4>2. g[i] = After
        BY <3>2, <4>1 DEF LoopBody
      <4> QED
        BY <3>1, <3>5, <4>2 DEF Right
    <3> QED
      BY <1>1, <3>1, <3>3, <3>4, <3>5
  <2> QED
    BY <2>3, <2>4
<1>8. UpdateLoop(t) = After
  <2>1. n \in 0 .. n /\ ~(n < j)
    BY <1>1
  <2>2. Right(n)
    <3> HIDE DEF Right
    <3> QED
      BY <1>7, <2>1
  <2> HIDE DEF After
  <2> QED
    BY <1>2, <2>1, <2>2
<1> QED
  BY <1>8

(***************************************************************************)
(* The map and the queue agree unless UpdateQueue has panicked, and then   *)
(* the lock stays with the call that did.                                  *)
(***************************************************************************)
Panicked == \E c \in Call : wlock = c /\ pc[c].at = "panicked"

LinksInv ==
    /\ pc = [c \in Call |-> pc[c]]
    /\ Panicked \/ QueueMatches

LEMMA LinksStart == LinksInit => LinksInv
<1> SUFFICES ASSUME LinksInit PROVE LinksInv
  OBVIOUS
<1>1. downloadsQueue = << >> /\ Len(downloadsQueue) = 0 /\ downloads = {}
  BY DEF LinksInit
<1>2. QueueMatches
  BY <1>1 DEF QueueMatches
<1> QED
  BY <1>2 DEF LinksInit, LinksInv

\* What UpdateQueue does to a queue that agrees with the map.
LEMMA UpdateQueueStep ==
    ASSUME NEW c \in Call, LinksInv, UpdateQueue(c)
    PROVE  /\ QueueMatches
           /\ LinksInv'
           /\ downloads' = downloads \ UpdateLoop(pc[c].t).gone
           /\ \A x \in UpdateLoop(pc[c].t).gone : x \notin used
           /\ pc'[c].at = IF UpdateLoop(pc[c].t).panic THEN "panicked" ELSE "insert"
<1> DEFINE end == UpdateLoop(pc[c].t)
           n == Len(downloadsQueue)
<1>1. wlock = c /\ pc[c].at = "update" /\ pc = [d \in Call |-> pc[d]]
  BY DEF UpdateQueue, InSection, LinksInv
<1>2. QueueMatches
  BY <1>1 DEF LinksInv, Panicked
<1>3. /\ end \in LoopState(n)
      /\ end.panic \/ LoopGood(end)
      /\ \A x \in end.gone : Stale(x, pc[c].t)
  BY <1>2, UpdateLoopGood
<1>4. /\ downloads' = downloads \ end.gone
      /\ downloadsQueue' = SubSeq(end.data, 1, end.len)
      /\ IF end.panic
         THEN pc' = [pc EXCEPT ![c] = [at |-> "panicked"]] /\ UNCHANGED wlock
         ELSE pc' = [pc EXCEPT ![c] = [at |-> "insert"]] /\ wlock' = NoCall
  BY DEF UpdateQueue, WithoutKeys
<1>n. n \in Nat
  BY <1>2, LenProperties DEF QueueMatches
<1> HIDE DEF end, n
<1>5. /\ pc' = [d \in Call |-> pc'[d]]
      /\ pc'[c].at = IF end.panic THEN "panicked" ELSE "insert"
  BY <1>1, <1>4
<1>6. end.panic => Panicked'
  BY <1>1, <1>4, <1>5 DEF Panicked
<1>7. ASSUME ~end.panic
      PROVE  QueueMatches'
  <2> DEFINE d == end.data
             l == end.len
  <2>1. d \in [1 .. n -> Id] /\ l \in 0 .. n
    BY <1>3 DEF LoopState
  <2>2. /\ \A x, y \in 1 .. l : d[x] = d[y] => x = y
        /\ {d[x] : x \in 1 .. l} = downloads \ end.gone
    BY <1>3, <1>7 DEF LoopGood
  <2> HIDE DEF d, l
  <2>3. /\ SubSeq(d, 1, l) \in Seq(Id) /\ Len(SubSeq(d, 1, l)) = l
        /\ \A x \in 1 .. l : SubSeq(d, 1, l)[x] = d[x]
    <3>1. l \in Int /\ \A x \in 1 .. l : d[x] \in Id
      BY <1>n, <2>1
    <3>2. /\ SubSeq(d, 1, l) \in Seq(Id)
          /\ Len(SubSeq(d, 1, l)) = IF 1 <= l THEN l - 1 + 1 ELSE 0
          /\ \A x \in 1 .. (l - 1 + 1) : SubSeq(d, 1, l)[x] = d[1 + x - 1]
      BY <3>1, SubSeqProperties
    <3> QED
      BY <1>n, <2>1, <3>2
  <2>4. downloadsQueue' = SubSeq(d, 1, l)
    BY <1>4 DEF d, l
  <2>5. /\ downloadsQueue' \in Seq(Id) /\ Len(downloadsQueue') = l
        /\ \A x \in 1 .. l : downloadsQueue'[x] = d[x]
    BY <2>3, <2>4
  <2>6. {downloadsQueue'[x] : x \in 1 .. l} = {d[x] : x \in 1 .. l}
    BY <2>5
  <2> QED
    BY <1>4, <2>2, <2>5, <2>6 DEF QueueMatches
<1>8. LinksInv'
  BY <1>5, <1>6, <1>7 DEF LinksInv
<1>9. \A x \in end.gone : x \notin used
  BY <1>3 DEF Stale
<1> QED
  BY <1>2, <1>4, <1>5, <1>8, <1>9 DEF end

LEMMA LinksStep == LinksInv /\ [LinksNext]_linkVars => LinksInv'
<1> SUFFICES ASSUME LinksInv, [LinksNext]_linkVars PROVE LinksInv'
  OBVIOUS
<1>t. pc = [c \in Call |-> pc[c]] /\ NoCall \notin Call
  BY NoCallAssumption DEF LinksInv
<1>q. ASSUME UNCHANGED <<downloads, downloadsQueue>>, QueueMatches PROVE QueueMatches'
  BY <1>q DEF QueueMatches
\* A call that is not the one that panicked leaves the map, the queue and the lock alone.
<1>p. ASSUME NEW c \in Call, NEW r, pc[c].at # "panicked", UNCHANGED <<downloads,
             downloadsQueue>>,
             pc' = [pc EXCEPT ![c] = r], UNCHANGED wlock
      PROVE  LinksInv'
  <2>1. pc' = [d \in Call |-> pc'[d]]
    BY <1>t, <1>p
  <2>2. Panicked => Panicked'
    BY <1>t, <1>p DEF Panicked
  <2> QED
    BY <1>p, <1>q, <2>1, <2>2 DEF LinksInv
\* One that holds the lock in its section, or finds it free, finds both agreeing.
<1>f. ASSUME NEW c \in Call, wlock = NoCall \/ (wlock = c /\ pc[c].at # "panicked")
      PROVE  QueueMatches
  BY <1>t, <1>f DEF LinksInv, Panicked
<1>1. ASSUME NEW c \in Call, NEW req, Arrive(c, req)
      PROVE  LinksInv'
  <2>1. /\ pc[c].at # "panicked" /\ pc' = [pc EXCEPT ![c] = req]
        /\ UNCHANGED <<downloads, downloadsQueue, wlock>>
    BY <1>1 DEF Arrive, links, Idle
  <2> QED
    BY <1>p, <2>1
<1>2. ASSUME NEW c \in Call, Lock(c)
      PROVE  LinksInv'
  <2>1. QueueMatches /\ UNCHANGED <<downloads, downloadsQueue, pc>>
    BY <1>2, <1>f DEF Lock, links
  <2> QED
    BY <1>q, <2>1 DEF LinksInv
<1>3. ASSUME NEW c \in Call, AddUpload(c)
      PROVE  LinksInv'
  <2>1. QueueMatches /\ UNCHANGED <<downloads, downloadsQueue>>
    BY <1>3, <1>f DEF AddUpload, InSection, links
  <2>2. pc' = [d \in Call |-> pc'[d]]
    BY <1>t, <1>3 DEF AddUpload
  <2> QED
    BY <1>q, <2>1, <2>2 DEF LinksInv
<1>4. ASSUME NEW c \in Call, UpdateQueue(c)
      PROVE  LinksInv'
  BY <1>4, UpdateQueueStep
<1>5. ASSUME NEW c \in Call, NEW id \in Id, RequestDownload(c, id)
      PROVE  LinksInv'
  <2> DEFINE q == downloadsQueue
             n == Len(q)
  <2>1. QueueMatches
    BY <1>5, <1>f DEF RequestDownload, InSection
  <2>2. /\ downloads' = downloads \cup {id} /\ id \notin downloads
        /\ q' = Append(q, id)
        /\ pc' = [pc EXCEPT ![c] = Idle]
    BY <1>5 DEF RequestDownload
  <2>3. /\ n \in Nat /\ q' \in Seq(Id) /\ Len(q') = n + 1
        /\ \A i \in 1 .. n : q'[i] = q[i]
        /\ q'[n + 1] = id
    BY <2>1, <2>2, AppendProperties, LenProperties DEF QueueMatches
  <2>4. /\ \A i, j \in 1 .. n : q[i] = q[j] => i = j
        /\ {q[i] : i \in 1 .. n} = downloads
    BY <2>1 DEF QueueMatches
  <2>5. \A i \in 1 .. (n + 1) : i = n + 1 \/ i \in 1 .. n
    BY <2>3
  <2>6. QueueMatches'
    <3> HIDE DEF q, n
    <3>1. \A i, j \in 1 .. (n + 1) : q'[i] = q'[j] => i = j
      BY <2>2, <2>3, <2>4, <2>5
    <3>2. {q'[i] : i \in 1 .. (n + 1)} = downloads'
      <4>1. n + 1 \in 1 .. (n + 1) /\ \A i \in 1 .. n : i \in 1 .. (n + 1)
        BY <2>3
      <4> QED
        BY <2>2, <2>3, <2>4, <2>5, <4>1
    <3> QED
      BY <2>3, <3>1, <3>2 DEF QueueMatches, q
  <2>7. pc' = [d \in Call |-> pc'[d]]
    BY <1>t, <2>2
  <2> QED
    BY <2>6, <2>7 DEF LinksInv
<1>6. ASSUME NEW c \in Call, NEW id \in Id, RequestDownloadSpins(c, id)
      PROVE  LinksInv'
  BY <1>6, <1>p DEF RequestDownloadSpins, InSection, links
<1>7. ASSUME NEW c \in Call, Lookup(c)
      PROVE  LinksInv'
  BY <1>7, <1>p DEF Lookup, DownloadFound, DownloadUnknown, LookedUp,
     links
<1>8. ASSUME NEW id \in Id, Expire(id)
      PROVE  LinksInv'
  <2>1. UNCHANGED <<downloads, downloadsQueue, wlock, pc>>
    BY <1>8 DEF Expire
  <2> QED
    BY <1>q, <2>1 DEF LinksInv, Panicked
<1>9. CASE UNCHANGED linkVars
  <2>1. UNCHANGED <<downloads, downloadsQueue, wlock, pc>>
    BY <1>9 DEF linkVars
  <2> QED
    BY <1>q, <2>1 DEF LinksInv, Panicked
<1> QED
  BY <1>1, <1>2, <1>3, <1>4, <1>5, <1>6, <1>7, <1>8, <1>9
     DEF LinksNext, Section, ArriveUpload, ArriveDownload,
         ArriveAddDownload

\* The instance has its own copy of module FiniteSets.
LEMMA SameCardinality == ASSUME NEW S PROVE Cardinality(S) = Cardinality(S)
  BY DEF Cardinality, Cardinality

LEMMA LinksInvariance == LinksSpec => []LinksInv
  BY LinksStart, LinksStep, PTL DEF LinksSpec

\* Whenever Router.mu is free, the map of links and the queue that expiry works
\* from hold the same links, each once: whatever UpdateQueue removes from the
\* slice under its own loop it also removes from the map, and a panic in between
\* leaves the lock held for good.  For any number of calls and links.
THEOREM QueueAndMapAgree == LinksSpec => []QueueIsMap
<1>1. LinksInv => QueueIsMap
  <2> SUFFICES ASSUME LinksInv, wlock = NoCall
               PROVE  /\ ToSet(downloadsQueue) = downloads
                      /\ Len(downloadsQueue) = Cardinality(downloads)
    BY SameCardinality DEF QueueIsMap
  <2> DEFINE n == Len(downloadsQueue)
  <2>1. QueueMatches
    BY NoCallAssumption DEF LinksInv, Panicked
  <2>2. /\ n \in Nat /\ downloadsQueue \in [1 .. n -> Id] /\ DOMAIN downloadsQueue = 1 .. n
    BY <2>1, LenProperties DEF QueueMatches
  <2>3. ToSet(downloadsQueue) = downloads
    BY <2>1, <2>2 DEF QueueMatches, ToSet
  <2>4. downloadsQueue \in Bijection(1 .. n, downloads)
    <3>1. \A i, j \in 1 .. n : downloadsQueue[i] = downloadsQueue[j] => i = j
      BY <2>1 DEF QueueMatches
    <3>2. /\ downloadsQueue \in [1 .. n -> downloads]
          /\ \A x \in downloads : \E i \in 1 .. n : downloadsQueue[i] = x
      BY <2>1, <2>2 DEF QueueMatches
    <3> QED
      BY <3>1, <3>2 DEF Bijection, Injection, Surjection, IsInjective
  <2>5. ExistsBijection(1 .. n, downloads)
    BY <2>4 DEF ExistsBijection
  <2>6. IsFiniteSet(1 .. n) /\ Cardinality(1 .. n) = n
    BY <2>2, FS_Interval
  <2> HIDE DEF n
  <2>7. Cardinality(downloads) = n
    BY <2>5, <2>6, FS_Bijection
  <2> QED
    BY <2>3, <2>7 DEF n
<1> QED
  BY <1>1, LinksInvariance, PTL

\* Only UpdateQueue takes links away, and only those it finds stale.
LEMMA LinksTaken ==
    ASSUME LinksInv, [LinksNext]_linkVars
    PROVE  downloads \subseteq downloads' \/ \E c \in Call : UpdateQueue(c)
  BY DEF LinksNext, linkVars, Section, Lookup, ArriveUpload,
         ArriveDownload, ArriveAddDownload, Arrive,
         Lock, AddUpload, RequestDownload, RequestDownloadSpins,
         DownloadFound, DownloadUnknown, Expire,
         links

\* A link that Download has counted as used is never removed by UpdateQueue,
\* whatever the clock says and whichever links move under its loop.
THEOREM UsedStay == LinksSpec => UsedLinksStay
<1>1. LinksInv /\ [LinksNext]_linkVars
         => [\A id \in downloads \cap used : id \in downloads']_linkVars
  <2> SUFFICES ASSUME LinksInv, [LinksNext]_linkVars, NEW id \in downloads \cap used
               PROVE  id \in downloads'
    OBVIOUS
  <2>1. ASSUME NEW c \in Call, UpdateQueue(c)
        PROVE  id \in downloads'
    BY <2>1, UpdateQueueStep
  <2> QED
    BY <2>1, LinksTaken
<1> QED
  BY <1>1, LinksInvariance, PTL DEF LinksSpec, UsedLinksStay

\* A call leaves the stage "update" by UpdateQueue only.
LEMMA LeavesUpdate ==
    ASSUME LinksInv, [LinksNext]_linkVars, NEW c \in Call,
           pc[c].at = "update", pc'[c].at # "update"
    PROVE  UpdateQueue(c)
<1>t. pc = [d \in Call |-> pc[d]]
  BY DEF LinksInv
<1>1. ASSUME NEW d \in Call, UpdateQueue(d), d # c PROVE FALSE
  BY <1>t, <1>1 DEF UpdateQueue
<1>2. ASSUME NEW d \in Call, NEW req, Arrive(d, req) PROVE FALSE
  BY <1>t, <1>2 DEF Arrive, Idle
<1>3. ASSUME NEW d \in Call, Lock(d) PROVE FALSE
  BY <1>3 DEF Lock
<1>4. ASSUME NEW d \in Call, AddUpload(d) PROVE FALSE
  BY <1>t, <1>4 DEF AddUpload, InSection
<1>5. ASSUME NEW d \in Call, NEW id \in Id,
             RequestDownload(d, id) \/ RequestDownloadSpins(d, id)
      PROVE  FALSE
  BY <1>t, <1>5 DEF RequestDownload, RequestDownloadSpins, InSection
<1>6. ASSUME NEW d \in Call, Lookup(d) PROVE FALSE
  BY <1>t, <1>6 DEF Lookup, DownloadFound, DownloadUnknown, LookedUp
<1>7. ASSUME (\E id \in Id : Expire(id)) \/ UNCHANGED linkVars PROVE FALSE
  BY <1>7 DEF Expire, linkVars
<1> QED
  BY <1>1, <1>2, <1>3, <1>4, <1>5, <1>6, <1>7
     DEF LinksNext, Section, ArriveUpload, ArriveDownload,
         ArriveAddDownload

\* UpdateQueue removes an expired link if it is the only one, at any place of a
\* queue of any length, and returns: the loop goes on past the end of the
\* shortened slice, where the array it ranges over still holds a link.
THEOREM LoneExpired == LinksSpec => LoneExpiredGoes
<1> DEFINE Goes == \A c \in Call : pc[c].at = "update" /\ pc'[c].at # "update" =>
                      \A id \in downloads : (downloads \ used) \cap expired \cap pc[c].t = {id} =>
                          downloads' = downloads \ {id} /\ pc'[c].at = "insert"
<1>1. LinksInv /\ [LinksNext]_linkVars => [Goes]_linkVars
  <2> SUFFICES ASSUME LinksInv, [LinksNext]_linkVars, NEW c \in Call,
                      pc[c].at = "update", pc'[c].at # "update", NEW id \in downloads,
                      (downloads \ used) \cap expired \cap pc[c].t = {id}
               PROVE  downloads' = downloads \ {id} /\ pc'[c].at = "insert"
    OBVIOUS
  <2>1. UpdateQueue(c)
    BY LeavesUpdate
  <2>2. /\ QueueMatches
        /\ downloads' = downloads \ UpdateLoop(pc[c].t).gone
        /\ pc'[c].at = IF UpdateLoop(pc[c].t).panic THEN "panicked" ELSE "insert"
    BY <2>1, UpdateQueueStep
  <2>3. \A x \in downloads : Stale(x, pc[c].t) <=> x = id
    BY DEF Stale
  <2>4. UpdateLoop(pc[c].t).gone = {id} /\ ~UpdateLoop(pc[c].t).panic
    BY <2>2, <2>3, UpdateLoopLone
  <2> QED
    BY <2>2, <2>4
<1> QED
  BY <1>1, LinksInvariance, PTL DEF LinksSpec, LoneExpiredGoes
=============================================================================
