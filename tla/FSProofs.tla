------------------------------ MODULE FSProofs ------------------------------
(***************************************************************************)
(* Proofs about the metadata layer, for every set of paths, places,        *)
(* checksums and concurrent deletes: the variables keep their types, and   *)
(* FS implements Namespace.                                                *)
(*                                                                         *)
(* AddFile checks the place, drops the mutex and writes later.  The proof  *)
(* of refinement rests on what stays true meanwhile: uploads are           *)
(* serialised, so in between the place can only lose its file, never get   *)
(* one with another checksum (CheckStays); and ChecksumDB leads to a File  *)
(* with that very checksum (ChecksumsAgree), although File objects outlive *)
(* their entry in it.                                                      *)
(*                                                                         *)
(* As long as the calls were regular (paths spelled canonically, no two    *)
(* deletes of one place at a time) counts and entries agree as well        *)
(* (StrongInv, further below).                                             *)
(***************************************************************************)
EXTENDS FS, FiniteSetTheorems, TLAPS

ChecksumsAgree ==
    \A h \in Hash : ChecksumDB[h] # None => file[ChecksumDB[h]].Checksum = h

CheckStays ==
    add.stage \in {"checked", "creating"} =>
        \/ GetFile(add.path) = None
        \/ file[GetFile(add.path)].Checksum = add.hash

IndInv == TypeOK /\ ChecksumsAgree /\ CheckStays

USE DEF NoAdd, NoDel, GetFile

\* The stages of a call in progress name its path and its checksum or File.
LEMMA CallTypes ==
    ASSUME TypeOK
    PROVE  /\ add.stage \in {"checked", "creating", "added"} =>
                /\ add \in [stage : {"checked", "creating", "added"}, path : Path, hash : Hash]
                /\ LocOf[add.path] \in Loc
           /\ \A d \in Deleter : del[d].stage \in {"got", "locked"} =>
                /\ del[d] \in [stage : {"got", "locked"}, path : Path, file : FileId]
                /\ LocOf[del[d].path] \in Loc
<1>1. /\ add \in {NoAdd} \cup [stage : {"checked", "creating", "added"}, path : Path, hash : Hash]
      /\ del \in [Deleter -> {NoDel} \cup [stage : {"got", "locked"}, path : Path, file : FileId]]
  BY DEF TypeOK
<1>2. add.stage \in {"checked", "creating", "added"} =>
         add \in [stage : {"checked", "creating", "added"}, path : Path, hash : Hash]
  BY <1>1
<1>3. \A d \in Deleter : del[d].stage \in {"got", "locked"} =>
         del[d] \in [stage : {"got", "locked"}, path : Path, file : FileId]
  BY <1>1
<1> QED
  BY <1>2, <1>3, PathAssumption

LEMMA InitInvariant == Init => IndInv
<1> SUFFICES ASSUME Init PROVE IndInv
  OBVIOUS
<1>1. (CHOOSE h \in Hash : TRUE) \in Hash
  BY NoneAssumption
<1>2. NoPath \in [Loc -> Nat]
  BY DEF NoPath
<1>3. file \in [FileId -> File]
  BY <1>1, <1>2 DEF Init, File
<1>4. TypeOK
  BY <1>3 DEF Init, TypeOK
<1>5. ChecksumsAgree /\ CheckStays
  BY DEF Init, ChecksumsAgree, CheckStays
<1> QED
  BY <1>4, <1>5 DEF IndInv

\* Steps that leave the namespace and the Files alone.
LEMMA QuietSteps ==
    ASSUME IndInv,
           \/ \E p \in Path, h \in Hash : AddFileCheck(p, h)
           \/ AddFileExists \/ AddFileMiss \/ AddFileReturn
           \/ \E d \in Deleter, p \in Path : DeleteFileGet(d, p)
           \/ \E d \in Deleter : DeleteFileTryLock(d)
    PROVE  IndInv' /\ UNCHANGED <<entry, ChecksumDB, file>>
<1>0. TypeOK /\ ChecksumsAgree /\ CheckStays
  BY DEF IndInv
<1>1. ASSUME NEW p \in Path, NEW h \in Hash, AddFileCheck(p, h)
      PROVE  IndInv' /\ UNCHANGED <<entry, ChecksumDB, file>>
  <2>1. TypeOK'
    BY <1>0, <1>1 DEF AddFileCheck, TypeOK, Recorded
  <2>2. ChecksumsAgree'
    BY <1>0, <1>1 DEF AddFileCheck, ChecksumsAgree
  <2>3. CheckStays'
    BY <1>1 DEF AddFileCheck, CheckStays, NoOtherFile
  <2> QED
    BY <2>1, <2>2, <2>3, <1>1 DEF IndInv, AddFileCheck
<1>2. ASSUME AddFileExists
      PROVE  IndInv' /\ UNCHANGED <<entry, ChecksumDB, file>>
  <2>1. TypeOK'
    BY <1>0, <1>2, CallTypes DEF AddFileExists, TypeOK
  <2>2. ChecksumsAgree'
    BY <1>0, <1>2 DEF AddFileExists, ChecksumsAgree
  <2>3. CheckStays'
    BY <1>2 DEF AddFileExists, CheckStays
  <2> QED
    BY <2>1, <2>2, <2>3, <1>2 DEF IndInv, AddFileExists
<1>3. ASSUME AddFileMiss
      PROVE  IndInv' /\ UNCHANGED <<entry, ChecksumDB, file>>
  <2>0. add \in [stage : {"checked", "creating", "added"}, path : Path, hash : Hash]
    BY <1>0, <1>3, CallTypes DEF AddFileMiss
  <2>a. add' = [stage |-> "creating", path |-> add.path, hash |-> add.hash]
    BY <2>0, <1>3 DEF AddFileMiss
  <2>1. TypeOK'
    BY <1>0, <1>3, <2>0, <2>a DEF AddFileMiss, TypeOK
  <2>2. ChecksumsAgree'
    BY <1>0, <1>3 DEF AddFileMiss, ChecksumsAgree
  <2>3. CheckStays'
    BY <1>0, <1>3, <2>0, <2>a DEF AddFileMiss, CheckStays
  <2> QED
    BY <2>1, <2>2, <2>3, <1>3 DEF IndInv, AddFileMiss
<1>4. ASSUME AddFileReturn
      PROVE  IndInv' /\ UNCHANGED <<entry, ChecksumDB, file>>
  <2>1. TypeOK'
    BY <1>0, <1>4 DEF AddFileReturn, TypeOK
  <2>2. ChecksumsAgree'
    BY <1>0, <1>4 DEF AddFileReturn, ChecksumsAgree
  <2>3. CheckStays'
    BY <1>4 DEF AddFileReturn, CheckStays
  <2> QED
    BY <2>1, <2>2, <2>3, <1>4 DEF IndInv, AddFileReturn
<1>5. ASSUME NEW d \in Deleter, NEW p \in Path, DeleteFileGet(d, p)
      PROVE  IndInv' /\ UNCHANGED <<entry, ChecksumDB, file>>
  <2>0. GetFile(p) \in FileId
    BY <1>0, <1>5, PathAssumption DEF DeleteFileGet, TypeOK
  <2>1. TypeOK'
    BY <1>0, <1>5, <2>0 DEF DeleteFileGet, TypeOK, Recorded
  <2>2. ChecksumsAgree'
    BY <1>0, <1>5 DEF DeleteFileGet, ChecksumsAgree
  <2>3. CheckStays'
    BY <1>0, <1>5 DEF DeleteFileGet, CheckStays
  <2> QED
    BY <2>1, <2>2, <2>3, <1>5 DEF IndInv, DeleteFileGet
<1>6. ASSUME NEW d \in Deleter, DeleteFileTryLock(d)
      PROVE  IndInv' /\ UNCHANGED <<entry, ChecksumDB, file>>
  <2>0. del[d] \in [stage : {"got", "locked"}, path : Path, file : FileId]
    BY <1>0, <1>6, CallTypes DEF DeleteFileTryLock
  <2>1. TypeOK'
    BY <1>0, <1>6, <2>0 DEF DeleteFileTryLock, TypeOK
  <2>2. ChecksumsAgree'
    BY <1>0, <1>6 DEF DeleteFileTryLock, ChecksumsAgree
  <2>3. CheckStays'
    BY <1>0, <1>6 DEF DeleteFileTryLock, CheckStays
  <2> QED
    BY <2>1, <2>2, <2>3, <1>6 DEF IndInv, DeleteFileTryLock
<1> QED
  BY <1>1, <1>2, <1>3, <1>4, <1>5, <1>6

\* Changing a File's paths and count keeps its type and its checksum.
LEMMA Updated ==
    ASSUME NEW R \in File, NEW P \in [Loc -> Nat], NEW n \in Nat \ {0}
    PROVE  /\ [R EXCEPT !.FSPath = P, !.SemaphoreReplica = n] \in File
           /\ [R EXCEPT !.FSPath = P, !.SemaphoreReplica = n].Checksum = R.Checksum
BY DEF File

LEMMA SameChecksum ==
    ASSUME TypeOK, NEW f \in FileId, NEW F \in File, F.Checksum = file[f].Checksum,
           file' = [file EXCEPT ![f] = F]
    PROVE  /\ file' \in [FileId -> File]
           /\ \A g \in FileId : file'[g].Checksum = file[g].Checksum
BY DEF TypeOK

\* A replica or a new File at a place the check found free, or held by a File
\* with the same checksum, is a put or changes nothing.
LEMMA PutRefines ==
    ASSUME IndInv, add.stage \in {"checked", "creating"},
           NEW f \in FileId,
           file'[f].Checksum = add.hash,
           \A g \in FileId : At(g) # {} /\ g # f => file'[g].Checksum = file[g].Checksum,
           At(f) # {} => file'[f].Checksum = file[f].Checksum,
           entry' = [entry EXCEPT ![LocOf[add.path]] = f]
    PROVE  [NS!Next]_Content
<1> DEFINE l == LocOf[add.path]
<1>0. TypeOK /\ CheckStays
  BY DEF IndInv
<1>1. l \in Loc /\ add.hash \in Hash
  BY <1>0, CallTypes
<1>2. entry \in [Loc -> FileId \cup {None}] /\ None \notin FileId
  BY <1>0, NoneAssumption DEF TypeOK
<1>3. \A m \in Loc \ {l} : Content'[m] = Content[m]
  <2> SUFFICES ASSUME NEW m \in Loc \ {l} PROVE Content'[m] = Content[m]
    OBVIOUS
  <2>1. entry'[m] = entry[m]
    BY <1>1, <1>2
  <2>2. CASE entry[m] = None
    BY <2>1, <2>2 DEF Content
  <2>3. CASE entry[m] # None
    <3>1. entry[m] \in FileId /\ At(entry[m]) # {}
      BY <2>3, <1>2 DEF At
    <3>2. file'[entry[m]].Checksum = file[entry[m]].Checksum
      BY <3>1
    <3> QED
      BY <2>1, <2>3, <3>2 DEF Content
  <2> QED
    BY <2>2, <2>3
<1>4. Content'[l] = add.hash
  BY <1>1, <1>2 DEF Content
<1>5. Content[l] = None \/ Content[l] = add.hash
  BY <1>0, <1>1 DEF Content, CheckStays
<1>6. Content' = [Content EXCEPT ![l] = add.hash]
  <2>1. /\ Content = [m \in Loc |-> Content[m]]
        /\ Content' = [m \in Loc |-> Content'[m]]
    BY DEF Content
  <2> HIDE DEF l
  <2> QED
    BY <2>1, <1>1, <1>3, <1>4
<1>7. CASE Content[l] = None
  BY <1>1, <1>6, <1>7 DEF NS!Next, NS!Put
<1>8. CASE Content[l] = add.hash
  <2>1. Content' = Content
    BY <1>6, <1>8, <1>1 DEF Content
  <2> QED
    BY <2>1
<1> QED
  BY <1>5, <1>7, <1>8

\* Taking the entry away from a place, no checksum changing, is a removal.
LEMMA RemoveRefines ==
    ASSUME TypeOK, NEW l \in Loc,
           \A g \in FileId : file'[g].Checksum = file[g].Checksum,
           entry' = [entry EXCEPT ![l] = None]
    PROVE  [NS!Next]_Content
<1>1. entry \in [Loc -> FileId \cup {None}]
  BY DEF TypeOK
<1>2. \A m \in Loc \ {l} : Content'[m] = Content[m]
  BY <1>1 DEF Content
<1>3. Content'[l] = None
  BY <1>1 DEF Content
<1>4. /\ Content = [m \in Loc |-> Content[m]]
      /\ Content' = [m \in Loc |-> Content'[m]]
  BY DEF Content
<1>5. Content' = [Content EXCEPT ![l] = None]
  BY <1>2, <1>3, <1>4
<1> QED
  BY <1>5 DEF NS!Next, NS!Remove

\* AddFile at a path new to a known checksum.
LEMMA ReplicaStep ==
    ASSUME IndInv, AddFileReplica
    PROVE  IndInv' /\ [NS!Next]_Content
<1> DEFINE f == ChecksumDB[add.hash]
           l == LocOf[add.path]
           F == [file[f] EXCEPT !.FSPath[l] = @ + 1, !.SemaphoreReplica = CountMore(@)]
<1>0. TypeOK /\ ChecksumsAgree /\ CheckStays
  BY DEF IndInv
<1>1. add \in [stage : {"checked", "creating", "added"}, path : Path, hash : Hash] /\ l \in Loc
  BY <1>0, CallTypes DEF AddFileReplica
<1>2. f \in FileId /\ file[f] \in File
  BY <1>0, <1>1 DEF AddFileReplica, TypeOK
<1>3. F \in File /\ F.Checksum = file[f].Checksum
  <2> DEFINE P == [file[f].FSPath EXCEPT ![l] = @ + 1]
             n == CountMore(file[f].SemaphoreReplica)
  <2>1. P \in [Loc -> Nat] /\ n \in Nat \ {0}
    BY <1>1, <1>2 DEF File, CountMore
  <2>2. F = [file[f] EXCEPT !.FSPath = P, !.SemaphoreReplica = n]
    BY <1>2 DEF File
  <2> HIDE DEF P, n, F, f
  <2> QED
    BY <1>2, <2>1, <2>2, Updated
<1>4. file' = [file EXCEPT ![f] = F]
  BY <1>2, Zenon DEF AddFileReplica
<1>5. /\ file' \in [FileId -> File]
      /\ \A g \in FileId : file'[g].Checksum = file[g].Checksum
  <2> HIDE DEF f, F
  <2> QED
    BY <1>0, <1>2, <1>3, <1>4, SameChecksum
<1>6. /\ entry' = [entry EXCEPT ![l] = f]
      /\ add' = [stage |-> "added", path |-> add.path, hash |-> add.hash]
      /\ UNCHANGED <<ChecksumDB, del, history>>
      /\ add.stage = "checked"
  BY DEF AddFileReplica
<1>7. TypeOK'
  <2> HIDE DEF f, l, F
  <2> QED
    BY <1>0, <1>1, <1>2, <1>5, <1>6 DEF TypeOK
<1>8. ChecksumsAgree'
  BY <1>0, <1>5, <1>6 DEF ChecksumsAgree, TypeOK
<1>9. CheckStays'
  BY SMTT(30), <1>6 DEF CheckStays
<1>10. file'[f].Checksum = add.hash
  BY <1>0, <1>1, <1>2, <1>5 DEF ChecksumsAgree, AddFileReplica
<1>11. [NS!Next]_Content
  <2> HIDE DEF f, F
  <2> QED
    BY <1>2, <1>5, <1>6, <1>10, PutRefines
<1> QED
  BY <1>7, <1>8, <1>9, <1>11 DEF IndInv

\* AddFile with a new checksum: the File is fresh, so nothing else changes.
LEMMA CreateStep ==
    ASSUME IndInv, NEW f \in FileId, AddFileCreate(f)
    PROVE  IndInv' /\ [NS!Next]_Content
<1> DEFINE l == LocOf[add.path]
           F == NewFile(l, add.hash)
<1>0. TypeOK /\ ChecksumsAgree /\ CheckStays
  BY DEF IndInv
<1>1. add \in [stage : {"checked", "creating", "added"}, path : Path, hash : Hash] /\ l \in Loc
  BY <1>0, CallTypes DEF AddFileCreate
<1>2. F \in File /\ F.Checksum = add.hash
  BY <1>1 DEF NewFile, File, NoPath
<1>3. /\ file' = [file EXCEPT ![f] = F]
      /\ entry' = [entry EXCEPT ![l] = f]
      /\ ChecksumDB' = [ChecksumDB EXCEPT ![add.hash] = f]
      /\ add' = [stage |-> "added", path |-> add.path, hash |-> add.hash]
      /\ UNCHANGED <<del, history>>
      /\ add.stage = "creating"
      /\ Unused(f)
  BY <1>1 DEF AddFileCreate
<1> HIDE DEF F
<1>4. TypeOK'
  BY <1>0, <1>1, <1>2, <1>3 DEF TypeOK
<1>5. file'[f].Checksum = add.hash /\ \A g \in FileId \ {f} : file'[g] = file[g]
  BY <1>0, <1>2, <1>3 DEF TypeOK
<1>6. ChecksumsAgree'
  <2> SUFFICES ASSUME NEW h \in Hash, ChecksumDB'[h] # None
               PROVE  file'[ChecksumDB'[h]].Checksum = h
    BY DEF ChecksumsAgree
  <2>1. CASE h = add.hash
    BY <2>1, <1>0, <1>1, <1>3, <1>5 DEF TypeOK
  <2>2. CASE h # add.hash
    <3>1. ChecksumDB'[h] = ChecksumDB[h] /\ ChecksumDB[h] \in FileId
      BY <2>2, <1>0, <1>1, <1>3 DEF TypeOK
    <3>2. ChecksumDB[h] # f
      BY <1>3 DEF Unused
    <3> QED
      BY <3>1, <3>2, <1>0, <1>5 DEF ChecksumsAgree
  <2> QED
    BY <2>1, <2>2
<1>7. CheckStays'
  BY <1>3 DEF CheckStays
<1>8. At(f) = {}
  BY <1>3 DEF Unused, At
<1>9. [NS!Next]_Content
  BY <1>3, <1>5, <1>8, PutRefines
<1> QED
  BY <1>4, <1>6, <1>7, <1>9 DEF IndInv

\* DeleteFile of the only path: the entry and the checksum go.
LEMMA LastStep ==
    ASSUME IndInv, NEW d \in Deleter, DeleteFileLast(d)
    PROVE  IndInv' /\ [NS!Next]_Content
<1> DEFINE f == del[d].file
           l == LocOf[del[d].path]
<1>0. TypeOK /\ ChecksumsAgree /\ CheckStays
  BY DEF IndInv
<1>1. f \in FileId /\ l \in Loc
  BY <1>0, CallTypes DEF DeleteFileLast
<1>2. file[f].Checksum \in Hash
  BY <1>0, <1>1 DEF TypeOK, File
<1>3. /\ entry' = [entry EXCEPT ![l] = None]
      /\ ChecksumDB' = [ChecksumDB EXCEPT ![file[f].Checksum] = None]
      /\ del' = [del EXCEPT ![d] = NoDel]
      /\ UNCHANGED <<file, add, history>>
  BY DEF DeleteFileLast
<1> HIDE DEF f, l
<1>4. TypeOK'
  BY <1>0, <1>1, <1>2, <1>3 DEF TypeOK
<1>5. ChecksumsAgree'
  BY <1>0, <1>2, <1>3 DEF ChecksumsAgree, TypeOK
<1>6. CheckStays'
  BY <1>0, <1>1, <1>3, CallTypes DEF CheckStays, TypeOK
<1>7. [NS!Next]_Content
  BY <1>0, <1>1, <1>3, RemoveRefines
<1> QED
  BY <1>4, <1>5, <1>6, <1>7 DEF IndInv

\* DeleteFile of one of several paths.
LEMMA DropStep ==
    ASSUME IndInv, NEW d \in Deleter, DeleteFileReplica(d)
    PROVE  IndInv' /\ [NS!Next]_Content
<1> DEFINE f == del[d].file
           p == del[d].path
           l == LocOf[p]
           F == [file[f] EXCEPT !.FSPath = WithoutPath(f, p), !.SemaphoreReplica = @ - 1]
<1>0. TypeOK /\ ChecksumsAgree /\ CheckStays
  BY DEF IndInv
<1>1. f \in FileId /\ p \in Path /\ l \in Loc
  BY <1>0, CallTypes DEF DeleteFileReplica
<1>2. file[f] \in File /\ file[f].SemaphoreReplica \in Nat \ {0, 1}
  <2>1. file[f] \in File
    BY <1>0, <1>1 DEF TypeOK
  <2> QED
    BY <2>1 DEF File, DeleteFileReplica, IsLast
<1>3. WithoutPath(f, p) \in [Loc -> Nat]
  BY <1>1, <1>2 DEF WithoutPath, InPaths, File
<1>4. F \in File /\ F.Checksum = file[f].Checksum
  <2> DEFINE n == file[f].SemaphoreReplica - 1
  <2>1. n \in Nat \ {0}
    BY <1>2
  <2>2. F = [file[f] EXCEPT !.FSPath = WithoutPath(f, p), !.SemaphoreReplica = n]
    BY Zenon
  <2> HIDE DEF n, F, f, p
  <2> QED
    BY <1>2, <1>3, <2>1, <2>2, Updated
<1>5. /\ entry' = [entry EXCEPT ![l] = None]
      /\ del' = [del EXCEPT ![d] = NoDel]
      /\ UNCHANGED <<ChecksumDB, add, history>>
  BY DEF DeleteFileReplica
<1>6. file' = [file EXCEPT ![f] = F]
  BY <1>1, Zenon DEF DeleteFileReplica
<1>7. /\ file' \in [FileId -> File]
      /\ \A g \in FileId : file'[g].Checksum = file[g].Checksum
  <2> HIDE DEF f, F
  <2> QED
    BY <1>0, <1>1, <1>4, <1>6, SameChecksum
<1> HIDE DEF f, p, l, F
<1>8. TypeOK'
  BY <1>0, <1>1, <1>5, <1>7 DEF TypeOK
<1>9. ChecksumsAgree'
  BY <1>0, <1>5, <1>7 DEF ChecksumsAgree, TypeOK
<1>10. CheckStays'
  BY <1>0, <1>1, <1>5, <1>7, CallTypes DEF CheckStays, TypeOK
<1>11. [NS!Next]_Content
  BY <1>0, <1>1, <1>5, <1>7, RemoveRefines
<1> QED
  BY <1>8, <1>9, <1>10, <1>11 DEF IndInv

LEMMA NextStep ==
    ASSUME IndInv, [Next]_vars
    PROVE  IndInv' /\ [NS!Next]_Content
<1>1. CASE \/ \E p \in Path, h \in Hash : AddFileCheck(p, h)
           \/ AddFileExists \/ AddFileMiss \/ AddFileReturn
           \/ \E d \in Deleter, p \in Path : DeleteFileGet(d, p)
           \/ \E d \in Deleter : DeleteFileTryLock(d)
  <2>1. IndInv' /\ UNCHANGED <<entry, ChecksumDB, file>>
    BY <1>1, QuietSteps
  <2>2. Content' = Content
    BY <2>1 DEF Content
  <2> QED
    BY <2>1, <2>2
<1>2. CASE AddFileReplica
  BY <1>2, ReplicaStep
<1>3. CASE \E f \in FileId : AddFileCreate(f)
  BY <1>3, CreateStep
<1>4. CASE \E d \in Deleter : DeleteFileLast(d)
  BY <1>4, LastStep
<1>5. CASE \E d \in Deleter : DeleteFileReplica(d)
  BY <1>5, DropStep
<1>6. CASE UNCHANGED vars
  <2>1. Content' = Content
    BY <1>6 DEF Content, vars
  <2>2. IndInv'
    BY <1>6 DEF IndInv, TypeOK, ChecksumsAgree, CheckStays, vars
  <2> QED
    BY <2>1, <2>2
<1> QED
  BY <1>1, <1>2, <1>3, <1>4, <1>5, <1>6 DEF Next, AddFile, DeleteFile

\* The inductive invariant: types, and what stays true between AddFile's check
\* and its write.
THEOREM Invariance == Spec => []IndInv
<1>1. IndInv /\ [Next]_vars => IndInv'
  BY NextStep
<1> QED
  BY InitInvariant, <1>1, PTL DEF Spec

\* Type correctness; in particular DeleteFile never takes SemaphoreReplica,
\* an unsigned number, to 0 or below.
THEOREM TypeCorrect == Spec => []TypeOK
<1>1. IndInv => TypeOK
  BY DEF IndInv
<1> QED
  BY Invariance, <1>1, PTL

\* FS implements Namespace: whatever the interleaving of AddFile with any
\* number of DeleteFile calls, no call replaces the content of a place.
THEOREM Refinement == Spec => NamespaceSpec
<1>1. Init => NS!Init
  BY DEF Init, NS!Init, Content
<1>2. IndInv /\ [Next]_vars => [NS!Next]_Content
  BY NextStep
<1> QED
  BY Invariance, <1>1, <1>2, PTL DEF Spec, NamespaceSpec, NS!Spec
-----------------------------------------------------------------------------
(***************************************************************************)
(* The counts of the Files.  As long as calls have spelled their paths     *)
(* canonically and no two deletes of one place have overlapped, which the  *)
(* code itself does not ensure and history records, the counts are exact   *)
(* in every state, and not only between calls.  StrongInv also says why: a *)
(* delete under way still finds its File at its place, and a checksum that *)
(* AddFile has missed stays unlisted until it has created the File.        *)
(***************************************************************************)
CountsExact ==
    \A f \in FileId : At(f) # {} =>
        /\ IsFiniteSet(At(f))
        /\ file[f].SemaphoreReplica = Cardinality(At(f))
        /\ \A l \in Loc : file[f].FSPath[l] = IF l \in At(f) THEN 1 ELSE 0

EntriesListed ==
    \A l \in Loc : entry[l] # None => ChecksumDB[file[entry[l]].Checksum] = entry[l]

DeletesHold ==
    \A d \in Deleter : del[d] # NoDel =>
        /\ entry[LocOf[del[d].path]] = del[d].file
        /\ \A e \in Deleter \ {d} : del[e] # NoDel => LocOf[del[e].path] # LocOf[del[d].path]

MissStays == add.stage = "creating" => ChecksumDB[add.hash] = None

Canonical ==
    /\ add.stage # "idle" => add.path \in CanonicalPath
    /\ \A d \in Deleter : del[d] # NoDel => del[d].path \in CanonicalPath

StrongInv ==
    /\ CountsExact /\ EntriesListed /\ NoOrphanChecksum /\ DeletesHold /\ MissStays
    /\ Canonical

\* How one directory write changes the places of the Files.
LEMMA AtPut ==
    ASSUME TypeOK, NEW l \in Loc, NEW f \in FileId, entry[l] = None,
           entry' = [entry EXCEPT ![l] = f]
    PROVE  /\ At(f)' = At(f) \cup {l} /\ l \notin At(f)
           /\ \A g \in FileId \ {f} : At(g)' = At(g)
<1>1. entry'[l] = f /\ \A m \in Loc \ {l} : entry'[m] = entry[m]
  BY DEF TypeOK
<1>2. \A g \in FileId : g # None
  BY NoneAssumption
<1> QED
  BY <1>1, <1>2 DEF At

LEMMA AtRemove ==
    ASSUME TypeOK, NEW l \in Loc, NEW f \in FileId, entry[l] = f,
           entry' = [entry EXCEPT ![l] = None]
    PROVE  /\ At(f)' = At(f) \ {l} /\ l \in At(f)
           /\ \A g \in FileId \ {f} : At(g)' = At(g)
<1>1. entry'[l] = None /\ \A m \in Loc \ {l} : entry'[m] = entry[m]
  BY DEF TypeOK
<1>2. \A g \in FileId : g # None
  BY NoneAssumption
<1> QED
  BY <1>1, <1>2 DEF At

\* A place that AddFile is about to write is free: had it a File, that File would
\* have the checksum, and be the listed one with this path.
LEMMA PlaceIsFree ==
    ASSUME IndInv, StrongInv,
           \/ add.stage = "creating"
           \/ /\ add.stage = "checked"
              /\ ChecksumDB[add.hash] # None
              /\ ~InPaths(ChecksumDB[add.hash], add.path)
    PROVE  entry[LocOf[add.path]] = None
<1> DEFINE l == LocOf[add.path]
<1>0. TypeOK /\ CheckStays /\ CountsExact /\ EntriesListed /\ MissStays /\ Canonical
  BY DEF IndInv, StrongInv
<1>1. add \in [stage : {"checked", "creating", "added"}, path : Path, hash : Hash] /\ l \in Loc
  BY <1>0, CallTypes
<1> SUFFICES ASSUME entry[l] # None PROVE FALSE
  OBVIOUS
<1>2. entry[l] \in FileId /\ file[entry[l]].Checksum = add.hash
  BY <1>0, <1>1 DEF CheckStays, TypeOK
<1>3. ChecksumDB[add.hash] = entry[l]
  BY <1>0, <1>1, <1>2 DEF EntriesListed
<1>4. CASE add.stage = "creating"
  BY <1>0, <1>3, <1>4 DEF MissStays
<1>5. CASE ~InPaths(ChecksumDB[add.hash], add.path)
  <2>1. l \in At(entry[l])
    BY <1>1 DEF At
  <2>2. file[entry[l]].FSPath[l] = 1
    BY <1>0, <1>1, <1>2, <2>1 DEF CountsExact
  <2> QED
    BY <1>0, <1>1, <1>3, <1>5, <2>2 DEF InPaths, Canonical
<1> QED
  BY <1>4, <1>5

LEMMA SameTables ==
    ASSUME CountsExact, EntriesListed, NoOrphanChecksum, UNCHANGED <<entry, ChecksumDB, file>>
    PROVE  CountsExact' /\ EntriesListed' /\ NoOrphanChecksum'
<1>1. entry' = entry /\ ChecksumDB' = ChecksumDB /\ file' = file
  OBVIOUS
<1>2. \A f : At(f)' = At(f)
  BY <1>1 DEF At
<1>3. CountsExact'
  BY <1>1, <1>2, SMTT(30) DEF CountsExact
<1>4. EntriesListed'
  BY <1>1 DEF EntriesListed
<1>5. NoOrphanChecksum'
  BY <1>1, <1>2 DEF NoOrphanChecksum
<1> QED
  BY <1>3, <1>4, <1>5

\* The steps that only move a call on.
LEMMA QuietStrong ==
    ASSUME IndInv, StrongInv, Regular, Regular',
           \/ \E p \in Path, h \in Hash : AddFileCheck(p, h)
           \/ AddFileExists \/ AddFileMiss \/ AddFileReturn
           \/ \E d \in Deleter, p \in Path : DeleteFileGet(d, p)
           \/ \E d \in Deleter : DeleteFileTryLock(d)
    PROVE  StrongInv'
<1>0. /\ TypeOK /\ CountsExact /\ EntriesListed /\ NoOrphanChecksum /\ DeletesHold
      /\ MissStays /\ Canonical
  BY DEF IndInv, StrongInv
<1>1. UNCHANGED <<entry, ChecksumDB, file>>
  BY QuietSteps
<1>2. CountsExact' /\ EntriesListed' /\ NoOrphanChecksum'
  BY <1>0, <1>1, SameTables
<1>3. MissStays'
  <2>1. CASE AddFileMiss
    <3>1. add \in [stage : {"checked", "creating", "added"}, path : Path, hash : Hash]
      BY <1>0, <2>1, CallTypes DEF AddFileMiss
    <3>2. add'.hash = add.hash /\ ChecksumDB[add.hash] = None
      BY <2>1, <3>1 DEF AddFileMiss
    <3> QED
      BY <1>1, <3>2 DEF MissStays
  <2>2. CASE (\E p \in Path, h \in Hash : AddFileCheck(p, h)) \/ AddFileExists \/ AddFileReturn
    BY <2>2 DEF AddFileCheck, AddFileExists, AddFileReturn, MissStays
  <2>3. CASE \/ \E d \in Deleter, p \in Path : DeleteFileGet(d, p)
             \/ \E d \in Deleter : DeleteFileTryLock(d)
    BY <1>0, <1>1, <2>3 DEF DeleteFileGet, DeleteFileTryLock, MissStays
  <2> QED
    BY <2>1, <2>2, <2>3
<1>4. DeletesHold'
  <2>1. CASE \/ \E p \in Path, h \in Hash : AddFileCheck(p, h)
             \/ AddFileExists \/ AddFileMiss \/ AddFileReturn
    BY <1>0, <1>1, <2>1
       DEF AddFileCheck, AddFileExists, AddFileMiss, AddFileReturn, DeletesHold
  <2>2. ASSUME NEW d \in Deleter, NEW p \in Path, DeleteFileGet(d, p)
        PROVE  DeletesHold'
    <3>1. /\ \A e \in Deleter : del[e] # NoDel => LocOf[del[e].path] # LocOf[p]
          /\ del' = [del EXCEPT ![d] = [stage |-> "got", path |-> p, file |-> GetFile(p)]]
          /\ del[d] = NoDel
      BY <2>2 DEF DeleteFileGet, Recorded, Regular
    <3>2. /\ \A e \in Deleter \ {d} : del'[e] = del[e]
          /\ del'[d].path = p /\ del'[d].file = GetFile(p)
      BY <1>0, <3>1 DEF TypeOK
    <3> QED
      BY <1>0, <1>1, <3>1, <3>2 DEF DeletesHold
  <2>3. ASSUME NEW d \in Deleter, DeleteFileTryLock(d)
        PROVE  DeletesHold'
    <3>1. /\ del[d] \in [stage : {"got", "locked"}, path : Path, file : FileId]
          /\ del[d] # NoDel
      BY <1>0, <2>3, CallTypes DEF DeleteFileTryLock
    <3>2. /\ \A e \in Deleter \ {d} : del'[e] = del[e]
          /\ \/ del'[d] = NoDel
             \/ del'[d].path = del[d].path /\ del'[d].file = del[d].file
      BY <1>0, <2>3, <3>1 DEF DeleteFileTryLock, TypeOK
    <3>3. \A e \in Deleter : del'[e] # NoDel =>
             del[e] # NoDel /\ del'[e].path = del[e].path /\ del'[e].file = del[e].file
      BY <3>1, <3>2
    <3> QED
      BY <1>0, <1>1, <3>3 DEF DeletesHold
  <2> QED
    BY <2>1, <2>2, <2>3
<1>5. Canonical'
  <2>1. CASE \E p \in Path, h \in Hash : AddFileCheck(p, h)
    BY <1>0, <2>1 DEF AddFileCheck, Recorded, Regular, Canonical
  <2>2. CASE AddFileExists \/ AddFileReturn
    BY <1>0, <2>2 DEF AddFileExists, AddFileReturn, Canonical
  <2>3. CASE AddFileMiss
    <3>1. add \in [stage : {"checked", "creating", "added"}, path : Path, hash : Hash]
      BY <1>0, <2>3, CallTypes DEF AddFileMiss
    <3>2. add'.path = add.path /\ add.stage # "idle" /\ del' = del
      BY <2>3, <3>1 DEF AddFileMiss
    <3> QED
      BY <1>0, <3>2 DEF Canonical
  <2>4. ASSUME NEW d \in Deleter, NEW p \in Path, DeleteFileGet(d, p)
        PROVE  Canonical'
    <3>1. p \in CanonicalPath /\ add' = add
      BY <2>4 DEF DeleteFileGet, Recorded, Regular
    <3>2. /\ \A e \in Deleter \ {d} : del'[e] = del[e]
          /\ del'[d].path = p
      BY <1>0, <2>4 DEF DeleteFileGet, TypeOK
    <3> QED
      BY <1>0, <3>1, <3>2 DEF Canonical
  <2>5. ASSUME NEW d \in Deleter, DeleteFileTryLock(d)
        PROVE  Canonical'
    <3>1. /\ del[d] \in [stage : {"got", "locked"}, path : Path, file : FileId]
          /\ del[d] # NoDel
      BY <1>0, <2>5, CallTypes DEF DeleteFileTryLock
    <3>2. /\ \A e \in Deleter \ {d} : del'[e] = del[e]
          /\ del'[d] = NoDel \/ del'[d].path = del[d].path
          /\ add' = add
      BY <1>0, <2>5, <3>1 DEF DeleteFileTryLock, TypeOK
    <3> QED
      BY <1>0, <3>1, <3>2 DEF Canonical
  <2> QED
    BY <2>1, <2>2, <2>3, <2>4, <2>5
<1> QED
  BY <1>2, <1>3, <1>4, <1>5 DEF StrongInv

\* AddFile puts a File at a free place: a new one, or the listed one once more.
LEMMA PutStrong ==
    ASSUME IndInv, IndInv', StrongInv, NEW f \in FileId, NEW l \in Loc,
           entry[l] = None, entry' = [entry EXCEPT ![l] = f], del' = del,
           add.stage # "idle", add'.stage = "added", add'.path = add.path,
           ChecksumDB'[file'[f].Checksum] = f,
           \A h \in Hash : ChecksumDB'[h] = ChecksumDB[h] \/ ChecksumDB'[h] = f,
           \A h \in Hash : ChecksumDB[h] # None => ChecksumDB'[h] = ChecksumDB[h],
           \A g \in FileId \ {f} : file'[g] = file[g],
           At(f) # {} => /\ file'[f].SemaphoreReplica = file[f].SemaphoreReplica + 1
                         /\ file'[f].FSPath = [file[f].FSPath EXCEPT ![l] = @ + 1]
                         /\ file'[f].Checksum = file[f].Checksum,
           At(f) = {} => /\ file'[f].SemaphoreReplica = 1
                         /\ \A m \in Loc : file'[f].FSPath[m] = IF m = l THEN 1 ELSE 0
    PROVE  StrongInv'
<1>0. /\ TypeOK /\ CountsExact /\ EntriesListed /\ NoOrphanChecksum /\ DeletesHold
      /\ Canonical /\ TypeOK' /\ f # None
  BY NoneAssumption DEF IndInv, StrongInv
<1>1. /\ At(f)' = At(f) \cup {l} /\ l \notin At(f)
      /\ \A g \in FileId \ {f} : At(g)' = At(g)
  BY <1>0, AtPut
<1>2. entry'[l] = f /\ \A m \in Loc \ {l} : entry'[m] = entry[m]
  BY <1>0 DEF TypeOK
<1>3. CountsExact'
  <2> SUFFICES ASSUME NEW g \in FileId, At(g)' # {}
               PROVE  /\ IsFiniteSet(At(g)')
                      /\ file'[g].SemaphoreReplica = Cardinality(At(g)')
                      /\ \A m \in Loc : file'[g].FSPath[m] = IF m \in At(g)' THEN 1 ELSE 0
    BY DEF CountsExact
  <2>1. CASE g # f
    BY <1>0, <1>1, <2>1 DEF CountsExact
  <2>2. CASE g = f /\ At(f) = {}
    <3>1. At(g)' = {l}
      BY <1>1, <2>2
    <3>2. IsFiniteSet({l}) /\ Cardinality({l}) = 1
      BY FS_Singleton
    <3> QED
      BY <2>2, <3>1, <3>2
  <2>3. CASE g = f /\ At(f) # {}
    <3>1. /\ IsFiniteSet(At(f)) /\ file[f].SemaphoreReplica = Cardinality(At(f))
          /\ \A m \in Loc : file[f].FSPath[m] = IF m \in At(f) THEN 1 ELSE 0
      BY <1>0, <2>3 DEF CountsExact
    <3>2. IsFiniteSet(At(g)') /\ Cardinality(At(g)') = Cardinality(At(f)) + 1
      BY <1>1, <2>3, <3>1, FS_AddElement
    <3>3. file'[g].SemaphoreReplica = Cardinality(At(g)')
      BY <2>3, <3>1, <3>2
    <3>4. file[f].FSPath \in [Loc -> Nat]
      BY <1>0 DEF TypeOK, File
    <3>5. \A m \in Loc : file'[g].FSPath[m] = IF m \in At(g)' THEN 1 ELSE 0
      BY <1>1, <2>3, <3>1, <3>4
    <3> QED
      BY <3>2, <3>3, <3>5
  <2> QED
    BY <2>1, <2>2, <2>3
<1>4. EntriesListed'
  <2> SUFFICES ASSUME NEW m \in Loc, entry'[m] # None
               PROVE  ChecksumDB'[file'[entry'[m]].Checksum] = entry'[m]
    BY DEF EntriesListed
  <2>1. CASE m = l \/ entry'[m] = f
    BY <1>2, <2>1
  <2>2. CASE m # l /\ entry'[m] # f
    <3>1. entry'[m] = entry[m] /\ entry[m] \in FileId \ {f}
      BY <1>0, <1>2, <2>2 DEF TypeOK
    <3>2. file'[entry[m]] = file[entry[m]] /\ file[entry[m]].Checksum \in Hash
      BY <1>0, <3>1 DEF TypeOK, File
    <3>3. ChecksumDB[file[entry[m]].Checksum] = entry[m] /\ entry[m] # None
      BY <1>0, <3>1, NoneAssumption DEF EntriesListed
    <3> QED
      BY <3>1, <3>2, <3>3
  <2> QED
    BY <2>1, <2>2
<1>5. NoOrphanChecksum'
  <2> SUFFICES ASSUME NEW h \in Hash, ChecksumDB'[h] # None
               PROVE  At(ChecksumDB[h])' # {}
    BY DEF NoOrphanChecksum
  <2>1. CASE ChecksumDB'[h] = f
    BY <1>1, <2>1 DEF At
  <2>2. CASE ChecksumDB'[h] # f
    <3>1. ChecksumDB'[h] = ChecksumDB[h] /\ ChecksumDB[h] \in FileId \ {f}
      BY <1>0, <2>2 DEF TypeOK
    <3>2. At(ChecksumDB[h]) # {}
      BY <1>0, <3>1, NoneAssumption DEF NoOrphanChecksum
    <3>3. PICK m \in Loc : entry[m] = ChecksumDB[h]
      BY <3>2 DEF At
    <3>4. entry'[m] = ChecksumDB'[h]
      BY <1>2, <3>1, <3>3, NoneAssumption
    <3> QED
      BY <3>4 DEF At
  <2> QED
    BY <2>1, <2>2
<1>6. DeletesHold'
  <2>1. \A d \in Deleter : del[d] # NoDel =>
            LocOf[del[d].path] \in Loc /\ del[d].file \in FileId
    BY <1>0, PathAssumption DEF TypeOK
  <2>2. \A d \in Deleter : del[d] # NoDel => LocOf[del[d].path] # l
    BY <1>0, <2>1, NoneAssumption DEF DeletesHold
  <2> QED
    BY <1>0, <1>2, <2>1, <2>2 DEF DeletesHold
<1>7. MissStays' /\ Canonical'
  BY <1>0 DEF MissStays, Canonical
<1> QED
  BY <1>3, <1>4, <1>5, <1>6, <1>7 DEF StrongInv

LEMMA AddStrong ==
    ASSUME IndInv, IndInv', StrongInv,
           AddFileReplica \/ \E f \in FileId : AddFileCreate(f)
    PROVE  StrongInv'
<1> DEFINE l == LocOf[add.path]
<1>0. /\ TypeOK /\ ChecksumsAgree /\ CountsExact /\ EntriesListed /\ NoOrphanChecksum
      /\ DeletesHold /\ MissStays
  BY DEF IndInv, StrongInv
<1>1. add \in [stage : {"checked", "creating", "added"}, path : Path, hash : Hash] /\ l \in Loc
  BY <1>0, CallTypes DEF AddFileReplica, AddFileCreate
<1>2. entry[l] = None
  BY PlaceIsFree DEF AddFileReplica, AddFileCreate
<1>3. CASE AddFileReplica
  <2>1. PICK f \in FileId : f = ChecksumDB[add.hash]
    BY <1>0, <1>1, <1>3 DEF AddFileReplica, TypeOK
  <2> DEFINE P == [file[f].FSPath EXCEPT ![l] = @ + 1]
             n == CountMore(file[f].SemaphoreReplica)
             F == [file[f] EXCEPT !.FSPath = P, !.SemaphoreReplica = n]
  <2>2. file[f] \in File
    BY <1>0 DEF TypeOK
  <2>3. P \in [Loc -> Nat] /\ n \in Nat \ {0} /\ n = file[f].SemaphoreReplica + 1
    BY <1>1, <2>2 DEF File, CountMore
  <2>4. /\ file' = [file EXCEPT ![f] = F]
        /\ entry' = [entry EXCEPT ![l] = f]
        /\ add' = [stage |-> "added", path |-> add.path, hash |-> add.hash]
        /\ add.stage = "checked"
        /\ UNCHANGED <<ChecksumDB, del>>
    BY <1>3, <2>1, Zenon DEF AddFileReplica
  <2>5. F.FSPath = P /\ F.SemaphoreReplica = n /\ F.Checksum = file[f].Checksum
    <3> HIDE DEF P, n
    <3>1. PICK R \in File : R = file[f]
      BY <2>2, <2>3
    <3>2. F = [R EXCEPT !.FSPath = P, !.SemaphoreReplica = n]
      BY <3>1
    <3> QED
      BY <2>2, <2>3, <3>1, <3>2 DEF File
  <2> HIDE DEF F
  <2>6. file'[f] = F /\ \A g \in FileId \ {f} : file'[g] = file[g]
    BY <1>0, <2>4 DEF TypeOK
  <2>7. At(f) # {}
    BY <1>0, <1>1, <2>1, NoneAssumption DEF NoOrphanChecksum
  <2>8. file[f].Checksum = add.hash
    BY <1>0, <1>1, <2>1, NoneAssumption DEF ChecksumsAgree
  <2>9. ChecksumDB'[file'[f].Checksum] = f
    BY <2>1, <2>4, <2>5, <2>6, <2>8
  <2>10. add.stage # "idle" /\ add'.stage = "added" /\ add'.path = add.path
    BY <2>4
  <2>11. /\ file'[f].SemaphoreReplica = file[f].SemaphoreReplica + 1
         /\ file'[f].FSPath = [file[f].FSPath EXCEPT ![l] = @ + 1]
         /\ file'[f].Checksum = file[f].Checksum
    BY <2>3, <2>5, <2>6
  <2>12. \A h \in Hash : ChecksumDB'[h] = ChecksumDB[h]
    BY <2>4
  <2> HIDE DEF P, n, l
  <2> QED
    BY <1>1, <1>2, <2>4, <2>6, <2>7, <2>9, <2>10, <2>11, <2>12, PutStrong
<1>4. ASSUME NEW f \in FileId, AddFileCreate(f)
      PROVE  StrongInv'
  <2>1. /\ file' = [file EXCEPT ![f] = NewFile(l, add.hash)]
        /\ entry' = [entry EXCEPT ![l] = f]
        /\ ChecksumDB' = [ChecksumDB EXCEPT ![add.hash] = f]
        /\ add' = [add EXCEPT !.stage = "added"]
        /\ UNCHANGED del
        /\ add.stage = "creating" /\ Unused(f)
    BY <1>4 DEF AddFileCreate
  <2>2. At(f) = {} /\ ChecksumDB[add.hash] = None
    BY <1>0, <2>1 DEF Unused, At, MissStays
  <2>3. file'[f] = NewFile(l, add.hash) /\ \A g \in FileId \ {f} : file'[g] = file[g]
    BY <1>0, <2>1 DEF TypeOK
  <2>4. /\ file'[f].Checksum = add.hash /\ file'[f].SemaphoreReplica = 1
        /\ \A m \in Loc : file'[f].FSPath[m] = IF m = l THEN 1 ELSE 0
    BY <1>1, <2>3 DEF NewFile, NoPath
  <2>5. /\ ChecksumDB'[file'[f].Checksum] = f
        /\ \A h \in Hash : ChecksumDB'[h] = ChecksumDB[h] \/ ChecksumDB'[h] = f
        /\ \A h \in Hash : ChecksumDB[h] # None => ChecksumDB'[h] = ChecksumDB[h]
    BY <1>0, <1>1, <2>1, <2>2, <2>4 DEF TypeOK
  <2>6. add.stage # "idle" /\ add'.stage = "added" /\ add'.path = add.path
    BY <1>1, <2>1
  <2> HIDE DEF l
  <2> QED
    BY <1>1, <1>2, <2>1, <2>2, <2>3, <2>4, <2>5, <2>6, PutStrong
<1> QED
  BY <1>3, <1>4

\* DeleteFile takes its File from its place: the last one with the checksum, or
\* one of several.
LEMMA DeleteStrong ==
    ASSUME IndInv, IndInv', StrongInv, NEW d \in Deleter,
           DeleteFileLast(d) \/ DeleteFileReplica(d)
    PROVE  StrongInv'
<1>0. /\ TypeOK /\ ChecksumsAgree /\ CountsExact /\ EntriesListed /\ NoOrphanChecksum
      /\ DeletesHold /\ MissStays /\ Canonical
  BY DEF IndInv, StrongInv
<1>1. /\ del[d] \in [stage : {"got", "locked"}, path : Path, file : FileId] /\ del[d] # NoDel
      /\ LocOf[del[d].path] \in Loc
  BY <1>0, CallTypes DEF DeleteFileLast, DeleteFileReplica
<1>2. PICK f \in FileId : f = del[d].file
  BY <1>1
<1>3. PICK l \in Loc : l = LocOf[del[d].path]
  BY <1>1
<1>4. entry[l] = f /\ \A e \in Deleter \ {d} : del[e] # NoDel => LocOf[del[e].path] # l
  BY <1>0, <1>1, <1>2, <1>3 DEF DeletesHold
<1>5. entry' = [entry EXCEPT ![l] = None] /\ del' = [del EXCEPT ![d] = NoDel] /\ add' = add
  BY <1>3 DEF DeleteFileLast, DeleteFileReplica
<1>6. /\ At(f)' = At(f) \ {l} /\ l \in At(f)
      /\ \A g \in FileId \ {f} : At(g)' = At(g)
  BY <1>0, <1>4, <1>5, AtRemove
<1>7. entry'[l] = None /\ \A m \in Loc \ {l} : entry'[m] = entry[m]
  BY <1>0, <1>5 DEF TypeOK
<1>8. /\ IsFiniteSet(At(f)) /\ file[f].SemaphoreReplica = Cardinality(At(f))
      /\ \A m \in Loc : file[f].FSPath[m] = IF m \in At(f) THEN 1 ELSE 0
  BY <1>0, <1>6 DEF CountsExact
<1>9. IsFiniteSet(At(f)') /\ Cardinality(At(f)') = Cardinality(At(f)) - 1
      /\ Cardinality(At(f)) \in Nat /\ Cardinality(At(f)') \in Nat
  <2>1. IsFiniteSet(At(f) \ {l}) /\ Cardinality(At(f) \ {l}) = Cardinality(At(f)) - 1
    BY <1>6, <1>8, FS_RemoveElement
  <2> QED
    BY <1>6, <1>8, <2>1, FS_CardinalityType
<1>10. DeletesHold' /\ Canonical'
  <2>1. del'[d] = NoDel /\ \A e \in Deleter \ {d} : del'[e] = del[e]
    BY <1>0, <1>5 DEF TypeOK
  <2>2. \A e \in Deleter : del[e] # NoDel => LocOf[del[e].path] \in Loc
    BY <1>0, PathAssumption DEF TypeOK
  <2> QED
    BY <1>0, <1>4, <1>5, <1>7, <2>1, <2>2 DEF DeletesHold, Canonical
<1>11. ChecksumDB[file[f].Checksum] = f /\ file[f].Checksum \in Hash /\ file[f] \in File
  BY <1>0, <1>4, NoneAssumption DEF EntriesListed, TypeOK, File
<1>12. CASE DeleteFileLast(d)
  <2>1. /\ file[f].SemaphoreReplica = 1 /\ file' = file
        /\ ChecksumDB' = [ChecksumDB EXCEPT ![file[f].Checksum] = None]
    BY <1>2, <1>12 DEF DeleteFileLast, IsLast
  <2>2. At(f)' = {}
    BY <1>8, <1>9, <2>1, FS_EmptySet
  <2>3. CountsExact'
    BY <1>0, <1>6, <2>1, <2>2 DEF CountsExact
  <2>4. EntriesListed'
    <3> SUFFICES ASSUME NEW m \in Loc, entry'[m] # None
                 PROVE  ChecksumDB'[file'[entry'[m]].Checksum] = entry'[m]
      BY DEF EntriesListed
    <3>1. m # l /\ entry'[m] = entry[m] /\ entry[m] \in FileId
      BY <1>0, <1>7 DEF TypeOK
    <3>2. entry[m] # f
      BY <2>2, <3>1 DEF At
    <3>3. ChecksumDB[file[entry[m]].Checksum] = entry[m] /\ file[entry[m]].Checksum \in Hash
      BY <1>0, <3>1 DEF EntriesListed, TypeOK, File
    <3> QED
      BY <1>0, <1>11, <2>1, <3>1, <3>2, <3>3 DEF TypeOK
  <2>5. NoOrphanChecksum'
    <3> SUFFICES ASSUME NEW h \in Hash, ChecksumDB'[h] # None
                 PROVE  At(ChecksumDB[h])' # {}
      BY DEF NoOrphanChecksum
    <3>1. h # file[f].Checksum /\ ChecksumDB'[h] = ChecksumDB[h] /\ ChecksumDB[h] \in FileId
      BY <1>0, <1>11, <2>1 DEF TypeOK
    <3>2. ChecksumDB[h] # f
      BY <1>0, <3>1 DEF ChecksumsAgree
    <3>3. PICK m \in Loc : entry[m] = ChecksumDB[h]
      BY <1>0, <3>1 DEF NoOrphanChecksum, At
    <3>4. entry'[m] = ChecksumDB'[h]
      BY <1>4, <1>7, <3>1, <3>2, <3>3
    <3> QED
      BY <3>4 DEF At
  <2>6. MissStays'
    BY <1>0, <1>5, <1>11, <2>1, CallTypes DEF MissStays, TypeOK
  <2> QED
    BY <1>10, <2>3, <2>4, <2>5, <2>6 DEF StrongInv
<1>13. CASE DeleteFileReplica(d)
  <2> DEFINE P == WithoutPath(f, del[d].path)
             n == file[f].SemaphoreReplica - 1
             F == [file[f] EXCEPT !.FSPath = P, !.SemaphoreReplica = n]
  <2>1. /\ file[f].SemaphoreReplica # 1 /\ ChecksumDB' = ChecksumDB
        /\ file' = [file EXCEPT ![f] = F]
    BY <1>2, <1>13, Zenon DEF DeleteFileReplica, IsLast
  <2>2. n \in Nat \ {0} /\ n = Cardinality(At(f)')
    BY <1>8, <1>9, <1>11, <2>1 DEF File
  <2>3. file[f].FSPath[l] = 1 /\ file[f].FSPath \in [Loc -> Nat]
    BY <1>6, <1>8, <1>11 DEF File
  <2>4. P = [file[f].FSPath EXCEPT ![l] = 0]
    BY <1>0, <1>1, <1>3, <2>3 DEF WithoutPath, InPaths, Canonical
  <2>5. P \in [Loc -> Nat]
    BY <2>3, <2>4
  <2>6. F.FSPath = P /\ F.SemaphoreReplica = n /\ F.Checksum = file[f].Checksum
    <3> HIDE DEF P, n
    <3>1. PICK R \in File : R = file[f]
      BY <1>11, <2>2, <2>5
    <3>2. F = [R EXCEPT !.FSPath = P, !.SemaphoreReplica = n]
      BY <3>1
    <3> QED
      BY <1>11, <2>2, <2>5, <3>1, <3>2 DEF File
  <2> HIDE DEF F, P, n
  <2>7. file'[f] = F /\ \A g \in FileId \ {f} : file'[g] = file[g]
    BY <1>0, <2>1 DEF TypeOK
  <2>8. CountsExact'
    <3> SUFFICES ASSUME NEW g \in FileId, At(g)' # {}
                 PROVE  /\ IsFiniteSet(At(g)')
                        /\ file'[g].SemaphoreReplica = Cardinality(At(g)')
                        /\ \A m \in Loc : file'[g].FSPath[m] = IF m \in At(g)' THEN 1 ELSE 0
      BY DEF CountsExact
    <3>1. CASE g # f
      BY <1>0, <1>6, <2>7, <3>1 DEF CountsExact
    <3>2. CASE g = f
      <4>1. \A m \in Loc : P[m] = IF m \in At(f)' THEN 1 ELSE 0
        BY <1>6, <1>8, <2>3, <2>4
      <4> QED
        BY <1>9, <2>2, <2>6, <2>7, <3>2, <4>1
    <3> QED
      BY <3>1, <3>2
  <2>9. \A g \in FileId : file'[g].Checksum = file[g].Checksum
    BY <2>6, <2>7
  <2>10. EntriesListed'
    BY <1>0, <1>7, <2>1, <2>9 DEF EntriesListed, TypeOK
  <2>11. NoOrphanChecksum'
    <3> SUFFICES ASSUME NEW h \in Hash, ChecksumDB[h] # None
                 PROVE  \E m \in Loc : entry'[m] = ChecksumDB[h]
      BY <2>1 DEF NoOrphanChecksum, At
    <3>1. CASE ChecksumDB[h] = f
      <4>1. At(f)' # {}
        BY <2>2, FS_EmptySet
      <4> QED
        BY <3>1, <4>1 DEF At
    <3>2. CASE ChecksumDB[h] # f
      BY <1>0, <1>4, <1>7, <3>2 DEF NoOrphanChecksum, At
    <3> QED
      BY <3>1, <3>2
  <2>12. MissStays'
    BY <1>0, <1>5, <2>1 DEF MissStays
  <2> QED
    BY <1>10, <2>8, <2>10, <2>11, <2>12 DEF StrongInv
<1> QED
  BY <1>12, <1>13

\* A step never makes calls regular again.
LEMMA IrregularStays ==
    ASSUME IndInv, [Next]_vars, Regular'
    PROVE  Regular
<1>1. history \in {"regular", "irregular"}
  BY DEF IndInv, TypeOK
<1>2. \/ history' = history
      \/ \E regular \in BOOLEAN : Recorded(regular)
  BY DEF Next, AddFile, DeleteFile, AddFileCheck, AddFileExists, AddFileReplica, AddFileMiss,
     AddFileCreate, AddFileReturn, DeleteFileGet, DeleteFileTryLock, DeleteFileLast,
     DeleteFileReplica, vars, Recorded
<1> QED
  BY <1>1, <1>2 DEF Recorded, Regular

\* The counts and the checksum table are exact in every state that regular calls
\* reach, for any number of calls; the others stay within IndInv.
THEOREM StrongInvariance == Spec => [](Regular => StrongInv)
<1>1. Init => (Regular => StrongInv)
  <2> SUFFICES ASSUME Init PROVE StrongInv
    OBVIOUS
  <2>1. \A f \in FileId : At(f) = {}
    BY NoneAssumption DEF Init, At
  <2> QED
    BY <2>1 DEF Init, StrongInv, CountsExact, EntriesListed, NoOrphanChecksum, DeletesHold,
       MissStays, Canonical
<1>2. IndInv /\ IndInv' /\ (Regular => StrongInv) /\ [Next]_vars => (Regular => StrongInv)'
  <2> SUFFICES ASSUME IndInv, IndInv', Regular => StrongInv, [Next]_vars, Regular'
               PROVE  StrongInv'
    OBVIOUS
  <2>0. Regular /\ StrongInv
    BY IrregularStays
  <2>1. CASE \/ \E p \in Path, h \in Hash : AddFileCheck(p, h)
             \/ AddFileExists \/ AddFileMiss \/ AddFileReturn
             \/ \E d \in Deleter, p \in Path : DeleteFileGet(d, p)
             \/ \E d \in Deleter : DeleteFileTryLock(d)
    BY <2>0, <2>1, QuietStrong
  <2>2. CASE AddFileReplica \/ \E f \in FileId : AddFileCreate(f)
    BY <2>0, <2>2, AddStrong
  <2>3. CASE \E d \in Deleter : DeleteFileLast(d) \/ DeleteFileReplica(d)
    BY <2>0, <2>3, DeleteStrong
  <2>4. CASE UNCHANGED vars
    <3>1. CountsExact' /\ EntriesListed' /\ NoOrphanChecksum'
      BY <2>0, <2>4, SameTables DEF vars, StrongInv
    <3>2. DeletesHold' /\ MissStays' /\ Canonical'
      BY <2>0, <2>4 DEF vars, StrongInv, DeletesHold, MissStays, Canonical
    <3> QED
      BY <3>1, <3>2 DEF StrongInv
  <2> QED
    BY <2>1, <2>2, <2>3, <2>4 DEF Next, AddFile, DeleteFile
<1> QED
  BY Invariance, <1>1, <1>2, PTL DEF Spec

\* Until a path is spelled in another way or two deletes of one place overlap,
\* places with the same checksum share the File that ChecksumDB names, and its
\* counts agree with the directory, for any number of paths, uploads and deletes.
THEOREM FilesInAgreement == Spec => []FilesAgree
<1>1. (Regular => StrongInv) => FilesAgree
  BY DEF StrongInv, FilesAgree, EntriesListed, CountsExact, ReplicasCounted
<1> QED
  BY StrongInvariance, <1>1, PTL

\* Until a path is spelled in another way or two deletes of one place overlap,
\* the place has an entry when AddFile has done its work, also when it found the
\* path listed and wrote nothing: FinishUpload dereferences what GetFile returns.
THEOREM AddedIsThereAlways == Spec => AddedIsThere
<1>1. ASSUME IndInv, IndInv', StrongInv, [Next]_vars,
             add.stage # "added", add'.stage = "added"
      PROVE  entry'[LocOf[add.path]] # None
  <2>0. /\ TypeOK /\ CountsExact /\ NoOrphanChecksum
    BY <1>1 DEF IndInv, StrongInv
  <2>1. AddFileExists \/ AddFileReplica \/ \E f \in FileId : AddFileCreate(f)
    <3>1. ~(\E p \in Path, h \in Hash : AddFileCheck(p, h)) /\ ~AddFileReturn
      BY <1>1 DEF AddFileCheck, AddFileReturn
    <3>2. ~AddFileMiss
      BY <1>1, <2>0, CallTypes DEF AddFileMiss
    <3>3. ~(\E d \in Deleter : DeleteFile(d)) /\ ~(UNCHANGED vars)
      <4>1. add' # add
        BY <1>1
      <4> QED
        BY <4>1 DEF DeleteFile, DeleteFileGet, DeleteFileTryLock, DeleteFileLast,
           DeleteFileReplica, vars
    <3> QED
      BY <1>1, <3>1, <3>2, <3>3 DEF Next, AddFile
  <2>2. /\ add \in [stage : {"checked", "creating", "added"}, path : Path, hash : Hash]
        /\ LocOf[add.path] \in Loc
    BY <2>0, <2>1, CallTypes DEF AddFileExists, AddFileReplica, AddFileCreate
  <2>3. CASE AddFileExists
    <3>1. PICK f \in FileId : f = ChecksumDB[add.hash]
      BY <2>0, <2>2, <2>3 DEF AddFileExists, TypeOK
    <3>2. /\ entry' = entry /\ file[f].FSPath[LocOf[add.path]] > 0 /\ ChecksumDB[add.hash] # None
      BY <2>3, <3>1 DEF AddFileExists, InPaths
    <3>3. At(f) # {}
      BY <2>0, <2>2, <3>1, <3>2 DEF NoOrphanChecksum
    <3>4. LocOf[add.path] \in At(f)
      BY <2>0, <2>2, <3>2, <3>3 DEF CountsExact
    <3> QED
      BY <3>2, <3>4, NoneAssumption DEF At
  <2>4. CASE AddFileReplica \/ \E f \in FileId : AddFileCreate(f)
    BY <2>0, <2>2, <2>4, NoneAssumption DEF AddFileReplica, AddFileCreate, TypeOK
  <2> QED
    BY <2>1, <2>3, <2>4
<1>2. IndInv /\ IndInv' /\ (Regular => StrongInv) /\ [Next]_vars =>
          [Regular /\ add.stage # "added" /\ add'.stage = "added" =>
              entry'[LocOf[add.path]] # None]_vars
  BY <1>1
<1> QED
  BY Invariance, StrongInvariance, <1>2, PTL DEF Spec, AddedIsThere
=============================================================================
