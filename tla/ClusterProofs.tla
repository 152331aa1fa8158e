--------------------------- MODULE ClusterProofs ---------------------------
(***************************************************************************)
(* Proofs about the upload manager, the handlers of a master and the data  *)
(* nodes together, for any paths, contents, nodes, uploads and deletes.    *)
(*                                                                         *)
(* Uploads: when FinishUpload clears a path, the upload it ends must be    *)
(* the only one with that path and must still be known; UploadInv adds     *)
(* that nothing takes the upload away while FinishUpload runs.             *)
(*                                                                         *)
(* Hosts: HostInv.  A host is given to, and taken from, a File that        *)
(* carries a content uploaded to the path, and between AddFile and the     *)
(* append of the host nobody puts another File there.                      *)
(*                                                                         *)
(* Copies: OwnInv, about a path that shares its content with no other.     *)
(* The listings that no delete in progress accounts for, and the call of a *)
(* post that is still to be listed, have copies of their own on the node.  *)
(* A delete works on the File of its path as long as no second one of the  *)
(* path removes it meanwhile, so OwnInv is about the paths that are not in *)
(* overlapped; of those, ApartInv, no two deletes are in progress.         *)
(***************************************************************************)
EXTENDS Cluster, SequenceTheorems, FiniteSetTheorems, TLAPS

UploadInv ==
    /\ uploads \in [UploadId -> [Host : NodeId, Path : Path] \cup {None}]
    /\ first \in NodeId \cup {None}
    /\ fin # Idle => fin.id \in Uploading
    /\ OneUploadPerPath

(***************************************************************************)
(* A FinishUpload in progress has a known upload.                          *)
(***************************************************************************)
LEMMA FinFacts ==
    ASSUME UploadInv, fin.at \in {"added", "got"}
    PROVE  fin # Idle /\ fin.id \in UploadId /\ fin.id \in Uploading
BY DEF UploadInv, Idle, Uploading

(***************************************************************************)
(* A step that changes no upload and no reservation keeps the invariant.   *)
(***************************************************************************)
LEMMA ManagerUnchanged ==
    ASSUME UploadInv, UNCHANGED <<uploads, pending>>, first' \in NodeId \cup {None},
           fin' # Idle => fin'.id \in Uploading
    PROVE  UploadInv'
BY DEF UploadInv, OneUploadPerPath, Uploading

(***************************************************************************)
(* AddUpload gives a free path to an unused id.                            *)
(***************************************************************************)
LEMMA AddUploadStep ==
    ASSUME UploadInv, NEW p \in Path, NEW id \in UploadId, NEW reached \in BOOLEAN,
           AddUpload(p, id, reached)
    PROVE  UploadInv'
<1>1. /\ fin = Idle /\ p \notin pending /\ first \in NodeId /\ uploads[id] = None
      /\ pending' = pending \cup {p} /\ fin' = fin /\ first' = first
      /\ uploads' = [uploads EXCEPT ![id] = [Host |-> first, Path |-> p]]
  BY DEF AddUpload, NotPending, registry, UploadInv
<1>2. /\ uploads' \in [UploadId -> [Host : NodeId, Path : Path] \cup {None}]
      /\ uploads'[id].Path = p
      /\ \A i \in UploadId : i # id => uploads'[i] = uploads[i]
  BY <1>1 DEF UploadInv
<1>4. Uploading' \subseteq Uploading \cup {id} /\ id \notin Uploading
  BY <1>1, <1>2 DEF Uploading
<1>5. \A i \in Uploading : uploads'[i] = uploads[i] /\ uploads[i].Path \in pending
  BY <1>1, <1>2 DEF Uploading, UploadInv, OneUploadPerPath
<1>6. OneUploadPerPath'
  <2>1. \A i \in Uploading' : uploads'[i].Path \in pending'
    BY <1>1, <1>2, <1>4, <1>5
  <2>2. ASSUME NEW i \in Uploading', NEW j \in Uploading',
               uploads'[i].Path = uploads'[j].Path
        PROVE  i = j
    <3>1. CASE i = id \/ j = id
      BY <1>1, <1>2, <1>4, <1>5, <2>2, <3>1
    <3>2. CASE i # id /\ j # id
      BY <1>4, <1>5, <2>2, <3>2 DEF UploadInv, OneUploadPerPath
    <3> QED
      BY <3>1, <3>2
  <2> QED
    BY <2>1, <2>2 DEF OneUploadPerPath
<1> QED
  BY <1>1, <1>2, <1>6 DEF UploadInv

(***************************************************************************)
(* The end of FinishUpload clears the path of the upload it ends, and no   *)
(* other upload has that path.                                             *)
(***************************************************************************)
LEMMA FinishHostStep ==
    ASSUME UploadInv, NEW replied \in BOOLEAN, FinishUploadHost(replied)
    PROVE  UploadInv'
<1>1. /\ fin.at = "got" /\ fin' = Idle /\ first' = first
      /\ uploads' = [uploads EXCEPT ![fin.id] = None]
      /\ pending' = pending \ {uploads[fin.id].Path}
  BY DEF FinishUploadHost, registry
<1>2. fin.id \in UploadId /\ fin.id \in Uploading
  BY <1>1, FinFacts
<1>3. /\ uploads' \in [UploadId -> [Host : NodeId, Path : Path] \cup {None}]
      /\ uploads'[fin.id] = None
      /\ \A i \in UploadId : i # fin.id => uploads'[i] = uploads[i]
  BY <1>1, <1>2 DEF UploadInv
<1>4. \A i \in Uploading' : i \in Uploading /\ i # fin.id /\ uploads'[i] = uploads[i]
  BY <1>3 DEF Uploading
<1>5. OneUploadPerPath'
  <2>1. \A i \in Uploading' : uploads'[i].Path \in pending'
    BY <1>1, <1>2, <1>4 DEF UploadInv, OneUploadPerPath
  <2>2. \A i, j \in Uploading' : uploads'[i].Path = uploads'[j].Path => i = j
    BY <1>4 DEF UploadInv, OneUploadPerPath
  <2> QED
    BY <2>1, <2>2 DEF OneUploadPerPath
<1> QED
  BY <1>1, <1>3, <1>5 DEF UploadInv

(***************************************************************************)
(* Every other step leaves the uploads alone; AddUpload without a node     *)
(* only reserves one more path.                                            *)
(***************************************************************************)
LEMMA OtherSteps ==
    ASSUME UploadInv,
           \/ \E n \in NodeId : HeartbeatHandler(n)
           \/ \E p \in Path : AddUploadNoNode(p)
           \/ \E id \in UploadId : HTTPUploadCallbackFails(id) \/ \E h \in Hash : Upload(id, h)
           \/ \E id \in UploadId : FinishUploadAdd(id) \/ FinishUploadUnknown(id)
           \/ FinishUploadGet
           \/ \E d \in Deleter : MasterDelete(d)
    PROVE  UploadInv'
<1>0. first \in NodeId \cup {None} /\ (fin # Idle => fin.id \in Uploading)
  BY DEF UploadInv
<1>1. CASE \E n \in NodeId : HeartbeatHandler(n)
  BY <1>0, <1>1, ManagerUnchanged DEF HeartbeatHandler, Push, manager
<1>2. CASE \E p \in Path : AddUploadNoNode(p)
  BY <1>2 DEF AddUploadNoNode, registry, UploadInv, OneUploadPerPath, Uploading
<1>3. CASE \E id \in UploadId : HTTPUploadCallbackFails(id) \/ \E h \in Hash : Upload(id, h)
  BY <1>0, <1>3, ManagerUnchanged DEF HTTPUploadCallbackFails, Upload, registry, manager
<1>4. CASE \E id \in UploadId : FinishUploadAdd(id) \/ FinishUploadUnknown(id)
  <2>1. ASSUME NEW id \in UploadId, FinishUploadAdd(id)
        PROVE  UploadInv'
    BY <1>0, <2>1, ManagerUnchanged DEF FinishUploadAdd, Uploading, registry
  <2>2. ASSUME NEW id \in UploadId, FinishUploadUnknown(id)
        PROVE  UploadInv'
    BY <1>0, <2>2, ManagerUnchanged DEF FinishUploadUnknown, registry, manager
  <2> QED
    BY <1>4, <2>1, <2>2
<1>5. CASE FinishUploadGet
  <2>1. fin.id \in Uploading
    BY <1>5, FinFacts DEF FinishUploadGet
  <2>2. fin' # Idle => fin'.id = fin.id
    BY <1>5 DEF FinishUploadGet
  <2> QED
    BY <1>0, <1>5, <2>1, <2>2, ManagerUnchanged DEF FinishUploadGet, registry
<1>6. CASE \E d \in Deleter : MasterDelete(d)
  <2>1. UNCHANGED <<registry, manager>>
    BY <1>6 DEF MasterDelete, MasterDeleteGet, MasterDeleteLock, MasterDeleteSent,
       MasterDeleteFails, MasterDeleteRefused, MasterDeleteUnlock, MasterDeleteFile
  <2> QED
    BY <1>0, <2>1, ManagerUnchanged DEF registry, manager
<1> QED
  BY <1>1, <1>2, <1>3, <1>4, <1>5, <1>6

LEMMA UploadInvariance == Spec => []UploadInv
<1>1. Init => UploadInv
  BY DEF Init, UploadInv, OneUploadPerPath, Uploading, Idle
<1>2. UploadInv /\ [Next]_vars => UploadInv'
  <2> SUFFICES ASSUME UploadInv, [Next]_vars PROVE UploadInv'
    OBVIOUS
  <2>1. CASE UNCHANGED vars
    BY <2>1, ManagerUnchanged DEF vars, registry, manager, UploadInv
  <2>2. CASE \E p \in Path, id \in UploadId, reached \in BOOLEAN : AddUpload(p, id, reached)
    BY <2>2, AddUploadStep
  <2>3. CASE \E replied \in BOOLEAN : FinishUploadHost(replied)
    BY <2>3, FinishHostStep
  <2> QED
    BY <2>1, <2>2, <2>3, OtherSteps DEF Next, MasterRequestUpload, FinishUpload
<1> QED
  BY <1>1, <1>2, PTL DEF Spec

(***************************************************************************)
(* Two uploads to one path never run at the same time: AddUpload and       *)
(* FinishUpload keep pending and uploads in agreement, whatever fails.     *)
(***************************************************************************)
THEOREM ExclusiveUploads == Spec => []OneUploadPerPath
<1>1. UploadInv => OneUploadPerPath
  BY DEF UploadInv
<1> QED
  BY <1>1, UploadInvariance, PTL
-----------------------------------------------------------------------------
(***************************************************************************)
(* Types.                                                                  *)
(***************************************************************************)
FileType   == [Checksum : Hash \cup {None}, SemaphoreReplica : Int, Host : Seq(NodeId)]
FinType    == {Idle} \cup [at : {"added"}, id : UploadId]
                     \cup [at : {"got"}, id : UploadId, f : FileId]
ClientType == {Idle} \cup [at : {"refused", "done"}]
                     \cup [at : {"granted"}, node : NodeId, path : Path]
                     \cup [at : {"calling"}, node : NodeId, path : Path, hash : Hash]
DelType    == {Idle} \cup [at : {"waiting", "unlocked"}, path : Path, f : FileId]
                     \cup [at : {"sending"}, path : Path, f : FileId,
                           todo : Seq(NodeId), failed : Seq(NodeId)]

TypeInv ==
    /\ entry \in [Path -> FileId \cup {None}]
    /\ ChecksumDB \in [Hash -> FileId \cup {None}]
    /\ file \in [FileId -> FileType]
    /\ fin \in FinType
    /\ client \in [UploadId -> ClientType]
    /\ store \in [NodeId -> [Hash -> Nat]]
    /\ del \in [Deleter -> DelType]

(***************************************************************************)
(* A file is named by a path, being deleted under one or about to be given *)
(* a host for one only if its content was uploaded to that path;           *)
(* ChecksumDB goes by content.                                             *)
(***************************************************************************)
NamedByContent ==
    /\ \A p \in Path : entry[p] # None => <<p, file[entry[p]].Checksum>> \in Content
    /\ \A h \in Hash : ChecksumDB[h] # None => file[ChecksumDB[h]].Checksum = h
    /\ \A d \in Deleter : del[d] # Idle => <<del[d].path, file[del[d].f].Checksum>> \in Content
    /\ fin.at = "got" => <<uploads[fin.id].Path, file[fin.f].Checksum>> \in Content

(***************************************************************************)
(* The client of an upload works on the node and the path the manager      *)
(* noted for it, and waits for the FinishUpload in progress; nobody else   *)
(* puts a file at the path meanwhile.                                      *)
(***************************************************************************)
CallWaits == fin # Idle => client[fin.id].at = "calling"

ClientsInStep ==
    /\ \A id \in Uploading : client[id].at \in {"granted", "calling"} =>
          client[id].path = uploads[id].Path /\ client[id].node = uploads[id].Host
    /\ \A id \in UploadId : client[id].at = "calling" =>
          <<client[id].path, client[id].hash>> \in Content
    /\ fin.at = "got" => entry[uploads[fin.id].Path] \in {None, fin.f}

HostInv == NamedByContent /\ ClientsInStep /\ HostNotEmpty

(***************************************************************************)
(* At most one MasterDelete of p is in progress.                           *)
(***************************************************************************)
DeletesApart(p) ==
    \A d, e \in Deleter :
        del[d] # Idle /\ del[e] # Idle /\ del[d].path = p /\ del[e].path = p => d = e

ApartInv == \A p \in Path \ overlapped : DeletesApart(p)

(***************************************************************************)
(* A content h that is uploaded to p only, as p's only content: one file   *)
(* object carries it, and the copies that are listed, or whose upload has  *)
(* yet to be finished, are in the stores.                                  *)
(***************************************************************************)
Owns(p, h) ==
    /\ h \notin LostReplies
    /\ \A c \in Content : c[1] = p \/ c[2] = h => c = <<p, h>>

OwnFile(p, h) ==
    /\ ChecksumDB[h] = entry[p]
    /\ entry[p] # None => file[entry[p]].SemaphoreReplica = 1
    /\ \A d \in Deleter : del[d] # Idle /\ del[d].path = p => del[d].f = entry[p]

Listed(p)    == IF entry[p] = None THEN << >> ELSE Counted(entry[p])
Coming(n, p) == IF \E id \in Uploading : client[id].at = "calling" /\ client[id].path = p
                                         /\ client[id].node = n
                THEN 1 ELSE 0

OwnCopies(p, h) ==
    \A n \in NodeId : Times(n, Listed(p)) + Coming(n, p) <= store[n][h]

OwnInv ==
    \A p \in Path \ overlapped, h \in Hash : Owns(p, h) => OwnFile(p, h) /\ OwnCopies(p, h)

(***************************************************************************)
(* What the types say of a MasterDelete, of a client and of FinishUpload   *)
(* by how far they are.                                                    *)
(***************************************************************************)
LEMMA DelFacts ==
    ASSUME TypeInv, NEW d \in Deleter
    PROVE  /\ del[d] # Idle => del[d].path \in Path /\ del[d].f \in FileId
           /\ del[d].at \in {"waiting", "sending", "unlocked"} => del[d] # Idle
           /\ del[d] # Idle => del[d].at \in {"waiting", "sending", "unlocked"}
           /\ del[d].at = "sending" =>
                 /\ del[d].todo \in Seq(NodeId) /\ del[d].failed \in Seq(NodeId)
                 /\ del[d] = [at |-> "sending", path |-> del[d].path, f |-> del[d].f,
                              todo |-> del[d].todo, failed |-> del[d].failed]
<1>1. del[d] \in DelType
  BY DEF TypeInv
<1> HIDE DEF TypeInv
<1> QED
  BY <1>1 DEF DelType, Idle

LEMMA ClientFacts ==
    ASSUME TypeInv, NEW id \in UploadId
    PROVE  /\ client[id].at \in {"granted", "calling"} =>
                 client[id].node \in NodeId /\ client[id].path \in Path
           /\ client[id].at = "calling" => client[id].hash \in Hash
<1>1. client[id] \in ClientType
  BY DEF TypeInv
<1> QED
  BY <1>1 DEF ClientType, Idle

LEMMA FinTypeFacts ==
    ASSUME TypeInv
    PROVE  /\ fin # Idle => fin.at \in {"added", "got"} /\ fin.id \in UploadId
           /\ fin.at \in {"added", "got"} => fin # Idle
           /\ fin.at = "got" => fin.f \in FileId
<1>1. fin \in FinType
  BY DEF TypeInv
<1> QED
  BY <1>1 DEF FinType, Idle

LEMMA FileFacts ==
    ASSUME TypeInv, NEW f \in FileId
    PROVE  /\ file[f].Checksum \in Hash \cup {None} /\ file[f].SemaphoreReplica \in Int
           /\ file[f].Host \in Seq(NodeId)
           /\ file[f] = [Checksum |-> file[f].Checksum, SemaphoreReplica |-> file[f].SemaphoreReplica,
                         Host |-> file[f].Host]
<1>1. file[f] \in FileType
  BY DEF TypeInv
<1> QED
  BY <1>1 DEF FileType

LEMMA UploadFacts ==
    ASSUME UploadInv, NEW id \in Uploading
    PROVE  uploads[id].Path \in Path /\ uploads[id].Host \in NodeId
BY DEF UploadInv, Uploading

(***************************************************************************)
(* What a client becomes is again what a client can be.                    *)
(***************************************************************************)
LEMMA ClientTyped ==
    ASSUME TypeInv, NEW id \in UploadId
    PROVE  /\ Answered(id) \in [UploadId -> ClientType]
           /\ client[id].at = "calling" => Failed(id) \in [UploadId -> ClientType]
<1>1. client \in [UploadId -> ClientType] /\ [at |-> "done"] \in ClientType
  BY DEF TypeInv, ClientType
<1>2. ASSUME client[id].at = "calling"
      PROVE  [at |-> "granted", node |-> client[id].node, path |-> client[id].path] \in ClientType
  BY <1>2, ClientFacts DEF ClientType
<1> QED
  BY <1>1, <1>2 DEF Answered, Failed

LEMMA AddFileTyped ==
    ASSUME TypeInv, NEW p \in Path, NEW h \in Hash, AddFile(p, h)
    PROVE  /\ entry' \in [Path -> FileId \cup {None}]
           /\ ChecksumDB' \in [Hash -> FileId \cup {None}]
           /\ file' \in [FileId -> FileType]
<1>0. /\ entry \in [Path -> FileId \cup {None}] /\ ChecksumDB \in [Hash -> FileId \cup {None}]
      /\ file \in [FileId -> FileType]
  BY DEF TypeInv
<1>1. CASE UNCHANGED fs
  BY <1>0, <1>1 DEF fs
<1>2. CASE /\ ChecksumDB[h] # None
           /\ entry' = [entry EXCEPT ![p] = ChecksumDB[h]]
           /\ file' = [file EXCEPT ![ChecksumDB[h]].SemaphoreReplica =
                          IF entry[p] = ChecksumDB[h] THEN @ ELSE @ + 1]
           /\ UNCHANGED ChecksumDB
  <2>1. PICK g \in FileId : g = ChecksumDB[h]
    BY <1>0, <1>2
  <2>2. file[g] \in FileType
    BY <1>0
  <2>3. [file[g] EXCEPT !.SemaphoreReplica = IF entry[p] = g THEN @ ELSE @ + 1] \in FileType
    BY <2>2 DEF FileType
  <2>4. file' = [file EXCEPT ![g] = [file[g] EXCEPT !.SemaphoreReplica =
                                        IF entry[p] = g THEN @ ELSE @ + 1]]
    BY <1>0, <1>2, <2>1
  <2>5. file' \in [FileId -> FileType]
    BY <1>0, <2>3, <2>4
  <2> QED
    BY <1>0, <1>2, <2>5
<1>3. ASSUME NEW f \in FileId,
             entry' = [entry EXCEPT ![p] = f], ChecksumDB' = [ChecksumDB EXCEPT ![h] = f],
             file' = [file EXCEPT ![f] = [Checksum |-> h, SemaphoreReplica |-> 1, Host |-> << >>]]
      PROVE  /\ entry' \in [Path -> FileId \cup {None}]
             /\ ChecksumDB' \in [Hash -> FileId \cup {None}]
             /\ file' \in [FileId -> FileType]
  <2>1. [Checksum |-> h, SemaphoreReplica |-> 1, Host |-> << >>] \in FileType
    BY DEF FileType
  <2> QED
    BY <1>0, <1>3, <2>1
<1> QED
  BY <1>1, <1>2, <1>3 DEF AddFile

LEMMA DeleteFileTyped ==
    ASSUME TypeInv, NEW p \in Path, DeleteFile(p)
    PROVE  /\ entry' \in [Path -> FileId \cup {None}]
           /\ ChecksumDB' \in [Hash -> FileId \cup {None}]
           /\ file' \in [FileId -> FileType]
<1>0. /\ entry \in [Path -> FileId \cup {None}] /\ ChecksumDB \in [Hash -> FileId \cup {None}]
      /\ file \in [FileId -> FileType]
  BY DEF TypeInv
<1>1. CASE UNCHANGED fs
  BY <1>0, <1>1 DEF fs
<1>2. CASE ~UNCHANGED fs
  <2>1. PICK f \in FileId : f = entry[p]
    BY <1>0, <1>2 DEF DeleteFile
  <2>2. /\ entry' = [entry EXCEPT ![p] = None]
        /\ \/ ChecksumDB' = [ChecksumDB EXCEPT ![file[f].Checksum] = None] /\ file' = file
           \/ /\ ChecksumDB' = ChecksumDB
              /\ file' = [file EXCEPT ![f].SemaphoreReplica = @ - 1]
    BY <1>2, <2>1 DEF DeleteFile
  <2>3. [file[f] EXCEPT !.SemaphoreReplica = @ - 1] \in FileType
    <3>1. file[f] \in FileType
      BY <1>0
    <3> QED
      BY <3>1 DEF FileType
  <2> QED
    BY <1>0, <2>2, <2>3
<1> QED
  BY <1>1, <1>2

LEMMA SentTyped ==
    ASSUME TypeInv, NEW d \in Deleter, NEW ok \in BOOLEAN, del[d].at = "sending",
           del[d].todo # << >>, Sent(d, ok)
    PROVE  /\ del' \in [Deleter -> DelType]
           /\ del'[d] = [at |-> "sending", path |-> del[d].path, f |-> del[d].f,
                         todo |-> Tail(del[d].todo),
                         failed |-> IF ok THEN del[d].failed
                                    ELSE Append(del[d].failed, Head(del[d].todo))]
           /\ \A e \in Deleter : e # d => del'[e] = del[e]
<1>1. PICK p \in Path, f \in FileId, todo \in Seq(NodeId), failed \in Seq(NodeId) :
         del[d] = [at |-> "sending", path |-> p, f |-> f, todo |-> todo, failed |-> failed]
  BY DelFacts
<1>2. todo # << >>
  BY <1>1
<1>3. Head(todo) \in NodeId /\ Tail(todo) \in Seq(NodeId)
  BY <1>2, HeadTailProperties
<1>6. Append(failed, Head(todo)) \in Seq(NodeId)
  BY <1>3, AppendProperties
<1>7. PICK tl \in Seq(NodeId), fl \in Seq(NodeId) :
         tl = Tail(todo) /\ fl = IF ok THEN failed ELSE Append(failed, Head(todo))
  BY <1>3, <1>6
<1>8. del \in [Deleter -> DelType]
  BY DEF TypeInv
<1>9. del' = [del EXCEPT ![d].todo = tl, ![d].failed = fl]
  <2>1. tl = Tail(del[d].todo)
    BY <1>1, <1>7
  <2>2. fl = IF ok THEN del[d].failed ELSE Append(del[d].failed, Head(del[d].todo))
    BY <1>1, <1>7
  <2>3. PICK g : g = [del EXCEPT ![d].todo = tl]
    OBVIOUS
  <2>4. g[d].failed = del[d].failed
    BY <1>1, <1>8, <2>3
  <2> QED
    BY <2>1, <2>2 DEF Sent
<1>4. del' = [del EXCEPT ![d] = [at |-> "sending", path |-> p, f |-> f, todo |-> tl, failed |-> fl]]
  <2>1. PICK r : r = [at |-> "sending", path |-> p, f |-> f, todo |-> todo, failed |-> failed]
    OBVIOUS
  <2>2. PICK r1 : r1 = [at |-> "sending", path |-> p, f |-> f, todo |-> tl, failed |-> failed]
    OBVIOUS
  <2>3. [r EXCEPT !.todo = tl] = r1
    BY <2>1, <2>2
  <2>4. [r1 EXCEPT !.failed = fl]
          = [at |-> "sending", path |-> p, f |-> f, todo |-> tl, failed |-> fl]
    BY <2>2
  <2>5. [del EXCEPT ![d].todo = tl] = [del EXCEPT ![d] = r1]
    BY <1>1, <1>8, <2>1, <2>3
  <2>6. [[del EXCEPT ![d] = r1] EXCEPT ![d].failed = fl]
          = [del EXCEPT ![d] = [r1 EXCEPT !.failed = fl]]
    BY <1>8
  <2> QED
    BY <1>9, <2>4, <2>5, <2>6
<1>5. [at |-> "sending", path |-> p, f |-> f, todo |-> tl, failed |-> fl] \in DelType
  BY DEF DelType
<1> QED
  BY <1>1, <1>4, <1>5, <1>7, <1>8

LEMMA SentKeeps ==
    ASSUME TypeInv, NEW d \in Deleter, NEW ok \in BOOLEAN, del[d].at = "sending",
           del[d].todo # << >>, Sent(d, ok)
    PROVE  /\ del[d] # Idle /\ del'[d] # Idle /\ del'[d].at = "sending"
           /\ del'[d].path = del[d].path /\ del'[d].f = del[d].f
           /\ del'[d].todo = Tail(del[d].todo)
           /\ del'[d].failed = IF ok THEN del[d].failed
                               ELSE Append(del[d].failed, Head(del[d].todo))
           /\ \A e \in Deleter : e # d => del'[e] = del[e]
<1>1. PICK p, f, todo, failed :
         /\ p = del[d].path /\ f = del[d].f /\ todo = Tail(del[d].todo)
         /\ failed = IF ok THEN del[d].failed ELSE Append(del[d].failed, Head(del[d].todo))
  OBVIOUS
<1>2. del'[d] = [at |-> "sending", path |-> p, f |-> f, todo |-> todo, failed |-> failed]
  BY <1>1, SentTyped
<1>3. \A e \in Deleter : e # d => del'[e] = del[e]
  BY SentTyped
<1> QED
  BY <1>1, <1>2, <1>3 DEF Idle

LEMMA TypeStep ==
    ASSUME TypeInv, CallWaits, UploadInv, Next
    PROVE  TypeInv'
<1>1. CASE \E n \in NodeId : HeartbeatHandler(n)
  BY <1>1 DEF HeartbeatHandler, TypeInv, manager, fs, clients
<1>2. ASSUME NEW p \in Path, AddUploadNoNode(p)
      PROVE  TypeInv'
  BY <1>2 DEF AddUploadNoNode, TypeInv, fs, clients
<1>3. ASSUME NEW p \in Path, NEW id \in UploadId, NEW reached \in BOOLEAN, AddUpload(p, id, reached)
      PROVE  TypeInv'
  <2>1. first \in NodeId
    BY <1>3 DEF AddUpload, UploadInv
  <2>2. /\ [at |-> "granted", node |-> first, path |-> p] \in ClientType
        /\ [at |-> "refused"] \in ClientType
    BY <2>1 DEF ClientType
  <2>3. client' \in [UploadId -> ClientType]
    BY <1>3, <2>2 DEF AddUpload, TypeInv
  <2> QED
    BY <1>3, <2>3 DEF AddUpload, TypeInv, fs
<1>4. ASSUME NEW id \in UploadId, HTTPUploadCallbackFails(id)
      PROVE  TypeInv'
  <2>1. client' \in [UploadId -> ClientType]
    BY <1>4, ClientTyped DEF HTTPUploadCallbackFails
  <2> QED
    BY <1>4, <2>1 DEF HTTPUploadCallbackFails, TypeInv, manager, fs
<1>5. ASSUME NEW id \in UploadId, NEW h \in Hash, Upload(id, h)
      PROVE  TypeInv'
  <2>1. client[id].node \in NodeId /\ client[id].path \in Path
    BY <1>5, ClientFacts DEF Upload
  <2>2. [at |-> "calling", node |-> client[id].node, path |-> client[id].path, hash |-> h]
            \in ClientType
    BY <2>1 DEF ClientType
  <2>3. client' \in [UploadId -> ClientType]
    BY <1>5, <2>2 DEF Upload, TypeInv
  <2>4. store' \in [NodeId -> [Hash -> Nat]]
    BY <1>5, <2>1 DEF Upload, TypeInv
  <2> QED
    BY <1>5, <2>3, <2>4 DEF Upload, TypeInv, manager, fs
<1>6. ASSUME NEW id \in UploadId, FinishUploadAdd(id)
      PROVE  TypeInv'
  <2>1. uploads[id].Path \in Path /\ client[id].hash \in Hash
    BY <1>6, ClientFacts, UploadFacts DEF FinishUploadAdd, Uploading
  <2>2. PICK p \in Path, h \in Hash : p = uploads[id].Path /\ h = client[id].hash
    BY <2>1
  <2>3. /\ entry' \in [Path -> FileId \cup {None}]
        /\ ChecksumDB' \in [Hash -> FileId \cup {None}]
        /\ file' \in [FileId -> FileType]
    <3>1. AddFile(p, h)
      BY <1>6, <2>2 DEF FinishUploadAdd
    <3> QED
      BY <3>1, AddFileTyped
  <2>4. fin' \in FinType
    BY <1>6 DEF FinishUploadAdd, FinType
  <2> QED
    BY <1>6, <2>3, <2>4 DEF FinishUploadAdd, TypeInv, clients
<1>7. ASSUME NEW id \in UploadId, FinishUploadUnknown(id)
      PROVE  TypeInv'
  <2>1. client' \in [UploadId -> ClientType]
    BY <1>7, ClientTyped DEF FinishUploadUnknown
  <2> QED
    BY <1>7, <2>1 DEF FinishUploadUnknown, TypeInv, manager, fs
<1>8. CASE FinishUploadGet
  <2>1. fin.at = "added" /\ fin.id \in Uploading /\ fin.id \in UploadId /\ client[fin.id].at = "calling"
    BY <1>8, FinFacts DEF FinishUploadGet, CallWaits
  <2>2. entry[uploads[fin.id].Path] \in FileId \cup {None}
    BY <2>1, UploadFacts DEF TypeInv
  <2>3. Idle \in FinType /\ \A f \in FileId : [at |-> "got", id |-> fin.id, f |-> f] \in FinType
    BY <2>1 DEF FinType
  <2>4. fin' \in FinType
    BY <1>8, <2>2, <2>3 DEF FinishUploadGet
  <2>5. client' \in [UploadId -> ClientType]
    BY <1>8, <2>1, ClientTyped DEF FinishUploadGet, TypeInv
  <2> QED
    BY <1>8, <2>4, <2>5 DEF FinishUploadGet, TypeInv, fs
<1>9. ASSUME NEW replied \in BOOLEAN, FinishUploadHost(replied)
      PROVE  TypeInv'
  <2>1. /\ fin.at = "got" /\ fin.id \in Uploading /\ fin.id \in UploadId /\ fin.f \in FileId
        /\ client[fin.id].at = "calling"
    BY <1>9, FinFacts, FinTypeFacts DEF FinishUploadHost, CallWaits
  <2>2. PICK n \in NodeId, f \in FileId : n = uploads[fin.id].Host /\ f = fin.f
    BY <2>1, UploadFacts
  <2>3. file \in [FileId -> FileType] /\ file[f] \in FileType
    BY DEF TypeInv
  <2>4. [file[f] EXCEPT !.Host = Append(@, n)] \in FileType
    <3>1. Append(file[f].Host, n) \in Seq(NodeId)
      BY FileFacts, AppendProperties
    <3> QED
      BY <2>3, <3>1 DEF FileType
  <2>5. file' \in [FileId -> FileType]
    BY <1>9, <2>2, <2>3, <2>4 DEF FinishUploadHost, WithHost
  <2>6. client' \in [UploadId -> ClientType]
    BY <1>9, <2>1, ClientTyped DEF FinishUploadHost
  <2>7. fin' \in FinType
    BY <1>9 DEF FinishUploadHost, FinType
  <2> QED
    BY <1>9, <2>5, <2>6, <2>7 DEF FinishUploadHost, TypeInv
<1>10. ASSUME NEW d \in Deleter, MasterDelete(d)
       PROVE  TypeInv'
  <2>0. UNCHANGED <<fin, client>> /\ del \in [Deleter -> DelType] /\ store \in [NodeId -> [Hash -> Nat]]
    BY <1>10 DEF TypeInv, MasterDelete, MasterDeleteGet, MasterDeleteLock, MasterDeleteSent,
       MasterDeleteFails, MasterDeleteRefused, MasterDeleteUnlock, MasterDeleteFile, manager, clients
  <2>1. ASSUME NEW p \in Path, MasterDeleteGet(d, p)
        PROVE  TypeInv'
    <3>1. entry[p] \in FileId
      BY <2>1 DEF MasterDeleteGet, TypeInv
    <3>2. [at |-> "waiting", path |-> p, f |-> entry[p]] \in DelType
      BY <3>1 DEF DelType
    <3>3. del' \in [Deleter -> DelType]
      BY <2>0, <2>1, <3>2 DEF MasterDeleteGet
    <3> QED
      BY <2>0, <2>1, <3>3 DEF MasterDeleteGet, TypeInv, fs
  <2>2. CASE MasterDeleteLock(d)
    <3>1. del[d].path \in Path /\ del[d].f \in FileId
      BY <2>2, DelFacts DEF MasterDeleteLock
    <3>2. file[del[d].f].Host \in Seq(NodeId)
      BY <3>1, FileFacts
    <3>3. [at |-> "sending", path |-> del[d].path, f |-> del[d].f,
           todo |-> file[del[d].f].Host, failed |-> << >>] \in DelType
      BY <3>1, <3>2 DEF DelType
    <3>4. del' \in [Deleter -> DelType]
      BY <2>0, <2>2, <3>3 DEF MasterDeleteLock
    <3> QED
      BY <2>0, <2>2, <3>4 DEF MasterDeleteLock, TypeInv, fs
  <2>3. ASSUME NEW ok \in BOOLEAN, MasterDeleteSent(d, ok)
        PROVE  TypeInv'
    <3>1. del' \in [Deleter -> DelType]
      BY <2>3, SentTyped DEF MasterDeleteSent
    <3>2. del[d].f \in FileId /\ del[d].todo \in Seq(NodeId) /\ del[d].todo # << >>
      BY <2>3, DelFacts DEF MasterDeleteSent
    <3>3. PICK n \in NodeId, h \in Hash \cup {None} :
             n = Head(del[d].todo) /\ h = file[del[d].f].Checksum
      <4>1. Head(del[d].todo) \in NodeId
        BY <3>2, HeadTailProperties
      <4> QED
        BY <3>2, <4>1, FileFacts
    <3>4. store[n][h] > 0 /\ store' = [store EXCEPT ![n][h] = @ - 1]
      BY <2>3, <3>3 DEF MasterDeleteSent
    <3>5. store' \in [NodeId -> [Hash -> Nat]]
      <4>1. CASE h \in Hash
        <5>1. store[n][h] - 1 \in Nat
          BY <2>0, <3>4, <4>1
        <5> QED
          BY <2>0, <3>4, <4>1, <5>1
      <4>2. CASE h \notin Hash
        BY <2>0, <3>4, <4>2
      <4> QED
        BY <4>1, <4>2
    <3> QED
      BY <2>0, <2>3, <3>1, <3>5 DEF MasterDeleteSent, TypeInv, fs
  <2>4. CASE MasterDeleteFails(d)
    <3>1. del' \in [Deleter -> DelType]
      BY <2>4, SentTyped DEF MasterDeleteFails
    <3> QED
      BY <2>0, <2>4, <3>1 DEF MasterDeleteFails, TypeInv, fs
  <2>5. CASE MasterDeleteRefused(d)
    <3>1. PICK f \in FileId, hs \in Seq(NodeId) : f = del[d].f /\ hs = del[d].failed
      BY <2>5, DelFacts DEF MasterDeleteRefused
    <3>2. file \in [FileId -> FileType] /\ file[f] \in FileType
      BY DEF TypeInv
    <3>3. [file[f] EXCEPT !.Host = hs] \in FileType
      BY <3>2 DEF FileType
    <3>4. file' \in [FileId -> FileType]
      BY <2>5, <3>1, <3>2, <3>3 DEF MasterDeleteRefused, FailedHosts
    <3>5. del' \in [Deleter -> DelType]
      BY <2>0, <2>5 DEF MasterDeleteRefused, DelType
    <3> QED
      BY <2>0, <2>5, <3>4, <3>5 DEF MasterDeleteRefused, TypeInv
  <2>6. CASE MasterDeleteUnlock(d)
    <3>1. del[d].path \in Path /\ del[d].f \in FileId
      BY <2>6, DelFacts DEF MasterDeleteUnlock
    <3>2. [at |-> "unlocked", path |-> del[d].path, f |-> del[d].f] \in DelType
      BY <3>1 DEF DelType
    <3>3. del' \in [Deleter -> DelType]
      BY <2>0, <2>6, <3>2 DEF MasterDeleteUnlock
    <3> QED
      BY <2>0, <2>6, <3>3 DEF MasterDeleteUnlock, TypeInv, fs
  <2>7. CASE MasterDeleteFile(d)
    <3>1. del[d].path \in Path
      BY <2>7, DelFacts DEF MasterDeleteFile
    <3>2. PICK p \in Path : p = del[d].path
      BY <3>1
    <3>3. DeleteFile(p)
      BY <2>7, <3>2 DEF MasterDeleteFile
    <3>4. del' \in [Deleter -> DelType]
      BY <2>0, <2>7 DEF MasterDeleteFile, DelType
    <3> QED
      BY <2>0, <2>7, <3>3, <3>4, DeleteFileTyped DEF MasterDeleteFile, TypeInv
  <2> QED
    BY <1>10, <2>1, <2>2, <2>3, <2>4, <2>5, <2>6, <2>7 DEF MasterDelete
<1> QED
  BY <1>1, <1>2, <1>3, <1>4, <1>5, <1>6, <1>7, <1>8, <1>9, <1>10
     DEF Next, MasterRequestUpload, FinishUpload

(***************************************************************************)
(* A client leaves its call only when FinishUpload does, or never was in   *)
(* one.                                                                    *)
(***************************************************************************)
LEMMA CallWaitsStep ==
    ASSUME TypeInv, CallWaits, UploadInv, Next
    PROVE  CallWaits'
<1>0. client \in [UploadId -> ClientType] /\ (fin # Idle => fin.id \in UploadId)
  BY FinTypeFacts DEF TypeInv
<1>1. CASE UNCHANGED <<fin, client>>
  BY <1>1 DEF CallWaits
<1>2. CASE fin' = Idle
  BY <1>2 DEF CallWaits
<1>3. ASSUME NEW id \in UploadId, HTTPUploadCallbackFails(id)
      PROVE  CallWaits'
  BY <1>0, <1>3 DEF CallWaits, HTTPUploadCallbackFails, Failed, manager
<1>4. ASSUME NEW id \in UploadId, NEW h \in Hash, Upload(id, h)
      PROVE  CallWaits'
  BY <1>0, <1>4 DEF CallWaits, Upload, manager
<1>5. ASSUME NEW id \in UploadId, FinishUploadAdd(id)
      PROVE  CallWaits'
  BY <1>5 DEF CallWaits, FinishUploadAdd, clients
<1>6. CASE FinishUploadGet
  BY <1>0, <1>6, FinFacts DEF CallWaits, FinishUploadGet
<1>7. ASSUME NEW p \in Path, NEW id \in UploadId, NEW reached \in BOOLEAN, AddUpload(p, id, reached)
      PROVE  fin' = Idle
  BY <1>7 DEF AddUpload
<1>8. ASSUME NEW id \in UploadId, FinishUploadUnknown(id)
      PROVE  fin' = Idle
  BY <1>8 DEF FinishUploadUnknown, manager
<1>9. ASSUME NEW replied \in BOOLEAN, FinishUploadHost(replied)
      PROVE  fin' = Idle
  BY <1>9 DEF FinishUploadHost
<1>10. ASSUME NEW d \in Deleter, MasterDelete(d)
       PROVE  UNCHANGED <<fin, client>>
  BY <1>10 DEF MasterDelete, MasterDeleteGet, MasterDeleteLock, MasterDeleteSent,
     MasterDeleteFails, MasterDeleteRefused, MasterDeleteUnlock, MasterDeleteFile, manager, clients
<1>11. ASSUME NEW n \in NodeId, HeartbeatHandler(n)
       PROVE  UNCHANGED <<fin, client>>
  BY <1>11 DEF HeartbeatHandler, manager, clients
<1>12. ASSUME NEW p \in Path, AddUploadNoNode(p)
       PROVE  UNCHANGED <<fin, client>>
  BY <1>12 DEF AddUploadNoNode, clients
<1> QED
  BY <1>1, <1>2, <1>3, <1>4, <1>5, <1>6, <1>7, <1>8, <1>9, <1>10, <1>11, <1>12
     DEF Next, MasterRequestUpload, FinishUpload

LEMMA TypeInvariance == Spec => [](TypeInv /\ CallWaits)
<1>1. Init => TypeInv /\ CallWaits
  BY DEF Init, TypeInv, CallWaits, FileType, FinType, ClientType, DelType, Idle
<1>2. TypeInv /\ CallWaits /\ UploadInv /\ [Next]_vars => (TypeInv /\ CallWaits)'
  <2> SUFFICES ASSUME TypeInv, CallWaits, UploadInv, [Next]_vars PROVE (TypeInv /\ CallWaits)'
    OBVIOUS
  <2>1. CASE UNCHANGED vars
    BY <2>1 DEF TypeInv, CallWaits, vars, manager, fs, clients
  <2> QED
    BY <2>1, TypeStep, CallWaitsStep
<1> QED
  BY <1>1, <1>2, UploadInvariance, PTL DEF Spec
-----------------------------------------------------------------------------
(***************************************************************************)
(* AddFile leaves every file that something refers to with its content and *)
(* its hosts, and changes no path but its own.                             *)
(***************************************************************************)
LEMMA AddFileKeeps ==
    ASSUME TypeInv, NamedByContent, NEW p \in Path, NEW h \in Hash, <<p, h>> \in Content,
           AddFile(p, h)
    PROVE  /\ \A f \in FileId : f \in InUse =>
                 file'[f].Checksum = file[f].Checksum /\ file'[f].Host = file[f].Host
           /\ \A q \in Path : q # p => entry'[q] = entry[q]
           /\ entry'[p] # None => <<p, file'[entry'[p]].Checksum>> \in Content
           /\ \A g \in Hash : ChecksumDB'[g] # None => file'[ChecksumDB'[g]].Checksum = g
<1>0. /\ entry \in [Path -> FileId \cup {None}] /\ ChecksumDB \in [Hash -> FileId \cup {None}]
      /\ file \in [FileId -> FileType]
  BY DEF TypeInv
<1>1. CASE UNCHANGED fs
  BY <1>1 DEF fs, NamedByContent
<1>2. CASE /\ ChecksumDB[h] # None
           /\ entry' = [entry EXCEPT ![p] = ChecksumDB[h]]
           /\ file' = [file EXCEPT ![ChecksumDB[h]].SemaphoreReplica =
                          IF entry[p] = ChecksumDB[h] THEN @ ELSE @ + 1]
           /\ UNCHANGED ChecksumDB
  <2>1. PICK k \in FileId : k = ChecksumDB[h]
    BY <1>0, <1>2
  <2>2. \A f \in FileId : file'[f].Checksum = file[f].Checksum /\ file'[f].Host = file[f].Host
    <3>1. ASSUME NEW f \in FileId, f # k PROVE file'[f] = file[f]
      BY <1>0, <1>2, <2>1, <3>1
    <3>2. file'[k] = [file[k] EXCEPT !.SemaphoreReplica = IF entry[p] = k THEN @ ELSE @ + 1]
      BY <1>0, <1>2, <2>1
    <3>3. file'[k].Checksum = file[k].Checksum /\ file'[k].Host = file[k].Host
      BY <3>2, FileFacts
    <3> QED
      BY <3>1, <3>3
  <2>3. file[k].Checksum = h
    BY <1>2, <2>1 DEF NamedByContent
  <2>4. entry'[p] = k /\ \A q \in Path : q # p => entry'[q] = entry[q]
    BY <1>0, <1>2, <2>1
  <2>5. \A g \in Hash : ChecksumDB'[g] # None => file'[ChecksumDB'[g]].Checksum = g
    BY <1>0, <1>2, <2>2 DEF NamedByContent
  <2> QED
    BY <2>2, <2>3, <2>4, <2>5
<1>3. ASSUME NEW k \in FileId \ InUse,
             entry' = [entry EXCEPT ![p] = k], ChecksumDB' = [ChecksumDB EXCEPT ![h] = k],
             file' = [file EXCEPT ![k] = [Checksum |-> h, SemaphoreReplica |-> 1, Host |-> << >>]]
      PROVE  /\ \A f \in FileId : f \in InUse =>
                   file'[f].Checksum = file[f].Checksum /\ file'[f].Host = file[f].Host
             /\ \A q \in Path : q # p => entry'[q] = entry[q]
             /\ entry'[p] # None => <<p, file'[entry'[p]].Checksum>> \in Content
             /\ \A g \in Hash : ChecksumDB'[g] # None => file'[ChecksumDB'[g]].Checksum = g
  <2>1. /\ \A f \in FileId : f # k => file'[f] = file[f]
        /\ file'[k].Checksum = h
    BY <1>0, <1>3
  <2>2. entry'[p] = k /\ \A q \in Path : q # p => entry'[q] = entry[q]
    BY <1>0, <1>3
  <2>3. ChecksumDB'[h] = k /\ \A g \in Hash : g # h => ChecksumDB'[g] = ChecksumDB[g]
    BY <1>0, <1>3
  <2>4. \A g \in Hash : ChecksumDB[g] \in InUse
    BY DEF InUse
  <2>5. ASSUME NEW g \in Hash, ChecksumDB'[g] # None
        PROVE  file'[ChecksumDB'[g]].Checksum = g
    <3>1. CASE g = h
      BY <2>1, <2>3, <3>1
    <3>2. CASE g # h
      BY <1>0, <2>1, <2>3, <2>4, <2>5, <3>2 DEF NamedByContent
    <3> QED
      BY <3>1, <3>2
  <2> QED
    BY <2>1, <2>2, <2>5
<1> QED
  BY <1>1, <1>2, <1>3 DEF AddFile

(***************************************************************************)
(* A step of MasterDelete takes names away, gives none, changes no         *)
(* content, and leaves no file without hosts that had some; the file it    *)
(* works on is the one it found at its path.                               *)
(***************************************************************************)
DeleteKeeping(d) ==
    /\ \A f \in FileId : /\ file'[f].Checksum = file[f].Checksum
                         /\ file'[f].Host = file[f].Host \/ file'[f].Host # << >>
    /\ \A q \in Path : entry'[q] \in {entry[q], None}
    /\ \A h \in Hash : ChecksumDB'[h] \in {ChecksumDB[h], None}
    /\ \A e \in Deleter : e # d => del'[e] = del[e]
    /\ \/ del'[d] = Idle
       \/ del[d] # Idle /\ del'[d].path = del[d].path /\ del'[d].f = del[d].f
       \/ del'[d].path \in Path /\ del'[d].f = entry[del'[d].path] /\ del'[d].f # None
    /\ UNCHANGED <<registry, manager, clients>>

LEMMA DeleteFileKeeps ==
    ASSUME TypeInv, NEW p \in Path, DeleteFile(p)
    PROVE  /\ \A f \in FileId : file'[f].Checksum = file[f].Checksum /\ file'[f].Host = file[f].Host
           /\ \A q \in Path : entry'[q] \in {entry[q], None}
           /\ \A h \in Hash : ChecksumDB'[h] \in {ChecksumDB[h], None}
<1>0. /\ entry \in [Path -> FileId \cup {None}] /\ ChecksumDB \in [Hash -> FileId \cup {None}]
      /\ file \in [FileId -> FileType]
  BY DEF TypeInv
<1>1. CASE UNCHANGED fs
  BY <1>1 DEF fs
<1>2. CASE ~UNCHANGED fs
  <2>1. PICK k \in FileId : k = entry[p]
    BY <1>0, <1>2 DEF DeleteFile
  <2>2. /\ entry' = [entry EXCEPT ![p] = None]
        /\ \/ ChecksumDB' = [ChecksumDB EXCEPT ![file[k].Checksum] = None] /\ file' = file
           \/ /\ ChecksumDB' = ChecksumDB
              /\ file' = [file EXCEPT ![k].SemaphoreReplica = @ - 1]
    BY <1>2, <2>1 DEF DeleteFile
  <2>3. \A q \in Path : entry'[q] \in {entry[q], None}
    BY <1>0, <2>2
  <2>4. \A h \in Hash : ChecksumDB'[h] \in {ChecksumDB[h], None}
    BY <1>0, <2>2
  <2>5. ASSUME file' = [file EXCEPT ![k].SemaphoreReplica = @ - 1], NEW f \in FileId
        PROVE  file'[f].Checksum = file[f].Checksum /\ file'[f].Host = file[f].Host
    <3>1. CASE f # k
      BY <1>0, <2>5, <3>1
    <3>2. CASE f = k
      <4>1. file'[k] = [file[k] EXCEPT !.SemaphoreReplica = @ - 1]
        BY <1>0, <2>5
      <4> QED
        BY <3>2, <4>1, FileFacts
    <3> QED
      BY <3>1, <3>2
  <2> QED
    BY <2>2, <2>3, <2>4, <2>5
<1> QED
  BY <1>1, <1>2

LEMMA DeleteKeeps ==
    ASSUME TypeInv, NEW d \in Deleter, MasterDelete(d)
    PROVE  DeleteKeeping(d)
<1>0. del \in [Deleter -> DelType] /\ file \in [FileId -> FileType]
  BY DEF TypeInv
<1>1. ASSUME NEW p \in Path, MasterDeleteGet(d, p)
      PROVE  DeleteKeeping(d)
  BY <1>0, <1>1 DEF MasterDeleteGet, DeleteKeeping, fs
<1>2. CASE MasterDeleteLock(d)
  BY <1>0, <1>2, DelFacts DEF MasterDeleteLock, DeleteKeeping, fs
<1>3. ASSUME NEW ok \in BOOLEAN, MasterDeleteSent(d, ok)
      PROVE  DeleteKeeping(d)
  <2>1. /\ del'[d].path = del[d].path /\ del'[d].f = del[d].f /\ del[d] # Idle
        /\ \A e \in Deleter : e # d => del'[e] = del[e]
    BY <1>3, SentKeeps DEF MasterDeleteSent
  <2> QED
    BY <1>3, <2>1 DEF MasterDeleteSent, DeleteKeeping, fs
<1>4. CASE MasterDeleteFails(d)
  <2>1. /\ del'[d].path = del[d].path /\ del'[d].f = del[d].f /\ del[d] # Idle
        /\ \A e \in Deleter : e # d => del'[e] = del[e]
    BY <1>4, SentKeeps DEF MasterDeleteFails
  <2> QED
    BY <1>4, <2>1 DEF MasterDeleteFails, DeleteKeeping, fs
<1>5. CASE MasterDeleteRefused(d)
  <2>1. PICK k \in FileId : k = del[d].f
    BY <1>5, DelFacts DEF MasterDeleteRefused
  <2>2. /\ file'[k] = [file[k] EXCEPT !.Host = del[d].failed]
        /\ \A f \in FileId : f # k => file'[f] = file[f]
    BY <1>0, <1>5, <2>1 DEF MasterDeleteRefused, FailedHosts
  <2>3. file'[k].Checksum = file[k].Checksum /\ file'[k].Host # << >>
    <3>1. del[d].failed # << >>
      BY <1>5 DEF MasterDeleteRefused
    <3>2. PICK hs : hs = del[d].failed
      OBVIOUS
    <3>3. file[k] \in FileType
      BY <1>0
    <3>4. file'[k].Checksum = file[k].Checksum /\ file'[k].Host = hs
      BY <2>2, <3>2, <3>3 DEF FileType
    <3> QED
      BY <3>1, <3>2, <3>4
  <2> QED
    BY <1>0, <1>5, <2>2, <2>3 DEF MasterDeleteRefused, DeleteKeeping
<1>6. CASE MasterDeleteUnlock(d)
  BY <1>0, <1>6, DelFacts DEF MasterDeleteUnlock, DeleteKeeping, fs
<1>7. CASE MasterDeleteFile(d)
  <2>1. PICK p \in Path : p = del[d].path
    BY <1>7, DelFacts DEF MasterDeleteFile
  <2>2. DeleteFile(p)
    BY <1>7, <2>1 DEF MasterDeleteFile
  <2> QED
    BY <1>0, <1>7, <2>2, DeleteFileKeeps DEF MasterDeleteFile, DeleteKeeping
<1> QED
  BY <1>1, <1>2, <1>3, <1>4, <1>5, <1>6, <1>7 DEF MasterDelete

(***************************************************************************)
(* The steps by what they do to files: FinishUpload adds one or appends a  *)
(* host, MasterDelete takes away, the rest touch neither files nor the     *)
(* deletes in progress.                                                    *)
(***************************************************************************)
NoFileStep == UNCHANGED <<fs, del>>

LEMMA StepKinds ==
    ASSUME Next
    PROVE  \/ \E id \in UploadId : FinishUploadAdd(id)
           \/ \E replied \in BOOLEAN : FinishUploadHost(replied)
           \/ \E d \in Deleter : MasterDelete(d)
           \/ /\ NoFileStep
              /\ \/ \E n \in NodeId : HeartbeatHandler(n)
                 \/ \E p \in Path : AddUploadNoNode(p)
                 \/ \E p \in Path, id \in UploadId, reached \in BOOLEAN : AddUpload(p, id, reached)
                 \/ \E id \in UploadId : HTTPUploadCallbackFails(id)
                 \/ \E id \in UploadId, h \in Hash : Upload(id, h)
                 \/ \E id \in UploadId : FinishUploadUnknown(id)
                 \/ FinishUploadGet
<1>1. \A n \in NodeId : HeartbeatHandler(n) => NoFileStep
  BY DEF HeartbeatHandler, NoFileStep
<1>2. \A p \in Path : AddUploadNoNode(p) => NoFileStep
  BY DEF AddUploadNoNode, NoFileStep
<1>3. \A p \in Path, id \in UploadId, reached \in BOOLEAN : AddUpload(p, id, reached) => NoFileStep
  BY DEF AddUpload, NoFileStep
<1>4. \A id \in UploadId : HTTPUploadCallbackFails(id) => NoFileStep
  BY DEF HTTPUploadCallbackFails, NoFileStep
<1>5. \A id \in UploadId, h \in Hash : Upload(id, h) => NoFileStep
  BY DEF Upload, NoFileStep
<1>6. \A id \in UploadId : FinishUploadUnknown(id) => NoFileStep
  BY DEF FinishUploadUnknown, NoFileStep
<1>7. FinishUploadGet => NoFileStep
  BY DEF FinishUploadGet, NoFileStep
<1> QED
  BY <1>1, <1>2, <1>3, <1>4, <1>5, <1>6, <1>7 DEF Next, MasterRequestUpload, FinishUpload

(***************************************************************************)
(* What FinishUpload adds is content that was posted to the path.          *)
(***************************************************************************)
LEMMA FinishAddFacts ==
    ASSUME TypeInv, UploadInv, ClientsInStep, NEW id \in UploadId, FinishUploadAdd(id)
    PROVE  \E p \in Path, h \in Hash :
              /\ p = uploads[id].Path /\ h = client[id].hash /\ <<p, h>> \in Content
              /\ client[id].at = "calling" /\ client[id].path = p /\ id \in Uploading
              /\ client[id].node = uploads[id].Host /\ uploads[id].Host \in NodeId
              /\ AddFile(p, h) /\ fin = Idle /\ fin' = [at |-> "added", id |-> id]
              /\ UNCHANGED <<uploads, client, store, del>>
<1>1. /\ client[id].at = "calling" /\ uploads[id] # None /\ fin = Idle
      /\ fin' = [at |-> "added", id |-> id] /\ AddFile(uploads[id].Path, client[id].hash)
      /\ UNCHANGED <<uploads, client, store, del>>
  BY DEF FinishUploadAdd, clients
<1>2. id \in Uploading
  BY <1>1 DEF Uploading
<1>3. /\ uploads[id].Path \in Path /\ uploads[id].Host \in NodeId /\ client[id].hash \in Hash
  BY <1>1, <1>2, UploadFacts, ClientFacts
<1>4. /\ client[id].path = uploads[id].Path /\ client[id].node = uploads[id].Host
      /\ <<client[id].path, client[id].hash>> \in Content
  BY <1>1, <1>2 DEF ClientsInStep
<1> QED
  BY <1>1, <1>2, <1>3, <1>4

(***************************************************************************)
(* The last step of FinishUpload gives one file one more host, the node of *)
(* the client that waits for it.                                           *)
(***************************************************************************)
HostAppended(replied, id, p, n, f) ==
    /\ id \in Uploading /\ id = fin.id /\ p = uploads[id].Path /\ n = uploads[id].Host
    /\ f = fin.f /\ client[id].at = "calling" /\ client[id].path = p
    /\ client[id].node = n /\ <<p, client[id].hash>> \in Content
    /\ entry[p] \in {None, f}
    /\ file'[f].Host = Append(file[f].Host, n)
    /\ file'[f].Checksum = file[f].Checksum
    /\ file'[f].SemaphoreReplica = file[f].SemaphoreReplica
    /\ \A g \in FileId : g # f => file'[g] = file[g]
    /\ fin' = Idle /\ uploads' = [uploads EXCEPT ![id] = None]
    /\ client' = IF replied THEN Answered(id) ELSE Failed(id)
    /\ UNCHANGED <<entry, ChecksumDB, store, del>>

LEMMA FinishHostFacts ==
    ASSUME TypeInv, CallWaits, UploadInv, ClientsInStep, NEW replied \in BOOLEAN,
           FinishUploadHost(replied)
    PROVE  \E id \in UploadId, p \in Path, n \in NodeId, f \in FileId :
              HostAppended(replied, id, p, n, f)
<1>1. /\ fin.at = "got" /\ fin.id \in Uploading /\ fin.id \in UploadId /\ fin.f \in FileId
      /\ client[fin.id].at = "calling"
  BY FinFacts, FinTypeFacts DEF FinishUploadHost, CallWaits
<1>2. PICK id \in UploadId, p \in Path, n \in NodeId, f \in FileId :
         id = fin.id /\ p = uploads[id].Path /\ n = uploads[id].Host /\ f = fin.f
  BY <1>1, UploadFacts
<1>3. file' = [file EXCEPT ![f].Host = Append(@, n)] /\ file \in [FileId -> FileType]
  BY <1>2 DEF FinishUploadHost, WithHost, TypeInv
<1>4. file'[f] = [file[f] EXCEPT !.Host = Append(@, n)] /\ \A g \in FileId : g # f => file'[g] = file[g]
  BY <1>3
<1>5. PICK hs : hs = Append(file[f].Host, n)
  OBVIOUS
<1>6. file[f] \in FileType
  BY <1>3
<1>7. /\ file'[f].Host = hs /\ file'[f].Checksum = file[f].Checksum
      /\ file'[f].SemaphoreReplica = file[f].SemaphoreReplica
  BY <1>4, <1>5, <1>6 DEF FileType
<1>8. /\ client[id].path = p /\ client[id].node = n /\ <<p, client[id].hash>> \in Content
      /\ entry[p] \in {None, f}
  BY <1>1, <1>2 DEF ClientsInStep
<1>9. /\ fin' = Idle /\ uploads' = [uploads EXCEPT ![id] = None]
      /\ client' = IF replied THEN Answered(id) ELSE Failed(id)
      /\ UNCHANGED <<entry, ChecksumDB, store, del>>
  BY <1>2 DEF FinishUploadHost
<1>10. HostAppended(replied, id, p, n, f)
  BY <1>1, <1>2, <1>4, <1>5, <1>7, <1>8, <1>9 DEF HostAppended
<1> QED
  BY <1>10

LEMMA NamedStep ==
    ASSUME TypeInv, CallWaits, UploadInv, NamedByContent, ClientsInStep, Next
    PROVE  NamedByContent'
<1>0. /\ \A q \in Path : entry[q] \in FileId \cup {None}
      /\ \A h \in Hash : ChecksumDB[h] \in FileId \cup {None}
      /\ \A d \in Deleter : del[d] # Idle => del[d].f \in FileId
      /\ fin.at = "got" => fin.f \in FileId
  BY DelFacts, FinTypeFacts DEF TypeInv
<1>1. ASSUME NEW id \in UploadId, FinishUploadAdd(id)
      PROVE  NamedByContent'
  <2>1. PICK p \in Path, h \in Hash : <<p, h>> \in Content /\ AddFile(p, h) /\ del' = del
    BY <1>1, FinishAddFacts
  <2>4. fin'.at # "got"
    BY <1>1 DEF FinishUploadAdd
  <2>2. /\ \A f \in FileId : f \in InUse => file'[f].Checksum = file[f].Checksum
        /\ \A q \in Path : q # p => entry'[q] = entry[q]
        /\ entry'[p] # None => <<p, file'[entry'[p]].Checksum>> \in Content
        /\ \A g \in Hash : ChecksumDB'[g] # None => file'[ChecksumDB'[g]].Checksum = g
    BY <2>1, AddFileKeeps
  <2>3. /\ \A q \in Path : entry[q] \in InUse
        /\ \A d \in Deleter : del[d] # Idle => del[d].f \in InUse
    BY DEF InUse
  <2> QED
    BY <1>0, <2>1, <2>2, <2>3, <2>4 DEF NamedByContent
<1>2. ASSUME NEW replied \in BOOLEAN, FinishUploadHost(replied)
      PROVE  NamedByContent'
  <2>1. /\ \A g \in FileId : file'[g].Checksum = file[g].Checksum
        /\ UNCHANGED <<entry, ChecksumDB, del>> /\ fin' = Idle
    <3>1. PICK id \in UploadId, p \in Path, n \in NodeId, f \in FileId :
             HostAppended(replied, id, p, n, f)
      BY <1>2, FinishHostFacts
    <3> QED
      BY <3>1 DEF HostAppended
  <2> QED
    BY <1>0, <2>1 DEF NamedByContent, Idle
<1>3. ASSUME NEW d \in Deleter, MasterDelete(d)
      PROVE  NamedByContent'
  <2>1. DeleteKeeping(d)
    BY <1>3, DeleteKeeps
  <2>2. \A q \in Path : entry'[q] # None => <<q, file'[entry'[q]].Checksum>> \in Content
    BY <1>0, <2>1 DEF DeleteKeeping, NamedByContent
  <2>3. \A h \in Hash : ChecksumDB'[h] # None => file'[ChecksumDB'[h]].Checksum = h
    BY <1>0, <2>1 DEF DeleteKeeping, NamedByContent
  <2>4. \A e \in Deleter : del'[e] # Idle => <<del'[e].path, file'[del'[e].f].Checksum>> \in Content
    BY <1>0, <2>1 DEF DeleteKeeping, NamedByContent
  <2>5. fin'.at = "got" => <<uploads'[fin'.id].Path, file'[fin'.f].Checksum>> \in Content
    BY <1>0, <2>1 DEF DeleteKeeping, NamedByContent, manager
  <2> QED
    BY <2>2, <2>3, <2>4, <2>5 DEF NamedByContent
<1>4. CASE NoFileStep /\ UNCHANGED <<uploads, fin>>
  BY <1>4 DEF NoFileStep, fs, NamedByContent
<1>5. CASE NoFileStep /\ fin' = Idle
  BY <1>5 DEF NoFileStep, fs, NamedByContent, Idle
<1>6. CASE FinishUploadGet /\ fin' # Idle
  <2>1. PICK k : k = entry[uploads[fin.id].Path] /\ fin' = [at |-> "got", id |-> fin.id, f |-> k]
    BY <1>6 DEF FinishUploadGet
  <2>2. UNCHANGED <<fs, del, uploads>> /\ k # None
    BY <1>6, <2>1 DEF FinishUploadGet
  <2>3. uploads[fin.id].Path \in Path
    BY <1>6, FinFacts, UploadFacts DEF FinishUploadGet
  <2>4. <<uploads'[fin'.id].Path, file'[fin'.f].Checksum>> \in Content
    BY <2>1, <2>2, <2>3 DEF fs, NamedByContent
  <2> QED
    BY <2>2, <2>4 DEF fs, NamedByContent
<1>7. ASSUME NEW p \in Path, NEW id \in UploadId, NEW reached \in BOOLEAN, AddUpload(p, id, reached)
      PROVE  fin' = Idle
  BY <1>7 DEF AddUpload
<1>8. \/ \E n \in NodeId : HeartbeatHandler(n)
      \/ \E p \in Path : AddUploadNoNode(p)
      \/ \E id \in UploadId : HTTPUploadCallbackFails(id)
      \/ \E id \in UploadId, h \in Hash : Upload(id, h)
      \/ \E id \in UploadId : FinishUploadUnknown(id)
      => UNCHANGED <<uploads, fin>>
  BY DEF HeartbeatHandler, AddUploadNoNode, HTTPUploadCallbackFails, Upload, FinishUploadUnknown,
     manager
<1> QED
  BY <1>1, <1>2, <1>3, <1>4, <1>5, <1>6, <1>7, <1>8, StepKinds

(***************************************************************************)
(* A client moves on its own upload only; whoever else moves keeps what it *)
(* was given.                                                              *)
(***************************************************************************)
LEMMA ClientsStep ==
    ASSUME TypeInv, CallWaits, UploadInv, NamedByContent, ClientsInStep, Next
    PROVE  ClientsInStep'
<1> DEFINE
     Noted(i)  == client[i].at \in {"granted", "calling"} =>
                     client[i].path = uploads[i].Path /\ client[i].node = uploads[i].Host
     Posted(i) == client[i].at = "calling" => <<client[i].path, client[i].hash>> \in Content
     Kept      == fin.at = "got" => entry[uploads[fin.id].Path] \in {None, fin.f}
<1>0. /\ \A i \in Uploading : Noted(i)
      /\ \A i \in UploadId : Posted(i)
      /\ Kept
  BY DEF ClientsInStep
<1>t. /\ client \in [UploadId -> ClientType]
      /\ uploads \in [UploadId -> [Host : NodeId, Path : Path] \cup {None}]
  BY DEF TypeInv, UploadInv
<1>a. SUFFICES /\ \A i \in Uploading' : Noted(i)'
               /\ \A i \in UploadId : Posted(i)'
               /\ Kept'
  BY DEF ClientsInStep
<1>b. ASSUME UNCHANGED <<uploads, client>>
      PROVE  (\A i \in Uploading' : Noted(i)') /\ (\A i \in UploadId : Posted(i)')
  BY <1>0, <1>b DEF Uploading
<1>c. fin' = Idle => Kept'
  BY DEF Idle
<1>d. ASSUME UNCHANGED <<uploads, entry, fin>> PROVE Kept'
  BY <1>0, <1>d
<1>e. ASSUME NEW i \in UploadId, uploads' = uploads, client' = Failed(i), client[i].at = "calling"
      PROVE  (\A j \in Uploading' : Noted(j)') /\ (\A j \in UploadId : Posted(j)')
  <2>1. /\ client'[i].at = "granted" /\ client'[i].node = client[i].node
        /\ client'[i].path = client[i].path
        /\ \A j \in UploadId : j # i => client'[j] = client[j]
    BY <1>t, <1>e DEF Failed
  <2> QED
    BY <1>0, <1>e, <2>1 DEF Uploading
<1>1. ASSUME NEW id \in UploadId, FinishUploadAdd(id)
      PROVE  ClientsInStep'
  <2>1. UNCHANGED <<uploads, client>> /\ fin'.at # "got"
    BY <1>1 DEF FinishUploadAdd, clients
  <2> QED
    BY <1>b, <2>1 DEF ClientsInStep
<1>2. ASSUME NEW replied \in BOOLEAN, FinishUploadHost(replied)
      PROVE  ClientsInStep'
  <2>1. PICK id \in UploadId, p \in Path, n \in NodeId, f \in FileId :
           HostAppended(replied, id, p, n, f)
    BY <1>2, FinishHostFacts
  <2>2. /\ fin' = Idle /\ uploads'[id] = None /\ client[id].at = "calling"
        /\ \A i \in UploadId : i # id => uploads'[i] = uploads[i]
    BY <1>t, <2>1 DEF HostAppended
  <2>3. /\ client'[id].at # "calling"
        /\ \A i \in UploadId : i # id => client'[i] = client[i]
    BY <1>t, <2>1 DEF HostAppended, Answered, Failed
  <2>4. \A i \in Uploading' : i # id /\ i \in Uploading
    BY <2>2 DEF Uploading
  <2>5. \A i \in Uploading' : Noted(i)'
    BY <1>0, <2>2, <2>3, <2>4 DEF Uploading
  <2>6. \A i \in UploadId : Posted(i)'
    BY <1>0, <2>3
  <2> QED
    BY <1>c, <2>2, <2>5, <2>6 DEF ClientsInStep
<1>3. ASSUME NEW d \in Deleter, MasterDelete(d)
      PROVE  ClientsInStep'
  <2>1. DeleteKeeping(d)
    BY <1>3, DeleteKeeps
  <2>2. UNCHANGED <<uploads, client, fin>>
    BY <2>1 DEF DeleteKeeping, manager, clients
  <2>3. ASSUME fin.at = "got"
        PROVE  uploads[fin.id].Path \in Path
    BY <2>3, FinFacts, UploadFacts
  <2>4. Kept'
    BY <1>0, <2>1, <2>2, <2>3 DEF DeleteKeeping
  <2> QED
    BY <1>b, <2>2, <2>4 DEF ClientsInStep
<1>4. CASE NoFileStep /\ \E n \in NodeId : HeartbeatHandler(n)
  <2>1. UNCHANGED <<uploads, client, entry, fin>>
    BY <1>4 DEF HeartbeatHandler, manager, clients, fs
  <2> QED
    BY <1>b, <1>d, <2>1 DEF ClientsInStep
<1>5. CASE NoFileStep /\ \E p \in Path : AddUploadNoNode(p)
  <2>1. UNCHANGED <<uploads, client, entry, fin>>
    BY <1>5 DEF AddUploadNoNode, clients, fs
  <2> QED
    BY <1>b, <1>d, <2>1 DEF ClientsInStep
<1>6. ASSUME NEW p \in Path, NEW id \in UploadId, NEW reached \in BOOLEAN, AddUpload(p, id, reached)
      PROVE  ClientsInStep'
  <2>1. /\ fin' = Idle
        /\ uploads'[id] = [Host |-> first, Path |-> p]
        /\ client'[id] = IF reached THEN [at |-> "granted", node |-> first, path |-> p]
                         ELSE [at |-> "refused"]
        /\ \A i \in UploadId : i # id => uploads'[i] = uploads[i] /\ client'[i] = client[i]
    BY <1>t, <1>6 DEF AddUpload
  <2>2. Noted(id)' /\ Posted(id)'
    BY <2>1
  <2>3. \A i \in UploadId : i # id => Posted(i)' /\ (i \in Uploading' => Noted(i)')
    BY <1>0, <2>1 DEF Uploading
  <2> QED
    BY <1>c, <2>1, <2>2, <2>3 DEF ClientsInStep, Uploading
<1>7. ASSUME NEW id \in UploadId, HTTPUploadCallbackFails(id), NoFileStep
      PROVE  ClientsInStep'
  <2>1. UNCHANGED <<uploads, entry, fin>> /\ client' = Failed(id) /\ client[id].at = "calling"
    BY <1>7 DEF HTTPUploadCallbackFails, manager, fs
  <2> QED
    BY <1>d, <1>e, <2>1 DEF ClientsInStep
<1>8. ASSUME NEW id \in UploadId, NEW h \in Hash, Upload(id, h), NoFileStep
      PROVE  ClientsInStep'
  <2>1. /\ UNCHANGED <<uploads, entry, fin>> /\ client[id].at = "granted"
        /\ <<client[id].path, h>> \in Content
        /\ client'[id] = [at |-> "calling", node |-> client[id].node, path |-> client[id].path,
                          hash |-> h]
        /\ \A i \in UploadId : i # id => client'[i] = client[i]
    BY <1>t, <1>8 DEF Upload, manager, fs
  <2>2. /\ client'[id].node = client[id].node /\ client'[id].path = client[id].path
        /\ client'[id].hash = h
    BY <2>1
  <2>3. \A i \in Uploading' : Noted(i)'
    BY <1>0, <2>1, <2>2 DEF Uploading
  <2>4. \A i \in UploadId : Posted(i)'
    BY <1>0, <2>1, <2>2
  <2> QED
    BY <1>d, <2>1, <2>3, <2>4 DEF ClientsInStep
<1>9. ASSUME NEW id \in UploadId, FinishUploadUnknown(id), NoFileStep
      PROVE  ClientsInStep'
  <2>1. UNCHANGED <<uploads, entry, fin>> /\ client' = Failed(id) /\ client[id].at = "calling"
    BY <1>9 DEF FinishUploadUnknown, manager, fs
  <2> QED
    BY <1>d, <1>e, <2>1 DEF ClientsInStep
<1>10. CASE FinishUploadGet
  <2>1. fin.at = "added" /\ fin.id \in UploadId /\ client[fin.id].at = "calling"
    BY <1>10, FinFacts DEF FinishUploadGet, CallWaits
  <2>2. uploads' = uploads /\ entry' = entry
    BY <1>10 DEF FinishUploadGet, fs
  <2>3. CASE entry[uploads[fin.id].Path] # None
    <3>1. client' = client /\ fin' = [at |-> "got", id |-> fin.id, f |-> entry[uploads[fin.id].Path]]
      BY <1>10, <2>3 DEF FinishUploadGet
    <3>2. Kept'
      BY <2>2, <3>1
    <3> QED
      BY <1>b, <2>2, <3>1, <3>2 DEF ClientsInStep
  <2>4. CASE entry[uploads[fin.id].Path] = None
    <3>1. client' = Failed(fin.id) /\ fin' = Idle
      BY <1>10, <2>4 DEF FinishUploadGet
    <3>2. PICK i \in UploadId : i = fin.id
      BY <2>1
    <3>3. client' = Failed(i) /\ client[i].at = "calling"
      BY <2>1, <3>1, <3>2
    <3> QED
      BY <1>c, <1>e, <2>2, <3>1, <3>3 DEF ClientsInStep
  <2> QED
    BY <2>3, <2>4
<1> QED
  BY <1>1, <1>2, <1>3, <1>4, <1>5, <1>6, <1>7, <1>8, <1>9, <1>10, StepKinds DEF ClientsInStep

(***************************************************************************)
(* Only the path of the FinishUpload in progress may have a file without   *)
(* hosts, and it has one when FinishUpload is over.                        *)
(***************************************************************************)
LEMMA HostsStep ==
    ASSUME TypeInv, CallWaits, UploadInv, HostInv, Next
    PROVE  HostNotEmpty'
<1>0. /\ \A q \in Path : entry[q] \in FileId \cup {None}
      /\ \A q \in Path : entry[q] \in InUse
      /\ NamedByContent /\ ClientsInStep /\ HostNotEmpty
  BY DEF TypeInv, HostInv, InUse
<1>1. ASSUME NEW id \in UploadId, FinishUploadAdd(id)
      PROVE  HostNotEmpty'
  <2>1. PICK p \in Path, h \in Hash :
           /\ p = uploads[id].Path /\ <<p, h>> \in Content
           /\ AddFile(p, h) /\ fin = Idle /\ fin' = [at |-> "added", id |-> id]
           /\ uploads' = uploads
    BY <1>0, <1>1, FinishAddFacts
  <2>2. /\ \A f \in FileId : f \in InUse => file'[f].Host = file[f].Host
        /\ \A q \in Path : q # p => entry'[q] = entry[q]
    BY <1>0, <2>1, AddFileKeeps
  <2>3. fin' # Idle /\ uploads'[fin'.id].Path = p
    BY <2>1 DEF Idle
  <2> QED
    BY <1>0, <2>1, <2>2, <2>3 DEF HostNotEmpty
<1>2. ASSUME NEW replied \in BOOLEAN, FinishUploadHost(replied)
      PROVE  HostNotEmpty'
  <2>1. PICK id \in UploadId, p \in Path, n \in NodeId, f \in FileId :
           HostAppended(replied, id, p, n, f)
    BY <1>0, <1>2, FinishHostFacts
  <2>2. Append(file[f].Host, n) # << >>
    <3>1. PICK hosts \in Seq(NodeId) : hosts = file[f].Host
      BY FileFacts
    <3>2. Len(Append(hosts, n)) = Len(hosts) + 1 /\ Len(hosts) \in Nat
      BY AppendProperties
    <3>3. Append(hosts, n) # << >>
      BY <3>2
    <3> QED
      BY <3>1, <3>3
  <2>3. /\ file'[f].Host # << >> /\ entry' = entry /\ entry[p] \in {None, f}
        /\ \A g \in FileId : g # f => file'[g] = file[g]
        /\ p = uploads[fin.id].Path
    BY <2>1, <2>2 DEF HostAppended
  <2> QED
    BY <1>0, <2>3 DEF HostNotEmpty
<1>3. ASSUME NEW d \in Deleter, MasterDelete(d)
      PROVE  HostNotEmpty'
  <2>1. DeleteKeeping(d)
    BY <1>3, DeleteKeeps
  <2>2. UNCHANGED <<uploads, fin>>
    BY <2>1 DEF DeleteKeeping, manager
  <2> QED
    BY <1>0, <2>1, <2>2 DEF DeleteKeeping, HostNotEmpty
<1>4. CASE NoFileStep /\ fin = Idle
  BY <1>0, <1>4 DEF NoFileStep, fs, HostNotEmpty
<1>5. CASE NoFileStep /\ UNCHANGED <<uploads, fin>>
  BY <1>0, <1>5 DEF NoFileStep, fs, HostNotEmpty
<1>6. CASE FinishUploadGet
  <2>1. UNCHANGED <<entry, file, uploads>> /\ fin.at = "added"
    BY <1>6 DEF FinishUploadGet, fs
  <2>2. CASE entry[uploads[fin.id].Path] # None
    <3>1. fin' # Idle /\ fin'.id = fin.id
      BY <1>6, <2>2 DEF FinishUploadGet, Idle
    <3> QED
      BY <1>0, <2>1, <3>1 DEF HostNotEmpty
  <2>3. CASE entry[uploads[fin.id].Path] = None
    BY <1>0, <2>1, <2>3 DEF HostNotEmpty
  <2> QED
    BY <2>2, <2>3
<1>7. ASSUME NEW p \in Path, NEW id \in UploadId, NEW reached \in BOOLEAN, AddUpload(p, id, reached)
      PROVE  fin = Idle
  BY <1>7 DEF AddUpload
<1>8. \/ \E n \in NodeId : HeartbeatHandler(n)
      \/ \E p \in Path : AddUploadNoNode(p)
      \/ \E id \in UploadId : HTTPUploadCallbackFails(id)
      \/ \E id \in UploadId, h \in Hash : Upload(id, h)
      \/ \E id \in UploadId : FinishUploadUnknown(id)
      => UNCHANGED <<uploads, fin>>
  BY DEF HeartbeatHandler, AddUploadNoNode, HTTPUploadCallbackFails, Upload, FinishUploadUnknown,
     manager
<1> QED
  BY <1>1, <1>2, <1>3, <1>4, <1>5, <1>6, <1>7, <1>8, StepKinds

Established == TypeInv /\ CallWaits /\ UploadInv /\ HostInv

LEMMA HostInvariance == Spec => []Established
<1>1. Init => HostInv
  BY DEF Init, HostInv, NamedByContent, ClientsInStep, HostNotEmpty, Uploading, Idle
<1>2. TypeInv /\ CallWaits /\ UploadInv /\ HostInv /\ [Next]_vars => HostInv'
  <2> SUFFICES ASSUME TypeInv, CallWaits, UploadInv, HostInv, [Next]_vars PROVE HostInv'
    OBVIOUS
  <2>1. CASE UNCHANGED vars
    BY <2>1 DEF HostInv, NamedByContent, ClientsInStep, HostNotEmpty, Uploading,
       vars, manager, fs, clients
  <2> QED
    BY <2>1, NamedStep, ClientsStep, HostsStep DEF HostInv
<1> QED
  BY <1>1, <1>2, UploadInvariance, TypeInvariance, PTL DEF Spec, Established

(***************************************************************************)
(* A path in the namespace has a host for MasterDownload to send its       *)
(* client to, except between AddFile and the append of the FinishUpload    *)
(* that created it: whatever contents paths share, however many deletes    *)
(* and uploads run at a time, and whatever fails.                          *)
(***************************************************************************)
THEOREM FilesHaveHosts == Spec => []HostNotEmpty
<1>1. Established => HostNotEmpty
  BY DEF Established, HostInv
<1> QED
  BY <1>1, HostInvariance, PTL
-----------------------------------------------------------------------------
(***************************************************************************)
(* How often a node is listed, when lists are put together.                *)
(***************************************************************************)
LEMMA TimesConcat ==
    ASSUME NEW s \in Seq(NodeId), NEW t \in Seq(NodeId), NEW n
    PROVE  /\ Times(n, s \o t) = Times(n, s) + Times(n, t)
           /\ Times(n, s) \in Nat /\ Times(n, t) \in Nat
<1> DEFINE A == {k \in 1..Len(s) : s[k] = n}
           B == {k \in 1..Len(t) : t[k] = n}
           C == {k \in 1..Len(s) + Len(t) : (s \o t)[k] = n}
           D == {k + Len(s) : k \in B}
           g == [k \in B |-> k + Len(s)]
<1>0. Len(s) \in Nat /\ Len(t) \in Nat
  BY LenProperties
<1>1. DOMAIN s = 1..Len(s) /\ DOMAIN t = 1..Len(t) /\ DOMAIN (s \o t) = 1..Len(s) + Len(t)
  BY ConcatProperties, LenProperties
<1>2. Times(n, s) = Cardinality(A) /\ Times(n, t) = Cardinality(B) /\ Times(n, s \o t) = Cardinality(C)
  BY <1>1 DEF Times
<1>3. \A i \in 1..Len(s) + Len(t) : (s \o t)[i] = IF i <= Len(s) THEN s[i] ELSE t[i - Len(s)]
  BY ConcatProperties
<1>4. IsFiniteSet(A) /\ IsFiniteSet(B)
  <2>1. IsFiniteSet(1..Len(s)) /\ IsFiniteSet(1..Len(t))
    BY <1>0, FS_Interval
  <2> QED
    BY <2>1, FS_Subset
<1>5. g \in Bijection(B, D)
  <2>1. g \in [B -> D] /\ \A k \in B : k \in Nat
    BY <1>0
  <2>2. \A j, k \in B : g[j] = g[k] => j = k
    BY <1>0, <2>1
  <2>3. \A y \in D : \E k \in B : g[k] = y
    OBVIOUS
  <2> HIDE DEF g, B, D
  <2> QED
    BY <2>1, <2>2, <2>3 DEF Bijection, Injection, Surjection, IsInjective
<1>6. IsFiniteSet(D) /\ Cardinality(D) = Cardinality(B)
  BY <1>4, <1>5, FS_Bijection DEF ExistsBijection
<1>7. A \cap D = {}
  BY <1>0
<1>8. C = A \cup D
  <2>1. ASSUME NEW k \in C PROVE k \in A \cup D
    <3>1. CASE k <= Len(s)
      BY <1>0, <1>3, <3>1
    <3>2. CASE ~(k <= Len(s))
      <4>1. k - Len(s) \in 1..Len(t) /\ t[k - Len(s)] = n
        BY <1>0, <1>3, <3>2
      <4>2. k - Len(s) \in B /\ k = (k - Len(s)) + Len(s)
        BY <1>0, <4>1
      <4> QED
        BY <4>2
    <3> QED
      BY <3>1, <3>2
  <2>2. \A k \in A : k \in C
    BY <1>0, <1>3
  <2>3. ASSUME NEW k \in B PROVE k + Len(s) \in C
    <3>1. k + Len(s) \in 1..Len(s) + Len(t) /\ ~(k + Len(s) <= Len(s)) /\ (k + Len(s)) - Len(s) = k
      BY <1>0
    <3> QED
      BY <1>3, <3>1
  <2> QED
    BY <2>1, <2>2, <2>3
<1>9. Cardinality(A) \in Nat /\ Cardinality(B) \in Nat /\ Cardinality({}) = 0
  BY <1>4, FS_CardinalityType, FS_EmptySet
<1> HIDE DEF A, B, C, D
<1>10. Cardinality(C) = Cardinality(A) + Cardinality(D) - Cardinality(A \cap D)
  BY <1>4, <1>6, <1>8, FS_Union
<1>11. Cardinality(A \cap D) = 0
  BY <1>7, <1>9
<1>12. Cardinality(C) = Cardinality(A) + Cardinality(B)
  BY <1>6, <1>9, <1>10, <1>11
<1> QED
  BY <1>2, <1>9, <1>12

LEMMA TimesOne ==
    ASSUME NEW x \in NodeId, NEW n
    PROVE  /\ Times(n, << >>) = 0
           /\ Times(n, <<x>>) = IF x = n THEN 1 ELSE 0
<1>1. {k \in DOMAIN << >> : << >>[k] = n} = {}
  OBVIOUS
<1>2. CASE x = n
  <2>1. {k \in DOMAIN <<x>> : <<x>>[k] = n} = {1}
    BY <1>2
  <2> QED
    BY <1>1, <1>2, <2>1, FS_EmptySet, FS_Singleton DEF Times
<1>3. CASE x # n
  <2>1. {k \in DOMAIN <<x>> : <<x>>[k] = n} = {}
    BY <1>3
  <2> QED
    BY <1>1, <1>3, <2>1, FS_EmptySet DEF Times
<1> QED
  BY <1>2, <1>3

LEMMA TimesAppend ==
    ASSUME NEW s \in Seq(NodeId), NEW x \in NodeId, NEW n
    PROVE  Times(n, Append(s, x)) = Times(n, s) + (IF x = n THEN 1 ELSE 0)
<1>1. <<x>> \in Seq(NodeId) /\ Append(s, x) = s \o <<x>>
  BY AppendIsConcat
<1>2. PICK t \in Seq(NodeId) : t = <<x>>
  BY <1>1
<1>3. Times(n, Append(s, x)) = Times(n, s) + Times(n, t)
  <2>1. Times(n, s \o t) = Times(n, s) + Times(n, t)
    BY TimesConcat
  <2>2. Append(s, x) = s \o t
    BY <1>1, <1>2
  <2> QED
    BY <2>1, <2>2, Zenon
<1>4. Times(n, t) = IF x = n THEN 1 ELSE 0
  BY <1>2, TimesOne
<1> QED
  BY <1>3, <1>4

LEMMA TimesTail ==
    ASSUME NEW s \in Seq(NodeId), s # << >>, NEW n
    PROVE  /\ Head(s) \in NodeId /\ Tail(s) \in Seq(NodeId)
           /\ Times(n, s) = (IF Head(s) = n THEN 1 ELSE 0) + Times(n, Tail(s))
<1>1. Head(s) \in NodeId /\ Tail(s) \in Seq(NodeId)
  BY HeadTailProperties
<1>2. <<Head(s)>> \in Seq(NodeId)
  BY <1>1
<1>3. s = <<Head(s)>> \o Tail(s)
  OBVIOUS
<1>4. PICK a \in Seq(NodeId), x \in NodeId : a = Tail(s) /\ x = Head(s)
  BY <1>1
<1>5. Times(n, s) = Times(n, <<x>>) + Times(n, a)
  <2>1. PICK t \in Seq(NodeId) : t = <<x>>
    BY <1>2, <1>4
  <2>2. Times(n, t \o a) = Times(n, t) + Times(n, a)
    BY TimesConcat
  <2>3. s = t \o a
    BY <1>3, <1>4, <2>1
  <2> QED
    BY <2>1, <2>2, <2>3, Zenon
<1> QED
  BY <1>1, <1>4, <1>5, TimesOne
-----------------------------------------------------------------------------
(***************************************************************************)
(* Counted, as a function of the deletes in progress and of the list a     *)
(* file has.                                                               *)
(***************************************************************************)
Sends(dl, f, d) == dl[d].at = "sending" /\ dl[d].f = f
Freed(dl, f, d) == dl[d].at = "unlocked" /\ dl[d].f = f

ListedOf(dl, f, hosts) ==
    IF \E d \in Deleter : Sends(dl, f, d)
    THEN LET d == CHOOSE d \in Deleter : Sends(dl, f, d) IN dl[d].todo \o dl[d].failed
    ELSE IF \E d \in Deleter : Freed(dl, f, d) THEN << >> ELSE hosts

LEMMA ListedForm ==
    ASSUME NEW p
    PROVE  /\ Listed(p) = IF entry[p] = None THEN << >>
                          ELSE ListedOf(del, entry[p], file[entry[p]].Host)
           /\ Listed(p)' = IF entry'[p] = None THEN << >>
                           ELSE ListedOf(del', entry'[p], file'[entry'[p]].Host)
BY DEF Listed, Counted, Locked, ListedOf, Sends, Freed

LEMMA ListedSends ==
    ASSUME NEW dl, NEW f, NEW hosts, NEW d \in Deleter, Sends(dl, f, d),
           \A e \in Deleter : Sends(dl, f, e) => e = d
    PROVE  ListedOf(dl, f, hosts) = dl[d].todo \o dl[d].failed
<1>1. (CHOOSE e \in Deleter : Sends(dl, f, e)) = d
  OBVIOUS
<1> QED
  BY <1>1 DEF ListedOf

LEMMA ListedFreed ==
    ASSUME NEW dl, NEW f, NEW hosts, NEW d \in Deleter, Freed(dl, f, d),
           \A e \in Deleter : ~Sends(dl, f, e)
    PROVE  ListedOf(dl, f, hosts) = << >>
BY DEF ListedOf

LEMMA ListedPlain ==
    ASSUME NEW dl, NEW f, NEW hosts, \A e \in Deleter : ~Sends(dl, f, e) /\ ~Freed(dl, f, e)
    PROVE  ListedOf(dl, f, hosts) = hosts
BY DEF ListedOf

LEMMA ListedEither ==
    ASSUME NEW dl, NEW f, NEW a, NEW b
    PROVE  \/ ListedOf(dl, f, a) = ListedOf(dl, f, b)
           \/ ListedOf(dl, f, a) = a /\ ListedOf(dl, f, b) = b
BY DEF ListedOf

(***************************************************************************)
(* Deletes of other files do not matter.                                   *)
(***************************************************************************)
LEMMA ListedSame ==
    ASSUME NEW dl, NEW dm, NEW f, NEW hosts,
           \A e \in Deleter :
              \/ dl[e] = dm[e]
              \/ /\ ~Sends(dl, f, e) /\ ~Freed(dl, f, e)
                 /\ ~Sends(dm, f, e) /\ ~Freed(dm, f, e)
    PROVE  ListedOf(dl, f, hosts) = ListedOf(dm, f, hosts)
<1>1. \A e \in Deleter : Sends(dl, f, e) <=> Sends(dm, f, e)
  BY DEF Sends
<1>2. \A e \in Deleter : Freed(dl, f, e) <=> Freed(dm, f, e)
  BY DEF Freed
<1>3. (CHOOSE e \in Deleter : Sends(dl, f, e)) = (CHOOSE e \in Deleter : Sends(dm, f, e))
  BY <1>1
<1>4. ASSUME \E e \in Deleter : Sends(dl, f, e)
      PROVE  LET d == CHOOSE e \in Deleter : Sends(dl, f, e) IN dl[d] = dm[d]
  <2>1. PICK d \in Deleter : d = (CHOOSE e \in Deleter : Sends(dl, f, e)) /\ Sends(dl, f, d)
    BY <1>4
  <2> QED
    BY <2>1
<1> QED
  BY <1>1, <1>2, <1>3, <1>4 DEF ListedOf

(***************************************************************************)
(* What it means that h is p's own content.                                *)
(***************************************************************************)
LEMMA OwnsUnique ==
    ASSUME NEW p \in Path, NEW h \in Hash, Owns(p, h), NEW q, NEW g, <<q, g>> \in Content
    PROVE  q = p <=> g = h
<1>1. <<q, g>>[1] = q /\ <<q, g>>[2] = g
  OBVIOUS
<1>2. q = p \/ g = h => <<q, g>> = <<p, h>>
  BY <1>1 DEF Owns
<1> QED
  BY <1>2

LEMMA OwnFacts ==
    ASSUME Established, NEW p \in Path, NEW h \in Hash, Owns(p, h)
    PROVE  /\ entry[p] \in FileId \cup {None} /\ None \notin FileId
           /\ entry[p] # None => file[entry[p]].Checksum = h
           /\ \A q \in Path : q # p /\ entry[q] # None =>
                 entry[q] \in FileId /\ file[entry[q]].Checksum # h
           /\ \A d \in Deleter : del[d] # Idle =>
                 /\ del[d].f \in FileId /\ del[d].path \in Path
                 /\ (del[d].path = p <=> file[del[d].f].Checksum = h)
           /\ \A g \in Hash : ChecksumDB[g] # None =>
                 ChecksumDB[g] \in FileId /\ file[ChecksumDB[g]].Checksum = g
<1>1. TypeInv /\ NamedByContent
  BY DEF Established, HostInv
<1>2. /\ entry \in [Path -> FileId \cup {None}] /\ ChecksumDB \in [Hash -> FileId \cup {None}]
      /\ None \notin FileId
  BY <1>1, NoneAssumption DEF TypeInv
<1>3. ASSUME NEW q \in Path, entry[q] # None
      PROVE  q = p <=> file[entry[q]].Checksum = h
  <2>1. PICK g : g = file[entry[q]].Checksum
    OBVIOUS
  <2>2. <<q, g>> \in Content
    BY <1>1, <1>3, <2>1 DEF NamedByContent
  <2> QED
    BY <2>1, <2>2, OwnsUnique
<1>4. ASSUME NEW d \in Deleter, del[d] # Idle
      PROVE  del[d].path = p <=> file[del[d].f].Checksum = h
  <2>1. PICK q, g : q = del[d].path /\ g = file[del[d].f].Checksum
    OBVIOUS
  <2>2. <<q, g>> \in Content
    BY <1>1, <1>4, <2>1 DEF NamedByContent
  <2> QED
    BY <2>1, <2>2, OwnsUnique
<1>5. \A d \in Deleter : del[d] # Idle => del[d].f \in FileId /\ del[d].path \in Path
  BY <1>1, DelFacts
<1> QED
  BY <1>1, <1>2, <1>3, <1>4, <1>5 DEF NamedByContent

LEMMA ListedSeq ==
    ASSUME TypeInv, NEW p \in Path
    PROVE  Listed(p) \in Seq(NodeId)
<1>1. CASE entry[p] = None
  BY <1>1 DEF Listed
<1>2. CASE entry[p] # None
  <2>1. entry[p] \in FileId
    BY <1>2 DEF TypeInv
  <2>2. PICK f \in FileId, hosts \in Seq(NodeId) : f = entry[p] /\ hosts = file[f].Host
    BY <2>1, FileFacts
  <2>3. Listed(p) = ListedOf(del, f, hosts)
    BY <1>2, <2>2, ListedForm
  <2>4. ASSUME NEW d \in Deleter, Sends(del, f, d)
        PROVE  del[d].todo \o del[d].failed \in Seq(NodeId)
    BY <2>4, DelFacts, ConcatProperties DEF Sends
  <2>5. CASE \E d \in Deleter : Sends(del, f, d)
    <3>1. PICK d \in Deleter : d = (CHOOSE e \in Deleter : Sends(del, f, e)) /\ Sends(del, f, d)
      BY <2>5
    <3>2. ListedOf(del, f, hosts) = del[d].todo \o del[d].failed
      BY <2>5, <3>1 DEF ListedOf
    <3> QED
      BY <2>3, <2>4, <3>1, <3>2
  <2>6. CASE ~\E d \in Deleter : Sends(del, f, d)
    BY <2>2, <2>3, <2>6 DEF ListedOf
  <2> QED
    BY <2>5, <2>6
<1> QED
  BY <1>1, <1>2

LEMMA TimesType ==
    ASSUME NEW s \in Seq(NodeId), NEW n
    PROVE  Times(n, s) \in Nat
BY TimesConcat

(***************************************************************************)
(* A client that leaves its call, or enters none, brings no copy.          *)
(***************************************************************************)
LEMMA ComingLess ==
    ASSUME NEW n, NEW p,
           \A i \in Uploading' : /\ client'[i].at = "calling" /\ client'[i].path = p
                                 /\ client'[i].node = n
              => i \in Uploading /\ client[i] = client'[i]
    PROVE  Coming(n, p)' <= Coming(n, p) /\ Coming(n, p) \in 0..1 /\ Coming(n, p)' \in 0..1
BY DEF Coming

(***************************************************************************)
(* Steps that touch no file: what a client posts is in the store before it *)
(* is counted.                                                             *)
(***************************************************************************)
LEMMA OwnNoFile ==
    ASSUME Established, NEW p \in Path, NEW h \in Hash, Owns(p, h),
           OwnFile(p, h), OwnCopies(p, h), NoFileStep,
           \A n \in NodeId : /\ store'[n][h] \in Nat
                             /\ \/ Coming(n, p)' <= Coming(n, p) /\ store[n][h] <= store'[n][h]
                                \/ store'[n][h] = store[n][h] + 1
    PROVE  OwnFile(p, h)' /\ OwnCopies(p, h)'
<1>1. UNCHANGED <<entry, ChecksumDB, file, del>>
  BY DEF NoFileStep, fs
<1>2. OwnFile(p, h)'
  BY <1>1 DEF OwnFile
<1>3. Listed(p)' = Listed(p)
  BY <1>1, ListedForm
<1>4. ASSUME NEW n \in NodeId
      PROVE  Times(n, Listed(p)') + Coming(n, p)' <= store'[n][h]
  <2>1. Times(n, Listed(p)) \in Nat
    BY ListedSeq, TimesType DEF Established
  <2>2. Coming(n, p) \in 0..1 /\ Coming(n, p)' \in 0..1
    BY DEF Coming
  <2>3. store[n][h] \in Nat /\ Times(n, Listed(p)) + Coming(n, p) <= store[n][h]
    BY DEF Established, TypeInv, OwnCopies
  <2>4. PICK a, b, c, s, t : /\ a = Times(n, Listed(p)) /\ b = Coming(n, p) /\ c = Coming(n, p)'
                             /\ s = store[n][h] /\ t = store'[n][h]
    OBVIOUS
  <2>5. a + c <= t
    BY <2>1, <2>2, <2>3, <2>4
  <2> QED
    BY <1>3, <2>4, <2>5
<1> QED
  BY <1>2, <1>4 DEF OwnCopies

LEMMA OwnNoFileSteps ==
    ASSUME Established, NEW p \in Path, NEW h \in Hash, Owns(p, h),
           OwnFile(p, h), OwnCopies(p, h), NoFileStep,
           \/ \E n \in NodeId : HeartbeatHandler(n)
           \/ \E q \in Path : AddUploadNoNode(q)
           \/ \E q \in Path, id \in UploadId, reached \in BOOLEAN : AddUpload(q, id, reached)
           \/ \E id \in UploadId : HTTPUploadCallbackFails(id)
           \/ \E id \in UploadId, g \in Hash : Upload(id, g)
           \/ \E id \in UploadId : FinishUploadUnknown(id)
           \/ FinishUploadGet
    PROVE  OwnFile(p, h)' /\ OwnCopies(p, h)'
<1>0. /\ store \in [NodeId -> [Hash -> Nat]] /\ client \in [UploadId -> ClientType]
      /\ uploads \in [UploadId -> [Host : NodeId, Path : Path] \cup {None}]
      /\ TypeInv /\ UploadInv /\ CallWaits
  BY DEF Established, TypeInv, UploadInv
<1>a. ASSUME store' = store,
             \A i \in Uploading' : client'[i].at = "calling" => i \in Uploading /\ client[i] = client'[i]
      PROVE  OwnFile(p, h)' /\ OwnCopies(p, h)'
  <2>1. ASSUME NEW n \in NodeId
        PROVE  /\ store'[n][h] \in Nat /\ Coming(n, p)' <= Coming(n, p)
               /\ store[n][h] <= store'[n][h]
    BY <1>0, <1>a, ComingLess
  <2> QED
    BY <2>1, OwnNoFile
<1>b. ASSUME NEW i \in UploadId, client' = Failed(i), uploads' = uploads, store' = store
      PROVE  OwnFile(p, h)' /\ OwnCopies(p, h)'
  <2>1. client'[i].at # "calling" /\ \A j \in UploadId : j # i => client'[j] = client[j]
    BY <1>0, <1>b DEF Failed
  <2> QED
    BY <1>a, <1>b, <2>1 DEF Uploading
<1>1. CASE \E n \in NodeId : HeartbeatHandler(n)
  BY <1>a, <1>1 DEF HeartbeatHandler, manager, clients, Uploading
<1>2. CASE \E q \in Path : AddUploadNoNode(q)
  BY <1>a, <1>2 DEF AddUploadNoNode, clients, Uploading
<1>3. ASSUME NEW q \in Path, NEW id \in UploadId, NEW reached \in BOOLEAN, AddUpload(q, id, reached)
      PROVE  OwnFile(p, h)' /\ OwnCopies(p, h)'
  <2>1. /\ client'[id].at # "calling" /\ store' = store
        /\ \A i \in UploadId : i # id => uploads'[i] = uploads[i] /\ client'[i] = client[i]
    BY <1>0, <1>3 DEF AddUpload
  <2> QED
    BY <1>a, <2>1 DEF Uploading
<1>4. CASE \E id \in UploadId : HTTPUploadCallbackFails(id)
  BY <1>b, <1>4 DEF HTTPUploadCallbackFails, manager
<1>5. ASSUME NEW id \in UploadId, NEW g \in Hash, Upload(id, g)
      PROVE  OwnFile(p, h)' /\ OwnCopies(p, h)'
  <2>1. PICK m \in NodeId, q \in Path : m = client[id].node /\ q = client[id].path
    BY <1>0, <1>5, ClientFacts DEF Upload
  <2>2. /\ <<q, g>> \in Content /\ uploads' = uploads
        /\ store' = [store EXCEPT ![m][g] = @ + 1]
        /\ client'[id].path = q /\ client'[id].node = m
        /\ \A i \in UploadId : i # id => client'[i] = client[i]
    BY <1>0, <1>5, <2>1 DEF Upload, manager
  <2>3. /\ store'[m][g] = store[m][g] + 1
        /\ \A n \in NodeId, k \in Hash : ~(n = m /\ k = g) => store'[n][k] = store[n][k]
        /\ \A n \in NodeId, k \in Hash : store[n][k] \in Nat
    BY <1>0, <2>2
  <2>4. ASSUME NEW n \in NodeId
        PROVE  /\ store'[n][h] \in Nat
               /\ \/ Coming(n, p)' <= Coming(n, p) /\ store[n][h] <= store'[n][h]
                  \/ store'[n][h] = store[n][h] + 1
    <3>1. CASE n = m /\ q = p
      <4>1. g = h
        BY <2>2, <3>1, OwnsUnique
      <4> QED
        BY <2>3, <3>1, <4>1
    <3>2. CASE ~(n = m /\ q = p)
      <4>1. Coming(n, p)' <= Coming(n, p)
        BY <2>2, <3>2, ComingLess DEF Uploading
      <4>2. store'[n][h] \in Nat /\ store[n][h] <= store'[n][h]
        BY <2>3
      <4> QED
        BY <4>1, <4>2
    <3> QED
      BY <3>1, <3>2
  <2> QED
    BY <2>4, OwnNoFile
<1>6. CASE \E id \in UploadId : FinishUploadUnknown(id)
  BY <1>b, <1>6 DEF FinishUploadUnknown, manager
<1>7. CASE FinishUploadGet
  <2>1. fin.id \in UploadId
    BY <1>0, <1>7, FinFacts DEF FinishUploadGet
  <2>2. CASE client' = client
    BY <1>a, <1>7, <2>2 DEF FinishUploadGet, Uploading
  <2>3. CASE client' = Failed(fin.id)
    BY <1>b, <1>7, <2>1, <2>3 DEF FinishUploadGet
  <2> QED
    BY <1>7, <2>2, <2>3 DEF FinishUploadGet
<1> QED
  BY <1>1, <1>2, <1>3, <1>4, <1>5, <1>6, <1>7

(***************************************************************************)
(* When the file of p and what MasterDelete does with it stay as they are. *)
(***************************************************************************)
LEMMA OwnUntouched ==
    ASSUME Established, NEW p \in Path, NEW h \in Hash, Owns(p, h),
           OwnFile(p, h), OwnCopies(p, h),
           entry'[p] = entry[p], ChecksumDB'[h] = ChecksumDB[h],
           entry[p] # None => file'[entry[p]] = file[entry[p]],
           \A e \in Deleter : \/ del'[e] = del[e]
                              \/ /\ del[e] # Idle => del[e].f # entry[p]
                                 /\ del'[e] # Idle => del'[e].f # entry[p] /\ del'[e].path # p
                              \/ /\ del[e].at \notin {"sending", "unlocked"}
                                 /\ del'[e].at \notin {"sending", "unlocked"}
                                 /\ del'[e] # Idle /\ del'[e].path = p => del'[e].f = entry[p],
           \A n \in NodeId : Coming(n, p)' <= Coming(n, p) /\ store'[n][h] = store[n][h]
    PROVE  OwnFile(p, h)' /\ OwnCopies(p, h)'
<1>1. OwnFile(p, h)'
  BY DEF OwnFile
<1>2. Listed(p)' = Listed(p)
  <2>1. CASE entry[p] = None
    BY <2>1, ListedForm
  <2>2. CASE entry[p] # None
    <3>1. PICK f, hosts : f = entry[p] /\ hosts = file[f].Host
      OBVIOUS
    <3>2. \A e \in Deleter :
              \/ del[e] = del'[e]
              \/ /\ ~Sends(del, f, e) /\ ~Freed(del, f, e)
                 /\ ~Sends(del', f, e) /\ ~Freed(del', f, e)
      BY <3>1 DEF Sends, Freed, Idle
    <3>3. ListedOf(del, f, hosts) = ListedOf(del', f, hosts)
      BY <3>2, ListedSame
    <3> QED
      BY <2>2, <3>1, <3>3, ListedForm
  <2> QED
    BY <2>1, <2>2
<1>3. ASSUME NEW n \in NodeId
      PROVE  Times(n, Listed(p)') + Coming(n, p)' <= store'[n][h]
  <2>1. Times(n, Listed(p)) \in Nat
    BY ListedSeq, TimesType DEF Established
  <2>2. Coming(n, p) \in 0..1 /\ Coming(n, p)' \in 0..1
    BY DEF Coming
  <2>3. store[n][h] \in Nat /\ Times(n, Listed(p)) + Coming(n, p) <= store[n][h]
    BY DEF Established, TypeInv, OwnCopies
  <2>4. PICK a, b, c, s : /\ a = Times(n, Listed(p)) /\ b = Coming(n, p) /\ c = Coming(n, p)'
                          /\ s = store[n][h]
    OBVIOUS
  <2>5. a + c <= s
    BY <2>1, <2>2, <2>3, <2>4
  <2> QED
    BY <1>2, <2>4, <2>5
<1> QED
  BY <1>1, <1>3 DEF OwnCopies

(***************************************************************************)
(* When the list of p changes and its file does not.                       *)
(***************************************************************************)
LEMMA OwnRelisted ==
    ASSUME Established, NEW p \in Path, NEW h \in Hash, OwnCopies(p, h),
           \A n \in NodeId :
              /\ Times(n, Listed(p)') \in Nat /\ store'[n][h] \in Int
              /\ Times(n, Listed(p)') + Coming(n, p)' + store[n][h]
                    <= Times(n, Listed(p)) + Coming(n, p) + store'[n][h]
    PROVE  OwnCopies(p, h)'
<1>1. ASSUME NEW n \in NodeId
      PROVE  Times(n, Listed(p)') + Coming(n, p)' <= store'[n][h]
  <2>1. Times(n, Listed(p)) \in Nat
    BY ListedSeq, TimesType DEF Established
  <2>2. Coming(n, p) \in 0..1 /\ Coming(n, p)' \in 0..1
    BY DEF Coming
  <2>3. store[n][h] \in Nat /\ Times(n, Listed(p)) + Coming(n, p) <= store[n][h]
    BY DEF Established, TypeInv, OwnCopies
  <2>4. PICK a, b, c, d, s, t : /\ a = Times(n, Listed(p)) /\ b = Coming(n, p) /\ c = Coming(n, p)'
                                /\ d = Times(n, Listed(p)') /\ s = store[n][h] /\ t = store'[n][h]
    OBVIOUS
  <2>5. d + c <= t
    BY <2>1, <2>2, <2>3, <2>4
  <2> QED
    BY <2>4, <2>5
<1> QED
  BY <1>1 DEF OwnCopies

(***************************************************************************)
(* FinishUpload adds a file at p, or finds the one that carries h, or      *)
(* works on another path and another content.                              *)
(***************************************************************************)
LEMMA OwnAdd ==
    ASSUME Established, NEW p \in Path, NEW h \in Hash, Owns(p, h),
           OwnFile(p, h), OwnCopies(p, h), NEW id \in UploadId, FinishUploadAdd(id)
    PROVE  OwnFile(p, h)' /\ OwnCopies(p, h)'
<1>0. /\ TypeInv /\ UploadInv /\ ClientsInStep /\ NamedByContent
      /\ entry \in [Path -> FileId \cup {None}] /\ ChecksumDB \in [Hash -> FileId \cup {None}]
      /\ file \in [FileId -> FileType] /\ store \in [NodeId -> [Hash -> Nat]]
  BY DEF Established, TypeInv, HostInv
<1>1. PICK q \in Path, g \in Hash :
         /\ <<q, g>> \in Content /\ AddFile(q, g)
         /\ UNCHANGED <<uploads, client, store, del>>
  BY <1>0, FinishAddFacts
<1>2. q = p <=> g = h
  BY <1>1, OwnsUnique
<1>3. \A n \in NodeId : Coming(n, p)' = Coming(n, p) /\ Coming(n, p) \in 0..1
  BY <1>1 DEF Coming, Uploading
<1>4. entry[p] # None => entry[p] \in FileId /\ file[entry[p]].Checksum = h
  BY OwnFacts
<1>5. CASE UNCHANGED fs
  BY <1>1, <1>3, <1>5, OwnUntouched DEF fs
<1>6. CASE /\ ChecksumDB[g] # None
           /\ entry' = [entry EXCEPT ![q] = ChecksumDB[g]]
           /\ file' = [file EXCEPT ![ChecksumDB[g]].SemaphoreReplica =
                          IF entry[q] = ChecksumDB[g] THEN @ ELSE @ + 1]
           /\ UNCHANGED ChecksumDB
  <2>1. PICK k \in FileId : k = ChecksumDB[g] /\ file[k].Checksum = g
    BY <1>6, OwnFacts
  <2>2. CASE q = p
    <3>1. entry[p] = k /\ ChecksumDB[h] = k /\ g = h
      BY <1>2, <2>1, <2>2 DEF OwnFile
    <3>2. file' = file
      <4>1. file' = [file EXCEPT ![k].SemaphoreReplica = @]
        BY <1>6, <2>1, <2>2, <3>1
      <4>2. [file[k] EXCEPT !.SemaphoreReplica = @] = file[k]
        BY <1>0 DEF FileType
      <4> QED
        BY <1>0, <4>1, <4>2
    <3>3. entry' = entry
      BY <1>0, <1>6, <2>1, <2>2, <3>1
    <3> QED
      BY <1>1, <1>3, <1>6, <3>2, <3>3, OwnUntouched
  <2>3. CASE q # p
    <3>1. g # h /\ (entry[p] # None => entry[p] # k)
      BY <1>2, <1>4, <2>1, <2>3
    <3>2. entry'[p] = entry[p] /\ (entry[p] # None => file'[entry[p]] = file[entry[p]])
      BY <1>0, <1>4, <1>6, <2>1, <2>3, <3>1
    <3> QED
      BY <1>1, <1>3, <1>6, <3>2, OwnUntouched
  <2> QED
    BY <2>2, <2>3
<1>7. ASSUME NEW k \in FileId \ InUse, ~OtherFileAt(q, g), ChecksumDB[g] = None,
             entry' = [entry EXCEPT ![q] = k], ChecksumDB' = [ChecksumDB EXCEPT ![g] = k],
             file' = [file EXCEPT ![k] = [Checksum |-> g, SemaphoreReplica |-> 1, Host |-> << >>]]
      PROVE  OwnFile(p, h)' /\ OwnCopies(p, h)'
  <2>1. entry[p] \in InUse /\ \A e \in Deleter : del[e] # Idle => del[e].f \in InUse
    BY DEF InUse
  <2>2. CASE q # p
    <3>1. entry'[p] = entry[p] /\ ChecksumDB'[h] = ChecksumDB[h]
      BY <1>0, <1>2, <1>7, <2>2
    <3>2. entry[p] # None => file'[entry[p]] = file[entry[p]]
      BY <1>0, <1>4, <1>7, <2>1
    <3> QED
      BY <1>1, <1>3, <3>1, <3>2, OwnUntouched
  <2>3. CASE q = p
    <3>1. entry[p] = None /\ g = h
      BY <1>2, <1>7, <2>3 DEF OwnFile
    <3>2. \A e \in Deleter : del[e] # Idle => del[e].f \in FileId /\ del[e].path # p
      BY <3>1, OwnFacts DEF OwnFile
    <3>3. /\ entry'[p] = k /\ ChecksumDB'[h] = k /\ k # None
          /\ file'[k] = [Checksum |-> g, SemaphoreReplica |-> 1, Host |-> << >>]
      BY <1>0, <1>7, <2>3, <3>1, NoneAssumption
    <3>4. file'[k].SemaphoreReplica = 1 /\ file'[k].Host = << >>
      BY <3>3
    <3>5. OwnFile(p, h)'
      BY <1>1, <3>2, <3>3, <3>4 DEF OwnFile
    <3>6. \A e \in Deleter : ~Sends(del', k, e) /\ ~Freed(del', k, e)
      BY <1>1, <1>7, <2>1 DEF Sends, Freed, Idle
    <3>7. Listed(p)' = << >> /\ Listed(p) = << >>
      <4>1. ListedOf(del', k, << >>) = << >>
        BY <3>6, ListedPlain
      <4> QED
        BY <3>1, <3>3, <3>4, <4>1, ListedForm
    <3>8. ASSUME NEW n \in NodeId
          PROVE  /\ Times(n, Listed(p)') \in Nat /\ store'[n][h] \in Int
                 /\ Times(n, Listed(p)') + Coming(n, p)' + store[n][h]
                       <= Times(n, Listed(p)) + Coming(n, p) + store'[n][h]
      <4>1. Times(n, Listed(p)') = 0 /\ Times(n, Listed(p)) = 0
        BY <3>7, TimesOne
      <4>2. store'[n][h] = store[n][h] /\ store[n][h] \in Nat
        BY <1>0, <1>1
      <4>3. PICK a, b, c, d : /\ a = Coming(n, p) /\ b = Coming(n, p)'
                              /\ c = Times(n, Listed(p)') /\ d = Times(n, Listed(p))
        OBVIOUS
      <4>4. a = b /\ a \in 0..1 /\ c = 0 /\ d = 0
        BY <1>3, <4>1, <4>3
      <4> QED
        BY <4>2, <4>3, <4>4
    <3> QED
      BY <3>5, <3>8, OwnRelisted
  <2> QED
    BY <2>2, <2>3
<1> QED
  BY <1>1, <1>5, <1>6, <1>7 DEF AddFile

(***************************************************************************)
(* The end of FinishUpload turns the copy that was coming into a listed    *)
(* one, unless MasterDelete has the file's list in hand.                   *)
(***************************************************************************)
LEMMA OwnHost ==
    ASSUME Established, NEW p \in Path, NEW h \in Hash, Owns(p, h),
           OwnFile(p, h), OwnCopies(p, h), NEW replied \in BOOLEAN, FinishUploadHost(replied)
    PROVE  OwnFile(p, h)' /\ OwnCopies(p, h)'
<1>0. /\ TypeInv /\ CallWaits /\ UploadInv /\ ClientsInStep /\ NamedByContent
      /\ store \in [NodeId -> [Hash -> Nat]] /\ client \in [UploadId -> ClientType]
      /\ uploads \in [UploadId -> [Host : NodeId, Path : Path] \cup {None}]
  BY DEF Established, TypeInv, UploadInv, HostInv
<1>1. PICK id \in UploadId, q \in Path, m \in NodeId, k \in FileId :
         HostAppended(replied, id, q, m, k)
  BY <1>0, FinishHostFacts
<1>2. /\ UNCHANGED <<entry, ChecksumDB, store, del>> /\ id \in Uploading
      /\ q = uploads[id].Path /\ uploads'[id] = None
      /\ \A i \in UploadId : i # id => uploads'[i] = uploads[i] /\ client'[i] = client[i]
      /\ client[id].at = "calling" /\ client[id].path = q /\ client[id].node = m
      /\ entry[q] \in {None, k}
  BY <1>0, <1>1 DEF HostAppended, Answered, Failed
<1>3. /\ file'[k].Host = Append(file[k].Host, m)
      /\ file'[k].SemaphoreReplica = file[k].SemaphoreReplica
      /\ \A g \in FileId : g # k => file'[g] = file[g]
  BY <1>1 DEF HostAppended
<1>4. \A i \in Uploading' : i # id /\ i \in Uploading /\ client'[i] = client[i]
                            /\ uploads'[i] = uploads[i]
  BY <1>2 DEF Uploading
<1>5. entry[p] # None => entry[p] \in FileId /\ file[entry[p]].Checksum = h
  BY OwnFacts
<1>6. CASE entry[p] # k \/ q # p
  <2>1. entry[p] # None => entry[p] # k
    <3>1. CASE q # p
      <4>1. <<q, file[k].Checksum>> \in Content
        BY <1>0, <1>1, FinTypeFacts DEF HostAppended, NamedByContent, FinishUploadHost
      <4>2. PICK g : g = file[k].Checksum
        OBVIOUS
      <4>3. g # h
        BY <3>1, <4>1, <4>2, OwnsUnique
      <4> QED
        BY <1>5, <4>2, <4>3
    <3> QED
      BY <1>6, <3>1
  <2>2. entry[p] # None => file'[entry[p]] = file[entry[p]]
    BY <1>3, <1>5, <2>1
  <2>3. \A n \in NodeId : Coming(n, p)' <= Coming(n, p)
    BY <1>4, ComingLess
  <2> QED
    BY <1>2, <2>2, <2>3, OwnUntouched
<1>7. CASE entry[p] = k /\ q = p
  <2>1. \A n \in NodeId : Coming(n, p)' = 0
    <3>1. ASSUME NEW i \in Uploading', client'[i].at = "calling", client'[i].path = p
          PROVE  FALSE
      <4>1. uploads[i].Path = p /\ i \in Uploading /\ i # id
        BY <1>0, <1>4, <3>1 DEF ClientsInStep
      <4>2. \A a, b \in Uploading : uploads[a].Path = uploads[b].Path => a = b
        BY <1>0 DEF UploadInv, OneUploadPerPath
      <4>3. uploads[id].Path = p /\ id \in Uploading
        BY <1>2, <1>7
      <4> QED
        BY <4>1, <4>2, <4>3, Zenon
    <3> QED
      BY <3>1 DEF Coming
  <2>2. Coming(m, p) = 1 /\ \A n \in NodeId : Coming(n, p) \in 0..1
    BY <1>2, <1>7 DEF Coming
  <2>3. k # None
    BY NoneAssumption
  <2>4. OwnFile(p, h)'
    BY <1>2, <1>3, <1>7 DEF OwnFile
  <2>5. PICK hosts \in Seq(NodeId) : hosts = file[k].Host
    BY <1>0, FileFacts
  <2>6. Listed(p) = ListedOf(del, k, hosts) /\ Listed(p)' = ListedOf(del, k, Append(hosts, m))
    <3>1. /\ entry[p] = k /\ entry'[p] = k /\ k # None /\ del' = del
          /\ file[k].Host = hosts /\ file'[k].Host = Append(hosts, m)
      BY <1>2, <1>3, <1>7, <2>3, <2>5
    <3>2. Listed(p) = ListedOf(del, entry[p], file[entry[p]].Host)
      BY <3>1, ListedForm
    <3>3. Listed(p)' = ListedOf(del', entry'[p], file'[entry'[p]].Host)
      BY <3>1, ListedForm
    <3> QED
      BY <3>1, <3>2, <3>3
  <2>7. ASSUME NEW n \in NodeId
        PROVE  /\ Times(n, Listed(p)') \in Nat /\ store'[n][h] \in Int
               /\ Times(n, Listed(p)') + Coming(n, p)' + store[n][h]
                     <= Times(n, Listed(p)) + Coming(n, p) + store'[n][h]
    <3>1. Times(n, Listed(p)) \in Nat
      BY <1>0, ListedSeq, TimesType
    <3>2. store'[n][h] = store[n][h] /\ store[n][h] \in Nat
      BY <1>0, <1>2
    <3>3. PICK a, b, c, d : /\ a = Times(n, Listed(p)) /\ b = Coming(n, p) /\ c = Coming(n, p)'
                            /\ d = Times(n, Listed(p)')
      OBVIOUS
    <3>4. d = a \/ d = a + (IF m = n THEN 1 ELSE 0)
      <4>1. CASE Listed(p) = Listed(p)'
        BY <3>3, <4>1
      <4>2. CASE Listed(p) = hosts /\ Listed(p)' = Append(hosts, m)
        BY <3>3, <4>2, TimesAppend
      <4>3. PICK x : x = Append(hosts, m)
        OBVIOUS
      <4>4. \/ ListedOf(del, k, hosts) = ListedOf(del, k, x)
            \/ ListedOf(del, k, hosts) = hosts /\ ListedOf(del, k, x) = x
        BY ListedEither
      <4> QED
        BY <2>6, <4>1, <4>2, <4>3, <4>4, Zenon
    <3>5. a \in Nat /\ b \in 0..1 /\ c = 0 /\ (m = n => b = 1)
      BY <2>1, <2>2, <3>1, <3>3
    <3>6. d \in Nat /\ d <= a + b
      BY <3>4, <3>5
    <3> QED
      BY <3>2, <3>3, <3>5, <3>6
  <2> QED
    BY <2>4, <2>7, OwnRelisted
<1> QED
  BY <1>6, <1>7

(***************************************************************************)
(* MasterDelete of p: what it holds in todo and failed is what is listed,  *)
(* from the lock to the end.                                               *)
(***************************************************************************)
LEMMA OwnDelete ==
    ASSUME Established, TypeInv', NEW p \in Path, NEW h \in Hash, Owns(p, h),
           OwnFile(p, h), OwnCopies(p, h), NEW d \in Deleter, MasterDelete(d),
           del[d] # Idle, del[d].path = p, DeletesApart(p)
    PROVE  OwnFile(p, h)' /\ OwnCopies(p, h)'
<1>0. /\ TypeInv /\ del \in [Deleter -> DelType] /\ file \in [FileId -> FileType]
      /\ store \in [NodeId -> [Hash -> Nat]] /\ store' \in [NodeId -> [Hash -> Nat]]
      /\ entry \in [Path -> FileId \cup {None}] /\ ChecksumDB \in [Hash -> FileId \cup {None}]
  BY DEF Established, TypeInv
<1>1. PICK f \in FileId : /\ f = entry[p] /\ f = del[d].f /\ f # None /\ file[f].Checksum = h
                          /\ ChecksumDB[h] = f /\ file[f].SemaphoreReplica = 1
  BY OwnFacts DEF OwnFile
<1>2. \A e \in Deleter : del[e] # Idle /\ (del[e].f = f \/ del[e].path = p) => e = d
  BY <1>1, OwnFacts DEF DeletesApart
<1>3. \A e \in Deleter : e # d => ~Sends(del, f, e) /\ ~Freed(del, f, e) /\ del'[e] = del[e]
  <2>1. \A e \in Deleter : e # d => del'[e] = del[e]
    BY <1>0, DeleteKeeps DEF DeleteKeeping
  <2> QED
    BY <1>2, <2>1 DEF Sends, Freed, Idle
<1>4. \A e \in Deleter : e # d => ~Sends(del', f, e) /\ ~Freed(del', f, e)
  BY <1>3 DEF Sends, Freed
<1>5. \A n \in NodeId : Coming(n, p)' = Coming(n, p) /\ Coming(n, p) \in 0..1
  <2>1. UNCHANGED <<uploads, client>>
    BY <1>0, DeleteKeeps DEF DeleteKeeping, manager, clients
  <2> QED
    BY <2>1 DEF Coming, Uploading
<1>6. PICK hosts \in Seq(NodeId) : hosts = file[f].Host
  BY <1>0, FileFacts
<1>7. Listed(p) = ListedOf(del, f, hosts)
  BY <1>1, <1>6, ListedForm
<1>8. ASSUME del[d].at = "sending"
      PROVE  Listed(p) = del[d].todo \o del[d].failed
  <2>1. Sends(del, f, d)
    BY <1>1, <1>8 DEF Sends
  <2> QED
    BY <1>3, <1>7, <2>1, ListedSends
<1>9. ASSUME UNCHANGED <<entry, ChecksumDB>>, file'[f].SemaphoreReplica = 1,
             del'[d] = Idle \/ del'[d].f = f
      PROVE  OwnFile(p, h)'
  BY <1>1, <1>2, <1>3, <1>9 DEF OwnFile
<1>10. ASSUME store' = store, \A n \in NodeId : Times(n, Listed(p)') = Times(n, Listed(p))
       PROVE  OwnCopies(p, h)'
  <2>1. ASSUME NEW n \in NodeId
        PROVE  /\ Times(n, Listed(p)') \in Nat /\ store'[n][h] \in Int
               /\ Times(n, Listed(p)') + Coming(n, p)' + store[n][h]
                     <= Times(n, Listed(p)) + Coming(n, p) + store'[n][h]
    <3>1. Times(n, Listed(p)) \in Nat
      BY <1>0, ListedSeq, TimesType
    <3>2. PICK a, b, c, e : /\ a = Times(n, Listed(p)) /\ b = Coming(n, p) /\ c = Coming(n, p)'
                            /\ e = Times(n, Listed(p)')
      OBVIOUS
    <3>3. a = e /\ a \in Nat /\ b = c /\ b \in 0..1
      BY <1>5, <1>10, <3>1, <3>2
    <3> QED
      BY <1>0, <1>10, <3>2, <3>3
  <2> QED
    BY <2>1, OwnRelisted
<1>11. CASE MasterDeleteLock(d)
  <2>1. /\ del[d].at = "waiting" /\ UNCHANGED <<entry, ChecksumDB, file, store>>
        /\ del'[d] = [at |-> "sending", path |-> p, f |-> f, todo |-> hosts, failed |-> << >>]
    BY <1>0, <1>1, <1>6, <1>11 DEF MasterDeleteLock, fs
  <2>2. Listed(p) = hosts
    <3>1. \A e \in Deleter : ~Sends(del, f, e) /\ ~Freed(del, f, e)
      BY <1>3, <2>1 DEF Sends, Freed
    <3> QED
      BY <1>7, <3>1, ListedPlain
  <2>3. Listed(p)' = hosts
    <3>1. Sends(del', f, d) /\ del'[d].todo = hosts /\ del'[d].failed = << >>
      BY <2>1 DEF Sends
    <3>2. ListedOf(del', f, hosts) = del'[d].todo \o del'[d].failed
      BY <1>4, <3>1, ListedSends
    <3>3. hosts \o << >> = hosts
      BY ConcatEmptySeq
    <3>4. Listed(p)' = ListedOf(del', f, hosts)
      BY <1>1, <1>6, <2>1, ListedForm
    <3> QED
      BY <3>1, <3>2, <3>3, <3>4, Zenon
  <2> QED
    BY <1>1, <1>9, <1>10, <2>1, <2>2, <2>3
<1>12. ASSUME NEW ok \in BOOLEAN, MasterDeleteSent(d, ok)
       PROVE  OwnFile(p, h)' /\ OwnCopies(p, h)'
  <2>1. /\ del[d].at = "sending" /\ del[d].todo # << >> /\ Sent(d, ok) /\ (~ok => h \in LostReplies)
        /\ store[Head(del[d].todo)][h] > 0
        /\ store' = [store EXCEPT ![Head(del[d].todo)][h] = @ - 1]
        /\ UNCHANGED <<entry, ChecksumDB, file>>
    BY <1>1, <1>12 DEF MasterDeleteSent, fs
  <2>2. ok
    BY <2>1 DEF Owns
  <2>3. PICK todo \in Seq(NodeId), failed \in Seq(NodeId) :
           todo = del[d].todo /\ failed = del[d].failed /\ todo # << >>
    BY <1>0, <2>1, DelFacts
  <2>4. PICK m \in NodeId, rest \in Seq(NodeId) : m = Head(todo) /\ rest = Tail(todo)
    BY <2>3, TimesTail
  <2>5. /\ del'[d].at = "sending" /\ del'[d].f = f /\ del'[d].todo = rest /\ del'[d].failed = failed
    BY <1>0, <1>1, <2>1, <2>2, <2>3, <2>4, SentKeeps
  <2>6. Listed(p) = todo \o failed /\ Listed(p)' = rest \o failed
    <3>1. Sends(del', f, d)
      BY <2>5 DEF Sends
    <3>2. ListedOf(del', f, hosts) = del'[d].todo \o del'[d].failed
      BY <1>4, <3>1, ListedSends
    <3> QED
      BY <1>1, <1>6, <1>8, <2>1, <2>3, <2>5, <3>2, ListedForm
  <2>7. ASSUME NEW n \in NodeId
        PROVE  /\ Times(n, Listed(p)') \in Nat /\ store'[n][h] \in Int
               /\ Times(n, Listed(p)') + Coming(n, p)' + store[n][h]
                     <= Times(n, Listed(p)) + Coming(n, p) + store'[n][h]
    <3>1. PICK a, b, c, e, x, y, z :
             /\ a = Times(n, Listed(p)) /\ b = Coming(n, p) /\ c = Coming(n, p)'
             /\ e = Times(n, Listed(p)') /\ x = Times(n, todo) /\ y = Times(n, failed)
             /\ z = Times(n, rest)
      OBVIOUS
    <3>2. a = x + y /\ e = z + y /\ x \in Nat /\ y \in Nat /\ z \in Nat
      <4>1. Times(n, todo \o failed) = x + y /\ x \in Nat /\ y \in Nat
        BY <3>1, TimesConcat
      <4>2. Times(n, rest \o failed) = z + y /\ z \in Nat
        BY <3>1, TimesConcat
      <4> QED
        BY <2>6, <3>1, <4>1, <4>2
    <3>3. x = (IF m = n THEN 1 ELSE 0) + z
      BY <2>3, <2>4, <3>1, TimesTail
    <3>4. b = c /\ b \in 0..1
      BY <1>5, <3>1
    <3>5. store'[n][h] = store[n][h] - (IF m = n THEN 1 ELSE 0) /\ store[n][h] \in Nat
      BY <1>0, <2>1, <2>3, <2>4
    <3>6. store'[n][h] \in Int /\ e \in Nat /\ e + c + store[n][h] <= a + b + store'[n][h]
      <4>1. PICK u, s, t : /\ u = (IF m = n THEN 1 ELSE 0) /\ s = store[n][h] /\ t = store'[n][h]
        OBVIOUS
      <4>2. u \in 0..1 /\ x = u + z /\ t = s - u /\ s \in Nat
        BY <3>3, <3>5, <4>1
      <4>3. u \in Int /\ b \in Int /\ x \in Int /\ y \in Int /\ z \in Int /\ s \in Int
        BY <3>2, <3>4, <4>2
      <4>4. t \in Int /\ e \in Nat /\ e + c + s <= a + b + t
        BY <3>2, <3>4, <4>2, <4>3
      <4> QED
        BY <4>1, <4>4
    <3> QED
      BY <3>1, <3>6
  <2>8. OwnFile(p, h)'
    BY <1>1, <1>9, <2>1, <2>5
  <2> QED
    BY <2>7, <2>8, OwnRelisted
<1>13. CASE MasterDeleteFails(d)
  <2>1. /\ del[d].at = "sending" /\ del[d].todo # << >> /\ Sent(d, FALSE)
        /\ UNCHANGED <<entry, ChecksumDB, file, store>>
    BY <1>13 DEF MasterDeleteFails, fs
  <2>3. PICK todo \in Seq(NodeId), failed \in Seq(NodeId) :
           todo = del[d].todo /\ failed = del[d].failed /\ todo # << >>
    BY <1>0, <2>1, DelFacts
  <2>4. PICK m \in NodeId, rest \in Seq(NodeId) : m = Head(todo) /\ rest = Tail(todo)
    BY <2>3, TimesTail
  <2>5. PICK more \in Seq(NodeId) : more = Append(failed, m)
    BY AppendProperties
  <2>6. /\ del'[d].at = "sending" /\ del'[d].f = f /\ del'[d].todo = rest /\ del'[d].failed = more
    BY <1>0, <1>1, <2>1, <2>3, <2>4, <2>5, SentKeeps
  <2>7. Listed(p) = todo \o failed /\ Listed(p)' = rest \o more
    <3>1. Sends(del', f, d)
      BY <2>6 DEF Sends
    <3>2. ListedOf(del', f, hosts) = del'[d].todo \o del'[d].failed
      BY <1>4, <3>1, ListedSends
    <3> QED
      BY <1>1, <1>6, <1>8, <2>1, <2>3, <2>6, <3>2, ListedForm
  <2>8. ASSUME NEW n \in NodeId
        PROVE  Times(n, Listed(p)') = Times(n, Listed(p))
    <3>1. PICK x, y, z, w :
             /\ x = Times(n, todo) /\ y = Times(n, failed)
             /\ z = Times(n, rest) /\ w = Times(n, more)
      OBVIOUS
    <3>2. Times(n, todo \o failed) = x + y /\ x \in Nat /\ y \in Nat
      BY <3>1, TimesConcat
    <3>3. Times(n, rest \o more) = z + w /\ z \in Nat
      BY <3>1, TimesConcat
    <3>4. x = (IF m = n THEN 1 ELSE 0) + z
      BY <2>3, <2>4, <3>1, TimesTail
    <3>5. w = y + (IF m = n THEN 1 ELSE 0)
      BY <2>5, <3>1, TimesAppend
    <3>6. x + y = z + w
      BY <3>2, <3>3, <3>4, <3>5
    <3> QED
      BY <2>7, <3>2, <3>3, <3>6, Zenon
  <2> QED
    BY <1>1, <1>9, <1>10, <2>1, <2>6, <2>8
<1>14. CASE MasterDeleteRefused(d)
  <2>1. /\ del[d].at = "sending" /\ del[d].todo = << >>
        /\ file' = [file EXCEPT ![f].Host = del[d].failed] /\ del'[d] = Idle
        /\ UNCHANGED <<entry, ChecksumDB, store>>
    BY <1>0, <1>1, <1>14 DEF MasterDeleteRefused, FailedHosts
  <2>2. PICK failed \in Seq(NodeId) : failed = del[d].failed
    BY <1>0, <2>1, DelFacts
  <2>3. file'[f].Host = failed /\ file'[f].SemaphoreReplica = 1
    <3>1. file'[f] = [file[f] EXCEPT !.Host = failed] /\ file[f] \in FileType
      BY <1>0, <2>1, <2>2
    <3> QED
      BY <1>1, <3>1 DEF FileType
  <2>4. Listed(p) = failed
    <3>1. << >> \o failed = failed
      BY ConcatEmptySeq
    <3> QED
      BY <1>8, <2>1, <2>2, <3>1
  <2>5. Listed(p)' = failed
    <3>1. \A e \in Deleter : ~Sends(del', f, e) /\ ~Freed(del', f, e)
      BY <1>4, <2>1 DEF Sends, Freed, Idle
    <3>2. ListedOf(del', f, failed) = failed
      BY <3>1, ListedPlain
    <3> QED
      BY <1>1, <2>1, <2>3, <3>2, ListedForm
  <2> QED
    BY <1>9, <1>10, <2>1, <2>3, <2>4, <2>5
<1>15. CASE MasterDeleteUnlock(d)
  <2>1. /\ del[d].at = "sending" /\ del[d].todo = << >> /\ del[d].failed = << >>
        /\ del'[d] = [at |-> "unlocked", path |-> p, f |-> f]
        /\ UNCHANGED <<entry, ChecksumDB, file, store>>
    BY <1>0, <1>1, <1>15 DEF MasterDeleteUnlock, fs
  <2>2. Listed(p) = << >>
    BY <1>8, <2>1, ConcatEmptySeq
  <2>3. Listed(p)' = << >>
    <3>1. Freed(del', f, d) /\ \A e \in Deleter : ~Sends(del', f, e)
      BY <1>4, <2>1 DEF Sends, Freed
    <3>2. ListedOf(del', f, hosts) = << >>
      BY <3>1, ListedFreed
    <3> QED
      BY <1>1, <1>6, <2>1, <3>2, ListedForm
  <2> QED
    BY <1>1, <1>9, <1>10, <2>1, <2>2, <2>3
<1>16. CASE MasterDeleteFile(d)
  <2>1. /\ del[d].at = "unlocked" /\ DeleteFile(p) /\ del'[d] = Idle /\ store' = store
    BY <1>0, <1>16 DEF MasterDeleteFile
  <2>2. ~Locked(f)
    BY <1>3, <2>1 DEF Locked, Sends
  <2>3. entry' = [entry EXCEPT ![p] = None] /\ ChecksumDB' = [ChecksumDB EXCEPT ![h] = None]
    BY <1>1, <2>1, <2>2 DEF DeleteFile
  <2>4. entry'[p] = None /\ ChecksumDB'[h] = None
    BY <1>0, <2>3
  <2>5. OwnFile(p, h)'
    BY <1>2, <1>3, <2>1, <2>4 DEF OwnFile
  <2>6. Listed(p) = << >>
    <3>1. Freed(del, f, d) /\ \A e \in Deleter : ~Sends(del, f, e)
      BY <1>1, <1>3, <2>1 DEF Sends, Freed
    <3> QED
      BY <1>7, <3>1, ListedFreed
  <2>7. Listed(p)' = << >>
    BY <2>4, ListedForm
  <2> QED
    BY <1>10, <2>1, <2>5, <2>6, <2>7
<1>17. ASSUME NEW q \in Path, MasterDeleteGet(d, q)
       PROVE  FALSE
  BY <1>17 DEF MasterDeleteGet
<1> QED
  BY <1>11, <1>12, <1>13, <1>14, <1>15, <1>16, <1>17 DEF MasterDelete

(***************************************************************************)
(* MasterDelete of another path, or its first step: it works on a file     *)
(* with another content.                                                   *)
(***************************************************************************)
LEMMA OtherDelete ==
    ASSUME Established, Established', NEW p \in Path, NEW h \in Hash, Owns(p, h),
           OwnFile(p, h), OwnCopies(p, h), NEW d \in Deleter, MasterDelete(d),
           ~(del[d] # Idle /\ del[d].path = p)
    PROVE  OwnFile(p, h)' /\ OwnCopies(p, h)'
<1>0. /\ TypeInv /\ del \in [Deleter -> DelType] /\ file \in [FileId -> FileType]
      /\ store \in [NodeId -> [Hash -> Nat]]
      /\ entry \in [Path -> FileId \cup {None}] /\ ChecksumDB \in [Hash -> FileId \cup {None}]
  BY DEF Established, TypeInv
<1>1. DeleteKeeping(d)
  BY <1>0, DeleteKeeps
<1>2. \A n \in NodeId : Coming(n, p)' <= Coming(n, p)
  <2>1. UNCHANGED <<uploads, client>>
    BY <1>1 DEF DeleteKeeping, manager, clients
  <2> QED
    BY <2>1, ComingLess DEF Uploading
<1>3. entry[p] # None => entry[p] \in FileId /\ file[entry[p]].Checksum = h
  BY OwnFacts
<1>4. \A e \in Deleter : e # d => del'[e] = del[e]
  BY <1>1 DEF DeleteKeeping
<1>5. ASSUME del[d] # Idle
      PROVE  /\ del[d].f \in FileId /\ del[d].path \in Path /\ del[d].path # p
             /\ file[del[d].f].Checksum # h
             /\ entry[p] # None => del[d].f # entry[p]
  BY <1>3, <1>5, OwnFacts
<1>6. ASSUME del[d] # Idle, entry'[p] = entry[p], ChecksumDB'[h] = ChecksumDB[h],
             entry[p] # None => file'[entry[p]] = file[entry[p]],
             \/ del'[d] = Idle
             \/ del'[d].f = del[d].f /\ del'[d].path = del[d].path,
             \A n \in NodeId : store'[n][h] = store[n][h]
      PROVE  OwnFile(p, h)' /\ OwnCopies(p, h)'
  <2>1. del[d].f # entry[p]
    BY <1>5, <1>6, NoneAssumption
  <2>2. \A e \in Deleter :
           \/ del'[e] = del[e]
           \/ /\ del[e] # Idle => del[e].f # entry[p]
              /\ del'[e] # Idle => del'[e].f # entry[p] /\ del'[e].path # p
    BY <1>4, <1>5, <1>6, <2>1
  <2> QED
    BY <1>2, <1>6, <2>2, OwnUntouched
<1>7. ASSUME NEW q \in Path, MasterDeleteGet(d, q)
      PROVE  OwnFile(p, h)' /\ OwnCopies(p, h)'
  <2>1. /\ del[d] = Idle /\ del'[d] = [at |-> "waiting", path |-> q, f |-> entry[q]]
        /\ UNCHANGED <<entry, ChecksumDB, file, store>>
    BY <1>0, <1>7 DEF MasterDeleteGet, fs
  <2>2. /\ del[d].at \notin {"sending", "unlocked"} /\ del'[d].at \notin {"sending", "unlocked"}
        /\ del'[d].path = p => del'[d].f = entry[p]
    BY <2>1 DEF Idle
  <2> QED
    BY <1>2, <1>4, <2>1, <2>2, OwnUntouched
<1>8. CASE MasterDeleteLock(d) \/ MasterDeleteUnlock(d)
  <2>1. /\ del[d] # Idle /\ UNCHANGED <<entry, ChecksumDB, file, store>>
        /\ del'[d].f = del[d].f /\ del'[d].path = del[d].path
    BY <1>0, <1>8, DelFacts DEF MasterDeleteLock, MasterDeleteUnlock, fs
  <2> QED
    BY <1>6, <2>1
<1>9. ASSUME NEW ok \in BOOLEAN, MasterDeleteSent(d, ok)
      PROVE  OwnFile(p, h)' /\ OwnCopies(p, h)'
  <2>1. /\ UNCHANGED <<entry, ChecksumDB, file>>
        /\ store' = [store EXCEPT ![Head(del[d].todo)][file[del[d].f].Checksum] = @ - 1]
    BY <1>9 DEF MasterDeleteSent, fs
  <2>2. del[d] # Idle /\ del'[d].f = del[d].f /\ del'[d].path = del[d].path
    BY <1>0, <1>9, SentKeeps DEF MasterDeleteSent
  <2>3. PICK m, g : m = Head(del[d].todo) /\ g = file[del[d].f].Checksum
    OBVIOUS
  <2>4. g # h /\ store' = [store EXCEPT ![m][g] = @ - 1]
    BY <1>5, <2>1, <2>2, <2>3
  <2>5. \A n \in NodeId : store'[n][h] = store[n][h]
    BY <1>0, <2>4
  <2> QED
    BY <1>6, <2>1, <2>2, <2>5
<1>10. CASE MasterDeleteFails(d)
  <2>1. UNCHANGED <<entry, ChecksumDB, file, store>>
    BY <1>10 DEF MasterDeleteFails, fs
  <2>2. del[d] # Idle /\ del'[d].f = del[d].f /\ del'[d].path = del[d].path
    BY <1>0, <1>10, SentKeeps DEF MasterDeleteFails
  <2> QED
    BY <1>6, <2>1, <2>2
<1>11. CASE MasterDeleteRefused(d)
  <2>1. /\ del[d] # Idle /\ del'[d] = Idle /\ UNCHANGED <<entry, ChecksumDB, store>>
    BY <1>0, <1>11, DelFacts DEF MasterDeleteRefused
  <2>2. \A k \in FileId : k # del[d].f => file'[k] = file[k]
    BY <1>0, <1>11 DEF MasterDeleteRefused
  <2>3. entry[p] # None => file'[entry[p]] = file[entry[p]]
    BY <1>3, <1>5, <2>1, <2>2
  <2> QED
    BY <1>6, <2>1, <2>3
<1>12. CASE MasterDeleteFile(d)
  <2>1. del[d] # Idle /\ del'[d] = Idle /\ store' = store /\ DeleteFile(del[d].path)
    BY <1>0, <1>12, DelFacts DEF MasterDeleteFile
  <2>2. PICK q \in Path : q = del[d].path /\ q # p
    BY <1>5, <2>1
  <2>3. CASE UNCHANGED fs
    BY <1>6, <2>1, <2>3 DEF fs
  <2>4. CASE ~UNCHANGED fs
    <3>1. PICK k \in FileId : k = entry[q] /\ k # None /\ file[k].Checksum # h
      BY <2>1, <2>2, <2>4, OwnFacts DEF DeleteFile
    <3>2. /\ entry' = [entry EXCEPT ![q] = None]
          /\ \/ ChecksumDB' = [ChecksumDB EXCEPT ![file[k].Checksum] = None] /\ file' = file
             \/ /\ ChecksumDB' = ChecksumDB
                /\ file' = [file EXCEPT ![k].SemaphoreReplica = @ - 1]
      BY <2>1, <2>2, <2>4, <3>1 DEF DeleteFile
    <3>3. entry'[p] = entry[p]
      BY <1>0, <2>2, <3>2
    <3>4. ChecksumDB'[h] = ChecksumDB[h]
      BY <1>0, <3>1, <3>2
    <3>5. entry[p] # None => entry[p] # k
      BY <1>3, <3>1
    <3>6. entry[p] # None => file'[entry[p]] = file[entry[p]]
      BY <1>0, <1>3, <3>2, <3>5
    <3> QED
      BY <1>6, <2>1, <3>3, <3>4, <3>6
  <2> QED
    BY <2>3, <2>4
<1> QED
  BY <1>7, <1>8, <1>9, <1>10, <1>11, <1>12 DEF MasterDelete

(***************************************************************************)
(* The history: a delete is recorded when it is the second one of a path.  *)
(***************************************************************************)
LEMMA DeleteRecords ==
    ASSUME TypeInv, NEW d \in Deleter, MasterDelete(d)
    PROVE  \/ /\ overlapped' = overlapped
              /\ del'[d] = Idle \/ (del[d] # Idle /\ del'[d].path = del[d].path)
           \/ \E p \in Path : MasterDeleteGet(d, p)
<1>0. del \in [Deleter -> DelType]
  BY DEF TypeInv
<1>1. ASSUME MasterDeleteLock(d) \/ MasterDeleteUnlock(d)
      PROVE  overlapped' = overlapped /\ del[d] # Idle /\ del'[d].path = del[d].path
  BY <1>0, <1>1, DelFacts DEF MasterDeleteLock, MasterDeleteUnlock
<1>2. ASSUME NEW ok \in BOOLEAN, MasterDeleteSent(d, ok) \/ MasterDeleteFails(d)
      PROVE  overlapped' = overlapped /\ del[d] # Idle /\ del'[d].path = del[d].path
  <2>1. overlapped' = overlapped /\ del[d] # Idle /\ del[d].at = "sending"
    BY <1>2, DelFacts DEF MasterDeleteSent, MasterDeleteFails
  <2>2. \E b \in BOOLEAN : Sent(d, b)
    BY <1>2 DEF MasterDeleteSent, MasterDeleteFails
  <2>3. PICK x, y : del' = [del EXCEPT ![d].todo = x, ![d].failed = y]
    BY <2>2, Zenon DEF Sent
  <2>4. del'[d] = [del[d] EXCEPT !.todo = x, !.failed = y]
    BY <1>0, <2>3
  <2>5. del[d] \in [at : {"sending"}, path : Path, f : FileId, todo : Seq(NodeId), failed : Seq(NodeId)]
    BY <1>0, <2>1, DelFacts
  <2> QED
    BY <2>1, <2>4, <2>5
<1>3. ASSUME MasterDeleteRefused(d) \/ MasterDeleteFile(d)
      PROVE  overlapped' = overlapped /\ del'[d] = Idle
  BY <1>0, <1>3 DEF MasterDeleteRefused, MasterDeleteFile
<1> QED
  BY <1>1, <1>2, <1>3 DEF MasterDelete

LEMMA OnlyDeletesRecord ==
    ASSUME [Next]_vars, \A d \in Deleter : ~MasterDelete(d)
    PROVE  UNCHANGED <<del, overlapped>>
BY DEF Next, vars, HeartbeatHandler, MasterRequestUpload, AddUploadNoNode, AddUpload,
   HTTPUploadCallbackFails, Upload, FinishUpload, FinishUploadAdd, FinishUploadUnknown,
   FinishUploadGet, FinishUploadHost

LEMMA HistoryGrows ==
    ASSUME TypeInv, [Next]_vars
    PROVE  overlapped \subseteq overlapped'
<1>1. ASSUME NEW d \in Deleter, MasterDelete(d)
      PROVE  overlapped \subseteq overlapped'
  BY <1>1, DeleteRecords DEF MasterDeleteGet
<1> QED
  BY <1>1, OnlyDeletesRecord

LEMMA ApartStep ==
    ASSUME TypeInv, ApartInv, [Next]_vars
    PROVE  ApartInv'
<1> SUFFICES ASSUME NEW p \in Path, p \notin overlapped' PROVE DeletesApart(p)'
  BY DEF ApartInv
<1>1. DeletesApart(p)
  BY HistoryGrows DEF ApartInv
<1>2. CASE \A d \in Deleter : ~MasterDelete(d)
  BY <1>1, <1>2, OnlyDeletesRecord DEF DeletesApart
<1>3. ASSUME NEW d \in Deleter, MasterDelete(d)
      PROVE  DeletesApart(p)'
  <2>1. del \in [Deleter -> DelType] /\ \A e \in Deleter : e # d => del'[e] = del[e]
    BY <1>3, DeleteKeeps DEF DeleteKeeping, TypeInv
  <2>2. CASE del'[d] = Idle \/ (del[d] # Idle /\ del'[d].path = del[d].path)
    BY <1>1, <2>1, <2>2 DEF DeletesApart
  <2>3. ASSUME NEW q \in Path, MasterDeleteGet(d, q)
        PROVE  DeletesApart(p)'
    <3>1. /\ del' = [del EXCEPT ![d] = [at |-> "waiting", path |-> q, f |-> entry[q]]]
          /\ overlapped' = overlapped \cup (IF Deleting(q) THEN {q} ELSE {})
      BY <2>3 DEF MasterDeleteGet
    <3>2. del'[d].path = q
      BY <2>1, <3>1
    <3>3. q = p => ~Deleting(p)
      BY <3>1
    <3> QED
      BY <1>1, <2>1, <3>2, <3>3 DEF DeletesApart, Deleting
  <2> QED
    BY <1>3, <2>2, <2>3, DeleteRecords
<1> QED
  BY <1>2, <1>3

LEMMA OwnStep ==
    ASSUME Established, Established', ApartInv, OwnInv, [Next]_vars
    PROVE  OwnInv'
<1> SUFFICES ASSUME NEW p \in Path, NEW h \in Hash, p \notin overlapped', Owns(p, h)
             PROVE  OwnFile(p, h)' /\ OwnCopies(p, h)'
  BY DEF OwnInv, Owns
<1>a. TypeInv /\ TypeInv'
  BY DEF Established
<1>b. p \notin overlapped
  BY <1>a, HistoryGrows
<1>0. OwnFile(p, h) /\ OwnCopies(p, h) /\ TypeInv' /\ DeletesApart(p)
  BY <1>a, <1>b DEF OwnInv, ApartInv
<1>1. CASE UNCHANGED vars
  <2>1. UNCHANGED <<entry, ChecksumDB, file, del, store, uploads, client>>
    BY <1>1 DEF vars, manager, fs, clients
  <2>2. \A n \in NodeId : Coming(n, p)' <= Coming(n, p)
    BY <2>1, ComingLess DEF Uploading
  <2> QED
    BY <1>0, <2>1, <2>2, OwnUntouched
<1>2. CASE \E id \in UploadId : FinishUploadAdd(id)
  BY <1>0, <1>2, OwnAdd
<1>3. CASE \E replied \in BOOLEAN : FinishUploadHost(replied)
  BY <1>0, <1>3, OwnHost
<1>4. CASE \E d \in Deleter : MasterDelete(d)
  BY <1>0, <1>4, OwnDelete, OtherDelete
<1> QED
  BY <1>0, <1>1, <1>2, <1>3, <1>4, StepKinds, OwnNoFileSteps

LEMMA OwnInvariance == Spec => []OwnInv
<1>1. Init => OwnInv /\ ApartInv
  <2> SUFFICES ASSUME Init, NEW p \in Path, NEW h \in Hash PROVE OwnFile(p, h) /\ OwnCopies(p, h)
    BY DEF OwnInv, ApartInv, DeletesApart, Init
  <2>1. /\ entry[p] = None /\ ChecksumDB[h] = None /\ \A d \in Deleter : del[d] = Idle
        /\ \A n \in NodeId : store[n][h] = 0
        /\ \A id \in UploadId : uploads[id] = None
    BY DEF Init
  <2>2. OwnFile(p, h)
    BY <2>1 DEF OwnFile
  <2>3. Listed(p) = << >> /\ \A n \in NodeId : Coming(n, p) = 0
    BY <2>1 DEF Listed, Coming, Uploading
  <2>4. \A n \in NodeId : Times(n, Listed(p)) = 0
    BY <2>3, TimesOne
  <2> QED
    BY <2>1, <2>2, <2>3, <2>4 DEF OwnCopies
<1>2. Established /\ Established' /\ OwnInv /\ ApartInv /\ [Next]_vars => (OwnInv /\ ApartInv)'
  BY OwnStep, ApartStep DEF Established
<1> QED
  BY <1>1, <1>2, HostInvariance, PTL DEF Spec

(***************************************************************************)
(* The hosts of a file with a content of its own store it, each as often   *)
(* as MasterDelete will find it listed, as long as no two MasterDeletes of *)
(* its path have overlapped: through failed callbacks, repeated posts,     *)
(* refused deletes and uploads that finish while the path is deleted.      *)
(***************************************************************************)
THEOREM HostsStoreTheFile == Spec => []OwnHostsHold
<1>1. Established /\ OwnInv => OwnHostsHold
  <2> SUFFICES ASSUME Established, OwnInv, NEW p \in Path \ overlapped, OwnContent(p),
                      entry[p] # None, NEW n \in NodeId
               PROVE  Times(n, Counted(entry[p])) <= store[n][file[entry[p]].Checksum]
    BY DEF OwnHostsHold, HostsHold
  <2>1. PICK h \in Hash : Owns(p, h)
    BY DEF OwnContent, Owns
  <2>2. file[entry[p]].Checksum = h
    BY <2>1, OwnFacts
  <2>3. Times(n, Listed(p)) + Coming(n, p) <= store[n][h]
    BY <2>1 DEF OwnInv, OwnCopies
  <2>4. Listed(p) = Counted(entry[p])
    BY DEF Listed
  <2>5. Times(n, Listed(p)) \in Nat /\ Coming(n, p) \in 0..1 /\ store[n][h] \in Nat
    BY ListedSeq, TimesType DEF Established, TypeInv, Coming
  <2>6. PICK a, b, s : a = Times(n, Listed(p)) /\ b = Coming(n, p) /\ s = store[n][h]
    OBVIOUS
  <2>7. a <= s
    BY <2>3, <2>5, <2>6
  <2> QED
    BY <2>2, <2>4, <2>6, <2>7
<1> QED
  BY <1>1, HostInvariance, OwnInvariance, PTL

(***************************************************************************)
(* Under the same condition, a client that is told of success has its data *)
(* on the node it was sent to: no delete that ran since Add has removed    *)
(* the copy FinishUpload is about to list.                                 *)
(***************************************************************************)
THEOREM SuccessMeansStored == Spec => SuccessIsStored
<1>1. ASSUME Established, OwnInv, [Next]_vars, NEW id \in UploadId,
             client[id].at = "calling", client'[id].at = "done", OwnContent(client[id].path),
             client[id].path \notin overlapped
      PROVE  store[client[id].node][client[id].hash] > 0
  <2>0. /\ TypeInv /\ CallWaits /\ UploadInv /\ ClientsInStep
        /\ client \in [UploadId -> ClientType]
    BY <1>1 DEF Established, HostInv, TypeInv
  <2>1. PICK p \in Path, m \in NodeId, g \in Hash :
           p = client[id].path /\ m = client[id].node /\ g = client[id].hash
    BY <1>1, <2>0, ClientFacts
  <2>2. <<p, g>> \in Content
    BY <1>1, <2>0, <2>1 DEF ClientsInStep
  <2>3. Owns(p, g)
    <3>1. PICK h \in Hash : Owns(p, h)
      BY <1>1, <2>1 DEF OwnContent, Owns
    <3>2. g = h
      BY <2>2, <3>1, OwnsUnique
    <3> QED
      BY <3>1, <3>2
  <2>4. id \in Uploading
    <3>1. CASE \E replied \in BOOLEAN : FinishUploadHost(replied)
      <4>1. PICK replied \in BOOLEAN : FinishUploadHost(replied)
        BY <3>1
      <4>2. PICK i \in UploadId, q \in Path, n \in NodeId, f \in FileId :
               HostAppended(replied, i, q, n, f)
        BY <2>0, <4>1, FinishHostFacts
      <4>3. i \in Uploading /\ \A j \in UploadId : j # i => client'[j] = client[j]
        BY <2>0, <4>2 DEF HostAppended, Answered, Failed
      <4> QED
        BY <1>1, <4>3
    <3>2. ASSUME NEW i \in UploadId, client' = Failed(i)
          PROVE  FALSE
      BY <1>1, <2>0, <3>2 DEF Failed
    <3>3. ASSUME NEW q \in Path, NEW i \in UploadId, NEW reached \in BOOLEAN, AddUpload(q, i, reached)
          PROVE  FALSE
      BY <1>1, <2>0, <3>3 DEF AddUpload
    <3>4. ASSUME NEW i \in UploadId, NEW h \in Hash, Upload(i, h)
          PROVE  FALSE
      BY <1>1, <2>0, <3>4 DEF Upload
    <3>5. client' # client
      BY <1>1
    <3>6. ASSUME NEW d \in Deleter, MasterDelete(d)
          PROVE  FALSE
      <4>1. DeleteKeeping(d)
        BY <2>0, <3>6, DeleteKeeps
      <4> QED
        BY <3>5, <4>1 DEF DeleteKeeping, clients
    <3>7. FinishUploadGet => client' = client \/ (client' = Failed(fin.id) /\ fin.id \in UploadId)
      BY <2>0, FinFacts DEF FinishUploadGet
    <3>8. \A i \in UploadId : FinishUploadUnknown(i) \/ HTTPUploadCallbackFails(i) => client' = Failed(i)
      BY DEF FinishUploadUnknown, HTTPUploadCallbackFails
    <3>9. \/ \E n \in NodeId : HeartbeatHandler(n)
          \/ \E q \in Path : AddUploadNoNode(q)
          \/ \E i \in UploadId : FinishUploadAdd(i)
          \/ UNCHANGED vars
          => client' = client
      BY DEF HeartbeatHandler, AddUploadNoNode, FinishUploadAdd, clients, vars
    <3> QED
      BY <1>1, <3>1, <3>2, <3>3, <3>4, <3>5, <3>6, <3>7, <3>8, <3>9, StepKinds
  <2>5. Coming(m, p) = 1
    BY <1>1, <2>1, <2>4 DEF Coming
  <2>6. Times(m, Listed(p)) + Coming(m, p) <= store[m][g]
    BY <1>1, <2>1, <2>3 DEF OwnInv, OwnCopies
  <2>7. Times(m, Listed(p)) \in Nat /\ store[m][g] \in Nat
    BY <2>0, ListedSeq, TimesType DEF TypeInv
  <2>8. PICK a, s : a = Times(m, Listed(p)) /\ s = store[m][g]
    OBVIOUS
  <2>9. s > 0
    BY <2>5, <2>6, <2>7, <2>8
  <2> QED
    BY <2>1, <2>8, <2>9
<1>2. Established /\ OwnInv /\ [Next]_vars =>
         [\A id \in UploadId :
             (/\ client[id].at = "calling" /\ client'[id].at = "done"
              /\ OwnContent(client[id].path) /\ client[id].path \notin overlapped)
             => store[client[id].node][client[id].hash] > 0]_vars
  BY <1>1
<1> QED
  BY <1>2, HostInvariance, OwnInvariance, PTL DEF Spec, SuccessIsStored
=============================================================================
