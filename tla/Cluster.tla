------------------------------ MODULE Cluster ------------------------------
(***************************************************************************)
(* Uploads and deletes across the leading master and its data nodes: the   *)
(* upload manager (raft/upload.go), the handlers of router/master.go that  *)
(* change state, and Upload and Delete of router/node.go.                  *)
(*                                                                         *)
(* The master's namespace (module FS) and a node's hash store (module      *)
(* HashStore) are used at the grain of their calls: AddFile, GetFile,      *)
(* DeleteFile, Add and Remove are one step each, and what happens between  *)
(* two of them is what this module is about.  A path stands for the place  *)
(* it walks to.  AddUpload and FinishUpload hold the upload manager's      *)
(* mutex from their first to their last line.                              *)
(***************************************************************************)
EXTENDS Integers, FiniteSets, Sequences

CONSTANTS Path, Hash, NodeId, None,
          UploadId,     \* bound: ids handed out; RandomString does not repeat one
          FileId,       \* bound: File objects in use at a time
          Deleter,      \* bound: MasterDelete requests at a time
          Content,      \* pairs <<path, hash>> that clients upload
          MaxPosts,     \* bound: times clients post data, repetitions included
          LostReplies   \* contents for which a node's answer to a delete may be lost

ASSUME ContentAssumption == Content \subseteq Path \X Hash
ASSUME ClusterAssumption == MaxPosts \in Nat \ {0} /\ LostReplies \subseteq Hash
ASSUME NoneAssumption == None \notin NodeId \cup FileId \cup UploadId

VARIABLES
    nodes, first,         \* known nodes, and the one on top of uploadNodes
    uploads, pending,     \* of the upload manager
    entry, ChecksumDB,    \* of sdfs.Fs: path to File, checksum to File
    file,                 \* the File objects
    fin,                  \* the FinishUpload in progress
    client,               \* per upload, what the client that was given it does
    posts,                \* how often data was posted
    store,                \* per node and content, ReplicaCount (0: not stored)
    del,                  \* per deleter, the MasterDelete in progress
    overlapped            \* history variable: paths of which two MasterDeletes overlapped

registry == <<nodes, first>>
manager  == <<uploads, pending, fin>>
fs       == <<entry, ChecksumDB, file>>
clients  == <<client, posts>>
vars     == <<registry, manager, fs, clients, store, del, overlapped>>

Idle == [at |-> "idle"]

Init ==
    /\ nodes = {} /\ first = None
    /\ uploads = [id \in UploadId |-> None]
    /\ pending = {}
    /\ entry = [p \in Path |-> None]
    /\ ChecksumDB = [h \in Hash |-> None]
    /\ file = [f \in FileId |-> [Checksum |-> None, SemaphoreReplica |-> 0, Host |-> << >>]]
    /\ fin = Idle
    /\ client = [id \in UploadId |-> Idle]
    /\ posts = 0
    /\ store = [n \in NodeId |-> [h \in Hash |-> 0]]
    /\ del = [d \in Deleter |-> Idle]
    /\ overlapped = {}

-----------------------------------------------------------------------------
(***************************************************************************)
(* The first heartbeat of a node pushes it onto the heap of upload nodes.  *)
(* Later ones change priorities in place and reorder nothing, so whether   *)
(* the new node rises to the top depends on free space at that moment.     *)
(***************************************************************************)
Push(n) == first' \in {n} \cup (IF first = None THEN {} ELSE {first})

HeartbeatHandler(n) ==
    /\ n \notin nodes
    /\ nodes' = nodes \cup {n}
    /\ Push(n)
    /\ UNCHANGED <<manager, fs, clients, store, del, overlapped>>

(***************************************************************************)
(* MasterRequestUpload: AddUpload reserves the path, picks the node on top *)
(* of the heap and announces the id to it.  If the node cannot be reached  *)
(* or refuses, the client gets an error and the reservation stays.         *)
(***************************************************************************)
AlwaysFree(p) == TRUE
NotPending(p) == p \notin pending

AddUploadNoNode(p) ==
    /\ fin = Idle
    /\ NotPending(p)
    /\ first = None
    /\ pending' = pending \cup {p}
    /\ UNCHANGED <<registry, uploads, fin, fs, clients, store, del, overlapped>>

AddUpload(p, id, reached) ==
    /\ fin = Idle
    /\ NotPending(p)
    /\ first # None
    /\ uploads[id] = None /\ client[id] = Idle
    /\ pending' = pending \cup {p}
    /\ uploads' = [uploads EXCEPT ![id] = [Host |-> first, Path |-> p]]
    /\ client' = [client EXCEPT ![id] = IF reached
                                        THEN [at |-> "granted", node |-> first, path |-> p]
                                        ELSE [at |-> "refused"]]
    /\ UNCHANGED <<registry, fin, fs, posts, store, del, overlapped>>

(***************************************************************************)
(* Upload on the node: Add, then the callback, which is on its way.  A     *)
(* client whose upload failed may post its data again.                     *)
(***************************************************************************)
Upload(id, h) ==
    LET c == client[id] IN
    /\ c.at = "granted"
    /\ <<c.path, h>> \in Content
    /\ posts < MaxPosts
    /\ posts' = posts + 1
    /\ store' = [store EXCEPT ![c.node][h] = @ + 1]
    /\ client' = [client EXCEPT ![id] = [at |-> "calling", node |-> c.node, path |-> c.path,
                                         hash |-> h]]
    /\ UNCHANGED <<registry, manager, fs, del, overlapped>>

(***************************************************************************)
(* The node's handler answers its client: success, or an error after which *)
(* the client still has its id.                                            *)
(***************************************************************************)
Answered(id) == [client EXCEPT ![id] = [at |-> "done"]]
Failed(id)   == [client EXCEPT ![id] = [at |-> "granted", node |-> @.node, path |-> @.path]]

HTTPUploadCallbackFails(id) ==
    /\ client[id].at = "calling"
    /\ ~(fin # Idle /\ fin.id = id)
    /\ client' = Failed(id)
    /\ UNCHANGED <<registry, manager, fs, posts, store, del, overlapped>>

(***************************************************************************)
(* AddFile as a whole.  A File is a garbage-collected object: a new one is *)
(* an identity that nothing refers to.                                     *)
(***************************************************************************)
InUse ==
    {entry[p] : p \in Path} \cup {ChecksumDB[h] : h \in Hash}
    \cup {del[d].f : d \in {e \in Deleter : del[e] # Idle}}

OtherFileAt(p, h) == entry[p] # None /\ file[entry[p]].Checksum # h

AddFile(p, h) ==
    \/ /\ OtherFileAt(p, h)
       /\ UNCHANGED fs
    \/ /\ ~OtherFileAt(p, h)
       /\ ChecksumDB[h] # None
       /\ entry' = [entry EXCEPT ![p] = ChecksumDB[h]]
       /\ file' = [file EXCEPT ![ChecksumDB[h]].SemaphoreReplica =
                      IF entry[p] = ChecksumDB[h] THEN @ ELSE @ + 1]
       /\ UNCHANGED ChecksumDB
    \/ /\ ~OtherFileAt(p, h)
       /\ ChecksumDB[h] = None
       /\ \E f \in FileId \ InUse :
            /\ entry' = [entry EXCEPT ![p] = f]
            /\ ChecksumDB' = [ChecksumDB EXCEPT ![h] = f]
            /\ file' = [file EXCEPT ![f] = [Checksum |-> h, SemaphoreReplica |-> 1,
                                            Host |-> << >>]]

(***************************************************************************)
(* FinishUpload: AddFile, whose error is ignored; GetFile, whose error is  *)
(* ignored too, so that a file deleted in between is a nil dereference,    *)
(* which ends the request; then the host is added and the upload is over.  *)
(***************************************************************************)
FinishUploadAdd(id) ==
    /\ client[id].at = "calling" /\ fin = Idle
    /\ uploads[id] # None
    /\ AddFile(uploads[id].Path, client[id].hash)
    /\ fin' = [at |-> "added", id |-> id]
    /\ UNCHANGED <<registry, uploads, pending, clients, store, del, overlapped>>

FinishUploadUnknown(id) ==
    /\ client[id].at = "calling" /\ fin = Idle
    /\ uploads[id] = None
    /\ client' = Failed(id)
    /\ UNCHANGED <<registry, manager, fs, posts, store, del, overlapped>>

FinishUploadGet ==
    LET f == entry[uploads[fin.id].Path] IN
    /\ fin.at = "added"
    /\ IF f # None
       THEN fin' = [at |-> "got", id |-> fin.id, f |-> f] /\ UNCHANGED client
       ELSE fin' = Idle /\ client' = Failed(fin.id)
    /\ UNCHANGED <<registry, uploads, pending, fs, posts, store, del, overlapped>>

WithHost(hosts, n) == Append(hosts, n)

FinishUploadHost(replied) ==
    /\ fin.at = "got"
    /\ file' = [file EXCEPT ![fin.f].Host = WithHost(@, uploads[fin.id].Host)]
    /\ uploads' = [uploads EXCEPT ![fin.id] = None]
    /\ pending' = pending \ {uploads[fin.id].Path}
    /\ fin' = Idle
    /\ client' = IF replied THEN Answered(fin.id) ELSE Failed(fin.id)
    /\ UNCHANGED <<registry, entry, ChecksumDB, posts, store, del, overlapped>>

(***************************************************************************)
(* MasterDelete: GetFile; the file's lock; a delete to every host in turn; *)
(* then the failed hosts remain, or the lock is given back and DeleteFile  *)
(* takes the path out of the namespace.                                    *)
(***************************************************************************)
Locked(f) == \E d \in Deleter : del[d].at = "sending" /\ del[d].f = f

Deleting(p) == \E d \in Deleter : del[d] # Idle /\ del[d].path = p

MasterDeleteGet(d, p) ==
    /\ del[d] = Idle
    /\ entry[p] # None
    /\ del' = [del EXCEPT ![d] = [at |-> "waiting", path |-> p, f |-> entry[p]]]
    /\ overlapped' = overlapped \cup (IF Deleting(p) THEN {p} ELSE {})
    /\ UNCHANGED <<registry, manager, fs, clients, store>>

MasterDeleteLock(d) ==
    /\ del[d].at = "waiting"
    /\ ~Locked(del[d].f)
    /\ del' = [del EXCEPT ![d] = [at |-> "sending", path |-> @.path, f |-> @.f,
                                  todo |-> file[@.f].Host, failed |-> << >>]]
    /\ UNCHANGED <<registry, manager, fs, clients, store, overlapped>>

(***************************************************************************)
(* Delete on a node removes one replica and says so, though its answer may *)
(* be lost; or the delete fails: it is lost, or the node does not have the *)
(* content, or it refuses because the last replica is being downloaded.    *)
(***************************************************************************)
Sent(d, ok) ==
    del' = [del EXCEPT ![d].todo = Tail(@),
                       ![d].failed = IF ok THEN @ ELSE Append(@, Head(del[d].todo))]

MasterDeleteSent(d, ok) ==
    LET n == Head(del[d].todo)
        h == file[del[d].f].Checksum IN
    /\ del[d].at = "sending" /\ del[d].todo # << >>
    /\ store[n][h] > 0
    /\ ~ok => h \in LostReplies
    /\ store' = [store EXCEPT ![n][h] = @ - 1]
    /\ Sent(d, ok)
    /\ UNCHANGED <<registry, manager, fs, clients, overlapped>>

MasterDeleteFails(d) ==
    /\ del[d].at = "sending" /\ del[d].todo # << >>
    /\ Sent(d, FALSE)
    /\ UNCHANGED <<registry, manager, fs, clients, store, overlapped>>

NoHosts(d)    == << >>
KeptHosts(d)  == file[del[d].f].Host
FailedHosts(d) == del[d].failed

MasterDeleteRefused(d) ==
    /\ del[d].at = "sending" /\ del[d].todo = << >> /\ del[d].failed # << >>
    /\ file' = [file EXCEPT ![del[d].f].Host = FailedHosts(d)]
    /\ del' = [del EXCEPT ![d] = Idle]
    /\ UNCHANGED <<registry, manager, entry, ChecksumDB, clients, store, overlapped>>

MasterDeleteUnlock(d) ==
    /\ del[d].at = "sending" /\ del[d].todo = << >> /\ del[d].failed = << >>
    /\ del' = [del EXCEPT ![d] = [at |-> "unlocked", path |-> @.path, f |-> @.f]]
    /\ UNCHANGED <<registry, manager, fs, clients, store, overlapped>>

(***************************************************************************)
(* DeleteFile as a whole: it looks the path up again, and gives up if the  *)
(* file it finds is locked.                                                *)
(***************************************************************************)
StillLocked(p) == UNCHANGED fs
DeleteFile(p) ==
    LET f == entry[p] IN
    IF f = None \/ Locked(f) THEN UNCHANGED fs
    ELSE /\ entry' = [entry EXCEPT ![p] = None]
         /\ IF file[f].SemaphoreReplica = 1
            THEN /\ ChecksumDB' = [ChecksumDB EXCEPT ![file[f].Checksum] = None]
                 /\ UNCHANGED file
            ELSE /\ file' = [file EXCEPT ![f].SemaphoreReplica = @ - 1]
                 /\ UNCHANGED ChecksumDB

MasterDeleteFile(d) ==
    /\ del[d].at = "unlocked"
    /\ DeleteFile(del[d].path)
    /\ del' = [del EXCEPT ![d] = Idle]
    /\ UNCHANGED <<registry, manager, clients, store, overlapped>>

MasterRequestUpload(p) ==
    AddUploadNoNode(p) \/ \E id \in UploadId, reached \in BOOLEAN : AddUpload(p, id, reached)

FinishUpload ==
    \/ \E id \in UploadId : FinishUploadAdd(id) \/ FinishUploadUnknown(id)
    \/ FinishUploadGet
    \/ \E replied \in BOOLEAN : FinishUploadHost(replied)

MasterDelete(d) ==
    \/ \E p \in Path : MasterDeleteGet(d, p)
    \/ MasterDeleteLock(d)
    \/ \E ok \in BOOLEAN : MasterDeleteSent(d, ok)
    \/ MasterDeleteFails(d)
    \/ MasterDeleteRefused(d)
    \/ MasterDeleteUnlock(d)
    \/ MasterDeleteFile(d)

Next ==
    \/ \E n \in NodeId : HeartbeatHandler(n)
    \/ \E p \in Path : MasterRequestUpload(p)
    \/ \E id \in UploadId : HTTPUploadCallbackFails(id) \/ \E h \in Hash : Upload(id, h)
    \/ FinishUpload
    \/ \E d \in Deleter : MasterDelete(d)

Spec == Init /\ [][Next]_vars
-----------------------------------------------------------------------------
(***************************************************************************)
(* Properties.                                                             *)
(***************************************************************************)
Uploading == {id \in UploadId : uploads[id] # None}

\* Two uploads to one path never run at the same time, whatever fails in
\* between: an upload the manager knows keeps its path reserved, and no other
\* one has it (AddUpload checks pending, FinishUpload alone clears it).
OneUploadPerPath ==
    /\ \A id \in Uploading : uploads[id].Path \in pending
    /\ \A i, j \in Uploading : uploads[i].Path = uploads[j].Path => i = j

\* The hosts a file has apart from the copies a running MasterDelete has removed
\* and will take off the list.
Counted(f) ==
    IF Locked(f)
    THEN LET d == CHOOSE d \in Deleter : del[d].at = "sending" /\ del[d].f = f
         IN  del[d].todo \o del[d].failed
    ELSE IF \E d \in Deleter : del[d].at = "unlocked" /\ del[d].f = f THEN << >>
    ELSE file[f].Host

Times(n, hosts) == Cardinality({k \in DOMAIN hosts : hosts[k] = n})

\* File.Host names hosts that store the file, each as often as it has a copy.
HostsHold(p) ==
    entry[p] # None =>
        \A n \in NodeId :
            Times(n, Counted(entry[p])) <= store[n][file[entry[p]].Checksum]

\* Clients upload one content to the path, and to no other path, and nodes can
\* tell the master that they have deleted it.
OwnContent(p) ==
    \E h \in Hash \ LostReplies : \A c \in Content : c[1] = p \/ c[2] = h => c = <<p, h>>

\* For a path that shares its content with no other, is given no second one, whose
\* deletes are answered, and of which no two MasterDeletes have overlapped, the hosts
\* of its file store it, each as often as it is listed: through failed callbacks,
\* repeated uploads, refused deletes, uploads that end while the path is being
\* deleted, and overlapping deletes of other paths.  (Nothing in MasterDelete keeps
\* two deletes of one path apart: the second goes on with the File it looked up.)
OwnHostsHold == \A p \in Path \ overlapped : OwnContent(p) => HostsHold(p)

\* MasterDownload takes f.Host[0]: a path in the namespace has a host, except
\* between the AddFile and the append of the FinishUpload that created it.
HostNotEmpty ==
    \A p \in Path : entry[p] # None /\ file[entry[p]].Host = << >> =>
        fin # Idle /\ uploads[fin.id].Path = p

\* When a client is told that its upload to such a path succeeded (content of its
\* own, deletes answered, no two of them overlapped so far), the node it sent the
\* data to has it, although deletes of the path may have run since Add.
SuccessIsStored ==
    [][\A id \in UploadId :
          (/\ client[id].at = "calling" /\ client'[id].at = "done"
           /\ OwnContent(client[id].path) /\ client[id].path \notin overlapped)
          => store[client[id].node][client[id].hash] > 0]_vars
=============================================================================
