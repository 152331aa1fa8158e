-------------------------------- MODULE FS --------------------------------
(***************************************************************************)
(* The metadata layer sdfs.FS (sdfs/fs.go, sdfs/file.go) on a master.      *)
(* AddFile is called by FinishUpload, one call at a time (uploadManager's  *)
(* mutex); DeleteFile by any number of HTTP handlers.  A step is a stretch *)
(* of code that holds one of the mutexes, or the code between two of them. *)
(*                                                                         *)
(* Directories are created on demand and never removed, and their sizes    *)
(* are always 0 since AddFile passes 0 to NewFile, so a path stands for    *)
(* the place it walks to: LocOf.  Paths() gives the canonical spelling of  *)
(* that place; a path spelled another way ("a/b" or "//a/b" for "/a/b")    *)
(* walks to the same place and is never equal to it.                       *)
(***************************************************************************)
EXTENDS Integers, FiniteSets

CONSTANTS Path,          \* paths that requests name
          Loc,           \* places in the directory tree
          LocOf,         \* the place a path walks to
          CanonicalPath, \* the paths that Paths() would return
          Hash,          \* checksums
          FileId,        \* File objects; one nothing points to is reused
          Deleter,       \* DeleteFile calls that may run at once
          None,
          MaxRequests,   \* bound on the calls in progress
          MaxReplicas    \* bound on SemaphoreReplica and on the Locations of a place

ASSUME PathAssumption == LocOf \in [Path -> Loc] /\ CanonicalPath \subseteq Path
ASSUME NoneAssumption == None \notin FileId \cup Hash /\ Hash # {}
ASSUME BoundAssumption == MaxRequests \in Nat /\ MaxReplicas \in Nat \ {0}

VARIABLES
    entry,       \* dir.Files: the File at a place, or None
    ChecksumDB,  \* the File of a checksum, or None
    file,        \* the File objects: Checksum, FSPath (a bag), SemaphoreReplica
    add,         \* the AddFile call
    del,         \* per Deleter, its DeleteFile call
    history      \* history variable: "irregular" once a call has spelled a path in
                 \* another way or two deletes of one place have overlapped

vars == <<entry, ChecksumDB, file, add, del, history>>

NoAdd  == [stage |-> "idle"]
NoDel  == [stage |-> "idle"]
NoPath == [l \in Loc |-> 0]

Init ==
    /\ entry = [l \in Loc |-> None]
    /\ ChecksumDB = [h \in Hash |-> None]
    /\ file \in [FileId -> [Checksum : {CHOOSE h \in Hash : TRUE}, FSPath : {NoPath},
                            SemaphoreReplica : {1}]]
    /\ add = NoAdd
    /\ del = [d \in Deleter |-> NoDel]
    /\ history = "regular"

InProgress ==
    Cardinality({d \in Deleter : del[d] # NoDel}) + (IF add = NoAdd THEN 0 ELSE 1)

(***************************************************************************)
(* GetFile walks to a place; Paths() contains a path only if that is the   *)
(* canonical spelling.                                                     *)
(***************************************************************************)
GetFile(p) == entry[LocOf[p]]

InPaths(f, p) == p \in CanonicalPath /\ file[f].FSPath[LocOf[p]] > 0

(***************************************************************************)
(* Nothing in the code keeps calls regular; what depends on it says so.    *)
(***************************************************************************)
Regular == history = "regular"

Recorded(regular) == history' = IF regular THEN history ELSE "irregular"

(***************************************************************************)
(* AddFile up to f.mu.Lock: AddDir, GetFileParent, and the check for a     *)
(* different file at the path.                                             *)
(***************************************************************************)
NoConflict(p, h) == TRUE
NoOtherFile(p, h) == GetFile(p) # None => file[GetFile(p)].Checksum = h

Bounded(f, p) ==
    f # None /\ ~InPaths(f, p) =>
        file[f].SemaphoreReplica < MaxReplicas /\ file[f].FSPath[LocOf[p]] < MaxReplicas

AddFileCheck(p, h) ==
    /\ add = NoAdd
    /\ InProgress < MaxRequests
    /\ Bounded(ChecksumDB[h], p)
    /\ Recorded(p \in CanonicalPath)
    /\ add' = IF NoOtherFile(p, h)
              THEN [stage |-> "checked", path |-> p, hash |-> h]
              ELSE NoAdd
    /\ UNCHANGED <<entry, ChecksumDB, file, del>>

(***************************************************************************)
(* The stretch under f.mu: the checksum is known and the path listed, the  *)
(* checksum is known and the path new, or the checksum is new.             *)
(***************************************************************************)
AddFileExists ==
    /\ add.stage = "checked"
    /\ ChecksumDB[add.hash] # None
    /\ InPaths(ChecksumDB[add.hash], add.path)
    /\ add' = [stage |-> "added", path |-> add.path, hash |-> add.hash]
    /\ UNCHANGED <<entry, ChecksumDB, file, del, history>>

CountMore(n) == n + 1

AddFileReplica ==
    LET f == ChecksumDB[add.hash]
        l == LocOf[add.path]
    IN
    /\ add.stage = "checked"
    /\ f # None
    /\ ~InPaths(f, add.path)
    /\ file' = [file EXCEPT ![f].FSPath[l] = @ + 1,
                            ![f].SemaphoreReplica = CountMore(@)]
    /\ entry' = [entry EXCEPT ![l] = f]
    /\ add' = [stage |-> "added", path |-> add.path, hash |-> add.hash]
    /\ UNCHANGED <<ChecksumDB, del, history>>

AddFileMiss ==
    /\ add.stage = "checked"
    /\ ChecksumDB[add.hash] = None
    /\ add' = [add EXCEPT !.stage = "creating"]
    /\ UNCHANGED <<entry, ChecksumDB, file, del, history>>

(***************************************************************************)
(* After f.mu.Unlock: NewFile and the two map writes, without the mutex.   *)
(***************************************************************************)
Unused(f) ==
    /\ \A l \in Loc : entry[l] # f
    /\ \A h \in Hash : ChecksumDB[h] # f
    /\ \A d \in Deleter : del[d] # NoDel => del[d].file # f

NewFile(l, h) ==
    [Checksum |-> h, FSPath |-> [NoPath EXCEPT ![l] = 1], SemaphoreReplica |-> 1]

AddFileCreate(f) ==
    LET l == LocOf[add.path] IN
    /\ add.stage = "creating"
    /\ Unused(f)
    /\ file' = [file EXCEPT ![f] = NewFile(l, add.hash)]
    /\ entry' = [entry EXCEPT ![l] = f]
    /\ ChecksumDB' = [ChecksumDB EXCEPT ![add.hash] = f]
    /\ add' = [add EXCEPT !.stage = "added"]
    /\ UNCHANGED <<del, history>>

AddFileReturn ==
    /\ add.stage = "added"
    /\ add' = NoAdd
    /\ UNCHANGED <<entry, ChecksumDB, file, del, history>>

(***************************************************************************)
(* DeleteFile: GetFile; TryLock on the file's own mutex, which is held to  *)
(* the end; and the stretch under f.mu.                                    *)
(***************************************************************************)
DeleteFileGet(d, p) ==
    /\ del[d] = NoDel
    /\ InProgress < MaxRequests
    /\ GetFile(p) # None
    /\ del' = [del EXCEPT ![d] = [stage |-> "got", path |-> p, file |-> GetFile(p)]]
    /\ Recorded(p \in CanonicalPath /\
                \A e \in Deleter : del[e] # NoDel => LocOf[del[e].path] # LocOf[p])
    /\ UNCHANGED <<entry, ChecksumDB, file, add>>

Locked(f) == \E d \in Deleter : del[d].stage = "locked" /\ del[d].file = f

DeleteFileTryLock(d) ==
    /\ del[d].stage = "got"
    /\ del' = [del EXCEPT ![d] = IF Locked(del[d].file) THEN NoDel
                                 ELSE [del[d] EXCEPT !.stage = "locked"]]
    /\ UNCHANGED <<entry, ChecksumDB, file, add, history>>

NeverLast(f)  == FALSE
AlwaysLast(f) == TRUE
IsLast(f)     == file[f].SemaphoreReplica = 1

DeleteFileLast(d) ==
    LET f == del[d].file IN
    /\ del[d].stage = "locked"
    /\ IsLast(f)
    /\ entry' = [entry EXCEPT ![LocOf[del[d].path]] = None]
    /\ ChecksumDB' = [ChecksumDB EXCEPT ![file[f].Checksum] = None]
    /\ del' = [del EXCEPT ![d] = NoDel]
    /\ UNCHANGED <<file, add, history>>

KeepsPath(f, p) == file[f].FSPath
WithoutPath(f, p) ==
    IF InPaths(f, p) THEN [file[f].FSPath EXCEPT ![LocOf[p]] = @ - 1] ELSE file[f].FSPath

DeleteFileReplica(d) ==
    LET f == del[d].file IN
    /\ del[d].stage = "locked"
    /\ ~IsLast(f)
    /\ entry' = [entry EXCEPT ![LocOf[del[d].path]] = None]
    /\ file' = [file EXCEPT ![f].FSPath = WithoutPath(f, del[d].path),
                            ![f].SemaphoreReplica = @ - 1]
    /\ del' = [del EXCEPT ![d] = NoDel]
    /\ UNCHANGED <<ChecksumDB, add, history>>

AddFile ==
    \/ \E p \in Path, h \in Hash : AddFileCheck(p, h)
    \/ AddFileExists \/ AddFileReplica \/ AddFileMiss
    \/ \E f \in FileId : AddFileCreate(f)
    \/ AddFileReturn

DeleteFile(d) ==
    \/ \E p \in Path : DeleteFileGet(d, p)
    \/ DeleteFileTryLock(d) \/ DeleteFileLast(d) \/ DeleteFileReplica(d)

Next == AddFile \/ \E d \in Deleter : DeleteFile(d)

Spec == Init /\ [][Next]_vars
-----------------------------------------------------------------------------
(***************************************************************************)
(* Properties.                                                             *)
(***************************************************************************)
File == [Checksum : Hash, FSPath : [Loc -> Nat], SemaphoreReplica : Nat \ {0}]

\* Every variable keeps the shape its Go counterpart has, and the unsigned
\* SemaphoreReplica never reaches 0, from which the next delete would wrap it.
TypeOK ==
    /\ entry \in [Loc -> FileId \cup {None}]
    /\ ChecksumDB \in [Hash -> FileId \cup {None}]
    /\ file \in [FileId -> File]
    /\ add \in {NoAdd} \cup [stage : {"checked", "creating", "added"}, path : Path, hash : Hash]
    /\ del \in [Deleter -> {NoDel} \cup [stage : {"got", "locked"}, path : Path, file : FileId]]
    /\ history \in {"regular", "irregular"}

Content == [l \in Loc |-> IF entry[l] = None THEN None ELSE file[entry[l]].Checksum]

NS == INSTANCE Namespace WITH ns <- Content

\* Seen from outside, calls of AddFile and DeleteFile in any interleaving are
\* puts at free places and removals: no call replaces the content of a place,
\* although AddFile writes long after it checked.
NamespaceSpec == NS!Spec

At(f) == {l \in Loc : entry[l] = f}

\* SemaphoreReplica and FSPath of a File that is in the namespace agree with the
\* places it is found at; the decision to drop the checksum rests on them.
ReplicasCounted ==
    \A f \in FileId : At(f) # {} =>
        /\ file[f].SemaphoreReplica = Cardinality(At(f))
        /\ \A l \in Loc : file[f].FSPath[l] = IF l \in At(f) THEN 1 ELSE 0

\* ChecksumDB keeps no File that no path leads to.
NoOrphanChecksum == \A h \in Hash : ChecksumDB[h] # None => At(ChecksumDB[h]) # {}

\* As long as every path was spelled canonically and no two deletes of one place
\* have overlapped, places with the same checksum share one File object, the one
\* ChecksumDB names, also while calls are under way; between calls its counts agree
\* with the directory entries, and its checksum is forgotten when its last place is
\* gone.  (A second delete of a place counts down for a File that is no longer
\* there; a path in another spelling is never found in Paths().)
FilesAgree ==
    Regular =>
        /\ \A l \in Loc : entry[l] # None => ChecksumDB[file[entry[l]].Checksum] = entry[l]
        /\ (add = NoAdd /\ \A d \in Deleter : del[d] = NoDel) =>
              ReplicasCounted /\ NoOrphanChecksum

\* At the moment AddFile has done its work there is an entry for the path, also
\* where it finds the path listed and writes nothing: FinishUpload uses what
\* GetFile returns without looking at the error.  This holds as long as every path
\* was spelled canonically and no two deletes of one place have overlapped: either
\* leaves a Location behind that AddFile then takes for the entry.
AddedIsThere ==
    [][Regular /\ add.stage # "added" /\ add'.stage = "added" =>
          entry'[LocOf[add.path]] # None]_vars
=============================================================================
