--------------------------- MODULE DownloadLinks ---------------------------
(***************************************************************************)
(* The download links and announced uploads of a data node                 *)
(* (router/download.go, and the handlers AddUpload, AddDownload and the    *)
(* link lookup of Download in router/node.go), all under Router.mu.        *)
(*                                                                         *)
(* Router.mu is a sync.RWMutex: wlock is the call that has announced or    *)
(* holds the write lock, rlocks the number of read locks held.  A call     *)
(* that has announced runs its critical section, one step, once rlocks is  *)
(* 0; from the announcement on no reader gets in.  A handler that returns  *)
(* or panics without unlocking leaves its lock held for good: none of the  *)
(* sections unlocks by defer.                                              *)
(***************************************************************************)
EXTENDS Integers, FiniteSets, SequencesExt

CONSTANTS Call,        \* requests handled at once
          Id,          \* link ids
          UploadId,    \* upload ids
          NoCall,
          Lapsing,     \* ids whose links may outlive ExpireTime
          MaxLeaks     \* bound on the read locks left behind

ASSUME LinkAssumption == Lapsing \subseteq Id /\ MaxLeaks \in Nat \ {0}
ASSUME NoCallAssumption == NoCall \notin Call

VARIABLES
    uploads,         \* ids of announced uploads; nothing removes them
    downloads,       \* ids of the links
    downloadsQueue,  \* the same links in the order they were made
    used,            \* ids whose DownloadCount is not 0
    expired,         \* ids whose ExpireTime has passed
    wlock, rlocks,
    pc               \* per call, the section it is about to run, and for which id

linkVars == <<uploads, downloads, downloadsQueue, used, expired, wlock, rlocks, pc>>
links == <<downloads, downloadsQueue, used, expired>>

Idle == [at |-> "idle"]

LinksInit ==
    /\ uploads = {}
    /\ downloads = {}
    /\ downloadsQueue = << >>
    /\ used = {}
    /\ expired = {}
    /\ wlock = NoCall
    /\ rlocks = 0
    /\ pc = [c \in Call |-> Idle]

-----------------------------------------------------------------------------
(***************************************************************************)
(* Requests arrive: /api/upload announcements and downloads with an id, a  *)
(* new link without.  Id bounds the number of links.                       *)
(***************************************************************************)
Arrive(c, req) ==
    /\ pc[c] = Idle
    /\ pc' = [pc EXCEPT ![c] = req]
    /\ UNCHANGED <<uploads, links, wlock, rlocks>>

ArriveUpload(c, id) == Arrive(c, [at |-> "upload", id |-> id])

ArriveDownload(c, id) == Arrive(c, [at |-> "download", id |-> id])

ArriveAddDownload(c) ==
    /\ Cardinality(downloads) + Cardinality({d \in Call : pc[d].at \in {"update", "insert"}})
          < Cardinality(Id)
    /\ Arrive(c, [at |-> "update", t |-> expired])

(***************************************************************************)
(* Lock announces a writer; InSection is the entry of its section.         *)
(***************************************************************************)
Lock(c) ==
    /\ pc[c].at \in {"upload", "update", "insert"}
    /\ wlock = NoCall
    /\ wlock' = c
    /\ UNCHANGED <<uploads, links, rlocks, pc>>

InSection(c, section) == wlock = c /\ rlocks = 0 /\ pc[c].at = section

(***************************************************************************)
(* AddUpload, for a new id or one already announced.                       *)
(***************************************************************************)
RetriesConflict(c) ==
    /\ InSection(c, "upload")
    /\ uploads' = uploads \cup {pc[c].id}
    /\ wlock' = NoCall
    /\ pc' = [pc EXCEPT ![c] = IF pc[c].id \in uploads THEN @ ELSE Idle]
    /\ UNCHANGED <<links, rlocks>>

AddUpload(c) ==
    /\ InSection(c, "upload")
    /\ uploads' = uploads \cup {pc[c].id}
    /\ wlock' = NoCall
    /\ pc' = [pc EXCEPT ![c] = Idle]
    /\ UNCHANGED <<links, rlocks>>

(***************************************************************************)
(* UpdateQueue.  The clock is read before the lock is taken: t is the set  *)
(* of links that had expired then.  The range loop fixes its length and    *)
(* its backing array at the start, while each removal shifts that array    *)
(* left in place: after i iterations, data is the array, len the length of *)
(* r.downloadsQueue, gone the ids taken out of r.downloads.  A removal at  *)
(* an index past the shrunken length panics.                               *)
(***************************************************************************)
Lapsed(id, t) == id \in t \cap expired
NeverStale(id, t) == FALSE
Stale(id, t) == id \notin used /\ id \in t \cap expired

ShiftedFrom(data, i, len) ==
    [k \in DOMAIN data |-> IF k >= i /\ k < len THEN data[k + 1] ELSE data[k]]

UpdateLoop(t) ==
    LET loop[i \in 0 .. Len(downloadsQueue)] ==
        IF i = 0
        THEN [data |-> downloadsQueue, len |-> Len(downloadsQueue), gone |-> {}, panic |-> FALSE]
        ELSE LET p  == loop[i - 1]
                 id == p.data[i]
             IN  IF p.panic \/ ~Stale(id, t) THEN p
                 ELSE IF i > p.len
                 THEN [p EXCEPT !.gone = @ \cup {id}, !.panic = TRUE]
                 ELSE [data |-> ShiftedFrom(p.data, i, p.len), len |-> p.len - 1,
                       gone |-> p.gone \cup {id}, panic |-> FALSE]
    IN loop[Len(downloadsQueue)]

KeepsKeys(gone)   == downloads
WithoutKeys(gone) == downloads \ gone

UpdateQueue(c) ==
    LET end == UpdateLoop(pc[c].t) IN
    /\ InSection(c, "update")
    /\ downloads' = WithoutKeys(end.gone)
    /\ downloadsQueue' = SubSeq(end.data, 1, end.len)
    /\ IF end.panic
       THEN pc' = [pc EXCEPT ![c] = [at |-> "panicked"]] /\ UNCHANGED wlock
       ELSE pc' = [pc EXCEPT ![c] = [at |-> "insert"]] /\ wlock' = NoCall
    /\ UNCHANGED <<uploads, used, expired, rlocks>>

(***************************************************************************)
(* The rest of RequestDownload.  The loop that looks for a free id tests   *)
(* once, before its first iteration, so it never ends if the id is taken.  *)
(***************************************************************************)
RequestDownload(c, id) ==
    /\ InSection(c, "insert")
    /\ id \notin downloads
    /\ downloads' = downloads \cup {id}
    /\ downloadsQueue' = Append(downloadsQueue, id)
    /\ used' = used \ {id}
    /\ expired' = expired \ {id}
    /\ wlock' = NoCall
    /\ pc' = [pc EXCEPT ![c] = Idle]
    /\ UNCHANGED <<uploads, rlocks>>

RequestDownloadSpins(c, id) ==
    /\ InSection(c, "insert")
    /\ id \in downloads
    /\ pc' = [pc EXCEPT ![c] = [at |-> "spinning"]]
    /\ UNCHANGED <<uploads, links, wlock, rlocks>>

(***************************************************************************)
(* Download: the lookup under RLock.  A link that is found is counted as   *)
(* used and the lock is given back; an unknown id returns at once.         *)
(***************************************************************************)
LookedUp(c) == pc[c].at = "download" /\ wlock = NoCall

DownloadFound(c) ==
    /\ LookedUp(c)
    /\ pc[c].id \in downloads
    /\ used' = used \cup {pc[c].id}
    /\ pc' = [pc EXCEPT ![c] = Idle]
    /\ UNCHANGED <<uploads, downloads, downloadsQueue, expired, wlock, rlocks>>

LeftLocked   == IF rlocks < MaxLeaks THEN rlocks + 1 ELSE rlocks

DownloadUnknown(c) ==
    /\ LookedUp(c)
    /\ pc[c].id \notin downloads
    /\ rlocks' = LeftLocked
    /\ pc' = [pc EXCEPT ![c] = Idle]
    /\ UNCHANGED <<uploads, links, wlock>>

(***************************************************************************)
(* An hour passes.                                                         *)
(***************************************************************************)
Expire(id) ==
    /\ id \in (downloads \cap Lapsing) \ expired
    /\ expired' = expired \cup {id}
    /\ UNCHANGED <<uploads, downloads, downloadsQueue, used, wlock, rlocks, pc>>

Section(c) ==
    \/ AddUpload(c)
    \/ UpdateQueue(c)
    \/ \E id \in Id : RequestDownload(c, id) \/ RequestDownloadSpins(c, id)

Lookup(c) == DownloadFound(c) \/ DownloadUnknown(c)

LinksNext ==
    \/ \E c \in Call :
         \/ \E id \in UploadId : ArriveUpload(c, id)
         \/ \E id \in Id : ArriveDownload(c, id)
         \/ ArriveAddDownload(c)
         \/ Lock(c) \/ Section(c) \/ Lookup(c)
    \/ \E id \in Id : Expire(id)

LinksSpec == LinksInit /\ [][LinksNext]_linkVars

(***************************************************************************)
(* A goroutine that holds the lock goes on; one that waits for it is not   *)
(* starved, which sync.RWMutex guarantees.                                 *)
(***************************************************************************)
Fairness ==
    \A c \in Call :
        WF_linkVars(Section(c)) /\ SF_linkVars(Lock(c)) /\ SF_linkVars(Lookup(c))

FairSpec == LinksSpec /\ Fairness
-----------------------------------------------------------------------------
(***************************************************************************)
(* Properties.                                                             *)
(***************************************************************************)
\* Whenever the lock is free, the map of links and the queue that expiry works
\* from hold the same links, each once.
QueueIsMap ==
    wlock = NoCall =>
        /\ ToSet(downloadsQueue) = downloads
        /\ Len(downloadsQueue) = Cardinality(downloads)

\* A link somebody has used is never taken away from him, whatever the clock.
UsedLinksStay ==
    [][\A id \in downloads \cap used : id \in downloads']_linkVars

\* UpdateQueue removes an expired link if it is the only one, wherever it is in
\* the queue, and goes on.  (It may skip or panic over a second one: removing
\* moves the slice under the loop.)
LoneExpiredGoes ==
    [][\A c \in Call : pc[c].at = "update" /\ pc'[c].at # "update" =>
            \A id \in downloads : (downloads \ used) \cap expired \cap pc[c].t = {id} =>
                downloads' = downloads \ {id} /\ pc'[c].at = "insert"]_linkVars

LockLost == rlocks > 0 \/ \E c \in Call : pc[c].at \in {"panicked", "spinning"}

\* Every request is answered unless an unknown id, a panic of UpdateQueue or a
\* collision of ids has left the lock held: no other way out of the handlers and
\* no order of readers and writers makes a request wait for ever.
CallsReturnOrLockLost ==
    \A c \in Call : (pc[c] # Idle) ~> (pc[c] = Idle \/ LockLost)
=============================================================================
