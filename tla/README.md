# SDFS in TLA+

A verification development for SDFS, a distributed file system in Go: masters
that keep the namespace and replicate cluster membership with a Raft-like
protocol, and data nodes that store contents by their SHA-256. The modules
below model the parts of the code that hold state and run concurrently, TLC
checks them on small instances, and TLAPS proves the central invariants for
all instances. `PROJECT.json` is the machine-readable index: which definition
models which lines, which run checks which property, which mutation of the code
each property catches.

## 1. The system

| part | state | operations | how it meets the others |
|---|---|---|---|
| log replication, `raft/raft.go` | `log`, `commitIndex`, `nextIndex`, `matchIndex`, `peerIds` under `cm.mu` | `Submit`, `leaderSendHeartbeats`, `AppendEntries` | one goroutine per peer and 150 ms tick, 300 ms timeout: calls overlap; `AppendEntries` executes entries while it holds `cm.mu` |
| election, `raft/raft.go` | `state`, `currentTerm`, `votedFor`, `currentLeader`, election timers | `runElectionTimer`, `startElection`, `RequestVote`, `startLeader`, `becomeFollower` | timers, votes and heartbeats race; three places drop `cm.mu` and go on writing |
| membership, `raft/server.go`, `addServer.go`, `addNode.go` | `peers`, `peerAddr`, `nodes`, `nodeAddr` | `RegisterMaster`, `NewServer`, `UpdateNode`, the executors | submits entries to the log; executors change the peer list |
| metadata, `sdfs/fs.go`, `sdfs/file.go` | directory tree, `ChecksumDB`, `File` objects with a replica count and a location list | `AddFile`, `GetFile`, `DeleteFile` | `FinishUpload` adds, HTTP handlers delete; three kinds of mutex |
| hash store, `sdfs/hashstore.go` | `s`, `Size`, per content `OpenCount`, `ReplicaCount` | `Add`, `Get`, `Remove` | the node's `Upload`, `Download`, `Delete` |
| links, `router/download.go`, `router/node.go` | `uploads`, `downloads`, `downloadsQueue` under `Router.mu` | `AddUpload`, `AddDownload` (`UpdateQueue`, `RequestDownload`), `Download` | the master asks for a link and hands it to the client |
| upload manager, `raft/upload.go` | `uploads`, `pending`, heap of nodes | `AddUpload`, `FinishUpload` | calls the data node while it holds its mutex; the node calls back |
| master handlers, `router/master.go` | none of their own | upload, download, delete, callbacks, redirects | metadata + upload manager + data nodes |
| node registry, `raft/server.go`, `router/master.go`, `pkg/pqueue` | maps from ids and addresses to nodes, a heap ordered by free disk space | `HeartbeatHandler`, `UpdateNode`; `Push`, `First`, `Pop` | heartbeats of data nodes register them, submit log entries and change priorities in place; `AddUpload` asks for `First` |
| range requests, `router/context.go`, `router/node.go` | none of their own | `ParseRange`, the end of `Download` | the driver and other HTTP clients ask; a refused header leaves `OpenCount` raised |
| replica manager, `raft/replica.go` | task queue, tickets | `AddTask`, poller, `ExecuteTask` | nothing starts it |
| client driver, `driver/` | `f_offset`, `f_pos`, the buffer | `Open`, `Read`, `Seek`, `flushBuffer` | HTTP to a master for a link, then to a node for ranges |

What is hard here: heartbeats and replies that overtake each other; unlocked
stretches in the election code; checks made under one mutex and acted on under
another (`AddFile`, `DeleteFile`); counts that must agree with sets
(`SemaphoreReplica`, `ReplicaCount`, `OpenCount`, `Size`); locks that an early
return leaves held; timers that must be replaced when they end; indices a leader
keeps from one reign to the next, and requests that outlive the reign they were
sent in; a buffer that a broken-off request has half overwritten.

What makes each part correct:

* replication: follower logs are prefixes of the leader's; `nextIndex` stays in
  the log; commits are held by a majority; everything is committed in the end;
  handlers return.
* election: one leader per term; terms grow; up-to-date winners; a follower has
  a timer; someone is elected; split brains heal.
* metadata: the namespace changes by whole puts and removals only; count,
  locations, `ChecksumDB` and entries agree.
* hash store: a content being read stays; the size is the size; deletes are
  refused for a reason.
* several reigns: what was committed stays and is the same everywhere; a log is
  not cut without reason; a returning leader's indices fit its log; nobody is
  counted twice.
* node registry: table, ids and heap agree; a node that keeps reporting becomes
  an upload target; the heap hands nodes out by free space.
* driver and ranges: the bytes read are the bytes of the file at that offset;
  nothing beyond the file is sent; a reader is counted out.
* links: expired links go, used ones stay, every request is answered.
* uploads and deletes: one upload per path, hosts that hold what they are listed
  for, no acknowledged upload without data.

## 2. Modules

| module | models | actions correspond to |
|---|---|---|
| `RaftLog` | pure operators: serialising, up-to-dateness, the merge in `AppendEntries`, executors, the commit rule | (used by the next three) |
| `Replication` | log replication and membership under one leader | a goroutine up to the RPC, the handler, the goroutine after the RPC; `RegisterMaster` and `NewServer` split where they drop or lack the mutex |
| `Election` | terms, votes, timers, roles | the stretches between two points where another goroutine may run |
| `Reigns` | elections and replication composed, over several reigns with several leaders | a whole election; a goroutine up to the RPC, the handler, the goroutine after the RPC; `RegisterMaster` on any master, `UpdateNode` on a leader |
| `Namespace` | abstract specification: a map from places to contents | put at a free place, remove |
| `FS` | `sdfs.FS` | the stretches of `AddFile` and `DeleteFile` between mutexes |
| `HashStore` | `sdfs.HashStore` under its handlers | the copy, the locked part of `Add`, `Get`, the end of a download, `Remove`, a restart |
| `DownloadLinks` | `Router.mu` and what it protects | arrival, announcement of a writer, each critical section |
| `Cluster` | upload manager, master handlers and data nodes together | `AddUpload`; the post of the data; `FinishUpload` split after `AddFile` and after `GetFile`; `MasterDelete` split at every request to a node and where it drops the file's lock |
| `PQueue` | pure operators: the binary heap, its order and what draining it gives | (used by `Registry`) |
| `Registry` | the data nodes a master knows and the heap of upload nodes | a heartbeat in the four steps its mutexes leave; the gain and loss of the lead; a restart |
| `Ranges` | pure operators: `ParseRange` and what `Download` answers | (used by `Driver`) |
| `Driver` | an open file of the client driver, and the node that answers it and others | `Open`, `Seek`, `Read`, each with its flush, which may be lost, refused or broken off; another client's request |
| `MC*` | constants for TLC | |
| `*Proofs` | theorems | |

Log positions: the code's `cm.log[0]` is a sentinel, so the code's index `i` is
position `i` of the TLA+ sequence, and `len(cm.log) - 1` its length.

### Abstractions

* `Replication` is the regime in which no election timeout fires. Every
  message then carries the leader's term, so message terms are left out. Entry
  terms are kept, because the converters drop them: a follower stores 0 where
  the leader stores its term, `AcceptsPrev` therefore refuses every
  `prevLogIndex > 0`, and the leader walks back to 1.
* Peer lists are bags: `AddServerExecutor` does not look for duplicates.
* A follower that blocks with `cm.mu` held is in `stuck` and handles nothing.
* `Election` has logs at rest. Timers of one master with the same term are one
  element of `timers`; one `startElection` of a master runs at a time; the
  counter `voteReceived` belongs to one election, so a master has one per term
  and round, and a late vote counts in the round that asked for it.
  `cm.currentTerm += 1` is a load and a store; reading it back right after the
  store is part of it. `winning` counts the goroutines of a master that are
  about to call `startLeader`: every vote beyond the majority is one more.
* `Reigns` composes what the two modules above keep apart, in coarser steps. An
  election, from the expired timer to the last vote, is one step
  `startElection(i, heard)`, where `heard` is the set of peers whose calls get
  through: the races inside an election are those of `Election`. The calls a
  master had in flight are over by the time it stands for election, since they
  time out after 300 ms and the timer runs for 4 s (0.5 s when re-elections are
  forced). A master that crashes takes no more steps; one that restarts has a
  new id and an empty log (`LoadLog` is not called) and registers again, so it
  is one of `Joiner`, ids that register and are not reached afterwards. A master
  that panics, or that blocks on the nil channel with `cm.mu` held, is in
  `halted`; a follower that hangs in `AddNodeExecutor` is in `blocked`. Neither
  takes another step or answers anybody. `UpdateNode` is one step here, on a
  master that leads to its end.
* `Registry`: a node sends one heartbeat at a time. A redirected heartbeat is
  posted to the gRPC address of a master, without scheme or path, and fails, so
  redirects change nothing. An id is drawn twice at most, and the second draw
  may be anything, taken ids included. `PQueue` has no
  capacity: the slice doubles when it is full.
* `Ranges`: a header is the sequence of its parts, each of them `first-`,
  `-last`, `first-last` or one that does not parse. The status 206 that
  `Download` sets is never written, so a range is answered with 200.
* `Driver`: a byte is its offset in the file, so that `buf` shows which byte sits
  where. `Read` puts what it takes into a `bytes.Buffer` behind `p` and returns
  0; the model has what it takes, not what the caller sees. The driver and the
  other clients share nothing but `OpenCount`, so the others come before `Open`.
* `FS` identifies a path with the place it walks to; several spellings walk to
  one place, and `Paths()` knows one of them. Directories are created on
  demand and never removed, and sizes are always 0 since `AddFile` passes 0.
  The two map writes after `f.mu.Unlock()` in `AddFile` are one step; in Go
  they are a data race that may also abort the process. `MasterDelete` holds
  the file's mutex while it talks to nodes: its effect, a `TryLock` that fails,
  is the same as that of another `DeleteFile`.
* `HashStore` leaves out the data on disk: it is there before the entry, and
  `Remove` does not delete it. After a restart handlers use an empty
  `sdfs.Hs`; `LoadHS` fills `node.HS`, which only the size report reads.
* `DownloadLinks`: `sync.RWMutex` is `wlock` (the writer that has announced or
  holds) and `rlocks` (read locks held; those left behind are never given
  back, and the count stops at `MaxLeaks`). A panic in a handler ends the
  request and leaves the lock, since no section unlocks by `defer`.
* `Cluster` uses the namespace and the hash stores at the grain of whole calls;
  `FS` and `HashStore` take those apart. It has one leader, so callbacks are not
  redirected. Of the heap it keeps the top, the only part `AddUpload` reads:
  a push makes the new node the top or leaves the old one, depending on free
  space that heartbeats change in place. Ids do not repeat. That a node knows an
  announced id is left out, because `Upload` does not look. A delete that is
  refused (the content is being downloaded, or is not there) and one that is
  lost are the same to the master and are one action.

### History variables

Some properties hold only until something has happened that the code does not
prevent. The model lets it happen, a variable that no guard reads remembers it,
and the property has it as its premise, so that runs and theorems are about all
behaviours of the code and need no assumption on its callers:

| variable | remembers | premise of |
|---|---|---|
| `FS!history` | a call that spelled a path in another way, or two `DeleteFile` of one place that overlapped | `FilesAgree`, `AddedIsThere` |
| `Cluster!overlapped` | the paths of which two `MasterDelete` overlapped | `OwnHostsHold`, `SuccessIsStored` |
| `Reigns!cut` | the masters whose log was replaced in part | `StaleOnlyAfterCut`, `TwiceOnlyAfterCut` |
| `Registry!twice` | the nodes whose id was the second draw of another one | `IdNamesNode` |
| `Registry!refused` | the nodes whose first heartbeat was refused by `Submit` | `KnownIsOffered`, `NodeRegistered` |

## 3. Runs

Deadlock checking is off where the system may rest: replication, election and
the reigns when the bounds on joins, terms and calls are used up, `links`
because blocked for ever is what it contains, and `cluster`, where failed
requests may have reserved every path.

| run | instance | shows |
|---|---|---|
| `replication` | two masters and a storage node join; one master has two heartbeat calls in flight, the other cannot be reached | prefix logs, every index within the log it points into, majority commits, peers listed once; the reachable follower commits everything or stops in the `AddNode` executor, and nowhere else |
| `election` | three masters that know each other, after a term of one of them; all may campaign | every follower has, or gets, an election timer; winners are up to date |
| `election_heal` | the same, one campaigner, fairness | two leaders do not last |
| `reigns` | three founding masters, three ids that join later, a data node that registers with either of two leaders, up to three reigns, two leaders in one term, a leader that is deposed and leads again | a log is cut only from an entry its own master has submitted; as long as that has not happened, the indices of an earlier reign still fit the logs, nobody panics or sends on the nil channel, and nobody who goes on counts a peer twice; every logged master is a peer. All of it with followers that hang on the `AddNode` entry |
| `fs` | one `AddFile` and two `DeleteFile` at a time, of one place too; two places, one of them with a second spelling; two contents | the calls implement `Namespace` in all cases; counts, locations, `ChecksumDB` and entries agree, and an added file is there, until a path is spelled in another way or two deletes of a place overlap |
| `hashstore` | two uploads, two downloads, deletes, restarts; one content is asked for with bad Range headers | sizes, readers and deletes agree |
| `links` | two requests at a time, three links of which two may lapse, unknown ids, id collisions | map and queue agree, used links stay, a lone expired one goes, and a request waits for ever only behind one of the three known lost locks |
| `cluster` | three paths, one with a content of its own, one that is given two, of which it shares one with the third; two nodes, two uploads, three posts, two deletes at a time, of one path too; requests, callbacks and answers are lost | one upload per path; a path has a host to download from; the hosts of the first path hold its content, and a client that is told of success has its data stored, until two deletes of that path overlap |
| `registry` | four nodes, three with constant free space and one that changes; two heartbeats at a time; two ids to draw, so that draws collide once and twice; the lead comes and goes, the master restarts | table, ids and heap agree, but for ids that a second draw has taken; `First` has most space while free space is constant; draining an ordered heap gives its nodes in order; a node that keeps reporting to a master that keeps leading is offered for uploads, unless `Submit` turned it away before |
| `driver` | files of 0, 1, 5 and 6 bytes, a buffer of 2; offsets -1 to 8; 29 headers of other clients | the buffer holds the file at `f_offset` after a flush that succeeded; a range is answered with its bytes and at most one more, nothing beyond the file is sent; the driver leaves a reader counted only at the end of a file |

Runs that show a disagreement between the code and what its documentation says
(each is a finding in `PROJECT.json`):

| run | what TLC finds |
|---|---|
| `election_safety` | two leaders in one term: granted votes are not recorded |
| `reigns_commit` | two masters commit different entries at one index: terms do not travel with the entries, and a request of a deposed leader is merged |

Other behaviour the models contain, which the properties leave room for:

* replication and reigns: a follower deadlocks with itself on the first
  `AddNode` entry, in any reign (`OnlyExecutorBlocks` names it as the one place;
  in `Reigns` it is `AddNodeExecutorBlocks`); `NewServer`'s
  unlocked append may lose a peer that `AppendEntries` has just added; a deposed
  leader takes its own entries, returned without terms, for others and executes
  them again, which lists a peer twice; after that its `nextIndex` may lie
  beyond its log and the next heartbeat panics; a newcomer that registers with a
  master that does not lead is known to that master only.
* election: the deferred `becomeFollower` of `RequestVote` may lower a term; a
  candidate is recorded as the current leader; a split vote leaves the
  candidates without a timer, so that nobody may ever be elected.
* metadata: a place added under two spellings is counted twice; two deletes of
  one path that pass `GetFile` together drop the checksum that another path
  needs; either leaves a Location behind that a later `AddFile` takes for the
  entry, so that it returns without one (`history`).
* data nodes: a second expired link is skipped, or makes `UpdateQueue` panic; a
  Range header that is rejected leaves `OpenCount` raised and the content
  undeletable (`ReadersCountedOut` is about all other contents); an unknown link
  id leaves the read lock held and stops the node (`LockLost`); a range is
  answered with a byte too many, and at the end of the file with a
  Content-Length one too large.
* cluster: an upload request that fails reserves its path for ever; deleting one
  of two paths with the same content removes the data of both; a delete whose
  answer is lost leaves a host without the content on the list; an upload to a
  path that holds another content is acknowledged, and makes its node a host of
  a file it does not have; two `MasterDelete` of one path leave it in the
  namespace with a host that has no data, or remove the copy that a new upload
  has just stored (`overlapped`).
* registry: a node whose first heartbeat loses the race with the end of the lead
  is known and never pushed (`refused`); a node whose free space changes leaves
  the heap in no order; a node that draws two taken ids in a row takes the place
  of the second's owner (`twice`).

### Bounds

Two followers and up to three log entries let one follower lag behind the
other and a majority (two of three) form with or without either; two slots are
what two overlapping heartbeats need, more only repeat the overlap. Two terms
are enough for an old and a new election to interfere, and `LedLogs` gives the
three masters three different last entries. Two places, two contents and
three file objects let a content have all its places, lose them and come back
while a delete still holds the old object; `aa` is a second spelling of `a`. The
runs `fs` and `cluster` have a VIEW that leaves out what is written in a File
nothing points to: it is never read again, since `NewFile` writes all of it.
That of `cluster` also leaves out the known nodes once there is no upload left to
grant: only `AddUpload` reads them.
`HashStore` has two contents of different sizes, so that a wrong size shows,
and two uploads and downloads. Three links let one removal shift two others,
and two that lapse reach the skipped and the panicking removal.
Three posts give a path two hosts, so that a delete can fail on one of them, and
an upload that ends meanwhile, or one post that is repeated. `LostReplies` is
the shared content only: `OwnHostsHold` does not survive a delete that
was done and not answered.
`Reigns` starts when the cluster is founded: three masters, of which the first
has led. `x` and `y` join through `s3` and `z` through `s1`, so that two leaders
of one term can write different entries at one index, one of them two; three
terms let `s1` be deposed and lead again. The data node `n` finds `s1` or `s2`
leading, so that its entry stands before, after or between those of masters.
`MaxCalls = 1` still lets a request
outlive the reign it was sent in, because a deposed leader's call ends only when
it is handled or lost. The panic on
the slice is reached; the block on the nil channel is not, since it needs a
leader that was cut below its commit index and sends before it grows again.
Four nodes give the heap three levels and a last left child without a right one;
two ids for them make the second registration collide, or not, and the third
take an id away. Two goroutines about to call `startLeader` are there whenever
both peers of a candidate grant their vote.
A buffer of 2 has a first, a last and no other byte; the sizes are no buffer,
less than one, a whole number of buffers and one byte short of it, and the
headers lie on and around their ends.
File objects, uploads, readers, data nodes and deletes of `cluster` and the two joiners of `s3` are interchangeable and not ordered, which makes the
symmetry sound; the runs with symmetry check no liveness.

### Fairness

* `Replication`: goroutines that are started go on (Go's scheduler), heartbeats
  are sent at every tick, and calls are strongly fair: the network does not
  lose every one of infinitely many.
* `Election`: timers fire, votes are answered, and one of infinitely many
  heartbeats to a peer gets through.
* `DownloadLinks`: a critical section goes on; waiting for the lock is strongly
  fair, since `sync.RWMutex` starves neither readers nor writers.
* `Registry`: every node sends a heartbeat a second and handlers run to their
  end: strong fairness of each node's `Heartbeat`, since it can begin only while
  the master leads. The lead and restarts have no fairness; `NodeRegistered` is
  about behaviours in which the lead is kept from some point on.

## 4. Proofs

| theorem | says |
|---|---|
| `ReplicationProofs!PrefixReplication`, `IndicesFit`, `CallsFitLogs`, `NilChannelUnreached`, `TypeCorrect` | safety of replication for any set of followers, nodes and overlapping calls |
| `ReplicationProofs!CommitHeld`, `PeersOnce` | the leader commits what a majority holds, and no peer list counts anybody twice |
| `ElectionProofs!TimerAlive`, `TypeCorrect` | no follower without a timer, for any masters and peer lists |
| `ElectionProofs!Restriction` | winners are as up to date as a majority of their peers, for any logs |
| `ReignsProofs!OwnEntriesCut`, `StaleIndices`, `LoggedPeers`, `CountedOnceUncut` | all four properties of the run `reigns`, for any masters, joiners, terms and calls in flight |
| `FSProofs!Refinement`, `TypeCorrect` | `FS` implements `Namespace` for any paths, contents and number of deletes |
| `FSProofs!FilesInAgreement`, `AddedIsThereAlways` | counts, locations, `ChecksumDB` and entries agree, and an added file is there, in every behaviour until a path is spelled in another way or two deletes of a place overlap |
| `HashStoreProofs!OpenedStays`, `ReadersOut`, `TypeCorrect` | the store keeps what is being read, and nothing else is kept from deletion, apart from contents asked for with bad Range headers |
| `HashStoreProofs!SizeIsTotal` | `Size` is the total size of the stored contents, for any contents and requests |
| `HashStoreProofs!QueueAndMapAgree`, `UsedStay`, `LoneExpired` | the three safety properties of `DownloadLinks`, for any number of requests and links |
| `ClusterProofs!ExclusiveUploads`, `FilesHaveHosts` | one upload per path and a host for every path, for any paths, nodes, contents, uploads and deletes |
| `ClusterProofs!HostsStoreTheFile`, `SuccessMeansStored` | hosts hold what they are listed for and acknowledged data is stored, in every behaviour, for paths of which no two deletes have overlapped |
| `RegistryProofs!IdsNameNodes` | the id of a known node names that node and no other, for any nodes and draws, unless a second draw took it |
| `RegistryProofs!HeapAndTableAgree`, `FirstHasMost`, `PopsByFreeSpace` | the heap and the table agree, and the heap is a priority queue, for any number of nodes |
| `DriverProofs!BufferIsFile`, `RangesServed`, `Leaks`, `TypeCorrect` | the driver's buffer, the answers to all Range headers, and the readers left counted, for every size of file and buffer |

Assumptions are the named `ASSUME`s of the modules: the leader is not a
follower, terms are numbers, `None` and `NoCall` are no elements, the sets of masters,
followers and readers are finite, founders are distinct masters and joiners are
none of them, headers consist of parts. TLC
evaluates them in every run. No theorem has a premise about what callers do: where
a property holds only until something has happened, the property itself says so,
with a history variable.

*Recursive functions.* The heap operations, the sum of sizes and the loop of
`UpdateQueue` are recursive functions, and the provers take no induction
theorem with an operator for a parameter. The proofs use least counterexamples
instead (`NatMin`: a set of numbers has a least element). That a function which
satisfies the recursive equation exists is shown by building it up from the
smallest arguments (`UpExists`, `DownExists`, `DrainExists`, `SumsExist`,
`LoopExists`); the operator then satisfies the equation (`SiftUpRuns` and the
like), and what it returns follows from the equation alone.

*Replication.* None of the properties is inductive alone. A late success reply
sets `nextIndex` to `ni + n`: that this lies in the log follows only from what
was true when the request was sent. `IndInv` therefore relates every call in
flight to the two logs (`CallsTrackLogs`): a request is a stretch of the
leader's log with erased terms and a commit index that the stretch reaches; a
success reply means the follower holds the stretch; a failure is never an
answer to `ni = 1`, which keeps `ni - 1` at least 1. `StoredTermsErased` (a
follower's entries have term 0) is what makes the merge overwrite nothing that
differs. The commit index in a request never exceeds what the same request
carries, so the branch that sends on the nil channel is dead.

`CommitHeld` reads the commit rule with that: `matchIndex` counts only what a
follower holds, so the peers counted are among those that have the entry.
`PeersOnce` needs `PeersInv`, because `AddServerExecutor` looks for no
duplicates: the leader's log has one `AddServer` entry per master
(`AddServersOnce`), and a peer on a follower's list, or on the slice that
`NewServer` has read and will write back, has its entry in that follower's log
already (`BuiltFrom`), so executing a new entry adds somebody new.

*Election.* `FollowerHasTimer` is inductive together with the types: every
place that makes a follower spawns a timer, a timer that ends does so because
the term changed (and whoever changed it spawns one) or starts an election,
and the unlocked store of `startElection` is the one exception the property
names. `Restriction` needs `VotesBacked`: a counter never exceeds one plus the
number of up-to-date peers whose call in that election is over. It rests on
`CallsOnce`, that an election has at most one call to a peer and that a granted
call was answered by a peer that is not more up to date.

*Reigns.* `StaleOnlyAfterCut` is inductive with what the calls in flight say
(`CallsTrue`). A log that was never cut only grows, so that a stretch or an index
once inside such a log stays inside it; whatever is said about or by a master in
`cut` is left open. Requests carry erased terms, hence a merge replaces only
entries with a term of their own, those the receiver submitted
(`OnlyOwnEntriesCut`). For peer lists, `PeersInv` says that the `AddServer` entry
of a master has one position, the same in every log and every request
(`PlacedOnce`), since `AppendEntries` stores an entry at the index it had; a log
that was not cut has executed it once (`BuiltOnce`; a master that hangs in
`AddNodeExecutor` has executed entries it has not stored, and is left out).
`MatchedEntries`, the number
of entries that agree, is characterised by a least counterexample: that a set of
numbers has a minimum (`NatMin`) takes the place of induction.

*FS.* The refinement needs that an `AddFile` in progress writes to a place that
is free or has the same content, although it checked long before. Only
`AddFile` fills places and there is one at a time; the invariant says that the
place of a checked add is empty or holds its own checksum, that `ChecksumDB`
points to files with the right checksum, and that file objects in use are not
reused.

The counts (`FilesAgree`) hold only as long as a place has had one spelling and
deletes of it have not overlapped (`Regular`). `StrongInvariance` is that
`Regular => StrongInv` is kept: `Regular` is never true again once it is false,
and before that `StrongInv` says that `SemaphoreReplica` is the
number of places of the file, each listed once; that an entry leads to the file
`ChecksumDB` has; that paths in use are canonical and the deletes in progress are
of different places; that the entry a delete has read is still there
(`DeletesHold`); and that a checksum an `AddFile` has not found is still
missing when it is written (`MissStays`).

*HashStore.* `OpenCount` of a file is at least the number of downloads that
hold it. The invariant counts them as the cardinality of a finite set, which
`Get` and `Closed` change by one. For contents that nobody asks for with a bad
Range header the two are equal (`ReadersExact`), which gives `ReadersCountedOut`.
For `SizeAccounted`, the fold over a finite set gives the same total whichever
element is taken out first (`SumsAnyOrder`), so that one content more or less
changes it by the size of that content (`TotalWithout`). The contents in the
store are finitely many at any time, which is part of the invariant (`SizeInv`)
and not an assumption about `Hash`; that `Remove` subtracts what `Add` added is
`HashAgrees`.

*DownloadLinks.* The map and the queue differ after a panic of `UpdateQueue`,
so `LinksInv` says that they agree or the call that holds the lock has panicked.
The loop keeps that the array up to the current length holds the links that are
not gone, each once, and that only stale links are gone (`LoopBodyGood`); it
needs nothing about the array beyond that length. `LoneExpired` follows
the loop exactly: before the expired link nothing changes, and after it the
array holds, moved or not, links that are not expired. The proofs are in
`HashStoreProofs`, with the other state of a data node; that is why the links have
a `LinksInit`, a `LinksNext` and a `LinksSpec`.

*Cluster.* `FinishUpload` clears a path, so the upload it ends must be the only
one with that path, and still known when it ends; `UploadInv` adds that no
upload is taken away while `FinishUpload` runs.
`HostNotEmpty` is inductive with two more facts: whoever holds a file, be it a
path, a delete or a `FinishUpload`, holds one whose content clients upload to
that path (`NamedByContent`); and between `AddFile` and the append of the host
nobody puts another file at the path (`ClientsInStep`). No premise is needed:
contents may be shared and deletes may overlap.
`OwnHostsHold` needs the copies balanced (`OwnCopies`): listings that no delete
has taken over, plus the call that is still to be listed, are at most the copies
in the store; and one file object for the path and its content (`OwnFile`). A
delete keeps that only as long as its file stays the path's, which a second
delete of the path would end. So both are claimed of paths that are not in
`overlapped`, and `ApartInv` says that at most one delete of such a path is under
way; a path enters `overlapped` in the step that starts the second one
(`DeleteRecords`), and no other step changes it (`OnlyDeletesRecord`). Deletes of
the other paths may overlap as they like: `OwnContent` keeps them off the file.

*Registry.* A second draw writes over whatever is at its id: what it takes away
is in `twice`, and a first draw that is free takes nothing, so `IdNamesNode` is
inductive with the types of the two maps.
`KnownIsOffered` needs `Offered`: a node that is entered and not yet pushed is in
the table, and neither in the heap nor refused, so the push enters nobody twice.
`SteadyFirstIsMost` needs that the values in the table and in heartbeats are ones
the node may report (`Reported`), and that a heap of steady nodes is in order
(`SteadyOrdered`). That `Push` and `Pop` keep the order rests on the loop
invariants of a heap: while an item moves up, all is in order but for it and its
parent, and that parent is in order with the item's children (`UpInv`); while it
moves down, all is in order but for it and its children (`DownInv`). Items are
kept because every iteration exchanges two (`Permuted`).

*Driver.* The properties speak of the last answer, which later steps leave alone
and only the size of the file relates to it. `ReplyIsDownload` says that it is
`Download` of its header and the size; what `Download` computes is then a lemma
about arithmetic for any header (`AnswerServesRange`, `AnswerInFile`). The buffer
needs that a whole-buffer header which is accepted starts at the offset and ends
within the file (`WholeBufferAnswer`).

Every inductive invariant was checked by TLC before it was proved, on the
instance of its run.

Checked by TLC only:

* liveness (`EntriesCommitted`, `SplitBrainHeals`, `CallsReturnOrLockLost`,
  `NodeRegistered`), which the prover does not cover.

Every other property of the passing runs is a theorem.

## 5. Not modelled, and the plan

Left out for good:

* generated gRPC code, logging, settings, random strings, the stub monitor,
  start-up of the processes;
* the replica manager (`raft/replica.go`): nothing calls `Start` or `AddTask`
  and its routes are not registered. Its poller looks at the queue once and
  ends, and `ExecuteTask` would panic on a `sync.Map` key that holds slices;
* `raft/file.go`: its command is never registered, so file metadata is not
  replicated; `commitChanSender` (never started), `MustAddFile`, `PQueue`'s `Len`
  and `Clear` (no callers), `LoadLog` (not called);
* the walk of directories in `GetDir` and `AddDir`, beyond the place it ends at;
* `RegisterMaster` with an id that is taken, which returns with `cm.mu` held: ids
  have 31 bits and a master registers once;
* a vote reply with a term below the one asked for, which leaves `cm.mu` held in
  `startElection`: it needs the voter's own unlocked store of an older term
  between two lines of `RequestVote`, which is one step of `Election`;
* redirects to `currentLeader`, which requests for votes overwrite: they fail and
  are tried again by the client.

Planned, in this order:

1. `Cluster` with restarts of data nodes.
2. An abstract lock specification for `DownloadLinks`.
