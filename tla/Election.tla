------------------------------ MODULE Election ------------------------------
(***************************************************************************)
(* Terms, votes and election timers of the masters (raft/raft.go).  The    *)
(* logs are at rest: LastLog gives what lastLogIndexAndTerm returns, and   *)
(* heartbeats carry a term and nothing else.                               *)
(*                                                                         *)
(* A step is what a goroutine does between two points where another one    *)
(* may run: the stretch it holds cm.mu, or, where the code drops the mutex *)
(* and goes on writing, each part of that.  Three places do:               *)
(*   - runElectionTimer unlocks and calls startElection, which loads,      *)
(*     increments and stores currentTerm without the mutex;                *)
(*   - RequestVote defers becomeFollower before it defers the unlock, so   *)
(*     the unlock runs first;                                              *)
(*   - the goroutine that counts the deciding vote unlocks and then calls  *)
(*     startLeader.                                                        *)
(* electing, the phase "deferred" of a call and winning record a goroutine *)
(* in the middle of one of them.                                           *)
(*                                                                         *)
(* A call stays in rvs or aes until its reply is processed; one that is    *)
(* never taken is lost or timed out.  Durations are left out: a timer may  *)
(* fire whenever the checks of its loop allow.                             *)
(***************************************************************************)
EXTENDS RaftLog

CONSTANTS Server,       \* ids of the masters
          PeersOf,      \* peerIds of each of them
          LastLog,      \* last log index and term of each of them
          FirstLeader,  \* the master that leads in term 1, or None
          None,
          Campaigner,   \* bound: the masters whose timers may expire
          MaxTerm,      \* bound on the terms elections are started for
          MaxHeartbeats \* bound on the heartbeats in flight

ASSUME ServerAssumption == IsFiniteSet(Server)
ASSUME PeersAssumption == PeersOf \in [Server -> SUBSET Server]
ASSUME LogAssumption == LastLog \in [Server -> [index : Nat, term : Nat]]
ASSUME FirstAssumption == FirstLeader \in Server \cup {None} /\ None \notin Server
ASSUME BoundAssumption == MaxTerm \in Nat \ {0} /\ MaxHeartbeats \in Nat

VARIABLES
    state, currentTerm, votedFor, currentLeader,
    timers,    \* per master, what its runElectionTimer goroutines started with
    electing,  \* per master, the progress of a startElection
    votes,     \* per master and term, voteReceived of each election it started for it
    winning,   \* per master, how many goroutines are about to call startLeader
    rvs,       \* RequestVote calls
    aes        \* AppendEntries calls

vars == <<state, currentTerm, votedFor, currentLeader, timers, electing, votes,
          winning, rvs, aes>>
roleVars == <<state, currentTerm, votedFor, currentLeader, timers>>

Term == 0 .. MaxTerm

(***************************************************************************)
(* A timer goroutine that has been spawned and has not read currentTerm,   *)
(* and the two stages of startElection: called, and currentTerm loaded.    *)
(***************************************************************************)
Unread     == -1
NoElection == [stage |-> "none", loaded |-> 0]
Due        == [stage |-> "due", loaded |-> 0]
Loaded(t)  == [stage |-> "loaded", loaded |-> t]

(***************************************************************************)
(* The masters have just started and joined each other, each with its      *)
(* first timer; or FirstLeader has led them all in term 1 for a while.     *)
(***************************************************************************)
FirstTerm == IF FirstLeader = None THEN 0 ELSE 1

Init ==
    /\ state = [i \in Server |-> IF i = FirstLeader THEN "LEADER" ELSE "FOLLOWER"]
    /\ currentTerm = [i \in Server |-> FirstTerm]
    /\ votedFor = [i \in Server |-> IF i = FirstLeader THEN i ELSE None]
    /\ currentLeader = [i \in Server |-> FirstLeader]
    /\ timers = [i \in Server |-> IF i = FirstLeader THEN {} ELSE {FirstTerm}]
    /\ electing = [i \in Server |-> NoElection]
    /\ votes = [i \in Server |-> [t \in Term |-> <<>>]]
    /\ winning = [i \in Server |-> 0]
    /\ rvs = {}
    /\ aes = {}

(***************************************************************************)
(* becomeFollower: writes all of it, whatever the current term is, and     *)
(* spawns a timer.                                                         *)
(***************************************************************************)
LeaderStays(i, term, leader) ==
    IF state[i] = "LEADER"
    THEN UNCHANGED roleVars
    ELSE /\ state' = [state EXCEPT ![i] = "FOLLOWER"]
         /\ currentTerm' = [currentTerm EXCEPT ![i] = term]
         /\ currentLeader' = [currentLeader EXCEPT ![i] = leader]
         /\ votedFor' = [votedFor EXCEPT ![i] = None]
         /\ timers' = [timers EXCEPT ![i] = @ \cup {Unread}]

StartsNoTimer(i, term, leader) ==
    /\ state' = [state EXCEPT ![i] = "FOLLOWER"]
    /\ currentTerm' = [currentTerm EXCEPT ![i] = term]
    /\ currentLeader' = [currentLeader EXCEPT ![i] = leader]
    /\ votedFor' = [votedFor EXCEPT ![i] = None]
    /\ UNCHANGED timers

becomeFollower(i, term, leader) ==
    /\ state' = [state EXCEPT ![i] = "FOLLOWER"]
    /\ currentTerm' = [currentTerm EXCEPT ![i] = term]
    /\ currentLeader' = [currentLeader EXCEPT ![i] = leader]
    /\ votedFor' = [votedFor EXCEPT ![i] = None]
    /\ timers' = [timers EXCEPT ![i] = @ \cup {Unread}]

(***************************************************************************)
(* runElectionTimer: the goroutine reads termStarted; it ends on a tick at *)
(* which the master leads or the term has changed; it times out.           *)
(***************************************************************************)
ReadTermStarted(i) ==
    /\ Unread \in timers[i]
    /\ timers' = [timers EXCEPT ![i] = (@ \ {Unread}) \cup {currentTerm[i]}]
    /\ UNCHANGED <<state, currentTerm, votedFor, currentLeader, electing, votes,
                   winning, rvs, aes>>

TimerEnds(i, t) ==
    /\ t \in timers[i] \ {Unread}
    /\ state[i] = "LEADER" \/ t # currentTerm[i]
    /\ timers' = [timers EXCEPT ![i] = @ \ {t}]
    /\ UNCHANGED <<state, currentTerm, votedFor, currentLeader, electing, votes,
                   winning, rvs, aes>>

TimerExpires(i, t) ==
    /\ i \in Campaigner
    /\ t \in timers[i] \ {Unread}
    /\ state[i] \in {"CANDIDATE", "FOLLOWER"}
    /\ t = currentTerm[i]
    /\ electing[i] = NoElection
    /\ currentTerm[i] < MaxTerm
    /\ timers' = [timers EXCEPT ![i] = @ \ {t}]
    /\ electing' = [electing EXCEPT ![i] = Due]
    /\ UNCHANGED <<state, currentTerm, votedFor, currentLeader, votes, winning, rvs, aes>>

(***************************************************************************)
(* startElection, without cm.mu: up to the load of currentTerm, and from   *)
(* its store on.  No new timer is started.  A master that has fallen back  *)
(* to a lower term may start another election for the same one: the calls  *)
(* of each share a counter of their own.                                   *)
(***************************************************************************)
BeginElection(i) ==
    /\ electing[i] = Due
    /\ currentTerm[i] < MaxTerm
    /\ state' = [state EXCEPT ![i] = "CANDIDATE"]
    /\ electing' = [electing EXCEPT ![i] = Loaded(currentTerm[i])]
    /\ UNCHANGED <<currentTerm, votedFor, currentLeader, timers, votes, winning, rvs, aes>>

AsksForTermAfter(i, p, t, n) ==
    [from |-> i, to |-> p, term |-> t + 1, round |-> n, phase |-> "req", rterm |-> 0, granted |-> FALSE]

RequestVoteCall(i, p, t, n) ==
    [from |-> i, to |-> p, term |-> t, round |-> n, phase |-> "req", rterm |-> 0, granted |-> FALSE]

NextTerm(t) == t + 1

startElection(i) ==
    /\ electing[i].stage = "loaded"
    /\ LET t == NextTerm(electing[i].loaded) IN
       /\ currentTerm' = [currentTerm EXCEPT ![i] = t]
       /\ votes' = [votes EXCEPT ![i][t] = Append(@, 1)]
       /\ rvs' = rvs \cup {RequestVoteCall(i, p, t, Len(votes[i][t]) + 1) : p \in PeersOf[i]}
    /\ votedFor' = [votedFor EXCEPT ![i] = i]
    /\ winning' = IF PeersOf[i] = {} THEN [winning EXCEPT ![i] = @ + 1] ELSE winning
    /\ electing' = [electing EXCEPT ![i] = NoElection]
    /\ UNCHANGED <<state, currentLeader, timers, aes>>

(***************************************************************************)
(* RequestVote.  The check of votedFor comes before becomeFollower clears  *)
(* it, and a granted vote is not recorded in it.                           *)
(***************************************************************************)
LogUnchecked(req, own) == TRUE
LogUpToDate(req, own)  == AtLeastAsUpToDate(req, own)

RequestVote(m) ==
    LET i == m.to
        t == IF m.term > currentTerm[i] THEN m.term ELSE currentTerm[i]
        g == /\ t = m.term
             /\ votedFor[i] \in {None, m.from}
             /\ LogUpToDate(LastLog[m.from], LastLog[i])
    IN
    /\ m.phase = "req"
    /\ currentTerm' = [currentTerm EXCEPT ![i] = t]
    /\ rvs' = (rvs \ {m}) \cup
              {[m EXCEPT !.phase = IF m.term > currentTerm[i] THEN "deferred" ELSE "resp",
                         !.rterm = t, !.granted = g]}
    /\ UNCHANGED <<state, votedFor, currentLeader, timers, electing, votes, winning, aes>>

RequestVoteDeferred(m) ==
    /\ m.phase = "deferred"
    /\ becomeFollower(m.to, m.term, m.from)
    /\ rvs' = (rvs \ {m}) \cup {[m EXCEPT !.phase = "resp"]}
    /\ UNCHANGED <<electing, votes, winning, aes>>

(***************************************************************************)
(* startElection, the goroutine of one peer after the RPC.                 *)
(***************************************************************************)
Wins(i, n) == n * 2 > Cardinality(PeersOf[i]) + 1

IgnoreVote(m) ==
    /\ m.phase = "resp"
    /\ \/ state[m.from] # "CANDIDATE"
       \/ m.rterm = m.term /\ ~m.granted
    /\ rvs' = rvs \ {m}
    /\ UNCHANGED <<roleVars, electing, votes, winning, aes>>

VoteTermExpired(m) ==
    /\ m.phase = "resp" /\ state[m.from] = "CANDIDATE"
    /\ m.rterm > m.term
    /\ becomeFollower(m.from, m.rterm, m.to)
    /\ rvs' = rvs \ {m}
    /\ UNCHANGED <<electing, votes, winning, aes>>

CountVote(m) ==
    LET i == m.from
        n == votes[i][m.term][m.round] + 1
    IN
    /\ m.phase = "resp" /\ state[i] = "CANDIDATE"
    /\ m.rterm = m.term /\ m.granted
    /\ votes' = [votes EXCEPT ![i][m.term][m.round] = n]
    /\ winning' = IF Wins(i, n) THEN [winning EXCEPT ![i] = @ + 1] ELSE winning
    /\ rvs' = rvs \ {m}
    /\ UNCHANGED <<roleVars, electing, aes>>

(***************************************************************************)
(* startLeader: whatever the state and the term have become meanwhile.     *)
(***************************************************************************)
startLeader(i) ==
    /\ winning[i] > 0
    /\ winning' = [winning EXCEPT ![i] = @ - 1]
    /\ state' = [state EXCEPT ![i] = "LEADER"]
    /\ currentLeader' = [currentLeader EXCEPT ![i] = i]
    /\ UNCHANGED <<currentTerm, votedFor, timers, electing, votes, rvs, aes>>

(***************************************************************************)
(* leaderSendHeartbeats to one peer (bound: MaxHeartbeats calls at once),  *)
(* AppendEntries, the reply, and a call that is lost or times out.         *)
(***************************************************************************)
leaderSendHeartbeats(i, p) ==
    /\ state[i] = "LEADER"
    /\ Cardinality(aes) < MaxHeartbeats
    /\ aes' = aes \cup {[from |-> i, to |-> p, term |-> currentTerm[i], phase |-> "req",
                         rterm |-> 0, rleader |-> None]}
    /\ UNCHANGED <<roleVars, electing, votes, winning, rvs>>

StepsDownFor(i, term) ==
    \/ term > currentTerm[i]
    \/ term = currentTerm[i] /\ state[i] # "FOLLOWER"

AppendEntries(m) ==
    LET i == m.to IN
    /\ m.phase = "req"
    /\ IF StepsDownFor(i, m.term)
       THEN becomeFollower(i, m.term, m.from)
       ELSE UNCHANGED roleVars
    /\ aes' = (aes \ {m}) \cup
              {[m EXCEPT !.phase   = "resp",
                         !.rterm   = currentTerm'[i],
                         !.rleader = IF m.term < currentTerm[i] THEN currentLeader[i] ELSE None]}
    /\ UNCHANGED <<electing, votes, winning, rvs>>

HeartbeatReply(m) ==
    /\ m.phase = "resp"
    /\ IF m.rterm > m.term
       THEN becomeFollower(m.from, m.rterm, m.rleader)
       ELSE UNCHANGED roleVars
    /\ aes' = aes \ {m}
    /\ UNCHANGED <<electing, votes, winning, rvs>>

HeartbeatFails(m) ==
    /\ aes' = aes \ {m}
    /\ UNCHANGED <<roleVars, electing, votes, winning, rvs>>

Timer(i) ==
    \/ ReadTermStarted(i)
    \/ \E t \in Term : TimerEnds(i, t) \/ TimerExpires(i, t)

Campaign(i) == BeginElection(i) \/ startElection(i)

VoteStep(m) ==
    \/ RequestVote(m) \/ RequestVoteDeferred(m)
    \/ IgnoreVote(m) \/ VoteTermExpired(m) \/ CountVote(m)

HeartbeatStep(m) == AppendEntries(m) \/ HeartbeatReply(m)

Next ==
    \/ \E i \in Server : Timer(i) \/ Campaign(i) \/ startLeader(i)
    \/ \E i \in Server : \E p \in PeersOf[i] : leaderSendHeartbeats(i, p)
    \/ \E m \in rvs : VoteStep(m)
    \/ \E m \in aes : HeartbeatStep(m) \/ HeartbeatFails(m)

Spec == Init /\ [][Next]_vars

(***************************************************************************)
(* Goroutines run, timers that may expire do, votes are answered, and the  *)
(* network lets one of infinitely many heartbeats to a peer through.       *)
(***************************************************************************)
Fairness ==
    /\ \A i \in Server :
          /\ WF_vars(Timer(i) \/ Campaign(i) \/ startLeader(i))
          /\ WF_vars(\E m \in rvs : m.from = i /\ VoteStep(m))
          /\ \A p \in PeersOf[i] :
                /\ SF_vars(leaderSendHeartbeats(i, p))
                /\ SF_vars(\E m \in aes : m.from = i /\ m.to = p /\ HeartbeatStep(m))

FairSpec == Spec /\ Fairness
-----------------------------------------------------------------------------
(***************************************************************************)
(* Properties.                                                             *)
(***************************************************************************)
\* Every variable keeps the shape its Go counterpart has, and no term exceeds
\* those elections were started for.
TypeOK ==
    /\ state \in [Server -> {"FOLLOWER", "LEADER", "CANDIDATE"}]
    /\ currentTerm \in [Server -> Term]
    /\ votedFor \in [Server -> Server \cup {None}]
    /\ currentLeader \in [Server -> Server \cup {None}]
    /\ timers \in [Server -> SUBSET (Term \cup {Unread})]
    /\ electing \in [Server -> {NoElection, Due} \cup {Loaded(t) : t \in 0 .. MaxTerm - 1}]
    /\ votes \in [Server -> [Term -> Seq(Nat)]]
    /\ winning \in [Server -> Nat]
    /\ rvs \subseteq [from : Server, to : Server, term : Term, round : Nat,
                      phase : {"req", "deferred", "resp"}, rterm : Term, granted : BOOLEAN]
    /\ aes \subseteq [from : Server, to : Server, term : Term,
                      phase : {"req", "resp"}, rterm : Term, rleader : Server \cup {None}]

\* A follower is never left without a way to notice a dead leader: a timer of
\* its term, one about to read the term, or a goroutine that will start one.
\* The exception is a master whose own startElection was overtaken by
\* becomeFollower and stored the vote for itself afterwards.
FollowerHasTimer ==
    \A i \in Server : state[i] = "FOLLOWER" /\ votedFor[i] # i =>
        \/ timers[i] \cap {Unread, currentTerm[i]} # {}
        \/ electing[i] # NoElection
        \/ \E m \in rvs : m.to = i /\ m.phase = "deferred"

\* The election restriction: a master that was elected is at least as up to date
\* as a majority of the masters it counts, itself included, although votes of an
\* earlier election may still be counted.
ElectionRestriction ==
    \A i \in Server : (state[i] = "LEADER" \/ winning[i] > 0) /\ i # FirstLeader =>
        Wins(i, Cardinality({p \in PeersOf[i] : AtLeastAsUpToDate(LastLog[i], LastLog[p])}) + 1)

TwoLeaders ==
    \E i \in Server : \E j \in PeersOf[i] \ {i} : state[i] = "LEADER" /\ state[j] = "LEADER"

\* Two masters that know each other do not both go on leading, in one term or in
\* two: a heartbeat, the reply to one or a request for votes makes one of them a
\* follower.
SplitBrainHeals == TwoLeaders ~> ~TwoLeaders

\* Raft's election safety: at most one leader in a term.
ElectionSafety ==
    \A i, j \in Server :
        state[i] = "LEADER" /\ state[j] = "LEADER" /\ currentTerm[i] = currentTerm[j] => i = j
=============================================================================
