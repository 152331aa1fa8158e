--------------------------- MODULE ElectionProofs ---------------------------
(***************************************************************************)
(* Type correctness of Election, that a follower is never left without a   *)
(* timer, and the election restriction, for every finite set of masters,   *)
(* every peer lists, logs and bounds.                                      *)
(***************************************************************************)
EXTENDS Election, SequenceTheorems, FiniteSetTheorems, TLAPS

TimerInv == TypeOK /\ FollowerHasTimer

\* Every RequestVote call belongs to an election its master has started.
RoundsKnown == \A m \in rvs : m.round \in 1 .. Len(votes[m.from][m.term])

RoleOK ==
    /\ state \in [Server -> {"FOLLOWER", "LEADER", "CANDIDATE"}]
    /\ currentTerm \in [Server -> Term]
    /\ votedFor \in [Server -> Server \cup {None}]
    /\ currentLeader \in [Server -> Server \cup {None}]
    /\ timers \in [Server -> SUBSET (Term \cup {Unread})]

(***************************************************************************)
(* becomeFollower keeps the types, and afterwards i has a timer.           *)
(***************************************************************************)
LEMMA FollowerStep ==
    ASSUME RoleOK, NEW i \in Server, NEW t \in Term, NEW l \in Server \cup {None},
           becomeFollower(i, t, l)
    PROVE  /\ RoleOK'
           /\ Unread \in timers'[i]
           /\ \A j \in Server \ {i} :
                 /\ state'[j] = state[j] /\ votedFor'[j] = votedFor[j]
                 /\ timers'[j] = timers[j] /\ currentTerm'[j] = currentTerm[j]
BY DEF RoleOK, becomeFollower

LEMMA InitTimer == Init => TimerInv
<1> SUFFICES ASSUME Init PROVE TimerInv
  OBVIOUS
<1>1. FirstTerm \in Term /\ Term \subseteq Nat
  BY BoundAssumption DEF FirstTerm, Term
<1>2. TypeOK
  BY <1>1, FirstAssumption DEF Init, TypeOK
<1>3. FollowerHasTimer
  BY <1>1 DEF Init, FollowerHasTimer
<1> QED
  BY <1>2, <1>3 DEF TimerInv

(***************************************************************************)
(* The timer goroutines and startElection.                                 *)
(***************************************************************************)
LEMMA TimerStep ==
    ASSUME TimerInv, NEW i \in Server, Timer(i)
    PROVE  TimerInv'
<1>1. TypeOK /\ FollowerHasTimer
  BY DEF TimerInv
<1>2. CASE ReadTermStarted(i)
  <2>1. TypeOK'
    BY <1>1, <1>2 DEF ReadTermStarted, TypeOK
  <2>2. FollowerHasTimer'
    BY <1>1, <1>2 DEF ReadTermStarted, TypeOK, FollowerHasTimer
  <2> QED
    BY <2>1, <2>2 DEF TimerInv
<1>3. ASSUME NEW t \in Term, TimerEnds(i, t)
      PROVE  TimerInv'
  <2>1. TypeOK'
    <3>1. timers \in [Server -> SUBSET (Term \cup {Unread})]
      BY <1>1 DEF TypeOK
    <3>2. timers' \in [Server -> SUBSET (Term \cup {Unread})]
      BY <1>3, <3>1 DEF TimerEnds
    <3> QED
      BY <1>1, <1>3, <3>2 DEF TimerEnds, TypeOK
  <2>2. FollowerHasTimer'
    <3>1. timers \in [Server -> SUBSET (Term \cup {Unread})]
      BY <1>1 DEF TypeOK
    <3> QED
      BY <1>1, <1>3, <3>1 DEF TimerEnds, FollowerHasTimer
  <2> QED
    BY <2>1, <2>2 DEF TimerInv
<1>4. ASSUME NEW t \in Term, TimerExpires(i, t)
      PROVE  TimerInv'
  <2>1. TypeOK'
    BY <1>1, <1>4 DEF TimerExpires, TypeOK
  <2>2. Due # NoElection
    BY DEF Due, NoElection
  <2>3. FollowerHasTimer'
    BY <1>1, <1>4, <2>2 DEF TimerExpires, TypeOK, FollowerHasTimer
  <2> QED
    BY <2>1, <2>3 DEF TimerInv
<1> QED
  BY <1>2, <1>3, <1>4 DEF Timer

\* The term of an election is within the bound.
LEMMA ElectionTerm ==
    ASSUME TypeOK, NEW i \in Server
    PROVE  NextTerm(electing[i].loaded) \in Term /\ 0 \in Term
<1>1. electing[i].loaded \in 0 .. MaxTerm - 1
  <2>1. 0 \in 0 .. MaxTerm - 1
    BY BoundAssumption
  <2>2. electing[i] \in {NoElection, Due} \cup {Loaded(u) : u \in 0 .. MaxTerm - 1}
    BY DEF TypeOK
  <2> QED
    BY <2>1, <2>2 DEF NoElection, Due, Loaded
<1> QED
  BY <1>1, BoundAssumption DEF NextTerm, Term

LEMMA CampaignStep ==
    ASSUME TimerInv, NEW i \in Server, Campaign(i)
    PROVE  TimerInv'
<1>1. TypeOK /\ FollowerHasTimer
  BY DEF TimerInv
<1>2. CASE BeginElection(i)
  <2>1. currentTerm[i] \in 0 .. MaxTerm - 1
    BY <1>1, <1>2, BoundAssumption DEF BeginElection, TypeOK, Term
  <2>2. TypeOK'
    BY <1>1, <1>2, <2>1 DEF BeginElection, TypeOK
  <2>3. FollowerHasTimer'
    BY <1>1, <1>2 DEF BeginElection, TypeOK, FollowerHasTimer
  <2> QED
    BY <2>2, <2>3 DEF TimerInv
<1>3. CASE startElection(i)
  <2> DEFINE t == electing[i].loaded + 1
             n == Len(votes[i][t]) + 1
             new == {RequestVoteCall(i, p, t, n) : p \in PeersOf[i]}
  <2>2. t \in Term /\ 0 \in Term
    BY <1>1, ElectionTerm DEF NextTerm
  <2>3. /\ currentTerm' = [currentTerm EXCEPT ![i] = t]
        /\ votes' = [votes EXCEPT ![i][t] = Append(@, 1)]
        /\ rvs' = rvs \cup new
        /\ votedFor' = [votedFor EXCEPT ![i] = i]
        /\ winning' = IF PeersOf[i] = {} THEN [winning EXCEPT ![i] = @ + 1] ELSE winning
        /\ electing' = [electing EXCEPT ![i] = NoElection]
        /\ UNCHANGED <<state, currentLeader, timers, aes>>
    BY <1>3 DEF startElection, NextTerm
  <2> HIDE DEF t
  <2>n. n \in Nat /\ votes[i][t] \in Seq(Nat)
    BY <1>1, <2>2 DEF TypeOK
  <2> HIDE DEF n
  <2>4. new \subseteq [from : Server, to : Server, term : Term, round : Nat,
                       phase : {"req", "deferred", "resp"}, rterm : Term, granted : BOOLEAN]
    <3> SUFFICES ASSUME NEW p \in PeersOf[i]
                 PROVE  RequestVoteCall(i, p, t, n) \in
                            [from : Server, to : Server, term : Term, round : Nat,
                             phase : {"req", "deferred", "resp"}, rterm : Term, granted : BOOLEAN]
      OBVIOUS
    <3>1. p \in Server
      BY PeersAssumption
    <3> QED
      BY <2>2, <2>n, <3>1 DEF RequestVoteCall
  <2> HIDE DEF new
  <2>5. TypeOK'
    <3>1. votes' \in [Server -> [Term -> Seq(Nat)]]
      <4>0. Append(votes[i][t], 1) \in Seq(Nat)
        BY <2>n
      <4>1. PICK q \in Seq(Nat) : q = Append(votes[i][t], 1)
        BY <4>0, Zenon
      <4>2. votes' = [votes EXCEPT ![i][t] = q]
        BY <2>3, <4>1
      <4> QED
        BY <1>1, <2>2, <4>2 DEF TypeOK
    <3>2. electing' \in [Server -> {NoElection, Due} \cup {Loaded(u) : u \in 0 .. MaxTerm - 1}]
      BY <1>1, <2>3 DEF TypeOK
    <3>3. winning' \in [Server -> Nat]
      BY <1>1, <2>3 DEF TypeOK
    <3> QED
      BY <1>1, <2>2, <2>3, <2>4, <3>1, <3>2, <3>3 DEF TypeOK
  <2>6. FollowerHasTimer'
    BY <1>1, <2>3 DEF TypeOK, FollowerHasTimer
  <2> QED
    BY <2>5, <2>6 DEF TimerInv
<1> QED
  BY <1>2, <1>3 DEF Campaign

(***************************************************************************)
(* The steps of a RequestVote call.                                        *)
(***************************************************************************)
RVCall == [from : Server, to : Server, term : Term, round : Nat,
           phase : {"req", "deferred", "resp"}, rterm : Term, granted : BOOLEAN]

LEMMA VoteSteps ==
    ASSUME TimerInv, RoundsKnown, NEW m \in rvs, VoteStep(m)
    PROVE  TimerInv'
<1>1. TypeOK /\ FollowerHasTimer
  BY DEF TimerInv
<1>2. m \in RVCall /\ rvs \subseteq RVCall
  BY <1>1 DEF TypeOK, RVCall
<1>3. /\ m.from \in Server /\ m.to \in Server /\ m.term \in Term /\ m.rterm \in Term
      /\ m.granted \in BOOLEAN
  BY <1>2 DEF RVCall
<1>4. RoleOK
  BY <1>1 DEF TypeOK, RoleOK
<1>5. CASE RequestVote(m)
  <2> DEFINE i == m.to
             t == IF m.term > currentTerm[i] THEN m.term ELSE currentTerm[i]
             g == /\ t = m.term
                  /\ votedFor[i] \in {None, m.from}
                  /\ LogUpToDate(LastLog[m.from], LastLog[i])
             ph == IF m.term > currentTerm[i] THEN "deferred" ELSE "resp"
             r == [m EXCEPT !.phase = ph, !.rterm = t, !.granted = g]
  <2>1. /\ m.phase = "req"
        /\ currentTerm' = [currentTerm EXCEPT ![i] = t]
        /\ rvs' = (rvs \ {m}) \cup {r}
        /\ UNCHANGED <<state, votedFor, currentLeader, timers, electing, votes, winning, aes>>
    BY <1>5 DEF RequestVote
  <2>2. t \in Term
    BY <1>1, <1>3 DEF TypeOK
  <2>3. g \in BOOLEAN
    BY DEF LogUpToDate, AtLeastAsUpToDate
  <2> HIDE DEF g
  <2>4. r \in RVCall /\ r.to = i /\ r.phase = ph
    BY <1>2, <2>2, <2>3 DEF RVCall
  <2>5. m.term > currentTerm[i] \/ t = currentTerm[i]
    OBVIOUS
  <2> HIDE DEF t, r
  <2>6. TypeOK'
    BY <1>1, <1>2, <1>3, <2>1, <2>2, <2>4 DEF TypeOK, RVCall
  <2>7. FollowerHasTimer'
    <3> SUFFICES ASSUME NEW j \in Server, state[j] = "FOLLOWER", votedFor[j] # j
                 PROVE  \/ timers[j] \cap {Unread, currentTerm'[j]} # {}
                        \/ electing[j] # NoElection
                        \/ \E c \in rvs' : c.to = j /\ c.phase = "deferred"
      BY <2>1 DEF FollowerHasTimer
    <3>1. \/ timers[j] \cap {Unread, currentTerm[j]} # {}
          \/ electing[j] # NoElection
          \/ \E c \in rvs : c.to = j /\ c.phase = "deferred"
      BY <1>1 DEF FollowerHasTimer
    <3>2. \A c \in rvs : c.phase = "deferred" => c \in rvs'
      BY <2>1
    <3>3. CASE j = i /\ m.term > currentTerm[i]
      BY <2>1, <2>4, <3>3
    <3>4. CASE ~(j = i /\ m.term > currentTerm[i])
      <4>1. currentTerm'[j] = currentTerm[j]
        BY <1>1, <1>3, <2>1, <2>5, <3>4 DEF TypeOK
      <4> QED
        BY <3>1, <3>2, <4>1
    <3> QED
      BY <3>3, <3>4
  <2> QED
    BY <2>6, <2>7 DEF TimerInv
<1>6. CASE RequestVoteDeferred(m)
  <2> DEFINE r == [m EXCEPT !.phase = "resp"]
  <2>1. /\ becomeFollower(m.to, m.term, m.from)
        /\ rvs' = (rvs \ {m}) \cup {r}
        /\ UNCHANGED <<electing, votes, winning, aes>>
    BY <1>6 DEF RequestVoteDeferred
  <2>2. r \in RVCall
    BY <1>2 DEF RVCall
  <2> HIDE DEF r
  <2>3. /\ RoleOK' /\ Unread \in timers'[m.to]
        /\ \A j \in Server \ {m.to} :
              /\ state'[j] = state[j] /\ votedFor'[j] = votedFor[j]
              /\ timers'[j] = timers[j] /\ currentTerm'[j] = currentTerm[j]
    BY <1>3, <1>4, <2>1, FollowerStep
  <2>4. TypeOK'
    BY <1>1, <1>2, <2>1, <2>2, <2>3 DEF TypeOK, RoleOK, RVCall
  <2>5. FollowerHasTimer'
    BY <1>1, <2>1, <2>3 DEF FollowerHasTimer
  <2> QED
    BY <2>4, <2>5 DEF TimerInv
<1>7. CASE IgnoreVote(m)
  <2>1. TypeOK'
    BY <1>1, <1>7 DEF IgnoreVote, roleVars, TypeOK
  <2>2. FollowerHasTimer'
    BY <1>1, <1>7 DEF IgnoreVote, roleVars, FollowerHasTimer
  <2> QED
    BY <2>1, <2>2 DEF TimerInv
<1>8. CASE VoteTermExpired(m)
  <2>1. /\ m.phase = "resp" /\ becomeFollower(m.from, m.rterm, m.to)
        /\ rvs' = rvs \ {m}
        /\ UNCHANGED <<electing, votes, winning, aes>>
    BY <1>8 DEF VoteTermExpired
  <2>2. /\ RoleOK' /\ Unread \in timers'[m.from]
        /\ \A j \in Server \ {m.from} :
              /\ state'[j] = state[j] /\ votedFor'[j] = votedFor[j]
              /\ timers'[j] = timers[j] /\ currentTerm'[j] = currentTerm[j]
    BY <1>3, <1>4, <2>1, FollowerStep
  <2>3. TypeOK'
    BY <1>1, <2>1, <2>2 DEF TypeOK, RoleOK
  <2>4. FollowerHasTimer'
    BY <1>1, <2>1, <2>2 DEF FollowerHasTimer
  <2> QED
    BY <2>3, <2>4 DEF TimerInv
<1>9. CASE CountVote(m)
  <2>1. TypeOK'
    <3>1. PICK v \in Seq(Nat) : v = votes[m.from][m.term]
      BY <1>1, <1>3 DEF TypeOK
    <3>2. m.round \in 1 .. Len(v)
      BY <3>1 DEF RoundsKnown
    <3>3. PICK q \in Seq(Nat) : q = [v EXCEPT ![m.round] = v[m.round] + 1]
      <4>1. PICK k \in 1 .. Len(v) : k = m.round
        BY <3>2
      <4>2. PICK e \in Nat : e = v[k] + 1
        OBVIOUS
      <4>3. [v EXCEPT ![k] = e] \in Seq(Nat)
        BY ExceptSeq
      <4> QED
        BY <4>1, <4>2, <4>3
    <3>4. votes' = [votes EXCEPT ![m.from][m.term] = q]
      BY <1>1, <1>3, <1>9, <3>1, <3>3 DEF CountVote, TypeOK
    <3>5. votes' \in [Server -> [Term -> Seq(Nat)]]
      BY <1>1, <1>3, <3>4 DEF TypeOK
    <3>6. winning' \in [Server -> Nat]
      <4>1. winning \in [Server -> Nat] /\ [winning EXCEPT ![m.from] = @ + 1] \in [Server -> Nat]
        BY <1>1, <1>3 DEF TypeOK
      <4>2. winning' = winning \/ winning' = [winning EXCEPT ![m.from] = @ + 1]
        BY <1>9 DEF CountVote
      <4> QED
        BY <4>1, <4>2
    <3>7. UNCHANGED <<state, currentTerm, votedFor, currentLeader, timers, electing, aes>> /\ rvs' \subseteq rvs
      BY <1>9 DEF CountVote, roleVars
    <3> QED
      BY <1>1, <3>5, <3>6, <3>7 DEF TypeOK
  <2>2. FollowerHasTimer'
    BY <1>1, <1>9 DEF CountVote, roleVars, FollowerHasTimer
  <2> QED
    BY <2>1, <2>2 DEF TimerInv
<1> QED
  BY <1>5, <1>6, <1>7, <1>8, <1>9 DEF VoteStep

(***************************************************************************)
(* The steps of a leader and of a heartbeat.                               *)
(***************************************************************************)
AECall == [from : Server, to : Server, term : Term,
           phase : {"req", "resp"}, rterm : Term, rleader : Server \cup {None}]

LEMMA LeaderSteps ==
    ASSUME TimerInv, NEW i \in Server,
           startLeader(i) \/ \E p \in PeersOf[i] : leaderSendHeartbeats(i, p)
    PROVE  TimerInv'
<1>1. TypeOK /\ FollowerHasTimer
  BY DEF TimerInv
<1>2. CASE startLeader(i)
  <2>1. TypeOK'
    <3>1. winning[i] \in Nat /\ winning[i] > 0 /\ winning' = [winning EXCEPT ![i] = @ - 1]
      BY <1>1, <1>2 DEF startLeader, TypeOK
    <3>2. winning' \in [Server -> Nat]
      BY <1>1, <3>1 DEF TypeOK
    <3>3. /\ state' = [state EXCEPT ![i] = "LEADER"]
          /\ currentLeader' = [currentLeader EXCEPT ![i] = i]
          /\ UNCHANGED <<currentTerm, votedFor, timers, electing, votes, rvs, aes>>
      BY <1>2 DEF startLeader
    <3> QED
      BY <1>1, <3>2, <3>3 DEF TypeOK
  <2>2. FollowerHasTimer'
    BY <1>1, <1>2 DEF startLeader, TypeOK, FollowerHasTimer
  <2> QED
    BY <2>1, <2>2 DEF TimerInv
<1>3. CASE \E p \in PeersOf[i] : leaderSendHeartbeats(i, p)
  <2>1. PICK p \in PeersOf[i] : leaderSendHeartbeats(i, p)
    BY <1>3
  <2>2. p \in Server /\ currentTerm[i] \in Term /\ 0 \in Term
    BY <1>1, PeersAssumption, BoundAssumption DEF TypeOK, Term
  <2>3. TypeOK'
    <3>1. aes' \subseteq AECall
      BY <1>1, <2>1, <2>2 DEF leaderSendHeartbeats, AECall, TypeOK
    <3> QED
      BY <1>1, <2>1, <3>1 DEF leaderSendHeartbeats, roleVars, TypeOK, AECall
  <2>4. FollowerHasTimer'
    BY <1>1, <2>1 DEF leaderSendHeartbeats, roleVars, FollowerHasTimer
  <2> QED
    BY <2>3, <2>4 DEF TimerInv
<1> QED
  BY <1>2, <1>3

LEMMA HeartbeatSteps ==
    ASSUME TimerInv, NEW m \in aes, HeartbeatStep(m) \/ HeartbeatFails(m)
    PROVE  TimerInv'
<1>1. TypeOK /\ FollowerHasTimer
  BY DEF TimerInv
<1>2. m \in AECall /\ aes \subseteq AECall
  BY <1>1 DEF TypeOK, AECall
<1>3. /\ m.from \in Server /\ m.to \in Server /\ m.term \in Term /\ m.rterm \in Term
      /\ m.rleader \in Server \cup {None}
  BY <1>2 DEF AECall
<1>4. RoleOK
  BY <1>1 DEF TypeOK, RoleOK
<1>5. UNCHANGED <<electing, votes, winning, rvs>>
  BY DEF HeartbeatStep, AppendEntries, HeartbeatReply, HeartbeatFails
<1>6. \/ UNCHANGED roleVars
      \/ \E j \in Server, t \in Term, l \in Server \cup {None} : becomeFollower(j, t, l)
  BY <1>3 DEF HeartbeatStep, AppendEntries, HeartbeatReply, HeartbeatFails
<1>7. RoleOK' /\ FollowerHasTimer'
  <2>1. CASE UNCHANGED roleVars
    BY <1>1, <1>4, <1>5, <2>1 DEF roleVars, RoleOK, FollowerHasTimer
  <2>2. CASE \E j \in Server, t \in Term, l \in Server \cup {None} : becomeFollower(j, t, l)
    <3>1. PICK j \in Server, t \in Term, l \in Server \cup {None} : becomeFollower(j, t, l)
      BY <2>2
    <3>2. /\ RoleOK' /\ Unread \in timers'[j]
          /\ \A k \in Server \ {j} :
                /\ state'[k] = state[k] /\ votedFor'[k] = votedFor[k]
                /\ timers'[k] = timers[k] /\ currentTerm'[k] = currentTerm[k]
      BY <1>4, <3>1, FollowerStep
    <3>3. FollowerHasTimer'
      BY <1>1, <1>5, <3>2 DEF FollowerHasTimer
    <3> QED
      BY <3>2, <3>3
  <2> QED
    BY <1>6, <2>1, <2>2
<1>8. aes' \subseteq AECall
  <2>1. CASE AppendEntries(m)
    <3> DEFINE ld == IF m.term < currentTerm[m.to] THEN currentLeader[m.to] ELSE None
               r  == [m EXCEPT !.phase = "resp", !.rterm = currentTerm'[m.to], !.rleader = ld]
    <3>1. aes' = (aes \ {m}) \cup {r}
      BY <2>1 DEF AppendEntries
    <3>2. ld \in Server \cup {None} /\ currentTerm'[m.to] \in Term
      BY <1>3, <1>4, <1>7 DEF RoleOK
    <3>3. r \in AECall
      BY <1>2, <3>2 DEF AECall
    <3> QED
      BY <1>2, <3>1, <3>3
  <2>2. CASE ~AppendEntries(m)
    BY <1>2, <2>2 DEF HeartbeatStep, HeartbeatReply, HeartbeatFails
  <2> QED
    BY <2>1, <2>2
<1>9. TypeOK'
  BY <1>1, <1>5, <1>7, <1>8 DEF TypeOK, RoleOK, AECall
<1> QED
  BY <1>7, <1>9 DEF TimerInv

(***************************************************************************)
(* The counters of past elections stay, and new calls get a counter.       *)
(***************************************************************************)
LEMMA VotesStep ==
    ASSUME TypeOK, RoundsKnown, [Next]_vars
    PROVE  \/ UNCHANGED <<votes, rvs>>
           \/ votes' = votes /\ \E m \in rvs : RequestVote(m) \/ RequestVoteDeferred(m)
           \/ votes' = votes /\ \E m \in rvs : rvs' = rvs \ {m}
           \/ \E m \in rvs : CountVote(m)
           \/ \E i \in Server : startElection(i)
BY DEF Next, vars, Timer, ReadTermStarted, TimerEnds, TimerExpires, Campaign, BeginElection,
   startLeader, leaderSendHeartbeats, VoteStep, RequestVote, RequestVoteDeferred, IgnoreVote,
   VoteTermExpired, HeartbeatStep, AppendEntries, HeartbeatReply, HeartbeatFails

\* Two calls to one peer for one election.
SameCall(c, m) ==
    c.from = m.from /\ c.to = m.to /\ c.term = m.term /\ c.round = m.round

LEMMA AnsweredCall ==
    ASSUME NEW m \in RVCall, RequestVote(m) \/ RequestVoteDeferred(m)
    PROVE  \E d : /\ rvs' = (rvs \ {m}) \cup {d} /\ SameCall(d, m)
                  /\ d.granted => \/ m.granted
                                  \/ AtLeastAsUpToDate(LastLog[m.from], LastLog[m.to])
<1>1. CASE RequestVote(m)
  <2>1. PICK ph, t, g, d :
            /\ d = [m EXCEPT !.phase = ph, !.rterm = t, !.granted = g]
            /\ rvs' = (rvs \ {m}) \cup {d}
            /\ g => AtLeastAsUpToDate(LastLog[m.from], LastLog[m.to])
    BY <1>1 DEF RequestVote, LogUpToDate
  <2>2. SameCall(d, m) /\ d.granted = g
    BY <2>1 DEF RVCall, SameCall
  <2> QED
    BY <2>1, <2>2
<1>2. CASE RequestVoteDeferred(m)
  <2>1. PICK d : d = [m EXCEPT !.phase = "resp"] /\ rvs' = (rvs \ {m}) \cup {d}
    BY <1>2 DEF RequestVoteDeferred
  <2>2. SameCall(d, m) /\ d.granted = m.granted
    BY <2>1 DEF RVCall, SameCall
  <2> QED
    BY <2>1, <2>2
<1> QED
  BY <1>1, <1>2

LEMMA RoundsStep ==
    ASSUME TypeOK, RoundsKnown, [Next]_vars
    PROVE  RoundsKnown'
<1>0. \A i \in Server, t \in Term : votes[i][t] \in Seq(Nat)
  BY DEF TypeOK
<1>1. \A m \in rvs : m.from \in Server /\ m.term \in Term /\ m \in RVCall
  BY DEF TypeOK, RVCall
<1>2. CASE votes' = votes /\ \A m \in rvs' : \E c \in rvs :
               m.from = c.from /\ m.term = c.term /\ m.round = c.round
  BY <1>2 DEF RoundsKnown
<1>3. ASSUME NEW m \in rvs, RequestVote(m) \/ RequestVoteDeferred(m), votes' = votes
      PROVE  RoundsKnown'
  <2>1. \A c \in rvs' : c \in rvs \/ (c.from = m.from /\ c.term = m.term /\ c.round = m.round)
    BY <1>1, <1>3, AnsweredCall DEF SameCall
  <2> QED
    BY <1>2, <1>3, <2>1
<1>4. ASSUME NEW m \in rvs, CountVote(m)
      PROVE  RoundsKnown'
  <2>1. PICK v : v = votes[m.from][m.term]
    OBVIOUS
  <2>2. PICK q : q = [v EXCEPT ![m.round] = v[m.round] + 1]
    OBVIOUS
  <2>3. votes' = [votes EXCEPT ![m.from][m.term] = q] /\ rvs' = rvs \ {m}
    BY <1>1, <1>4, <2>1, <2>2 DEF CountVote, TypeOK
  <2>4. Len(q) = Len(v)
    <3>1. v \in Seq(Nat) /\ m.round \in 1 .. Len(v)
      BY <1>0, <1>1, <2>1 DEF RoundsKnown
    <3> QED
      BY <2>2, <3>1
  <2>5. \A c \in rvs : Len(votes'[c.from][c.term]) = Len(votes[c.from][c.term])
    BY <1>1, <2>1, <2>3, <2>4 DEF TypeOK
  <2> QED
    BY <2>3, <2>5 DEF RoundsKnown
<1>5. ASSUME NEW i \in Server, startElection(i)
      PROVE  RoundsKnown'
  <2>1. PICK t \in Term : t = NextTerm(electing[i].loaded)
    BY ElectionTerm
  <2>2. PICK v : v = votes[i][t]
    OBVIOUS
  <2>3. v \in Seq(Nat) /\ Append(v, 1) \in Seq(Nat) /\ Len(Append(v, 1)) = Len(v) + 1
        /\ Len(v) \in Nat
    BY <1>0, <2>2
  <2>4. /\ votes' = [votes EXCEPT ![i][t] = Append(v, 1)]
        /\ rvs' = rvs \cup {RequestVoteCall(i, p, t, Len(v) + 1) : p \in PeersOf[i]}
    BY <1>5, <2>1, <2>2 DEF startElection, TypeOK
  <2>5. /\ votes'[i][t] = Append(v, 1)
        /\ \A j \in Server, u \in Term : (j # i \/ u # t) => votes'[j][u] = votes[j][u]
    BY <2>4 DEF TypeOK
  <2>6. ASSUME NEW m \in rvs'
        PROVE  m.round \in 1 .. Len(votes'[m.from][m.term])
    <3>1. CASE m \in rvs
      <4>1. m.round \in 1 .. Len(votes[m.from][m.term]) /\ m.from \in Server /\ m.term \in Term
        BY <1>1, <3>1 DEF RoundsKnown
      <4>2. CASE m.from = i /\ m.term = t
        BY <2>2, <2>3, <2>5, <4>1, <4>2
      <4> QED
        BY <2>5, <4>1, <4>2
    <3>2. CASE m \notin rvs
      <4>1. m.from = i /\ m.term = t /\ m.round = Len(v) + 1
        BY <2>4, <3>2 DEF RequestVoteCall
      <4> QED
        BY <2>3, <2>5, <4>1
    <3> QED
      BY <3>1, <3>2
  <2> QED
    BY <2>6 DEF RoundsKnown
<1> QED
  BY <1>2, <1>3, <1>4, <1>5, VotesStep

LEMMA TimerInvariant == Spec => [](TimerInv /\ RoundsKnown)
<1>1. TimerInv /\ RoundsKnown /\ [Next]_vars => TimerInv' /\ RoundsKnown'
  <2> SUFFICES ASSUME TimerInv, RoundsKnown, [Next]_vars PROVE TimerInv' /\ RoundsKnown'
    OBVIOUS
  <2>1. CASE UNCHANGED vars
    BY <2>1 DEF vars, TimerInv, TypeOK, FollowerHasTimer, RoundsKnown
  <2>2. CASE Next
    <3>1. TimerInv'
      BY <2>2, TimerStep, CampaignStep, LeaderSteps, VoteSteps, HeartbeatSteps DEF Next
    <3>2. RoundsKnown'
      BY RoundsStep DEF TimerInv
    <3> QED
      BY <3>1, <3>2
  <2> QED
    BY <2>1, <2>2
<1>2. Init => RoundsKnown
  BY DEF Init, RoundsKnown
<1> QED
  BY <1>1, <1>2, InitTimer, PTL DEF Spec

(***************************************************************************)
(* The variables keep their types and no term beyond those elections were  *)
(* started for appears anywhere.                                           *)
(***************************************************************************)
THEOREM TypeCorrect == Spec => []TypeOK
<1>1. TimerInv => TypeOK
  BY DEF TimerInv
<1> QED
  BY <1>1, TimerInvariant, PTL

(***************************************************************************)
(* However votes, heartbeats and their replies interleave with the parts   *)
(* of runElectionTimer, RequestVote and startLeader that run without       *)
(* cm.mu, a follower that has not just voted for itself has a timer.       *)
(***************************************************************************)
THEOREM TimerAlive == Spec => []FollowerHasTimer
<1>1. TimerInv => FollowerHasTimer
  BY DEF TimerInv
<1> QED
  BY <1>1, TimerInvariant, PTL

-----------------------------------------------------------------------------
(***************************************************************************)
(* The election restriction.  A counter never exceeds one vote, the        *)
(* master's own, and one for each peer that is not more up to date than it *)
(* and whose call in that election is over.                                *)
(***************************************************************************)
UpToDatePeers(i) == {p \in PeersOf[i] : AtLeastAsUpToDate(LastLog[i], LastLog[p])}

Asked(i, p, t, n) == \E m \in rvs : m.from = i /\ m.to = p /\ m.term = t /\ m.round = n
Counted(i, t, n) == {p \in UpToDatePeers(i) : ~Asked(i, p, t, n)}

CallsOnce ==
    /\ \A m \in rvs : m.to \in PeersOf[m.from]
    /\ \A c, m \in rvs : SameCall(c, m) => c = m
    /\ \A m \in rvs : m.granted => AtLeastAsUpToDate(LastLog[m.from], LastLog[m.to])

VotesBacked ==
    \A i \in Server, t \in Term : \A n \in 1 .. Len(votes[i][t]) :
        votes[i][t][n] <= Cardinality(Counted(i, t, n)) + 1

VotesInv == CallsOnce /\ VotesBacked /\ ElectionRestriction

LEMMA PeersFinite ==
    ASSUME NEW i \in Server
    PROVE  /\ IsFiniteSet(PeersOf[i]) /\ Cardinality(PeersOf[i]) \in Nat
           /\ \A S \in SUBSET PeersOf[i] : IsFiniteSet(S) /\ Cardinality(S) \in Nat
<1>1. PeersOf[i] \subseteq Server
  BY PeersAssumption
<1>2. IsFiniteSet(PeersOf[i])
  BY <1>1, ServerAssumption, FS_Subset
<1>3. \A S \in SUBSET PeersOf[i] : IsFiniteSet(S)
  BY <1>2, FS_Subset
<1> QED
  BY <1>2, <1>3, FS_CardinalityType

\* More votes keep a majority.
LEMMA WinsMore ==
    ASSUME NEW i \in Server, NEW a \in Nat, NEW b \in Nat, a <= b, Wins(i, a)
    PROVE  Wins(i, b)
<1>1. Cardinality(PeersOf[i]) \in Nat
  BY PeersFinite
<1> QED
  BY <1>1 DEF Wins

\* What the elected masters have; state and winning change in few places.
RestrictionOf(i) == Wins(i, Cardinality(UpToDatePeers(i)) + 1)

LEMMA RestrictionStep ==
    ASSUME ElectionRestriction,
           \A i \in Server : state'[i] = "LEADER" \/ winning'[i] > 0 =>
               state[i] = "LEADER" \/ winning[i] > 0 \/ RestrictionOf(i)
    PROVE  ElectionRestriction'
BY DEF ElectionRestriction, RestrictionOf, UpToDatePeers

(***************************************************************************)
(* Fewer calls in flight, with the same counters.                          *)
(***************************************************************************)
LEMMA BackedKept ==
    ASSUME VotesBacked, TypeOK, NEW i \in Server, NEW t \in Term, NEW n \in 1 .. Len(votes[i][t]),
           votes'[i][t][n] = votes[i][t][n],
           \A p \in PeersOf[i] : Asked(i, p, t, n)' => Asked(i, p, t, n)
    PROVE  votes'[i][t][n] <= Cardinality(Counted(i, t, n))' + 1
<1>1. votes[i][t][n] \in Nat
  BY DEF TypeOK
<1>2. PICK C : C = Counted(i, t, n)
  OBVIOUS
<1>3. PICK D : D = Counted(i, t, n)'
  OBVIOUS
<1>4. C \subseteq D /\ D \subseteq PeersOf[i]
  BY <1>2, <1>3 DEF Counted, UpToDatePeers
<1>5. Cardinality(C) <= Cardinality(D) /\ Cardinality(C) \in Nat /\ Cardinality(D) \in Nat
  BY <1>4, PeersFinite, FS_Subset
<1>6. votes[i][t][n] <= Cardinality(C) + 1
  BY <1>2 DEF VotesBacked
<1>7. Cardinality(Counted(i, t, n))' = Cardinality(D)
  BY <1>3
<1> QED
  BY <1>1, <1>5, <1>6, <1>7

LEMMA AnswerVotes ==
    ASSUME TypeOK, CallsOnce, VotesBacked, NEW m \in rvs, votes' = votes,
           RequestVote(m) \/ RequestVoteDeferred(m)
    PROVE  CallsOnce' /\ VotesBacked'
<1>1. m \in RVCall
  BY DEF TypeOK, RVCall
<1>2. PICK d : /\ rvs' = (rvs \ {m}) \cup {d} /\ SameCall(d, m)
               /\ d.granted => \/ m.granted
                               \/ AtLeastAsUpToDate(LastLog[m.from], LastLog[m.to])
  BY <1>1, AnsweredCall
<1>3. CallsOnce'
  BY <1>2 DEF CallsOnce, SameCall
<1>4. VotesBacked'
  <2> SUFFICES ASSUME NEW i \in Server, NEW t \in Term, NEW n \in 1 .. Len(votes[i][t])
               PROVE  votes'[i][t][n] <= Cardinality(Counted(i, t, n))' + 1
    BY DEF VotesBacked
  <2>1. \A p \in PeersOf[i] : Asked(i, p, t, n)' => Asked(i, p, t, n)
    BY <1>2 DEF Asked, SameCall
  <2> QED
    BY <2>1, BackedKept
<1> QED
  BY <1>3, <1>4

LEMMA DropVotes ==
    ASSUME TypeOK, CallsOnce, VotesBacked, votes' = votes, rvs' \subseteq rvs
    PROVE  CallsOnce' /\ VotesBacked'
<1>1. CallsOnce'
  BY DEF CallsOnce, SameCall
<1>2. VotesBacked'
  <2> SUFFICES ASSUME NEW i \in Server, NEW t \in Term, NEW n \in 1 .. Len(votes[i][t])
               PROVE  votes'[i][t][n] <= Cardinality(Counted(i, t, n))' + 1
    BY DEF VotesBacked
  <2>1. \A p \in PeersOf[i] : Asked(i, p, t, n)' => Asked(i, p, t, n)
    BY DEF Asked
  <2> QED
    BY <2>1, BackedKept
<1> QED
  BY <1>1, <1>2

(***************************************************************************)
(* A counted vote is that of a peer whose call is over now.                *)
(***************************************************************************)
LEMMA CountVotes ==
    ASSUME TypeOK, RoundsKnown, CallsOnce, VotesBacked, NEW m \in rvs, CountVote(m)
    PROVE  /\ CallsOnce' /\ VotesBacked'
           /\ Wins(m.from, votes[m.from][m.term][m.round] + 1) => RestrictionOf(m.from)
<1>1. PICK i \in Server : i = m.from
  BY DEF TypeOK
<1>2. PICK t \in Term : t = m.term
  BY DEF TypeOK
<1>3. PICK r \in 1 .. Len(votes[i][t]) : r = m.round
  BY <1>1, <1>2 DEF RoundsKnown
<1>4. PICK v \in Seq(Nat) : v = votes[i][t]
  BY DEF TypeOK
<1>5. PICK k \in Nat : k = v[r] + 1
  BY <1>4
<1>6. /\ rvs' = rvs \ {m} /\ m.granted
      /\ votes' = [votes EXCEPT ![i][t] = [v EXCEPT ![r] = k]]
  BY <1>1, <1>2, <1>3, <1>4, <1>5 DEF CountVote, TypeOK
<1>7. /\ \A j \in Server, u \in Term : (j # i \/ u # t) => votes'[j][u] = votes[j][u]
      /\ votes'[i][t] = [v EXCEPT ![r] = k]
  BY <1>6 DEF TypeOK
<1>8. /\ Len(votes'[i][t]) = Len(v)
      /\ \A n \in 1 .. Len(v) : votes'[i][t][n] = IF n = r THEN k ELSE v[n]
  BY <1>3, <1>4, <1>7
<1>9. CallsOnce'
  BY <1>6 DEF CallsOnce, SameCall
<1>10. PICK C : C = Counted(i, t, r)
  OBVIOUS
<1>11. PICK D : D = Counted(i, t, r)'
  OBVIOUS
<1>12. m.to \notin C /\ C \cup {m.to} \subseteq D
  <2>1. Asked(i, m.to, t, r)
    BY <1>1, <1>2, <1>3 DEF Asked
  <2>2. m.to \in UpToDatePeers(i)
    BY <1>1, <1>6 DEF CallsOnce, UpToDatePeers
  <2>3. ~Asked(i, m.to, t, r)'
    BY <1>1, <1>2, <1>3, <1>6 DEF Asked, CallsOnce, SameCall
  <2>4. \A p : Asked(i, p, t, r)' => Asked(i, p, t, r)
    BY <1>6 DEF Asked
  <2> QED
    BY <1>10, <1>11, <2>1, <2>2, <2>3, <2>4 DEF Counted, UpToDatePeers
<1>13. /\ Cardinality(C) \in Nat /\ Cardinality(D) \in Nat
       /\ Cardinality(C) + 1 <= Cardinality(D)
       /\ Cardinality(D) <= Cardinality(UpToDatePeers(i))
       /\ Cardinality(UpToDatePeers(i)) \in Nat
  <2>1. C \in SUBSET PeersOf[i] /\ D \in SUBSET PeersOf[i] /\ UpToDatePeers(i) \in SUBSET PeersOf[i]
        /\ D \subseteq UpToDatePeers(i)
    BY <1>10, <1>11 DEF Counted, UpToDatePeers
  <2>2. IsFiniteSet(C) /\ IsFiniteSet(D) /\ IsFiniteSet(UpToDatePeers(i))
    BY <2>1, PeersFinite
  <2>3. Cardinality(C \cup {m.to}) = Cardinality(C) + 1
    BY <1>12, <2>2, FS_AddElement
  <2>4. Cardinality(C \cup {m.to}) <= Cardinality(D)
    BY <1>12, <2>2, FS_Subset
  <2>5. Cardinality(D) <= Cardinality(UpToDatePeers(i))
    BY <2>1, <2>2, FS_Subset
  <2> QED
    BY <2>2, <2>3, <2>4, <2>5, FS_CardinalityType
<1>14. k <= Cardinality(D) + 1
  <2>1. votes[i][t][r] <= Cardinality(C) + 1
    BY <1>10 DEF VotesBacked
  <2>2. v[r] \in Nat
    BY <1>3, <1>4
  <2> QED
    BY <1>4, <1>5, <1>13, <2>1, <2>2, SMTT(30)
<1>15. VotesBacked'
  <2> SUFFICES ASSUME NEW j \in Server, NEW u \in Term, NEW n \in 1 .. Len(votes'[j][u])
               PROVE  votes'[j][u][n] <= Cardinality(Counted(j, u, n))' + 1
    BY DEF VotesBacked
  <2>1. n \in 1 .. Len(votes[j][u])
    BY <1>4, <1>7, <1>8
  <2>2. CASE j = i /\ u = t /\ n = r
    BY <1>4, <1>8, <1>11, <1>14, <2>1, <2>2
  <2>3. CASE ~(j = i /\ u = t /\ n = r)
    <3>1. votes'[j][u][n] = votes[j][u][n]
      BY <1>4, <1>7, <1>8, <2>1, <2>3
    <3>2. \A p \in PeersOf[j] : Asked(j, p, u, n)' => Asked(j, p, u, n)
      BY <1>6 DEF Asked
    <3> QED
      BY <2>1, <3>1, <3>2, BackedKept
  <2> QED
    BY <2>2, <2>3
<1>16. Wins(i, k) => RestrictionOf(i)
  <2>1. Cardinality(UpToDatePeers(i)) + 1 \in Nat /\ k <= Cardinality(UpToDatePeers(i)) + 1
    BY <1>13, <1>14
  <2> QED
    BY <2>1, WinsMore DEF RestrictionOf
<1> QED
  BY <1>1, <1>2, <1>3, <1>4, <1>5, <1>9, <1>15, <1>16

(***************************************************************************)
(* A new election asks every peer, with a counter no earlier call has.     *)
(***************************************************************************)
LEMMA CampaignVotes ==
    ASSUME TypeOK, RoundsKnown, CallsOnce, VotesBacked, NEW i \in Server, startElection(i)
    PROVE  CallsOnce' /\ VotesBacked'
<1>1. PICK t \in Term : t = NextTerm(electing[i].loaded)
  BY ElectionTerm
<1>2. PICK v \in Seq(Nat) : v = votes[i][t]
  BY DEF TypeOK
<1>3. PICK r \in Nat : r = Len(v) + 1
  BY <1>2
<1>4. /\ votes' = [votes EXCEPT ![i][t] = Append(v, 1)]
      /\ rvs' = rvs \cup {RequestVoteCall(i, p, t, r) : p \in PeersOf[i]}
  BY <1>1, <1>2, <1>3, Zenon DEF startElection
<1>5. /\ \A j \in Server, u \in Term : (j # i \/ u # t) => votes'[j][u] = votes[j][u]
      /\ votes'[i][t] = Append(v, 1)
  BY <1>4 DEF TypeOK
<1>6. /\ Len(votes'[i][t]) = r
      /\ \A n \in 1 .. Len(v) : votes'[i][t][n] = v[n]
      /\ votes'[i][t][r] = 1
  BY <1>2, <1>3, <1>5
<1>7. \A m \in rvs : ~(m.from = i /\ m.term = t /\ m.round = r)
  <2> SUFFICES ASSUME NEW m \in rvs, m.from = i, m.term = t, m.round = r PROVE FALSE
    OBVIOUS
  <2>1. m.round \in 1 .. Len(v)
    BY <1>2 DEF RoundsKnown
  <2> QED
    BY <1>2, <1>3, <2>1
<1>8. ASSUME NEW m \in rvs', m \notin rvs
      PROVE  \E p \in PeersOf[i] : /\ m = RequestVoteCall(i, p, t, r) /\ m.from = i /\ m.to = p
                                   /\ m.term = t /\ m.round = r /\ m.granted = FALSE
  BY <1>4, <1>8 DEF RequestVoteCall
<1>9. CallsOnce'
  <2>1. \A m \in rvs' : m.to \in PeersOf[m.from]
    BY <1>8 DEF CallsOnce
  <2>2. \A m \in rvs' : m.granted => AtLeastAsUpToDate(LastLog[m.from], LastLog[m.to])
    BY <1>8 DEF CallsOnce
  <2>3. ASSUME NEW c \in rvs', NEW m \in rvs', SameCall(c, m) PROVE c = m
    <3>1. CASE c \in rvs /\ m \in rvs
      BY <2>3, <3>1 DEF CallsOnce
    <3>2. CASE c \notin rvs /\ m \notin rvs
      BY <1>8, <2>3, <3>2 DEF SameCall
    <3>3. CASE c \in rvs /\ m \notin rvs
      BY <1>7, <1>8, <2>3, <3>3 DEF SameCall
    <3>4. CASE c \notin rvs /\ m \in rvs
      BY <1>7, <1>8, <2>3, <3>4 DEF SameCall
    <3> QED
      BY <3>1, <3>2, <3>3, <3>4
  <2> QED
    BY <2>1, <2>2, <2>3 DEF CallsOnce
<1>10. VotesBacked'
  <2> SUFFICES ASSUME NEW j \in Server, NEW u \in Term, NEW n \in 1 .. Len(votes'[j][u])
               PROVE  votes'[j][u][n] <= Cardinality(Counted(j, u, n))' + 1
    BY DEF VotesBacked
  <2>1. CASE j = i /\ u = t /\ n = r
    <3>1. PICK D : D = Counted(j, u, n)'
      OBVIOUS
    <3>2. D \in SUBSET PeersOf[j]
      BY <3>1 DEF Counted, UpToDatePeers
    <3>3. Cardinality(D) \in Nat
      BY <3>2, PeersFinite
    <3> QED
      BY <1>6, <2>1, <3>1, <3>3
  <2>2. CASE ~(j = i /\ u = t /\ n = r)
    <3>1. n \in 1 .. Len(votes[j][u]) /\ votes'[j][u][n] = votes[j][u][n]
      <4>1. CASE j = i /\ u = t
        <5>1. n \in 1 .. r /\ n # r
          BY <1>6, <2>2, <4>1
        <5>2. n \in 1 .. Len(v)
          BY <1>2, <1>3, <5>1
        <5> QED
          BY <1>2, <1>6, <4>1, <5>2
      <4>2. CASE ~(j = i /\ u = t)
        BY <1>5, <4>2
      <4> QED
        BY <4>1, <4>2
    <3>2. \A p \in PeersOf[j] : Asked(j, p, u, n)' => Asked(j, p, u, n)
      BY <1>8, <2>2 DEF Asked
    <3> QED
      BY <3>1, <3>2, BackedKept
  <2> QED
    BY <2>1, <2>2
<1> QED
  BY <1>9, <1>10

LEMMA ElectedStep ==
    ASSUME TypeOK, RoundsKnown, CallsOnce, VotesBacked, [Next]_vars, NEW j \in Server,
           state'[j] = "LEADER" \/ winning'[j] > 0
    PROVE  state[j] = "LEADER" \/ winning[j] > 0 \/ RestrictionOf(j)
<1>1. CASE state'[j] = "LEADER" /\ state[j] # "LEADER"
  <2>0. state \in [Server -> {"FOLLOWER", "LEADER", "CANDIDATE"}]
    BY DEF TypeOK
  <2>1. \A i, t, l : ~becomeFollower(i, t, l)
    BY <1>1, <2>0 DEF becomeFollower
  <2>2. \A i \in Server : ~BeginElection(i)
    BY <1>1, <2>0 DEF BeginElection
  <2>3. startLeader(j)
    BY <1>1, <2>0, <2>1, <2>2 DEF Next, vars, roleVars, Timer, ReadTermStarted, TimerEnds, TimerExpires, Campaign,
       startElection, startLeader, leaderSendHeartbeats, VoteStep, RequestVote, RequestVoteDeferred,
       IgnoreVote, VoteTermExpired, CountVote, HeartbeatStep, AppendEntries, HeartbeatReply,
       HeartbeatFails
  <2> QED
    BY <2>3 DEF startLeader
<1>2. CASE winning'[j] > 0 /\ ~(winning[j] > 0)
  <2>0. winning \in [Server -> Nat]
    BY DEF TypeOK
  <2>1. \/ startElection(j) /\ PeersOf[j] = {}
        \/ \E m \in rvs : /\ CountVote(m) /\ j = m.from
                          /\ Wins(m.from, votes[m.from][m.term][m.round] + 1)
    <3>1. CASE \E i \in Server : Timer(i) \/ BeginElection(i) \/ startLeader(i)
      <4>1. PICK i \in Server : Timer(i) \/ BeginElection(i) \/ startLeader(i)
        BY <3>1
      <4>2. winning' = winning \/ winning' = [winning EXCEPT ![i] = @ - 1]
        BY <4>1 DEF Timer, ReadTermStarted, TimerEnds, TimerExpires, BeginElection, startLeader
      <4> QED
        BY <1>2, <2>0, <4>2
    <3>2. CASE \E i \in Server : startElection(i)
      <4>1. PICK i \in Server : startElection(i)
        BY <3>2
      <4>2. winning' = IF PeersOf[i] = {} THEN [winning EXCEPT ![i] = @ + 1] ELSE winning
        BY <4>1, Zenon DEF startElection
      <4>3. i = j /\ PeersOf[i] = {}
        BY <1>2, <2>0, <4>2
      <4> QED
        BY <4>1, <4>3
    <3>3. CASE \E i \in Server : \E p \in PeersOf[i] : leaderSendHeartbeats(i, p)
      BY <1>2, <3>3 DEF leaderSendHeartbeats
    <3>4. CASE \E m \in rvs : RequestVote(m) \/ RequestVoteDeferred(m) \/ IgnoreVote(m) \/ VoteTermExpired(m)
      BY <1>2, <3>4 DEF RequestVote, RequestVoteDeferred, IgnoreVote, VoteTermExpired
    <3>5. CASE \E m \in rvs : CountVote(m)
      <4>1. PICK m \in rvs : CountVote(m)
        BY <3>5
      <4> DEFINE n == votes[m.from][m.term][m.round] + 1
      <4>2. winning' = IF Wins(m.from, n) THEN [winning EXCEPT ![m.from] = @ + 1] ELSE winning
        BY <4>1 DEF CountVote
      <4> HIDE DEF n
      <4>3. j = m.from /\ Wins(m.from, n)
        BY <1>2, <2>0, <4>2
      <4> QED
        BY <4>1, <4>3 DEF n
    <3>6. CASE \E m \in aes : HeartbeatStep(m) \/ HeartbeatFails(m)
      BY <1>2, <3>6 DEF HeartbeatStep, AppendEntries, HeartbeatReply, HeartbeatFails
    <3>7. CASE UNCHANGED vars
      BY <1>2, <3>7 DEF vars
    <3> QED
      BY <3>1, <3>2, <3>3, <3>4, <3>5, <3>6, <3>7 DEF Next, Campaign, VoteStep
  <2>2. CASE PeersOf[j] = {}
    <3>1. UpToDatePeers(j) = {}
      BY <2>2 DEF UpToDatePeers
    <3>2. Cardinality(UpToDatePeers(j)) = 0 /\ Cardinality(PeersOf[j]) = 0
      BY <2>2, <3>1, FS_EmptySet
    <3> QED
      BY <3>2 DEF RestrictionOf, Wins
  <2>3. CASE \E m \in rvs : /\ CountVote(m) /\ j = m.from
                            /\ Wins(m.from, votes[m.from][m.term][m.round] + 1)
    BY <2>3, CountVotes
  <2> QED
    BY <2>1, <2>2, <2>3
<1> QED
  BY <1>1, <1>2

LEMMA VotesInvStep ==
    ASSUME TypeOK, RoundsKnown, VotesInv, [Next]_vars
    PROVE  VotesInv'
<1>1. CallsOnce /\ VotesBacked /\ ElectionRestriction
  BY DEF VotesInv
<1>2. CallsOnce' /\ VotesBacked'
  <2>1. CASE votes' = votes /\ rvs' \subseteq rvs
    BY <1>1, <2>1, DropVotes
  <2>2. CASE votes' = votes /\ \E m \in rvs : RequestVote(m) \/ RequestVoteDeferred(m)
    BY <1>1, <2>2, AnswerVotes
  <2>3. CASE \E m \in rvs : CountVote(m)
    BY <1>1, <2>3, CountVotes
  <2>4. CASE \E i \in Server : startElection(i)
    BY <1>1, <2>4, CampaignVotes
  <2> QED
    BY <2>1, <2>2, <2>3, <2>4, VotesStep
<1>3. ElectionRestriction'
  BY <1>1, ElectedStep, RestrictionStep
<1> QED
  BY <1>2, <1>3 DEF VotesInv

(***************************************************************************)
(* With any number of masters, terms and elections, repeated ones of the   *)
(* same term included, startLeader is only reached by a master that is at  *)
(* least as up to date as a majority of those it counts (startElection,    *)
(* RequestVote).                                                           *)
(***************************************************************************)
THEOREM Restriction == Spec => []ElectionRestriction
<1>1. Init => VotesInv
  <2> SUFFICES ASSUME Init PROVE VotesInv
    OBVIOUS
  <2>1. CallsOnce
    BY DEF Init, CallsOnce
  <2>2. \A i \in Server, t \in Term : votes[i][t] = <<>>
    BY DEF Init
  <2>3. VotesBacked
    BY <2>2 DEF VotesBacked
  <2>4. ElectionRestriction
    BY DEF Init, ElectionRestriction
  <2> QED
    BY <2>1, <2>3, <2>4 DEF VotesInv
<1>2. TimerInv /\ RoundsKnown /\ VotesInv /\ [Next]_vars => VotesInv'
  BY VotesInvStep DEF TimerInv
<1>3. VotesInv => ElectionRestriction
  BY DEF VotesInv
<1> QED
  BY <1>1, <1>2, <1>3, TimerInvariant, PTL DEF Spec
=============================================================================
