--------------------------- MODULE RaftSafetyProofs ---------------------------
(***************************************************************************)
(* What the logs of Raft are for: a committed entry is never lost and never *)
(* replaced, for any number of servers, terms, restarts and messages in     *)
(* flight, as long as nothing is compacted and one message carries a whole  *)
(* log.  The two premises are where the code departs from the protocol:     *)
(* InstallSnapshot drops a log that may hold acknowledged entries, and a    *)
(* capped append may commit what it does not cover.                         *)
(*                                                                         *)
(* RaftCommitProofs has the argument, for servers that lead, follow or keep *)
(* still.  The lemmas below show that each member function of the class     *)
(* does one of the three (Effect), elections included.                      *)
(***************************************************************************)
EXTENDS RaftLogProofs, RaftCommitProofs

-----------------------------------------------------------------------------
(* Leaders: what they append, and how they win. *)

\* Zenon proves the leaves that name no other prover.
USE ZenonT(30)

\* A leader that appends an entry: it sends it, and counts (Propose).
LEMMA ProposeRuns ==
    ASSUME NEW H, LogsOK(H), NEW i \in Server, NEW s \in ServerState, MayAppend(s, H), s.emitted = {},
           Len(Propose(i, s).log) <= MaxEntries
    PROVE  LET q == AppendOwn(i, s)
           IN  /\ Ran(q, Propose(i, s)) /\ q.log = Append(s.log, s.term) /\ q.term = s.term
               /\ q.match = [s.match EXCEPT ![i] = Len(q.log)] /\ q.commit = s.commit
               /\ q.votedFor = s.votedFor
  <1> DEFINE q == AppendOwn(i, s)
             b == BroadcastAppend(i, q)
             G == H \cup {q.log}
  <1>1. Appended(s, H, q)
    BY AppendOwnGrows
  <1>2. s.base.index = 0 /\ s.base.term = 0 /\ s.out = {} /\ LastIndex(s) = Len(s.log)
    BY NoBase DEF MayAppend
  <1>3. /\ q.out = {} /\ q.emitted = {} /\ q.commit = s.commit /\ q.base = s.base
        /\ q.votedFor = s.votedFor
        /\ q.match = [s.match EXCEPT ![i] = LastIndex(s) + 1]
    BY <1>2 DEF AppendOwn, ServerState
  <1>4. Propose(i, s) = MaybeAdvanceCommit(b)
    BY DEF Propose
  <1> HIDE DEF q
  <1>5. /\ q \in ServerState /\ q.role = "leader" /\ LogsOK(G) /\ Fits(q, G)
        /\ q.log = Append(s.log, s.term) /\ q.term = s.term /\ Len(q.log) = Len(s.log) + 1
    BY <1>1 DEF Appended
  <1>6. Ran(q, q)
    BY <1>3, <1>5, RanStart
  <1>7. Ran(q, b)
    BY <1>5, <1>6, SendRuns, ProposeGrows
  <1>8. b.commit = q.commit /\ b.emitted = {}
    BY <1>3, SMTT(30) DEF BroadcastAppend, ServerState
  <1> HIDE DEF b
  <1> QED
    BY <1>2, <1>3, <1>4, <1>5, <1>7, <1>8, CountRuns, SMTT(30) DEF q, Ran

\* A client's command at the leader (Propose).
LEMMA ProposeLeads ==
    ASSUME NEW H, LogsOK(H), NEW i \in Server, NEW s \in ServerState, MayAppend(s, H), s.emitted = {},
           Len(Propose(i, s).log) <= MaxEntries
    PROVE  LET r == Propose(i, s)
           IN  /\ r.role = "leader" /\ r.term = s.term /\ r.votedFor = s.votedFor
               /\ r.log = Append(s.log, r.term)
               /\ \A p \in Server : r.match[p] = s.match[p] \/ (p = i /\ r.match[p] = Len(r.log))
               /\ Counted(s.commit, r) /\ \A m \in r.out : Sends(r, m)
  <1> DEFINE q == AppendOwn(i, s)
             r == Propose(i, s)
  <1>1. /\ Ran(q, r) /\ q.log = Append(s.log, s.term) /\ q.term = s.term
        /\ q.match = [s.match EXCEPT ![i] = Len(q.log)] /\ q.commit = s.commit
        /\ q.votedFor = s.votedFor
    BY ProposeRuns, SMTT(30)
  <1> HIDE DEF q, r
  <1> QED
    BY <1>1, SMTT(30) DEF r, Ran

\* r is the leader that the candidate s becomes.
Wins(i, s, r) ==
    /\ r.role = "leader" /\ r.term = s.term /\ r.votedFor = s.votedFor
    /\ r.log = Append(s.log, r.term)
    /\ \A p \in Server : r.match[p] = 0 \/ (p = i /\ r.match[p] = Len(r.log))
    /\ Counted(s.commit, r) /\ \A m \in r.out : Sends(r, m)

\* A candidate with a majority (BecomeLeader).
LEMMA BecomeLeaderWins ==
    ASSUME NEW H, LogsOK(H), NEW i \in Server, NEW s \in ServerState, s.out = {}, s.emitted = {},
           ServerFit(s, H), \A L \in H : LastOf(L) # s.term,
           Len(BecomeLeader(i, s).log) <= MaxEntries
    PROVE  Wins(i, s, BecomeLeader(i, s))
  <1> DEFINE f == Fresh(i, s)
             r == Propose(i, f)
  <1>1. f \in ServerState /\ BecomeLeader(i, s) = r
    BY BecomeLeaderIs
  <1>2. /\ f.role = "leader" /\ f.out = {} /\ f.base = s.base /\ f.log = s.log /\ f.term = s.term
        /\ f.next = [p \in Server |-> LastIndex(s) + 1] /\ f.match = [p \in Server |-> 0]
        /\ f.emitted = {} /\ f.commit = s.commit /\ f.votedFor = s.votedFor
    BY DEF Fresh, ServerState
  <1> HIDE DEF f
  <1>3. MayAppend(f, H)
    BY <1>2, NoBase, SMTT(30) DEF ServerFit, MayAppend
  <1>4. /\ r.role = "leader" /\ r.term = f.term /\ r.votedFor = f.votedFor
        /\ r.log = Append(f.log, r.term)
        /\ \A p \in Server : r.match[p] = f.match[p] \/ (p = i /\ r.match[p] = Len(r.log))
        /\ Counted(f.commit, r) /\ \A m \in r.out : Sends(r, m)
    BY <1>1, <1>2, <1>3, ProposeLeads
  <1> HIDE DEF r
  <1> QED
    BY <1>1, <1>2, <1>4 DEF Wins, ServerFit

-----------------------------------------------------------------------------
(* The effect of every handler. *)

\* Counting a vote (HandleRequestVoteResp).
LEMMA HandleRequestVoteRespEffect ==
    ASSUME NEW H, NEW A, LogsOK(H), NEW i \in Server, NEW s \in ServerState, ServerFit(s, H),
           s.out = {}, s.emitted = {}, NEW m \in RequestVoteRespMsg,
           LET r == HandleRequestVoteResp(i, s, m)
           IN  /\ s.role = "candidate" /\ r.role = "leader" /\ r.term = s.term =>
                    \A L \in H : LastOf(L) # s.term
               /\ Len(r.log) <= MaxEntries
    PROVE  Effect(i, s, HandleRequestVoteResp(i, s, m), H, A)
  <1> DEFINE votes == IF m.granted THEN s.votes \cup {m.from} ELSE s.votes \ {m.from}
             v == [s EXCEPT !.votes = votes]
             w == BecomeLeader(i, v)
             r == HandleRequestVoteResp(i, s, m)
  <1>1. CASE s.role # "candidate"
    BY <1>1, StillEffect DEF HandleRequestVoteResp, Effect, Voting
  <1>2. CASE s.role = "candidate"
    <2>1. votes \in SUBSET Server
      BY Fields DEF RequestVoteRespMsg
    <2>2. r = IF IsQuorum(v.votes) THEN w ELSE v
      BY <1>2 DEF HandleRequestVoteResp
    <2> HIDE DEF votes
    <2>3. /\ v \in ServerState /\ v.out = {} /\ v.base = s.base /\ v.log = s.log
          /\ v.term = s.term /\ v.role = "candidate" /\ v.emitted = {} /\ v.commit = s.commit
          /\ v.votedFor = s.votedFor
      BY <1>2, <2>1 DEF ServerState
    <2> HIDE DEF v
    <2>4. CASE IsQuorum(v.votes)
      <3>1. w.role = "leader" /\ w.term = s.term
        <4> DEFINE f == Fresh(i, v)
        <4>1. f \in ServerState /\ w = Propose(i, f)
          BY <2>3, BecomeLeaderIs
        <4>2. f.role = "leader" /\ f.term = s.term
          BY <2>3 DEF Fresh, ServerState
        <4> HIDE DEF f, w
        <4> QED
          BY <4>1, <4>2, ProposeSameRole DEF SameRole
      <3>2. Wins(i, v, w)
        BY <1>2, <2>2, <2>3, <2>4, <3>1, BecomeLeaderWins DEF ServerFit
      <3> HIDE DEF w
      <3> QED
        BY <1>2, <2>2, <2>3, <2>4, <3>2 DEF Effect, Wins, Led, MatchFrom, Voting
    <2>5. CASE ~IsQuorum(v.votes)
      BY <2>2, <2>3, <2>5 DEF Quiet, Voting, Effect
    <2> QED
      BY <2>4, <2>5
  <1> QED
    BY <1>1, <1>2

\* Every handler, once the terms agree (Dispatch).
LEMMA DispatchEffect ==
    ASSUME IInv, HintInv, NEW H, NEW A, LogInv(H), NEW m \in msgs, MessageSafe(m, committed, H, A),
           NEW s \in ServerState, ServerFit(s, H), s.out = {}, s.emitted = {}, s.term = m.term,
           s.role = "leader" => [term |-> s.term, server |-> m.to] \in elected,
           s.role = "leader" => Len(s.log) <= MaxEntries,
           LET r == Dispatch(m.to, s, m)
           IN  /\ s.role = "candidate" /\ r.role = "leader" /\ r.term = s.term =>
                    \A L \in H : LastOf(L) # s.term
               /\ Len(r.log) <= MaxEntries
    PROVE  Effect(m.to, s, Dispatch(m.to, s, m), H, A)
  <1>1. /\ m \in Message /\ m.to \in Server /\ MessageFit(m, H) /\ LogsOK(H)
        /\ s.base.index = 0 /\ s.base.term = 0
    BY MessageKinds DEF IInv, TypeOK, LogInv, ServerFit
  <1>2. CASE m.kind = "RequestVote"
    BY <1>1, <1>2, MessageKinds, HandleRequestVoteEffect DEF Dispatch
  <1>3. CASE m.kind = "RequestVoteResp"
    BY <1>1, <1>3, MessageKinds, HandleRequestVoteRespEffect DEF Dispatch
  <1>4. CASE m.kind = "AppendEntries"
    BY <1>1, <1>4, MessageKinds, OneAppender, HandleAppendEntriesEffect
       DEF Dispatch, MessageSafe
  <1>5. CASE m.kind = "AppendEntriesResp"
    BY <1>1, <1>5, MessageKinds, HandleAppendEntriesRespEffect DEF Dispatch
  <1> QED
    BY <1>1, <1>2, <1>3, <1>4, <1>5, MessageKinds DEF MessageFit

\* Step: an older message is refused, a newer one makes a follower first.
LEMMA StepEffect ==
    ASSUME IInv, HintInv, NEW H, NEW A, LogInv(H), NEW m \in msgs, MessageSafe(m, committed, H, A),
           LET r == Step(m.to, node[m.to], m)
           IN  /\ \A a, b \in Won(m.to, r) : a.term = b.term => a.server = b.server
               /\ Len(r.log) <= MaxEntries,
           Len(node[m.to].log) <= MaxEntries
    PROVE  Effect(m.to, node[m.to], Step(m.to, node[m.to], m), H, A)
  <1> DEFINE i == m.to
             s == node[i]
             ldr == IF FromLeader(m) THEN m.from ELSE Nil
             f == BecomeFollower(s, m.term, ldr)
             r == Step(i, s, m)
  <1>1. /\ m \in Message /\ i \in Server /\ m.term \in Nat /\ m.from \in Server
        /\ ldr \in Server \cup {Nil}
    BY MessageKinds DEF IInv, TypeOK
  <1>2. /\ s.out = {} /\ s.emitted = {} /\ s \in ServerState /\ s.term \in Nat /\ ServerFit(s, H)
        /\ s.role = "leader" => [term |-> s.term, server |-> i] \in elected
    BY <1>1, Standing, Fields DEF LogInv, HintInv, IInv, TypeOK, Drained
  <1>r. r.term \in Nat
    BY StepAllowed, Fields DEF Allowed
  <1>3. CASE m.term < s.term
    <2> DEFINE rv == RequestVoteResp(i, s, m.from, FALSE)
               ae == AppendEntriesResp(i, s, m.from, FALSE, 0, 0, 0)
    <2>1. r = RefuseStale(i, s, m)
      BY <1>3 DEF Step
    <2>2. m.kind # "InstallSnapshot"
      BY DEF LogInv, MessageFit
    <2>3. r = Send(s, rv) \/ r = Send(s, ae) \/ r = s
      BY <2>1, <2>2 DEF RefuseStale
    <2>4. Plain(rv) /\ Plain(ae)
      BY DEF RequestVoteResp, AppendEntriesResp, Plain
    <2> HIDE DEF rv, ae, s, r
    <2>5. ASSUME NEW x, Plain(x), r = Send(s, x)
          PROVE  /\ r.log = s.log /\ r.role = s.role /\ r.term = s.term /\ r.match = s.match
                 /\ r.commit = s.commit /\ r.emitted = {} /\ r.votedFor = s.votedFor
                 /\ \A y \in r.out : Plain(y)
      BY <1>2, <2>5 DEF Send, ServerState
    <2>6. /\ r.log = s.log /\ r.role = s.role /\ r.term = s.term /\ r.match = s.match
          /\ r.commit = s.commit /\ r.emitted = {} /\ r.votedFor = s.votedFor
          /\ \A y \in r.out : Plain(y)
      <3>1. CASE r = s
        BY <1>2, <3>1
      <3> QED
        BY <2>3, <2>4, <2>5, <3>1
    <2>7. Led(i, s, r) \/ Quiet(s, r)
      BY <1>2, <2>6, StillEffect
    <2>8. Voting(i, s, r)
      BY <2>6 DEF Voting
    <2>9. Effect(i, s, r, H, A)
      BY <2>7, <2>8 DEF Effect
    <2> QED
      BY <2>9 DEF s, r
  <1>4. CASE m.term > s.term
    <2>0. m.term >= s.term
      BY <1>1, <1>2, <1>4, SMTT(30)
    <2>1. r = Dispatch(i, f, m)
      BY <1>1, <1>2, <1>4, SMTT(30) DEF Step
    <2> HIDE DEF ldr
    <2>2. /\ f \in ServerState /\ f.out = {} /\ f.emitted = {} /\ f.term = m.term
          /\ f.role = "follower" /\ f.base = s.base /\ f.log = s.log /\ f.commit = s.commit
      BY <1>1, <1>2, <2>0, BecomeFollowerIs, SMTT(30)
    <2>3. f.votedFor = Nil
      <3>1. s \in ServerState /\ m.term \in Nat
        BY <1>1, <1>2
      <3> HIDE DEF s
      <3> QED
        BY <1>4, <3>1, FollowerVote
    <2> HIDE DEF f
    <2>4. LastOf(s.log) \in Nat
      BY <1>2, Fields, SMTT(30) DEF LastOf
    <2>5. ServerFit(f, H)
      BY <1>1, <1>2, <2>0, <2>2, <2>4, SMTT(30) DEF ServerFit
    <2>6. Effect(i, f, Dispatch(i, f, m), H, A)
      BY <2>1, <2>2, <2>5, DispatchEffect
    <2> HIDE DEF s, r
    <2>7. Effect(i, s, r, H, A)
      BY <1>1, <1>2, <1>4, <1>r, <2>1, <2>2, <2>3, <2>6, EffectAfterFollower
    <2> QED
      BY <2>7 DEF s, r
  <1>5. CASE m.term = s.term
    <2>1. r = Dispatch(i, s, m)
      BY <1>1, <1>2, <1>5, SMTT(30) DEF Step
    <2>2. s.role = "candidate" /\ r.role = "leader" /\ r.term = s.term
            => \A L \in H : LastOf(L) # s.term
      <3> SUFFICES ASSUME s.role = "candidate", r.role = "leader", r.term = s.term, NEW L \in H
                   PROVE  LastOf(L) # r.term
        BY <2>1
      <3>1. \A a, b \in Won(i, r) : a.term = b.term => a.server = b.server
        OBVIOUS
      <3> HIDE DEF r
      <3> QED
        BY <1>1, <1>2, <3>1, NoEarlierLog
    <2>3. Effect(i, s, Dispatch(i, s, m), H, A)
      BY <1>2, <1>5, <2>1, <2>2, DispatchEffect
    <2> QED
      BY <2>1, <2>3
  <1> QED
    BY <1>1, <1>2, <1>3, <1>4, <1>5, SMTT(30)

\* A server asks for votes, or wins at once (StartElection).
LEMMA StartElectionEffect ==
    ASSUME NEW H, NEW A, LogsOK(H), NEW i \in Server, NEW s \in ServerState, ServerFit(s, H),
           s.role # "leader", s.out = {}, s.emitted = {},
           \A L \in H : LastOf(L) = s.term + 1 => StartElection(i, s).role # "leader",
           Len(StartElection(i, s).log) <= MaxEntries
    PROVE  Effect(i, s, StartElection(i, s), H, A)
  <1> DEFINE c == Candidate(i, s)
             sent == {RequestVote(i, c, p) : p \in Peers(i)}
             d == [c EXCEPT !.out = sent]
             w == BecomeLeader(i, c)
             r == StartElection(i, s)
  <1>1. /\ c \in ServerState /\ c.out = {} /\ c.role = "candidate" /\ c.term = s.term + 1
        /\ c.base = s.base /\ c.log = s.log /\ c.commit = s.commit /\ c.emitted = {}
        /\ r = IF IsQuorum({i}) THEN w ELSE d
    BY StartElectionIs
  <1>2. c.votedFor = i
    BY DEF Candidate, ServerState
  <1>3. \A m \in sent : m.kind = "RequestVote" /\ m.lastIndex = LastIndex(c) /\ m.lastTerm = LastTerm(c)
    BY SMTT(30) DEF RequestVote
  <1> HIDE DEF c, sent, r
  <1>4. s.term \in Nat /\ LastOf(s.log) \in Nat
    BY Fields, SMTT(30) DEF LastOf
  <1>5. CASE IsQuorum({i})
    <2>1. w.role = "leader"
      <3> DEFINE f == Fresh(i, c)
      <3>1. f \in ServerState /\ w = Propose(i, f)
        BY <1>1, BecomeLeaderIs
      <3>2. f.role = "leader"
        BY SMTT(30) DEF Fresh, ServerState
      <3> HIDE DEF f, w
      <3> QED
        BY <3>1, <3>2, ProposeSameRole DEF SameRole
    <2>2. Wins(i, c, w)
      BY <1>1, <1>4, <1>5, <2>1, BecomeLeaderWins, SMTT(30) DEF ServerFit, r
    <2> HIDE DEF w
    <2> QED
      BY <1>1, <1>2, <1>4, <1>5, <2>2, SMTT(30) DEF Effect, r, Wins, Led, MatchFrom, Voting
  <1>6. CASE ~IsQuorum({i})
    <2>1. /\ d.log = c.log /\ d.term = c.term /\ d.role = "candidate" /\ d.out = sent
          /\ d.commit = c.commit /\ d.emitted = {} /\ d.votedFor = i
      BY <1>1, <1>2 DEF ServerState
    <2> HIDE DEF d
    <2> QED
      BY <1>1, <1>3, <1>4, <1>6, <2>1, NoBase, SMTT(30) DEF Effect, r, Quiet, ServerFit, Voting
  <1> QED
    BY <1>5, <1>6

\* The record that a step makes.
LEMMA MadeEffect ==
    ASSUME IInv, HintInv, NEW H, NEW A, LogInv(H), \A m \in msgs : MessageSafe(m, committed, H, A),
           NEW i \in Server, NEW r, Made(i, r), r.base.index = 0,
           \A a, b \in Won(i, r) : a.term = b.term => a.server = b.server,
           Len(r.log) <= MaxEntries, Len(node[i].log) <= MaxEntries
    PROVE  Effect(i, node[i], r, H, A)
  <1> DEFINE s == node[i]
  <1>1. /\ s \in ServerState /\ s.out = {} /\ s.emitted = {} /\ s.term \in Nat /\ ServerFit(s, H)
        /\ LogsOK(H) /\ Fits(s, H)
    BY Fields DEF LogInv, Fits, IInv, TypeOK, Drained
  <1>2. CASE s.role # "leader" /\ r = StartElection(i, s)
    BY <1>1, <1>2, StartElectionTerm, NoEarlierLog, StartElectionEffect, SMTT(30) DEF s
  <1>3. CASE s.role = "leader" /\ r = Heartbeat(i, s)
    BY <1>1, <1>3, HeartbeatEffect
  <1>4. CASE s.role = "leader" /\ r = Propose(i, s)
    <2> HIDE DEF s
    <2>1. Led(i, s, r)
      BY <1>1, <1>4, ProposeLeads, SMTT(30) DEF Led, MatchFrom, ServerFit, LeaderFit, MayAppend
    <2>2. Voting(i, s, r)
      BY <1>1, <1>4, ProposeLeads, SMTT(30) DEF Voting, ServerFit, LeaderFit, MayAppend
    <2> QED
      BY <2>1, <2>2 DEF Effect, s
  <1>5. CASE s.role = "leader" /\ \E floor \in Nat : r = StartReadIndex(i, s, floor)
    BY <1>1, <1>5, HeartbeatEffect
  <1>6. CASE \E m \in msgs : m.to = i /\ r = Step(i, s, m)
    BY <1>6, StepEffect
  <1>7. CASE r = Boot(s.term, s.votedFor, s.base, s.log)
    BY <1>1, <1>7 DEF Boot, ServerFit, Quiet, Voting, Effect
  <1>8. ~\E n \in 1 .. MaxBase : r = CompactTo(s, n)
    <2> SUFFICES ASSUME NEW n \in 1 .. MaxBase, r = CompactTo(s, n) PROVE FALSE
      OBVIOUS
    <2> QED
      BY SMTT(30) DEF CompactTo, ServerState
  <1> QED
    BY <1>2, <1>3, <1>4, <1>5, <1>6, <1>7, <1>8 DEF Made

-----------------------------------------------------------------------------
(* A step keeps the invariant. *)

\* What draining a record leaves behind.
LEMMA DrainAfter ==
    ASSUME IInv, NEW i \in Server, NEW r \in ServerState, NEW consumed, Drain(i, r, consumed)
    PROVE  After(i, r) /\ node'[i].base = r.base
  <1> DEFINE rest == [r EXCEPT !.out = {}, !.emitted = {}, !.confirmed = {}]
  <1> HIDE DEF rest
  <1> QED
    BY DEF After, IInv, TypeOK, Drain, ServerState

\* The step of server i, from the history H, A to the history G, B.
StepOf(i, r, H, G, A) == Moved(i, r, H, G, A) /\ After(i, r)

\* A step of the cluster is the step of one server, or only loses messages.
LEMMA NextMoves ==
    ASSUME IInv, HintInv, [Next]_vars, Uncompacted', OneMessage, OneMessage',
           NEW H, LogInv(H), NEW A, SafeInv(H, A)
    PROVE  \/ \E i \in Server : \E r : \E G : StepOf(i, r, H, G, A) /\ LogInv(G)'
           \/ /\ msgs' \subseteq msgs /\ UNCHANGED <<node, cast, elected, committed, reads>>
              /\ LogInv(H)'
  <1>1. IInv'
    BY NextIInv
  <1>2. ElectionSafety'
    BY <1>1, IInvElectionSafety, PTL
  <1> SUFFICES ASSUME NEW i \in Server, NEW r, NEW consumed, NEW G,
                      Made(i, r), Drain(i, r, consumed), Grows(H, G, r), LogInv(G)'
               PROVE  StepOf(i, r, H, G, A)
    BY NextLogs
  <1>3. r.base.index = 0 /\ Len(r.log) <= MaxEntries /\ Len(node[i].log) <= MaxEntries
    BY DrainAfter, MadeNames, SMTT(30) DEF After, Uncompacted, OneMessage, Allowed
  <1> QED
    BY <1>2, <1>3, MadeNames, DrainAfter, MadeCampaigns, MadeEffect
       DEF StepOf, Moved, Allowed, ElectionSafety, Drain, Won, SafeInv

\* The four invariants together.
SafetyInv == IInv /\ HintInv /\ \E H, A : LogInv(H) /\ SafeInv(H, A)

\* The invariant is inductive.
LEMMA NextSafe ==
    ASSUME SafetyInv, [Next]_vars, Uncompacted', OneMessage, OneMessage'
    PROVE  SafetyInv'
  <1>1. PICK H, A : LogInv(H) /\ SafeInv(H, A)
    BY DEF SafetyInv
  <1>2. CASE \E i \in Server : \E r : \E G : StepOf(i, r, H, G, A) /\ LogInv(G)'
    <2> PICK i \in Server : \E r : \E G : StepOf(i, r, H, G, A) /\ LogInv(G)'
      BY <1>2
    <2> PICK r : \E G : StepOf(i, r, H, G, A) /\ LogInv(G)'
      OBVIOUS
    <2>1. PICK G : StepOf(i, r, H, G, A) /\ LogInv(G)'
      OBVIOUS
    <2>2. PICK B : B = A \cup Acks(i, r)
      OBVIOUS
    <2> QED
      BY MovedSafe, NextIInv, NextHint DEF SafetyInv, StepOf
  <1>3. CASE /\ msgs' \subseteq msgs /\ UNCHANGED <<node, cast, elected, committed, reads>>
             /\ LogInv(H)'
    BY <1>1, <1>3, NextIInv, NextHint DEF SafeInv, LaterHaveChosen, Lost, SafetyInv
  <1> QED
    BY <1>1, <1>2, <1>3, NextMoves DEF SafetyInv

\* It holds at the start: nothing was acknowledged.
LEMMA InitSafe == Init => SafetyInv
  <1> SUFFICES ASSUME Init PROVE SafetyInv
    OBVIOUS
  <1> DEFINE b == Boot(0, Nil, [index |-> 0, term |-> 0], <<>>)
  <1>1. b.role = "follower" /\ b.log = <<>> /\ b.commit = 0 /\ b.votedFor = Nil
    BY DEF Boot
  <1>2. (\A i \in Server : node[i] = b) /\ msgs = {} /\ cast = {} /\ committed = {}
    BY DEF Init
  <1> HIDE DEF b
  <1>3. <<>> \in Seq(Nat)
    BY SMTT(30)
  <1>4. SafeInv({}, {})
    BY <1>1, <1>2, <1>3, NothingSettled DEF SafeInv, LaterHaveChosen, Backs
  <1> QED
    BY <1>4, InitIInv, InitHint, InitLogs DEF SafetyInv

\* The invariant holds along every behaviour under the premise.
LEMMA SafetyHolds == Spec /\ []Whole => []SafetyInv
  <1>1. SafetyInv /\ [Next]_vars /\ Whole /\ Whole' => SafetyInv'
    BY NextSafe DEF Whole
  <1> QED
    BY <1>1, InitSafe, PTL DEF Spec

-----------------------------------------------------------------------------
(* The theorems. *)

\* State machine safety: no two servers ever apply different entries at one index,
\* whatever crashes, restarts and losses lie between them (EmitCommitted).
THEOREM StateMachinesAgree == Spec /\ []Whole => []StateMachineSafety
  <1>1. ASSUME SafetyInv PROVE StateMachineSafety
    <2> SUFFICES ASSUME NEW a \in committed, NEW b \in committed, a.index = b.index
                 PROVE  a.term = b.term
      BY DEF StateMachineSafety
    <2>1. PICK H, A : LogInv(H) /\ SafeInv(H, A)
      BY <1>1 DEF SafetyInv
    <2>2. PICK L \in H : Chosen(L, A) /\ a.index \in 1 .. Len(L) /\ L[a.index] = a.term
      BY <2>1 DEF SafeInv, Witnessed
    <2>3. PICK M \in H : Chosen(M, A) /\ a.index \in 1 .. Len(M) /\ M[a.index] = b.term
      BY <2>1 DEF SafeInv, Witnessed
    <2>4. LastOf(L) \in Nat /\ LastOf(M) \in Nat
      BY <2>1, LastOfType DEF LogsOK, LogInv, SafeInv
    <2> QED
      BY <2>1, <2>2, <2>3, <2>4, ChosenOrder, SMTT(30) DEF Prefix, LogInv, SafeInv
  <1>2. SafetyInv => StateMachineSafety
    BY <1>1
  <1> QED
    BY <1>2, SafetyHolds, PTL

\* Leader completeness: a leader holds every entry that was committed up to its own
\* term, so that an election never loses one (the up-to-date check of
\* HandleRequestVote, MaybeAdvanceCommit's count of its own term only).
THEOREM LeadersAreComplete == Spec /\ []Whole => []LeaderCompleteness
  <1>1. ASSUME SafetyInv PROVE LeaderCompleteness
    <2> SUFFICES ASSUME NEW i \in Server, node[i].role = "leader", NEW c \in committed,
                        c.at <= node[i].term
                 PROVE  Holds(node[i], c)
      BY DEF LeaderCompleteness
    <2> DEFINE M == node[i].log
    <2>1. PICK H, A : LogInv(H) /\ SafeInv(H, A)
      BY <1>1 DEF SafetyInv
    <2>2. /\ LogsOK(H) /\ LaterHaveChosen(H, A) /\ LeaderFit(node[i], H)
          /\ node[i].base.index = 0 /\ node[i].base.term = 0
      BY <2>1 DEF LogInv, SafeInv, ServerFit
    <2>3. PICK L \in H : /\ Chosen(L, A) /\ LastOf(L) = c.at
                         /\ c.index \in 1 .. Len(L) /\ L[c.index] = c.term
      BY <2>1 DEF SafeInv, Witnessed
    <2>4. M \in H /\ LastOf(M) = node[i].term /\ (LastOf(L) = LastOf(M) => Prefix(L, M))
      BY <2>2 DEF LeaderFit
    <2>5. c.index \in 1 .. Len(M) /\ M[c.index] = c.term
      BY <2>2, <2>3, <2>4, ChosenOrder, SMTT(30) DEF Prefix
    <2>6. LastIndex(node[i]) = Len(M) /\ TermAt(node[i], c.index) = M[c.index]
      BY <1>1, <2>2, <2>5, NoBase, Standing DEF SafetyInv
    <2> HIDE DEF M
    <2> QED
      BY <2>5, <2>6, SMTT(30) DEF Holds
  <1>2. SafetyInv => LeaderCompleteness
    BY <1>1
  <1> QED
    BY <1>2, SafetyHolds, PTL

\* What a follower acknowledged stays: the leader of its term may count it towards
\* a majority at any later time (HandleAppendEntries, Acknowledge).
THEOREM AcknowledgementsStand == Spec /\ []Whole => []AcknowledgedEntriesStay
  <1>1. ASSUME SafetyInv PROVE AcknowledgedEntriesStay
    <2> SUFFICES ASSUME NEW i \in Server, node[i].role = "leader", NEW p \in Peers(i),
                        node[p].term = node[i].term,
                        NEW k \in node[i].base.index + 1 .. node[i].match[p]
                 PROVE  Holds(node[p], [index |-> k, term |-> TermAt(node[i], k)])
      BY DEF AcknowledgedEntriesStay
    <2> DEFINE M == node[i].log
               N == node[p].log
               e == [index |-> k, term |-> TermAt(node[i], k)]
    <2>1. PICK H, A : LogInv(H) /\ SafeInv(H, A)
      BY <1>1 DEF SafetyInv
    <2>2. p \in Server /\ node[i] \in ServerState /\ node[p] \in ServerState
      BY <1>1, Standing DEF SafetyInv, Peers
    <2>3. /\ LogsOK(H) /\ LeaderFit(node[i], H) /\ ServerFit(node[p], H)
          /\ node[i].base.index = 0 /\ node[i].base.term = 0
          /\ node[p].base.index = 0 /\ node[p].base.term = 0
      BY <2>1, <2>2 DEF LogInv, ServerFit
    <2>4. /\ node[i].term \in Nat /\ node[i].match[p] \in Nat /\ Len(M) \in Nat /\ Len(N) \in Nat
          /\ M \in Seq(Nat) /\ N \in Seq(Nat) /\ LastOf(N) \in Nat
      BY <2>2, Fields, LastOfType
    <2>5. k \in Nat /\ k >= 1 /\ k <= node[i].match[p] /\ node[i].match[p] # 0
      BY <2>3, SMTT(30)
    <2>6. PICK a \in A : /\ a.server = p /\ a.term = node[i].term
                         /\ node[i].match[p] <= Len(a.log)
      BY <2>1, <2>2, <2>5 DEF Backs, Backed, SafeInv
    <2>7. a.log \in H /\ AtLeast(N, node[i].term, Len(a.log)) /\ Len(a.log) \in Nat
      BY <2>1, <2>6, SMTT(30) DEF AckOK, LogsOK, SafeInv
    <2>8. LastOf(N) = node[i].term /\ Len(a.log) <= Len(N)
      BY <2>3, <2>4, <2>7, SMTT(30) DEF AtLeast, ServerFit
    <2>9. k <= Len(N) /\ N # <<>>
      BY <2>4, <2>5, <2>6, <2>7, <2>8, SMTT(30)
    <2>10. Prefix(N, M)
      BY <2>3, <2>8, <2>9 DEF ServerFit, LeaderFit
    <2>11. k \in 1 .. Len(N) /\ k \in 1 .. Len(M) /\ N[k] = M[k]
      BY <2>5, <2>9, <2>10, SMTT(30) DEF Prefix
    <2>12. /\ LastIndex(node[p]) = Len(N) /\ TermAt(node[p], k) = N[k]
           /\ TermAt(node[i], k) = M[k]
      BY <2>2, <2>3, <2>11, NoBase
    <2> HIDE DEF e, M, N
    <2> QED
      BY <2>11, <2>12, SMTT(30) DEF e, Holds
  <1>2. SafetyInv => AcknowledgedEntriesStay
    BY <1>1
  <1> QED
    BY <1>2, SafetyHolds, PTL

\* A committed entry is never truncated: a server that holds it keeps it, whatever
\* append it gets (docs/raft.md "Committed entries are never truncated";
\* HandleAppendEntries, Restart).
THEOREM CommitsStay == Spec /\ []Whole => CommittedEntriesStay
  <1> DEFINE Kept ==
        \A i \in Server : node'[i] # node[i] =>
            \A c \in committed : c.at <= node[i].term /\ Holds(node[i], c) => Holds(node'[i], c)
  <1>1. ASSUME SafetyInv, SafetyInv', [Next]_vars, Whole, Whole' PROVE Kept
    <2> SUFFICES ASSUME NEW i \in Server, node'[i] # node[i], NEW c \in committed,
                        c.at <= node[i].term, Holds(node[i], c)
                 PROVE  Holds(node'[i], c)
      OBVIOUS
    <2>1. PICK H, A : LogInv(H) /\ SafeInv(H, A)
      BY <1>1 DEF SafetyInv
    <2>2. PICK j \in Server : \E r : \E G : StepOf(j, r, H, G, A)
      BY <1>1, <2>1, NextMoves DEF SafetyInv, Whole
    <2>3. PICK r, G : StepOf(j, r, H, G, A)
      BY <2>2
    <2>4. j = i /\ Moved(i, r, H, G, A) /\ node'[i].log = r.log
      BY <2>3 DEF StepOf, After
    <2>5. PICK L \in H : c.index \in 1 .. Len(L)
      BY <2>1 DEF SafeInv, Witnessed
    <2>6. c.index \in Nat /\ c.index >= 1
      BY <2>5, SMTT(30) DEF LogInv, LogsOK
    <2>7. node[i] \in ServerState /\ node'[i] \in ServerState
      BY <1>1 DEF SafetyInv, IInv, TypeOK
    <2>8. /\ node[i].base.index = 0 /\ node[i].base.term = 0
          /\ node'[i].base.index = 0 /\ node'[i].base.term = 0
      BY <1>1 DEF SafetyInv, LogInv, ServerFit
    <2>9. c.index \in 1 .. Len(r.log) /\ r.log[c.index] = c.term
      BY <2>4, <2>6, <2>7, <2>8, MoverKeeps, NoBase, SMTT(30) DEF Holds
    <2> QED
      BY <2>4, <2>7, <2>8, <2>9, NoBase, SMTT(30) DEF Holds
  <1>2. SafetyInv /\ SafetyInv' /\ [Next]_vars /\ Whole /\ Whole' => [Kept]_vars
    BY <1>1
  <1> QED
    BY <1>2, SafetyHolds, PTL DEF Spec, CommittedEntriesStay

=============================================================================
