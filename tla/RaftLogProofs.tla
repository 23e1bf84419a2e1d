--------------------------- MODULE RaftLogProofs ---------------------------
(***************************************************************************)
(* Who leads and what the logs hold: every leader named anywhere was       *)
(* elected, for every cluster and every bound, and, without snapshots, the *)
(* logs of any two servers match.                                          *)
(*                                                                         *)
(* The layout is that of RaftProofs: the functions of the class lead from  *)
(* a record of the right form to one of the right form, and draining such  *)
(* a record keeps the invariant.                                           *)
(***************************************************************************)
EXTENDS RaftProofs

-----------------------------------------------------------------------------
(* Leaders. *)

\* r has the term, the role and the leader of s: the frame of every function that
\* does not change the role.
SameRole(i, s, r) ==
    /\ r \in ServerState
    /\ r.term = s.term /\ r.role = s.role /\ r.leader = s.leader
    /\ \A m \in r.out : m \in s.out \/ Mine(i, s, m)

\* The same for a function that leaves the log alone, too.
Stays(i, s, r) == SameRole(i, s, r) /\ r.base = s.base /\ r.log = s.log

\* Zenon proves the leaves that name no other prover.
USE ZenonT(30)

\* Both compose.
LEMMA SameRoleTransitive ==
    ASSUME NEW i, NEW s, NEW q, NEW r, SameRole(i, s, q), SameRole(i, q, r)
    PROVE  SameRole(i, s, r)
  BY DEF SameRole, Mine

\* Two functions that leave the log alone, one after the other.
LEMMA StaysTransitive ==
    ASSUME NEW i, NEW s, NEW q, NEW r, Stays(i, s, q), Stays(i, q, r)
    PROVE  Stays(i, s, r)
  BY SameRoleTransitive DEF Stays

\* Leaving a record alone is the least a function can do.
LEMMA StaysReflexive ==
    ASSUME NEW i, NEW s \in ServerState
    PROVE  Stays(i, s, s)
  BY DEF Stays, SameRole

\* A function of this frame names no new leader.
LEMMA SameRoleNames ==
    ASSUME NEW i, NEW s, NEW r, Names(i, s), SameRole(i, s, r)
    PROVE  Names(i, r)
  BY DEF SameRole, Names, Mine, Won, Elections

\* Send adds a message to ready_ (Send).
LEMMA SendStays ==
    ASSUME NEW i, NEW s \in ServerState, NEW m \in Message, Mine(i, s, m)
    PROVE  Stays(i, s, Send(s, m))
  BY DEF Stays, SameRole, Send, ServerState

\* What SendAppend sends comes from its sender, in its term, and goes to another.
LEMMA AppendMessageFrom ==
    ASSUME NEW i, NEW s, NEW p
    PROVE  LET m == AppendMessage(i, s, p)
           IN  m.from = i /\ m.to = p /\ m.term = s.term
  BY DEF AppendMessage, InstallSnapshot, AppendEntries

\* BroadcastAppend of a leader sends to the others.
LEMMA BroadcastAppendStays ==
    ASSUME NEW i \in Server, NEW s \in ServerState, s.role = "leader"
    PROVE  Stays(i, s, BroadcastAppend(i, s))
  <1> DEFINE sent == {AppendMessage(i, s, p) : p \in Peers(i)}
  <1>1. \A m \in sent : m \in Message /\ Mine(i, s, m)
    BY AppendMessageType, AppendMessageFrom, SMTT(30) DEF Peers, Mine
  <1> HIDE DEF sent
  <1>2. Stays(i, s, [s EXCEPT !.out = @ \cup sent])
    BY <1>1 DEF Stays, SameRole, ServerState
  <1> QED
    BY <1>2 DEF BroadcastAppend, sent

\* SendAppend of a leader to a peer.
LEMMA SendAppendStays ==
    ASSUME NEW i \in Server, NEW s \in ServerState, s.role = "leader", NEW p \in Peers(i)
    PROVE  Stays(i, s, SendAppend(i, s, p))
  BY AppendMessageType, AppendMessageFrom, SendStays, SMTT(30) DEF Peers, Mine, SendAppend

\* EmitCommitted moves commit_ only.
LEMMA EmitCommittedStays ==
    ASSUME NEW i, NEW s \in ServerState, NEW n \in Nat
    PROVE  Stays(i, s, EmitCommitted(s, n))
  <1>1. EmitCommitted(s, n) \in ServerState
    BY EmitCommittedKeeps DEF Keeps
  <1> QED
    BY <1>1 DEF Stays, SameRole, EmitCommitted, ServerState

\* MaybeAdvanceCommit moves commit_, if anything.
LEMMA MaybeAdvanceCommitStays ==
    ASSUME NEW i, NEW s \in ServerState
    PROVE  Stays(i, s, MaybeAdvanceCommit(s))
  <1>1. CASE s.role = "leader" /\ Countable(s) # {}
    <2>1. Countable(s) \subseteq 0 .. LastIndex(s)
      BY Fields, SMTT(30) DEF Countable
    <2> QED
      BY <1>1, <2>1, EmitCommittedStays, Fields, MaxOfMember, SMTT(30) DEF MaybeAdvanceCommit
  <1>2. CASE ~(s.role = "leader" /\ Countable(s) # {})
    BY <1>2, StaysReflexive DEF MaybeAdvanceCommit
  <1> QED
    BY <1>1, <1>2

\* The heartbeat of a leader.
LEMMA HeartbeatStays ==
    ASSUME NEW i \in Server, NEW s \in ServerState, s.role = "leader"
    PROVE  Stays(i, s, Heartbeat(i, s))
  <1> DEFINE q == [s EXCEPT !.hbSeq = s.hbSeq + 1]
  <1>1. s.hbSeq + 1 \in Nat
    BY Fields, SMTT(30)
  <1>2. Stays(i, s, q)
    BY <1>1 DEF Stays, SameRole, ServerState
  <1>3. Heartbeat(i, s) = BroadcastAppend(i, q)
    BY DEF Heartbeat
  <1> HIDE DEF q
  <1>4. Stays(i, q, BroadcastAppend(i, q))
    BY <1>2, BroadcastAppendStays, SMTT(30) DEF Stays, SameRole
  <1> QED
    BY <1>2, <1>3, <1>4, StaysTransitive

\* A read that begins at a leader.
LEMMA StartReadIndexStays ==
    ASSUME NEW i \in Server, NEW s \in ServerState, s.role = "leader", NEW floor \in Nat
    PROVE  Stays(i, s, StartReadIndex(i, s, floor))
  <1> DEFINE read == [index |-> s.commit, floor |-> floor]
             pend == [seq |-> s.hbSeq + 1, index |-> s.commit, floor |-> floor]
             q == [s EXCEPT !.hbSeq = s.hbSeq + 1, !.pending = @ \cup {pend}]
  <1>1. /\ s.hbSeq + 1 \in Nat
        /\ read \in [index : Nat, floor : Nat]
        /\ pend \in [seq : Nat, index : Nat, floor : Nat]
    BY Fields, SMTT(30)
  <1>2. StartReadIndex(i, s, floor) =
          IF IsQuorum({i}) THEN [s EXCEPT !.confirmed = @ \cup {read}] ELSE BroadcastAppend(i, q)
    BY DEF StartReadIndex
  <1> HIDE DEF read, pend
  <1>3. Stays(i, s, [s EXCEPT !.confirmed = @ \cup {read}])
    BY <1>1 DEF Stays, SameRole, ServerState
  <1>4. Stays(i, s, q)
    BY <1>1 DEF Stays, SameRole, ServerState
  <1> HIDE DEF q
  <1>5. Stays(i, q, BroadcastAppend(i, q))
    BY <1>4, BroadcastAppendStays, SMTT(30) DEF Stays, SameRole
  <1> QED
    BY <1>2, <1>3, <1>4, <1>5, StaysTransitive

\* A success response advances match and next, then counts.
LEMMA AcknowledgeStays ==
    ASSUME NEW i \in Server, NEW s \in ServerState, NEW p \in Server, NEW n \in Nat
    PROVE  Stays(i, s, Acknowledge(s, p, n))
  <1> DEFINE match == [s.match EXCEPT ![p] = Max2(@, n)]
             next == [s.next EXCEPT ![p] = Max2(@, n + 1)]
             q == [s EXCEPT !.match = match, !.next = next]
  <1>1. match \in [Server -> Nat]
    BY Fields DEF Max2
  <1>2. next \in [Server -> Nat \ {0}]
    BY Fields, SMTT(30) DEF Max2
  <1>3. q = [s EXCEPT !.match[p] = Max2(@, n), !.next[p] = Max2(@, n + 1)]
    BY DEF ServerState
  <1> HIDE DEF match, next
  <1>4. Stays(i, s, q)
    BY <1>1, <1>2 DEF Stays, SameRole, ServerState
  <1> HIDE DEF q
  <1>5. Stays(i, s, MaybeAdvanceCommit(q))
    BY <1>4, StaysTransitive, MaybeAdvanceCommitStays DEF Stays, SameRole
  <1> QED
    BY <1>3, <1>5 DEF Acknowledge

\* A failure response lowers next and sends again.
LEMMA BackOffStays ==
    ASSUME NEW i \in Server, NEW s \in ServerState, s.role = "leader", NEW p \in Peers(i),
           NEW hint \in Nat
    PROVE  Stays(i, s, BackOff(i, s, p, hint))
  <1> DEFINE low == Max2(1, Min2(IF hint # 0 THEN hint ELSE s.next[p] - 1, s.next[p] - 1))
             next == [s.next EXCEPT ![p] = low]
             q == [s EXCEPT !.next = next]
  <1>1. low \in Nat \ {0}
    BY Fields, SMTT(30) DEF Max2, Min2, Peers
  <1>2. BackOff(i, s, p, hint) = SendAppend(i, q, p)
    BY DEF BackOff, ServerState
  <1> HIDE DEF low
  <1>3. next \in [Server -> Nat \ {0}]
    BY <1>1, Fields
  <1> HIDE DEF next
  <1>4. Stays(i, s, q)
    BY <1>3 DEF Stays, SameRole, ServerState
  <1> HIDE DEF q
  <1>5. Stays(i, q, SendAppend(i, q, p))
    BY <1>4, SendAppendStays, SMTT(30) DEF Stays, SameRole
  <1> QED
    BY <1>2, <1>4, <1>5, StaysTransitive

\* Confirming reads moves them from pending to ready_.
LEMMA ConfirmReadsStays ==
    ASSUME NEW i \in Server, NEW s \in ServerState
    PROVE  Stays(i, s, ConfirmReads(i, s))
  <1>1. ConfirmReads(i, s) \in ServerState
    BY ConfirmReadsKeeps DEF Keeps
  <1> QED
    BY <1>1 DEF Stays, SameRole, ConfirmReads, ServerState

\* The leader's handling of an append response.
LEMMA HandleAppendEntriesRespStays ==
    ASSUME NEW i \in Server, NEW s \in ServerState, NEW m \in AppendEntriesRespMsg, m.from # i
    PROVE  Stays(i, s, HandleAppendEntriesResp(i, s, m))
  <1>1. CASE s.role # "leader"
    BY <1>1, StaysReflexive DEF HandleAppendEntriesResp
  <1>2. CASE s.role = "leader"
    <2> DEFINE acked == [s.hbAcked EXCEPT ![m.from] = Max2(@, m.hbSeq)]
               a == [s EXCEPT !.hbAcked = acked]
               b == IF m.success THEN Acknowledge(a, m.from, m.match)
                                 ELSE BackOff(i, a, m.from, m.hint)
    <2>1. acked \in [Server -> Nat]
      BY Fields DEF Max2, AppendEntriesRespMsg, Peers
    <2>2. a = [s EXCEPT !.hbAcked[m.from] = Max2(@, m.hbSeq)]
      BY DEF ServerState
    <2> HIDE DEF acked
    <2>3. Stays(i, s, a)
      BY <2>1 DEF Stays, SameRole, ServerState
    <2>4. HandleAppendEntriesResp(i, s, m) = ConfirmReads(i, b)
      BY <1>2, <2>2 DEF HandleAppendEntriesResp
    <2> HIDE DEF a
    <2>5. a \in ServerState /\ a.role = "leader"
      BY <1>2, <2>3 DEF Stays, SameRole
    <2>6. Stays(i, a, b)
      BY <2>5, AcknowledgeStays, BackOffStays DEF AppendEntriesRespMsg, Peers
    <2> HIDE DEF b
    <2>7. Stays(i, b, ConfirmReads(i, b))
      BY <2>6, ConfirmReadsStays DEF Stays, SameRole
    <2> QED
      BY <2>3, <2>4, <2>6, <2>7, StaysTransitive
  <1> QED
    BY <1>1, <1>2

\* The leader's handling of a snapshot response.
LEMMA HandleInstallSnapshotRespStays ==
    ASSUME NEW i \in Server, NEW s \in ServerState, NEW m \in InstallSnapshotRespMsg
    PROVE  Stays(i, s, HandleInstallSnapshotResp(s, m))
  BY AcknowledgeStays, StaysReflexive DEF InstallSnapshotRespMsg, HandleInstallSnapshotResp

\* A follower's commit index follows the leader's.
LEMMA FollowCommitStays ==
    ASSUME NEW i, NEW s \in ServerState, NEW n \in Nat
    PROVE  Stays(i, s, FollowCommit(s, n))
  BY Fields, EmitCommittedStays, StaysReflexive DEF Min2, FollowCommit

\* Every response is a message of its sender.
LEMMA ResponsesAreMine ==
    ASSUME NEW i \in Server, NEW s, NEW p, p # i, NEW b, NEW x, NEW y, NEW z
    PROVE  /\ Mine(i, s, RequestVote(i, s, p))
           /\ Mine(i, s, RequestVoteResp(i, s, p, b))
           /\ Mine(i, s, AppendEntriesResp(i, s, p, b, x, y, z))
           /\ Mine(i, s, InstallSnapshotResp(i, s, p, b, x))
  BY DEF Mine, FromLeader, RequestVote, RequestVoteResp, AppendEntriesResp, InstallSnapshotResp

\* A message of an older term is answered, or ignored.
LEMMA RefuseStaleStays ==
    ASSUME NEW i \in Server, NEW s \in ServerState, NEW m \in Message, m.from # i
    PROVE  Stays(i, s, RefuseStale(i, s, m))
  BY MessageKinds, ResponseTypes, ResponsesAreMine, SendStays, StaysReflexive DEF RefuseStale

\* Appending an entry of the leader's own term.
LEMMA AppendOwnSameRole ==
    ASSUME NEW i \in Server, NEW s \in ServerState
    PROVE  SameRole(i, s, AppendOwn(i, s))
  <1>1. AppendOwn(i, s) \in ServerState
    BY AppendOwnKeeps DEF Keeps
  <1> QED
    BY <1>1 DEF SameRole, AppendOwn, ServerState

\* Propose: append, broadcast, count.
LEMMA ProposeSameRole ==
    ASSUME NEW i \in Server, NEW s \in ServerState, s.role = "leader"
    PROVE  SameRole(i, s, Propose(i, s))
  <1> DEFINE q == AppendOwn(i, s)
             r == BroadcastAppend(i, q)
  <1>1. SameRole(i, s, q)
    BY AppendOwnSameRole
  <1> HIDE DEF q
  <1>2. SameRole(i, q, r)
    BY <1>1, BroadcastAppendStays DEF Stays, SameRole
  <1> HIDE DEF r
  <1>3. SameRole(i, r, MaybeAdvanceCommit(r))
    BY <1>2, MaybeAdvanceCommitStays DEF Stays, SameRole
  <1> QED
    BY <1>1, <1>2, <1>3, SameRoleTransitive DEF Propose, q, r

\* CompactTo drops a prefix of the log.
LEMMA CompactToSameRole ==
    ASSUME NEW i \in Server, NEW s \in ServerState, NEW n \in Nat, n > s.base.index
    PROVE  SameRole(i, s, CompactTo(s, n))
  BY CompactToKeeps DEF Keeps, SameRole, CompactTo, ServerState

\* The consistency check, the cut and the commit of HandleAppendEntries.
LEMMA AcceptEntriesSameRole ==
    ASSUME NEW i \in Server, NEW s \in ServerState, NEW m \in AppendEntriesMsg, m.from # i,
           NEW prev \in Nat, NEW prevTerm, NEW entries \in Seq(Nat), prev >= s.base.index
    PROVE  SameRole(i, s, AcceptEntries(i, s, m, prev, prevTerm, entries))
  <1>1. m.from \in Server /\ m.commit \in Nat /\ m.hbSeq \in Nat
    BY DEF AppendEntriesMsg
  <1>2. CASE prev > LastIndex(s) \/ TermAt(s, prev) # prevTerm
    BY <1>1, <1>2, ConflictHintType, ResponseTypes, ResponsesAreMine, SendStays
       DEF AcceptEntries, Stays
  <1>3. CASE ~(prev > LastIndex(s) \/ TermAt(s, prev) # prevTerm)
    <2> DEFINE q == [s EXCEPT !.log = Overwrite(s, prev, entries)]
               r == FollowCommit(q, m.commit)
               resp == AppendEntriesResp(i, s, m.from, TRUE, prev + Len(entries), 0, m.hbSeq)
    <2>1. Overwrite(s, prev, entries) \in Seq(Nat)
      BY <1>3, OverwriteType, Fields, SMTT(30)
    <2>2. SameRole(i, s, q)
      BY <2>1 DEF SameRole, ServerState
    <2>3. AcceptEntries(i, s, m, prev, prevTerm, entries) = Send(r, resp)
      BY <1>3 DEF AcceptEntries
    <2>4. prev + Len(entries) \in Nat
      BY SMTT(30)
    <2>5. resp \in Message /\ Mine(i, s, resp)
      BY <1>1, <2>4, ResponseTypes, ResponsesAreMine
    <2> HIDE DEF q, resp
    <2>6. SameRole(i, q, r)
      BY <1>1, <2>2, FollowCommitStays DEF Stays, SameRole
    <2> HIDE DEF r
    <2>7. r \in ServerState /\ Mine(i, r, resp)
      BY <2>2, <2>5, <2>6 DEF SameRole, Mine
    <2> QED
      BY <2>2, <2>3, <2>5, <2>6, <2>7, SameRoleTransitive, SendStays DEF Stays
  <1> QED
    BY <1>2, <1>3

\* A vote is granted or refused; nothing is said about a leader.
LEMMA HandleRequestVoteSameRole ==
    ASSUME NEW i \in Server, NEW s \in ServerState, NEW m \in RequestVoteMsg, m.from # i
    PROVE  SameRole(i, s, HandleRequestVote(i, s, m))
  <1>1. m.from \in Server
    BY DEF RequestVoteMsg
  <1>2. CASE s.votedFor \in {Nil, m.from} /\ UpToDate(s, m)
    <2> DEFINE resp == RequestVoteResp(i, s, m.from, TRUE)
               q == [s EXCEPT !.votedFor = m.from]
    <2>1. resp \in Message /\ Mine(i, s, resp)
      BY <1>1, ResponseTypes, ResponsesAreMine
    <2>2. SameRole(i, s, q)
      BY <1>1 DEF SameRole, ServerState
    <2>3. HandleRequestVote(i, s, m) = Send(q, resp)
      BY <1>2 DEF HandleRequestVote
    <2> HIDE DEF q, resp
    <2> QED
      BY <2>1, <2>2, <2>3, SendStays, SMTT(30) DEF Stays, SameRole, Mine
  <1>3. CASE ~(s.votedFor \in {Nil, m.from} /\ UpToDate(s, m))
    BY <1>1, <1>3, ResponseTypes, ResponsesAreMine, SendStays DEF HandleRequestVote, Stays
  <1> QED
    BY <1>2, <1>3

\* A server that becomes a follower forgets its leader, or takes one that was
\* elected.
LEMMA BecomeFollowerNames ==
    ASSUME NEW i \in Server, NEW s \in ServerState, s.out = {}, NEW t \in Nat, t >= s.term,
           NEW ldr \in Server \cup {Nil}, ldr # Nil => [term |-> t, server |-> ldr] \in elected
    PROVE  Names(i, BecomeFollower(s, t, ldr))
  BY BecomeFollowerIs, SMTT(30) DEF Names, Won

\* Hearing from the leader of the term.
LEMMA HearLeaderNames ==
    ASSUME NEW i \in Server, NEW s \in ServerState, s.out = {}, NEW m, m.from \in Server,
           [term |-> s.term, server |-> m.from] \in elected
    PROVE  Names(i, HearLeader(s, m))
  BY HearLeaderIs DEF Names, Won

\* A follower's handling of an append: after HearLeader, the role is kept.
LEMMA HandleAppendEntriesSameRole ==
    ASSUME NEW i \in Server, NEW s0 \in ServerState, NEW m \in AppendEntriesMsg, m.from # i
    PROVE  SameRole(i, HearLeader(s0, m), HandleAppendEntries(i, s0, m))
  <1> DEFINE s == HearLeader(s0, m)
             covered == s.base.index - m.prev
  <1>1. /\ m.from \in Server
        /\ m.prev \in Nat
        /\ m.entries \in Seq(Nat)
        /\ Len(m.entries) \in Nat
        /\ m.hbSeq \in Nat
    BY SMTT(30) DEF AppendEntriesMsg
  <1>2. s \in ServerState
    BY <1>1, HearLeaderIs
  <1> HIDE DEF s
  <1>3. s.base.index \in Nat /\ s.base.index >= s.base.index
    BY <1>2, Fields, SMTT(30)
  <1>4. CASE m.prev >= s.base.index
    BY <1>1, <1>2, <1>4, AcceptEntriesSameRole DEF HandleAppendEntries, s
  <1>5. CASE ~(m.prev >= s.base.index) /\ Len(m.entries) <= covered
    <2> DEFINE match == Max2(s.base.index, m.prev + Len(m.entries))
               resp == AppendEntriesResp(i, s, m.from, TRUE, match, 0, m.hbSeq)
    <2>1. match \in Nat
      BY <1>1, <1>3, SMTT(30) DEF Max2
    <2>2. HandleAppendEntries(i, s0, m) = Send(s, resp)
      BY <1>5 DEF HandleAppendEntries, s
    <2> HIDE DEF match
    <2>3. resp \in Message /\ Mine(i, s, resp)
      BY <1>1, <1>2, <2>1, ResponseTypes, ResponsesAreMine
    <2> HIDE DEF resp
    <2> QED
      BY <1>2, <2>2, <2>3, SendStays DEF Stays, s
  <1>6. CASE ~(m.prev >= s.base.index) /\ ~(Len(m.entries) <= covered)
    <2> DEFINE rest == SubSeq(m.entries, covered + 1, Len(m.entries))
    <2>1. covered + 1 \in Nat \ {0}
      BY <1>1, <1>3, <1>6, SMTT(30)
    <2>2. rest \in Seq(Nat)
      BY <1>1, <2>1, SMTT(30)
    <2>3. HandleAppendEntries(i, s0, m) = AcceptEntries(i, s, m, s.base.index, s.base.term, rest)
      BY <1>6 DEF HandleAppendEntries, s
    <2> HIDE DEF rest
    <2> QED
      BY <1>2, <1>3, <2>2, <2>3, AcceptEntriesSameRole DEF s
  <1> QED
    BY <1>4, <1>5, <1>6

\* A follower's handling of a snapshot: the same.
LEMMA HandleInstallSnapshotSameRole ==
    ASSUME NEW i \in Server, NEW s0 \in ServerState, NEW m \in InstallSnapshotMsg, m.from # i
    PROVE  SameRole(i, HearLeader(s0, m), HandleInstallSnapshot(i, s0, m))
  <1> DEFINE s == HearLeader(s0, m)
             n == IF m.snap.index <= s.commit THEN s.commit ELSE m.snap.index
             q == IF m.snap.index <= s.commit THEN s
                  ELSE [s EXCEPT !.base = m.snap, !.log = <<>>, !.commit = m.snap.index]
             resp == InstallSnapshotResp(i, s, m.from, TRUE, n)
  <1>0. /\ m.from \in Server
        /\ m.snap \in Snapshot
        /\ m.snap.index \in Nat
    BY DEF InstallSnapshotMsg, Snapshot
  <1>1. s \in ServerState
    BY <1>0, HearLeaderIs
  <1>2. HandleInstallSnapshot(i, s0, m) = Send(q, resp)
    BY DEF HandleInstallSnapshot
  <1> HIDE DEF s
  <1>3. n \in Nat /\ <<>> \in Seq(Nat)
    BY <1>0, <1>1, Fields, SMTT(30)
  <1> HIDE DEF n
  <1>4. resp \in Message /\ Mine(i, s, resp)
    BY <1>0, <1>1, <1>3, ResponseTypes, ResponsesAreMine
  <1>5. SameRole(i, s, q)
    BY <1>0, <1>1, <1>3 DEF SameRole, ServerState
  <1> HIDE DEF q, resp
  <1>6. q \in ServerState /\ Mine(i, q, resp)
    BY <1>4, <1>5 DEF SameRole, Mine
  <1>7. SameRole(i, q, Send(q, resp))
    BY <1>4, <1>6, SendStays DEF Stays
  <1> QED
    BY <1>2, <1>5, <1>7, SameRoleTransitive DEF s

\* What BecomeLeader does: a fresh leader that proposes the no-op.
Fresh(i, s) ==
    [s EXCEPT !.role = "leader",
              !.leader = i,
              !.next = [p \in Server |-> LastIndex(s) + 1],
              !.match = [p \in Server |-> 0],
              !.hbAcked = [p \in Server |-> 0],
              !.hbSeq = @ + 1]

\* The no-op of a new leader is its first proposal (BecomeLeader, Propose).
LEMMA BecomeLeaderIs ==
    ASSUME NEW i \in Server, NEW s \in ServerState
    PROVE  /\ BecomeLeader(i, s) = Propose(i, Fresh(i, s))
           /\ Fresh(i, s) \in ServerState
  <1> DEFINE next == [p \in Server |-> LastIndex(s) + 1]
             zero == [p \in Server |-> 0]
             seq == s.hbSeq + 1
  <1>1. /\ next \in [Server -> Nat \ {0}]
        /\ zero \in [Server -> Nat]
        /\ seq \in Nat
    BY Fields, SMTT(30)
  <1> DEFINE f == [s EXCEPT !.role = "leader", !.leader = i, !.next = next,
                            !.match = zero, !.hbAcked = zero, !.hbSeq = seq]
  <1>2. Fresh(i, s) = f
    BY DEF Fresh
  <1> HIDE DEF next, zero, seq
  <1>3. f \in ServerState
    BY <1>1 DEF ServerState
  <1> HIDE DEF f
  <1> QED
    BY <1>2, <1>3 DEF BecomeLeader, Propose, Fresh

\* A new leader names itself.
LEMMA BecomeLeaderNames ==
    ASSUME NEW i \in Server, NEW s \in ServerState, s.out = {}
    PROVE  Names(i, BecomeLeader(i, s))
  <1> DEFINE f == Fresh(i, s)
  <1>1. f \in ServerState /\ BecomeLeader(i, s) = Propose(i, f)
    BY BecomeLeaderIs
  <1>2. f.role = "leader" /\ f.leader = i /\ f.out = {}
    BY DEF Fresh, ServerState
  <1> HIDE DEF f
  <1>3. Names(i, f)
    BY <1>2 DEF Names, Won, Elections
  <1> QED
    BY <1>1, <1>2, <1>3, ProposeSameRole, SameRoleNames

\* Counting a vote, which may win the election.
LEMMA HandleRequestVoteRespNames ==
    ASSUME NEW i \in Server, NEW s \in ServerState, Names(i, s), s.out = {},
           NEW m \in RequestVoteRespMsg
    PROVE  Names(i, HandleRequestVoteResp(i, s, m))
  <1> DEFINE votes == IF m.granted THEN s.votes \cup {m.from} ELSE s.votes \ {m.from}
             v == [s EXCEPT !.votes = votes]
  <1>1. CASE s.role # "candidate"
    BY <1>1 DEF HandleRequestVoteResp
  <1>2. CASE s.role = "candidate"
    <2>1. votes \in SUBSET Server
      BY Fields DEF RequestVoteRespMsg
    <2>2. HandleRequestVoteResp(i, s, m) = IF IsQuorum(v.votes) THEN BecomeLeader(i, v) ELSE v
      BY <1>2 DEF HandleRequestVoteResp
    <2> HIDE DEF votes
    <2>3. SameRole(i, s, v) /\ v.out = {}
      BY <2>1 DEF SameRole, ServerState
    <2> HIDE DEF v
    <2> QED
      BY <2>2, <2>3, BecomeLeaderNames, SameRoleNames DEF SameRole
  <1> QED
    BY <1>1, <1>2

\* What StartElection does: a candidate of the next term that either has its
\* majority at once or asks for votes.
Candidate(i, s) ==
    [s EXCEPT !.role = "candidate",
              !.term = @ + 1,
              !.votedFor = i,
              !.leader = Nil,
              !.votes = {i}]

\* The candidate's record and what follows from it (StartElection).
LEMMA StartElectionIs ==
    ASSUME NEW i \in Server, NEW s \in ServerState, s.out = {}
    PROVE  LET c == Candidate(i, s)
               sent == {RequestVote(i, c, p) : p \in Peers(i)}
           IN  /\ c \in ServerState /\ c.out = {} /\ c.leader = Nil /\ c.role = "candidate"
               /\ c.term = s.term + 1 /\ c.base = s.base /\ c.log = s.log
               /\ c.commit = s.commit /\ c.pending = s.pending
               /\ c.emitted = s.emitted /\ c.confirmed = s.confirmed
               /\ StartElection(i, s) =
                    IF IsQuorum({i}) THEN BecomeLeader(i, c) ELSE [c EXCEPT !.out = sent]
               /\ \A m \in sent : m \in Message /\ Mine(i, c, m)
  <1> DEFINE t == s.term + 1
             c == [s EXCEPT !.role = "candidate", !.term = t, !.votedFor = i,
                            !.leader = Nil, !.votes = {i}]
             sent == {RequestVote(i, c, p) : p \in Peers(i)}
  <1>1. t \in Nat
    BY Fields, SMTT(30)
  <1>2. Candidate(i, s) = c
    BY DEF Candidate
  <1>3. StartElection(i, s) = IF IsQuorum({i}) THEN BecomeLeader(i, c)
                              ELSE [c EXCEPT !.out = @ \cup sent]
    BY DEF StartElection
  <1>4. /\ c \in ServerState /\ c.out = {} /\ c.leader = Nil /\ c.role = "candidate"
        /\ c.term = t /\ c.base = s.base /\ c.log = s.log
        /\ c.commit = s.commit /\ c.pending = s.pending
        /\ c.emitted = s.emitted /\ c.confirmed = s.confirmed
    <2> HIDE DEF t
    <2> QED
      BY <1>1 DEF ServerState
  <1> HIDE DEF c
  <1> QED
    BY <1>2, <1>3, <1>4, Fields, LastTermType, SMTT(30)
       DEF Peers, RequestVote, RequestVoteMsg, Message, Mine, FromLeader

\* A candidate knows no leader, or is one.
LEMMA StartElectionNames ==
    ASSUME NEW i \in Server, NEW s \in ServerState, s.out = {}
    PROVE  Names(i, StartElection(i, s))
  <1> DEFINE c == Candidate(i, s)
             sent == {RequestVote(i, c, p) : p \in Peers(i)}
  <1>1. /\ c \in ServerState /\ c.out = {} /\ c.leader = Nil
        /\ StartElection(i, s) = IF IsQuorum({i}) THEN BecomeLeader(i, c) ELSE [c EXCEPT !.out = sent]
        /\ \A m \in sent : m \in Message /\ Mine(i, c, m)
    BY StartElectionIs
  <1> HIDE DEF c, sent
  <1>2. CASE IsQuorum({i})
    BY <1>1, <1>2, BecomeLeaderNames
  <1>3. CASE ~IsQuorum({i})
    BY <1>1, <1>3, SMTT(30) DEF ServerState, Names, Mine
  <1> QED
    BY <1>2, <1>3

\* Every handler leads to a record that names an elected leader, once the terms
\* agree.
LEMMA DispatchNames ==
    ASSUME IInv, HintInv, NEW m \in msgs, NEW s \in ServerState, Names(m.to, s), s.out = {},
           s.term = m.term
    PROVE  Names(m.to, Dispatch(m.to, s, m))
  <1>1. m \in Message /\ m.to \in Server /\ m.from \in Server /\ m.from # m.to
    BY MessageKinds DEF IInv, TypeOK, HintInv
  <1>2. CASE m.kind = "RequestVote"
    BY <1>1, <1>2, MessageKinds, HandleRequestVoteSameRole, SameRoleNames DEF Dispatch
  <1>3. CASE m.kind = "RequestVoteResp"
    BY <1>1, <1>3, MessageKinds, HandleRequestVoteRespNames DEF Dispatch
  <1>4. CASE m.kind = "AppendEntries"
    <2>1. Names(m.to, HearLeader(s, m))
      BY <1>1, <1>4, HearLeaderNames DEF HintInv, FromLeader
    <2> QED
      BY <1>1, <1>4, <2>1, HandleAppendEntriesSameRole, SameRoleNames, MessageKinds DEF Dispatch
  <1>5. CASE m.kind = "AppendEntriesResp"
    BY <1>1, <1>5, MessageKinds, HandleAppendEntriesRespStays, SameRoleNames DEF Dispatch, Stays
  <1>6. CASE m.kind = "InstallSnapshot"
    <2>1. Names(m.to, HearLeader(s, m))
      BY <1>1, <1>6, HearLeaderNames DEF HintInv, FromLeader
    <2> QED
      BY <1>1, <1>6, <2>1, HandleInstallSnapshotSameRole, SameRoleNames, MessageKinds
         DEF Dispatch
  <1>7. CASE m.kind = "InstallSnapshotResp"
    BY <1>1, <1>7, MessageKinds, HandleInstallSnapshotRespStays, SameRoleNames
       DEF Dispatch, Stays
  <1> QED
    BY <1>1, <1>2, <1>3, <1>4, <1>5, <1>6, <1>7, MessageKinds

\* Step: an older message is refused, a newer one makes a follower first.
LEMMA StepNames ==
    ASSUME IInv, HintInv, NEW m \in msgs
    PROVE  Names(m.to, Step(m.to, node[m.to], m))
  <1> DEFINE i == m.to
             s == node[i]
             ldr == IF FromLeader(m) THEN m.from ELSE Nil
             f == BecomeFollower(s, m.term, ldr)
  <1>1. /\ m \in Message /\ i \in Server /\ m.term \in Nat /\ m.from \in Server
        /\ ldr \in Server \cup {Nil} /\ m.from # i
    BY MessageKinds DEF IInv, TypeOK, HintInv
  <1>2. s.out = {} /\ s \in ServerState /\ s.term \in Nat
    BY <1>1, Standing, Fields
  <1>3. Names(i, s)
    BY <1>1, <1>2 DEF Names, Won, HintInv, LeaderHintIsElected
  <1>4. CASE m.term < s.term
    BY <1>1, <1>2, <1>3, <1>4, RefuseStaleStays, SameRoleNames, SMTT(30) DEF Step, Stays
  <1>5. CASE m.term > s.term
    <2>1. /\ f \in ServerState /\ f.out = s.out /\ f.term = m.term
      BY <1>1, <1>2, <1>5, BecomeFollowerIs, SMTT(30)
    <2>2. ldr # Nil => [term |-> m.term, server |-> ldr] \in elected
      BY DEF HintInv
    <2>3. m.term >= s.term
      BY <1>1, <1>2, <1>5, SMTT(30)
    <2>4. Step(i, s, m) = Dispatch(i, f, m)
      BY <1>1, <1>2, <1>5, SMTT(30) DEF Step
    <2> HIDE DEF ldr
    <2>5. Names(i, f)
      BY <1>1, <1>2, <2>2, <2>3, BecomeFollowerNames
    <2> HIDE DEF f
    <2> QED
      BY <1>2, <2>1, <2>4, <2>5, DispatchNames
  <1>6. CASE m.term = s.term
    BY <1>2, <1>3, <1>6, DispatchNames, SMTT(30) DEF Step
  <1> QED
    BY <1>1, <1>2, <1>4, <1>5, <1>6, SMTT(30)

\* The record r that one step of the cluster makes of server i, with what the guard
\* of the step tells about it.
Made(i, r) ==
    LET s == node[i] IN
    \/ s.role # "leader" /\ s.term < MaxTerm /\ r = StartElection(i, s)
    \/ s.role = "leader" /\ r = Heartbeat(i, s)
    \/ s.role = "leader" /\ LastIndex(s) < MaxIndex /\ r = Propose(i, s)
    \/ /\ s.role = "leader"
       /\ TermAt(s, s.commit) = s.term
       /\ \E floor \in Nat : /\ floor = 0 \/ \E c \in committed : c.index = floor
                             /\ \A c \in committed : c.index <= floor
                             /\ r = StartReadIndex(i, s, floor)
    \/ \E m \in msgs : m.to = i /\ r = Step(i, s, m)
    \/ \E n \in 1 .. MaxBase : n > s.base.index /\ n <= s.commit /\ r = CompactTo(s, n)
    \/ r = Boot(s.term, s.votedFor, s.base, s.log)

\* Every step of the cluster drains such a record, or only loses messages.
LEMMA StepsMake ==
    ASSUME IInv, [Next]_vars
    PROVE  /\ restarts' \in Nat
           /\ \/ \E i \in Server : \E r : \E consumed : Made(i, r) /\ Drain(i, r, consumed)
              \/ msgs' \subseteq msgs /\ UNCHANGED <<node, cast, elected, committed, reads>>
  <1>1. restarts' \in Nat
    BY StepsDrain
  <1>2. CASE \E i \in Server : ElectionTimeout(i)
    BY <1>1, <1>2 DEF ElectionTimeout, Made
  <1>3. CASE \E i \in Server : HeartbeatTick(i)
    BY <1>1, <1>3 DEF HeartbeatTick, Made
  <1>4. CASE \E i \in Server : ClientPropose(i)
    BY <1>1, <1>4 DEF ClientPropose, Made
  <1>5. CASE \E i \in Server : ClientRead(i)
    BY <1>5 DEF ClientRead, IInv, TypeOK, Made
  <1>6. CASE \E m \in msgs : Receive(m)
    BY <1>6, MessageKinds DEF IInv, TypeOK, Made, Receive
  <1>7. CASE \E m \in msgs : Lose(m)
    BY <1>1, <1>7 DEF Lose
  <1>8. CASE \E i \in Server : \E n \in 1 .. MaxBase : Compact(i, n)
    BY <1>1, <1>8 DEF Compact, Made
  <1>9. CASE \E i \in Server : Restart(i)
    BY <1>1, <1>9 DEF Restart, Made
  <1>10. CASE UNCHANGED vars
    BY <1>1, <1>10 DEF vars
  <1> QED
    BY <1>2, <1>3, <1>4, <1>5, <1>6, <1>7, <1>8, <1>9, <1>10 DEF Next

\* Such a record is allowed and, under HintInv, names an elected leader.
LEMMA MadeNames ==
    ASSUME IInv, HintInv, NEW i \in Server, NEW r, Made(i, r)
    PROVE  Allowed(i, r) /\ Names(i, r)
  <1> DEFINE s == node[i]
  <1>1. s \in ServerState /\ s.out = {} /\ Allowed(i, s) /\ s.term \in Nat
    BY Standing, Fields
  <1>2. Names(i, s)
    BY <1>1 DEF Names, Won, HintInv, LeaderHintIsElected
  <1>3. CASE s.role # "leader" /\ r = StartElection(i, s)
    BY <1>1, <1>3, StartElectionNames, StartElectionAllowed
  <1>4. CASE s.role = "leader" /\ r = Heartbeat(i, s)
    BY <1>1, <1>2, <1>4, HeartbeatKeeps, KeepsAllowed, HeartbeatStays, SameRoleNames DEF Stays
  <1>5. CASE s.role = "leader" /\ r = Propose(i, s)
    BY <1>1, <1>2, <1>5, ProposeKeeps, KeepsAllowed, ProposeSameRole, SameRoleNames
  <1>6. CASE s.role = "leader" /\ \E floor \in Nat : r = StartReadIndex(i, s, floor)
    BY <1>1, <1>2, <1>6, StartReadIndexKeeps, KeepsAllowed, StartReadIndexStays, SameRoleNames,
       SMTT(30)
       DEF Stays
  <1>7. CASE \E m \in msgs : m.to = i /\ r = Step(i, s, m)
    BY <1>7, StepAllowed, StepNames
  <1>8. CASE \E n \in 1 .. MaxBase : n > s.base.index /\ r = CompactTo(s, n)
    <2> PICK n \in 1 .. MaxBase : n > s.base.index /\ r = CompactTo(s, n)
      BY <1>8
    <2> QED
      BY <1>1, <1>2, CompactToKeeps, KeepsAllowed, CompactToSameRole, SameRoleNames, SMTT(30)
  <1>9. CASE r = Boot(s.term, s.votedFor, s.base, s.log)
    BY <1>1, <1>9, BootAllowed DEF Boot, Names
  <1> QED
    BY <1>3, <1>4, <1>5, <1>6, <1>7, <1>8, <1>9 DEF Made

\* LeaderHintIsElected is part of an invariant that every step keeps.
LEMMA DrainHint ==
    ASSUME IInv, HintInv, NEW i \in Server, NEW r, NEW consumed, Allowed(i, r), Names(i, r),
           Drain(i, r, consumed)
    PROVE  HintInv'
  <1> DEFINE rest == [r EXCEPT !.out = {}, !.emitted = {}, !.confirmed = {}]
  <1> HIDE DEF rest
  <1>1. elected' = Won(i, r)
    BY DEF Drain, Won
  <1>2. \A j \in Server : node'[j].role = "leader" => [term |-> node'[j].term, server |-> j] \in elected'
    BY SMTT(30) DEF HintInv, Allowed, IInv, TypeOK, Drain, Won, Elections
  <1>3. \A m \in msgs' : /\ m.from # m.to
                         /\ FromLeader(m) => [term |-> m.term, server |-> m.from] \in elected'
    BY DEF HintInv, Names, Mine, Won, Elections, Drain
  <1> QED
    BY <1>1, <1>2, <1>3, SMTT(30)
       DEF HintInv, FromLeader, LeaderHintIsElected, Names, Allowed, IInv, TypeOK, Drain

\* The invariant is inductive.
LEMMA NextHint == IInv /\ HintInv /\ [Next]_vars => HintInv'
  BY MadeNames, DrainHint, StepsMake DEF HintInv, LeaderHintIsElected, FromLeader

\* Nobody leads at the start.
LEMMA InitHint == Init => HintInv
  BY SMTT(30) DEF Boot, Init, HintInv, LeaderHintIsElected

\* No server is named as leader of a term that it has not won, and no append or
\* snapshot message comes from anybody else: the redirect given to clients is
\* never to a server that lost the election (leader_).
THEOREM HintsAreElected == Spec => []LeaderHintIsElected
  <1>1. HintInv => LeaderHintIsElected
    BY DEF HintInv
  <1> QED
    BY <1>1, InitHint, InvariantHolds, NextHint, PTL DEF Spec

-----------------------------------------------------------------------------
(* Logs, as long as nothing is compacted. *)

\* So it fits.
LEMMA AppendMessageFits ==
    ASSUME NEW H, LogsOK(H), NEW i \in Server, NEW s \in ServerState, Fits(s, H),
           s.role = "leader", NEW p \in Server
    PROVE  MessageFit(AppendMessage(i, s, p), H)
  BY AppendMessageIs DEF Fits, ServerFit, LeaderFit, MessageFit

\* BroadcastAppend and SendAppend of a leader.
LEMMA SendAppendFits ==
    ASSUME NEW H, LogsOK(H), NEW i \in Server, NEW s \in ServerState, Fits(s, H),
           s.role = "leader", NEW p \in Server
    PROVE  Fits(BroadcastAppend(i, s), H) /\ Fits(SendAppend(i, s, p), H)
  <1> DEFINE sent == {AppendMessage(i, s, q) : q \in Peers(i)}
             m == AppendMessage(i, s, p)
             b == [s EXCEPT !.out = @ \cup sent]
             c == [s EXCEPT !.out = @ \cup {m}]
  <1> HIDE DEF sent, m
  <1> HIDE DEF b, c
  <1> QED
    BY AppendMessageFits, SMTT(30)
       DEF Fits, ServerFit, LeaderFit, BroadcastAppend, SendAppend, Send, sent, m, Peers

\* A leader's heartbeat and the start of a read.
LEMMA HeartbeatFits ==
    ASSUME NEW H, LogsOK(H), NEW i \in Server, NEW s \in ServerState, Fits(s, H),
           s.role = "leader", NEW floor \in Nat
    PROVE  Fits(Heartbeat(i, s), H) /\ Fits(StartReadIndex(i, s, floor), H)
  <1> DEFINE seq == s.hbSeq + 1
             read == [index |-> s.commit, floor |-> floor]
             pend == s.pending \cup {[seq |-> seq, index |-> s.commit, floor |-> floor]}
             conf == s.confirmed \cup {read}
             q == [s EXCEPT !.hbSeq = seq]
             r == [s EXCEPT !.hbSeq = seq, !.pending = pend]
             d == [s EXCEPT !.confirmed = conf]
  <1>1. seq \in Nat /\ pend \in SUBSET [seq : Nat, index : Nat, floor : Nat]
    <2>1. s.pending \in SUBSET [seq : Nat, index : Nat, floor : Nat]
      BY DEF ServerState
    <2> QED
      BY <2>1, Fields, SMTT(30)
  <1>2. Heartbeat(i, s) = BroadcastAppend(i, q)
    BY DEF Heartbeat
  <1>3. StartReadIndex(i, s, floor) = IF IsQuorum({i}) THEN d ELSE BroadcastAppend(i, r)
    BY DEF StartReadIndex
  <1> HIDE DEF seq, pend, conf
  <1>4. q \in ServerState /\ r \in ServerState /\ q.role = "leader" /\ r.role = "leader"
    BY <1>1 DEF ServerState
  <1>5. Fits(q, H) /\ Fits(r, H) /\ Fits(d, H)
    BY CountersFit
  <1> HIDE DEF q, r, d
  <1> QED
    BY <1>2, <1>3, <1>4, <1>5, SendAppendFits

\* So the logs and the messages keep fitting.
LEMMA HandleAppendEntriesRespFits ==
    ASSUME NEW H, LogsOK(H), NEW i \in Server, NEW s \in ServerState, Fits(s, H),
           NEW m \in AppendEntriesRespMsg, MessageFit(m, H), m.term = s.term
    PROVE  Fits(HandleAppendEntriesResp(i, s, m), H)
  <1>1. CASE s.role # "leader"
    BY <1>1 DEF HandleAppendEntriesResp
  <1>2. CASE s.role = "leader"
    <2>1. PICK acked \in [Server -> Nat], match \in [Server -> Nat], next \in [Server -> Nat \ {0}] :
            RespWith(i, s, m, acked, match, next)
      BY <1>2, RespIs
    <2> DEFINE q == [s EXCEPT !.hbAcked = acked, !.match = match, !.next = next]
               c == IF m.success THEN MaybeAdvanceCommit(q) ELSE SendAppend(i, q, m.from)
    <2>2. /\ q \in ServerState /\ q.base = s.base /\ q.log = s.log /\ q.term = s.term
          /\ q.role = s.role /\ q.next = next /\ q.out = s.out
      BY DEF ServerState
    <2> HIDE DEF q
    <2>3. MaybeAdvanceCommit(q) \in ServerState /\ SendAppend(i, q, m.from) \in ServerState
      BY <2>2, AppendMessageType, SendKeeps, MaybeAdvanceCommitStays
         DEF SendAppend, Keeps, Stays, SameRole, AppendEntriesRespMsg
    <2>4. c \in ServerState /\ Fits(c, H)
      BY <1>2, <2>1, <2>2, <2>3, CountersFit, SendAppendFits, FitsFrame
         DEF RespWith, AppendEntriesRespMsg
    <2>5. HandleAppendEntriesResp(i, s, m) = ConfirmReads(i, c)
      BY <2>1 DEF q, RespWith
    <2> HIDE DEF c
    <2>6. Fits(ConfirmReads(i, c), H)
      BY <2>4, CountersFit
    <2> QED
      BY <2>5, <2>6
  <1> QED
    BY <1>1, <1>2

\* s leads and has the longest log of its term, if there is one.
MayAppend(s, H) ==
    /\ s.role = "leader" /\ s.out = {} /\ s.base.index = 0 /\ s.base.term = 0
    /\ s.log # <<>> => s.log \in H
    /\ LastOf(s.log) <= s.term
    /\ \A L \in H : LastOf(L) = s.term => Prefix(L, s.log)
    /\ \A p \in Server : s.next[p] <= Len(s.log) + 1

\* q is s with one entry more, the longest log of its term.
Appended(s, H, q) ==
    /\ q \in ServerState /\ q.role = "leader" /\ q.term = s.term
    /\ q.log = Append(s.log, s.term) /\ LastOf(q.log) = s.term
    /\ Len(q.log) = Len(s.log) + 1
    /\ \A k \in 1 .. Len(s.log) : q.log[k] = s.log[k]
    /\ LogsOK(H \cup {q.log}) /\ Fits(q, H \cup {q.log})

\* A leader appends an entry of its own: the no-op of a new one, or a client's
\* command (AppendOwn).
LEMMA AppendOwnGrows ==
    ASSUME NEW H, LogsOK(H), NEW i \in Server, NEW s \in ServerState, MayAppend(s, H)
    PROVE  Appended(s, H, AppendOwn(i, s))
  <1> DEFINE N == Append(s.log, s.term)
             G == H \cup {N}
             q == AppendOwn(i, s)
  <1>1. s.log \in Seq(Nat) /\ s.term \in Nat /\ s.next \in [Server -> Nat \ {0}] /\ Len(s.log) \in Nat
    BY Fields
  <1>2. /\ LogsOK(G) /\ LastOf(N) = s.term /\ Len(N) = Len(s.log) + 1 /\ N \in Seq(Nat)
        /\ \A L \in G : LastOf(L) = s.term => Prefix(L, N)
        /\ \A k \in 1 .. Len(s.log) : N[k] = s.log[k]
    <2>1. Longest(H, s.log, s.term, N)
      BY <1>1, GrowLogs DEF MayAppend
    <2> QED
      BY <2>1 DEF Longest
  <1>3. /\ q.log = N /\ q.base = s.base /\ q.next = s.next /\ q.out = {}
    BY DEF AppendOwn, ServerState, MayAppend
  <1>4. q \in ServerState /\ q.role = "leader" /\ q.term = s.term
    BY AppendOwnSameRole DEF SameRole, MayAppend
  <1> HIDE DEF q, N
  <1>5. Fits(q, G)
    BY <1>1, <1>2, <1>3, <1>4, SMTT(30) DEF Fits, ServerFit, LeaderFit, MayAppend
  <1> QED
    BY <1>2, <1>3, <1>4, <1>5 DEF N, q, Appended

\* Propose: it is sent and counted.
LEMMA ProposeGrows ==
    ASSUME NEW H, LogsOK(H), NEW i \in Server, NEW s \in ServerState, MayAppend(s, H)
    PROVE  LET r == Propose(i, s)
           IN  Grows(H, H \cup {r.log}, r) /\ r.log = Append(s.log, s.term)
  <1> DEFINE N == Append(s.log, s.term)
             G == H \cup {N}
             q == AppendOwn(i, s)
             b == BroadcastAppend(i, q)
             r == MaybeAdvanceCommit(b)
  <1>1. /\ LogsOK(G) /\ Fits(q, G) /\ q \in ServerState /\ q.log = N /\ LastOf(N) = s.term
        /\ q.role = "leader" /\ q.term = s.term
    <2>1. Appended(s, H, q)
      BY AppendOwnGrows
    <2> HIDE DEF q
    <2> QED
      BY <2>1 DEF Appended
  <1> HIDE DEF q, N
  <1>2. b \in ServerState /\ b.role = "leader" /\ b.term = s.term /\ b.log = N
    BY <1>1, BroadcastAppendStays DEF Stays, SameRole
  <1>3. Fits(b, G)
    BY <1>1, SendAppendFits
  <1> HIDE DEF b
  <1>4. Fits(r, G)
    BY <1>2, <1>3, CountersFit
  <1>5. r.role = "leader" /\ r.term = s.term /\ r.log = N
    BY <1>2, MaybeAdvanceCommitStays DEF Stays, SameRole
  <1>6. Propose(i, s) = r
    BY DEF Propose, q, b
  <1> HIDE DEF r
  <1> QED
    BY <1>1, <1>4, <1>5, <1>6 DEF Grows, N

\* A candidate wins: no leader of its term had a log before.
LEMMA BecomeLeaderGrows ==
    ASSUME NEW H, LogsOK(H), NEW i \in Server, NEW s \in ServerState, s.out = {},
           ServerFit(s, H), \A L \in H : LastOf(L) # s.term
    PROVE  LET r == BecomeLeader(i, s)
           IN  Grows(H, H \cup {r.log}, r) /\ r.role = "leader" /\ r.term = s.term
  <1> DEFINE f == Fresh(i, s)
  <1>1. f \in ServerState /\ BecomeLeader(i, s) = Propose(i, f)
    BY BecomeLeaderIs
  <1>2. /\ f.role = "leader" /\ f.out = {} /\ f.base = s.base /\ f.log = s.log /\ f.term = s.term
        /\ f.next = [p \in Server |-> LastIndex(s) + 1]
    BY DEF Fresh, ServerState
  <1> HIDE DEF f
  <1>3. \A p \in Server : f.next[p] <= Len(f.log) + 1
    BY <1>2, NoBase, SMTT(30) DEF ServerFit
  <1> QED
    BY <1>1, <1>2, <1>3, ProposeGrows, ProposeSameRole, SMTT(30) DEF ServerFit, MayAppend, SameRole

\* Counting a vote.
LEMMA HandleRequestVoteRespGrows ==
    ASSUME NEW H, LogsOK(H), NEW i \in Server, NEW s \in ServerState, Fits(s, H), s.out = {},
           NEW m \in RequestVoteRespMsg,
           s.role = "candidate" /\ HandleRequestVoteResp(i, s, m).role = "leader"
             /\ HandleRequestVoteResp(i, s, m).term = s.term => \A L \in H : LastOf(L) # s.term
    PROVE  \E G : Grows(H, G, HandleRequestVoteResp(i, s, m))
  <1> DEFINE votes == IF m.granted THEN s.votes \cup {m.from} ELSE s.votes \ {m.from}
             v == [s EXCEPT !.votes = votes]
             r == HandleRequestVoteResp(i, s, m)
  <1>1. CASE s.role # "candidate"
    BY <1>1 DEF HandleRequestVoteResp, Grows
  <1>2. CASE s.role = "candidate"
    <2>1. votes \in SUBSET Server
      BY Fields DEF RequestVoteRespMsg
    <2>2. r = IF IsQuorum(v.votes) THEN BecomeLeader(i, v) ELSE v
      BY <1>2 DEF HandleRequestVoteResp
    <2> HIDE DEF votes
    <2>3. /\ v \in ServerState /\ v.out = {} /\ v.base = s.base /\ v.log = s.log
          /\ v.term = s.term /\ v.role = "candidate"
      BY <1>2, <2>1 DEF ServerState
    <2> HIDE DEF v, r
    <2>4. CASE IsQuorum(v.votes)
      <3>1. r.role = "leader" /\ r.term = v.term
        <4> DEFINE f == Fresh(i, v)
        <4>1. f \in ServerState /\ r = Propose(i, f)
          BY <2>2, <2>3, <2>4, BecomeLeaderIs
        <4>2. f.role = "leader" /\ f.term = v.term
          BY SMTT(30) DEF Fresh, ServerState
        <4> HIDE DEF f
        <4> QED
          BY <4>1, <4>2, ProposeSameRole DEF SameRole
      <3>2. Grows(H, H \cup {r.log}, r)
        BY <1>2, <2>2, <2>3, <3>1, BecomeLeaderGrows, SMTT(30) DEF Fits, ServerFit, r
      <3> QED
        BY <3>2 DEF r
    <2>5. CASE ~IsQuorum(v.votes)
      BY <2>2, <2>3, <2>5 DEF Grows, r, Fits, ServerFit
    <2> QED
      BY <2>4, <2>5
  <1> QED
    BY <1>1, <1>2

\* A server of a cluster of one wins at once; otherwise it asks for votes.
LEMMA StartElectionGrows ==
    ASSUME NEW H, LogsOK(H), NEW i \in Server, NEW s \in ServerState, ServerFit(s, H), s.out = {},
           \A L \in H : LastOf(L) = s.term + 1 => StartElection(i, s).role # "leader"
    PROVE  \E G : Grows(H, G, StartElection(i, s))
  <1> DEFINE c == Candidate(i, s)
             sent == {RequestVote(i, c, p) : p \in Peers(i)}
             d == [c EXCEPT !.out = sent]
             r == StartElection(i, s)
  <1>1. /\ c \in ServerState /\ c.out = {} /\ c.role = "candidate" /\ c.term = s.term + 1
        /\ c.base = s.base /\ c.log = s.log
        /\ r = IF IsQuorum({i}) THEN BecomeLeader(i, c) ELSE d
    BY StartElectionIs
  <1>2. \A m \in sent : m.kind = "RequestVote"
    BY SMTT(30) DEF RequestVote
  <1> HIDE DEF c, sent, r
  <1>3. ServerFit(c, H)
    BY <1>1, Fields, SMTT(30) DEF ServerFit, LastOf
  <1>4. CASE IsQuorum({i})
    <2>1. r.role = "leader"
      <3> DEFINE f == Fresh(i, c)
      <3>1. f \in ServerState /\ r = Propose(i, f)
        BY <1>1, <1>4, BecomeLeaderIs
      <3>2. f.role = "leader"
        BY SMTT(30) DEF Fresh, ServerState
      <3> HIDE DEF f
      <3> QED
        BY <3>1, <3>2, ProposeSameRole DEF SameRole
    <2>2. Grows(H, H \cup {BecomeLeader(i, c).log}, BecomeLeader(i, c))
      BY <1>1, <1>3, <2>1, BecomeLeaderGrows, SMTT(30) DEF r
    <2> QED
      BY <1>1, <1>4, <2>2 DEF r
  <1>5. CASE ~IsQuorum({i})
    <2>1. /\ d.base = c.base /\ d.log = c.log /\ d.term = c.term /\ d.role = "candidate" /\ d.out = sent
      BY <1>1 DEF ServerState
    <2> HIDE DEF d
    <2> QED
      BY <1>1, <1>2, <1>3, <1>5, <2>1 DEF r, Grows, Fits, ServerFit, MessageFit
  <1> QED
    BY <1>4, <1>5

\* A follower's handling of an append that carries a piece of L.
LEMMA HandleAppendEntriesFits ==
    ASSUME NEW H, LogsOK(H), NEW i \in Server, NEW s0 \in ServerState, Fits(s0, H),
           s0.role # "leader", NEW m \in AppendEntriesMsg, MessageFit(m, H), m.term = s0.term
    PROVE  Fits(HandleAppendEntries(i, s0, m), H)
  <1> DEFINE s == HearLeader(s0, m)
             n == m.prev + Len(m.entries)
  <1>0. /\ m.kind = "AppendEntries" /\ m.from \in Server /\ m.prev \in Nat /\ m.entries \in Seq(Nat)
        /\ m.commit \in Nat
    BY DEF AppendEntriesMsg
  <1>1. /\ s \in ServerState /\ s.term = s0.term /\ s.base = s0.base /\ s.log = s0.log
        /\ s.role # "leader" /\ s.out = s0.out
    <2>1. s.role = IF s0.role = "candidate" THEN "follower" ELSE s0.role
      BY <1>0, HearLeaderIs
    <2> QED
      BY <1>0, <2>1, HearLeaderIs
  <1> HIDE DEF s
  <1>2. ServerFit(s, H) /\ \A x \in s.out : MessageFit(x, H)
    BY <1>1 DEF Fits, ServerFit
  <1>3. HandleAppendEntries(i, s0, m) = AcceptEntries(i, s, m, m.prev, m.prevTerm, m.entries)
    <2>1. m.prev >= s.base.index
      BY <1>0, <1>2, SMTT(30) DEF ServerFit
    <2> QED
      BY <2>1 DEF HandleAppendEntries, s
  <1>4. PICK L \in H : PieceOf(m, L)
    BY <1>0 DEF MessageFit
  <1>5. CASE m.prev > LastIndex(s) \/ TermAt(s, m.prev) # m.prevTerm
    <2> DEFINE resp == AppendEntriesResp(i, s, m.from, FALSE, 0, ConflictHint(s, m.prev), m.hbSeq)
               r == [s EXCEPT !.out = @ \cup {resp}]
    <2>1. resp.kind = "AppendEntriesResp" /\ ~resp.success
      BY DEF AppendEntriesResp
    <2>2. HandleAppendEntries(i, s0, m) = r
      BY <1>3, <1>5 DEF AcceptEntries, Send
    <2> HIDE DEF resp
    <2>3. /\ r.base = s.base /\ r.log = s.log /\ r.term = s.term /\ r.role = s.role
          /\ r.out = s.out \cup {resp}
      BY <1>1 DEF ServerState
    <2> HIDE DEF r
    <2>4. MessageFit(resp, H)
      BY <2>1 DEF MessageFit
    <2> QED
      BY <1>1, <1>2, <2>2, <2>3, <2>4 DEF Fits, ServerFit
  <1>6. CASE ~(m.prev > LastIndex(s) \/ TermAt(s, m.prev) # m.prevTerm)
    <2> DEFINE T == Overwrite(s, m.prev, m.entries)
               q == [s EXCEPT !.log = T]
               c == FollowCommit(q, m.commit)
               resp == AppendEntriesResp(i, s, m.from, TRUE, n, 0, m.hbSeq)
               r == [c EXCEPT !.out = @ \cup {resp}]
    <2>1. m.prev <= LastIndex(s) /\ TermAt(s, m.prev) = m.prevTerm
      BY <1>0, <1>1, <1>6, Fields, SMTT(30)
    <2>a. Overwritten(T, s.log, L, n) /\ (T # <<>> => T \in H) /\ LastOf(T) <= s.term
      BY <1>1, <1>2, <1>4, <2>1, AcceptedLog
    <2>2. /\ T \in Seq(Nat) /\ (T # <<>> => T \in H) /\ LastOf(T) <= s.term
      BY <2>a DEF Overwritten
    <2>3. HandleAppendEntries(i, s0, m) = r
      BY <1>3, <1>6 DEF AcceptEntries, Send
    <2>4. resp.kind = "AppendEntriesResp" /\ resp.term = s.term /\ resp.match = n
      BY DEF AppendEntriesResp
    <2> HIDE DEF T, resp
    <2>5. /\ q \in ServerState /\ q.base = s.base /\ q.log = T /\ q.term = s.term
          /\ q.role = s.role /\ q.out = s.out
      BY <1>1, <2>2 DEF ServerState
    <2> HIDE DEF q
    <2>6. Fits(q, H)
      BY <1>1, <1>2, <2>2, <2>5 DEF Fits, ServerFit
    <2>7. Fits(c, H)
      BY <2>5, <2>6, CountersFit
    <2>8. c \in ServerState /\ c.role # "leader"
      <3>1. Stays(i, q, c)
        BY <1>0, <2>5, FollowCommitStays
      <3> QED
        BY <1>1, <2>5, <3>1 DEF Stays, SameRole
    <2> HIDE DEF c
    <2>9. /\ r.base = c.base /\ r.log = c.log /\ r.term = c.term /\ r.role = c.role
          /\ r.out = c.out \cup {resp}
      BY <2>8 DEF ServerState
    <2> HIDE DEF r
    <2>10. MessageFit(resp, H)
      <3>1. LastOf(L) = resp.term /\ resp.match <= Len(L)
        BY <1>1, <1>4, <2>4 DEF PieceOf
      <3> QED
        BY <2>4, <3>1 DEF MessageFit
    <2> QED
      BY <2>3, <2>7, <2>8, <2>9, <2>10 DEF Fits, ServerFit
  <1> QED
    BY <1>5, <1>6

\* A message that is sent besides fits if it is no append and no success.
LEMMA PlainSendFits ==
    ASSUME NEW H, NEW s \in ServerState, Fits(s, H), NEW m,
           m.kind \in {"RequestVote", "RequestVoteResp"} \/ (m.kind = "AppendEntriesResp" /\ ~m.success)
    PROVE  Fits(Send(s, m), H)
  BY DEF ServerState, MessageFit, Send, Fits, ServerFit, LeaderFit

\* Votes leave the log alone.
LEMMA HandleRequestVoteFits ==
    ASSUME NEW H, NEW i \in Server, NEW s \in ServerState, Fits(s, H), NEW m, m.from \in Server
    PROVE  Fits(HandleRequestVote(i, s, m), H)
  <1> DEFINE q == [s EXCEPT !.votedFor = m.from]
             yes == RequestVoteResp(i, s, m.from, TRUE)
             no == RequestVoteResp(i, s, m.from, FALSE)
  <1>1. yes.kind = "RequestVoteResp" /\ no.kind = "RequestVoteResp"
    BY DEF RequestVoteResp
  <1>2. /\ q \in ServerState /\ q.base = s.base /\ q.log = s.log /\ q.term = s.term
        /\ q.role = s.role /\ q.next = s.next /\ q.out = s.out
    BY DEF ServerState
  <1>3. HandleRequestVote(i, s, m) =
          IF s.votedFor \in {Nil, m.from} /\ UpToDate(s, m) THEN Send(q, yes) ELSE Send(s, no)
    BY DEF HandleRequestVote
  <1> HIDE DEF q, yes, no
  <1>4. Fits(q, H)
    BY <1>2 DEF Fits, ServerFit, LeaderFit
  <1> QED
    BY <1>1, <1>2, <1>3, <1>4, PlainSendFits

\* No leader receives an append of its own term.
LEMMA OneAppender ==
    ASSUME IInv, HintInv, NEW m \in msgs, m.kind = "AppendEntries", NEW s, s.term = m.term,
           s.role = "leader" => [term |-> s.term, server |-> m.to] \in elected
    PROVE  s.role # "leader"
  BY IInvElectionSafety DEF HintInv, FromLeader, ElectionSafety

\* Every handler, once the terms agree.
LEMMA DispatchGrows ==
    ASSUME IInv, HintInv, NEW H, LogInv(H), NEW m \in msgs,
           NEW s \in ServerState, ServerFit(s, H), s.out = {}, s.term = m.term,
           s.role = "leader" => [term |-> s.term, server |-> m.to] \in elected,
           s.role = "candidate" /\ Dispatch(m.to, s, m).role = "leader"
             /\ Dispatch(m.to, s, m).term = s.term => \A L \in H : LastOf(L) # s.term
    PROVE  \E G : Grows(H, G, Dispatch(m.to, s, m))
  <1>1. /\ m \in Message /\ m.to \in Server /\ m.from \in Server /\ m.from # m.to
        /\ MessageFit(m, H) /\ LogsOK(H) /\ Fits(s, H)
    BY MessageKinds DEF IInv, TypeOK, HintInv, LogInv, Fits
  <1>2. ASSUME Fits(Dispatch(m.to, s, m), H)
        PROVE  Grows(H, H, Dispatch(m.to, s, m))
    BY <1>1, <1>2 DEF Grows
  <1>3. CASE m.kind = "RequestVote"
    BY <1>1, <1>2, <1>3, HandleRequestVoteFits DEF Dispatch
  <1>4. CASE m.kind = "RequestVoteResp"
    BY <1>1, <1>4, MessageKinds, HandleRequestVoteRespGrows DEF Dispatch
  <1>5. CASE m.kind = "AppendEntries"
    BY <1>1, <1>2, <1>5, MessageKinds, OneAppender, HandleAppendEntriesFits DEF Dispatch
  <1>6. CASE m.kind = "AppendEntriesResp"
    BY <1>1, <1>2, <1>6, MessageKinds, HandleAppendEntriesRespFits DEF Dispatch
  <1> QED
    BY <1>1, <1>3, <1>4, <1>5, <1>6, MessageKinds DEF MessageFit

\* No leader of the term had a log before this election: it would have been won
\* by the same server, which is no candidate of that term any more.
LEMMA NoEarlierLog ==
    ASSUME NEW H, LogInv(H), NEW i \in Server, NEW r, r.role = "leader",
           \A a, b \in Won(i, r) : a.term = b.term => a.server = b.server,
           node[i].term \in Nat, r.term \in Nat,
           r.term > node[i].term \/ (r.term = node[i].term /\ node[i].role = "candidate"),
           NEW L \in H
    PROVE  LastOf(L) # r.term
  <1> SUFFICES ASSUME LastOf(L) = r.term PROVE FALSE
    OBVIOUS
  <1>1. PICK e \in elected : e.term = r.term
    BY DEF LogInv
  <1> DEFINE w == [term |-> r.term, server |-> i]
  <1>2. w \in Won(i, r) /\ e \in Won(i, r) /\ w.term = r.term /\ w.server = i
    BY DEF Won, Elections
  <1> QED
    BY <1>1, <1>2, SMTT(30) DEF LogInv, ElectedOnce

\* Step.
LEMMA StepGrows ==
    ASSUME IInv, HintInv, NEW H, LogInv(H), NEW m \in msgs,
           LET r == Step(m.to, node[m.to], m)
           IN  \A a, b \in Won(m.to, r) : a.term = b.term => a.server = b.server
    PROVE  \E G : Grows(H, G, Step(m.to, node[m.to], m))
  <1> DEFINE i == m.to
             s == node[i]
             ldr == IF FromLeader(m) THEN m.from ELSE Nil
             f == BecomeFollower(s, m.term, ldr)
             r == Step(i, s, m)
  <1>1. /\ m \in Message /\ i \in Server /\ m.term \in Nat /\ m.from \in Server
        /\ ldr \in Server \cup {Nil} /\ m.from # i
    BY MessageKinds DEF IInv, TypeOK, HintInv
  <1>2. /\ s.out = {} /\ s \in ServerState /\ s.term \in Nat /\ ServerFit(s, H) /\ LogsOK(H)
        /\ s.role = "leader" => [term |-> s.term, server |-> i] \in elected
    BY <1>1, Standing, Fields DEF LogInv, HintInv
  <1>3. CASE m.term < s.term
    <2> DEFINE rv == RequestVoteResp(i, s, m.from, FALSE)
               ae == AppendEntriesResp(i, s, m.from, FALSE, 0, 0, 0)
    <2>1. r = Send(s, rv) \/ r = Send(s, ae) \/ r = s
      BY <1>3 DEF RefuseStale, Step, LogInv, MessageFit
    <2>2. rv.kind = "RequestVoteResp" /\ ae.kind = "AppendEntriesResp" /\ ~ae.success
      BY DEF RequestVoteResp, AppendEntriesResp
    <2> HIDE DEF rv, ae
    <2> QED
      BY <1>2, <2>1, <2>2, PlainSendFits DEF Grows, Fits
  <1>4. CASE m.term > s.term
    <2>1. m.term >= s.term
      BY <1>1, <1>2, <1>4, SMTT(30)
    <2>2. r = Dispatch(i, f, m)
      BY <1>1, <1>2, <1>4, SMTT(30) DEF Step
    <2> HIDE DEF ldr
    <2>3. /\ f \in ServerState /\ f.out = {} /\ f.term = m.term /\ f.role = "follower"
          /\ f.base = s.base /\ f.log = s.log
      BY <1>1, <1>2, <2>1, BecomeFollowerIs, SMTT(30)
    <2> HIDE DEF f
    <2>4. LastOf(s.log) \in Nat
      BY <1>2, Fields, SMTT(30) DEF LastOf
    <2>5. ServerFit(f, H)
      BY <1>1, <1>2, <2>1, <2>3, <2>4, SMTT(30) DEF ServerFit
    <2> QED
      BY <2>2, <2>3, <2>5, DispatchGrows
  <1>5. CASE m.term = s.term
    <2>1. r = Dispatch(i, s, m)
      BY <1>2, <1>5, SMTT(30) DEF Step
    <2> QED
      BY <1>1, <1>2, <1>5, <2>1, DispatchGrows, NoEarlierLog, SMTT(30)
  <1> QED
    BY <1>1, <1>2, <1>3, <1>4, <1>5, SMTT(30)

\* An election belongs to the next term.
LEMMA StartElectionTerm ==
    ASSUME NEW i \in Server, NEW s \in ServerState, s.out = {}
    PROVE  StartElection(i, s).term = s.term + 1
  <1> DEFINE c == Candidate(i, s)
             sent == {RequestVote(i, c, p) : p \in Peers(i)}
             d == [c EXCEPT !.out = sent]
             f == Fresh(i, c)
  <1>1. /\ c \in ServerState /\ c.term = s.term + 1
        /\ StartElection(i, s) = IF IsQuorum({i}) THEN BecomeLeader(i, c) ELSE d
    BY StartElectionIs
  <1> HIDE DEF c, sent
  <1>2. d.term = c.term
    BY SMTT(30) DEF ServerState
  <1>3. f \in ServerState /\ BecomeLeader(i, c) = Propose(i, f)
    BY <1>1, BecomeLeaderIs
  <1>4. f.role = "leader" /\ f.term = c.term
    BY SMTT(30) DEF Fresh, ServerState
  <1> HIDE DEF d, f
  <1> QED
    BY <1>1, <1>2, <1>3, <1>4, ProposeSameRole, SMTT(30) DEF SameRole

\* No handler makes a candidate.
LEMMA DispatchCampaigns ==
    ASSUME IInv, HintInv, NEW m \in msgs, NEW s \in ServerState
    PROVE  Dispatch(m.to, s, m).role = "candidate" => s.role = "candidate"
  <1>1. m \in Message /\ m.to \in Server /\ m.from \in Server /\ m.from # m.to
    BY MessageKinds DEF IInv, TypeOK, HintInv
  <1>2. HearLeader(s, m).role # "candidate"
    BY <1>1, HearLeaderIs
  <1>3. CASE m.kind = "RequestVote"
    BY <1>1, <1>3, MessageKinds, HandleRequestVoteSameRole DEF Dispatch, SameRole
  <1>4. CASE m.kind = "RequestVoteResp"
    BY <1>4 DEF Dispatch, HandleRequestVoteResp
  <1>5. CASE m.kind = "AppendEntries"
    BY <1>1, <1>2, <1>5, MessageKinds, HandleAppendEntriesSameRole DEF Dispatch, SameRole
  <1>6. CASE m.kind = "AppendEntriesResp"
    BY <1>1, <1>6, MessageKinds, HandleAppendEntriesRespStays DEF Dispatch, Stays, SameRole
  <1>7. CASE m.kind = "InstallSnapshot"
    BY <1>1, <1>2, <1>7, MessageKinds, HandleInstallSnapshotSameRole DEF Dispatch, SameRole
  <1>8. CASE m.kind = "InstallSnapshotResp"
    BY <1>1, <1>8, MessageKinds, HandleInstallSnapshotRespStays DEF Dispatch, Stays, SameRole
  <1> QED
    BY <1>1, <1>3, <1>4, <1>5, <1>6, <1>7, <1>8, MessageKinds

\* A server that stays in its term does not become a candidate of it again.
LEMMA MadeCampaigns ==
    ASSUME IInv, HintInv, NEW i \in Server, NEW r, Made(i, r)
    PROVE  r.role = "candidate" /\ r.term = node[i].term => node[i].role = "candidate"
  <1> DEFINE s == node[i]
  <1>1. s \in ServerState /\ s.out = {} /\ s.term \in Nat
    BY Standing, Fields
  <1>2. CASE r = StartElection(i, s)
    BY <1>1, <1>2, StartElectionTerm, SMTT(30)
  <1>3. CASE s.role = "leader" /\ r = Heartbeat(i, s)
    BY <1>1, <1>3, HeartbeatStays DEF Stays, SameRole
  <1>4. CASE s.role = "leader" /\ r = Propose(i, s)
    BY <1>1, <1>4, ProposeSameRole DEF SameRole
  <1>5. CASE s.role = "leader" /\ \E floor \in Nat : r = StartReadIndex(i, s, floor)
    BY <1>1, <1>5, StartReadIndexStays, SMTT(30) DEF Stays, SameRole
  <1>6. CASE \E m \in msgs : m.to = i /\ r = Step(i, s, m)
    <2> PICK m \in msgs : m.to = i /\ r = Step(i, s, m)
      BY <1>6
    <2> DEFINE ldr == IF FromLeader(m) THEN m.from ELSE Nil
               f == BecomeFollower(s, m.term, ldr)
    <2>1. /\ m \in Message /\ m.term \in Nat /\ m.from \in Server
          /\ ldr \in Server \cup {Nil} /\ m.from # i
      BY MessageKinds DEF IInv, TypeOK, HintInv
    <2>2. r = IF m.term < s.term THEN RefuseStale(i, s, m)
              ELSE IF m.term > s.term THEN Dispatch(i, f, m) ELSE Dispatch(i, s, m)
      BY DEF Step
    <2> HIDE DEF ldr
    <2>3. m.term > s.term => f \in ServerState /\ f.role = "follower"
      BY <1>1, <2>1, BecomeFollowerIs, SMTT(30)
    <2> HIDE DEF f
    <2> QED
      BY <1>1, <2>1, <2>2, <2>3, RefuseStaleStays, DispatchCampaigns, SMTT(30) DEF Stays, SameRole
  <1>7. CASE \E n \in 1 .. MaxBase : n > s.base.index /\ r = CompactTo(s, n)
    BY <1>1, <1>7, CompactToSameRole, SMTT(30) DEF SameRole
  <1>8. CASE r = Boot(s.term, s.votedFor, s.base, s.log)
    BY <1>8 DEF Boot
  <1> QED
    BY <1>2, <1>3, <1>4, <1>5, <1>6, <1>7, <1>8 DEF Made

\* The record that a step makes fits, with the log it adds if it leads.
LEMMA MadeGrows ==
    ASSUME IInv, HintInv, NEW H, LogInv(H), NEW i \in Server, NEW r, Made(i, r),
           \A a, b \in Won(i, r) : a.term = b.term => a.server = b.server, r.base.index = 0
    PROVE  \E G : Grows(H, G, r)
  <1> DEFINE s == node[i]
  <1>1. /\ s \in ServerState /\ s.out = {} /\ s.term \in Nat /\ ServerFit(s, H) /\ LogsOK(H)
        /\ Fits(s, H)
    BY Standing, Fields DEF LogInv, Fits
  <1>2. ASSUME Fits(r, H) PROVE Grows(H, H, r)
    BY <1>1, <1>2 DEF Grows
  <1>3. CASE s.role # "leader" /\ r = StartElection(i, s)
    BY <1>1, <1>3, StartElectionTerm, NoEarlierLog, StartElectionGrows, SMTT(30)
  <1>4. CASE s.role = "leader" /\ r = Heartbeat(i, s)
    BY <1>1, <1>2, <1>4, HeartbeatFits
  <1>5. CASE s.role = "leader" /\ r = Propose(i, s)
    BY <1>1, <1>5, ProposeGrows DEF ServerFit, LeaderFit, MayAppend
  <1>6. CASE s.role = "leader" /\ \E floor \in Nat : r = StartReadIndex(i, s, floor)
    BY <1>1, <1>2, <1>6, HeartbeatFits
  <1>7. CASE \E m \in msgs : m.to = i /\ r = Step(i, s, m)
    BY <1>7, StepGrows
  <1>8. CASE r = Boot(s.term, s.votedFor, s.base, s.log)
    <2> QED
      BY <1>1, <1>2, <1>8 DEF Fits, ServerFit, Boot
  <1>9. ~\E n \in 1 .. MaxBase : r = CompactTo(s, n)
    <2> SUFFICES ASSUME NEW n \in 1 .. MaxBase, r = CompactTo(s, n) PROVE FALSE
      OBVIOUS
    <2> QED
      BY SMTT(30) DEF CompactTo, ServerState
  <1> QED
    BY <1>3, <1>4, <1>5, <1>6, <1>7, <1>8, <1>9 DEF Made

\* Draining a record that fits keeps the invariant, with the logs it adds.
LEMMA DrainLogs ==
    ASSUME IInv, HintInv, NEW H, LogInv(H), NEW i \in Server, NEW r, NEW consumed, Allowed(i, r),
           Drain(i, r, consumed), ElectionSafety', HintInv', NEW G, Grows(H, G, r),
           r.role = "candidate" /\ r.term = node[i].term => node[i].role = "candidate"
    PROVE  LogInv(G)'
  <1> DEFINE rest == [r EXCEPT !.out = {}, !.emitted = {}, !.confirmed = {}]
  <1>1. r \in ServerState /\ node \in [Server -> ServerState]
    BY DEF Allowed, IInv, TypeOK
  <1>2. /\ rest.term = r.term /\ rest.role = r.role /\ rest.base = r.base /\ rest.log = r.log
        /\ rest.next = r.next
    BY SMTT(30) DEF ServerState
  <1>3. node'[i] = rest /\ \A j \in Server : j # i => node'[j] = node[j]
    BY <1>1 DEF Drain
  <1> HIDE DEF rest
  <1>4. elected' = elected \cup Elections(i, r)
    BY DEF Drain
  <1>5. ServerFit(rest, G)
    BY <1>2 DEF Grows, Fits, ServerFit, LeaderFit
  <1>6. \A j \in Server : ServerFit(node'[j], G)
    <2> SUFFICES ASSUME NEW j \in Server, j # i PROVE ServerFit(node[j], G)
      BY <1>3, <1>5
    <2>1. CASE node[j].role # "leader"
      BY <2>1 DEF ServerFit, Grows, LogInv
    <2>2. CASE node[j].role = "leader"
      <3>1. \A L \in G : LastOf(L) = node[j].term => L \in H
        <4> SUFFICES ASSUME NEW L \in G, LastOf(L) = node[j].term, L \notin H PROVE FALSE
          OBVIOUS
        <4> DEFINE a == [term |-> node[j].term, server |-> j]
                   b == [term |-> r.term, server |-> i]
        <4>1. b \in elected'
          BY <1>4 DEF Elections, Grows
        <4>2. a.term = b.term /\ a.server = j /\ b.server = i
          BY DEF Grows
        <4> QED
          BY <1>4, <2>2, <4>1, <4>2 DEF ElectionSafety, HintInv
      <3> QED
        BY <3>1 DEF ServerFit, Grows, LeaderFit, LogInv
    <2> QED
      BY <2>1, <2>2
  <1>7. \A L \in G : \E e \in elected' : e.term = LastOf(L)
    <2> SUFFICES ASSUME NEW L \in G PROVE \E e \in elected' : e.term = LastOf(L)
      OBVIOUS
    <2>1. CASE L \in H
      BY <1>4, <2>1 DEF LogInv
    <2>2. CASE L \notin H
      <3> DEFINE won == [server |-> i, term |-> r.term]
      <3>1. won.term = LastOf(L)
        BY <2>2 DEF Grows
      <3> QED
        BY <1>4, <2>2, <3>1 DEF Elections, Grows
    <2> QED
      BY <2>1, <2>2
  <1>8. ElectedOnce'
    <2> SUFFICES ASSUME NEW e \in elected'
                 PROVE  /\ e.term <= node'[e.server].term
                        /\ e.term = node'[e.server].term => node'[e.server].role # "candidate"
      BY DEF ElectedOnce
    <2>1. CASE e \in Elections(i, r)
      <3>1. e.server = i /\ e.term = r.term /\ r.role = "leader"
        BY <2>1, SMTT(30) DEF Elections
      <3>2. r.term \in Nat
        BY <1>1, Fields
      <3>3. e.term <= r.term
        BY <3>1, <3>2, SMTT(30)
      <3> QED
        BY <1>2, <1>3, <3>1, <3>3
    <2>2. CASE e \in elected
      <3>1. CASE e.server # i
        BY <1>3, <2>2, <3>1 DEF IInv, TypeOK, LogInv, ElectedOnce
      <3>2. CASE e.server = i
        <4>1. /\ e.term <= node[i].term
              /\ e.term = node[i].term => node[i].role # "candidate"
          BY <2>2, <3>2 DEF LogInv, ElectedOnce
        <4>2. r.term > node[i].term \/ r.term = node[i].term
          BY DEF Allowed, Forward
        <4>3. e.term \in Nat /\ node[i].term \in Nat /\ r.term \in Nat
          BY <1>1, <2>2, Fields DEF IInv, TypeOK
        <4>4. e.term <= r.term /\ (e.term = r.term => r.term = node[i].term)
          BY <4>1, <4>2, <4>3, SMTT(30)
        <4>5. node'[e.server].term = r.term /\ node'[e.server].role = r.role
          BY <1>2, <1>3, <3>2
        <4> QED
          BY <4>1, <4>4, <4>5
      <3> QED
        BY <3>1, <3>2
    <2> QED
      BY <1>4, <2>1, <2>2
  <1> QED
    BY <1>6, <1>7, <1>8 DEF LogInv, Grows, Drain, MessageFit, Fits

\* The three invariants together.
MatchInv == IInv /\ HintInv /\ \E H : LogInv(H)

\* A step of the cluster keeps the logs in order, with the logs it adds.
LEMMA NextLogs ==
    ASSUME IInv, HintInv, [Next]_vars, Uncompacted', NEW H, LogInv(H)
    PROVE  \/ \E i \in Server : \E r : \E consumed : \E G :
                 Made(i, r) /\ Drain(i, r, consumed) /\ Grows(H, G, r) /\ LogInv(G)'
           \/ /\ msgs' \subseteq msgs /\ UNCHANGED <<node, cast, elected, committed, reads>>
              /\ LogInv(H)'
  <1>1. IInv' /\ HintInv'
    BY NextIInv, NextHint
  <1>2. ElectionSafety'
    BY <1>1, IInvElectionSafety, PTL
  <1>3. CASE \E i \in Server : \E r : \E consumed : Made(i, r) /\ Drain(i, r, consumed)
    <2> PICK i \in Server : \E r : \E consumed : Made(i, r) /\ Drain(i, r, consumed)
      BY <1>3
    <2> PICK r : \E consumed : Made(i, r) /\ Drain(i, r, consumed)
      OBVIOUS
    <2> PICK consumed : Made(i, r) /\ Drain(i, r, consumed)
      OBVIOUS
    <2>1. Allowed(i, r)
      BY MadeNames
    <2>2. r.base.index = 0
      BY <2>1 DEF Allowed, ServerState, Drain, Uncompacted, IInv, TypeOK
    <2>3. PICK G : Grows(H, G, r)
      BY <1>2, <2>2, MadeGrows DEF ElectionSafety, Drain, Won
    <2> QED
      BY <1>1, <1>2, <2>1, <2>3, DrainLogs, MadeCampaigns
  <1>4. CASE msgs' \subseteq msgs /\ UNCHANGED <<node, cast, elected, committed, reads>>
    BY <1>4 DEF LogInv, ElectedOnce
  <1> QED
    BY <1>3, <1>4, StepsMake

\* A state in which every log is some leader's log has matching logs.
LEMMA LogsMatch ==
    ASSUME IInv, NEW H, LogInv(H)
    PROVE  LogMatching
  <1> SUFFICES ASSUME NEW i \in Server, NEW j \in Server,
                      NEW n \in Max2(node[i].base.index, node[j].base.index) + 1
                                .. Min2(LastIndex(node[i]), LastIndex(node[j])),
                      TermAt(node[i], n) = TermAt(node[j], n)
               PROVE  TermAt(node[i], n - 1) = TermAt(node[j], n - 1)
    BY DEF LogMatching
  <1> DEFINE L == node[i].log
             M == node[j].log
  <1>1. /\ node[i] \in ServerState /\ node[j] \in ServerState
        /\ ServerFit(node[i], H) /\ ServerFit(node[j], H) /\ LogsOK(H)
    BY DEF IInv, TypeOK, LogInv
  <1>2. /\ LastIndex(node[i]) = Len(L) /\ LastIndex(node[j]) = Len(M)
        /\ TermAt(node[i], 0) = 0 /\ TermAt(node[j], 0) = 0
        /\ \A k \in 1 .. Len(L) : TermAt(node[i], k) = L[k]
        /\ \A k \in 1 .. Len(M) : TermAt(node[j], k) = M[k]
        /\ Len(L) \in Nat /\ Len(M) \in Nat
    BY <1>1, NoBase, SMTT(30) DEF ServerFit
  <1>3. L \in H /\ M \in H
    BY <1>1, <1>2, SMTT(30) DEF ServerFit, Max2, Min2
  <1> HIDE DEF L, M
  <1>4. CASE n = 1
    BY <1>2, <1>4, SMTT(30)
  <1>5. CASE n # 1
    BY <1>1, <1>2, <1>3, AgreeBelow, SMTT(30) DEF Max2, Min2, ServerFit
  <1> QED
    BY <1>4, <1>5

\* The invariant holds at the start: no leader, no log.
LEMMA InitLogs == Init => LogInv({})
  <1> SUFFICES ASSUME Init PROVE LogInv({})
    OBVIOUS
  <1> DEFINE b == Boot(0, Nil, [index |-> 0, term |-> 0], <<>>)
  <1>1. /\ b.base.index = 0 /\ b.base.term = 0 /\ b.log = <<>> /\ b.term = 0 /\ b.role = "follower"
    BY DEF Boot
  <1>2. (\A i \in Server : node[i] = b) /\ msgs = {} /\ elected = {}
    BY DEF Init
  <1> HIDE DEF b
  <1>3. ServerFit(b, {})
    BY <1>1, SMTT(30) DEF ServerFit, LastOf
  <1> QED
    BY <1>2, <1>3 DEF LogInv, LogsOK, ElectedOnce

\* Log matching, for every cluster and every bound as long as nothing is compacted:
\* two logs that agree on the term at an index agree on everything below it
\* (HandleAppendEntries' consistency check and cut).
THEOREM LogsAlwaysMatch == Spec /\ []Uncompacted => []LogMatching
  <1>1. Init => MatchInv
    BY InitIInv, InitHint, InitLogs DEF MatchInv
  <1>2. MatchInv /\ [Next]_vars /\ Uncompacted' => MatchInv'
    BY NextLogs, NextIInv, NextHint DEF MatchInv
  <1>3. MatchInv => LogMatching
    BY LogsMatch DEF MatchInv
  <1> QED
    BY <1>1, <1>2, <1>3, PTL DEF Spec

=============================================================================
