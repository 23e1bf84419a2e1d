----------------------------- MODULE RaftProofs -----------------------------
(***************************************************************************)
(* Election safety of the Raft core, for every number of servers and every *)
(* bound, with restarts, losses, reordering and snapshots.                 *)
(*                                                                         *)
(* A step of server i replaces its record by a record r and drains r.  The *)
(* proof has two halves.  Lemma DrainPreserves shows that draining any     *)
(* record that is Allowed keeps the inductive invariant IInv.  The lemmas  *)
(* before it show that every member function of the class yields an        *)
(* Allowed record: most of them leave the vote alone (Keeps); only         *)
(* StartElection, HandleRequestVote, HandleRequestVoteResp, BecomeFollower *)
(* and the constructor need an argument of their own.                      *)
(***************************************************************************)
EXTENDS RaftHistory, FiniteSetTheorems, WellFoundedInduction, TLAPS

-----------------------------------------------------------------------------
(* Naturals and quorums. *)

\* Zenon proves the leaves that name no other prover.
USE ZenonT(30)

\* The relation that WellFoundedInduction speaks of is the order of numbers.
LEMMA LessIsOpToRel ==
    ASSUME NEW x \in Nat, NEW y \in Nat, y < x
    PROVE  <<y, x>> \in OpToRel(<, Nat)
  BY SMTT(30) DEF OpToRel

\* A non-empty set of naturals has a least element, so MinOf is one of its
\* elements (used by the conflict hint and by the cut of the log).
LEMMA MinOfMember ==
    ASSUME NEW S, S \subseteq Nat, S # {}
    PROVE  MinOf(S) \in S /\ \A k \in S : MinOf(S) <= k
  <1>1. PICK x \in S : \A y \in S : ~(<<y, x>> \in OpToRel(<, Nat))
    BY NatLessThanWellFounded, WFMin
  <1>2. \A y \in S : x <= y
    <2> SUFFICES ASSUME NEW y \in S PROVE x <= y
      OBVIOUS
    <2>1. x \in Nat /\ y \in Nat
      OBVIOUS
    <2>2. ~(y < x)
      BY <1>1, <2>1, LessIsOpToRel
    <2> QED
      BY <2>1, <2>2, SMTT(30)
  <1> QED
    BY <1>2 DEF MinOf

\* A non-empty set of naturals below a bound has a greatest element, so MaxOf
\* is one of its elements (used by MaybeAdvanceCommit).
LEMMA MaxOfMember ==
    ASSUME NEW S, NEW b \in Nat, S \subseteq 0 .. b, S # {}
    PROVE  MaxOf(S) \in S
  <1> DEFINE T == {b - n : n \in S}
  <1>1. /\ T \subseteq Nat
        /\ T # {}
    <2>1. T \subseteq Nat
      BY SMTT(30) DEF T
    <2>2. T # {}
      BY DEF T
    <2> QED
      BY <2>1, <2>2
  <1>2. PICK x \in T : \A y \in T : ~(<<y, x>> \in OpToRel(<, Nat))
    BY <1>1, NatLessThanWellFounded, WFMin
  <1>3. \A y \in T : x <= y
    <2> SUFFICES ASSUME NEW y \in T PROVE x <= y
      OBVIOUS
    <2>1. x \in Nat /\ y \in Nat
      BY <1>1, <1>2
    <2>2. ~(y < x)
      BY <1>2, <2>1, LessIsOpToRel
    <2> QED
      BY <2>1, <2>2, SMTT(30)
  <1>4. PICK m \in S : x = b - m
    BY <1>2 DEF T
  <1>5. \A n \in S : n <= m
    <2> TAKE n \in S
    <2>1. b - n \in T
      BY DEF T
    <2>2. b - m <= b - n
      BY <2>1, <1>3, <1>4
    <2> QED
      BY <2>2, SMTT(30)
  <1> QED
    BY <1>5 DEF MaxOf

\* Two majorities of the cluster share a server.
LEMMA QuorumsMeet ==
    ASSUME NEW P \in SUBSET Server, NEW Q \in SUBSET Server, IsQuorum(P), IsQuorum(Q)
    PROVE  P \cap Q # {}
  <1>1. /\ Cardinality(Server) \in Nat
        /\ Cardinality(P) \in Nat
        /\ Cardinality(Q) \in Nat
    BY ServerAssumption, FS_CardinalityType, FS_Subset
  <1>2. Cardinality(P) + Cardinality(Q) > Cardinality(Server)
    BY <1>1, SMTT(30) DEF IsQuorum
  <1> QED
    BY <1>2, ServerAssumption, FS_MajoritiesIntersect

-----------------------------------------------------------------------------
(* Types of the helpers. *)

\* The fields of a server record have their types (the members of class Raft).
LEMMA Fields ==
    ASSUME NEW s \in ServerState
    PROVE  /\ s.term \in Nat
           /\ s.votedFor \in Server \cup {Nil}
           /\ s.base \in Snapshot
           /\ s.base.index \in Nat
           /\ s.base.term \in Nat
           /\ s.log \in Seq(Nat)
           /\ Len(s.log) \in Nat
           /\ LastIndex(s) \in Nat
           /\ s.votes \in SUBSET Server
           /\ s.commit \in Nat
           /\ s.next \in [Server -> Nat \ {0}]
           /\ s.match \in [Server -> Nat]
           /\ s.hbAcked \in [Server -> Nat]
           /\ s.hbSeq \in Nat
  BY SMTT(30) DEF ServerState, Snapshot, LastIndex

\* An entry of a log is a term.
LEMMA ElementType ==
    ASSUME NEW log \in Seq(Nat), NEW k \in 1 .. Len(log)
    PROVE  log[k] \in Nat
  BY SMTT(30)

\* TermAt is a term, whatever the index: 0 outside the log (TermAt).
LEMMA TermAtType ==
    ASSUME NEW s \in ServerState, NEW n \in Int
    PROVE  TermAt(s, n) \in Nat
  <1>1. ASSUME n > s.base.index, n <= LastIndex(s)
        PROVE  s.log[n - s.base.index] \in Nat
    <2>1. n - s.base.index \in 1 .. Len(s.log)
      BY SMTT(60), <1>1, Fields DEF LastIndex
    <2>2. s.log \in Seq(Nat)
      BY Fields
    <2> QED
      BY <2>1, <2>2, ElementType
  <1> QED
    BY <1>1, Fields DEF TermAt

\* The term of the last entry is a term (the log's end, as RequestVote reports it).
LEMMA LastTermType ==
    ASSUME NEW s \in ServerState
    PROVE  LastTerm(s) \in Nat
  BY Fields, SMTT(30) DEF LastTerm

\* A granted vote response: the only message that carries a vote.
Grant(m) == m.kind = "RequestVoteResp" /\ m.granted

\* r has the vote, the election result and the granted responses of s: the
\* frame of every function that does not take part in an election.
Keeps(s, r) ==
    /\ r \in ServerState
    /\ r.term = s.term
    /\ r.votedFor = s.votedFor
    /\ r.votes = s.votes
    /\ r.role = s.role
    /\ \A m \in r.out : m \in s.out \/ ~Grant(m)

\* Keeps composes: a function that calls two such functions is one itself.
LEMMA KeepsTransitive ==
    ASSUME NEW s, NEW q, NEW r, Keeps(s, q), Keeps(q, r)
    PROVE  Keeps(s, r)
  BY DEF Keeps

\* Leaving a record alone keeps it (the early returns of the handlers).
LEMMA KeepsReflexive ==
    ASSUME NEW s \in ServerState
    PROVE  Keeps(s, s)
  BY DEF Keeps

\* Send appends a message to ready_ and does nothing else.
LEMMA SendKeeps ==
    ASSUME NEW s \in ServerState, NEW m \in Message, ~Grant(m)
    PROVE  Keeps(s, Send(s, m))
  BY DEF Keeps, Send, ServerState

-----------------------------------------------------------------------------
(* Messages are well formed. *)

\* Every response and request a server builds is a message of its kind.
LEMMA ResponseTypes ==
    ASSUME NEW i \in Server, NEW s \in ServerState, NEW p \in Server,
           NEW b \in BOOLEAN, NEW x \in Nat, NEW y \in Nat, NEW z \in Nat
    PROVE  /\ RequestVote(i, s, p) \in Message /\ ~Grant(RequestVote(i, s, p))
           /\ RequestVoteResp(i, s, p, b) \in Message
           /\ AppendEntriesResp(i, s, p, b, x, y, z) \in Message
           /\ ~Grant(AppendEntriesResp(i, s, p, b, x, y, z))
           /\ InstallSnapshotResp(i, s, p, b, x) \in Message
           /\ ~Grant(InstallSnapshotResp(i, s, p, b, x))
  <1>1. RequestVote(i, s, p) \in RequestVoteMsg
    BY Fields, LastTermType DEF RequestVote, RequestVoteMsg
  <1>2. RequestVoteResp(i, s, p, b) \in RequestVoteRespMsg
    BY Fields DEF RequestVoteResp, RequestVoteRespMsg
  <1>3. AppendEntriesResp(i, s, p, b, x, y, z) \in AppendEntriesRespMsg
    BY Fields DEF AppendEntriesResp, AppendEntriesRespMsg
  <1>4. InstallSnapshotResp(i, s, p, b, x) \in InstallSnapshotRespMsg
    BY Fields DEF InstallSnapshotResp, InstallSnapshotRespMsg
  <1> QED
    BY <1>1, <1>2, <1>3, <1>4
       DEF Message, Grant, RequestVote, AppendEntriesResp, InstallSnapshotResp

\* A slice of a log is a log.
LEMMA SliceType ==
    ASSUME NEW log \in Seq(Nat), NEW a \in Nat \ {0}, NEW b \in Int, b <= Len(log)
    PROVE  SubSeq(log, a, b) \in Seq(Nat)
  BY SMTT(30)

\* What SendAppend sends is a well-formed snapshot or a well-formed slice of the
\* log.
LEMMA AppendMessageType ==
    ASSUME NEW i \in Server, NEW s \in ServerState, NEW p \in Server
    PROVE  AppendMessage(i, s, p) \in Message /\ ~Grant(AppendMessage(i, s, p))
  <1>1. s.next[p] \in Nat \ {0}
    BY Fields
  <1>2. CASE s.next[p] <= s.base.index
    <2>1. InstallSnapshot(i, s, p) \in InstallSnapshotMsg
      BY Fields DEF InstallSnapshot, InstallSnapshotMsg
    <2> QED
      BY <1>2, <2>1 DEF AppendMessage, Message, Grant, InstallSnapshot
  <1>3. CASE ~(s.next[p] <= s.base.index)
    <2> DEFINE prev == s.next[p] - 1
               last == Min2(LastIndex(s), prev + MaxEntries)
    <2>1. prev \in Nat /\ prev >= s.base.index
      BY <1>1, <1>3, Fields, SMTT(30)
    <2>2. last \in Nat /\ last <= LastIndex(s)
      BY <2>1, Fields, BoundAssumption, SMTT(30) DEF Min2
    <2> HIDE DEF prev, last
    <2>b. s.base.index \in Nat /\ Len(s.log) \in Nat
      BY Fields
    <2>3. /\ prev + 1 - s.base.index \in Nat \ {0}
          /\ last - s.base.index \in Int
          /\ last - s.base.index <= Len(s.log)
      BY SMTT(60), <2>1, <2>2, <2>b DEF LastIndex
    <2>4. SubSeq(s.log, prev + 1 - s.base.index, last - s.base.index) \in Seq(Nat)
      BY <2>3, SliceType, Fields
    <2>5. TermAt(s, prev) \in Nat
      BY <2>1, TermAtType, SMTT(30)
    <2>6. AppendEntries(i, s, p) \in AppendEntriesMsg
      BY <2>1, <2>4, <2>5, Fields DEF AppendEntries, AppendEntriesMsg, prev, last
    <2> QED
      BY <1>3, <2>6 DEF AppendMessage, Message, Grant, AppendEntries
  <1> QED
    BY <1>2, <1>3

-----------------------------------------------------------------------------
(* The functions that keep the vote. *)

\* BroadcastAppend only adds append messages to ready_.
LEMMA BroadcastAppendKeeps ==
    ASSUME NEW i \in Server, NEW s \in ServerState
    PROVE  Keeps(s, BroadcastAppend(i, s))
  <1> DEFINE sent == {AppendMessage(i, s, p) : p \in Peers(i)}
  <1>1. \A m \in sent : m \in Message /\ ~Grant(m)
    BY AppendMessageType DEF Peers
  <1> HIDE DEF sent
  <1>2. Keeps(s, [s EXCEPT !.out = @ \cup sent])
    BY <1>1 DEF Keeps, ServerState
  <1> QED
    BY <1>2 DEF BroadcastAppend, sent

\* EmitCommitted moves commit_ and hands entries of the log to the host.
LEMMA EmitCommittedKeeps ==
    ASSUME NEW s \in ServerState, NEW n \in Nat
    PROVE  Keeps(s, EmitCommitted(s, n))
  <1> DEFINE given == {[index |-> k, term |-> TermAt(s, k)] : k \in s.commit + 1 .. n}
  <1>1. \A k \in s.commit + 1 .. n : k \in Nat /\ TermAt(s, k) \in Nat
    BY SMTT(60), Fields, TermAtType
  <1>2. given \subseteq [index : Nat, term : Nat]
    BY <1>1, SMTT(30)
  <1> HIDE DEF given
  <1>3. Keeps(s, [s EXCEPT !.commit = n, !.emitted = @ \cup given])
    BY <1>2 DEF Keeps, ServerState
  <1> QED
    BY <1>3 DEF EmitCommitted, given

\* MaybeAdvanceCommit emits up to an index of the log, or does nothing.
LEMMA MaybeAdvanceCommitKeeps ==
    ASSUME NEW s \in ServerState
    PROVE  Keeps(s, MaybeAdvanceCommit(s))
  <1>1. CASE s.role = "leader" /\ Countable(s) # {}
    <2>1. Countable(s) \subseteq 0 .. LastIndex(s)
      BY Fields, SMTT(30) DEF Countable
    <2>2. MaxOf(Countable(s)) \in Countable(s)
      BY <1>1, <2>1, Fields, MaxOfMember
    <2>3. MaxOf(Countable(s)) \in Nat
      BY <2>1, <2>2, Fields, SMTT(30)
    <2> QED
      BY <1>1, <2>3, EmitCommittedKeeps DEF MaybeAdvanceCommit
  <1>2. CASE ~(s.role = "leader" /\ Countable(s) # {})
    BY <1>2, KeepsReflexive DEF MaybeAdvanceCommit
  <1> QED
    BY <1>1, <1>2

\* Appending an entry of the leader's own term touches the log and match only.
LEMMA AppendOwnKeeps ==
    ASSUME NEW i \in Server, NEW s \in ServerState
    PROVE  Keeps(s, AppendOwn(i, s))
  <1>1. Append(s.log, s.term) \in Seq(Nat)
    BY Fields, SMTT(30)
  <1>2. [s.match EXCEPT ![i] = LastIndex(s) + 1] \in [Server -> Nat]
    BY Fields, SMTT(30)
  <1> DEFINE log == Append(s.log, s.term)
             match == [s.match EXCEPT ![i] = LastIndex(s) + 1]
  <1> HIDE DEF log, match
  <1>3. Keeps(s, [s EXCEPT !.log = log, !.match = match])
    BY <1>1, <1>2 DEF Keeps, ServerState, log, match
  <1>4. AppendOwn(i, s) = [s EXCEPT !.log = log, !.match = match]
    BY DEF AppendOwn, log, match, ServerState
  <1> QED
    BY <1>3, <1>4

\* Propose: append, broadcast, count.
LEMMA ProposeKeeps ==
    ASSUME NEW i \in Server, NEW s \in ServerState
    PROVE  Keeps(s, Propose(i, s))
  <1> DEFINE q == AppendOwn(i, s)
             r == BroadcastAppend(i, q)
  <1>1. Keeps(s, q)
    BY AppendOwnKeeps
  <1>2. q \in ServerState
    BY <1>1 DEF Keeps
  <1> HIDE DEF q
  <1>3. Keeps(q, r)
    BY <1>2, BroadcastAppendKeeps
  <1>4. r \in ServerState
    BY <1>3 DEF Keeps
  <1> HIDE DEF r
  <1>5. Keeps(r, MaybeAdvanceCommit(r))
    BY <1>4, MaybeAdvanceCommitKeeps
  <1>6. Keeps(s, MaybeAdvanceCommit(r))
    BY <1>1, <1>3, <1>5, KeepsTransitive
  <1> QED
    BY <1>6 DEF Propose, q, r

\* The heartbeat of a leader: a new sequence number, then a broadcast.
LEMMA HeartbeatKeeps ==
    ASSUME NEW i \in Server, NEW s \in ServerState
    PROVE  Keeps(s, Heartbeat(i, s))
  <1> DEFINE seq == s.hbSeq + 1
             q == [s EXCEPT !.hbSeq = seq]
  <1>0. seq \in Nat
    BY Fields, SMTT(30)
  <1> HIDE DEF seq
  <1>1. Keeps(s, q)
    BY <1>0 DEF Keeps, ServerState
  <1>2. q \in ServerState
    BY <1>1 DEF Keeps
  <1> HIDE DEF q
  <1>3. Keeps(q, BroadcastAppend(i, q))
    BY <1>2, BroadcastAppendKeeps
  <1>4. Keeps(s, BroadcastAppend(i, q))
    BY <1>1, <1>3, KeepsTransitive
  <1> QED
    BY <1>4 DEF Heartbeat, q, seq

\* StartReadIndex records a pending read or confirms it on the spot.
LEMMA StartReadIndexKeeps ==
    ASSUME NEW i \in Server, NEW s \in ServerState, NEW floor \in Nat
    PROVE  Keeps(s, StartReadIndex(i, s, floor))
  <1> DEFINE read == [index |-> s.commit, floor |-> floor]
             pend == [seq |-> s.hbSeq + 1, index |-> s.commit, floor |-> floor]
             seq == s.hbSeq + 1
             q == [s EXCEPT !.hbSeq = seq, !.pending = @ \cup {pend}]
  <1>1. /\ seq \in Nat
        /\ read \in [index : Nat, floor : Nat]
        /\ pend \in [seq : Nat, index : Nat, floor : Nat]
    BY Fields, SMTT(30)
  <1> HIDE DEF read, pend, seq
  <1>2. CASE IsQuorum({i})
    <2>1. Keeps(s, [s EXCEPT !.confirmed = @ \cup {read}])
      BY <1>1 DEF Keeps, ServerState
    <2> QED
      BY <1>2, <2>1 DEF StartReadIndex, read
  <1>3. CASE ~IsQuorum({i})
    <2>1. Keeps(s, q)
      BY <1>1 DEF Keeps, ServerState
    <2>2. q \in ServerState
      BY <2>1 DEF Keeps
    <2> HIDE DEF q
    <2>3. Keeps(q, BroadcastAppend(i, q))
      BY <2>2, BroadcastAppendKeeps
    <2>4. Keeps(s, BroadcastAppend(i, q))
      BY <2>1, <2>3, KeepsTransitive
    <2> QED
      BY <1>3, <2>4 DEF StartReadIndex, q, pend, seq
  <1> QED
    BY <1>2, <1>3

\* CompactTo drops a prefix of the log.
LEMMA CompactToKeeps ==
    ASSUME NEW s \in ServerState, NEW n \in Nat, n > s.base.index
    PROVE  Keeps(s, CompactTo(s, n))
  <1> DEFINE base == [index |-> n, term |-> TermAt(s, n)]
             log == SubSeq(s.log, n - s.base.index + 1, Len(s.log))
  <1>1. base \in Snapshot
    BY TermAtType, SMTT(30) DEF Snapshot
  <1>2. n - s.base.index + 1 \in Nat \ {0}
    BY Fields, SMTT(30)
  <1>3. log \in Seq(Nat)
    BY SMTT(60), <1>2, SliceType, Fields
  <1> HIDE DEF base, log
  <1>4. Keeps(s, [s EXCEPT !.base = base, !.log = log])
    BY <1>1, <1>3 DEF Keeps, ServerState
  <1> QED
    BY <1>4 DEF CompactTo, base, log

\* A success response advances match and next, then counts.
LEMMA AcknowledgeKeeps ==
    ASSUME NEW s \in ServerState, NEW p \in Server, NEW n \in Nat
    PROVE  Keeps(s, Acknowledge(s, p, n))
  <1> DEFINE match == [s.match EXCEPT ![p] = Max2(@, n)]
             next == [s.next EXCEPT ![p] = Max2(@, n + 1)]
             q == [s EXCEPT !.match = match, !.next = next]
  <1>1. match \in [Server -> Nat]
    BY Fields DEF Max2
  <1>2. next \in [Server -> Nat \ {0}]
    BY Fields, SMTT(30) DEF Max2
  <1> HIDE DEF match, next
  <1>3. Keeps(s, q)
    BY <1>1, <1>2 DEF Keeps, ServerState
  <1>4. q \in ServerState
    BY <1>3 DEF Keeps
  <1>5. q = [s EXCEPT !.match[p] = Max2(@, n), !.next[p] = Max2(@, n + 1)]
    BY DEF match, next, ServerState
  <1> HIDE DEF q
  <1>6. Keeps(q, MaybeAdvanceCommit(q))
    BY <1>4, MaybeAdvanceCommitKeeps
  <1>7. Keeps(s, MaybeAdvanceCommit(q))
    BY <1>3, <1>6, KeepsTransitive
  <1> QED
    BY <1>5, <1>7 DEF Acknowledge

\* A failure response lowers next, never below 1, and sends again.
LEMMA BackOffKeeps ==
    ASSUME NEW i \in Server, NEW s \in ServerState, NEW p \in Server, NEW hint \in Nat
    PROVE  Keeps(s, BackOff(i, s, p, hint))
  <1> DEFINE low == Max2(1, Min2(IF hint # 0 THEN hint ELSE s.next[p] - 1, s.next[p] - 1))
             next == [s.next EXCEPT ![p] = low]
             q == [s EXCEPT !.next = next]
  <1>1. s.next[p] \in Nat \ {0}
    BY Fields
  <1>2. low \in Nat \ {0}
    BY <1>1, SMTT(30) DEF Max2, Min2
  <1> HIDE DEF low
  <1>3. next \in [Server -> Nat \ {0}]
    BY <1>2, Fields
  <1> HIDE DEF next
  <1>4. Keeps(s, q)
    BY <1>3 DEF Keeps, ServerState
  <1>5. q \in ServerState
    BY <1>4 DEF Keeps
  <1>6. q = [s EXCEPT !.next[p] = low]
    BY DEF next, ServerState
  <1> HIDE DEF q
  <1>7. Keeps(q, SendAppend(i, q, p))
    BY <1>5, AppendMessageType, SendKeeps DEF SendAppend
  <1>8. Keeps(s, SendAppend(i, q, p))
    BY <1>4, <1>7, KeepsTransitive
  <1> QED
    BY <1>6, <1>8 DEF BackOff, low

\* Confirming reads moves them from pending to ready_.
LEMMA ConfirmReadsKeeps ==
    ASSUME NEW i \in Server, NEW s \in ServerState
    PROVE  Keeps(s, ConfirmReads(i, s))
  <1> DEFINE done == {r \in s.pending : ReadQuorum(i, s, r)}
             given == {[index |-> r.index, floor |-> r.floor] : r \in done}
  <1>1. done \subseteq [seq : Nat, index : Nat, floor : Nat]
    BY DEF ServerState
  <1> HIDE DEF done
  <1>2. given \subseteq [index : Nat, floor : Nat]
    BY <1>1, SMTT(30)
  <1> HIDE DEF given
  <1>3. Keeps(s, [s EXCEPT !.pending = @ \ done, !.confirmed = @ \cup given])
    BY <1>2 DEF Keeps, ServerState
  <1> QED
    BY <1>3 DEF ConfirmReads, done, given

\* The leader's handling of an append response.
LEMMA HandleAppendEntriesRespKeeps ==
    ASSUME NEW i \in Server, NEW s \in ServerState, NEW m \in AppendEntriesRespMsg
    PROVE  Keeps(s, HandleAppendEntriesResp(i, s, m))
  <1>0. /\ m.from \in Server
        /\ m.hbSeq \in Nat
        /\ m.match \in Nat
        /\ m.hint \in Nat
    BY DEF AppendEntriesRespMsg
  <1>1. CASE s.role # "leader"
    BY <1>1, KeepsReflexive DEF HandleAppendEntriesResp
  <1>2. CASE s.role = "leader"
    <2> DEFINE acked == [s.hbAcked EXCEPT ![m.from] = Max2(@, m.hbSeq)]
               a == [s EXCEPT !.hbAcked = acked]
               b == IF m.success THEN Acknowledge(a, m.from, m.match)
                                 ELSE BackOff(i, a, m.from, m.hint)
    <2>1. acked \in [Server -> Nat]
      BY <1>0, Fields DEF Max2
    <2> HIDE DEF acked
    <2>2. Keeps(s, a)
      BY <2>1 DEF Keeps, ServerState
    <2>3. a \in ServerState
      BY <2>2 DEF Keeps
    <2>4. a = [s EXCEPT !.hbAcked[m.from] = Max2(@, m.hbSeq)]
      BY DEF acked, ServerState
    <2> HIDE DEF a
    <2>5. Keeps(a, b)
      BY <1>0, <2>3, AcknowledgeKeeps, BackOffKeeps
    <2>6. b \in ServerState
      BY <2>5 DEF Keeps
    <2>7. HandleAppendEntriesResp(i, s, m) = ConfirmReads(i, b)
      BY <1>2, <2>4 DEF HandleAppendEntriesResp
    <2> HIDE DEF b
    <2>8. Keeps(b, ConfirmReads(i, b))
      BY <2>6, ConfirmReadsKeeps
    <2> QED
      BY <2>2, <2>5, <2>7, <2>8, KeepsTransitive
  <1> QED
    BY <1>1, <1>2

\* The leader's handling of a snapshot response.
LEMMA HandleInstallSnapshotRespKeeps ==
    ASSUME NEW s \in ServerState, NEW m \in InstallSnapshotRespMsg
    PROVE  Keeps(s, HandleInstallSnapshotResp(s, m))
  <1>1. m.from \in Server /\ m.match \in Nat
    BY DEF InstallSnapshotRespMsg
  <1> QED
    BY <1>1, AcknowledgeKeeps, KeepsReflexive DEF HandleInstallSnapshotResp

\* A follower's commit index follows the leader's, up to the end of its log.
LEMMA FollowCommitKeeps ==
    ASSUME NEW s \in ServerState, NEW n \in Nat
    PROVE  Keeps(s, FollowCommit(s, n))
  <1>1. Min2(n, LastIndex(s)) \in Nat
    BY Fields DEF Min2
  <1> QED
    BY <1>1, EmitCommittedKeeps, KeepsReflexive DEF FollowCommit

\* The hint of a refused append is an index.
LEMMA ConflictHintType ==
    ASSUME NEW s \in ServerState, NEW n \in Nat
    PROVE  ConflictHint(s, n) \in Nat
  <1> DEFINE run == {n} \cup {f \in s.base.index + 1 .. n :
                                 \A k \in f .. n : TermAt(s, k) = TermAt(s, n)}
  <1>1. run \subseteq Nat /\ run # {}
    BY Fields, SMTT(30)
  <1>2. FirstOfTerm(s, n) = MinOf(run)
    BY DEF FirstOfTerm
  <1> HIDE DEF run
  <1>3. FirstOfTerm(s, n) \in Nat
    BY <1>1, <1>2, MinOfMember
  <1> QED
    BY <1>3, Fields, SMTT(30) DEF ConflictHint

\* The log after an accepted append is a log.
LEMMA OverwriteType ==
    ASSUME NEW s \in ServerState, NEW prev \in Nat, NEW entries \in Seq(Nat),
           prev >= s.base.index, prev <= LastIndex(s)
    PROVE  Overwrite(s, prev, entries) \in Seq(Nat)
  <1> DEFINE fresh == {k \in 1 .. Len(entries) : \/ prev + k > LastIndex(s)
                                                 \/ TermAt(s, prev + k) # entries[k]}
             first == MinOf(fresh)
             kept == SubSeq(s.log, 1, prev + first - 1 - s.base.index)
             new == SubSeq(entries, first, Len(entries))
  <1>1. CASE fresh = {}
    BY <1>1, Fields DEF Overwrite
  <1>2. CASE fresh # {}
    <2>1. fresh \subseteq Nat
      BY SMTT(30)
    <2>2. first \in fresh
      BY <1>2, <2>1, MinOfMember
    <2>3. first \in 1 .. Len(entries)
      BY <2>2
    <2>4. \A k \in fresh : first <= k
      BY <1>2, <2>1, MinOfMember
    <2>5. prev + first - 1 <= LastIndex(s)
      <3>1. CASE first = 1
        BY <3>1, Fields, SMTT(30)
      <3>2. CASE first # 1
        <4>1. first - 1 \in 1 .. Len(entries) /\ ~(first <= first - 1)
          BY <2>3, <3>2, SMTT(30)
        <4>2. first - 1 \notin fresh
          BY <2>4, <4>1
        <4>3. ~(prev + (first - 1) > LastIndex(s))
          BY <4>1, <4>2
        <4> QED
          BY <2>3, <4>3, Fields, SMTT(30)
      <3> QED
        BY <3>1, <3>2
    <2> HIDE DEF first
    <2>6. /\ prev + first - 1 - s.base.index \in Int
          /\ prev + first - 1 - s.base.index <= Len(s.log)
      BY SMTT(60), <2>3, <2>5, Fields DEF LastIndex
    <2>7. kept \in Seq(Nat)
      BY SMTT(60), <2>6, SliceType, Fields
    <2>8. new \in Seq(Nat)
      BY <2>3, SliceType, SMTT(30)
    <2>9. Overwrite(s, prev, entries) = kept \o new
      BY <1>2 DEF Overwrite, first
    <2> HIDE DEF kept, new
    <2>10. kept \o new \in Seq(Nat)
      BY <2>7, <2>8, SMTT(30)
    <2> QED
      BY <2>9, <2>10
  <1> QED
    BY <1>1, <1>2

\* The consistency check, the cut and the commit of HandleAppendEntries.
LEMMA AcceptEntriesKeeps ==
    ASSUME NEW i \in Server, NEW s \in ServerState, NEW m \in AppendEntriesMsg,
           NEW prev \in Nat, NEW prevTerm, NEW entries \in Seq(Nat),
           prev >= s.base.index
    PROVE  Keeps(s, AcceptEntries(i, s, m, prev, prevTerm, entries))
  <1>0. m.from \in Server /\ m.commit \in Nat /\ m.hbSeq \in Nat
    BY DEF AppendEntriesMsg
  <1>1. CASE prev > LastIndex(s) \/ TermAt(s, prev) # prevTerm
    <2> DEFINE resp == AppendEntriesResp(i, s, m.from, FALSE, 0,
                                         ConflictHint(s, prev), m.hbSeq)
    <2>1. ConflictHint(s, prev) \in Nat
      BY ConflictHintType
    <2>2. resp \in Message /\ ~Grant(resp)
      BY <1>0, <2>1, ResponseTypes
    <2> HIDE DEF resp
    <2>3. Keeps(s, Send(s, resp))
      BY <2>2, SendKeeps
    <2> QED
      BY <1>1, <2>3 DEF AcceptEntries, resp
  <1>2. CASE ~(prev > LastIndex(s) \/ TermAt(s, prev) # prevTerm)
    <2> DEFINE log == Overwrite(s, prev, entries)
               q == [s EXCEPT !.log = log]
               r == FollowCommit(q, m.commit)
               resp == AppendEntriesResp(i, s, m.from, TRUE, prev + Len(entries), 0,
                                         m.hbSeq)
    <2>1. prev <= LastIndex(s)
      BY SMTT(60), <1>2, Fields
    <2>2. log \in Seq(Nat)
      BY <2>1, OverwriteType
    <2> HIDE DEF log
    <2>3. Keeps(s, q)
      BY ZenonT(60), <2>2 DEF Keeps, ServerState
    <2>4. q \in ServerState
      BY <2>3 DEF Keeps
    <2> HIDE DEF q
    <2>5. Keeps(q, r)
      BY <1>0, <2>4, FollowCommitKeeps
    <2>6. r \in ServerState
      BY <2>5 DEF Keeps
    <2> HIDE DEF r
    <2>7. prev + Len(entries) \in Nat
      BY SMTT(30)
    <2>8. resp \in Message /\ ~Grant(resp)
      BY ZenonT(60), <1>0, <2>7, ResponseTypes
    <2> HIDE DEF resp
    <2>9. Keeps(r, Send(r, resp))
      BY <2>6, <2>8, SendKeeps
    <2>10. Keeps(s, Send(r, resp))
      BY <2>3, <2>5, <2>9, KeepsTransitive
    <2> QED
      BY <1>2, <2>10 DEF AcceptEntries, log, q, r, resp
  <1> QED
    BY <1>1, <1>2

-----------------------------------------------------------------------------
(* The inductive invariant. *)

\* A vote that was cast still binds its voter.
CastStands ==
    \A v \in cast : \/ v.term < node[v.voter].term
                    \/ v.term = node[v.voter].term /\ v.for = node[v.voter].votedFor

\* A server casts one vote per term.
CastOnce ==
    \A u, v \in cast : u.voter = v.voter /\ u.term = v.term => u.for = v.for

\* A granted response in flight tells of a vote that was cast.
GrantsCast ==
    \A m \in msgs : Grant(m) => [voter |-> m.from, term |-> m.term, for |-> m.to] \in cast

\* The votes a server counts were cast for it, in its term.
VotesCast ==
    \A i \in Server : \A j \in node[i].votes :
        [voter |-> j, term |-> node[i].term, for |-> i] \in cast

\* A leader has counted a majority.
LeadersHaveQuorum ==
    \A i \in Server : node[i].role = "leader" => IsQuorum(node[i].votes)

\* Behind every election ever won stand the votes of a majority.
ElectedByQuorum ==
    \A e \in elected : \E Q \in SUBSET Server :
        IsQuorum(Q) /\ \A j \in Q : [voter |-> j, term |-> e.term, for |-> e.server] \in cast

IInv ==
    /\ TypeOK
    /\ CastStands
    /\ CastOnce
    /\ GrantsCast
    /\ VotesCast
    /\ LeadersHaveQuorum
    /\ ElectedByQuorum

\* The hard state moves forward from s to r.
Forward(s, r) ==
    \/ r.term > s.term
    \/ r.term = s.term /\ (s.votedFor # Nil => r.votedFor = s.votedFor)

\* Server i may move to r: the condition that keeps IInv.
Allowed(i, r) ==
    /\ r \in ServerState
    /\ Forward(node[i], r)
    /\ \A m \in r.out : Grant(m) => m.from = i /\ m.term = r.term /\ m.to = r.votedFor
    /\ \A j \in r.votes : [voter |-> j, term |-> r.term, for |-> i] \in cast \cup Votes(i, r)
    /\ r.role = "leader" => IsQuorum(r.votes)

\* Between two steps a server is where it may be.
LEMMA Standing ==
    ASSUME IInv, NEW i \in Server
    PROVE  Allowed(i, node[i]) /\ node[i].out = {} /\ node[i] \in ServerState
  BY DEF IInv, TypeOK, Drained, VotesCast, LeadersHaveQuorum, Allowed, Forward

\* A function that keeps the vote leads from an allowed record to an allowed one.
LEMMA KeepsAllowed ==
    ASSUME NEW i \in Server, NEW s, NEW r, Allowed(i, s), Keeps(s, r)
    PROVE  Allowed(i, r)
  BY DEF Allowed, Keeps, Forward, Votes

\* BecomeFollower forgets the vote only when the term grows.
LEMMA BecomeFollowerAllowed ==
    ASSUME NEW i \in Server, NEW s, Allowed(i, s), s.out = {}, node[i].term \in Nat,
           NEW t \in Nat, t >= s.term, NEW ldr \in Server \cup {Nil}
    PROVE  LET r == BecomeFollower(s, t, ldr)
           IN  Allowed(i, r) /\ r.out = {} /\ r.term = t
  <1> DEFINE vote == IF t > s.term THEN Nil ELSE s.votedFor
             r == [s EXCEPT !.term = t, !.votedFor = vote, !.role = "follower",
                            !.leader = ldr, !.votes = {}, !.pending = {}]
  <1>1. s \in ServerState
    BY DEF Allowed
  <1>2. /\ vote \in Server \cup {Nil}
        /\ t > s.term \/ (t = s.term /\ vote = s.votedFor)
    BY <1>1, Fields, SMTT(30)
  <1>3. BecomeFollower(s, t, ldr) = r
    BY <1>1, Fields DEF BecomeFollower, Max2
  <1> HIDE DEF vote
  <1>4. r \in ServerState
    BY <1>1, <1>2 DEF ServerState
  <1>5. /\ r.term = t /\ r.votedFor = vote /\ r.votes = {} /\ r.role = "follower"
        /\ r.out = {}
    BY <1>1 DEF ServerState
  <1> HIDE DEF r
  <1>6. Forward(node[i], r)
    BY SMTT(60), <1>1, <1>2, <1>5, Fields DEF Allowed, Forward
  <1> QED
    BY <1>3, <1>4, <1>5, <1>6 DEF Allowed

\* Hearing from the leader of the term may end a candidacy, nothing more.
LEMMA HearLeaderAllowed ==
    ASSUME NEW i \in Server, NEW s, Allowed(i, s), s.out = {}, node[i].term \in Nat,
           NEW m, m.from \in Server
    PROVE  Allowed(i, HearLeader(s, m))
  <1>1. s \in ServerState
    BY DEF Allowed
  <1> DEFINE q == IF s.role = "candidate" THEN BecomeFollower(s, s.term, m.from) ELSE s
  <1>2. s.term \in Nat /\ s.term >= s.term
    BY <1>1, Fields, SMTT(30)
  <1>3. Allowed(i, q)
    BY <1>2, BecomeFollowerAllowed
  <1>4. q \in ServerState
    BY <1>3 DEF Allowed
  <1>5. HearLeader(s, m) = [q EXCEPT !.leader = m.from]
    BY DEF HearLeader
  <1> HIDE DEF q
  <1>6. Keeps(q, [q EXCEPT !.leader = m.from])
    BY ZenonT(60), <1>4 DEF Keeps, ServerState
  <1> QED
    BY <1>3, <1>5, <1>6, KeepsAllowed

\* A follower's handling of an append.
LEMMA HandleAppendEntriesAllowed ==
    ASSUME NEW i \in Server, NEW s0, Allowed(i, s0), s0.out = {}, node[i].term \in Nat,
           NEW m \in AppendEntriesMsg
    PROVE  Allowed(i, HandleAppendEntries(i, s0, m))
  <1> DEFINE s == HearLeader(s0, m)
             covered == s.base.index - m.prev
  <1>0. /\ m.from \in Server
        /\ m.prev \in Nat
        /\ m.entries \in Seq(Nat)
        /\ Len(m.entries) \in Nat
        /\ m.hbSeq \in Nat
    BY SMTT(30) DEF AppendEntriesMsg
  <1>1. Allowed(i, s)
    BY <1>0, HearLeaderAllowed
  <1>2. s \in ServerState
    BY <1>1 DEF Allowed
  <1>3. /\ s.base.index \in Nat
        /\ s.base.index >= s.base.index
    BY SMTT(60), <1>2, Fields
  <1>4. SUFFICES Keeps(s, HandleAppendEntries(i, s0, m))
    BY <1>1, KeepsAllowed
  <1> HIDE DEF s
  <1>5. CASE m.prev >= s.base.index
    <2>1. HandleAppendEntries(i, s0, m) = AcceptEntries(i, s, m, m.prev, m.prevTerm, m.entries)
      BY <1>5 DEF HandleAppendEntries, s
    <2> QED
      BY <1>0, <1>2, <1>5, <2>1, AcceptEntriesKeeps
  <1>6. CASE ~(m.prev >= s.base.index) /\ Len(m.entries) <= covered
    <2> DEFINE match == Max2(s.base.index, m.prev + Len(m.entries))
               resp == AppendEntriesResp(i, s, m.from, TRUE, match, 0, m.hbSeq)
    <2>1. match \in Nat
      BY SMTT(60), <1>0, <1>3 DEF Max2
    <2>2. HandleAppendEntries(i, s0, m) = Send(s, resp)
      BY <1>6 DEF HandleAppendEntries, s
    <2> HIDE DEF match
    <2>3. resp \in Message /\ ~Grant(resp)
      BY <1>0, <1>2, <2>1, ResponseTypes
    <2> QED
      BY <1>2, <2>2, <2>3, SendKeeps
  <1>7. CASE ~(m.prev >= s.base.index) /\ ~(Len(m.entries) <= covered)
    <2> DEFINE rest == SubSeq(m.entries, covered + 1, Len(m.entries))
    <2>1. covered + 1 \in Nat \ {0}
      BY <1>0, <1>3, <1>7, SMTT(30)
    <2>2. rest \in Seq(Nat)
      BY SMTT(60), <1>0, <2>1, SliceType
    <2>3. HandleAppendEntries(i, s0, m)
            = AcceptEntries(i, s, m, s.base.index, s.base.term, rest)
      BY <1>7 DEF HandleAppendEntries, s
    <2> HIDE DEF rest
    <2> QED
      BY <1>2, <1>3, <2>2, <2>3, AcceptEntriesKeeps
  <1> QED
    BY <1>5, <1>6, <1>7

\* A follower's handling of a snapshot.
LEMMA HandleInstallSnapshotAllowed ==
    ASSUME NEW i \in Server, NEW s0, Allowed(i, s0), s0.out = {}, node[i].term \in Nat,
           NEW m \in InstallSnapshotMsg
    PROVE  Allowed(i, HandleInstallSnapshot(i, s0, m))
  <1> DEFINE s == HearLeader(s0, m)
  <1>0. /\ m.from \in Server
        /\ m.snap \in Snapshot
        /\ m.snap.index \in Nat
    BY DEF InstallSnapshotMsg, Snapshot
  <1>1. Allowed(i, s)
    BY <1>0, HearLeaderAllowed
  <1>2. s \in ServerState
    BY <1>1 DEF Allowed
  <1>3. SUFFICES Keeps(s, HandleInstallSnapshot(i, s0, m))
    BY <1>1, KeepsAllowed
  <1> HIDE DEF s
  <1>4. CASE m.snap.index <= s.commit
    <2> DEFINE resp == InstallSnapshotResp(i, s, m.from, TRUE, s.commit)
    <2>1. resp \in Message /\ ~Grant(resp)
      BY ZenonT(60), <1>0, <1>2, Fields, ResponseTypes
    <2>2. HandleInstallSnapshot(i, s0, m) = Send(s, resp)
      BY <1>4 DEF HandleInstallSnapshot, s
    <2> QED
      BY <1>2, <2>1, <2>2, SendKeeps
  <1>5. CASE ~(m.snap.index <= s.commit)
    <2> DEFINE resp == InstallSnapshotResp(i, s, m.from, TRUE, m.snap.index)
               q == [s EXCEPT !.base = m.snap, !.log = <<>>, !.commit = m.snap.index]
    <2>1. resp \in Message /\ ~Grant(resp)
      BY <1>0, <1>2, ResponseTypes
    <2>2. HandleInstallSnapshot(i, s0, m) = Send(q, resp)
      BY <1>5 DEF HandleInstallSnapshot, s
    <2>3. <<>> \in Seq(Nat)
      BY SMTT(30)
    <2>4. Keeps(s, q)
      BY <1>0, <1>2, <2>3 DEF Keeps, ServerState
    <2>5. q \in ServerState
      BY <2>4 DEF Keeps
    <2> HIDE DEF q, resp
    <2>6. Keeps(q, Send(q, resp))
      BY <2>1, <2>5, SendKeeps
    <2> QED
      BY <2>2, <2>4, <2>6, KeepsTransitive
  <1> QED
    BY <1>4, <1>5

\* A vote is granted to one candidate of the term, and the response says so.
LEMMA HandleRequestVoteAllowed ==
    ASSUME NEW i \in Server, NEW s, Allowed(i, s), s.out = {}, NEW m \in RequestVoteMsg
    PROVE  Allowed(i, HandleRequestVote(i, s, m))
  <1>0. m.from \in Server /\ m.from # Nil
    BY ServerAssumption DEF RequestVoteMsg
  <1>1. s \in ServerState
    BY DEF Allowed
  <1>2. CASE s.votedFor \in {Nil, m.from} /\ UpToDate(s, m)
    <2> DEFINE resp == RequestVoteResp(i, s, m.from, TRUE)
               r == [s EXCEPT !.votedFor = m.from, !.out = {resp}]
    <2>1. HandleRequestVote(i, s, m) = r
      BY <1>1, <1>2 DEF HandleRequestVote, Send, ServerState
    <2>2. resp \in Message
      BY <1>0, <1>1, ResponseTypes
    <2>3. resp.from = i /\ resp.term = s.term /\ resp.to = m.from
      BY DEF RequestVoteResp
    <2> HIDE DEF resp
    <2>4. r \in ServerState
      BY ZenonT(60), <1>0, <1>1, <2>2 DEF ServerState
    <2>5. /\ r.term = s.term /\ r.votedFor = m.from /\ r.votes = s.votes
          /\ r.role = s.role /\ r.out = {resp}
      BY <1>1 DEF ServerState
    <2> HIDE DEF r
    <2>6. Forward(node[i], r)
      BY <1>2, <2>5 DEF Allowed, Forward
    <2>7. \A j \in r.votes : [voter |-> j, term |-> r.term, for |-> i] \in cast \cup Votes(i, r)
      BY <1>0, <1>2, <2>5 DEF Allowed, Votes
    <2> QED
      BY <2>1, <2>3, <2>4, <2>5, <2>6, <2>7 DEF Allowed
  <1>3. CASE ~(s.votedFor \in {Nil, m.from} /\ UpToDate(s, m))
    <2> DEFINE resp == RequestVoteResp(i, s, m.from, FALSE)
    <2>1. resp \in Message /\ ~Grant(resp)
      BY <1>0, <1>1, ResponseTypes DEF Grant, RequestVoteResp
    <2>2. HandleRequestVote(i, s, m) = Send(s, resp)
      BY <1>3 DEF HandleRequestVote
    <2> QED
      BY <1>1, <2>1, <2>2, SendKeeps, KeepsAllowed
  <1> QED
    BY <1>2, <1>3

\* BecomeLeader changes the role and keeps the vote; a leader needs a majority.
LEMMA BecomeLeaderAllowed ==
    ASSUME NEW i \in Server, NEW s, Allowed(i, s), IsQuorum(s.votes)
    PROVE  Allowed(i, BecomeLeader(i, s))
  <1> DEFINE next == [p \in Server |-> LastIndex(s) + 1]
             zero == [p \in Server |-> 0]
             seq == s.hbSeq + 1
             fresh == [s EXCEPT !.role = "leader", !.leader = i, !.next = next,
                                !.match = zero, !.hbAcked = zero, !.hbSeq = seq]
  <1>0. s \in ServerState
    BY DEF Allowed
  <1>1. /\ next \in [Server -> Nat \ {0}]
        /\ zero \in [Server -> Nat]
        /\ seq \in Nat
    BY <1>0, Fields, SMTT(30)
  <1> HIDE DEF next, zero, seq
  <1>2. fresh \in ServerState
    BY <1>0, <1>1 DEF ServerState
  <1>3. /\ fresh.term = s.term /\ fresh.votedFor = s.votedFor
        /\ fresh.votes = s.votes /\ fresh.out = s.out
    BY <1>0 DEF ServerState
  <1>4. BecomeLeader(i, s) = Propose(i, fresh)
    BY DEF BecomeLeader, Propose, next, zero, seq
  <1> HIDE DEF fresh
  <1>5. Allowed(i, fresh)
    BY <1>2, <1>3 DEF Allowed, Forward, Votes
  <1> QED
    BY <1>2, <1>4, <1>5, ProposeKeeps, KeepsAllowed

\* A candidate counts a granted vote that was cast for it in its own term.
LEMMA HandleRequestVoteRespAllowed ==
    ASSUME NEW i \in Server, NEW s, Allowed(i, s), NEW m \in RequestVoteRespMsg,
           m.granted => [voter |-> m.from, term |-> s.term, for |-> i] \in cast
    PROVE  Allowed(i, HandleRequestVoteResp(i, s, m))
  <1> DEFINE votes == IF m.granted THEN s.votes \cup {m.from} ELSE s.votes \ {m.from}
             v == [s EXCEPT !.votes = votes]
  <1>0. s \in ServerState /\ m.from \in Server
    BY DEF Allowed, RequestVoteRespMsg
  <1>1. CASE s.role # "candidate"
    BY <1>1 DEF HandleRequestVoteResp
  <1>2. CASE s.role = "candidate"
    <2>1. votes \in SUBSET Server
      BY <1>0, Fields
    <2>2. \A j \in votes : [voter |-> j, term |-> s.term, for |-> i] \in cast \cup Votes(i, s)
      BY DEF Allowed
    <2>3. HandleRequestVoteResp(i, s, m)
            = IF IsQuorum(v.votes) THEN BecomeLeader(i, v) ELSE v
      BY <1>2 DEF HandleRequestVoteResp
    <2> HIDE DEF votes
    <2>4. v \in ServerState
      BY <1>0, <2>1 DEF ServerState
    <2>5. /\ v.term = s.term /\ v.votedFor = s.votedFor /\ v.votes = votes
          /\ v.role = "candidate" /\ v.out = s.out
      BY <1>0, <1>2 DEF ServerState
    <2> HIDE DEF v
    <2>6. Allowed(i, v)
      BY <2>2, <2>4, <2>5 DEF Allowed, Forward, Votes
    <2> QED
      BY <2>3, <2>6, BecomeLeaderAllowed
  <1> QED
    BY <1>1, <1>2

\* A candidate votes for itself in a term it has not voted in.
LEMMA StartElectionAllowed ==
    ASSUME NEW i \in Server, NEW s, Allowed(i, s), s.out = {}, node[i].term \in Nat
    PROVE  Allowed(i, StartElection(i, s))
  <1> DEFINE term == s.term + 1
             c == [s EXCEPT !.role = "candidate", !.term = term, !.votedFor = i,
                            !.leader = Nil, !.votes = {i}]
             sent == {RequestVote(i, c, p) : p \in Peers(i)}
  <1>0. s \in ServerState
    BY DEF Allowed
  <1>1. term \in Nat /\ term > s.term
    BY <1>0, Fields, SMTT(30)
  <1>2. StartElection(i, s) = IF IsQuorum({i}) THEN BecomeLeader(i, c)
                              ELSE [c EXCEPT !.out = @ \cup sent]
    BY DEF StartElection
  <1> HIDE DEF term
  <1>3. c \in ServerState
    BY ZenonT(60), <1>0, <1>1 DEF ServerState
  <1>4. /\ c.term = term /\ c.votedFor = i /\ c.votes = {i}
        /\ c.role = "candidate" /\ c.out = {}
    BY <1>0 DEF ServerState
  <1> HIDE DEF c
  <1>5. Forward(node[i], c)
    BY SMTT(60), <1>0, <1>1, <1>4, Fields DEF Allowed, Forward
  <1>6. \A j \in c.votes : [voter |-> j, term |-> c.term, for |-> i] \in Votes(i, c)
    BY <1>4, ServerAssumption DEF Votes
  <1>7. Allowed(i, c)
    BY <1>3, <1>4, <1>5, <1>6 DEF Allowed
  <1>8. CASE IsQuorum({i})
    BY <1>2, <1>4, <1>7, <1>8, BecomeLeaderAllowed
  <1>9. CASE ~IsQuorum({i})
    <2>1. \A m \in sent : m \in Message /\ ~Grant(m)
      BY <1>3, ResponseTypes DEF Peers
    <2> HIDE DEF sent
    <2>2. Keeps(c, [c EXCEPT !.out = @ \cup sent])
      BY ZenonT(60), <1>3, <2>1 DEF Keeps, ServerState
    <2> QED
      BY <1>2, <1>7, <1>9, <2>2, KeepsAllowed
  <1> QED
    BY <1>8, <1>9

\* What the constructor builds from a well-typed disk is a server record.
LEMMA BootType ==
    ASSUME NEW t \in Nat, NEW v \in Server \cup {Nil}, NEW b \in Snapshot,
           NEW l \in Seq(Nat)
    PROVE  Boot(t, v, b, l) \in ServerState /\ Drained(Boot(t, v, b, l))
  <1> DEFINE one == [p \in Server |-> 1]
             zero == [p \in Server |-> 0]
  <1>1. one \in [Server -> Nat \ {0}] /\ zero \in [Server -> Nat]
    BY SMTT(30)
  <1>2. b.index \in Nat
    BY DEF Snapshot
  <1> HIDE DEF one, zero
  <1>3. Boot(t, v, b, l) =
          [term |-> t, votedFor |-> v, base |-> b, log |-> l,
           role |-> "follower", leader |-> Nil, votes |-> {}, commit |-> b.index,
           next |-> one, match |-> zero, hbAcked |-> zero, hbSeq |-> 0,
           pending |-> {}, out |-> {}, emitted |-> {}, confirmed |-> {}]
    BY DEF Boot, one, zero
  <1> QED
    BY <1>1, <1>2, <1>3, SMTT(30) DEF ServerState, Drained

\* A server rebuilt from its disk has its term and its vote.
LEMMA BootAllowed ==
    ASSUME NEW i \in Server, node[i] \in ServerState
    PROVE  LET s == node[i] IN Allowed(i, Boot(s.term, s.votedFor, s.base, s.log))
  <1> DEFINE s == node[i]
             r == Boot(s.term, s.votedFor, s.base, s.log)
  <1>1. r \in ServerState
    BY ZenonT(60), Fields, BootType
  <1>2. /\ r.term = s.term /\ r.votedFor = s.votedFor /\ r.votes = {} /\ r.out = {}
        /\ r.role = "follower"
    BY DEF Boot
  <1> QED
    BY <1>1, <1>2 DEF Allowed, Forward

\* The kind of a message tells its fields.
LEMMA MessageKinds ==
    ASSUME NEW m \in Message
    PROVE  /\ m.from \in Server /\ m.to \in Server /\ m.term \in Nat
           /\ m.kind = "RequestVote" => m \in RequestVoteMsg
           /\ m.kind = "RequestVoteResp" => m \in RequestVoteRespMsg
           /\ m.kind = "AppendEntries" => m \in AppendEntriesMsg
           /\ m.kind = "AppendEntriesResp" => m \in AppendEntriesRespMsg
           /\ m.kind = "InstallSnapshot" => m \in InstallSnapshotMsg
           /\ m.kind = "InstallSnapshotResp" => m \in InstallSnapshotRespMsg
           /\ m.kind \in {"RequestVote", "RequestVoteResp", "AppendEntries",
                          "AppendEntriesResp", "InstallSnapshot", "InstallSnapshotResp"}
  BY DEF Message, RequestVoteMsg, RequestVoteRespMsg, AppendEntriesMsg, AppendEntriesRespMsg,
         InstallSnapshotMsg, InstallSnapshotRespMsg

\* A message of an older term is answered, or ignored.
LEMMA RefuseStaleAllowed ==
    ASSUME NEW i \in Server, NEW s, Allowed(i, s), NEW m \in Message
    PROVE  Allowed(i, RefuseStale(i, s, m))
  <1>0. s \in ServerState /\ m.from \in Server
    BY MessageKinds DEF Allowed
  <1> DEFINE rv == RequestVoteResp(i, s, m.from, FALSE)
             ae == AppendEntriesResp(i, s, m.from, FALSE, 0, 0, 0)
             is == InstallSnapshotResp(i, s, m.from, FALSE, 0)
  <1>1. rv \in Message /\ ~Grant(rv)
    BY <1>0, ResponseTypes DEF Grant, RequestVoteResp
  <1>2. ae \in Message /\ ~Grant(ae)
    BY <1>0, ResponseTypes
  <1>3. is \in Message /\ ~Grant(is)
    BY ZenonT(60), <1>0, ResponseTypes
  <1>4. RefuseStale(i, s, m) \in {Send(s, rv), Send(s, ae), Send(s, is), s}
    BY DEF RefuseStale
  <1> HIDE DEF rv, ae, is
  <1>5. Keeps(s, RefuseStale(i, s, m))
    BY <1>0, <1>1, <1>2, <1>3, <1>4, SendKeeps, KeepsReflexive
  <1> QED
    BY <1>5, KeepsAllowed

\* Every handler leads to an allowed record, once the terms agree.
LEMMA DispatchAllowed ==
    ASSUME IInv, NEW m \in msgs, NEW s, Allowed(m.to, s), s.out = {}, s.term = m.term
    PROVE  Allowed(m.to, Dispatch(m.to, s, m))
  <1>0. m \in Message /\ m.to \in Server /\ s \in ServerState
    BY MessageKinds DEF IInv, TypeOK, Allowed
  <1>1. node[m.to].term \in Nat
    BY <1>0, Fields DEF IInv, TypeOK
  <1>2. CASE m.kind = "RequestVote"
    <2>1. Dispatch(m.to, s, m) = HandleRequestVote(m.to, s, m)
      BY <1>2 DEF Dispatch
    <2> QED
      BY <1>0, <1>2, <2>1, MessageKinds, HandleRequestVoteAllowed
  <1>3. CASE m.kind = "RequestVoteResp"
    <2>1. Dispatch(m.to, s, m) = HandleRequestVoteResp(m.to, s, m)
      BY <1>3 DEF Dispatch
    <2>2. m.granted => [voter |-> m.from, term |-> s.term, for |-> m.to] \in cast
      BY <1>3 DEF IInv, GrantsCast, Grant
    <2> QED
      BY <1>0, <1>3, <2>1, <2>2, MessageKinds, HandleRequestVoteRespAllowed
  <1>4. CASE m.kind = "AppendEntries"
    <2>1. Dispatch(m.to, s, m) = HandleAppendEntries(m.to, s, m)
      BY <1>4 DEF Dispatch
    <2> QED
      BY <1>0, <1>1, <1>4, <2>1, MessageKinds, HandleAppendEntriesAllowed
  <1>5. CASE m.kind = "AppendEntriesResp"
    <2>1. Dispatch(m.to, s, m) = HandleAppendEntriesResp(m.to, s, m)
      BY <1>5 DEF Dispatch
    <2> QED
      BY <1>0, <1>5, <2>1, MessageKinds, HandleAppendEntriesRespKeeps, KeepsAllowed
  <1>6. CASE m.kind = "InstallSnapshot"
    <2>1. Dispatch(m.to, s, m) = HandleInstallSnapshot(m.to, s, m)
      BY <1>6 DEF Dispatch
    <2> QED
      BY <1>0, <1>1, <1>6, <2>1, MessageKinds, HandleInstallSnapshotAllowed
  <1>7. CASE m.kind = "InstallSnapshotResp"
    <2>1. Dispatch(m.to, s, m) = HandleInstallSnapshotResp(s, m)
      BY <1>7 DEF Dispatch
    <2> QED
      BY <1>0, <1>7, <2>1, MessageKinds, HandleInstallSnapshotRespKeeps, KeepsAllowed
  <1> QED
    BY <1>0, <1>2, <1>3, <1>4, <1>5, <1>6, <1>7, MessageKinds

\* Step: a message of any term, handled at its receiver.
LEMMA StepAllowed ==
    ASSUME IInv, NEW m \in msgs
    PROVE  Allowed(m.to, Step(m.to, node[m.to], m))
  <1> DEFINE i == m.to
             s == node[i]
             ldr == IF FromLeader(m) THEN m.from ELSE Nil
             f == BecomeFollower(s, m.term, ldr)
  <1>1. m \in Message /\ i \in Server /\ m.term \in Nat /\ ldr \in Server \cup {Nil}
    BY MessageKinds DEF IInv, TypeOK
  <1>2. Allowed(i, s) /\ s.out = {} /\ s \in ServerState /\ s.term \in Nat
    BY <1>1, Standing, Fields
  <1>3. CASE m.term < s.term
    BY <1>1, <1>2, <1>3, RefuseStaleAllowed DEF Step
  <1>4. CASE m.term > s.term
    <2>1. Allowed(i, f) /\ f.out = {} /\ f.term = m.term
      BY SMTT(60), <1>1, <1>2, <1>4, BecomeFollowerAllowed
    <2>2. Step(i, s, m) = Dispatch(i, f, m)
      BY SMTT(60), <1>1, <1>2, <1>4 DEF Step
    <2> QED
      BY <2>1, <2>2, DispatchAllowed
  <1>5. CASE m.term = s.term
    <2>1. Step(i, s, m) = Dispatch(i, s, m)
      BY <1>1, <1>2, <1>5, SMTT(30) DEF Step
    <2> QED
      BY <1>2, <1>5, <2>1, DispatchAllowed
  <1> QED
    BY SMTT(60), <1>1, <1>2, <1>3, <1>4, <1>5

-----------------------------------------------------------------------------
(* Draining an allowed record keeps the invariant. *)

\* The types after a drain.
LEMMA DrainTypes ==
    ASSUME IInv, NEW i \in Server, NEW r, NEW consumed, Allowed(i, r),
           Drain(i, r, consumed), restarts' \in Nat
    PROVE  TypeOK'
  <1> DEFINE rest == [r EXCEPT !.out = {}, !.emitted = {}, !.confirmed = {}]
  <1>0. r \in ServerState
    BY DEF Allowed
  <1>1. rest \in ServerState /\ Drained(rest)
    BY ZenonT(60), <1>0 DEF ServerState, Drained
  <1>2. node' = [node EXCEPT ![i] = rest]
    BY DEF Drain
  <1> HIDE DEF rest
  <1>3. node' \in [Server -> ServerState] /\ \A j \in Server : Drained(node'[j])
    BY <1>1, <1>2 DEF IInv, TypeOK
  <1>4. msgs' \in SUBSET Message
    BY <1>0 DEF IInv, TypeOK, Drain, ServerState
  <1>5. cast' \in SUBSET [voter : Server, term : Nat, for : Server]
    <2>1. Votes(i, r) \in SUBSET [voter : Server, term : Nat, for : Server]
      BY <1>0, Fields, SMTT(30) DEF Votes
    <2> QED
      BY <2>1 DEF IInv, TypeOK, Drain
  <1>6. elected' \in SUBSET [term : Nat, server : Server]
    <2>1. Elections(i, r) \in SUBSET [term : Nat, server : Server]
      BY <1>0, Fields, SMTT(30) DEF Elections
    <2> QED
      BY <2>1 DEF IInv, TypeOK, Drain
  <1>7. committed' \in SUBSET [index : Nat, term : Nat, at : Nat]
    <2>1. r.emitted \in SUBSET [index : Nat, term : Nat] /\ r.term \in Nat
      BY <1>0 DEF ServerState
    <2>2. Emissions(r) \in SUBSET [index : Nat, term : Nat, at : Nat]
      BY <2>1, SMTT(30) DEF Emissions
    <2> QED
      BY <2>2 DEF IInv, TypeOK, Drain
  <1>8. reads' \in SUBSET [index : Nat, floor : Nat]
    BY <1>0 DEF IInv, TypeOK, Drain, ServerState
  <1> QED
    BY <1>3, <1>4, <1>5, <1>6, <1>7, <1>8 DEF TypeOK

\* The vote of a server after a drain, and that of the others.
LEMMA DrainVote ==
    ASSUME IInv, NEW i \in Server, NEW r, NEW consumed, Allowed(i, r),
           Drain(i, r, consumed)
    PROVE  /\ node'[i].term = r.term /\ node'[i].votedFor = r.votedFor
           /\ node'[i].votes = r.votes /\ node'[i].role = r.role
           /\ \A j \in Server : j # i => node'[j] = node[j]
  <1> DEFINE rest == [r EXCEPT !.out = {}, !.emitted = {}, !.confirmed = {}]
  <1>1. /\ rest.term = r.term /\ rest.votedFor = r.votedFor
        /\ rest.votes = r.votes /\ rest.role = r.role
    BY DEF Allowed, ServerState
  <1>2. node' = [node EXCEPT ![i] = rest]
    BY DEF Drain
  <1> HIDE DEF rest
  <1> QED
    BY <1>1, <1>2 DEF IInv, TypeOK

\* Draining an allowed record preserves every conjunct of the invariant.
LEMMA DrainPreserves ==
    ASSUME IInv, NEW i \in Server, NEW r, NEW consumed, Allowed(i, r),
           Drain(i, r, consumed), restarts' \in Nat
    PROVE  IInv'
  <1>1. TypeOK'
    BY DrainTypes
  <1>2. /\ node'[i].term = r.term /\ node'[i].votedFor = r.votedFor
        /\ node'[i].votes = r.votes /\ node'[i].role = r.role
        /\ \A j \in Server : j # i => node'[j] = node[j]
    BY DrainVote
  <1>3. /\ r \in ServerState /\ r.term \in Nat /\ node[i].term \in Nat
        /\ \A v \in cast : v.voter \in Server /\ v.term \in Nat /\ v.for \in Server
    BY Fields DEF IInv, TypeOK, Allowed
  <1>4. cast' = cast \cup Votes(i, r)
    BY DEF Drain
  <1>5. \A v \in Votes(i, r) : v.voter = i /\ v.term = r.term /\ v.for = r.votedFor
    BY SMTT(60) DEF Votes
  <1>6. CastStands'
    <2> SUFFICES ASSUME NEW v \in cast'
                 PROVE  \/ v.term < node'[v.voter].term
                        \/ v.term = node'[v.voter].term /\ v.for = node'[v.voter].votedFor
      BY DEF CastStands
    <2>1. CASE v \in Votes(i, r)
      BY <1>2, <1>5, <2>1
    <2>2. CASE v \in cast /\ v.voter # i
      BY <1>2, <1>3, <2>2 DEF IInv, CastStands
    <2>3. CASE v \in cast /\ v.voter = i
      <3>1. \/ v.term < node[i].term
            \/ v.term = node[i].term /\ v.for = node[i].votedFor
        BY <2>3 DEF IInv, CastStands
      <3>2. v.for # Nil /\ v.term \in Nat
        BY <1>3, <2>3, ServerAssumption
      <3> QED
        BY SMTT(60), <1>2, <1>3, <2>3, <3>1, <3>2 DEF Allowed, Forward
    <2> QED
      BY <1>4, <2>1, <2>2, <2>3
  <1>7. CastOnce'
    <2> SUFFICES ASSUME NEW u \in cast', NEW v \in cast',
                        u.voter = v.voter, u.term = v.term
                 PROVE  u.for = v.for
      BY DEF CastOnce
    <2>1. CASE u \in cast /\ v \in cast
      BY <2>1 DEF IInv, CastOnce
    <2>2. CASE u \in Votes(i, r) \/ v \in Votes(i, r)
      <3>1. u.voter = i /\ v.voter = i /\ u.term = r.term /\ v.term = r.term
        BY <1>5, <2>2
      <3> QED
        BY SMTT(60), <1>2, <1>3, <1>6, <3>1 DEF CastStands
    <2> QED
      BY <1>4, <2>1, <2>2
  <1>8. GrantsCast'
    <2> SUFFICES ASSUME NEW m \in msgs', Grant(m)
                 PROVE  [voter |-> m.from, term |-> m.term, for |-> m.to] \in cast'
      BY DEF GrantsCast, Grant
    <2>1. m \in msgs \/ m \in r.out
      BY DEF Drain
    <2>2. CASE m \in msgs
      BY <1>4, <2>2 DEF IInv, GrantsCast
    <2>3. CASE m \in r.out
      <3>1. m.from = i /\ m.term = r.term /\ m.to = r.votedFor
        BY <2>3 DEF Allowed
      <3>2. m.to \in Server /\ m.to # Nil
        BY <1>3, <2>3, MessageKinds, ServerAssumption DEF ServerState
      <3> QED
        BY <1>4, <3>1, <3>2 DEF Votes
    <2> QED
      BY <2>1, <2>2, <2>3
  <1>9. VotesCast'
    <2> SUFFICES ASSUME NEW k \in Server, NEW j \in node'[k].votes
                 PROVE  [voter |-> j, term |-> node'[k].term, for |-> k] \in cast'
      BY ZenonT(60) DEF VotesCast
    <2>1. CASE k = i
      BY <1>2, <1>4, <2>1 DEF Allowed
    <2>2. CASE k # i
      BY <1>2, <1>4, <2>2 DEF IInv, VotesCast
    <2> QED
      BY <2>1, <2>2
  <1>10. LeadersHaveQuorum'
    <2> SUFFICES ASSUME NEW k \in Server, node'[k].role = "leader"
                 PROVE  IsQuorum(node'[k].votes)
      BY DEF LeadersHaveQuorum, IsQuorum
    <2>1. CASE k = i
      BY <1>2, <2>1 DEF Allowed
    <2>2. CASE k # i
      BY <1>2, <2>2 DEF IInv, LeadersHaveQuorum
    <2> QED
      BY <2>1, <2>2
  <1>11. ElectedByQuorum'
    <2> SUFFICES ASSUME NEW e \in elected'
                 PROVE  \E Q \in SUBSET Server :
                          /\ IsQuorum(Q)
                          /\ \A j \in Q : [voter |-> j, term |-> e.term,
                                           for |-> e.server] \in cast'
      BY DEF ElectedByQuorum, IsQuorum
    <2>1. CASE e \in elected
      BY <1>4, <2>1 DEF IInv, ElectedByQuorum
    <2>2. CASE e \notin elected
      <3>1. r.role = "leader" /\ e.term = r.term /\ e.server = i
        BY SMTT(60), <2>2 DEF Drain, Elections
      <3>2. r.votes \in SUBSET Server /\ IsQuorum(r.votes)
        BY <1>3, <3>1, Fields DEF Allowed
      <3>3. \A j \in r.votes : [voter |-> j, term |-> e.term, for |-> e.server] \in cast'
        BY <1>4, <3>1 DEF Allowed
      <3> QED
        BY <3>2, <3>3
    <2> QED
      BY <2>1, <2>2
  <1> QED
    BY <1>1, <1>6, <1>7, <1>8, <1>9, <1>10, <1>11 DEF IInv

-----------------------------------------------------------------------------
(* The theorems. *)

\* The empty cluster satisfies the invariant.
LEMMA InitIInv == Init => IInv
  <1> SUFFICES ASSUME Init PROVE IInv
    OBVIOUS
  <1> DEFINE b == Boot(0, Nil, [index |-> 0, term |-> 0], <<>>)
  <1>1. [index |-> 0, term |-> 0] \in Snapshot /\ <<>> \in Seq(Nat)
    BY SMTT(30) DEF Snapshot
  <1>2. b \in ServerState /\ Drained(b)
    BY <1>1, BootType
  <1>3. b.votes = {} /\ b.role = "follower"
    BY DEF Boot
  <1>4. node = [i \in Server |-> b]
    BY DEF Init
  <1> HIDE DEF b
  <1>5. \A i \in Server : node[i] = b
    BY <1>4
  <1>6. TypeOK
    BY <1>2, <1>4, <1>5 DEF Init, TypeOK
  <1>7. VotesCast /\ LeadersHaveQuorum
    BY <1>3, <1>5 DEF VotesCast, LeadersHaveQuorum
  <1> QED
    BY <1>6, <1>7 DEF Init, IInv, CastStands, CastOnce, GrantsCast, ElectedByQuorum

\* A step of the cluster that drains server i drains an allowed record, or it
\* only loses a message, or nothing changes.
LEMMA StepsDrain ==
    ASSUME IInv, [Next]_vars
    PROVE  /\ restarts' \in Nat
           /\ \/ \E i \in Server : \E r : \E consumed :
                    Allowed(i, r) /\ Drain(i, r, consumed)
              \/ msgs' \subseteq msgs /\ UNCHANGED <<node, cast, elected, committed, reads>>
  <1>0. restarts \in Nat
    BY DEF IInv, TypeOK
  <1>1. CASE \E i \in Server : ElectionTimeout(i)
    <2> PICK i \in Server : ElectionTimeout(i)
      BY <1>1
    <2>1. Allowed(i, StartElection(i, node[i]))
      BY Standing, Fields, StartElectionAllowed
    <2> QED
      BY <1>0, <2>1 DEF ElectionTimeout
  <1>2. CASE \E i \in Server : HeartbeatTick(i)
    <2> PICK i \in Server : HeartbeatTick(i)
      BY <1>2
    <2>1. Allowed(i, Heartbeat(i, node[i]))
      BY Standing, HeartbeatKeeps, KeepsAllowed
    <2> QED
      BY <1>0, <2>1 DEF HeartbeatTick
  <1>3. CASE \E i \in Server : ClientPropose(i)
    <2> PICK i \in Server : ClientPropose(i)
      BY <1>3
    <2>1. Allowed(i, Propose(i, node[i]))
      BY Standing, ProposeKeeps, KeepsAllowed
    <2> QED
      BY <1>0, <2>1 DEF ClientPropose
  <1>4. CASE \E i \in Server : ClientRead(i)
    <2> PICK i \in Server : ClientRead(i)
      BY <1>4
    <2> PICK floor \in {0} \cup {c.index : c \in committed} :
               Drain(i, StartReadIndex(i, node[i], floor), {})
      BY DEF ClientRead
    <2>1. floor \in Nat
      BY SMTT(30) DEF IInv, TypeOK
    <2>2. Allowed(i, StartReadIndex(i, node[i], floor))
      BY <2>1, Standing, StartReadIndexKeeps, KeepsAllowed
    <2> QED
      BY <1>0, <2>2 DEF ClientRead
  <1>5. CASE \E m \in msgs : Receive(m)
    <2> PICK m \in msgs : Receive(m)
      BY <1>5
    <2>1. m.to \in Server
      BY MessageKinds DEF IInv, TypeOK
    <2> QED
      BY <1>0, <2>1, StepAllowed DEF Receive
  <1>6. CASE \E m \in msgs : Lose(m)
    BY <1>0, <1>6 DEF Lose
  <1>7. CASE \E i \in Server : \E n \in 1 .. MaxBase : Compact(i, n)
    <2> PICK i \in Server, n \in 1 .. MaxBase : Compact(i, n)
      BY <1>7
    <2>1. n \in Nat /\ n > node[i].base.index
      BY SMTT(60), BoundAssumption DEF Compact
    <2>2. Allowed(i, CompactTo(node[i], n))
      BY <2>1, Standing, CompactToKeeps, KeepsAllowed
    <2> QED
      BY <1>0, <2>2 DEF Compact
  <1>8. CASE \E i \in Server : Restart(i)
    <2> PICK i \in Server : Restart(i)
      BY <1>8
    <2> DEFINE s == node[i]
    <2>1. Allowed(i, Boot(s.term, s.votedFor, s.base, s.log))
      BY Standing, BootAllowed
    <2> QED
      BY <1>0, <2>1, SMTT(30) DEF Restart
  <1>9. CASE UNCHANGED vars
    BY <1>0, <1>9 DEF vars
  <1> QED
    BY <1>1, <1>2, <1>3, <1>4, <1>5, <1>6, <1>7, <1>8, <1>9 DEF Next

\* The invariant is inductive.
LEMMA NextIInv == IInv /\ [Next]_vars => IInv'
  <1> SUFFICES ASSUME IInv, [Next]_vars PROVE IInv'
    OBVIOUS
  <1>1. restarts' \in Nat
    BY StepsDrain
  <1>2. CASE \E i \in Server : \E r : \E consumed : Allowed(i, r) /\ Drain(i, r, consumed)
    BY <1>1, <1>2, DrainPreserves
  <1>3. CASE msgs' \subseteq msgs /\ UNCHANGED <<node, cast, elected, committed, reads>>
    <2>1. TypeOK'
      BY <1>1, <1>3 DEF IInv, TypeOK
    <2>2. CastStands' /\ CastOnce' /\ VotesCast' /\ LeadersHaveQuorum' /\ ElectedByQuorum'
      BY <1>3
         DEF IInv, CastStands, CastOnce, VotesCast, LeadersHaveQuorum, ElectedByQuorum, IsQuorum
    <2>3. GrantsCast'
      BY <1>3 DEF IInv, GrantsCast, Grant
    <2> QED
      BY <2>1, <2>2, <2>3 DEF IInv
  <1> QED
    BY <1>2, <1>3, StepsDrain

\* Two elections won in one term were won by the same server: their majorities
\* share a voter, who has voted once.
LEMMA IInvElectionSafety == IInv => ElectionSafety
  <1> SUFFICES ASSUME IInv, NEW a \in elected, NEW b \in elected, a.term = b.term
               PROVE  a.server = b.server
    BY DEF ElectionSafety
  <1>1. PICK P \in SUBSET Server :
          IsQuorum(P) /\ \A j \in P : [voter |-> j, term |-> a.term, for |-> a.server] \in cast
    BY DEF IInv, ElectedByQuorum
  <1>2. PICK Q \in SUBSET Server :
          IsQuorum(Q) /\ \A j \in Q : [voter |-> j, term |-> b.term, for |-> b.server] \in cast
    BY DEF IInv, ElectedByQuorum
  <1>3. PICK j : j \in P /\ j \in Q
    BY <1>1, <1>2, QuorumsMeet
  <1> DEFINE u == [voter |-> j, term |-> a.term, for |-> a.server]
             v == [voter |-> j, term |-> b.term, for |-> b.server]
  <1>4. u \in cast /\ v \in cast
    BY <1>1, <1>2, <1>3
  <1>5. u.voter = v.voter /\ u.term = v.term
    OBVIOUS
  <1>6. u.for = v.for
    BY <1>4, <1>5 DEF IInv, CastOnce
  <1> QED
    BY <1>6

\* The inductive invariant holds in every reachable state of every cluster.
THEOREM InvariantHolds == Spec => []IInv
  BY InitIInv, NextIInv, PTL DEF Spec

\* Every variable keeps its type, and ready_ is empty between two steps: no
\* handler produces an index, a term or a message outside its range.
THEOREM TypeCorrect == Spec => []TypeOK
  <1>1. IInv => TypeOK
    BY DEF IInv
  <1> QED
    BY <1>1, InvariantHolds, PTL

\* Election safety: no term ever has two winners, for any cluster size and any
\* interleaving of crashes, losses and late responses.
THEOREM ElectionIsSafe == Spec => []ElectionSafety
  BY IInvElectionSafety, InvariantHolds, PTL

\* A server's hard state only moves forward: the term never decreases and a vote
\* cast in a term is never changed in that term, restarts included.
THEOREM VotesStand == Spec => OneVotePerTerm
  <1> DEFINE Stands ==
        \A i \in Server :
            \/ node'[i].term > node[i].term
            \/ /\ node'[i].term = node[i].term
               /\ node[i].votedFor # Nil => node'[i].votedFor = node[i].votedFor
  <1>1. IInv /\ [Next]_vars => [Stands]_vars
    <2> SUFFICES ASSUME IInv, [Next]_vars, NEW i \in Server
                 PROVE  Forward(node[i], node'[i])
      BY DEF Forward
    <2>1. CASE \E k \in Server : \E r : \E consumed : Allowed(k, r) /\ Drain(k, r, consumed)
      <3>1. PICK k \in Server : \E r : \E consumed : Allowed(k, r) /\ Drain(k, r, consumed)
        BY <2>1
      <3>2. PICK r : \E consumed : Allowed(k, r) /\ Drain(k, r, consumed)
        BY <3>1
      <3>3. PICK consumed : Allowed(k, r) /\ Drain(k, r, consumed)
        BY <3>2
      <3>4. /\ node'[k].term = r.term /\ node'[k].votedFor = r.votedFor
            /\ \A j \in Server : j # k => node'[j] = node[j]
        BY <3>3, DrainVote
      <3>5. CASE i = k
        <4>1. Forward(node[k], r)
          BY <3>3 DEF Allowed
        <4> QED
          BY <3>4, <3>5, <4>1 DEF Forward
      <3>6. CASE i # k
        BY <3>4, <3>6 DEF Forward
      <3> QED
        BY <3>5, <3>6
    <2>2. CASE UNCHANGED node
      BY <2>2 DEF Forward
    <2> QED
      BY <2>1, <2>2, StepsDrain
  <1> QED
    BY <1>1, InvariantHolds, PTL DEF Spec, OneVotePerTerm

-----------------------------------------------------------------------------
(* Logs of leaders (RaftHistory). *)

\* The last entry of a beginning of a log.
LEMMA CutIs ==
    ASSUME NEW L \in Seq(Nat), NEW n \in 1 .. Len(L)
    PROVE  /\ SubSeq(L, 1, n) \in Seq(Nat) /\ Len(SubSeq(L, 1, n)) = n
           /\ LastOf(SubSeq(L, 1, n)) = L[n]
           /\ \A k \in 1 .. n : SubSeq(L, 1, n)[k] = L[k]
  BY SMTT(30) DEF LastOf

\* Two logs that agree at an index agree below it (log matching).
LEMMA AgreeBelow ==
    ASSUME NEW H, LogsOK(H), NEW L \in H, NEW M \in H, NEW n \in Nat,
           n <= Len(L), n <= Len(M), n # 0 => L[n] = M[n]
    PROVE  \A k \in 1 .. n : L[k] = M[k]
  <1>1. CASE n = 0
    BY <1>1, SMTT(30)
  <1>2. CASE n # 0
    <2> DEFINE C == SubSeq(L, 1, n)
               D == SubSeq(M, 1, n)
    <2>1. C \in H /\ D \in H
      BY <1>2, SMTT(30) DEF LogsOK
    <2>2. /\ Len(C) = n /\ LastOf(C) = L[n] /\ \A k \in 1 .. n : C[k] = L[k]
          /\ Len(D) = n /\ LastOf(D) = M[n] /\ \A k \in 1 .. n : D[k] = M[k]
      BY <1>2, CutIs, SMTT(30) DEF LogsOK
    <2> HIDE DEF C, D
    <2>3. Prefix(C, D) \/ Prefix(D, C)
      BY <1>2, <2>1, <2>2 DEF LogsOK
    <2> QED
      BY <2>2, <2>3 DEF Prefix
  <1> QED
    BY <1>2, SMTT(30)

\* Logs of one length with the same entries are the same log.
LEMMA SameLog ==
    ASSUME NEW S \in Seq(Nat), NEW T \in Seq(Nat), Len(S) = Len(T),
           \A k \in 1 .. Len(S) : S[k] = T[k]
    PROVE  S = T
  <1> QED
    BY SMTT(30)

\* What an append leaves in place.
LEMMA AfterAppend ==
    ASSUME NEW log \in Seq(Nat), NEW t \in Nat
    PROVE  /\ Len(Append(log, t)) = Len(log) + 1 /\ Append(log, t)[Len(log) + 1] = t
           /\ \A k \in 1 .. Len(log) : Append(log, t)[k] = log[k]
  BY SMTT(30)

\* A log that repeats the beginning of L is that beginning.
LEMMA BeginningOf ==
    ASSUME NEW L \in Seq(Nat), NEW T \in Seq(Nat), Prefix(T, L)
    PROVE  T = SubSeq(L, 1, Len(T))
  BY SMTT(30) DEF Prefix

\* So a beginning of a member of H is a member of H.
LEMMA BeginningIn ==
    ASSUME NEW H, LogsOK(H), NEW L \in H, NEW T \in Seq(Nat), Prefix(T, L), T # <<>>
    PROVE  T \in H /\ LastOf(T) = L[Len(T)] /\ LastOf(T) <= LastOf(L)
  <1>1. L \in Seq(Nat) /\ Len(T) \in 1 .. Len(L)
    BY SMTT(30) DEF LogsOK, Prefix
  <1>2. SubSeq(L, 1, Len(T)) \in H /\ L[Len(T)] <= LastOf(L)
    BY <1>1 DEF LogsOK
  <1>3. LastOf(T) = L[Len(T)]
    BY SMTT(30) DEF LastOf, Prefix
  <1> QED
    BY <1>1, <1>2, <1>3, BeginningOf

\* The last entry of a log has a term.
LEMMA LastOfType ==
    ASSUME NEW log \in Seq(Nat)
    PROVE  LastOf(log) \in Nat
  BY SMTT(30) DEF LastOf

-----------------------------------------------------------------------------
(* What the member functions make of a log, as long as nothing is compacted. *)

\* A stretch of a log: SubSeq from index a + 1 to index b.
LEMMA SliceIs ==
    ASSUME NEW log \in Seq(Nat), NEW a \in Nat, NEW b \in Nat, a <= b, b <= Len(log)
    PROVE  /\ Len(SubSeq(log, a + 1, b)) = b - a
           /\ \A k \in 1 .. b - a : SubSeq(log, a + 1, b)[k] = log[a + k]
  <1>1. Len(SubSeq(log, a + 1, b)) = b - a
    BY SMTT(30)
  <1>2. ASSUME NEW k \in 1 .. b - a PROVE SubSeq(log, a + 1, b)[k] = log[a + k]
    BY SMTT(30)
  <1> QED
    BY <1>1, <1>2

\* The first c entries of a log.
LEMMA HeadIs ==
    ASSUME NEW log \in Seq(Nat), NEW c \in Nat, c <= Len(log)
    PROVE  /\ SubSeq(log, 1, c) \in Seq(Nat) /\ Len(SubSeq(log, 1, c)) = c
           /\ \A k \in 1 .. c : SubSeq(log, 1, c)[k] = log[k]
  <1>1. SubSeq(log, 1, c) \in Seq(Nat)
    BY SMTT(30)
  <1>2. Len(SubSeq(log, 1, c)) = c
    BY SMTT(30)
  <1>3. ASSUME NEW k \in 1 .. c PROVE SubSeq(log, 1, c)[k] = log[k]
    BY SMTT(30)
  <1> QED
    BY <1>1, <1>2, <1>3

\* The end of what a leader sends, from its entry f on.
LEMMA TailIs ==
    ASSUME NEW entries \in Seq(Nat), NEW f \in 1 .. Len(entries)
    PROVE  /\ SubSeq(entries, f, Len(entries)) \in Seq(Nat)
           /\ Len(SubSeq(entries, f, Len(entries))) = Len(entries) - f + 1
           /\ \A k \in 1 .. Len(entries) - f + 1 :
                 SubSeq(entries, f, Len(entries))[k] = entries[f + k - 1]
  <1>1. SubSeq(entries, f, Len(entries)) \in Seq(Nat)
    BY SMTT(30)
  <1>2. Len(SubSeq(entries, f, Len(entries))) = Len(entries) - f + 1
    BY SMTT(30)
  <1>3. ASSUME NEW k \in 1 .. Len(entries) - f + 1
        PROVE  SubSeq(entries, f, Len(entries))[k] = entries[f + k - 1]
    BY SMTT(30)
  <1> QED
    BY <1>1, <1>2, <1>3

\* What BecomeFollower does: only the vote depends on the term.
LEMMA BecomeFollowerIs ==
    ASSUME NEW s \in ServerState, NEW t \in Nat, t >= s.term, NEW ldr \in Server \cup {Nil}
    PROVE  LET r == BecomeFollower(s, t, ldr)
           IN  /\ r \in ServerState /\ r.term = t /\ r.role = "follower" /\ r.leader = ldr
               /\ r.base = s.base /\ r.log = s.log /\ r.commit = s.commit
               /\ r.votes = {} /\ r.pending = {}
               /\ r.out = s.out /\ r.emitted = s.emitted /\ r.confirmed = s.confirmed
  <1> DEFINE vote == IF t > s.term THEN Nil ELSE s.votedFor
             r == [s EXCEPT !.term = t, !.votedFor = vote, !.role = "follower",
                            !.leader = ldr, !.votes = {}, !.pending = {}]
  <1>1. vote \in Server \cup {Nil}
    BY Fields
  <1>2. BecomeFollower(s, t, ldr) = r
    BY DEF BecomeFollower, Max2
  <1> HIDE DEF vote
  <1>3. r \in ServerState
    BY <1>1 DEF ServerState
  <1>4. /\ r.term = t /\ r.role = "follower" /\ r.leader = ldr /\ r.votes = {} /\ r.pending = {}
        /\ r.base = s.base /\ r.log = s.log /\ r.commit = s.commit
        /\ r.out = s.out /\ r.emitted = s.emitted /\ r.confirmed = s.confirmed
    BY SMTT(30) DEF ServerState
  <1> HIDE DEF r
  <1> QED
    BY <1>2, <1>3, <1>4

\* What HearLeader does: a candidate becomes a follower, and the leader is known.
LEMMA HearLeaderIs ==
    ASSUME NEW s \in ServerState, NEW m, m.from \in Server
    PROVE  LET r == HearLeader(s, m)
           IN  /\ r \in ServerState /\ r.term = s.term /\ r.leader = m.from
               /\ r.role = IF s.role = "candidate" THEN "follower" ELSE s.role
               /\ r.base = s.base /\ r.log = s.log /\ r.commit = s.commit
               /\ r.pending = IF s.role = "candidate" THEN {} ELSE s.pending
               /\ r.out = s.out /\ r.emitted = s.emitted /\ r.confirmed = s.confirmed
  <1> DEFINE q == IF s.role = "candidate" THEN BecomeFollower(s, s.term, m.from) ELSE s
  <1>1. s.term \in Nat /\ s.term >= s.term
    BY Fields, SMTT(30)
  <1>2. /\ q \in ServerState /\ q.term = s.term
        /\ q.role = IF s.role = "candidate" THEN "follower" ELSE s.role
        /\ q.base = s.base /\ q.log = s.log /\ q.commit = s.commit
        /\ q.pending = IF s.role = "candidate" THEN {} ELSE s.pending
        /\ q.out = s.out /\ q.emitted = s.emitted /\ q.confirmed = s.confirmed
    <2>1. CASE s.role = "candidate"
      BY <1>1, <2>1, BecomeFollowerIs, SMTT(30)
    <2>2. CASE s.role # "candidate"
      BY <2>2
    <2> QED
      BY <2>1
  <1>3. HearLeader(s, m) = [q EXCEPT !.leader = m.from]
    BY DEF HearLeader
  <1> HIDE DEF q
  <1> DEFINE r == [q EXCEPT !.leader = m.from]
  <1>4. r \in ServerState
    BY <1>2 DEF ServerState
  <1>5. q \in ServerState
    BY <1>2
  <1>6. /\ r.leader = m.from /\ r.term = q.term /\ r.role = q.role
        /\ r.base = q.base /\ r.log = q.log /\ r.commit = q.commit /\ r.pending = q.pending
        /\ r.out = q.out /\ r.emitted = q.emitted /\ r.confirmed = q.confirmed
    BY <1>5, SMTT(30) DEF ServerState
  <1> HIDE DEF r
  <1> QED
    BY <1>2, <1>3, <1>4, <1>6 DEF r

\* Without a snapshot the helpers read the log itself (TermAt, LastIndex, LastTerm).
LEMMA NoBase ==
    ASSUME NEW s \in ServerState, s.base.index = 0, s.base.term = 0
    PROVE  /\ LastIndex(s) = Len(s.log) /\ LastTerm(s) = LastOf(s.log)
           /\ TermAt(s, 0) = 0
           /\ \A n \in 1 .. Len(s.log) : TermAt(s, n) = s.log[n] /\ TermAt(s, n) \in Nat
  BY Fields, SMTT(30) DEF LastIndex, TermAt, LastTerm, LastOf

\* The beginning of one log followed by the end of another.
Splice(log, c, entries, f) == SubSeq(log, 1, c) \o SubSeq(entries, f, Len(entries))

\* Which entry is where in it, T.
Spliced(T, log, c, entries, f) ==
    /\ T \in Seq(Nat) /\ Len(T) = c + (Len(entries) - f + 1)
    /\ \A k \in 1 .. c : T[k] = log[k]
    /\ \A k \in 1 .. Len(T) : k > c => T[k] = entries[f + (k - c) - 1]

\* A log cut at an index and continued by the end of what was sent (AcceptEntries).
LEMMA SpliceIs ==
    ASSUME NEW log \in Seq(Nat), NEW entries \in Seq(Nat), NEW c \in Nat, c <= Len(log),
           NEW f \in 1 .. Len(entries)
    PROVE  Spliced(Splice(log, c, entries, f), log, c, entries, f)
  <1> DEFINE kept == SubSeq(log, 1, c)
             new == SubSeq(entries, f, Len(entries))
             T == kept \o new
  <1>1. kept \in Seq(Nat) /\ Len(kept) = c /\ \A k \in 1 .. c : kept[k] = log[k]
    BY HeadIs
  <1>2. /\ new \in Seq(Nat) /\ Len(new) = Len(entries) - f + 1
        /\ \A k \in 1 .. Len(new) : new[k] = entries[f + k - 1]
    BY TailIs
  <1> HIDE DEF kept, new
  <1>3. /\ T \in Seq(Nat) /\ Len(T) = Len(kept) + Len(new)
        /\ \A k \in 1 .. Len(kept) + Len(new) :
              T[k] = IF k <= Len(kept) THEN kept[k] ELSE new[k - Len(kept)]
    <2>1. kept \in Seq(Nat) /\ new \in Seq(Nat)
      BY <1>1, <1>2
    <2> QED
      BY <2>1, SMTT(30)
  <1> HIDE DEF T
  <1>4. /\ Len(kept) = c /\ Len(new) \in Nat /\ Len(new) = Len(entries) - f + 1
        /\ Len(T) = c + Len(new)
    BY <1>1, <1>2, <1>3, SMTT(30)
  <1>5. \A k \in 1 .. Len(T) : k > c => T[k] = entries[f + (k - c) - 1]
    <2> SUFFICES ASSUME NEW k \in 1 .. Len(T), k > c PROVE T[k] = entries[f + (k - c) - 1]
      OBVIOUS
    <2>1. k - c \in 1 .. Len(new) /\ k \in 1 .. Len(kept) + Len(new) /\ ~(k <= Len(kept))
      BY <1>4, SMTT(30)
    <2> QED
      BY <1>2, <1>3, <1>4, <2>1
  <1>6. \A k \in 1 .. c : T[k] = log[k]
    <2> SUFFICES ASSUME NEW k \in 1 .. c PROVE T[k] = log[k]
      OBVIOUS
    <2>1. k \in 1 .. Len(kept) + Len(new) /\ k <= Len(kept)
      BY <1>4, SMTT(30)
    <2> QED
      BY <1>1, <1>3, <2>1
  <1> QED
    BY <1>3, <1>4, <1>5, <1>6 DEF T, kept, new, Splice, Spliced

\* Which of the entries after index prev the log does not hold.
Missing(log, prev, entries) ==
    {k \in 1 .. Len(entries) : prev + k > Len(log) \/ log[prev + k] # entries[k]}

\* The first of them, when the entries are those of log L: those before it are there.
FirstOfMissing(log, L, prev, entries) ==
    LET fresh == Missing(log, prev, entries)
        first == MinOf(fresh)
    IN  /\ fresh = {} =>
             \A k \in 1 .. Len(entries) : prev + k <= Len(log) /\ log[prev + k] = L[prev + k]
        /\ fresh # {} =>
             /\ first \in 1 .. Len(entries)
             /\ ~(prev + first <= Len(log) /\ log[prev + first] = L[prev + first])
             /\ \A k \in 1 .. Len(entries) : k < first =>
                  prev + k <= Len(log) /\ log[prev + k] = L[prev + k]

\* The loop of HandleAppendEntries stops at the first entry that is missing.
LEMMA FirstFresh ==
    ASSUME NEW log \in Seq(Nat), NEW L \in Seq(Nat), NEW entries \in Seq(Nat), NEW prev \in Nat,
           \A k \in 1 .. Len(entries) : entries[k] = L[prev + k]
    PROVE  FirstOfMissing(log, L, prev, entries)
  <1> DEFINE fresh == {k \in 1 .. Len(entries) : prev + k > Len(log) \/ log[prev + k] # entries[k]}
             first == MinOf(fresh)
  <1>1. \A k \in 1 .. Len(entries) :
          k \notin fresh <=> prev + k <= Len(log) /\ log[prev + k] = L[prev + k]
    BY SMTT(30)
  <1>2. fresh \subseteq Nat
    BY SMTT(30)
  <1>3. fresh # {} => first \in fresh /\ \A k \in fresh : first <= k
    BY <1>2, MinOfMember
  <1> HIDE DEF fresh, first
  <1>4. ASSUME fresh # {}, NEW k \in 1 .. Len(entries), k < first
        PROVE  prev + k <= Len(log) /\ log[prev + k] = L[prev + k]
    <2>1. first \in Nat
      BY <1>2, <1>3, <1>4
    <2>2. ~(first <= k)
      BY <1>4, <2>1, SMTT(30)
    <2> QED
      BY <1>1, <1>3, <2>2
  <1> QED
    BY <1>1, <1>3, <1>4 DEF fresh, first, Missing, FirstOfMissing

\* T is what log becomes when it accepts the first n entries of log L: it holds
\* them, and it is the log that was there, or it ends with them.
Overwritten(T, log, L, n) ==
    /\ T \in Seq(Nat) /\ n <= Len(T)
    /\ \A k \in 1 .. n : T[k] = L[k]
    /\ T = log \/ Len(T) = n
    /\ n <= Len(log) /\ (\A k \in 1 .. n : log[k] = L[k]) => T = log

\* An append that passed the consistency check (Overwrite).
LEMMA OverwriteIs ==
    ASSUME NEW s \in ServerState, s.base.index = 0, s.base.term = 0,
           NEW L \in Seq(Nat), NEW prev \in Nat, prev <= Len(s.log),
           \A k \in 1 .. prev : s.log[k] = L[k],
           NEW entries \in Seq(Nat), prev + Len(entries) <= Len(L),
           \A k \in 1 .. Len(entries) : entries[k] = L[prev + k]
    PROVE  Overwritten(Overwrite(s, prev, entries), s.log, L, prev + Len(entries))
  <1> DEFINE fresh0 == {k \in 1 .. Len(entries) : \/ prev + k > LastIndex(s)
                                                  \/ TermAt(s, prev + k) # entries[k]}
             log == s.log
             fresh == Missing(log, prev, entries)
             first == MinOf(fresh)
             c == prev + first - 1
             n == prev + Len(entries)
             T == Overwrite(s, prev, entries)
  <1>1. /\ log \in Seq(Nat) /\ LastIndex(s) = Len(log) /\ Len(log) \in Nat
        /\ \A k \in 1 .. Len(log) : TermAt(s, k) = log[k]
    BY NoBase, Fields
  <1>2. Len(entries) \in Nat /\ Len(L) \in Nat /\ n \in Nat
    BY SMTT(30)
  <1>3. fresh0 = fresh
    <2> HIDE DEF log
    <2>1. ASSUME NEW k \in 1 .. Len(entries)
          PROVE  (prev + k > LastIndex(s) \/ TermAt(s, prev + k) # entries[k])
                   <=> (prev + k > Len(log) \/ log[prev + k] # entries[k])
      <3>1. CASE prev + k > Len(log)
        BY <1>1, <3>1
      <3>2. CASE ~(prev + k > Len(log))
        <4>1. ASSUME NEW x \in Nat, NEW y \in Nat, k \in 1 .. x, ~(prev + k > y)
              PROVE  prev + k \in 1 .. y
          BY <4>1, SMTT(30)
        <4> QED
          BY <1>1, <1>2, <4>1
      <3> QED
        BY <3>1, <3>2
    <2> QED
      BY <2>1 DEF Missing
  <1>4. T = IF fresh0 = {} THEN log
            ELSE SubSeq(log, 1, prev + MinOf(fresh0) - 1 - s.base.index)
                 \o SubSeq(entries, MinOf(fresh0), Len(entries))
    BY DEF Overwrite
  <1> HIDE DEF fresh0, T
  <1>5. \A k \in 1 .. prev : log[k] = L[k]
    OBVIOUS
  <1>6. /\ fresh = {} =>
             \A k \in 1 .. Len(entries) : prev + k <= Len(log) /\ log[prev + k] = L[prev + k]
        /\ fresh # {} =>
             /\ first \in 1 .. Len(entries)
             /\ ~(prev + first <= Len(log) /\ log[prev + first] = L[prev + first])
             /\ \A k \in 1 .. Len(entries) : k < first =>
                  prev + k <= Len(log) /\ log[prev + k] = L[prev + k]
    <2> HIDE DEF log
    <2>1. FirstOfMissing(log, L, prev, entries)
      BY <1>1, FirstFresh
    <2> QED
      BY <2>1 DEF FirstOfMissing
  <1>7. prev <= Len(log)
    OBVIOUS
  <1> HIDE DEF fresh, log
  <1>8. CASE fresh = {}
    <2>1. ASSUME NEW k \in 1 .. n PROVE k <= Len(log) /\ log[k] = L[k]
      <3>1. CASE k <= prev
        <4>1. k \in 1 .. prev
          BY <3>1, SMTT(30)
        <4>2. k <= Len(log)
          BY <1>1, <1>7, <3>1, SMTT(30)
        <4> QED
          BY <1>5, <4>1, <4>2
      <3>2. CASE k > prev
        <4>1. k - prev \in 1 .. Len(entries) /\ prev + (k - prev) = k
          BY <3>2, SMTT(30)
        <4> QED
          BY <1>6, <1>8, <4>1
      <3> QED
        BY <3>1, <3>2, SMTT(30)
    <2> HIDE DEF n
    <2> QED
      BY <1>1, <1>3, <1>4, <1>8, <2>1, SMTT(30) DEF T, n, log, Overwritten
  <1>9. CASE fresh # {}
    <2>1. T = Splice(log, c, entries, first)
      <3>1. prev + first - 1 - s.base.index = c
        BY <1>6, <1>9, SMTT(30)
      <3> QED
        BY <1>3, <1>4, <1>9, <3>1 DEF Splice
    <2>2. first \in 1 .. Len(entries)
      BY <1>6, <1>9
    <2> HIDE DEF first
    <2>3. c \in Nat /\ c <= Len(log) /\ c <= n
      <3>1. CASE first = 1
        BY <1>7, <3>1, SMTT(30)
      <3>2. CASE first # 1
        <4>1. first - 1 \in 1 .. Len(entries) /\ first - 1 < first
          BY <2>2, <3>2, SMTT(30)
        <4>2. prev + (first - 1) <= Len(log)
          BY <1>6, <4>1
        <4> QED
          BY <2>2, <4>2, SMTT(30)
      <3> QED
        BY <3>1, <3>2
    <2>4. /\ T \in Seq(Nat) /\ Len(T) = c + (Len(entries) - first + 1)
          /\ \A k \in 1 .. c : T[k] = log[k]
          /\ \A k \in 1 .. Len(T) : k > c => T[k] = entries[first + (k - c) - 1]
      <3> HIDE DEF c
      <3>1. Spliced(T, log, c, entries, first)
        BY <1>1, <2>1, <2>2, <2>3, SpliceIs
      <3> QED
        BY <3>1 DEF Spliced
    <2>5. Len(T) = n
      BY <2>2, <2>4, SMTT(30)
    <2>6. ASSUME NEW k \in 1 .. n PROVE T[k] = L[k]
      <3>1. CASE k <= prev
        BY <1>5, <2>2, <2>4, <3>1, SMTT(30)
      <3>2. CASE k > prev /\ k <= c
        <4>1. /\ k - prev \in 1 .. Len(entries) /\ k - prev < first /\ prev + (k - prev) = k
              /\ k \in 1 .. c
          BY <2>2, <3>2, SMTT(30)
        <4> QED
          BY <1>6, <2>4, <4>1
      <3>3. CASE k > c
        <4>1. /\ first + (k - c) - 1 = k - prev /\ k - prev \in 1 .. Len(entries)
              /\ prev + (k - prev) = k /\ k \in 1 .. Len(T)
          BY <2>2, <2>5, <3>3, SMTT(30)
        <4>2. entries[k - prev] = L[prev + (k - prev)]
          BY <4>1
        <4> QED
          BY <2>4, <3>3, <4>1, <4>2
      <3> QED
        BY <2>3, <3>1, <3>2, <3>3, SMTT(30)
    <2>7. ~(n <= Len(log) /\ (\A k \in 1 .. n : log[k] = L[k]))
      <3>1. prev + first \in 1 .. n /\ prev + first \in Nat
        BY <2>2, SMTT(30)
      <3> SUFFICES ASSUME n <= Len(log), \A k \in 1 .. n : log[k] = L[k] PROVE FALSE
        OBVIOUS
      <3>2. prev + first <= Len(log)
        BY <2>2, SMTT(30)
      <3> HIDE DEF n
      <3> QED
        BY <1>6, <1>9, <3>1, <3>2
    <2>8. n <= Len(T) /\ Len(T) = n
      BY <2>5, SMTT(30)
    <2> HIDE DEF n, c
    <2> QED
      BY <2>4, <2>6, <2>7, <2>8 DEF T, n, log, Overwritten
  <1> QED
    BY <1>8, <1>9

\* A function that leaves the log alone and sends only what fits.
LEMMA FitsFrame ==
    ASSUME NEW H, NEW s, NEW r, Fits(s, H),
           r.base = s.base, r.log = s.log, r.term = s.term, r.role = s.role,
           r.role = "leader" => \A p \in Server : r.next[p] <= Len(r.log) + 1,
           \A m \in r.out : m \in s.out \/ MessageFit(m, H)
    PROVE  Fits(r, H)
  BY DEF Fits, ServerFit, LeaderFit

\* What a leader sends is a piece of its log, all the rest of it if one message
\* may carry that many entries (SendAppend).
LEMMA AppendMessageIs ==
    ASSUME NEW H, LogsOK(H), NEW i \in Server, NEW s \in ServerState, Fits(s, H),
           s.role = "leader", NEW p \in Server
    PROVE  LET m == AppendMessage(i, s, p)
           IN  /\ m.kind = "AppendEntries" /\ PieceOf(m, s.log)
               /\ m.commit = s.commit /\ m.hbSeq = s.hbSeq
               /\ Len(s.log) <= MaxEntries => m.prev + Len(m.entries) = Len(s.log)
  <1> DEFINE prev == s.next[p] - 1
             last == Min2(LastIndex(s), prev + MaxEntries)
             m == AppendEntries(i, s, p)
             log == s.log
             piece == SubSeq(log, prev + 1 - s.base.index, last - s.base.index)
  <1>1. /\ s.base.index = 0 /\ s.base.term = 0 /\ log \in H /\ LastOf(log) = s.term
        /\ s.next[p] <= Len(log) + 1
    BY DEF Fits, ServerFit, LeaderFit
  <1>2. /\ s.next[p] \in Nat \ {0} /\ log \in Seq(Nat) /\ Len(log) \in Nat
        /\ LastIndex(s) = Len(log) /\ MaxEntries \in Nat \ {0}
    BY <1>1, Fields, NoBase, BoundAssumption
  <1>3. prev \in Nat /\ prev <= Len(log)
    BY <1>1, <1>2, SMTT(30)
  <1>4. /\ last \in Nat /\ prev <= last /\ last <= Len(log)
        /\ Len(log) <= MaxEntries => last = Len(log)
    <2> HIDE DEF prev, log
    <2> QED
      BY <1>2, <1>3, SMTT(30) DEF Min2
  <1>5. AppendMessage(i, s, p) = m
    BY <1>1, <1>2, SMTT(30) DEF AppendMessage
  <1>6. /\ m.kind = "AppendEntries" /\ m.prev = prev /\ m.entries = piece
        /\ m.term = s.term /\ m.prevTerm = TermAt(s, prev)
        /\ m.commit = s.commit /\ m.hbSeq = s.hbSeq
    BY DEF AppendEntries
  <1>7. TermAt(s, prev) = IF prev = 0 THEN 0 ELSE log[prev]
    <2> HIDE DEF prev
    <2>1. CASE prev = 0
      BY <1>1, <2>1, NoBase
    <2>2. CASE prev # 0
      BY <1>1, <1>3, NoBase, SMTT(30)
    <2> QED
      BY <2>1, <2>2
  <1>8. /\ prev + 1 - s.base.index = prev + 1 /\ last - s.base.index = last
    BY <1>1, <1>4, SMTT(30)
  <1> HIDE DEF m, prev, last, log
  <1>9. Len(piece) = last - prev /\ \A k \in 1 .. Len(piece) : piece[k] = log[prev + k]
    <2>1. piece = SubSeq(log, prev + 1, last)
      BY <1>8
    <2> HIDE DEF piece
    <2> QED
      BY <1>3, <1>4, <2>1, SMTT(30)
  <1> HIDE DEF piece
  <1>10. PieceOf(m, log)
    BY <1>1, <1>3, <1>4, <1>6, <1>7, <1>9, SMTT(30) DEF PieceOf
  <1> QED
    BY <1>3, <1>4, <1>5, <1>6, <1>9, <1>10, SMTT(30) DEF log

\* What moves commit_, the pending reads or the heartbeat counter only.
LEMMA CountersFit ==
    ASSUME NEW H, NEW i, NEW s \in ServerState, Fits(s, H), NEW n, NEW seq, NEW pend, NEW conf
    PROVE  /\ Fits(EmitCommitted(s, n), H) /\ Fits(MaybeAdvanceCommit(s), H)
           /\ Fits(FollowCommit(s, n), H) /\ Fits(ConfirmReads(i, s), H)
           /\ Fits([s EXCEPT !.hbSeq = seq, !.pending = pend], H)
           /\ Fits([s EXCEPT !.hbSeq = seq], H)
           /\ Fits([s EXCEPT !.hbAcked = seq], H)
           /\ Fits([s EXCEPT !.confirmed = conf], H)
  <1>1. ASSUME NEW k PROVE Fits(EmitCommitted(s, k), H)
    <2> DEFINE r == EmitCommitted(s, k)
    <2> HIDE DEF r
    <2> QED
      BY DEF r, Fits, ServerFit, LeaderFit, EmitCommitted, ServerState
  <1>2. ASSUME NEW r, r.base = s.base, r.log = s.log, r.term = s.term, r.role = s.role,
               r.next = s.next, r.out = s.out
        PROVE  Fits(r, H)
    BY <1>2 DEF Fits, ServerFit, LeaderFit
  <1> QED
    BY <1>1, <1>2 DEF MaybeAdvanceCommit, FollowCommit, ConfirmReads, ServerState

\* What the leader does with the response of a follower: hbAcked, match and next
\* move, then it counts, or sends again; next never passes the end of the log.
RespWith(i, s, m, acked, match, next) ==
    LET q == [s EXCEPT !.hbAcked = acked, !.match = match, !.next = next]
    IN  /\ acked = [s.hbAcked EXCEPT ![m.from] = Max2(@, m.hbSeq)]
        /\ match = IF m.success THEN [s.match EXCEPT ![m.from] = Max2(@, m.match)]
                                ELSE s.match
        /\ \A x \in Server : next[x] <= Len(s.log) + 1
        /\ HandleAppendEntriesResp(i, s, m) =
             ConfirmReads(i, IF m.success THEN MaybeAdvanceCommit(q)
                                          ELSE SendAppend(i, q, m.from))

\* What HandleAppendEntriesResp does to a leader, by cases.
LEMMA RespIs ==
    ASSUME NEW H, LogsOK(H), NEW i \in Server, NEW s \in ServerState, Fits(s, H), s.role = "leader",
           NEW m \in AppendEntriesRespMsg, MessageFit(m, H), m.term = s.term
    PROVE  \E acked \in [Server -> Nat], match \in [Server -> Nat], next \in [Server -> Nat \ {0}] :
             RespWith(i, s, m, acked, match, next)
  <1> DEFINE p == m.from
             acked == [s.hbAcked EXCEPT ![p] = Max2(@, m.hbSeq)]
             a == [s EXCEPT !.hbAcked = acked]
  <1>0. /\ p \in Server /\ m.kind = "AppendEntriesResp" /\ m.success \in BOOLEAN
        /\ m.hbSeq \in Nat /\ m.match \in Nat /\ m.hint \in Nat
    BY DEF AppendEntriesRespMsg
  <1>1. /\ s.hbAcked \in [Server -> Nat] /\ s.match \in [Server -> Nat]
        /\ s.next \in [Server -> Nat \ {0}] /\ s.log \in Seq(Nat) /\ Len(s.log) \in Nat
        /\ \A x \in Server : s.next[x] <= Len(s.log) + 1
    BY Fields DEF Fits, ServerFit, LeaderFit
  <1>2. acked \in [Server -> Nat]
    BY <1>0, <1>1 DEF Max2
  <1>3. a = [s EXCEPT !.hbAcked[p] = Max2(@, m.hbSeq)]
    BY DEF ServerState
  <1>4. HandleAppendEntriesResp(i, s, m) =
          ConfirmReads(i, IF m.success THEN Acknowledge(a, p, m.match) ELSE BackOff(i, a, p, m.hint))
    BY <1>3 DEF HandleAppendEntriesResp
  <1>5. a.next = s.next /\ a.match = s.match
    BY DEF ServerState
  <1>6. CASE m.success
    <2> DEFINE match == [s.match EXCEPT ![p] = Max2(@, m.match)]
               next == [s.next EXCEPT ![p] = Max2(@, m.match + 1)]
               q == [s EXCEPT !.hbAcked = acked, !.match = match, !.next = next]
    <2>0. Max2(s.match[p], m.match) \in Nat /\ Max2(s.next[p], m.match + 1) \in Nat \ {0}
      <3> DEFINE x == s.match[p]
                 y == s.next[p]
                 n == m.match
      <3>1. x \in Nat /\ y \in Nat \ {0} /\ n \in Nat
        BY <1>0, <1>1
      <3> HIDE DEF x, y, n
      <3>2. Max2(x, n) \in Nat /\ Max2(y, n + 1) \in Nat \ {0}
        BY <3>1, SMTT(30) DEF Max2
      <3> QED
        BY <3>2 DEF x, y, n
    <2>1. match \in [Server -> Nat] /\ next \in [Server -> Nat \ {0}]
      BY <1>0, <1>1, <2>0
    <2>2. m.match <= Len(s.log)
      <3>1. PICK L \in H : LastOf(L) = m.term /\ m.match <= Len(L)
        BY <1>0, <1>6 DEF MessageFit
      <3>2. Prefix(L, s.log)
        BY <3>1 DEF Fits, ServerFit, LeaderFit
      <3>3. Len(L) \in Nat
        BY SMTT(30) DEF LogsOK
      <3> QED
        BY <1>0, <1>1, <3>1, <3>2, <3>3, SMTT(30) DEF Prefix
    <2>3. ASSUME NEW x \in Server
          PROVE  next[x] <= Len(s.log) + 1
      <3>1. next[x] = s.next[x] \/ next[x] = m.match + 1
        BY <1>0, <1>1 DEF Max2
      <3>2. s.next[x] <= Len(s.log) + 1 /\ m.match + 1 <= Len(s.log) + 1
        BY <1>0, <1>1, <2>2, SMTT(30)
      <3> QED
        BY <3>1, <3>2
    <2>4. q = [a EXCEPT !.match[p] = Max2(@, m.match), !.next[p] = Max2(@, m.match + 1)]
      <3> HIDE DEF acked
      <3> QED
        BY DEF ServerState
    <2>5. Acknowledge(a, p, m.match) = MaybeAdvanceCommit(q)
      BY <2>4 DEF Acknowledge
    <2> HIDE DEF acked, match, next, a, q
    <2>6. HandleAppendEntriesResp(i, s, m) =
            ConfirmReads(i, IF m.success THEN MaybeAdvanceCommit(q) ELSE SendAppend(i, q, m.from))
      BY <1>4, <1>6, <2>5
    <2> QED
      <3>1. RespWith(i, s, m, acked, match, next)
        BY <1>6, <2>3, <2>6 DEF acked, match, q, RespWith
      <3> QED
        BY <1>2, <2>1, <3>1
  <1>7. CASE ~m.success
    <2> DEFINE back == IF m.hint # 0 THEN m.hint ELSE s.next[p] - 1
               low == Max2(1, Min2(back, s.next[p] - 1))
               next == [s.next EXCEPT ![p] = low]
               q == [s EXCEPT !.hbAcked = acked, !.match = s.match, !.next = next]
    <2>1. s.next[p] \in Nat \ {0} /\ s.next[p] <= Len(s.log) + 1
      BY <1>0, <1>1
    <2>2. low \in Nat \ {0} /\ low <= Len(s.log) + 1
      <3> DEFINE x == s.next[p]
                 hint == m.hint
                 n == Len(s.log)
      <3>1. x \in Nat \ {0} /\ x <= n + 1 /\ hint \in Nat /\ n \in Nat
        BY <1>0, <1>1, <2>1
      <3> HIDE DEF x, hint, n
      <3>2. LET y == IF hint # 0 THEN hint ELSE x - 1
                z == Max2(1, Min2(y, x - 1))
            IN  z \in Nat \ {0} /\ z <= n + 1
        BY <3>1, SMTT(30) DEF Max2, Min2
      <3> QED
        BY <3>2 DEF x, hint, n
    <2>3. BackOff(i, a, p, m.hint) = SendAppend(i, [a EXCEPT !.next[p] = low], p)
      BY <1>5 DEF BackOff
    <2> HIDE DEF low
    <2>4. q = [a EXCEPT !.next[p] = low]
      <3> HIDE DEF acked
      <3> QED
        BY DEF ServerState
    <2>5. next \in [Server -> Nat \ {0}] /\ \A x \in Server : next[x] <= Len(s.log) + 1
      BY <1>0, <1>1, <2>2
    <2> HIDE DEF acked, next, a, q
    <2>6. HandleAppendEntriesResp(i, s, m) =
            ConfirmReads(i, IF m.success THEN MaybeAdvanceCommit(q) ELSE SendAppend(i, q, m.from))
      BY <1>4, <1>7, <2>3, <2>4
    <2> QED
      <3>1. RespWith(i, s, m, acked, s.match, next)
        BY <1>7, <2>5, <2>6 DEF acked, q, RespWith
      <3> QED
        BY <1>1, <1>2, <2>5, <3>1
  <1> QED
    BY <1>6, <1>7

\* N is log with one entry more, of term t, and H with N is in order.
Longest(H, log, t, N) ==
    /\ LogsOK(H \cup {N}) /\ LastOf(N) = t /\ Len(N) = Len(log) + 1 /\ N \in Seq(Nat)
    /\ \A k \in 1 .. Len(log) : N[k] = log[k]
    /\ \A L \in H \cup {N} : LastOf(L) = t => Prefix(L, N)

\* H with the log of a leader that appends an entry: the longest of its term.
LEMMA GrowLogs ==
    ASSUME NEW H, LogsOK(H), NEW log \in Seq(Nat), NEW t \in Nat,
           log # <<>> => log \in H, LastOf(log) <= t,
           \A L \in H : LastOf(L) = t => Prefix(L, log)
    PROVE  Longest(H, log, t, Append(log, t))
  <1> DEFINE N == Append(log, t)
             G == H \cup {N}
  <1>1. /\ N \in Seq(Nat) /\ Len(N) = Len(log) + 1 /\ N[Len(log) + 1] = t /\ Len(log) \in Nat
        /\ \A k \in 1 .. Len(log) : N[k] = log[k]
    BY SMTT(30)
  <1> HIDE DEF N
  <1>2. LastOf(N) = t
    BY <1>1, SMTT(30) DEF LastOf
  <1>3. \A L \in G : LastOf(L) = t => Prefix(L, N)
    <2> SUFFICES ASSUME NEW L \in G, LastOf(L) = t PROVE Prefix(L, N)
      OBVIOUS
    <2>1. CASE L = N
      BY <2>1, SMTT(30) DEF Prefix
    <2>2. CASE L \in H
      <3> QED
        BY <1>1, SMTT(30) DEF Prefix
    <2> QED
      BY <2>1, <2>2
  <1>4. \A L \in G : \A k \in 1 .. Len(L) : SubSeq(L, 1, k) \in G /\ L[k] <= LastOf(L)
    <2> SUFFICES ASSUME NEW L \in G, NEW k \in 1 .. Len(L)
                 PROVE  SubSeq(L, 1, k) \in G /\ L[k] <= LastOf(L)
      OBVIOUS
    <2>1. CASE L \in H
      BY <2>1 DEF LogsOK
    <2>2. CASE L = N /\ k = Len(N)
      BY <1>1, <1>2, <2>2, SMTT(30) DEF Prefix
    <2>3. CASE L = N /\ k # Len(N)
      <3> DEFINE C == SubSeq(N, 1, k)
      <3>1. k \in 1 .. Len(log) /\ k \in 1 .. Len(N)
        BY <1>1, <2>3, SMTT(30)
      <3>2. log # <<>> /\ log \in H
        BY <3>1, SMTT(30)
      <3>3. C \in Seq(Nat) /\ Len(C) = k /\ \A x \in 1 .. k : C[x] = N[x]
        BY <1>1, <3>1, CutIs
      <3> HIDE DEF C
      <3>4. Prefix(C, log) /\ C # <<>>
        <4>1. \A x \in 1 .. k : C[x] = log[x]
          <5> SUFFICES ASSUME NEW x \in 1 .. k PROVE C[x] = log[x]
            OBVIOUS
          <5>1. x \in 1 .. Len(log)
            BY <3>1, SMTT(30)
          <5> QED
            BY <1>1, <3>3, <5>1
        <4> QED
          BY <3>1, <3>3, <4>1, SMTT(30) DEF Prefix
      <3>5. C \in H
        BY <3>2, <3>3, <3>4, BeginningIn
      <3>6. log[k] <= LastOf(log) /\ log[k] \in Nat /\ LastOf(log) \in Nat
        <4>1. log[k] <= LastOf(log)
          BY <3>1, <3>2 DEF LogsOK
        <4> QED
          BY <3>1, <4>1, SMTT(30) DEF LastOf
      <3>7. N[k] = log[k]
        BY <1>1, <3>1
      <3> QED
        BY <1>2, <2>3, <3>5, <3>6, <3>7, SMTT(30) DEF C
    <2> QED
      BY <2>1, <2>2, <2>3
  <1>5. LogsOK(G)
    BY <1>1, <1>2, <1>3, <1>4, SMTT(30) DEF LogsOK
  <1> QED
    BY <1>2, <1>3, <1>5, SMTT(30) DEF N, Longest

\* The log of a follower that accepts a piece of L: it passed the consistency
\* check, so it agrees with L below prev.
LEMMA AcceptedLog ==
    ASSUME NEW H, LogsOK(H), NEW s \in ServerState, ServerFit(s, H), NEW m \in AppendEntriesMsg,
           NEW L \in H, PieceOf(m, L), m.term = s.term,
           m.prev <= LastIndex(s), TermAt(s, m.prev) = m.prevTerm
    PROVE  LET T == Overwrite(s, m.prev, m.entries)
               n == m.prev + Len(m.entries)
           IN  /\ Overwritten(T, s.log, L, n) /\ n \in Nat
               /\ T # <<>> => T \in H
               /\ LastOf(T) <= s.term
  <1> DEFINE log == s.log
             prev == m.prev
             entries == m.entries
             T == Overwrite(s, prev, entries)
             n == prev + Len(entries)
  <1>1. /\ prev \in Nat /\ entries \in Seq(Nat) /\ L \in Seq(Nat) /\ n \in Nat
    BY SMTT(30) DEF AppendEntriesMsg, LogsOK
  <1>2. /\ log \in Seq(Nat) /\ LastIndex(s) = Len(log) /\ Len(log) \in Nat /\ TermAt(s, 0) = 0
        /\ \A k \in 1 .. Len(log) : TermAt(s, k) = log[k]
        /\ s.base.index = 0 /\ s.base.term = 0 /\ s.term \in Nat
    BY NoBase, Fields DEF ServerFit
  <1>3. \A k \in 1 .. prev : log[k] = L[k]
    <2>1. CASE prev = 0
      BY <2>1, SMTT(30)
    <2>2. CASE prev # 0
      <3>1. log \in H
        BY <1>1, <1>2, <2>2, SMTT(30) DEF ServerFit
      <3>2. prev <= Len(log) /\ prev \in 1 .. Len(log)
        BY <1>1, <1>2, <2>2, SMTT(30)
      <3>3. log[prev] = L[prev]
        BY <1>2, <2>2, <3>2 DEF PieceOf
      <3>4. prev <= Len(L)
        BY <1>1, SMTT(30) DEF PieceOf
      <3> HIDE DEF log, prev
      <3> QED
        BY <3>1, <3>2, <3>3, <3>4, AgreeBelow, SMTT(30)
    <2> QED
      BY <2>2, SMTT(30)
  <1>4. /\ n <= Len(L) /\ \A k \in 1 .. Len(entries) : entries[k] = L[prev + k]
    BY DEF PieceOf
  <1>5. Overwritten(T, log, L, n)
    BY <1>1, <1>2, <1>3, <1>4, OverwriteIs
  <1>6. /\ T \in Seq(Nat) /\ n <= Len(T)
        /\ \A k \in 1 .. n : T[k] = L[k]
        /\ T = log \/ Len(T) = n
    BY <1>5 DEF Overwritten
  <1> HIDE DEF T, n
  <1>7. T # <<>> => T \in H /\ LastOf(T) <= s.term
    BY <1>4, <1>6, BeginningIn, SMTT(30) DEF ServerFit, Prefix, PieceOf
  <1> QED
    BY <1>1, <1>2, <1>5, <1>7, SMTT(30) DEF T, n, LastOf

=============================================================================
