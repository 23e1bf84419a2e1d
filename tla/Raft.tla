-------------------------------- MODULE Raft --------------------------------
(***************************************************************************)
(* The Raft core of FlotillaDB (src/raft/raft.cc) as a cluster of servers  *)
(* joined by a network that may lose and reorder messages.                 *)
(*                                                                         *)
(* A server is one record holding the members of class Raft.  Every member *)
(* function of the class is an operator from a server record to a server   *)
(* record; the `ready_' accumulator of the class is the fields out,        *)
(* emitted and confirmed.  An action of the module is one call of the host *)
(* (RaftGroup) with raft_mutex_ held: the member function, then DrainReady, *)
(* which persists and only then sends, so a step is atomic for the other   *)
(* servers.  What a crash inside DrainReady's writes leaves on disk is the *)
(* subject of RaftStorage.                                                 *)
(*                                                                         *)
(* Data: a log entry is its term.  A leader creates one entry for a given  *)
(* index and term, so the pair identifies the command.                     *)
(***************************************************************************)
EXTENDS Naturals, FiniteSets, Sequences

CONSTANTS
    Server,        \* config_.peers, this server included
    Nil,           \* NodeId 0: nobody
    MaxTerm,       \* no election is started beyond this term
    MaxIndex,      \* no command is proposed beyond this index
    MaxEntries,    \* config_.max_entries_per_msg
    MaxTickSeq,    \* no heartbeat tick once hb_seq_ has reached this value
    MaxReadSeq,    \* no ReadIndex once hb_seq_ has reached this value
    MaxBase,       \* no compaction beyond this index (0: snapshots are off)
    MaxRestarts    \* how many crashes there may be

ASSUME ServerAssumption == IsFiniteSet(Server) /\ Nil \notin Server
ASSUME BoundAssumption ==
    /\ MaxTerm \in Nat /\ MaxIndex \in Nat /\ MaxEntries \in Nat \ {0}
    /\ MaxTickSeq \in Nat /\ MaxReadSeq \in Nat
    /\ MaxBase \in Nat /\ MaxRestarts \in Nat

VARIABLES
    node,          \* the server records
    msgs,          \* the messages in flight
    restarts,      \* how many crashes there have been
    cast,          \* history: every vote ever cast
    elected,       \* history: every election ever won
    committed,     \* history: every entry ever handed to a state machine
    reads          \* history: every read ever confirmed

vars == <<node, msgs, restarts, cast, elected, committed, reads>>

Max2(a, b) == IF a >= b THEN a ELSE b
Min2(a, b) == IF a <= b THEN a ELSE b
MaxOf(S) == CHOOSE n \in S : \A k \in S : k <= n
MinOf(S) == CHOOSE n \in S : \A k \in S : n <= k

\* Mutant: one server short of a majority.
IsQuorumShort(Q) == Cardinality(Q) >= Cardinality(Server) \div 2

IsQuorum(Q) == Cardinality(Q) >= Cardinality(Server) \div 2 + 1
Peers(i) == Server \ {i}

-----------------------------------------------------------------------------
(* Helpers of the class. *)

LastIndex(s) == s.base.index + Len(s.log)
LastTerm(s) == IF s.log = <<>> THEN s.base.term ELSE s.log[Len(s.log)]

TermAt(s, n) ==
    IF n = s.base.index THEN s.base.term
    ELSE IF n > s.base.index /\ n <= LastIndex(s) THEN s.log[n - s.base.index]
    ELSE 0

BecomeFollower(s, t, ldr) ==
    [s EXCEPT !.term = Max2(t, s.term),
              !.votedFor = IF t > s.term THEN Nil ELSE @,
              !.role = "follower",
              !.leader = ldr,
              !.votes = {},
              !.pending = {}]

-----------------------------------------------------------------------------
(* Messages: one record shape per MsgKind, the fields that kind uses. *)

RequestVote(i, s, p) ==
    [kind |-> "RequestVote", from |-> i, to |-> p, term |-> s.term,
     lastIndex |-> LastIndex(s), lastTerm |-> LastTerm(s)]

RequestVoteResp(i, s, p, granted) ==
    [kind |-> "RequestVoteResp", from |-> i, to |-> p, term |-> s.term,
     granted |-> granted]

AppendEntriesResp(i, s, p, success, match, hint, seq) ==
    [kind |-> "AppendEntriesResp", from |-> i, to |-> p, term |-> s.term,
     success |-> success, match |-> match, hint |-> hint, hbSeq |-> seq]

InstallSnapshotResp(i, s, p, success, match) ==
    [kind |-> "InstallSnapshotResp", from |-> i, to |-> p, term |-> s.term,
     success |-> success, match |-> match]

InstallSnapshot(i, s, p) ==
    [kind |-> "InstallSnapshot", from |-> i, to |-> p, term |-> s.term,
     snap |-> s.base]

Send(s, m) == [s EXCEPT !.out = @ \cup {m}]

-----------------------------------------------------------------------------
(* Sending entries and advancing the commit index. *)

\* AppendEntries to p: everything from next[p] on, capped at MaxEntries.
AppendEntries(i, s, p) ==
    LET prev == s.next[p] - 1
        last == Min2(LastIndex(s), prev + MaxEntries)
    IN  [kind |-> "AppendEntries", from |-> i, to |-> p, term |-> s.term,
         prev |-> prev, prevTerm |-> TermAt(s, prev),
         entries |-> SubSeq(s.log, prev + 1 - s.base.index, last - s.base.index),
         commit |-> s.commit, hbSeq |-> s.hbSeq]

AppendMessage(i, s, p) ==
    IF s.next[p] <= s.base.index THEN InstallSnapshot(i, s, p)
                                 ELSE AppendEntries(i, s, p)

SendAppend(i, s, p) == Send(s, AppendMessage(i, s, p))

BroadcastAppend(i, s) ==
    [s EXCEPT !.out = @ \cup {AppendMessage(i, s, p) : p \in Peers(i)}]

\* commit_ becomes n and the entries above the old commit index are emitted.
EmitCommitted(s, n) ==
    [s EXCEPT !.commit = n,
              !.emitted = @ \cup {[index |-> k, term |-> TermAt(s, k)] :
                                  k \in s.commit + 1 .. n}]

\* Mutant: a replica that lacks the last of the entries is counted all the same.
CountableOffByOne(s) ==
    {n \in s.commit + 1 .. LastIndex(s) :
        /\ \A k \in n .. LastIndex(s) : TermAt(s, k) = s.term
        /\ IsQuorum({p \in Server : s.match[p] + 1 >= n})}

\* The entries that counting replicas may commit: an unbroken run of the
\* leader's own term that reaches the end of the log.
Countable(s) ==
    {n \in s.commit + 1 .. LastIndex(s) :
        /\ \A k \in n .. LastIndex(s) : TermAt(s, k) = s.term
        /\ IsQuorum({p \in Server : s.match[p] >= n})}

MaybeAdvanceCommit(s) ==
    IF s.role = "leader" /\ Countable(s) # {}
    THEN EmitCommitted(s, MaxOf(Countable(s)))
    ELSE s

\* Append one entry of the leader's term (the no-op, or a proposed command).
AppendOwn(i, s) ==
    [s EXCEPT !.log = Append(@, s.term),
              !.match[i] = LastIndex(s) + 1]

BecomeLeader(i, s) ==
    LET fresh == [s EXCEPT !.role = "leader",
                           !.leader = i,
                           !.next = [p \in Server |-> LastIndex(s) + 1],
                           !.match = [p \in Server |-> 0],
                           !.hbAcked = [p \in Server |-> 0],
                           !.hbSeq = @ + 1]
    IN  MaybeAdvanceCommit(BroadcastAppend(i, AppendOwn(i, fresh)))

StartElection(i, s) ==
    LET c == [s EXCEPT !.role = "candidate",
                       !.term = @ + 1,
                       !.votedFor = i,
                       !.leader = Nil,
                       !.votes = {i}]
    IN  IF IsQuorum({i})
        THEN BecomeLeader(i, c)
        ELSE [c EXCEPT !.out = @ \cup {RequestVote(i, c, p) : p \in Peers(i)}]

\* Tick() of a leader whose heartbeat interval is over.
Heartbeat(i, s) == BroadcastAppend(i, [s EXCEPT !.hbSeq = @ + 1])

Propose(i, s) == MaybeAdvanceCommit(BroadcastAppend(i, AppendOwn(i, s)))

\* floor is history: the highest index any server has emitted so far.
StartReadIndex(i, s, floor) ==
    IF IsQuorum({i})
    THEN [s EXCEPT !.confirmed = @ \cup {[index |-> s.commit, floor |-> floor]}]
    ELSE BroadcastAppend(i,
           [s EXCEPT !.hbSeq = @ + 1,
                     !.pending = @ \cup {[seq |-> s.hbSeq + 1, index |-> s.commit,
                                          floor |-> floor]}])

\* Mutant: the snapshot carries the current term instead of its entry's.
CompactToCurrentTerm(s, n) ==
    [s EXCEPT !.base = [index |-> n, term |-> s.term],
              !.log = SubSeq(@, n - s.base.index + 1, Len(@))]

CompactTo(s, n) ==
    [s EXCEPT !.base = [index |-> n, term |-> TermAt(s, n)],
              !.log = SubSeq(@, n - s.base.index + 1, Len(@))]

-----------------------------------------------------------------------------
(* Message handlers. *)

\* Mutant: the candidate's log is not looked at.
UpToDateAlways(s, m) == TRUE

\* Mutant: only the lengths of the logs are compared.
UpToDateByLength(s, m) == m.lastIndex >= LastIndex(s)

UpToDate(s, m) ==
    \/ m.lastTerm > LastTerm(s)
    \/ m.lastTerm = LastTerm(s) /\ m.lastIndex >= LastIndex(s)

HandleRequestVote(i, s, m) ==
    IF s.votedFor \in {Nil, m.from} /\ UpToDate(s, m)
    THEN Send([s EXCEPT !.votedFor = m.from], RequestVoteResp(i, s, m.from, TRUE))
    ELSE Send(s, RequestVoteResp(i, s, m.from, FALSE))

HandleRequestVoteResp(i, s, m) ==
    IF s.role # "candidate" THEN s
    ELSE LET v == [s EXCEPT !.votes = IF m.granted THEN @ \cup {m.from}
                                                   ELSE @ \ {m.from}]
         IN  IF IsQuorum(v.votes) THEN BecomeLeader(i, v) ELSE v

\* A candidate that hears from the leader of its term gives up; both leader
\* messages record who the leader is.
HearLeader(s, m) ==
    [(IF s.role = "candidate" THEN BecomeFollower(s, s.term, m.from) ELSE s)
        EXCEPT !.leader = m.from]

\* The first index of the run of entries that share the term at index n.
FirstOfTerm(s, n) ==
    MinOf({n} \cup {f \in s.base.index + 1 .. n :
                       \A k \in f .. n : TermAt(s, k) = TermAt(s, n)})

ConflictHint(s, prev) ==
    IF prev > LastIndex(s) THEN LastIndex(s) + 1 ELSE FirstOfTerm(s, prev)

\* Mutant: the log is cut after prev even when it already holds the entries.
OverwriteAlways(s, prev, entries) ==
    SubSeq(s.log, 1, prev - s.base.index) \o entries

\* The log after the entries that follow index prev: what is already there is
\* kept, the first entry that differs cuts the log.
Overwrite(s, prev, entries) ==
    LET fresh == {k \in 1 .. Len(entries) : \/ prev + k > LastIndex(s)
                                            \/ TermAt(s, prev + k) # entries[k]}
        first == MinOf(fresh)
    IN  IF fresh = {} THEN s.log
        ELSE SubSeq(s.log, 1, prev + first - 1 - s.base.index)
             \o SubSeq(entries, first, Len(entries))

FollowCommit(s, commit) ==
    IF commit > s.commit THEN EmitCommitted(s, Min2(commit, LastIndex(s))) ELSE s

\* Mutant: the consistency check forgets to compare the terms.
AcceptEntriesByIndex(i, s, m, prev, prevTerm, entries) ==
    IF prev > LastIndex(s)
    THEN Send(s, AppendEntriesResp(i, s, m.from, FALSE, 0, ConflictHint(s, prev),
                                   m.hbSeq))
    ELSE Send(FollowCommit([s EXCEPT !.log = Overwrite(s, prev, entries)], m.commit),
              AppendEntriesResp(i, s, m.from, TRUE, prev + Len(entries), 0, m.hbSeq))

AcceptEntries(i, s, m, prev, prevTerm, entries) ==
    IF prev > LastIndex(s) \/ TermAt(s, prev) # prevTerm
    THEN Send(s, AppendEntriesResp(i, s, m.from, FALSE, 0, ConflictHint(s, prev),
                                   m.hbSeq))
    ELSE Send(FollowCommit([s EXCEPT !.log = Overwrite(s, prev, entries)], m.commit),
              AppendEntriesResp(i, s, m.from, TRUE, prev + Len(entries), 0, m.hbSeq))

\* Entries at or below the snapshot base are trimmed away first.
HandleAppendEntries(i, s0, m) ==
    LET s == HearLeader(s0, m)
        covered == s.base.index - m.prev
    IN  IF m.prev >= s.base.index
        THEN AcceptEntries(i, s, m, m.prev, m.prevTerm, m.entries)
        ELSE IF Len(m.entries) <= covered
        THEN Send(s, AppendEntriesResp(i, s, m.from, TRUE,
                        Max2(s.base.index, m.prev + Len(m.entries)), 0, m.hbSeq))
        ELSE AcceptEntries(i, s, m, s.base.index, s.base.term,
                           SubSeq(m.entries, covered + 1, Len(m.entries)))

\* Both success responses of a follower advance match and next.
Acknowledge(s, p, match) ==
    MaybeAdvanceCommit([s EXCEPT !.match[p] = Max2(@, match),
                                 !.next[p] = Max2(@, match + 1)])

\* Mutant: sends from before the hint, and next is not kept above zero.
BackOffBelowHint(i, s, p, hint) ==
    LET next == s.next[p]
        backoff == IF hint # 0 THEN hint - 1 ELSE next - 1
    IN  SendAppend(i, [s EXCEPT !.next[p] = Min2(backoff, next - 1)], p)

\* Nobody answered yet, or the follower reported a conflict: send from earlier.
BackOff(i, s, p, hint) ==
    LET next == s.next[p]
        backoff == IF hint # 0 THEN hint ELSE next - 1
    IN  SendAppend(i, [s EXCEPT !.next[p] = Max2(1, Min2(backoff, next - 1))], p)

\* Mutant: the echo of the heartbeat before the read's counts.
ReadQuorumOffByOne(i, s, r) == IsQuorum({i} \cup {p \in Peers(i) : s.hbAcked[p] + 1 >= r.seq})

\* A pending read is confirmed when a quorum has echoed its heartbeat.
ReadQuorum(i, s, r) == IsQuorum({i} \cup {p \in Peers(i) : s.hbAcked[p] >= r.seq})

ConfirmReads(i, s) ==
    LET done == {r \in s.pending : ReadQuorum(i, s, r)}
    IN  [s EXCEPT !.pending = @ \ done,
                  !.confirmed = @ \cup {[index |-> r.index, floor |-> r.floor] :
                                        r \in done}]

HandleAppendEntriesResp(i, s, m) ==
    IF s.role # "leader" THEN s
    ELSE LET a == [s EXCEPT !.hbAcked[m.from] = Max2(@, m.hbSeq)]
         IN  ConfirmReads(i, IF m.success THEN Acknowledge(a, m.from, m.match)
                                          ELSE BackOff(i, a, m.from, m.hint))

\* The whole log is dropped, whatever it holds above the snapshot.
HandleInstallSnapshot(i, s0, m) ==
    LET s == HearLeader(s0, m)
    IN  IF m.snap.index <= s.commit
        THEN Send(s, InstallSnapshotResp(i, s, m.from, TRUE, s.commit))
        ELSE Send([s EXCEPT !.base = m.snap, !.log = <<>>, !.commit = m.snap.index],
                  InstallSnapshotResp(i, s, m.from, TRUE, m.snap.index))

HandleInstallSnapshotResp(s, m) ==
    IF s.role = "leader" /\ m.success THEN Acknowledge(s, m.from, m.match) ELSE s

Dispatch(i, s, m) ==
    CASE m.kind = "RequestVote"         -> HandleRequestVote(i, s, m)
      [] m.kind = "RequestVoteResp"     -> HandleRequestVoteResp(i, s, m)
      [] m.kind = "AppendEntries"       -> HandleAppendEntries(i, s, m)
      [] m.kind = "AppendEntriesResp"   -> HandleAppendEntriesResp(i, s, m)
      [] m.kind = "InstallSnapshot"     -> HandleInstallSnapshot(i, s, m)
      [] m.kind = "InstallSnapshotResp" -> HandleInstallSnapshotResp(s, m)

\* A message of an older term: its sender is told the newer one.
RefuseStale(i, s, m) ==
    CASE m.kind = "RequestVote" ->
            Send(s, RequestVoteResp(i, s, m.from, FALSE))
      [] m.kind = "AppendEntries" ->
            Send(s, AppendEntriesResp(i, s, m.from, FALSE, 0, 0, 0))
      [] m.kind = "InstallSnapshot" ->
            Send(s, InstallSnapshotResp(i, s, m.from, FALSE, 0))
      [] OTHER -> s

FromLeader(m) == m.kind \in {"AppendEntries", "InstallSnapshot"}

\* Mutant: whoever brings a newer term is taken for the leader.
StepBelievesSender(i, s, m) ==
    IF m.term < s.term THEN RefuseStale(i, s, m)
    ELSE IF m.term > s.term THEN Dispatch(i, BecomeFollower(s, m.term, m.from), m)
    ELSE Dispatch(i, s, m)

Step(i, s, m) ==
    IF m.term < s.term THEN RefuseStale(i, s, m)
    ELSE IF m.term > s.term
    THEN Dispatch(i, BecomeFollower(s, m.term, IF FromLeader(m) THEN m.from ELSE Nil), m)
    ELSE Dispatch(i, s, m)

-----------------------------------------------------------------------------
(* The cluster. *)

\* Mutant: the vote does not survive a restart.
BootForgetsVote(term, votedFor, base, log) ==
    [term |-> term, votedFor |-> Nil, base |-> base, log |-> log,
     role |-> "follower", leader |-> Nil, votes |-> {},
     commit |-> base.index,
     next |-> [p \in Server |-> 1], match |-> [p \in Server |-> 0],
     hbAcked |-> [p \in Server |-> 0], hbSeq |-> 0, pending |-> {},
     out |-> {}, emitted |-> {}, confirmed |-> {}]

\* A server rebuilt from what is on disk; Init is the empty disk.
Boot(term, votedFor, base, log) ==
    [term |-> term, votedFor |-> votedFor, base |-> base, log |-> log,
     role |-> "follower", leader |-> Nil, votes |-> {},
     commit |-> base.index,
     next |-> [p \in Server |-> 1], match |-> [p \in Server |-> 0],
     hbAcked |-> [p \in Server |-> 0], hbSeq |-> 0, pending |-> {},
     out |-> {}, emitted |-> {}, confirmed |-> {}]

Init ==
    /\ node = [i \in Server |-> Boot(0, Nil, [index |-> 0, term |-> 0], <<>>)]
    /\ msgs = {}
    /\ restarts = 0
    /\ cast = {} /\ elected = {} /\ committed = {} /\ reads = {}

\* The history variables after server i has moved to s.
Votes(i, s) ==
    IF s.votedFor = Nil THEN {}
    ELSE {[voter |-> i, term |-> s.term, for |-> s.votedFor]}

Elections(i, s) ==
    IF s.role = "leader" THEN {[term |-> s.term, server |-> i]} ELSE {}

Emissions(s) ==
    {[index |-> e.index, term |-> e.term, at |-> s.term] :
        e \in {x \in s.emitted : \A c \in committed : \/ c.index # x.index
                                                     \/ c.term # x.term}}

\* m is a response that its receiver, now or later, can only ignore: it belongs
\* to an older term, or to an election or leadership that is over.  A candidate may
\* still come to lead in its term, and the refusal of an append of an older term of
\* its own would then count; the refusal of a snapshot has no effect on anybody.
Ignorable(m) ==
    LET s == node[m.to] IN
    \/ m.term < s.term /\ m.kind \notin {"RequestVote", "AppendEntries", "InstallSnapshot"}
    \/ m.term = s.term /\ \/ m.kind = "RequestVoteResp" /\ s.role # "candidate"
                          \/ m.kind = "AppendEntriesResp" /\ s.role = "follower"
                          \/ m.kind = "InstallSnapshotResp" /\ s.role # "leader"

\* Server i moves to s and its ready_ is drained: messages go out, committed
\* entries and confirmed reads go to the host.  Responses that no longer matter
\* leave the network.
Drain(i, s, consumed) ==
    /\ node' = [node EXCEPT ![i] = [s EXCEPT !.out = {}, !.emitted = {},
                                             !.confirmed = {}]]
    /\ msgs' = {m \in (msgs \ consumed) \cup s.out : ~Ignorable(m)'}
    /\ cast' = cast \cup Votes(i, s)
    /\ elected' = elected \cup Elections(i, s)
    /\ committed' = committed \cup Emissions(s)
    /\ reads' = reads \cup s.confirmed

ElectionTimeout(i) ==
    /\ node[i].role # "leader"
    /\ node[i].term < MaxTerm
    /\ Drain(i, StartElection(i, node[i]), {})
    /\ UNCHANGED restarts

HeartbeatTick(i) ==
    /\ node[i].role = "leader"
    /\ node[i].hbSeq < MaxTickSeq
    /\ Drain(i, Heartbeat(i, node[i]), {})
    /\ UNCHANGED restarts

ClientPropose(i) ==
    /\ node[i].role = "leader"
    /\ LastIndex(node[i]) < MaxIndex
    /\ Drain(i, Propose(i, node[i]), {})
    /\ UNCHANGED restarts

ClientRead(i) ==
    /\ node[i].role = "leader"
    /\ TermAt(node[i], node[i].commit) = node[i].term
    /\ node[i].hbSeq < MaxReadSeq
    /\ \E floor \in {0} \cup {c.index : c \in committed} :
          /\ \A c \in committed : c.index <= floor
          /\ Drain(i, StartReadIndex(i, node[i], floor), {})
    /\ UNCHANGED restarts

Receive(m) ==
    /\ Drain(m.to, Step(m.to, node[m.to], m), {m})
    /\ UNCHANGED restarts

\* MaybeSnapshot of the host: n is an applied index.
Compact(i, n) ==
    /\ n > node[i].base.index
    /\ n <= node[i].commit
    /\ n <= MaxBase
    /\ Drain(i, CompactTo(node[i], n), {})
    /\ UNCHANGED restarts

Restart(i) ==
    /\ restarts < MaxRestarts
    /\ LET s == node[i] IN Drain(i, Boot(s.term, s.votedFor, s.base, s.log), {})
    /\ restarts' = restarts + 1

\* The transport drops a message: a full outbox, a broken connection, a receiver
\* that is down.
Lose(m) ==
    /\ msgs' = msgs \ {m}
    /\ UNCHANGED <<node, restarts, cast, elected, committed, reads>>

Next ==
    \/ \E i \in Server : ElectionTimeout(i)
    \/ \E i \in Server : HeartbeatTick(i)
    \/ \E i \in Server : ClientPropose(i)
    \/ \E i \in Server : ClientRead(i)
    \/ \E m \in msgs : Receive(m)
    \/ \E m \in msgs : Lose(m)
    \/ \E i \in Server : \E n \in 1 .. MaxBase : Compact(i, n)
    \/ \E i \in Server : Restart(i)

Spec == Init /\ [][Next]_vars

-----------------------------------------------------------------------------
(* Types. *)

Snapshot == [index : Nat, term : Nat]

RequestVoteMsg ==
    [kind : {"RequestVote"}, from : Server, to : Server, term : Nat,
     lastIndex : Nat, lastTerm : Nat]
RequestVoteRespMsg ==
    [kind : {"RequestVoteResp"}, from : Server, to : Server, term : Nat,
     granted : BOOLEAN]
AppendEntriesMsg ==
    [kind : {"AppendEntries"}, from : Server, to : Server, term : Nat,
     prev : Nat, prevTerm : Nat, entries : Seq(Nat), commit : Nat, hbSeq : Nat]
AppendEntriesRespMsg ==
    [kind : {"AppendEntriesResp"}, from : Server, to : Server, term : Nat,
     success : BOOLEAN, match : Nat, hint : Nat, hbSeq : Nat]
InstallSnapshotMsg ==
    [kind : {"InstallSnapshot"}, from : Server, to : Server, term : Nat,
     snap : Snapshot]
InstallSnapshotRespMsg ==
    [kind : {"InstallSnapshotResp"}, from : Server, to : Server, term : Nat,
     success : BOOLEAN, match : Nat]

Message ==
    RequestVoteMsg \cup RequestVoteRespMsg \cup AppendEntriesMsg
        \cup AppendEntriesRespMsg \cup InstallSnapshotMsg \cup InstallSnapshotRespMsg

ServerState ==
    [term : Nat, votedFor : Server \cup {Nil}, base : Snapshot, log : Seq(Nat),
     role : {"follower", "candidate", "leader"}, leader : Server \cup {Nil},
     votes : SUBSET Server, commit : Nat,
     next : [Server -> Nat \ {0}], match : [Server -> Nat],
     hbAcked : [Server -> Nat], hbSeq : Nat,
     pending : SUBSET [seq : Nat, index : Nat, floor : Nat],
     out : SUBSET Message, emitted : SUBSET [index : Nat, term : Nat],
     confirmed : SUBSET [index : Nat, floor : Nat]]

Drained(s) == s.out = {} /\ s.emitted = {} /\ s.confirmed = {}

\* Every variable has its type; between two steps ready_ is empty.
TypeOK ==
    /\ node \in [Server -> ServerState]
    /\ \A i \in Server : Drained(node[i])
    /\ msgs \in SUBSET Message
    /\ restarts \in Nat
    /\ cast \in SUBSET [voter : Server, term : Nat, for : Server]
    /\ elected \in SUBSET [term : Nat, server : Server]
    /\ committed \in SUBSET [index : Nat, term : Nat, at : Nat]
    /\ reads \in SUBSET [index : Nat, floor : Nat]

-----------------------------------------------------------------------------
(* Safety. *)

\* s holds entry e, in its log or below its snapshot.
Holds(s, e) == e.index < s.base.index \/ (e.index <= LastIndex(s) /\ TermAt(s, e.index) = e.term)

\* At most one server ever wins the election of a term, restarts included
\* (StartElection, HandleRequestVote, HandleRequestVoteResp).
ElectionSafety ==
    \A a, b \in elected : a.term = b.term => a.server = b.server

\* A server that names a leader names the winner of its own term: the redirect
\* hint given to clients (leader_, set by Step and by both leader messages).
LeaderHintIsElected ==
    \A i \in Server : node[i].leader # Nil =>
        [term |-> node[i].term, server |-> node[i].leader] \in elected

\* Two logs that agree on the term at an index agree at the index before it, and
\* so on everything before it (the consistency check and the cut in
\* HandleAppendEntries).
LogMatching ==
    \A i, j \in Server :
        \A n \in Max2(node[i].base.index, node[j].base.index) + 1
                 .. Min2(LastIndex(node[i]), LastIndex(node[j])) :
            TermAt(node[i], n) = TermAt(node[j], n) =>
                TermAt(node[i], n - 1) = TermAt(node[j], n - 1)

\* No two servers ever hand different entries to their state machines at one
\* index, whatever crashes in between (EmitCommitted).
StateMachineSafety ==
    \A a, b \in committed : a.index = b.index => a.term = b.term

\* A leader holds every entry that was committed up to its own term
\* (the up-to-date check of HandleRequestVote, MaybeAdvanceCommit).
LeaderCompleteness ==
    \A i \in Server : node[i].role = "leader" =>
        \A c \in committed : c.at <= node[i].term => Holds(node[i], c)

\* What a follower has acknowledged to the leader of its term stays in its log:
\* the leader counts match towards a majority (HandleAppendEntries,
\* HandleInstallSnapshot, Acknowledge).
AcknowledgedEntriesStay ==
    \A i \in Server : node[i].role = "leader" =>
        \A p \in Peers(i) : node[p].term = node[i].term =>
            \A k \in node[i].base.index + 1 .. node[i].match[p] :
                Holds(node[p], [index |-> k, term |-> TermAt(node[i], k)])

\* A confirmed read waits for an index at least as high as anything committed
\* anywhere when the read began (StartReadIndex and the heartbeat quorum).
ReadsAreFresh == \A r \in reads : r.index >= r.floor

\* Log compaction and InstallSnapshot only ever cover committed entries
\* (CompactTo, HandleInstallSnapshot).
SnapshotsAreCommitted ==
    \A i \in Server : node[i].base.index > 0 =>
        \E c \in committed : c.index = node[i].base.index /\ c.term = node[i].base.term

\* A server that holds an entry committed in a term it has reached never loses
\* it again (docs/raft.md "Committed entries are never truncated"; the assertion
\* of HandleAppendEntries is the local form).  A server that has not heard of
\* the term may hold such an entry by another leader's hand and give it up.
CommittedEntriesStay ==
    [][\A i \in Server : node'[i] # node[i] =>
          \A c \in committed :
              c.at <= node[i].term /\ Holds(node[i], c) => Holds(node'[i], c)]_vars

\* The term never decreases and a vote, once cast, stands for its term, restarts
\* included (PersistHardState before every message).
OneVotePerTerm ==
    [][\A i \in Server :
        \/ node'[i].term > node[i].term
        \/ /\ node'[i].term = node[i].term
           /\ node[i].votedFor # Nil => node'[i].votedFor = node[i].votedFor]_vars

=============================================================================
