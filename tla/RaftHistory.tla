---------------------------- MODULE RaftHistory -----------------------------
(***************************************************************************)
(* What the proofs about the logs of Raft speak of: who may lead, what the  *)
(* logs of leaders are like, which of them are chosen, and what a step of   *)
(* the class does to them.  Two histories that the model does not record    *)
(* are parameters: H, the set of the logs that leaders ever had, and A, the *)
(* set of acknowledgements: server p had, in term t, a log that ends in an  *)
(* entry of term t.                                                         *)
(***************************************************************************)
EXTENDS Raft

-----------------------------------------------------------------------------
(* Leaders. *)

\* The election that a leader i in record s has won, and those won before.
Won(i, s) == elected \cup Elections(i, s)

\* A message that server i in record s may send: to another server, in its own
\* term, and an append or a snapshot only if it leads.
Mine(i, s, m) ==
    /\ m.from = i /\ m.to # i /\ m.term = s.term
    /\ FromLeader(m) => s.role = "leader"

\* Server i may move to s: the leader it names was elected, and so are the senders
\* of leader messages.
Names(i, s) ==
    /\ s.leader # Nil => [term |-> s.term, server |-> s.leader] \in Won(i, s)
    /\ \A m \in s.out : Mine(i, s, m)

\* The same between two steps, with the messages in flight.
HintInv ==
    /\ LeaderHintIsElected
    /\ \A i \in Server : node[i].role = "leader" =>
          [term |-> node[i].term, server |-> i] \in elected
    /\ \A m \in msgs : /\ m.from # m.to
                       /\ FromLeader(m) => [term |-> m.term, server |-> m.from] \in elected

-----------------------------------------------------------------------------
(* Logs, as long as nothing is compacted. *)

\* The term of the last entry, 0 for the empty log.
LastOf(log) == IF log = <<>> THEN 0 ELSE log[Len(log)]

\* M begins with L.
Prefix(L, M) == Len(L) <= Len(M) /\ \A k \in 1 .. Len(L) : L[k] = M[k]

\* H is the set of the logs that leaders have had.  It holds the prefixes of its
\* members, terms grow along a log, and one leader's logs extend one another.
LogsOK(H) ==
    /\ H \subseteq Seq(Nat) \ {<<>>}
    /\ \A L \in H : \A k \in 1 .. Len(L) : SubSeq(L, 1, k) \in H /\ L[k] <= LastOf(L)
    /\ \A L, M \in H : LastOf(L) = LastOf(M) => Prefix(L, M) \/ Prefix(M, L)

\* A leader's log is one of H and the longest of its term; it offers nobody more
\* than it has.
LeaderFit(s, H) ==
    /\ s.log \in H /\ LastOf(s.log) = s.term
    /\ \A L \in H : LastOf(L) = s.term => Prefix(L, s.log)
    /\ \A p \in Server : s.next[p] <= Len(s.log) + 1

\* Every log is some leader's log, cut or not.
ServerFit(s, H) ==
    /\ s.base.index = 0 /\ s.base.term = 0
    /\ s.log # <<>> => s.log \in H
    /\ LastOf(s.log) <= s.term
    /\ s.role = "leader" => LeaderFit(s, H)

\* An append carries a piece of L, from prev on.
PieceOf(m, L) ==
    /\ LastOf(L) = m.term
    /\ m.prev + Len(m.entries) <= Len(L)
    /\ m.prevTerm = IF m.prev = 0 THEN 0 ELSE L[m.prev]
    /\ \A k \in 1 .. Len(m.entries) : m.entries[k] = L[m.prev + k]

\* An append carries a piece of a log of its term, and a success does not exceed
\* one.
MessageFit(m, H) ==
    /\ m.kind \notin {"InstallSnapshot", "InstallSnapshotResp"}
    /\ m.kind = "AppendEntries" => \E L \in H : PieceOf(m, L)
    /\ m.kind = "AppendEntriesResp" /\ m.success =>
          \E L \in H : LastOf(L) = m.term /\ m.match <= Len(L)

\* A server record whose log and messages fit.
Fits(s, H) == ServerFit(s, H) /\ \A m \in s.out : MessageFit(m, H)

\* An election is won once: its winner is no candidate of that term any more.
ElectedOnce ==
    \A e \in elected : /\ e.term <= node[e.server].term
                       /\ e.term = node[e.server].term => node[e.server].role # "candidate"

\* The invariant of the logs; H is history that the model does not record.
LogInv(H) ==
    /\ LogsOK(H) /\ ElectedOnce
    /\ \A L \in H : \E e \in elected : e.term = LastOf(L)
    /\ \A i \in Server : ServerFit(node[i], H)
    /\ \A m \in msgs : MessageFit(m, H)

\* r fits the logs G, which add to H only the log of a leader r.
Grows(H, G, r) ==
    /\ H \subseteq G /\ LogsOK(G) /\ Fits(r, G)
    /\ \A L \in G : L \in H \/ (r.role = "leader" /\ LastOf(L) = r.term /\ L = r.log)

\* No server has compacted its log or installed a snapshot.
Uncompacted == \A i \in Server : node[i].base.index = 0

-----------------------------------------------------------------------------
(* Acknowledged and chosen logs.  A log is chosen when a quorum has acknowledged
   it, and lost when a quorum can no longer do so. *)

\* A log whose last entry has term t and index n is not newer than log L.
AtLeast(L, t, n) == LastOf(L) > t \/ (LastOf(L) = t /\ Len(L) >= n)

\* Server p has acknowledged log L in the term of its last entry.
Acked(p, L, A) == \E a \in A : a.server = p /\ a.term = LastOf(L) /\ Prefix(L, a.log)

\* Server p has acknowledged n entries in term t.
Backed(A, p, t, n) == \E a \in A : a.server = p /\ a.term = t /\ n <= Len(a.log)

Chosen(L, A) ==
    \E Q \in SUBSET Server : IsQuorum(Q) /\ \A p \in Q : Acked(p, L, A)

Lost(L, A) ==
    \E Q \in SUBSET Server :
        IsQuorum(Q) /\ \A p \in Q : node[p].term > LastOf(L) /\ ~Acked(p, L, A)

\* The first n entries of the log are committed, in C, and in chosen logs of
\* terms up to t.
Settled(C, log, n, t, H, A) ==
    /\ n <= Len(log)
    /\ \A k \in 1 .. n :
          /\ \E c \in C : c.index = k /\ c.term = log[k]
          /\ \E L \in H : Chosen(L, A) /\ LastOf(L) <= t /\ k <= Len(L) /\ L[k] = log[k]

\* What server s once acknowledged is not newer than its log.
AckOK(a, s, H) ==
    /\ a.server \in Server /\ a.log \in H /\ LastOf(a.log) = a.term
    /\ a.term <= s.term /\ AtLeast(s.log, a.term, Len(a.log))

\* The leader counts only what was acknowledged.
Backs(s, A) ==
    s.role = "leader" =>
        \A p \in Server : s.match[p] # 0 => Backed(A, p, s.term, s.match[p])

\* An append carries the rest of a leader's log and what is settled of it; a
\* success was acknowledged.
MessageSafe(m, C, H, A) ==
    /\ m.kind = "AppendEntries" =>
          \E L \in H : /\ PieceOf(m, L) /\ m.prev + Len(m.entries) = Len(L)
                       /\ Settled(C, L, m.commit, m.term, H, A)
    /\ m.kind = "AppendEntriesResp" /\ m.success => Backed(A, m.from, m.term, m.match)

\* A candidate asks with the log it has.
AsksWith(m, s) ==
    /\ m.term <= s.term
    /\ m.term = s.term /\ s.role = "candidate" =>
          m.lastIndex = Len(s.log) /\ m.lastTerm = LastOf(s.log)

\* The candidate s that got vote v has nothing older than what its voter had
\* acknowledged.
Informed(v, s, A) ==
    /\ v.term <= s.term
    /\ v.term = s.term /\ s.role = "candidate" =>
          \A a \in A : a.server = v.voter /\ a.term < v.term =>
              AtLeast(s.log, a.term, Len(a.log))

\* Entry c was committed by a leader that had it in a chosen log of its own term.
Witnessed(c, H, A) ==
    \E L \in H : /\ Chosen(L, A) /\ LastOf(L) = c.at
                 /\ c.index \in 1 .. Len(L) /\ L[c.index] = c.term

\* A log of a later leader holds the log, or the log can no longer be chosen.
LaterHaveChosen(H, A) ==
    \A L, M \in H : LastOf(L) < LastOf(M) => Prefix(L, M) \/ Lost(L, A)

SafeInv(H, A) ==
    /\ \A a \in A : AckOK(a, node[a.server], H)
    /\ LaterHaveChosen(H, A)
    /\ \A v \in cast : Informed(v, node[v.for], A)
    /\ \A i \in Server : node[i].votedFor # Nil =>
          [voter |-> i, term |-> node[i].term, for |-> node[i].votedFor] \in cast
    /\ \A i \in Server :
          /\ Backs(node[i], A)
          /\ Settled(committed, node[i].log, node[i].commit, node[i].term, H, A)
    /\ \A m \in msgs : /\ MessageSafe(m, committed, H, A)
                       /\ m.kind = "RequestVote" => AsksWith(m, node[m.from])
    /\ \A c \in committed : Witnessed(c, H, A)

\* One message can carry a whole log (kMaxEntriesPerAppend).
OneMessage == \A i \in Server : Len(node[i].log) <= MaxEntries

\* The premise of the theorems: the configuration in which the code runs the
\* protocol as it is meant.
Whole == Uncompacted /\ OneMessage

-----------------------------------------------------------------------------
(* What a step does, in the terms the argument needs. *)

\* The entries of the log above index a, up to index b.
Entries(log, a, b) == {[index |-> k, term |-> log[k]] : k \in a + 1 .. b}

\* A message that promises nothing.
Plain(m) == m.kind = "RequestVoteResp" \/ (m.kind = "AppendEntriesResp" /\ ~m.success)

\* An append of leader r: the rest of its log.
Sends(r, m) ==
    /\ m.kind = "AppendEntries" /\ PieceOf(m, r.log)
    /\ m.prev + Len(m.entries) = Len(r.log) /\ m.commit <= r.commit

\* Leader r moved the commit index from n by counting.
Counted(n, r) ==
    /\ n <= r.commit /\ r.emitted = Entries(r.log, n, r.commit)
    /\ r.commit # n => /\ r.commit <= Len(r.log) /\ r.log[r.commit] = r.term
                       /\ IsQuorum({p \in Server : r.match[p] >= r.commit})

\* Where the replica counts of leader r come from.
MatchFrom(i, s, r, p) ==
    \/ r.match[p] = 0
    \/ s.role = "leader" /\ s.term = r.term /\ r.match[p] = s.match[p]
    \/ p = i /\ r.match[p] = Len(r.log)
    \/ \E m \in msgs : /\ m.kind = "AppendEntriesResp" /\ m.success /\ m.from = p
                       /\ m.term = r.term /\ m.match = r.match[p]

\* Server i, at s, goes on as the leader r.
Led(i, s, r) ==
    /\ r.role = "leader"
    /\ \/ s.role = "leader" /\ s.term = r.term /\ (r.log = s.log \/ r.log = Append(s.log, r.term))
       \/ /\ (s.role = "candidate" /\ s.term = r.term) \/ r.term > s.term
          /\ r.log = Append(s.log, r.term)
    /\ \A p \in Server : MatchFrom(i, s, r, p)
    /\ Counted(s.commit, r)
    /\ \A m \in r.out : Plain(m) \/ Sends(r, m)

\* It does not lead and leaves its log alone; a candidate asks with it.
Quiet(s, r) ==
    /\ r.role # "leader" /\ r.log = s.log /\ r.emitted = {}
    /\ r.commit = s.commit \/ r.commit = 0
    /\ \A m \in r.out : \/ Plain(m)
                        \/ /\ m.kind = "RequestVote"
                           /\ m.lastIndex = Len(r.log) /\ m.lastTerm = LastOf(r.log)

\* T is log after it accepted all of log L.
Replaced(T, log, L) ==
    Prefix(L, T) /\ (T = log \/ T = L) /\ (Prefix(L, log) => T = log)

\* It follows the leader whose log is L and whose commit index is n.
FollowedWith(s, r, L, n, H, A) ==
    /\ r.role # "leader" /\ r.role # "candidate"
    /\ LastOf(L) = r.term /\ Settled(committed, L, n, r.term, H, A)
    /\ Replaced(r.log, s.log, L)
    /\ \/ r.commit = s.commit /\ r.emitted = {}
       \/ /\ r.commit <= n /\ r.commit <= Len(r.log)
          /\ r.emitted = Entries(r.log, s.commit, r.commit)
    /\ \A m \in r.out : Plain(m) \/ (m.kind = "AppendEntriesResp" /\ m.match <= Len(L))

Followed(s, r, H, A) == \E L \in H : \E n \in Nat : FollowedWith(s, r, L, n, H, A)

\* The vote of r is the one of s, or it is for itself in a new term, or for a
\* candidate whose log is not older.
Voting(i, s, r) ==
    r.votedFor # Nil =>
        \/ r.term = s.term /\ r.votedFor = s.votedFor
        \/ r.term > s.term /\ r.votedFor = i
        \/ \E m \in msgs : /\ m.kind = "RequestVote" /\ m.from = r.votedFor /\ m.term = r.term
                           /\ \/ m.lastTerm > LastOf(s.log)
                              \/ m.lastTerm = LastOf(s.log) /\ m.lastIndex >= Len(s.log)

Effect(i, s, r, H, A) ==
    Voting(i, s, r) /\ (Led(i, s, r) \/ Quiet(s, r) \/ Followed(s, r, H, A))

=============================================================================
