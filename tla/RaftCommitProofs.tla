-------------------------- MODULE RaftCommitProofs --------------------------
(***************************************************************************)
(* Why no committed entry is lost: the part of the argument that is about   *)
(* logs, terms and quorums.  A server that appends as a leader, follows a   *)
(* leader or leaves its log alone (RaftHistory!Effect) keeps the invariant  *)
(* SafeInv, whatever function of the class made it move.  Then what the     *)
(* functions do that neither campaign nor win: each has such an effect.     *)
(***************************************************************************)
EXTENDS RaftProofs

-----------------------------------------------------------------------------
(* Chosen and settled logs. *)

\* Zenon proves the leaves that name no other prover.
USE ZenonT(30)

\* A log cannot be both chosen and lost: two majorities share a server.
LEMMA NotLost ==
    ASSUME NEW L, NEW A, Chosen(L, A)
    PROVE  ~Lost(L, A)
  <1> SUFFICES ASSUME Lost(L, A) PROVE FALSE
    OBVIOUS
  <1>1. PICK P \in SUBSET Server : IsQuorum(P) /\ \A p \in P : Acked(p, L, A)
    BY DEF Chosen
  <1>2. PICK Q \in SUBSET Server : IsQuorum(Q) /\ \A p \in Q : ~Acked(p, L, A)
    BY DEF Lost
  <1>3. P \cap Q # {}
    BY <1>1, <1>2, QuorumsMeet
  <1> QED
    BY <1>1, <1>2, <1>3

\* What is chosen stays chosen.
LEMMA StillChosen ==
    ASSUME NEW L, NEW A, NEW B, A \subseteq B, Chosen(L, A)
    PROVE  Chosen(L, B)
  BY DEF Chosen, Acked

\* A chosen log and a log of the same or a later term: it begins with the chosen
\* one, or is a beginning of it in the same term.
LEMMA ChosenOrder ==
    ASSUME NEW H, NEW A, LogsOK(H), LaterHaveChosen(H, A), NEW L \in H, Chosen(L, A), NEW M \in H,
           LastOf(L) <= LastOf(M)
    PROVE  Prefix(L, M) \/ (LastOf(L) = LastOf(M) /\ Prefix(M, L))
  <1>1. LastOf(L) \in Nat /\ LastOf(M) \in Nat
    BY SMTT(30) DEF LogsOK, LastOf
  <1>2. CASE LastOf(L) = LastOf(M)
    BY <1>2 DEF LogsOK
  <1>3. CASE LastOf(L) < LastOf(M)
    <2>1. ~Lost(L, A)
      BY NotLost
    <2> QED
      BY <1>3, <2>1 DEF LaterHaveChosen
  <1> QED
    BY <1>1, <1>2, <1>3, SMTT(30)

\* An entry of a chosen log survives an append of the same or a later term.
LEMMA KeptEntry ==
    ASSUME NEW H, NEW A, LogsOK(H), LaterHaveChosen(H, A), NEW log \in H, NEW L \in H, NEW T,
           Replaced(T, log, L), NEW K \in H, Chosen(K, A), LastOf(K) <= LastOf(L),
           NEW k \in 1 .. Len(K), k <= Len(log), log[k] = K[k]
    PROVE  k <= Len(T) /\ T[k] = log[k]
  <1>0. /\ log \in Seq(Nat) /\ L \in Seq(Nat) /\ K \in Seq(Nat)
        /\ Len(log) \in Nat /\ Len(L) \in Nat /\ Len(K) \in Nat
    <2>1. log \in Seq(Nat) /\ L \in Seq(Nat) /\ K \in Seq(Nat)
      BY DEF LogsOK
    <2> QED
      BY <2>1, SMTT(30)
  <1>1. CASE T = log
    BY <1>1
  <1>2. CASE T # log
    <2>1. T = L /\ ~Prefix(L, log)
      BY <1>2 DEF Replaced
    <2>2. Prefix(K, L) \/ Prefix(L, K)
      BY ChosenOrder
    <2>3. k <= Len(L)
      <3> SUFFICES ASSUME ~(k <= Len(L)) PROVE FALSE
        OBVIOUS
      <3>1. Prefix(L, K)
        BY <1>0, <2>2, SMTT(30) DEF Prefix
      <3>2. \A x \in 1 .. k : log[x] = K[x]
        <4>1. k \in Nat /\ k <= Len(K) /\ k # 0
          BY <1>0, SMTT(30)
        <4> QED
          BY <4>1, AgreeBelow
      <3>3. Prefix(L, log)
        BY <1>0, <3>1, <3>2, SMTT(30) DEF Prefix
      <3> QED
        BY <2>1, <3>3
    <2>4. L[k] = K[k]
      BY <1>0, <2>2, <2>3, SMTT(30) DEF Prefix
    <2> QED
      BY <2>1, <2>3, <2>4
  <1> QED
    BY <1>1, <1>2

\* What is settled stays settled while the histories grow.
LEMMA SettledGrows ==
    ASSUME NEW C, NEW D, C \subseteq D, NEW H, NEW G, H \subseteq G, NEW A, NEW B, A \subseteq B,
           NEW log, NEW n \in Nat, NEW t \in Nat, NEW u \in Nat, t <= u, LogsOK(H),
           Settled(C, log, n, t, H, A)
    PROVE  Settled(D, log, n, u, G, B)
  <1>1. n <= Len(log)
    BY DEF Settled
  <1>2. ASSUME NEW k \in 1 .. n
        PROVE  /\ \E c \in D : c.index = k /\ c.term = log[k]
               /\ \E L \in G : Chosen(L, B) /\ LastOf(L) <= u /\ k <= Len(L) /\ L[k] = log[k]
    <2>1. \E c \in C : c.index = k /\ c.term = log[k]
      BY DEF Settled
    <2>2. PICK L \in H : Chosen(L, A) /\ LastOf(L) <= t /\ k <= Len(L) /\ L[k] = log[k]
      BY DEF Settled
    <2>3. LastOf(L) <= u
      <3>1. LastOf(L) \in Nat
        BY SMTT(30) DEF LogsOK, LastOf
      <3> QED
        BY <2>2, <3>1, SMTT(30)
    <2>4. Chosen(L, B)
      BY <2>2, StillChosen
    <2> QED
      BY <2>1, <2>2, <2>3, <2>4
  <1> QED
    BY <1>1, <1>2 DEF Settled

\* It depends on the entries only, and less of it is settled, too.
LEMMA SettledBelow ==
    ASSUME NEW C, NEW H, NEW A, NEW t, NEW log, NEW n \in Nat, Settled(C, log, n, t, H, A),
           NEW T, NEW k \in Nat, k <= n, k <= Len(T), \A x \in 1 .. k : T[x] = log[x]
    PROVE  Settled(C, T, k, t, H, A)
  <1>1. ASSUME NEW x \in 1 .. k
        PROVE  /\ \E c \in C : c.index = x /\ c.term = T[x]
               /\ \E L \in H : Chosen(L, A) /\ LastOf(L) <= t /\ x <= Len(L) /\ L[x] = T[x]
    <2>1. x \in 1 .. n /\ T[x] = log[x]
      BY SMTT(30)
    <2> QED
      BY <2>1 DEF Settled
  <1> QED
    BY <1>1 DEF Settled

\* Nothing is settled, at the start and after a restart.
LEMMA NothingSettled ==
    ASSUME NEW C, NEW H, NEW A, NEW t, NEW log \in Seq(Nat)
    PROVE  Settled(C, log, 0, t, H, A)
  BY SMTT(30) DEF Settled

\* What is settled survives an append of the same or a later term.
LEMMA SettledKept ==
    ASSUME NEW H, NEW A, NEW C, LogsOK(H), LaterHaveChosen(H, A), NEW log \in Seq(Nat),
           log # <<>> => log \in H, NEW L \in H, NEW T, Replaced(T, log, L), NEW n \in Nat, NEW t \in Nat,
           t <= LastOf(L), Settled(C, log, n, t, H, A)
    PROVE  Settled(C, T, n, t, H, A)
  <1>1. n <= Len(log) /\ Len(log) \in Nat /\ T \in Seq(Nat)
    BY SMTT(30) DEF Settled, Replaced, LogsOK
  <1>2. ASSUME NEW k \in 1 .. n PROVE k <= Len(T) /\ T[k] = log[k]
    <2>1. PICK K \in H : Chosen(K, A) /\ LastOf(K) <= t /\ k <= Len(K) /\ K[k] = log[k]
      BY DEF Settled
    <2>2. K \in Seq(Nat) /\ L \in Seq(Nat)
      BY DEF LogsOK
    <2>5. LastOf(K) \in Nat /\ LastOf(L) \in Nat /\ Len(K) \in Nat
      BY <2>2, LastOfType, SMTT(30)
    <2>3. LastOf(K) <= LastOf(L) /\ k \in 1 .. Len(K) /\ k <= Len(log)
      BY <1>1, <2>1, <2>5, SMTT(30)
    <2>4. log \in H
      BY <1>1, SMTT(30)
    <2> QED
      BY <2>1, <2>3, <2>4, KeptEntry, SMTT(30)
  <1>3. n <= Len(T)
    <2>1. CASE n = 0
      BY <1>1, <2>1, SMTT(30)
    <2>2. CASE n # 0
      <3>1. n \in 1 .. n
        BY <2>2, SMTT(30)
      <3> QED
        BY <1>2, <3>1
    <2> QED
      BY <2>1, <2>2
  <1>4. n <= n /\ \A k \in 1 .. n : T[k] = log[k]
    BY <1>2, SMTT(30)
  <1> QED
    BY <1>3, <1>4, SettledBelow

-----------------------------------------------------------------------------
(* A step keeps the invariant. *)

\* What the record r of server i acknowledges.
Acks(i, r) ==
    IF r.log # <<>> /\ LastOf(r.log) = r.term
    THEN {[server |-> i, term |-> r.term, log |-> r.log]}
    ELSE {}

\* Server i moves to r; the logs of leaders become G.
Moved(i, r, H, G, A) ==
    /\ IInv /\ HintInv /\ LogInv(H) /\ SafeInv(H, A)
    /\ Allowed(i, r) /\ Names(i, r) /\ Grows(H, G, r) /\ Effect(i, node[i], r, H, A)
    /\ r.role = "candidate" /\ r.term = node[i].term => node[i].role = "candidate"

\* The state after r was drained.
After(i, r) ==
    /\ \A j \in Server : j # i => node'[j] = node[j]
    /\ node'[i].term = r.term /\ node'[i].role = r.role /\ node'[i].log = r.log
    /\ node'[i].commit = r.commit /\ node'[i].match = r.match /\ node'[i].votedFor = r.votedFor
    /\ \A m \in msgs' : m \in msgs \/ m \in r.out
    /\ cast' = cast \cup Votes(i, r) /\ committed' = committed \cup Emissions(r)

\* The types and the order of what the argument speaks about.
Based(s, r, H, G) ==
    /\ LogsOK(H) /\ LogsOK(G) /\ H \subseteq G
    /\ s \in ServerState /\ r \in ServerState
    /\ s.term \in Nat /\ r.term \in Nat /\ s.term <= r.term
    /\ s.commit \in Nat /\ r.commit \in Nat
    /\ s.log \in Seq(Nat) /\ r.log \in Seq(Nat) /\ Len(s.log) \in Nat /\ Len(r.log) \in Nat
    /\ LastOf(s.log) \in Nat /\ LastOf(r.log) \in Nat
    /\ LastOf(s.log) <= s.term /\ LastOf(r.log) <= r.term
    /\ s.log # <<>> => s.log \in H
    /\ r.log # <<>> => r.log \in G
    /\ s.role = "leader" => LeaderFit(s, H)
    /\ r.role = "leader" => LeaderFit(r, G)
    /\ r.role # "leader" => G = H

\* The types and bounds that a server has before and after it moves.
LEMMA MovedBased ==
    ASSUME NEW i \in Server, NEW r, NEW H, NEW G, NEW A, Moved(i, r, H, G, A)
    PROVE  Based(node[i], r, H, G)
  <1>1. node[i] \in ServerState /\ r \in ServerState
    BY Standing DEF Moved, Allowed
  <1>2. /\ node[i].term \in Nat /\ r.term \in Nat /\ node[i].commit \in Nat /\ r.commit \in Nat
        /\ node[i].log \in Seq(Nat) /\ r.log \in Seq(Nat)
        /\ Len(node[i].log) \in Nat /\ Len(r.log) \in Nat
        /\ LastOf(node[i].log) \in Nat /\ LastOf(r.log) \in Nat
    BY <1>1, Fields, LastOfType
  <1>3. node[i].term <= r.term
    BY <1>2, SMTT(30) DEF Moved, Allowed, Forward
  <1>4. LogsOK(H) /\ LogsOK(G) /\ H \subseteq G /\ ServerFit(node[i], H) /\ ServerFit(r, G)
    BY DEF Moved, LogInv, Grows, Fits
  <1>5. r.role # "leader" => G = H
    <2>1. r.role # "leader" => \A L \in G : L \in H
      BY DEF Moved, Grows
    <2> QED
      BY <1>4, <2>1
  <1> QED
    BY <1>1, <1>2, <1>3, <1>4, <1>5 DEF Based, ServerFit

\* A server's log never gets older than it was.
LEMMA KeepsUp ==
    ASSUME NEW i \in Server, NEW r, NEW H, NEW G, NEW A, Moved(i, r, H, G, A),
           NEW t \in Nat, NEW n \in Nat, t <= node[i].term, AtLeast(node[i].log, t, n)
    PROVE  AtLeast(r.log, t, n)
  <1> DEFINE s == node[i]
  <1>1. Based(s, r, H, G)
    BY MovedBased
  <1>2. /\ s.term \in Nat /\ r.term \in Nat /\ s.term <= r.term /\ LogsOK(H)
        /\ s.log \in Seq(Nat) /\ r.log \in Seq(Nat) /\ Len(s.log) \in Nat /\ Len(r.log) \in Nat
        /\ LastOf(s.log) \in Nat /\ LastOf(r.log) \in Nat /\ LastOf(s.log) <= s.term
        /\ s.log # <<>> => s.log \in H
        /\ r.role = "leader" => LeaderFit(r, G)
    BY <1>1 DEF Based
  <1>3. Led(i, s, r) \/ Quiet(s, r) \/ Followed(s, r, H, A)
    BY DEF Moved, Effect
  <1>4. t <= s.term /\ AtLeast(s.log, t, n)
    OBVIOUS
  <1> HIDE DEF s
  <1>5. CASE r.log = s.log
    BY <1>4, <1>5
  <1>6. CASE r.log # s.log /\ Led(i, s, r)
    <2>1. r.log = Append(s.log, r.term) /\ r.role = "leader"
      BY <1>6 DEF Led
    <2>2. LastOf(r.log) = r.term
      BY <1>2, <2>1 DEF LeaderFit
    <2>3. Len(r.log) = Len(s.log) + 1
      BY <1>2, <2>1, SMTT(30)
    <2> QED
      BY <1>2, <1>4, <2>2, <2>3, SMTT(30) DEF AtLeast
  <1>7. CASE r.log # s.log /\ Followed(s, r, H, A)
    <2>1. PICK L \in H : \E k \in Nat : FollowedWith(s, r, L, k, H, A)
      BY <1>7 DEF Followed
    <2>2. LastOf(L) = r.term /\ Replaced(r.log, s.log, L)
      BY <2>1 DEF FollowedWith
    <2>3. r.log = L /\ ~Prefix(L, s.log)
      BY <1>7, <2>2 DEF Replaced
    <2>4. CASE r.term > t
      BY <2>2, <2>3, <2>4 DEF AtLeast
    <2>5. CASE r.term = t
      <3>1. s.term = t /\ LastOf(s.log) = t /\ n <= Len(s.log)
        BY <1>2, <1>4, <2>5, SMTT(30) DEF AtLeast
      <3>2. CASE s.log = <<>>
        <4>1. n = 0
          BY <3>1, <3>2, SMTT(30)
        <4> QED
          BY <1>2, <2>2, <2>3, <2>5, <4>1, SMTT(30) DEF AtLeast
      <3>3. CASE s.log # <<>>
        <4>1. Prefix(s.log, L)
          BY <1>2, <2>2, <2>3, <2>5, <3>1, <3>3 DEF LogsOK
        <4>2. n <= Len(r.log)
          BY <1>2, <2>3, <3>1, <4>1, SMTT(30) DEF Prefix
        <4> QED
          BY <1>2, <2>2, <2>3, <2>5, <4>2 DEF AtLeast
      <3> QED
        BY <3>2, <3>3
    <2> QED
      BY <1>2, <1>4, <2>4, <2>5, SMTT(30)
  <1> QED
    BY <1>3, <1>5, <1>6, <1>7 DEF Quiet

\* What was acknowledged stays so, and r acknowledges its own log.
LEMMA AcksKept ==
    ASSUME NEW i \in Server, NEW r, NEW H, NEW G, NEW A, Moved(i, r, H, G, A), After(i, r),
           NEW a \in A \cup Acks(i, r)
    PROVE  AckOK(a, node'[a.server], G)
  <1>1. Based(node[i], r, H, G)
    BY MovedBased
  <1>2. /\ node[i].term \in Nat /\ r.term \in Nat /\ node[i].term <= r.term /\ H \subseteq G
        /\ LogsOK(H) /\ Len(r.log) \in Nat /\ (r.log # <<>> => r.log \in G)
    BY <1>1 DEF Based
  <1>3. node'[i].term = r.term /\ node'[i].log = r.log /\ \A j \in Server : j # i => node'[j] = node[j]
    BY DEF After
  <1>4. CASE a \in Acks(i, r)
    <2>1. /\ a.server = i /\ a.term = r.term /\ a.log = r.log
          /\ r.log # <<>> /\ LastOf(r.log) = r.term
      BY <1>4, SMTT(30) DEF Acks
    <2> QED
      BY <1>2, <1>3, <2>1, SMTT(30) DEF AckOK, AtLeast
  <1>5. CASE a \in A
    <2>1. AckOK(a, node[a.server], H)
      BY <1>5 DEF Moved, SafeInv
    <2>2. CASE a.server # i
      BY <1>2, <1>3, <2>1, <2>2 DEF AckOK
    <2>3. CASE a.server = i
      <3>1. /\ a.log \in H /\ LastOf(a.log) = a.term /\ a.term <= node[i].term
            /\ AtLeast(node[i].log, a.term, Len(a.log))
        BY <2>1, <2>3 DEF AckOK
      <3>2. a.term \in Nat /\ Len(a.log) \in Nat
        BY <1>2, <3>1, LastOfType, SMTT(30) DEF LogsOK
      <3>3. AtLeast(r.log, a.term, Len(a.log))
        BY <3>1, <3>2, KeepsUp
      <3>4. a.term <= r.term
        BY <1>2, <3>1, <3>2, SMTT(30)
      <3> QED
        BY <1>2, <1>3, <2>3, <3>1, <3>3, <3>4 DEF AckOK
    <2> QED
      BY <2>2, <2>3
  <1> QED
    BY <1>4, <1>5

\* A term never decreases.
LEMMA TermsGrow ==
    ASSUME NEW i \in Server, NEW r, NEW H, NEW G, NEW A, Moved(i, r, H, G, A), After(i, r),
           NEW p \in Server
    PROVE  node[p].term \in Nat /\ node'[p].term \in Nat /\ node[p].term <= node'[p].term
  <1>1. Based(node[i], r, H, G)
    BY MovedBased
  <1>2. node[i].term \in Nat /\ r.term \in Nat /\ node[i].term <= r.term
    BY <1>1 DEF Based
  <1>3. node[p].term \in Nat
    BY Standing, Fields DEF Moved
  <1> QED
    BY <1>2, <1>3, SMTT(30) DEF After

\* Who has left the term of a log without acknowledging it never does.
LEMMA NeverAcked ==
    ASSUME NEW i \in Server, NEW r, NEW H, NEW G, NEW A, Moved(i, r, H, G, A), After(i, r),
           NEW p \in Server, NEW L, LastOf(L) \in Nat, node[p].term > LastOf(L), ~Acked(p, L, A)
    PROVE  node'[p].term > LastOf(L) /\ ~Acked(p, L, A \cup Acks(i, r))
  <1>1. node[p].term \in Nat /\ node'[p].term \in Nat /\ node[p].term <= node'[p].term
    BY TermsGrow
  <1>2. \A a \in Acks(i, r) : a.server = i /\ a.term = r.term
    BY SMTT(30) DEF Acks
  <1>3. node'[i].term = r.term
    BY DEF After
  <1>4. \A a \in Acks(i, r) : a.server = p => a.term # LastOf(L)
    BY <1>1, <1>2, <1>3, SMTT(30)
  <1> QED
    BY <1>1, <1>4, SMTT(30) DEF Acked

\* What is lost stays lost.
LEMMA LostStays ==
    ASSUME NEW i \in Server, NEW r, NEW H, NEW G, NEW A, Moved(i, r, H, G, A), After(i, r),
           NEW L, LastOf(L) \in Nat, Lost(L, A)
    PROVE  Lost(L, A \cup Acks(i, r))'
  <1>1. PICK Q \in SUBSET Server :
          IsQuorum(Q) /\ \A p \in Q : node[p].term > LastOf(L) /\ ~Acked(p, L, A)
    BY DEF Lost
  <1>2. ASSUME NEW p \in Q
        PROVE  node'[p].term > LastOf(L) /\ ~Acked(p, L, A \cup Acks(i, r))
    BY <1>1, NeverAcked
  <1> QED
    BY <1>1, <1>2 DEF Lost, Acked, IsQuorum, Acks

\* A log that a leader adds while a later one has been elected is lost already: the
\* voters of the later one have left its term.
LEMMA LateLogLost ==
    ASSUME NEW i \in Server, NEW r, NEW H, NEW G, NEW A, Moved(i, r, H, G, A), After(i, r),
           NEW L \in G, L \notin H, NEW M \in H, LastOf(L) < LastOf(M)
    PROVE  Lost(L, A \cup Acks(i, r))'
  <1>1. Based(node[i], r, H, G)
    BY MovedBased
  <1>2. /\ LogsOK(H) /\ LogsOK(G) /\ node[i].term \in Nat /\ r.term \in Nat /\ node[i].term <= r.term
        /\ LastOf(L) = r.term
    BY <1>1 DEF Based, Moved, Grows
  <1>3. PICK e \in elected : e.term = LastOf(M)
    BY DEF Moved, LogInv
  <1>4. PICK Q \in SUBSET Server :
          IsQuorum(Q) /\ \A j \in Q : [voter |-> j, term |-> e.term, for |-> e.server] \in cast
    BY DEF Moved, IInv, ElectedByQuorum
  <1>5. LastOf(M) \in Nat
    BY <1>2, LastOfType DEF LogsOK
  <1>6. ASSUME NEW p \in Q PROVE node[p].term > LastOf(L) /\ ~Acked(p, L, A)
    <2> DEFINE v == [voter |-> p, term |-> e.term, for |-> e.server]
    <2>1. v \in cast /\ v.voter = p /\ v.term = LastOf(M)
      BY <1>3, <1>4
    <2> HIDE DEF v
    <2>2. node[p].term \in Nat /\ LastOf(M) <= node[p].term
      <3>1. node[p].term \in Nat
        BY Standing, Fields DEF Moved
      <3>2. LastOf(M) < node[p].term \/ LastOf(M) = node[p].term
        BY <2>1 DEF Moved, IInv, CastStands
      <3> QED
        BY <1>5, <3>1, <3>2, SMTT(30)
    <2>3. ~Acked(p, L, A)
      <3> SUFFICES ASSUME NEW a \in A, Prefix(L, a.log) PROVE FALSE
        BY DEF Acked
      <3>1. a.log \in H
        BY DEF Moved, SafeInv, AckOK
      <3>2. L \in Seq(Nat) /\ L # <<>>
        BY <1>2 DEF LogsOK
      <3> QED
        BY <1>2, <3>1, <3>2, BeginningIn
    <2> QED
      BY <1>2, <1>5, <2>2, <2>3, SMTT(30)
  <1>7. LastOf(L) \in Nat
    BY <1>2
  <1>8. Lost(L, A)
    BY <1>4, <1>6 DEF Lost
  <1> QED
    BY <1>7, <1>8, LostStays

\* Every voter of a new leader had nothing newer than the leader's log.
LEMMA VotersInformed ==
    ASSUME NEW i \in Server, NEW r, NEW H, NEW G, NEW A, Moved(i, r, H, G, A), NEW j \in r.votes,
           (node[i].role = "candidate" /\ node[i].term = r.term) \/ r.term > node[i].term,
           NEW a \in A, a.server = j, a.term < r.term
    PROVE  AtLeast(node[i].log, a.term, Len(a.log))
  <1> DEFINE v == [voter |-> j, term |-> r.term, for |-> i]
  <1>1. v \in cast \cup Votes(i, r) /\ v.voter = j /\ v.term = r.term /\ v.for = i
    BY DEF Moved, Allowed
  <1> HIDE DEF v
  <1>2. node[i].term \in Nat /\ r.term \in Nat
    <2>1. Based(node[i], r, H, G)
      BY MovedBased
    <2> QED
      BY <2>1 DEF Based
  <1>3. CASE v \in cast
    <2>1. Informed(v, node[i], A)
      BY <1>1, <1>3 DEF Moved, SafeInv
    <2>2. r.term <= node[i].term
      BY <1>1, <2>1 DEF Informed
    <2>3. r.term = node[i].term /\ node[i].role = "candidate"
      BY <1>2, <2>2, SMTT(30)
    <2> QED
      BY <1>1, <2>1, <2>3 DEF Informed
  <1>4. CASE v \in Votes(i, r)
    <2>1. v.voter = i
      BY <1>4, SMTT(30) DEF Votes
    <2> QED
      BY <1>1, <2>1 DEF Moved, SafeInv, AckOK
  <1> QED
    BY <1>1, <1>3, <1>4

\* A new leader's log begins with every earlier log that may still be chosen.
LEMMA WinnerHasChosen ==
    ASSUME NEW i \in Server, NEW r, NEW H, NEW G, NEW A, Moved(i, r, H, G, A), After(i, r), IInv',
           r.role = "leader", r.log = Append(node[i].log, r.term),
           (node[i].role = "candidate" /\ node[i].term = r.term) \/ r.term > node[i].term,
           NEW L \in H, LastOf(L) < r.term
    PROVE  Prefix(L, node[i].log) \/ Lost(L, A \cup Acks(i, r))'
  <1> DEFINE s == node[i]
             B == A \cup Acks(i, r)
  <1>1. Based(s, r, H, G)
    BY MovedBased
  <1>2. /\ LogsOK(H) /\ r.term \in Nat /\ s.log \in Seq(Nat) /\ Len(s.log) \in Nat
        /\ LastOf(s.log) \in Nat /\ (s.log # <<>> => s.log \in H)
    BY <1>1 DEF Based
  <1>3. LastOf(L) \in Nat /\ L \in Seq(Nat) /\ Len(L) \in Nat /\ Len(L) # 0
    BY <1>2, LastOfType, SMTT(30) DEF LogsOK
  <1>4. IsQuorum(r.votes) /\ r.votes \in SUBSET Server
    BY <1>1, Fields DEF Moved, Allowed, Based
  <1>5. \A a \in Acks(i, r) : a.term = r.term
    BY SMTT(30) DEF Acks
  <1>6. CASE \A j \in r.votes : ~Acked(j, L, B)
    <2>1. ASSUME NEW j \in r.votes PROVE node'[j].term > LastOf(L)
      <3> DEFINE v == [voter |-> j, term |-> r.term, for |-> i]
      <3>1. v \in cast' /\ v.voter = j /\ v.term = r.term
        BY DEF Moved, Allowed, After
      <3> HIDE DEF v
      <3>2. r.term < node'[j].term \/ r.term = node'[j].term
        BY <3>1 DEF IInv, CastStands
      <3>3. node'[j].term \in Nat
        BY <1>4, TermsGrow
      <3> QED
        BY <1>2, <1>3, <3>2, <3>3, SMTT(30)
    <2>2. Lost(L, B)'
      BY <1>4, <1>6, <2>1 DEF Lost, Acked, IsQuorum, Acks
    <2> QED
      BY <2>2
  <1>7. CASE \E j \in r.votes : Acked(j, L, B)
    <2>1. PICK j \in r.votes : Acked(j, L, B)
      BY <1>7
    <2>2. PICK a \in B : a.server = j /\ a.term = LastOf(L) /\ Prefix(L, a.log)
      BY <2>1 DEF Acked
    <2>3. a \in A /\ a.term < r.term
      BY <1>2, <1>3, <1>5, <2>2, SMTT(30)
    <2>4. AtLeast(s.log, LastOf(L), Len(a.log))
      BY <2>2, <2>3, VotersInformed
    <2>5. Len(a.log) \in Nat /\ Len(L) <= Len(a.log)
      <3>1. a.log \in H
        BY <2>3 DEF Moved, SafeInv, AckOK
      <3> QED
        BY <1>2, <2>2, <3>1, SMTT(30) DEF LogsOK, Prefix
    <2> HIDE DEF s
    <2>6. CASE LastOf(s.log) = LastOf(L) /\ Len(s.log) >= Len(a.log)
      <3>1. s.log \in H /\ Len(L) <= Len(s.log)
        BY <1>2, <1>3, <2>5, <2>6, SMTT(30)
      <3>2. Prefix(L, s.log) \/ Prefix(s.log, L)
        BY <1>2, <2>6, <3>1 DEF LogsOK
      <3>3. Prefix(L, s.log)
        BY <1>2, <1>3, <3>1, <3>2, SMTT(30) DEF Prefix
      <3> QED
        BY <3>3 DEF s
    <2>7. CASE LastOf(s.log) > LastOf(L)
      <3>1. s.log \in H
        BY <1>2, <1>3, <2>7, SMTT(30) DEF LastOf
      <3>2. LastOf(L) < LastOf(s.log)
        BY <1>2, <1>3, <2>7
      <3>3. Prefix(L, s.log) \/ Lost(L, A)
        BY <3>1, <3>2 DEF Moved, SafeInv, LaterHaveChosen
      <3>4. Lost(L, A) => Lost(L, B)'
        BY <1>3, LostStays
      <3> QED
        BY <3>3, <3>4 DEF s
    <2> QED
      BY <2>4, <2>6, <2>7 DEF AtLeast
  <1> QED
    BY <1>6, <1>7

\* Later leaders have what is chosen, with the log that the step adds.
LEMMA LaterKept ==
    ASSUME NEW i \in Server, NEW r, NEW H, NEW G, NEW A, Moved(i, r, H, G, A), After(i, r), IInv'
    PROVE  LaterHaveChosen(G, A \cup Acks(i, r))'
  <1> DEFINE s == node[i]
             B == A \cup Acks(i, r)
  <1>1. Based(s, r, H, G)
    BY MovedBased
  <1>2. /\ LogsOK(H) /\ LogsOK(G) /\ s.log \in Seq(Nat) /\ r.term \in Nat
        /\ s.role = "leader" => LeaderFit(s, H)
    BY <1>1 DEF Based
  <1>3. ASSUME NEW L \in G, NEW M \in G, LastOf(L) < LastOf(M)
        PROVE  Prefix(L, M) \/ Lost(L, B)'
    <2>0. LastOf(L) \in Nat /\ L \in Seq(Nat)
      BY <1>2, LastOfType DEF LogsOK
    <2>1. \A N \in G : N \in H \/ (r.role = "leader" /\ LastOf(N) = r.term /\ N = r.log)
      BY DEF Moved, Grows
    <2>a. ASSUME NEW N \in H, LastOf(L) < LastOf(N), L \in H
          PROVE  Prefix(L, N) \/ Lost(L, B)'
      <3>1. Prefix(L, N) \/ Lost(L, A)
        BY <2>a DEF Moved, SafeInv, LaterHaveChosen
      <3>2. Lost(L, A) => Lost(L, B)'
        BY <2>0, LostStays
      <3> QED
        BY <3>1, <3>2
    <2>2. CASE L \in H /\ M \in H
      BY <1>3, <2>2, <2>a
    <2>3. CASE L \notin H
      <3>1. LastOf(L) = r.term
        BY <2>1, <2>3
      <3>2. M \in H
        BY <1>2, <1>3, <2>1, <3>1, SMTT(30)
      <3> QED
        BY <1>3, <2>3, <3>2, LateLogLost
    <2>4. CASE L \in H /\ M \notin H
      <3>1. r.role = "leader" /\ M = r.log /\ LastOf(M) = r.term
        BY <2>1, <2>4
      <3>2. Led(i, s, r)
        BY <3>1 DEF Moved, Effect, Quiet, Followed, FollowedWith
      <3>3. Prefix(L, s.log) \/ Lost(L, B)'
        <4>1. CASE s.role = "leader" /\ s.term = r.term
          <5>1. s.log \in H /\ LastOf(s.log) = r.term
            BY <1>2, <4>1 DEF LeaderFit
          <5> QED
            BY <1>3, <2>4, <2>a, <3>1, <5>1
        <4>2. CASE ~(s.role = "leader" /\ s.term = r.term)
          <5>1. /\ (s.role = "candidate" /\ s.term = r.term) \/ r.term > s.term
                /\ r.log = Append(s.log, r.term)
            BY <3>2, <4>2 DEF Led
          <5> QED
            BY <1>3, <2>4, <3>1, <5>1, WinnerHasChosen
        <4> QED
          BY <4>1, <4>2
      <3>4. Prefix(L, s.log) => Prefix(L, r.log)
        <4>1. r.log = s.log \/ r.log = Append(s.log, r.term)
          BY <3>2 DEF Led
        <4> HIDE DEF s
        <4>2. s.log \in Seq(Nat) /\ r.term \in Nat /\ Len(s.log) \in Nat /\ Len(L) \in Nat
          BY <1>2, <2>0, SMTT(30)
        <4>3. /\ Len(Append(s.log, r.term)) = Len(s.log) + 1
              /\ \A k \in 1 .. Len(s.log) : Append(s.log, r.term)[k] = s.log[k]
          BY <4>2, AfterAppend
        <4>4. Prefix(L, s.log) => Prefix(L, Append(s.log, r.term))
          BY <4>2, <4>3, SMTT(30) DEF Prefix
        <4> QED
          BY <4>1, <4>4
      <3> QED
        BY <3>1, <3>3, <3>4
    <2> QED
      BY <2>2, <2>3, <2>4
  <1> QED
    BY <1>3 DEF LaterHaveChosen

\* A vote that was cast before the step.
LEMMA OldVoteInformed ==
    ASSUME NEW i \in Server, NEW r, NEW H, NEW G, NEW A, Moved(i, r, H, G, A), After(i, r),
           NEW v \in cast
    PROVE  Informed(v, node'[v.for], A \cup Acks(i, r))
  <1>1. Based(node[i], r, H, G)
    BY MovedBased
  <1>2. node[i].term \in Nat /\ r.term \in Nat /\ node[i].term <= r.term
    BY <1>1 DEF Based
  <1>3. v.voter \in Server /\ v.for \in Server /\ v.term \in Nat
    BY DEF Moved, IInv, TypeOK
  <1>4. Informed(v, node[v.for], A)
    BY DEF Moved, SafeInv
  <1>5. \A a \in A \cup Acks(i, r) : a.server = v.voter /\ a.term < v.term => a \in A
    <2> SUFFICES ASSUME v.voter = i, r.term < v.term PROVE FALSE
      BY SMTT(30) DEF Acks
    <2>1. v.term < node[i].term \/ v.term = node[i].term
      BY DEF Moved, IInv, CastStands
    <2> QED
      BY <1>2, <1>3, <2>1, SMTT(30)
  <1>6. CASE v.for # i
    <2>1. node'[v.for] = node[v.for]
      BY <1>3, <1>6 DEF After
    <2> QED
      BY <1>4, <1>5, <2>1 DEF Informed
  <1>7. CASE v.for = i
    <2>1. node'[i].term = r.term /\ node'[i].role = r.role /\ node'[i].log = r.log
      BY DEF After
    <2>2. v.term <= r.term
      BY <1>2, <1>3, <1>4, <1>7, SMTT(30) DEF Informed
    <2>3. CASE v.term = r.term /\ r.role = "candidate"
      <3>1. r.term = node[i].term
        BY <1>2, <1>3, <1>4, <1>7, <2>3, SMTT(30) DEF Informed
      <3>2. node[i].role = "candidate" /\ r.log = node[i].log
        BY <2>3, <3>1 DEF Moved, Effect, Led, Followed, FollowedWith, Quiet
      <3> QED
        BY <1>4, <1>5, <1>7, <2>1, <2>2, <3>1, <3>2 DEF Informed
    <2>4. CASE ~(v.term = r.term /\ r.role = "candidate")
      BY <1>7, <2>1, <2>2, <2>4 DEF Informed
    <2> QED
      BY <2>3, <2>4
  <1> QED
    BY <1>6, <1>7

\* The vote that the step casts, for another server.
LEMMA NewVoteInformed ==
    ASSUME NEW i \in Server, NEW r, NEW H, NEW G, NEW A, Moved(i, r, H, G, A), After(i, r),
           r.votedFor \in Server, r.votedFor # i, NEW m \in msgs,
           m.kind = "RequestVote", m.from = r.votedFor, m.term = r.term,
           \/ m.lastTerm > LastOf(node[i].log)
           \/ m.lastTerm = LastOf(node[i].log) /\ m.lastIndex >= Len(node[i].log),
           NEW v, v.voter = i, v.term = r.term, v.for = r.votedFor
    PROVE  Informed(v, node'[v.for], A \cup Acks(i, r))
  <1> DEFINE s == node[i]
             q == node[r.votedFor]
  <1>1. Based(s, r, H, G)
    BY MovedBased
  <1>2. r.term \in Nat /\ LastOf(s.log) \in Nat /\ Len(s.log) \in Nat /\ LogsOK(H)
    BY <1>1 DEF Based
  <1>3. node'[v.for] = q
    BY DEF After
  <1>4. AsksWith(m, q)
    BY DEF Moved, SafeInv
  <1>5. \A a \in A : AckOK(a, node[a.server], H)
    BY DEF Moved, SafeInv
  <1>6. q \in ServerState
    BY Standing DEF Moved
  <1>7. q.log \in Seq(Nat) /\ Len(q.log) \in Nat /\ LastOf(q.log) \in Nat
    BY <1>6, Fields, LastOfType
  <1> HIDE DEF q
  <1>8. v.term <= q.term
    BY <1>4 DEF AsksWith
  <1>9. ASSUME v.term = q.term, q.role = "candidate", NEW a \in A \cup Acks(i, r),
               a.server = v.voter, a.term < v.term
        PROVE  AtLeast(q.log, a.term, Len(a.log))
    <2>1. a \in A
      BY <1>2, <1>9, SMTT(30) DEF Acks
    <2>2. AckOK(a, s, H)
      BY <1>5, <1>9, <2>1
    <2>3. a.term \in Nat /\ Len(a.log) \in Nat /\ AtLeast(s.log, a.term, Len(a.log))
      BY <1>2, <2>2, LastOfType, SMTT(30) DEF AckOK, LogsOK
    <2>4. m.lastIndex = Len(q.log) /\ m.lastTerm = LastOf(q.log)
      BY <1>4, <1>9 DEF AsksWith
    <2>5. \/ LastOf(q.log) > LastOf(s.log)
          \/ LastOf(q.log) = LastOf(s.log) /\ Len(q.log) >= Len(s.log)
      BY <2>4
    <2> HIDE DEF s
    <2> QED
      BY <1>2, <1>7, <2>3, <2>5, SMTT(30) DEF AtLeast
  <1> QED
    BY <1>3, <1>8, <1>9 DEF Informed

\* Every vote is informed, the one that the step casts included.
LEMMA VotesInformed ==
    ASSUME NEW i \in Server, NEW r, NEW H, NEW G, NEW A, Moved(i, r, H, G, A), After(i, r),
           NEW v \in cast'
    PROVE  Informed(v, node'[v.for], A \cup Acks(i, r))
  <1>1. CASE v \in cast
    BY <1>1, OldVoteInformed
  <1>2. CASE v \notin cast
    <2>1. v \in Votes(i, r)
      BY <1>2 DEF After
    <2>2. /\ v = [voter |-> i, term |-> r.term, for |-> r.votedFor] /\ r.votedFor # Nil
          /\ v.voter = i /\ v.term = r.term /\ v.for = r.votedFor
      BY <2>1, SMTT(30) DEF Votes
    <2>3. r.votedFor \in Server /\ r.term \in Nat
      BY <2>2, Fields DEF Moved, Allowed
    <2>4. CASE r.votedFor = i
      <3>1. node'[i].term = r.term
        BY DEF After
      <3>2. \A a \in A \cup Acks(i, r) : a.server = i => AtLeast(node'[i].log, a.term, Len(a.log))
        BY AcksKept DEF AckOK
      <3> QED
        BY <2>2, <2>3, <2>4, <3>1, <3>2, SMTT(30) DEF Informed
    <2>5. CASE r.votedFor # i
      <3>1. ~(r.term = node[i].term /\ r.votedFor = node[i].votedFor)
        BY <1>2, <2>2 DEF Moved, SafeInv
      <3>2. PICK m \in msgs : /\ m.kind = "RequestVote" /\ m.from = r.votedFor /\ m.term = r.term
                              /\ \/ m.lastTerm > LastOf(node[i].log)
                                 \/ m.lastTerm = LastOf(node[i].log) /\ m.lastIndex >= Len(node[i].log)
        BY <2>2, <2>5, <3>1 DEF Moved, Effect, Voting
      <3> QED
        BY <2>2, <2>3, <2>5, <3>2, NewVoteInformed
    <2> QED
      BY <2>4, <2>5
  <1> QED
    BY <1>1, <1>2

\* A leader counts what was acknowledged: its own log, what it counted before, and
\* what a success that it just got tells of.
LEMMA MatchBacked ==
    ASSUME NEW i \in Server, NEW r, NEW H, NEW G, NEW A, Moved(i, r, H, G, A)
    PROVE  Backs(r, A \cup Acks(i, r))
  <1> DEFINE s == node[i]
             B == A \cup Acks(i, r)
  <1> SUFFICES ASSUME r.role = "leader", NEW p \in Server, r.match[p] # 0
               PROVE  Backed(B, p, r.term, r.match[p])
    BY DEF Backs
  <1>1. Based(s, r, H, G)
    BY MovedBased
  <1>2. LeaderFit(r, G) /\ LogsOK(G) /\ Len(r.log) \in Nat
    BY <1>1 DEF Based
  <1>3. MatchFrom(i, s, r, p)
    BY DEF Moved, Effect, Led, Quiet, Followed, FollowedWith
  <1>4. CASE s.role = "leader" /\ s.term = r.term /\ r.match[p] = s.match[p]
    <2>1. Backs(s, A)
      BY DEF Moved, SafeInv
    <2>2. Backed(A, p, r.term, r.match[p])
      BY <1>4, <2>1 DEF Backs
    <2> QED
      BY <2>2 DEF Backed
  <1>5. CASE p = i /\ r.match[p] = Len(r.log)
    <2>1. [server |-> i, term |-> r.term, log |-> r.log] \in B
      BY <1>2 DEF LeaderFit, LogsOK, Acks
    <2> QED
      BY <1>2, <1>5, <2>1, SMTT(30) DEF Backed
  <1>6. CASE \E m \in msgs : /\ m.kind = "AppendEntriesResp" /\ m.success /\ m.from = p
                             /\ m.term = r.term /\ m.match = r.match[p]
    <2>1. PICK m \in msgs : /\ m.kind = "AppendEntriesResp" /\ m.success /\ m.from = p
                            /\ m.term = r.term /\ m.match = r.match[p]
      BY <1>6
    <2>2. Backed(A, p, r.term, r.match[p])
      BY <2>1 DEF Moved, SafeInv, MessageSafe
    <2> QED
      BY <2>2 DEF Backed
  <1> QED
    BY <1>3, <1>4, <1>5, <1>6 DEF MatchFrom

\* L is a log of leader r up to the commit index, and chosen.
ChosenBy(r, L, G, B) ==
    /\ L \in G /\ Chosen(L, B) /\ LastOf(L) = r.term /\ Len(L) = r.commit
    /\ \A k \in 1 .. r.commit : L[k] = r.log[k]

\* What a leader commits is chosen (MaybeAdvanceCommit counts a quorum, and the
\* entry is of its own term).
LEMMA CommittedChosen ==
    ASSUME NEW i \in Server, NEW r, NEW H, NEW G, NEW A, Moved(i, r, H, G, A), After(i, r),
           Led(i, node[i], r), r.commit # node[i].commit
    PROVE  \E L : ChosenBy(r, L, G, A \cup Acks(i, r))
  <1> DEFINE s == node[i]
             B == A \cup Acks(i, r)
             n == r.commit
             L == SubSeq(r.log, 1, n)
             Q == {p \in Server : r.match[p] >= n}
  <1>1. Based(s, r, H, G)
    BY MovedBased
  <1>2. /\ LeaderFit(r, G) /\ LogsOK(G) /\ Len(r.log) \in Nat /\ r.log \in Seq(Nat)
        /\ n \in Nat /\ s.commit \in Nat /\ r.term \in Nat
    BY <1>1 DEF Based, Led
  <1>3. s.commit <= n /\ n <= Len(r.log) /\ r.log[n] = r.term /\ IsQuorum(Q)
    BY DEF Led, Counted
  <1>4. n \in 1 .. Len(r.log)
    BY <1>2, <1>3, SMTT(30)
  <1>5. L \in G
    BY <1>2, <1>4 DEF LogsOK, LeaderFit
  <1>6. L \in Seq(Nat) /\ Len(L) = n /\ LastOf(L) = r.term /\ \A k \in 1 .. n : L[k] = r.log[k]
    BY <1>2, <1>3, <1>4, CutIs
  <1> HIDE DEF L
  <1>7. ASSUME NEW p \in Q PROVE Acked(p, L, B)
    <2>1. r.match[p] \in Nat /\ r.match[p] >= n /\ p \in Server
      BY <1>1, Fields DEF Based
    <2>2. r.match[p] # 0 /\ r.role = "leader"
      BY <1>2, <1>4, <2>1, SMTT(30) DEF Led
    <2>3. Backed(B, p, r.term, r.match[p])
      BY <2>1, <2>2, MatchBacked DEF Backs
    <2>4. PICK a \in B : a.server = p /\ a.term = r.term /\ r.match[p] <= Len(a.log)
      BY <2>3 DEF Backed
    <2>5. a.log \in G /\ LastOf(a.log) = r.term
      BY <2>4, AcksKept DEF AckOK
    <2>6. Prefix(a.log, r.log) /\ Len(a.log) \in Nat
      BY <1>2, <2>5, SMTT(30) DEF LeaderFit, LogsOK
    <2>7. n <= Len(a.log)
      BY <1>2, <2>1, <2>4, <2>6, SMTT(30)
    <2>8. Prefix(L, a.log)
      BY <1>2, <1>6, <2>6, <2>7, SMTT(30) DEF Prefix
    <2> QED
      BY <1>6, <2>4, <2>8 DEF Acked
  <1>8. Chosen(L, B)
    BY <1>3, <1>7 DEF Chosen
  <1> QED
    BY <1>5, <1>6, <1>8 DEF ChosenBy

\* What the leader emits is committed.
LEMMA EmittedCommitted ==
    ASSUME NEW i \in Server, NEW r, After(i, r), NEW e \in r.emitted
    PROVE  \E c \in committed' : c.index = e.index /\ c.term = e.term
  <1>1. CASE \E c \in committed : c.index = e.index /\ c.term = e.term
    BY <1>1 DEF After
  <1>2. CASE ~\E c \in committed : c.index = e.index /\ c.term = e.term
    <2> DEFINE c == [index |-> e.index, term |-> e.term, at |-> r.term]
    <2>1. c \in Emissions(r)
      BY <1>2 DEF Emissions
    <2>2. c.index = e.index /\ c.term = e.term
      OBVIOUS
    <2> QED
      BY <2>1, <2>2 DEF After
  <1> QED
    BY <1>1, <1>2

\* The leader's own entries are settled up to its commit index.
LEMMA LedSettled ==
    ASSUME NEW i \in Server, NEW r, NEW H, NEW G, NEW A, Moved(i, r, H, G, A), After(i, r),
           Led(i, node[i], r)
    PROVE  Settled(committed', r.log, r.commit, r.term, G, A \cup Acks(i, r))
  <1> DEFINE s == node[i]
             B == A \cup Acks(i, r)
  <1>1. Based(s, r, H, G)
    BY MovedBased
  <1>2. /\ LogsOK(H) /\ H \subseteq G /\ Len(r.log) \in Nat /\ r.log \in Seq(Nat)
        /\ s.log \in Seq(Nat) /\ Len(s.log) \in Nat /\ r.commit \in Nat /\ s.commit \in Nat
        /\ r.term \in Nat /\ s.term \in Nat /\ s.term <= r.term
    BY <1>1 DEF Based
  <1>3. committed \subseteq committed' /\ A \subseteq B
    BY DEF After
  <1>4. Settled(committed, s.log, s.commit, s.term, H, A)
    BY DEF Moved, SafeInv
  <1>5. Settled(committed', s.log, s.commit, r.term, G, B)
    BY <1>2, <1>3, <1>4, SettledGrows, SMTT(30)
  <1>6. r.log = s.log \/ r.log = Append(s.log, r.term)
    BY DEF Led
  <1>7. s.commit <= Len(s.log)
    BY <1>4 DEF Settled
  <1>8. Counted(s.commit, r)
    BY DEF Led
  <1>9. r.commit # s.commit => \E L : ChosenBy(r, L, G, B)
    BY CommittedChosen
  <1> SUFFICES Settled(committed', r.log, r.commit, r.term, G, B)
    OBVIOUS
  <1> HIDE DEF s, B
  <1>10. s.commit <= Len(r.log) /\ \A x \in 1 .. s.commit : r.log[x] = s.log[x]
    <2>1. /\ Len(Append(s.log, r.term)) = Len(s.log) + 1
          /\ \A k \in 1 .. Len(s.log) : Append(s.log, r.term)[k] = s.log[k]
      BY <1>2, AfterAppend
    <2>2. CASE r.log = s.log
      BY <1>7, <2>2
    <2>3. CASE r.log = Append(s.log, r.term)
      BY <1>2, <1>7, <2>1, <2>3, SMTT(30)
    <2> QED
      BY <1>6, <2>2, <2>3
  <1>11. Settled(committed', r.log, s.commit, r.term, G, B)
    <2>1. s.commit <= s.commit
      BY <1>2, SMTT(30)
    <2> QED
      BY <1>2, <1>5, <1>10, <2>1, SettledBelow
  <1>12. CASE r.commit # s.commit
    <2>1. PICK L : ChosenBy(r, L, G, B)
      BY <1>9, <1>12
    <2>2. r.commit <= Len(r.log)
      BY <1>8, <1>12 DEF Counted
    <2>3. ASSUME NEW k \in 1 .. r.commit
          PROVE  /\ \E c \in committed' : c.index = k /\ c.term = r.log[k]
                 /\ \E M \in G : Chosen(M, B) /\ LastOf(M) <= r.term /\ k <= Len(M) /\ M[k] = r.log[k]
      <3>1. Chosen(L, B) /\ LastOf(L) <= r.term /\ k <= Len(L) /\ L[k] = r.log[k] /\ L \in G
        BY <1>2, <2>1, SMTT(30) DEF ChosenBy
      <3>2. CASE k <= s.commit
        <4>1. k \in 1 .. s.commit
          BY <1>2, <3>2, SMTT(30)
        <4> QED
          BY <1>11, <3>1, <4>1 DEF Settled
      <3>3. CASE k > s.commit
        <4> DEFINE e == [index |-> k, term |-> r.log[k]]
        <4>1. k \in s.commit + 1 .. r.commit
          BY <1>2, <3>3, SMTT(30)
        <4>2. e \in r.emitted
          BY <1>8, <4>1 DEF Counted, Entries
        <4>3. e.index = k /\ e.term = r.log[k]
          OBVIOUS
        <4> HIDE DEF e
        <4>4. \E c \in committed' : c.index = k /\ c.term = r.log[k]
          BY <4>2, <4>3, EmittedCommitted
        <4> QED
          BY <3>1, <4>4
      <3> QED
        BY <1>2, <3>2, <3>3, SMTT(30)
    <2> QED
      BY <2>2, <2>3 DEF Settled
  <1>13. CASE r.commit = s.commit
    BY <1>11, <1>13
  <1> QED
    BY <1>12, <1>13

\* The entries that a follower takes over are settled up to its commit index.
LEMMA FollowedSettled ==
    ASSUME NEW i \in Server, NEW r, NEW H, NEW G, NEW A, Moved(i, r, H, G, A),
           NEW L \in H, NEW n \in Nat, FollowedWith(node[i], r, L, n, H, A)
    PROVE  Settled(committed, r.log, r.commit, r.term, H, A)
  <1> DEFINE s == node[i]
  <1>1. Based(s, r, H, G)
    BY MovedBased
  <1>2. /\ LogsOK(H) /\ Len(r.log) \in Nat /\ r.log \in Seq(Nat)
        /\ s.log \in Seq(Nat) /\ Len(s.log) \in Nat /\ r.commit \in Nat /\ s.commit \in Nat
        /\ r.term \in Nat /\ s.term \in Nat /\ s.term <= r.term
        /\ (s.log # <<>> => s.log \in H)
    BY <1>1 DEF Based
  <1>3. /\ LastOf(L) = r.term /\ Settled(committed, L, n, r.term, H, A) /\ Replaced(r.log, s.log, L)
        /\ r.commit = s.commit \/ (r.commit <= n /\ r.commit <= Len(r.log))
    BY DEF FollowedWith
  <1>4. Settled(committed, s.log, s.commit, s.term, H, A) /\ LaterHaveChosen(H, A)
    BY DEF Moved, SafeInv
  <1> HIDE DEF s
  <1>5. CASE r.commit = s.commit
    <2>1. s.term <= LastOf(L)
      BY <1>2, <1>3
    <2>2. Settled(committed, r.log, r.commit, s.term, H, A)
      BY <1>2, <1>3, <1>4, <1>5, <2>1, SettledKept
    <2>3. committed \subseteq committed /\ H \subseteq H /\ A \subseteq A
      OBVIOUS
    <2> QED
      BY <1>2, <2>2, <2>3, SettledGrows
  <1>6. CASE r.commit <= n /\ r.commit <= Len(r.log)
    <2>1. n <= Len(L) /\ Len(L) \in Nat
      BY <1>2, <1>3, SMTT(30) DEF Settled, LogsOK
    <2>2. \A x \in 1 .. r.commit : r.log[x] = L[x]
      BY <1>2, <1>3, <1>6, <2>1, SMTT(30) DEF Replaced, Prefix
    <2> QED
      BY <1>2, <1>3, <1>6, <2>2, SettledBelow
  <1> QED
    BY <1>3, <1>5, <1>6

\* What the server that moves has committed is settled.
LEMMA MoverSettled ==
    ASSUME NEW i \in Server, NEW r, NEW H, NEW G, NEW A, Moved(i, r, H, G, A), After(i, r)
    PROVE  Settled(committed', r.log, r.commit, r.term, G, A \cup Acks(i, r))
  <1> DEFINE s == node[i]
             B == A \cup Acks(i, r)
  <1>1. Based(s, r, H, G)
    BY MovedBased
  <1>2. /\ LogsOK(H) /\ H \subseteq G /\ r.log \in Seq(Nat) /\ r.commit \in Nat /\ s.commit \in Nat
        /\ r.term \in Nat /\ s.term \in Nat /\ s.term <= r.term
    BY <1>1 DEF Based
  <1>3. committed \subseteq committed' /\ A \subseteq B
    BY DEF After
  <1>4. Settled(committed, s.log, s.commit, s.term, H, A)
    BY DEF Moved, SafeInv
  <1>5. CASE Led(i, s, r)
    BY <1>5, LedSettled
  <1>6. CASE Quiet(s, r)
    <2>1. r.log = s.log /\ (r.commit = s.commit \/ r.commit = 0)
      BY <1>6 DEF Quiet
    <2>2. Settled(committed', s.log, s.commit, r.term, G, B)
      BY <1>2, <1>3, <1>4, SettledGrows, SMTT(30)
    <2>3. Settled(committed', r.log, 0, r.term, G, B)
      BY <1>2, NothingSettled
    <2> QED
      BY <2>1, <2>2, <2>3
  <1>7. CASE Followed(s, r, H, A)
    <2>1. Settled(committed, r.log, r.commit, r.term, H, A)
      BY <1>7, FollowedSettled DEF Followed
    <2>2. r.term <= r.term
      BY <1>2, SMTT(30)
    <2> QED
      BY <1>2, <1>3, <2>1, <2>2, SettledGrows
  <1> QED
    BY <1>5, <1>6, <1>7 DEF Moved, Effect

\* An append that is in flight stays what it was.
LEMMA OldMessageSafe ==
    ASSUME NEW i \in Server, NEW r, NEW H, NEW G, NEW A, Moved(i, r, H, G, A), After(i, r),
           NEW m \in msgs
    PROVE  MessageSafe(m, committed', G, A \cup Acks(i, r))
  <1> DEFINE B == A \cup Acks(i, r)
  <1>1. Based(node[i], r, H, G)
    BY MovedBased
  <1>2. LogsOK(H) /\ H \subseteq G
    BY <1>1 DEF Based
  <1>3. committed \subseteq committed' /\ A \subseteq B
    BY DEF After
  <1>4. MessageSafe(m, committed, H, A) /\ m \in Message
    BY DEF Moved, SafeInv, IInv, TypeOK
  <1>5. ASSUME m.kind = "AppendEntries"
        PROVE  \E L \in G : /\ PieceOf(m, L) /\ m.prev + Len(m.entries) = Len(L)
                            /\ Settled(committed', L, m.commit, m.term, G, B)
    <2>1. PICK L \in H : /\ PieceOf(m, L) /\ m.prev + Len(m.entries) = Len(L)
                         /\ Settled(committed, L, m.commit, m.term, H, A)
      BY <1>4, <1>5 DEF MessageSafe
    <2>2. m.commit \in Nat /\ m.term \in Nat
      BY <1>4, <1>5, MessageKinds DEF AppendEntriesMsg
    <2>3. m.term <= m.term
      BY <2>2, SMTT(30)
    <2>4. Settled(committed', L, m.commit, m.term, G, B)
      BY <1>2, <1>3, <2>1, <2>2, <2>3, SettledGrows
    <2> QED
      BY <1>2, <2>1, <2>4
  <1>6. m.kind = "AppendEntriesResp" /\ m.success => Backed(B, m.from, m.term, m.match)
    BY <1>4 DEF MessageSafe, Backed
  <1> QED
    BY <1>5, <1>6 DEF MessageSafe

\* A follower that accepted an append of a leader's log acknowledges it.
LEMMA FollowerAcks ==
    ASSUME NEW i \in Server, NEW r, NEW H, NEW G, NEW A, Moved(i, r, H, G, A),
           NEW L \in H, NEW n \in Nat, FollowedWith(node[i], r, L, n, H, A),
           NEW k, k <= Len(L), k \in Nat
    PROVE  Backed(A \cup Acks(i, r), i, r.term, k)
  <1> DEFINE s == node[i]
             a == [server |-> i, term |-> r.term, log |-> r.log]
  <1>1. Based(s, r, H, G)
    BY MovedBased
  <1>2. /\ LogsOK(H) /\ Len(r.log) \in Nat /\ r.log \in Seq(Nat) /\ s.log \in Seq(Nat)
        /\ r.term \in Nat /\ LastOf(r.log) \in Nat /\ LastOf(r.log) <= r.term
        /\ (s.log # <<>> => s.log \in H)
    BY <1>1 DEF Based
  <1>3. LastOf(L) = r.term /\ Replaced(r.log, s.log, L)
    BY DEF FollowedWith
  <1>4. L \in Seq(Nat) /\ L # <<>> /\ Len(L) \in Nat
    BY <1>2, SMTT(30) DEF LogsOK
  <1> HIDE DEF s
  <1>5. Prefix(L, r.log) /\ r.log # <<>> /\ Len(L) <= Len(r.log)
    <2>1. Prefix(L, r.log) /\ Len(L) <= Len(r.log)
      BY <1>3 DEF Replaced, Prefix
    <2>2. Len(L) > 0
      BY <1>4, SMTT(30)
    <2> QED
      BY <1>2, <1>4, <2>1, <2>2, SMTT(30)
  <1>6. r.log \in H
    BY <1>2, <1>3, <1>5 DEF Replaced
  <1>7. LastOf(r.log) = r.term
    <2>1. Len(L) \in 1 .. Len(L) /\ Len(L) \in 1 .. Len(r.log)
      BY <1>2, <1>4, <1>5, SMTT(30)
    <2>2. r.log[Len(L)] = r.term
      BY <1>3, <1>4, <1>5, <2>1 DEF Prefix, LastOf
    <2>3. r.log[Len(L)] <= LastOf(r.log)
      BY <1>2, <1>6, <2>1 DEF LogsOK
    <2> QED
      BY <1>2, <2>2, <2>3, SMTT(30)
  <1>8. a \in Acks(i, r)
    BY <1>5, <1>7 DEF Acks
  <1>9. k <= Len(r.log)
    BY <1>2, <1>4, <1>5, SMTT(30)
  <1> QED
    BY <1>8, <1>9, SMTT(30) DEF Backed

\* What the step sends.
LEMMA NewMessageSafe ==
    ASSUME NEW i \in Server, NEW r, NEW H, NEW G, NEW A, Moved(i, r, H, G, A), After(i, r),
           NEW m \in r.out
    PROVE  /\ MessageSafe(m, committed', G, A \cup Acks(i, r))
           /\ m.kind = "RequestVote" => AsksWith(m, node'[m.from])
  <1> DEFINE s == node[i]
             B == A \cup Acks(i, r)
  <1>1. Based(s, r, H, G)
    BY MovedBased
  <1>2. r \in ServerState /\ r.term \in Nat /\ r.commit \in Nat /\ (r.role = "leader" => LeaderFit(r, G))
    BY <1>1 DEF Based
  <1>3. m \in Message
    BY <1>2 DEF ServerState
  <1>4. m.from = i /\ m.term = r.term
    BY DEF Moved, Names, Mine
  <1>5. CASE Plain(m)
    BY <1>5 DEF Plain, MessageSafe
  <1>6. CASE Led(i, s, r) /\ Sends(r, m)
    <2>1. r.log \in G
      BY <1>2, <1>6 DEF Led, LeaderFit
    <2>2. /\ m.kind = "AppendEntries" /\ PieceOf(m, r.log)
          /\ m.prev + Len(m.entries) = Len(r.log) /\ m.commit <= r.commit
      BY <1>6 DEF Sends
    <2>3. m.commit \in Nat
      BY <1>3, <2>2, MessageKinds DEF AppendEntriesMsg
    <2>4. Settled(committed', r.log, r.commit, r.term, G, B)
      BY MoverSettled
    <2>5. m.commit <= Len(r.log)
      <3>1. r.commit <= Len(r.log) /\ Len(r.log) \in Nat
        BY <1>1, <2>4 DEF Based, Settled
      <3> QED
        BY <1>2, <2>2, <2>3, <3>1, SMTT(30)
    <2>6. \A x \in 1 .. m.commit : r.log[x] = r.log[x]
      OBVIOUS
    <2>7. Settled(committed', r.log, m.commit, r.term, G, B)
      BY <1>2, <2>2, <2>3, <2>4, <2>5, <2>6, SettledBelow
    <2> QED
      BY <1>4, <2>1, <2>2, <2>7 DEF MessageSafe
  <1>7. CASE /\ Quiet(s, r) /\ m.kind = "RequestVote"
             /\ m.lastIndex = Len(r.log) /\ m.lastTerm = LastOf(r.log)
    <2>1. node'[i].term = r.term /\ node'[i].role = r.role /\ node'[i].log = r.log
      BY DEF After
    <2> QED
      BY <1>2, <1>4, <1>7, <2>1, SMTT(30) DEF MessageSafe, AsksWith
  <1>8. CASE Followed(s, r, H, A) /\ m.kind = "AppendEntriesResp" /\ m.success
    <2>1. PICK L \in H, n \in Nat : FollowedWith(s, r, L, n, H, A)
      BY <1>8 DEF Followed
    <2>2. m.match <= Len(L) /\ m.match \in Nat
      BY <1>3, <1>8, <2>1, MessageKinds DEF FollowedWith, Plain, AppendEntriesRespMsg
    <2>3. Backed(B, i, r.term, m.match)
      BY <2>1, <2>2, FollowerAcks
    <2> QED
      BY <1>4, <1>8, <2>3 DEF MessageSafe
  <1>9. CASE m.kind = "AppendEntriesResp" /\ ~m.success
    BY <1>9 DEF MessageSafe
  <1> QED
    BY <1>5, <1>6, <1>7, <1>8, <1>9 DEF Moved, Effect, Led, Quiet, Followed, FollowedWith

\* A request for a vote that is in flight.
LEMMA StillAsks ==
    ASSUME NEW i \in Server, NEW r, NEW H, NEW G, NEW A, Moved(i, r, H, G, A), After(i, r),
           NEW m \in msgs, m.kind = "RequestVote"
    PROVE  AsksWith(m, node'[m.from])
  <1>1. Based(node[i], r, H, G)
    BY MovedBased
  <1>2. node[i].term \in Nat /\ r.term \in Nat /\ node[i].term <= r.term
    BY <1>1 DEF Based
  <1>3. AsksWith(m, node[m.from]) /\ m \in Message
    BY DEF Moved, SafeInv, IInv, TypeOK
  <1>4. m.from \in Server /\ m.term \in Nat
    BY <1>3, MessageKinds
  <1>5. CASE m.from # i
    BY <1>3, <1>4, <1>5 DEF After
  <1>6. CASE m.from = i
    <2>1. node'[i].term = r.term /\ node'[i].role = r.role /\ node'[i].log = r.log
      BY DEF After
    <2>2. m.term <= node[i].term /\ m.term <= r.term
      BY <1>2, <1>3, <1>4, <1>6, SMTT(30) DEF AsksWith
    <2>3. CASE m.term = r.term /\ r.role = "candidate"
      <3>1. r.term = node[i].term
        BY <1>2, <1>4, <2>2, <2>3, SMTT(30)
      <3>2. node[i].role = "candidate" /\ r.log = node[i].log
        BY <2>3, <3>1 DEF Moved, Effect, Led, Followed, FollowedWith, Quiet
      <3> QED
        BY <1>3, <1>6, <2>1, <2>2, <3>1, <3>2 DEF AsksWith
    <2>4. CASE ~(m.term = r.term /\ r.role = "candidate")
      BY <1>6, <2>1, <2>2, <2>4 DEF AsksWith
    <2> QED
      BY <2>3, <2>4
  <1> QED
    BY <1>5, <1>6

\* What is committed has a chosen log behind it.
LEMMA CommitsWitnessed ==
    ASSUME NEW i \in Server, NEW r, NEW H, NEW G, NEW A, Moved(i, r, H, G, A), After(i, r),
           NEW c \in committed'
    PROVE  Witnessed(c, G, A \cup Acks(i, r))
  <1> DEFINE s == node[i]
             B == A \cup Acks(i, r)
  <1>1. Based(s, r, H, G)
    BY MovedBased
  <1>2. /\ H \subseteq G /\ LogsOK(H) /\ s.commit \in Nat /\ r.commit \in Nat
        /\ Len(r.log) \in Nat
    BY <1>1 DEF Based
  <1>3. CASE c \in committed
    <2>1. PICK L \in H : /\ Chosen(L, A) /\ LastOf(L) = c.at
                         /\ c.index \in 1 .. Len(L) /\ L[c.index] = c.term
      BY <1>3 DEF Moved, SafeInv, Witnessed
    <2>2. Chosen(L, B)
      BY <2>1, StillChosen, SMTT(30)
    <2> QED
      BY <1>2, <2>1, <2>2 DEF Witnessed
  <1>4. CASE c \in Emissions(r)
    <2>1. PICK e \in r.emitted : /\ c = [index |-> e.index, term |-> e.term, at |-> r.term]
                                 /\ \A x \in committed : x.index # e.index \/ x.term # e.term
      BY <1>4 DEF Emissions
    <2>2. c.index = e.index /\ c.term = e.term /\ c.at = r.term
      BY <2>1
    <2>3. CASE Led(i, s, r)
      <3>1. PICK k \in s.commit + 1 .. r.commit : e = [index |-> k, term |-> r.log[k]]
        BY <2>1, <2>3 DEF Led, Counted, Entries
      <3>2. k \in 1 .. r.commit /\ r.commit # s.commit /\ e.index = k /\ e.term = r.log[k]
        BY <1>2, <3>1, SMTT(30)
      <3>3. PICK L : ChosenBy(r, L, G, B)
        BY <2>3, <3>2, CommittedChosen
      <3> QED
        BY <2>2, <3>2, <3>3 DEF ChosenBy, Witnessed
    <2>4. CASE Quiet(s, r)
      BY <2>1, <2>4 DEF Quiet
    <2>5. CASE Followed(s, r, H, A)
      <3>1. PICK L \in H, n \in Nat : FollowedWith(s, r, L, n, H, A)
        BY <2>5 DEF Followed
      <3>2. r.emitted = Entries(r.log, s.commit, r.commit)
        BY <2>1, <3>1 DEF FollowedWith
      <3>3. PICK k \in s.commit + 1 .. r.commit : e = [index |-> k, term |-> r.log[k]]
        BY <2>1, <3>2 DEF Entries
      <3>4. k \in 1 .. r.commit /\ e.index = k /\ e.term = r.log[k]
        BY <1>2, <3>3, SMTT(30)
      <3>5. Settled(committed, r.log, r.commit, r.term, H, A)
        BY <3>1, FollowedSettled
      <3> QED
        BY <2>1, <3>4, <3>5, SMTT(30) DEF Settled
    <2> QED
      BY <2>3, <2>4, <2>5 DEF Moved, Effect
  <1> QED
    BY <1>3, <1>4 DEF After

\* The whole invariant after the step.
LEMMA MovedSafe ==
    ASSUME NEW i \in Server, NEW r, NEW H, NEW G, NEW A, Moved(i, r, H, G, A), After(i, r), IInv'
    PROVE  SafeInv(G, A \cup Acks(i, r))'
  <1> DEFINE B == A \cup Acks(i, r)
  <1>1. Based(node[i], r, H, G)
    BY MovedBased
  <1>2. LogsOK(H) /\ H \subseteq G
    BY <1>1 DEF Based
  <1>3. \A j \in Server : j # i => node'[j] = node[j]
    BY DEF After
  <1>4. \A a \in B : AckOK(a, node'[a.server], G)
    BY AcksKept
  <1>5. LaterHaveChosen(G, B)'
    BY LaterKept
  <1>6. \A v \in cast' : Informed(v, node'[v.for], B)
    BY VotesInformed
  <1>7. ASSUME NEW j \in Server, node'[j].votedFor # Nil
        PROVE  [voter |-> j, term |-> node'[j].term, for |-> node'[j].votedFor] \in cast'
    <2>1. CASE j # i
      BY <1>3, <1>7, <2>1 DEF Moved, SafeInv, After
    <2>2. CASE j = i
      BY <1>7, <2>2 DEF After, Votes
    <2> QED
      BY <2>1, <2>2
  <1>8. ASSUME NEW j \in Server
        PROVE  /\ Backs(node'[j], B)
               /\ Settled(committed', node'[j].log, node'[j].commit, node'[j].term, G, B)
    <2>1. CASE j # i
      <3>1. node'[j] = node[j]
        BY <1>3, <2>1
      <3>2. Backs(node[j], A) /\ Settled(committed, node[j].log, node[j].commit, node[j].term, H, A)
        BY DEF Moved, SafeInv
      <3>3. node[j].commit \in Nat /\ node[j].term \in Nat /\ node[j].term <= node[j].term
        BY Standing, Fields, SMTT(30) DEF Moved
      <3>4. committed \subseteq committed' /\ A \subseteq B
        BY DEF After
      <3>5. Settled(committed', node[j].log, node[j].commit, node[j].term, G, B)
        BY <1>2, <3>2, <3>3, <3>4, SettledGrows, SMTT(30)
      <3> QED
        BY <3>1, <3>2, <3>5 DEF Backs, Backed
    <2>2. CASE j = i
      <3>1. /\ node'[i].term = r.term /\ node'[i].role = r.role /\ node'[i].log = r.log
            /\ node'[i].commit = r.commit /\ node'[i].match = r.match
        BY DEF After
      <3>2. Backs(r, B) /\ Settled(committed', r.log, r.commit, r.term, G, B)
        BY MatchBacked, MoverSettled
      <3> QED
        BY <2>2, <3>1, <3>2 DEF Backs
    <2> QED
      BY <2>1, <2>2
  <1>9. \A m \in msgs' : /\ MessageSafe(m, committed', G, B)
                         /\ m.kind = "RequestVote" => AsksWith(m, node'[m.from])
    BY OldMessageSafe, NewMessageSafe, StillAsks DEF After
  <1>10. \A c \in committed' : Witnessed(c, G, B)
    BY CommitsWitnessed
  <1> QED
    BY <1>4, <1>5, <1>6, <1>7, <1>8, <1>9, <1>10 DEF SafeInv, Acks

\* The log of a server keeps a committed entry through its own step.
LEMMA MoverKeeps ==
    ASSUME NEW i \in Server, NEW r, NEW H, NEW G, NEW A, Moved(i, r, H, G, A),
           NEW c \in committed, c.at <= node[i].term,
           c.index <= Len(node[i].log), node[i].log[c.index] = c.term
    PROVE  c.index \in 1 .. Len(r.log) /\ r.log[c.index] = c.term
  <1> DEFINE s == node[i]
  <1>1. Based(s, r, H, G)
    BY MovedBased
  <1>2. /\ LogsOK(H) /\ Len(r.log) \in Nat /\ s.log \in Seq(Nat) /\ Len(s.log) \in Nat
        /\ r.term \in Nat /\ s.term \in Nat /\ s.term <= r.term /\ (s.log # <<>> => s.log \in H)
    BY <1>1 DEF Based
  <1>3. PICK K \in H : /\ Chosen(K, A) /\ LastOf(K) = c.at
                       /\ c.index \in 1 .. Len(K) /\ K[c.index] = c.term
    BY DEF Moved, SafeInv, Witnessed
  <1>4. Len(K) \in Nat /\ LastOf(K) \in Nat
    BY <1>2, LastOfType, SMTT(30) DEF LogsOK
  <1>5. c.index \in 1 .. Len(s.log) /\ s.log \in H /\ s.log[c.index] = c.term /\ c.at <= s.term
    BY <1>2, <1>3, <1>4, SMTT(30)
  <1> HIDE DEF s
  <1>6. CASE r.log = s.log
    BY <1>5, <1>6
  <1>7. CASE r.log = Append(s.log, r.term)
    BY <1>2, <1>5, <1>7, SMTT(30)
  <1>8. CASE Followed(s, r, H, A)
    <2>1. PICK L \in H : \E n \in Nat : FollowedWith(s, r, L, n, H, A)
      BY <1>8 DEF Followed
    <2>2. LastOf(L) = r.term /\ Replaced(r.log, s.log, L)
      BY <2>1 DEF FollowedWith
    <2>3. LastOf(K) <= LastOf(L)
      BY <1>2, <1>3, <1>4, <1>5, <2>2, SMTT(30)
    <2>4. LaterHaveChosen(H, A)
      BY DEF Moved, SafeInv
    <2>5. c.index <= Len(s.log) /\ s.log[c.index] = K[c.index]
      BY <1>2, <1>3, <1>5, SMTT(30)
    <2>6. c.index <= Len(r.log) /\ r.log[c.index] = s.log[c.index]
      <3>1. LogsOK(H) /\ s.log \in H /\ Chosen(K, A) /\ c.index \in 1 .. Len(K)
        BY <1>2, <1>3, <1>5
      <3> DEFINE log == s.log
                 T == r.log
                 k == c.index
      <3>2. LogsOK(H) /\ log \in H /\ Chosen(K, A) /\ k \in 1 .. Len(K) /\ Replaced(T, log, L)
        BY <2>2, <3>1
      <3>3. k <= Len(log) /\ log[k] = K[k]
        BY <2>5
      <3> HIDE DEF log, T, k
      <3>4. k <= Len(T) /\ T[k] = log[k]
        BY <2>3, <2>4, <3>2, <3>3, KeptEntry, SMTT(30)
      <3> QED
        BY <3>4 DEF log, T, k
    <2> QED
      BY <1>2, <1>5, <2>6, SMTT(30)
  <1> QED
    BY <1>6, <1>7, <1>8 DEF Moved, Effect, Led, Quiet, s

-----------------------------------------------------------------------------
(* The effect of the functions that neither campaign nor win. *)

\* r is the leader s after it sent or counted.
Ran(s, r) ==
    /\ r \in ServerState /\ r.role = "leader" /\ r.log = s.log /\ r.base = s.base
    /\ r.term = s.term /\ r.match = s.match /\ r.votedFor = s.votedFor
    /\ Counted(s.commit, r) /\ \A m \in r.out : Sends(r, m)

\* There is no entry between an index and itself.
LEMMA NoEntries ==
    ASSUME NEW log, NEW n \in Nat
    PROVE  Entries(log, n, n) = {}
  BY SMTT(30) DEF Entries

\* Before it does anything.
LEMMA RanStart ==
    ASSUME NEW s \in ServerState, s.role = "leader", s.out = {}, s.emitted = {}
    PROVE  Ran(s, s)
  BY Fields, NoEntries, SMTT(30) DEF Counted, Ran

\* A record with the fields that count, and messages that carry the rest of the log.
LEMMA RanFrame ==
    ASSUME NEW s, NEW q, NEW r \in ServerState, Ran(s, q),
           r.role = q.role, r.log = q.log, r.base = q.base, r.term = q.term, r.match = q.match,
           r.votedFor = q.votedFor, r.commit = q.commit, r.emitted = q.emitted,
           \A m \in r.out : m \in q.out \/ Sends(q, m)
    PROVE  Ran(s, r)
  BY DEF Ran, Counted, Sends

\* The leader sends (BroadcastAppend, SendAppend).
LEMMA SendRuns ==
    ASSUME NEW H, LogsOK(H), NEW i \in Server, NEW s, NEW q \in ServerState, Fits(q, H), Ran(s, q),
           Len(q.log) <= MaxEntries, NEW p \in Server
    PROVE  Ran(s, BroadcastAppend(i, q)) /\ Ran(s, SendAppend(i, q, p))
  <1> DEFINE sent == {AppendMessage(i, q, x) : x \in Peers(i)}
             m == AppendMessage(i, q, p)
             b == [q EXCEPT !.out = @ \cup sent]
             c == [q EXCEPT !.out = @ \cup {m}]
  <1>1. ASSUME NEW x \in Server PROVE Sends(q, AppendMessage(i, q, x))
    BY AppendMessageIs, Fields, SMTT(30) DEF Sends, Ran
  <1>2. \A x \in sent \cup {m} : Sends(q, x)
    BY <1>1 DEF Peers
  <1>3. BroadcastAppend(i, q) = b /\ SendAppend(i, q, p) = c
    BY DEF BroadcastAppend, SendAppend, Send
  <1>4. b \in ServerState /\ c \in ServerState
    <2>1. SendAppend(i, q, p) \in ServerState
      BY SendKeeps, AppendMessageType DEF SendAppend, Keeps
    <2> QED
      BY <1>3, <2>1, BroadcastAppendKeeps DEF Keeps
  <1> HIDE DEF sent, m
  <1>5. /\ b.role = q.role /\ b.log = q.log /\ b.base = q.base /\ b.term = q.term
        /\ b.match = q.match /\ b.votedFor = q.votedFor /\ b.commit = q.commit
        /\ b.emitted = q.emitted /\ b.out = q.out \cup sent
    BY DEF ServerState
  <1>6. /\ c.role = q.role /\ c.log = q.log /\ c.base = q.base /\ c.term = q.term
        /\ c.match = q.match /\ c.votedFor = q.votedFor /\ c.commit = q.commit
        /\ c.emitted = q.emitted /\ c.out = q.out \cup {m}
    BY DEF ServerState
  <1> HIDE DEF b, c
  <1> QED
    BY <1>2, <1>3, <1>4, <1>5, <1>6, RanFrame

\* What EmitCommitted does, without a snapshot.
LEMMA EmitCommittedIs ==
    ASSUME NEW s \in ServerState, s.base.index = 0, s.base.term = 0, NEW n \in Nat, n <= Len(s.log)
    PROVE  LET r == EmitCommitted(s, n)
           IN  /\ r \in ServerState /\ r.role = s.role /\ r.log = s.log /\ r.base = s.base
               /\ r.term = s.term /\ r.match = s.match /\ r.votedFor = s.votedFor
               /\ r.out = s.out /\ r.commit = n
               /\ r.emitted = s.emitted \cup Entries(s.log, s.commit, n)
  <1> DEFINE es == {[index |-> k, term |-> TermAt(s, k)] : k \in s.commit + 1 .. n}
             r == [s EXCEPT !.commit = n, !.emitted = @ \cup es]
  <1>1. \A k \in s.commit + 1 .. n : TermAt(s, k) = s.log[k]
    BY NoBase, Fields, SMTT(30)
  <1>2. es = Entries(s.log, s.commit, n)
    BY <1>1 DEF Entries
  <1>3. EmitCommitted(s, n) = r /\ r \in ServerState
    BY EmitCommittedKeeps DEF EmitCommitted, Keeps
  <1> HIDE DEF es
  <1>4. /\ r.role = s.role /\ r.log = s.log /\ r.base = s.base /\ r.term = s.term
        /\ r.match = s.match /\ r.votedFor = s.votedFor /\ r.out = s.out /\ r.commit = n
        /\ r.emitted = s.emitted \cup es
    BY DEF ServerState
  <1> HIDE DEF r
  <1> QED
    BY <1>2, <1>3, <1>4

\* The leader counts (MaybeAdvanceCommit).
LEMMA CountRuns ==
    ASSUME NEW s, NEW q, Ran(s, q), q.base.index = 0, q.base.term = 0,
           q.commit = s.commit, q.emitted = {}
    PROVE  Ran(s, MaybeAdvanceCommit(q))
  <1>1. /\ q \in ServerState /\ q.role = "leader" /\ q.commit \in Nat /\ Len(q.log) \in Nat
        /\ LastIndex(q) = Len(q.log)
    BY Fields, NoBase DEF Ran
  <1>2. CASE Countable(q) = {}
    BY <1>2 DEF MaybeAdvanceCommit
  <1>3. CASE Countable(q) # {}
    <2> DEFINE n == MaxOf(Countable(q))
               r == EmitCommitted(q, n)
    <2>1. Countable(q) \subseteq 0 .. Len(q.log)
      BY <1>1, SMTT(30) DEF Countable
    <2>2. n \in Countable(q)
      BY <1>1, <1>3, <2>1, MaxOfMember
    <2>3. MaybeAdvanceCommit(q) = r
      BY <1>1, <1>3 DEF MaybeAdvanceCommit
    <2> HIDE DEF n
    <2>4. n \in Nat /\ n <= Len(q.log) /\ n \in 1 .. Len(q.log) /\ n \in n .. LastIndex(q)
          /\ q.commit <= n /\ n # q.commit
      BY <1>1, <2>2, SMTT(30) DEF Countable
    <2>5. /\ r \in ServerState /\ r.role = q.role /\ r.log = q.log /\ r.base = q.base
          /\ r.term = q.term /\ r.match = q.match /\ r.votedFor = q.votedFor
          /\ r.out = q.out /\ r.commit = n
          /\ r.emitted = q.emitted \cup Entries(q.log, q.commit, n)
      BY <1>1, <2>4, EmitCommittedIs
    <2> HIDE DEF r
    <2>6. \A m \in r.out : Sends(r, m)
      <3> SUFFICES ASSUME NEW m \in q.out PROVE Sends(r, m)
        BY <2>5
      <3>1. m.kind = "AppendEntries" => m.commit \in Nat
        BY <1>1, MessageKinds DEF AppendEntriesMsg, ServerState
      <3> QED
        BY <1>1, <2>4, <2>5, <3>1, SMTT(30) DEF Sends, Ran
    <2> QED
      BY <1>1, <2>2, <2>3, <2>5, <2>6, NoBase, SMTT(30) DEF Ran, Counted, Countable
  <1> QED
    BY <1>2, <1>3

\* A handler that leaves the log and the indices alone and promises nothing.
LEMMA StillEffect ==
    ASSUME NEW i, NEW s \in ServerState, NEW r, r.log = s.log, r.role = s.role, r.term = s.term,
           r.match = s.match, r.commit = s.commit, r.emitted = {}, \A m \in r.out : Plain(m)
    PROVE  Led(i, s, r) \/ Quiet(s, r)
  BY Fields, NoEntries, SMTT(30) DEF Counted, MatchFrom, Led, Quiet

\* A vote is granted or refused (HandleRequestVote).
LEMMA HandleRequestVoteEffect ==
    ASSUME NEW i, NEW s \in ServerState, s.base.index = 0, s.base.term = 0, s.out = {},
           s.emitted = {}, NEW m \in msgs, m \in RequestVoteMsg, m.term = s.term, NEW H, NEW A
    PROVE  Effect(i, s, HandleRequestVote(i, s, m), H, A)
  <1> DEFINE yes == RequestVoteResp(i, s, m.from, TRUE)
             no == RequestVoteResp(i, s, m.from, FALSE)
             q == [s EXCEPT !.votedFor = m.from, !.out = {yes}]
             d == [s EXCEPT !.out = {no}]
  <1>1. Plain(yes) /\ Plain(no)
    BY DEF Plain, RequestVoteResp
  <1>2. HandleRequestVote(i, s, m) = IF s.votedFor \in {Nil, m.from} /\ UpToDate(s, m) THEN q ELSE d
    BY DEF HandleRequestVote, Send, ServerState
  <1> HIDE DEF yes, no
  <1>3. /\ q.log = s.log /\ q.role = s.role /\ q.term = s.term /\ q.match = s.match
        /\ q.commit = s.commit /\ q.emitted = {} /\ q.out = {yes} /\ q.votedFor = m.from
    BY DEF ServerState
  <1>4. /\ d.log = s.log /\ d.role = s.role /\ d.term = s.term /\ d.match = s.match
        /\ d.commit = s.commit /\ d.emitted = {} /\ d.out = {no} /\ d.votedFor = s.votedFor
    BY DEF ServerState
  <1> HIDE DEF q, d
  <1>5. UpToDate(s, m) => Voting(i, s, q)
    BY <1>3, NoBase DEF RequestVoteMsg, UpToDate, Voting
  <1> QED
    BY <1>1, <1>2, <1>3, <1>4, <1>5, StillEffect DEF Effect, Voting

\* A leader's answer to a response (HandleAppendEntriesResp).
LEMMA HandleAppendEntriesRespEffect ==
    ASSUME NEW H, NEW A, LogsOK(H), NEW i \in Server, NEW s \in ServerState, ServerFit(s, H),
           s.out = {}, s.emitted = {}, NEW m \in msgs, m \in AppendEntriesRespMsg, MessageFit(m, H),
           m.term = s.term, s.role = "leader" => Len(s.log) <= MaxEntries
    PROVE  Effect(i, s, HandleAppendEntriesResp(i, s, m), H, A)
  <1>1. Fits(s, H) /\ s.base.index = 0 /\ s.base.term = 0
    BY DEF Fits, ServerFit
  <1>2. CASE s.role # "leader"
    BY <1>2, StillEffect DEF HandleAppendEntriesResp, Effect, Voting
  <1>3. CASE s.role = "leader"
    <2>1. PICK acked \in [Server -> Nat], match \in [Server -> Nat], next \in [Server -> Nat \ {0}] :
            RespWith(i, s, m, acked, match, next)
      BY <1>1, <1>3, RespIs
    <2> DEFINE q == [s EXCEPT !.hbAcked = acked, !.match = match, !.next = next]
               c == IF m.success THEN MaybeAdvanceCommit(q) ELSE SendAppend(i, q, m.from)
               r == ConfirmReads(i, c)
    <2>2. HandleAppendEntriesResp(i, s, m) = r
      BY <2>1 DEF RespWith
    <2>3. /\ q \in ServerState /\ q.base = s.base /\ q.log = s.log /\ q.term = s.term
          /\ q.role = "leader" /\ q.next = next /\ q.out = {} /\ q.match = match
          /\ q.emitted = {} /\ q.commit = s.commit /\ q.votedFor = s.votedFor
      BY <1>3 DEF ServerState
    <2> HIDE DEF q
    <2>4. Fits(q, H)
      BY <1>1, <1>3, <2>1, <2>3, FitsFrame DEF RespWith
    <2>5. m.from \in Server /\ m.kind = "AppendEntriesResp" /\ m.match \in Nat /\ m.success \in BOOLEAN
      BY DEF AppendEntriesRespMsg
    <2>6. Ran(q, MaybeAdvanceCommit(q))
      BY <1>1, <2>3, CountRuns, RanStart
    <2>7. Ran(q, c)
      BY <1>3, <2>3, <2>4, <2>5, <2>6, SendRuns, RanStart
    <2> HIDE DEF c
    <2>8. /\ r.role = c.role /\ r.log = c.log /\ r.base = c.base /\ r.term = c.term
          /\ r.match = c.match /\ r.votedFor = c.votedFor /\ r.commit = c.commit
          /\ r.emitted = c.emitted /\ r.out = c.out
      BY SMTT(30) DEF ConfirmReads, ServerState, Ran
    <2>9. r \in ServerState
      BY <2>7, ConfirmReadsKeeps DEF Keeps, Ran
    <2> HIDE DEF r
    <2>10. /\ r.role = "leader" /\ r.log = s.log /\ r.term = s.term /\ r.match = match
           /\ r.votedFor = s.votedFor /\ Counted(s.commit, r) /\ \A x \in r.out : Sends(r, x)
      BY <2>3, <2>7, <2>8, <2>9, RanFrame DEF Ran
    <2>11. ASSUME NEW p \in Server PROVE MatchFrom(i, s, r, p)
      <3>1. CASE match[p] = s.match[p]
        BY <1>3, <2>10, <3>1 DEF MatchFrom
      <3>2. CASE m.success /\ p = m.from /\ match[p] = m.match
        BY <2>5, <2>10, <3>2 DEF MatchFrom
      <3> QED
        BY <2>1, <3>1, <3>2 DEF Max2, RespWith
    <2> QED
      BY <1>3, <2>2, <2>10, <2>11 DEF Effect, Voting, Led
  <1> QED
    BY <1>2, <1>3

\* The commit index of a follower follows, up to the end of its log (FollowCommit).
LEMMA FollowCommitIs ==
    ASSUME NEW s \in ServerState, s.base.index = 0, s.base.term = 0, NEW n \in Nat
    PROVE  LET r == FollowCommit(s, n)
           IN  /\ r \in ServerState /\ r.role = s.role /\ r.log = s.log /\ r.term = s.term
               /\ r.votedFor = s.votedFor /\ r.out = s.out
               /\ \/ r.commit = s.commit /\ r.emitted = s.emitted
                  \/ /\ r.commit <= n /\ r.commit <= Len(r.log)
                     /\ r.emitted = s.emitted \cup Entries(r.log, s.commit, r.commit)
  <1>1. LastIndex(s) = Len(s.log) /\ Len(s.log) \in Nat
    BY NoBase, SMTT(30)
  <1>2. CASE ~(n > s.commit)
    BY <1>2 DEF FollowCommit
  <1>3. CASE n > s.commit
    <2> DEFINE k == Min2(n, LastIndex(s))
    <2>1. k \in Nat /\ k <= n /\ k <= Len(s.log)
      BY <1>1, SMTT(30) DEF Min2
    <2>2. FollowCommit(s, n) = EmitCommitted(s, k)
      BY <1>3 DEF FollowCommit
    <2> DEFINE r == EmitCommitted(s, k)
    <2> HIDE DEF k
    <2>3. /\ r \in ServerState /\ r.role = s.role /\ r.log = s.log /\ r.term = s.term
          /\ r.votedFor = s.votedFor /\ r.out = s.out /\ r.commit = k
          /\ r.emitted = s.emitted \cup Entries(s.log, s.commit, k)
      BY <2>1, EmitCommittedIs
    <2> HIDE DEF r
    <2>4. FollowCommit(s, n) = r
      BY <2>2 DEF r
    <2> QED
      BY <2>1, <2>3, <2>4
  <1> QED
    BY <1>2, <1>3

\* A log that accepted all of L has it, and is the log that was there, or L.
LEMMA AcceptedAll ==
    ASSUME NEW log \in Seq(Nat), NEW L \in Seq(Nat), NEW T, Overwritten(T, log, L, Len(L))
    PROVE  Replaced(T, log, L)
  BY SameLog DEF Overwritten, Prefix, Replaced

\* The votes that BecomeFollower and HearLeader leave.
LEMMA FollowerVote ==
    ASSUME NEW s \in ServerState, NEW t \in Nat, NEW ldr, NEW m
    PROVE  /\ t > s.term => BecomeFollower(s, t, ldr).votedFor = Nil
           /\ HearLeader(s, m).votedFor = s.votedFor
  <1> DEFINE b == BecomeFollower(s, s.term, m.from)
             q == IF s.role = "candidate" THEN b ELSE s
  <1> HIDE DEF b
  <1> HIDE DEF q
  <1> QED
    BY SMTT(30) DEF BecomeFollower, ServerState, HearLeader

\* A follower's handling of an append that carries the rest of L (HandleAppendEntries).
LEMMA HandleAppendEntriesEffect ==
    ASSUME NEW H, NEW A, LogsOK(H), NEW i \in Server, NEW s0 \in ServerState, ServerFit(s0, H),
           s0.out = {}, s0.emitted = {}, s0.role # "leader", NEW m \in AppendEntriesMsg,
           m.term = s0.term, NEW L \in H, PieceOf(m, L), m.prev + Len(m.entries) = Len(L),
           Settled(committed, L, m.commit, m.term, H, A)
    PROVE  Effect(i, s0, HandleAppendEntries(i, s0, m), H, A)
  <1> DEFINE s == HearLeader(s0, m)
             n == m.prev + Len(m.entries)
             out == HandleAppendEntries(i, s0, m)
  <1>1. /\ m.from \in Server /\ m.prev \in Nat /\ m.entries \in Seq(Nat) /\ m.commit \in Nat
        /\ LastOf(L) = m.term /\ L \in Seq(Nat)
    BY DEF AppendEntriesMsg, PieceOf, LogsOK
  <1>2. /\ s \in ServerState /\ s.term = s0.term /\ s.base = s0.base /\ s.log = s0.log
        /\ s.role # "leader" /\ s.role # "candidate" /\ s.out = {} /\ s.emitted = {}
        /\ s.commit = s0.commit
    BY <1>1, HearLeaderIs, SMTT(30)
  <1>3. s.votedFor = s0.votedFor
    BY FollowerVote
  <1> HIDE DEF s
  <1>4. ServerFit(s, H)
    BY <1>2 DEF ServerFit
  <1>5. out = AcceptEntries(i, s, m, m.prev, m.prevTerm, m.entries)
    <2>1. m.prev >= s.base.index
      BY <1>1, <1>4, SMTT(30) DEF ServerFit
    <2> QED
      BY <2>1 DEF HandleAppendEntries, s
  <1>6. CASE m.prev > LastIndex(s) \/ TermAt(s, m.prev) # m.prevTerm
    <2> DEFINE resp == AppendEntriesResp(i, s, m.from, FALSE, 0, ConflictHint(s, m.prev), m.hbSeq)
               r == [s EXCEPT !.out = @ \cup {resp}]
    <2>1. Plain(resp)
      BY DEF AppendEntriesResp, Plain
    <2>2. out = r
      BY <1>5, <1>6 DEF AcceptEntries, Send
    <2> HIDE DEF resp
    <2>3. /\ r.log = s.log /\ r.term = s.term /\ r.role = s.role /\ r.out = {resp}
          /\ r.emitted = {} /\ r.commit = s.commit /\ r.votedFor = s.votedFor
      BY <1>2 DEF ServerState
    <2> HIDE DEF r, out
    <2> QED
      BY <1>2, <1>3, <2>1, <2>2, <2>3 DEF Effect, out, Quiet, Voting
  <1>7. CASE ~(m.prev > LastIndex(s) \/ TermAt(s, m.prev) # m.prevTerm)
    <2> DEFINE T == Overwrite(s, m.prev, m.entries)
               q == [s EXCEPT !.log = T]
               c == FollowCommit(q, m.commit)
               resp == AppendEntriesResp(i, s, m.from, TRUE, n, 0, m.hbSeq)
               r == [c EXCEPT !.out = @ \cup {resp}]
    <2>1. Overwritten(T, s.log, L, n)
      BY <1>1, <1>2, <1>4, <1>7, AcceptedLog, Fields, SMTT(30)
    <2>2. out = r
      BY <1>5, <1>7 DEF AcceptEntries, Send
    <2>3. resp.kind = "AppendEntriesResp" /\ resp.match = n
      BY DEF AppendEntriesResp
    <2> HIDE DEF T, resp, out
    <2>4. T \in Seq(Nat) /\ s.log \in Seq(Nat)
      BY <1>2, <2>1, Fields DEF Overwritten
    <2>5. Replaced(T, s.log, L)
      BY <1>1, <2>1, <2>4, AcceptedAll
    <2>6. /\ q \in ServerState /\ q.base = s.base /\ q.log = T /\ q.term = s.term /\ q.role = s.role
          /\ q.out = {} /\ q.emitted = {} /\ q.commit = s.commit /\ q.votedFor = s.votedFor
      BY <1>2, <2>4 DEF ServerState
    <2> HIDE DEF q
    <2>7. /\ c \in ServerState /\ c.role = q.role /\ c.log = q.log /\ c.term = q.term
          /\ c.votedFor = q.votedFor /\ c.out = q.out
          /\ \/ c.commit = q.commit /\ c.emitted = q.emitted
             \/ /\ c.commit <= m.commit /\ c.commit <= Len(c.log)
                /\ c.emitted = q.emitted \cup Entries(c.log, q.commit, c.commit)
      BY <1>1, <1>4, <2>6, FollowCommitIs DEF ServerFit
    <2> HIDE DEF c
    <2>8. /\ r.role = c.role /\ r.log = c.log /\ r.term = c.term /\ r.votedFor = c.votedFor
          /\ r.commit = c.commit /\ r.emitted = c.emitted /\ r.out = {resp}
      BY <2>6, <2>7 DEF ServerState
    <2> HIDE DEF r
    <2>9. /\ r.role # "leader" /\ r.role # "candidate" /\ r.term = m.term /\ r.log = T
          /\ r.votedFor = s0.votedFor
      BY <1>2, <1>3, <2>6, <2>7, <2>8
    <2>10. \/ r.commit = s0.commit /\ r.emitted = {}
           \/ /\ r.commit <= m.commit /\ r.commit <= Len(r.log)
              /\ r.emitted = Entries(r.log, s0.commit, r.commit)
      <3>1. q.emitted \cup Entries(c.log, q.commit, c.commit) = Entries(c.log, q.commit, c.commit)
        BY <2>6
      <3> QED
        BY <1>2, <2>6, <2>7, <2>8, <3>1
    <2>11. \A x \in r.out : x.kind = "AppendEntriesResp" /\ x.match <= Len(L)
      BY <2>3, <2>8, SMTT(30)
    <2> QED
      BY <1>1, <1>2, <2>2, <2>5, <2>9, <2>10, <2>11
         DEF Effect, Followed, out, Voting, FollowedWith
  <1> QED
    BY <1>6, <1>7

\* A server that became a follower of a newer term first.
LEMMA EffectAfterFollower ==
    ASSUME NEW i, NEW s, NEW f, NEW r, NEW H, NEW A, Effect(i, f, r, H, A),
           s.term \in Nat, f.term \in Nat, r.term \in Nat, f.term > s.term,
           f.role = "follower", f.votedFor = Nil, f.log = s.log, f.commit = s.commit
    PROVE  Effect(i, s, r, H, A)
  <1>1. f.term # s.term /\ (r.term > f.term => r.term > s.term)
    BY SMTT(30)
  <1>2. Voting(i, s, r)
    BY <1>1 DEF Effect, Voting
  <1>3. Led(i, f, r) => Led(i, s, r)
    BY <1>1 DEF Led, MatchFrom
  <1>4. Quiet(f, r) => Quiet(s, r)
    BY DEF Quiet
  <1>5. Followed(f, r, H, A) => Followed(s, r, H, A)
    BY DEF Followed, FollowedWith
  <1> QED
    BY <1>2, <1>3, <1>4, <1>5 DEF Effect

\* A leader that goes on leading with the same log.
LEMMA RanEffect ==
    ASSUME NEW i, NEW s, NEW r, NEW H, NEW A, s.role = "leader", Ran(s, r)
    PROVE  Effect(i, s, r, H, A)
  BY DEF Ran, MatchFrom, Led, Voting, Effect

\* The heartbeat of a leader and the start of a read.
LEMMA HeartbeatEffect ==
    ASSUME NEW H, NEW A, LogsOK(H), NEW i \in Server, NEW s \in ServerState, Fits(s, H),
           s.role = "leader", s.out = {}, s.emitted = {}, Len(s.log) <= MaxEntries, NEW floor \in Nat
    PROVE  Effect(i, s, Heartbeat(i, s), H, A) /\ Effect(i, s, StartReadIndex(i, s, floor), H, A)
  <1> DEFINE seq == s.hbSeq + 1
             read == [index |-> s.commit, floor |-> floor]
             pend == s.pending \cup {[seq |-> seq, index |-> s.commit, floor |-> floor]}
             conf == s.confirmed \cup {read}
             q == [s EXCEPT !.hbSeq = seq]
             r == [s EXCEPT !.hbSeq = seq, !.pending = pend]
             d == [s EXCEPT !.confirmed = conf]
  <1>1. /\ seq \in Nat /\ pend \in SUBSET [seq : Nat, index : Nat, floor : Nat]
        /\ conf \in SUBSET [index : Nat, floor : Nat]
    <2>1. /\ s.pending \in SUBSET [seq : Nat, index : Nat, floor : Nat]
          /\ s.confirmed \in SUBSET [index : Nat, floor : Nat]
      BY DEF ServerState
    <2> QED
      BY <2>1, Fields, SMTT(30)
  <1>2. Heartbeat(i, s) = BroadcastAppend(i, q)
    BY DEF Heartbeat
  <1>3. StartReadIndex(i, s, floor) = IF IsQuorum({i}) THEN d ELSE BroadcastAppend(i, r)
    BY DEF StartReadIndex
  <1> HIDE DEF seq, pend, conf
  <1>4. ASSUME NEW x \in ServerState, x.role = s.role, x.log = s.log, x.base = s.base,
               x.term = s.term, x.match = s.match, x.votedFor = s.votedFor, x.commit = s.commit,
               x.emitted = s.emitted, x.out = s.out
        PROVE  Ran(s, x)
    BY <1>4, RanStart, RanFrame
  <1>5. Ran(s, q) /\ q \in ServerState /\ q.log = s.log
    <2>1. /\ q \in ServerState /\ q.role = s.role /\ q.log = s.log /\ q.base = s.base
          /\ q.term = s.term /\ q.match = s.match /\ q.votedFor = s.votedFor
          /\ q.commit = s.commit /\ q.emitted = s.emitted /\ q.out = s.out
      BY <1>1 DEF ServerState
    <2> HIDE DEF q
    <2> QED
      BY <1>4, <2>1
  <1>6. Ran(s, r) /\ r \in ServerState /\ r.log = s.log
    <2>1. /\ r \in ServerState /\ r.role = s.role /\ r.log = s.log /\ r.base = s.base
          /\ r.term = s.term /\ r.match = s.match /\ r.votedFor = s.votedFor
          /\ r.commit = s.commit /\ r.emitted = s.emitted /\ r.out = s.out
      BY <1>1 DEF ServerState
    <2> HIDE DEF r
    <2> QED
      BY <1>4, <2>1
  <1>7. Ran(s, d)
    <2>1. /\ d \in ServerState /\ d.role = s.role /\ d.log = s.log /\ d.base = s.base
          /\ d.term = s.term /\ d.match = s.match /\ d.votedFor = s.votedFor
          /\ d.commit = s.commit /\ d.emitted = s.emitted /\ d.out = s.out
      BY <1>1 DEF ServerState
    <2> HIDE DEF d
    <2> QED
      BY <1>4, <2>1
  <1>8. Fits(q, H) /\ Fits(r, H)
    BY CountersFit
  <1> HIDE DEF q, r, d
  <1>9. Ran(s, BroadcastAppend(i, q)) /\ Ran(s, BroadcastAppend(i, r))
    BY <1>5, <1>6, <1>8, SendRuns
  <1> QED
    BY <1>2, <1>3, <1>7, <1>9, RanEffect

=============================================================================
