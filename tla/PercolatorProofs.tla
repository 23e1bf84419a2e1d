-------------------------- MODULE PercolatorProofs --------------------------
(***************************************************************************)
(* Two-phase commit over lock records, for any keys, ranges, transactions  *)
(* and scripts, with crashed clients, resolvers, retries and late calls.   *)
(*                                                                         *)
(* The inductive invariant Inv(d) speaks of records d, so that a step that *)
(* executes a call and moves a client can be taken apart: lemma            *)
(* ExecuteInv takes Inv(db) to Inv(db') while the clients stand still, and *)
(* lemma MoveInv takes Inv(db') to Inv(db)' for any move of a client that  *)
(* keeps the promises listed there.  What remains is one lemma per action. *)
(***************************************************************************)
EXTENDS Percolator, WellFoundedInduction, TLAPS

-----------------------------------------------------------------------------
(* The invariant. *)

Resolving == {"lookup", "expire", "outcome", "poison", "fix"}
Aborting == {"abort", "aborted"}
Sending == {"prewrite", "commit", "rollforward", "abort", "expire", "poison", "fix"}

\* Client t is in the prewrite loop of Commit, resolutions included.
Deciding(t) ==
    \/ client[t].pc \in {"prewrite", "conflict", "allocate"}
    \/ client[t].pc \in Resolving /\ ~client[t].active

Started(s) == s # 0 /\ \E t \in Txn : client[t].start = s

\* The primary of t is committed at ts, or carries a rollback marker.
Committed(d, t, ts) ==
    \E w \in d.write : /\ w.start = client[t].start /\ w.key = Primary(t)
                       /\ w.kind # "rollback" /\ w.ts = ts
Poisoned(d, t) ==
    \E w \in d.write : /\ w.start = client[t].start /\ w.key = Primary(t)
                       /\ w.kind = "rollback"

CommitSent(t) == \E c \in calls : c.kind = "commit" /\ c.start = client[t].start

\* Nothing of t will ever be committed.
Hopeless(d, t) ==
    \/ Poisoned(d, t)
    \/ client[t].pc \in Aborting /\ ~CommitSent(t)

\* Key k carries a lock or a record of t.
Recorded(d, t, k) == \E w \in d.write : w.key = k /\ w.start = client[t].start
Holds(d, t, k) == d.lock[k].start = client[t].start \/ Recorded(d, t, k)

HasData(d, t, k) == \E x \in d.data : x.key = k /\ x.start = client[t].start

\* A call with the start timestamp of t: commits go to a secondary only when the
\* primary is committed, rollbacks only when it never will be or t gave up on it.
CallOK(d, t, c) ==
    /\ c.key \in Writes(t)
    /\ c.kind = "prewrite" => c.op = Mutation[t][c.key] /\ c.value = t /\ c.primary = Primary(t)
    /\ c.kind = "commit" =>
          /\ client[t].pc \in {"commit", "rollforward", "committed"} \cup Aborting
          /\ client[t].prewritten = Writes(t)
          /\ client[t].start < c.cts /\ c.cts <= clock
          /\ c.key = Primary(t) \/ Committed(d, t, c.cts)
    /\ c.kind = "rollback" => c.key = Primary(t) \/ client[t].gaveUp \/ Hopeless(d, t)

\* A write record with the start timestamp of t.
WriteOK(d, t, w) ==
    /\ w.key \in Writes(t)
    /\ w.kind = "rollback" =>
          /\ w.ts = w.start
          /\ w.key = Primary(t) \/ client[t].gaveUp \/ Hopeless(d, t)
    /\ w.kind # "rollback" =>
          /\ w.kind = Mutation[t][w.key]
          /\ \E c \in calls : /\ c.kind = "commit" /\ c.key = Primary(t)
                              /\ c.start = w.start /\ c.cts = w.ts
          /\ Committed(d, t, w.ts)
          /\ w.kind = "put" => HasData(d, t, w.key)

\* A lock of t on k: whoever committed to k did so before t began.
LockOK(d, t, k) ==
    /\ k \in Writes(t)
    /\ d.lock[k].primary = Primary(t)
    /\ d.lock[k].op = Mutation[t][k]
    /\ d.lock[k].op = "put" => HasData(d, t, k)
    /\ \A w \in d.write : w.key = k /\ w.kind # "rollback" => w.ts < client[t].start

\* A lock that a client resolves is or was one that some transaction placed.
MetOK(m) ==
    \E t \in Txn : /\ m.start # 0 /\ client[t].start = m.start
                   /\ m.key \in Writes(t) /\ m.primary = Primary(t)

\* Client t has begun, at a timestamp that was given out.
BeginOK(t) ==
    LET c == client[t] IN
    /\ c.start <= clock
    /\ c.start = 0 => c = Idle
    /\ c.pc = "idle" => c.start = 0

\* What client t may rely on in the phases of Commit.
PhaseOK(d, t) ==
    LET c == client[t] IN
    /\ c.gaveUp => c.pc \in Aborting
    /\ c.pc \in Aborting => c.gaveUp \/ Hopeless(d, t)
    /\ \A k \in c.prewritten : k \in Writes(t) /\ Holds(d, t, k)
    /\ c.pc = "commit" => c.prewritten = Writes(t) /\ Writes(t) # {}
    /\ c.pc \in {"rollforward", "committed"} /\ Writes(t) # {} =>
          c.prewritten = Writes(t) /\ \E w \in d.write : Committed(d, t, w.ts)

\* The loops of client t: what they have left, and the lock they resolve.
LoopOK(t) ==
    LET c == client[t] IN
    /\ c.pc \in Resolving => MetOK(c.met)
    /\ Deciding(t) => /\ c.todo \cup c.prewritten = Writes(t)
                      /\ Writes(t) # {}
                      /\ c.todo = {} <=> c.pc = "allocate"
    /\ c.pc \in {"prewrite", "conflict", "allocate", "commit", "rollforward", "abort"} => ~c.active
    /\ c.pc \in {"active", "columns", "scan", "walk"} => c.active
    /\ c.pc \in {"rollforward", "abort"} => c.todo # {} /\ c.todo \subseteq c.prewritten
    /\ c.pc = "walk" => c.key \in Key

\* The call that client t waits for.
SentOK(d, t) ==
    LET c == client[t] IN
    /\ c.call \in calls \cup {NoCall}
    /\ c.call # NoCall <=> c.pc \in Sending
    /\ c.pc = "prewrite" => c.call = PrewriteCall(t, First(c.todo))
    /\ c.pc = "commit" => /\ c.call.kind = "commit" /\ c.call.key = Primary(t)
                          /\ c.call.start = c.start
    /\ c.pc = "rollforward" => /\ c.call.kind = "commit" /\ c.call.start = c.start
                               /\ Committed(d, t, c.call.cts)
    /\ c.pc \in {"expire", "poison"} => c.call = RollbackCall(c.met.primary, c.met.start)

ClientOK(d, t) == BeginOK(t) /\ PhaseOK(d, t) /\ LoopOK(t) /\ SentOK(d, t)

\* Every call and every record belongs to a transaction.
Known(d) ==
    /\ \A c \in calls : Started(c.start)
    /\ \A k \in Key : HasLock(d, k) => Started(d.lock[k].start)
    /\ \A w \in d.write : Started(w.start)
    /\ \A x \in d.data : Started(x.start)

TxnOK(d, t) ==
    client[t].start # 0 =>
        /\ \A c \in calls : c.start = client[t].start => CallOK(d, t, c)
        /\ \A k \in Key : d.lock[k].start = client[t].start => LockOK(d, t, k)
        /\ \A w \in d.write : w.start = client[t].start => WriteOK(d, t, w)
        /\ \A x \in d.data : x.start = client[t].start => x.key \in Writes(t) /\ x.value = t

\* OneFate, of any records.
Single(d) ==
    /\ \A w \in d.write : d.lock[w.key].start # w.start
    /\ \A w, x \in d.write : w.key = x.key /\ w.start = x.start => w = x

OwnStarts == \A t, u \in Txn : client[t].start = client[u].start /\ client[t].start # 0 => t = u

\* A transaction has one commit timestamp, which it shares with nobody.
Times ==
    /\ \A b, c \in calls : b.kind = "commit" /\ c.kind = "commit"
                              => (b.start = c.start <=> b.cts = c.cts)
    /\ \A c \in calls, t \in Txn : c.kind = "commit" => c.cts # client[t].start

Records == [lock : [Key -> LockRecord], write : SUBSET WriteRecord, data : SUBSET DataRecord]
Typed(d) ==
    /\ d \in Records
    /\ client \in [Txn -> ClientState]
    /\ calls \in SUBSET Call
    /\ clock \in Nat

Inv(d) ==
    /\ Typed(d)
    /\ OwnStarts
    /\ Times
    /\ Known(d)
    /\ Single(d)
    /\ \A t \in Txn : ClientOK(d, t) /\ TxnOK(d, t)

-----------------------------------------------------------------------------
(* Operators. *)

\* Zenon proves the leaves that name no other prover.
USE ZenonT(30)

\* The relation that WellFoundedInduction speaks of is the order of numbers.
LEMMA LessIsOpToRel ==
    ASSUME NEW x \in Nat, NEW y \in Nat, y < x
    PROVE  <<y, x>> \in OpToRel(<, Nat)
  BY SMTT(30) DEF OpToRel

\* First picks the least element of a set of naturals: the order in which the
\* keys of a transaction are prewritten, committed and rolled back.
LEMMA FirstMember ==
    ASSUME NEW S, S \subseteq Nat, S # {}
    PROVE  First(S) \in S /\ \A k \in S : First(S) <= k
  <1>1. PICK x \in S : \A y \in S : ~(<<y, x>> \in OpToRel(<, Nat))
    BY NatLessThanWellFounded, WFMin
  <1>2. \A y \in S : x <= y
    <2> SUFFICES ASSUME NEW y \in S PROVE x <= y
      OBVIOUS
    <2>1. ~(y < x)
      BY <1>1, LessIsOpToRel
    <2> QED
      BY <2>1, SMTT(30)
  <1> QED
    BY <1>2 DEF First

\* The first key of a transaction that writes.
LEMMA FirstKey ==
    ASSUME NEW S, S \subseteq Key, S # {}
    PROVE  First(S) \in S /\ First(S) \in Key
  BY FirstMember, KeyAssumption

\* A transaction with a key has a primary, which is one of its keys.
LEMMA PrimaryIsWritten ==
    ASSUME NEW t \in Txn, Writes(t) # {}
    PROVE  Primary(t) \in Writes(t) /\ Primary(t) \in Key
  BY FirstKey, ScriptAssumption DEF Writes, Primary

\* The fields of a call.
LEMMA CallFields ==
    ASSUME NEW c \in Call
    PROVE  /\ c.kind \in {"prewrite", "commit", "rollback"}
           /\ c.key \in Key
           /\ c.start \in Nat
           /\ c.kind = "prewrite" => /\ c.op \in {"put", "delete"}
                                     /\ c.value \in Txn
                                     /\ c.primary \in Key
           /\ c.kind = "commit" => c.cts \in Nat
  BY DEF Call

\* Calls have their types.
LEMMA CallTypes ==
    ASSUME NEW k \in Key, NEW s \in Nat, NEW ts \in Nat
    PROVE  CommitCall(k, s, ts) \in Call /\ RollbackCall(k, s) \in Call
  BY DEF CommitCall, RollbackCall, Call

\* A client that expires or poisons a lock rolls its primary back.
LEMMA RollbackFields ==
    ASSUME NEW t, client[t].call = RollbackCall(client[t].met.primary, client[t].met.start)
    PROVE  /\ client[t].call.kind = "rollback"
           /\ client[t].call.key = client[t].met.primary
           /\ client[t].call.start = client[t].met.start
  BY SMTT(30) DEF RollbackCall

\* A client that left its initial state has taken its start timestamp.
LEMMA PastIdle ==
    ASSUME NEW t, BeginOK(t), client[t].pc # "idle"
    PROVE  client[t].start # 0
  BY SMTT(30) DEF BeginOK, Idle

\* NoCall is not a call.
LEMMA NoCallIsNone == NoCall \notin Call
  BY CallFields DEF NoCall

\* The fields of the records.
LEMMA RecordFields ==
    ASSUME NEW d \in Records
    PROVE  /\ d.lock \in [Key -> LockRecord]
           /\ d.write \subseteq WriteRecord
           /\ d.data \subseteq DataRecord
           /\ \A k \in Key : d.lock[k].start \in Nat
           /\ \A w \in d.write : /\ w.key \in Key /\ w.ts \in Nat /\ w.start \in Nat
                                 /\ w.kind \in {"put", "delete", "rollback"}
           /\ \A x \in d.data : x.key \in Key /\ x.start \in Nat /\ x.value \in Txn
  BY DEF Records, LockRecord, WriteRecord, DataRecord

\* The fields of a client.
LEMMA ClientFields ==
    ASSUME NEW c \in ClientState
    PROVE  /\ c.pc \in Pcs
           /\ c.active \in BOOLEAN
           /\ c.start \in Nat
           /\ c.todo \in SUBSET Key
           /\ c.prewritten \in SUBSET Key
           /\ c.key \in Key \cup {0}
           /\ c.met.key \in Key \cup {0}
           /\ c.met.start \in Nat
           /\ c.met.primary \in Key \cup {0}
           /\ c.call \in Call \cup {NoCall}
           /\ c.gaveUp \in BOOLEAN
  BY DEF ClientState

\* A write record belongs to a transaction; it lies at or above the start of the
\* transaction, above it when it commits, and not above the clock.
LEMMA RecordTimes ==
    ASSUME NEW d, Inv(d), NEW w \in d.write
    PROVE  /\ \E t \in Txn : client[t].start = w.start /\ w.start # 0 /\ WriteOK(d, t, w)
           /\ w.start <= w.ts /\ w.ts <= clock
           /\ w.kind # "rollback" => w.start < w.ts
  BY RecordFields, SMTT(30) DEF Inv, Typed, Known, Started, TxnOK, ClientOK, BeginOK, WriteOK, CallOK

\* FindTxnOutcome finds the record of a key in a transaction if there is one.
LEMMA FoundIsThere ==
    ASSUME NEW d, Inv(d), NEW k, NEW s
    PROVE  FoundOutcome(d, k, s) = {w \in d.write : w.key = k /\ w.start = s}
  BY RecordTimes, RecordFields, SMTT(30) DEF FoundOutcome, WritesOf, Inv, Typed, Single

\* The commit timestamps that it finds.
LEMMA CommittedAsIs ==
    ASSUME NEW d, Inv(d), NEW k, NEW s
    PROVE  CommittedAs(d, k, s) =
               {w.ts : w \in {x \in d.write : x.key = k /\ x.start = s /\ x.kind # "rollback"}}
  BY FoundIsThere, SMTT(30) DEF CommittedAs

\* Of records that are not newer than a bound one is the newest.
LEMMA NewestRecord ==
    ASSUME NEW S, S # {}, NEW b \in Nat, \A w \in S : w.ts \in Nat /\ w.ts <= b
    PROVE  \E w \in S : \A v \in S : v.ts <= w.ts
  <1> DEFINE T == {b - w.ts : w \in S}
  <1>1. T \subseteq Nat /\ T # {}
    BY SMTT(30) DEF T
  <1>2. PICK w \in S : First(T) = b - w.ts
    BY <1>1, FirstMember DEF T
  <1>3. ASSUME NEW v \in S PROVE v.ts <= w.ts
    <2>1. b - w.ts <= b - v.ts
      BY <1>2, FirstMember, SMTT(30) DEF T
    <2> QED
      BY <2>1, SMTT(30)
  <1> QED
    BY <1>3

\* ApplyPrewrite is refused where the transaction has a record already, or where
\* another one has committed since it began, however many markers lie above.
LEMMA PrewriteSees ==
    ASSUME NEW d, Inv(d), NEW w \in d.write, NEW s \in Nat,
           w.start = s \/ (w.kind # "rollback" /\ w.ts >= s)
    PROVE  PrewriteAborts(d, w.key, s) \/ PrewriteConflicts(d, w.key, s)
  <1> DEFINE S == {v \in d.write : v.key = w.key /\ v.kind # "rollback" /\ v.ts >= s}
  <1>1. /\ clock \in Nat
        /\ \A v \in d.write : /\ v.ts \in Nat /\ v.start \in Nat
                              /\ v.start <= v.ts /\ v.ts <= clock
    BY RecordTimes, RecordFields DEF Inv, Typed
  <1>2. CASE S # {}
    <2>1. PICK v \in S : \A x \in S : x.ts <= v.ts
      BY <1>1, <1>2, NewestRecord
    <2> QED
      BY <1>1, <2>1, SMTT(30) DEF PrewriteConflicts, ConflictWalk, WritesOf
  <1>3. CASE S = {}
    BY <1>1, <1>3, SMTT(30) DEF WriteOK, ConflictWalk, WritesOf, PrewriteAborts
  <1> QED
    BY <1>2, <1>3

-----------------------------------------------------------------------------
(* Executing a call.  The clients stand still. *)

\* What is known of clients and calls stays true while records are added and no
\* transaction loses both its lock and its record on a key.
LEMMA CarryOver ==
    ASSUME NEW d, NEW r, NEW t \in Txn, d.write \subseteq r.write,
           client[t].start # 0 => \A k \in Key : Holds(d, t, k) => Holds(r, t, k)
    PROVE  /\ ClientOK(d, t) => ClientOK(r, t)
           /\ \A c : CallOK(d, t, c) => CallOK(r, t, c)
           /\ Hopeless(d, t) => Hopeless(r, t)
           /\ \A ts : Committed(d, t, ts) => Committed(r, t, ts)
  <1>1. ASSUME ClientOK(d, t) PROVE ClientOK(r, t)
    BY <1>1, ScriptAssumption, SMTT(30)
       DEF ClientOK, BeginOK, Idle, PhaseOK, Writes, SentOK, Committed, Hopeless, Poisoned
  <1> QED
    BY <1>1 DEF CallOK, Committed, Hopeless, Poisoned

\* A call belongs to a transaction.
LEMMA CallOwner ==
    ASSUME NEW d, Inv(d), NEW c \in calls
    PROVE  /\ \E t \in Txn : client[t].start = c.start /\ CallOK(d, t, c)
           /\ c.start # 0 /\ c.start \in Nat /\ c.key \in Key /\ c \in Call
  BY CallFields DEF Inv, Known, Started, TxnOK, Typed

\* ApplyPrewrite.
LEMMA PrewriteInv ==
    ASSUME NEW d, Inv(d), NEW c \in calls, c.kind = "prewrite",
           NEW r, r = ApplyPrewrite(d, c).db
    PROVE  Inv(r)
  <1> DEFINE k == c.key
             s == c.start
             lock == [start |-> s, primary |-> c.primary, op |-> c.op]
  <1>1. PICK t \in Txn : client[t].start = s /\ CallOK(d, t, c)
    BY CallOwner
  <1>2. s # 0 /\ s \in Nat /\ k \in Key /\ c \in Call /\ c.op \in {"put", "delete"}
        /\ c.primary \in Key /\ c.value \in Txn
    BY CallOwner, CallFields
  <1>3. d \in Records
    BY DEF Inv, Typed
  <1>4. CASE r = d
    BY <1>4
  <1>5. CASE r # d
    <2>1. /\ ~PrewriteAborts(d, k, s)
          /\ ~PrewriteConflicts(d, k, s)
          /\ ~HasLock(d, k)
          /\ r = [d EXCEPT !.lock[k] = lock,
                           !.data = IF c.op = "put"
                                    THEN @ \cup {[key |-> k, start |-> s, value |-> c.value]}
                                    ELSE @]
      BY <1>5 DEF ApplyPrewrite
    <2>2. /\ r.write = d.write
          /\ r.lock = [d.lock EXCEPT ![k] = lock]
          /\ r.data = IF c.op = "put"
                      THEN d.data \cup {[key |-> k, start |-> s, value |-> c.value]}
                      ELSE d.data
      BY <2>1, SMTT(30) DEF Records
    <2>3. r \in Records
      <3>1. r = [lock |-> r.lock, write |-> d.write, data |-> r.data]
        BY <1>3, <2>1 DEF Records
      <3> QED
        BY <1>2, <1>3, <2>2, <3>1, SMTT(30) DEF Records, DataRecord, LockRecord
    <2>4. /\ r.lock[k] = lock
          /\ \A j \in Key : j # k => r.lock[j] = d.lock[j]
          /\ d.lock[k].start = 0
      BY <1>2, <1>3, <2>1, RecordFields, SMTT(30) DEF HasLock, NoLock
    <2>5. \A w \in d.write : w.key = k => w.start # s /\ (w.kind # "rollback" => w.ts < s)
      BY <1>2, <1>3, <2>1, PrewriteSees, RecordFields, SMTT(30)
    <2>6. ASSUME NEW u \in Txn, client[u].start # 0, NEW j \in Key, Holds(d, u, j)
          PROVE  Holds(r, u, j)
      BY <2>2, <2>4, <2>6 DEF Holds, Recorded
    <2>7. Single(r)
      BY <2>2, <2>5, SMTT(30) DEF Inv, Single
    <2>8. ASSUME NEW u \in Txn PROVE ClientOK(r, u) /\ TxnOK(r, u)
      <3> SUFFICES ASSUME client[u].start # 0 PROVE TxnOK(r, u)
        BY <2>2, <2>6, CarryOver DEF TxnOK, Inv
      <3>1. ASSUME NEW b \in calls, b.start = client[u].start PROVE CallOK(r, u, b)
        BY <2>2, <2>6, <3>1, CarryOver DEF Inv, TxnOK
      <3>2. ASSUME NEW j PROVE HasData(d, u, j) => HasData(r, u, j)
        BY <2>2 DEF HasData
      <3>3. ASSUME NEW w \in r.write, w.start = client[u].start PROVE WriteOK(r, u, w)
        <4>1. WriteOK(d, u, w)
          BY <2>2, <3>3 DEF Inv, TxnOK
        <4> QED
          BY <2>2, <2>6, <3>2, <4>1, CarryOver DEF WriteOK
      <3>4. ASSUME NEW j \in Key, r.lock[j].start = client[u].start PROVE LockOK(r, u, j)
        <4>1. CASE j # k
          BY <2>2, <3>2, <3>4, <4>1, SMTT(30) DEF Inv, TxnOK, LockOK
        <4>2. CASE j = k
          <5>1. u = t
            BY <1>1, <2>4, <3>4, <4>2, SMTT(30) DEF Inv, OwnStarts
          <5>2. c.op = "put" => HasData(r, u, k)
            <6> SUFFICES ASSUME c.op = "put" PROVE HasData(r, u, k)
              OBVIOUS
            <6> DEFINE x == [key |-> k, start |-> s, value |-> c.value]
            <6>1. x.key = k /\ x.start = client[u].start
              BY <1>1, <5>1
            <6> QED
              BY <2>2, <6>1 DEF HasData
          <5> QED
            BY <1>1, <2>2, <2>4, <2>5, <4>2, <5>1, <5>2, SMTT(30) DEF LockOK, CallOK
        <4> QED
          BY <4>1, <4>2
      <3>5. ASSUME NEW x \in r.data, x.start = client[u].start
            PROVE  x.key \in Writes(u) /\ x.value = u
        BY <2>2, <3>5, SMTT(30) DEF Inv, TxnOK, OwnStarts, CallOK
      <3> QED
        BY <3>1, <3>3, <3>4, <3>5 DEF TxnOK
    <2> QED
      BY <2>2, <2>3, <2>7, <2>8, SMTT(30) DEF Inv, Typed, Known, Started, HasLock
  <1> QED
    BY <1>5

\* ApplyCommit: the lock becomes a record.
LEMMA ApplyCommitInv ==
    ASSUME NEW d, Inv(d), NEW c \in calls, c.kind = "commit",
           NEW r, r = ApplyCommit(d, c).db
    PROVE  Inv(r)
  <1> DEFINE k == c.key
             s == c.start
             w == [key |-> k, ts |-> c.cts, kind |-> d.lock[k].op, start |-> s]
  <1>1. PICK t \in Txn : client[t].start = s /\ CallOK(d, t, c)
    BY CallOwner
  <1>2. s # 0 /\ s \in Nat /\ k \in Key /\ c \in Call /\ c.cts \in Nat
    BY CallOwner, CallFields
  <1>3. d \in Records
    BY DEF Inv, Typed
  <1>4. CASE r = d
    BY <1>4
  <1>5. CASE r # d
    <2>1. d.lock[k].start = s /\ r = Unlock(AddWrite(d, k, c.cts, d.lock[k].op, s), k)
      BY <1>5 DEF ApplyCommit
    <2>2. /\ r.write = d.write \cup {w}
          /\ r.lock = [d.lock EXCEPT ![k] = NoLock]
          /\ r.data = d.data
          /\ r = [lock |-> r.lock, write |-> r.write, data |-> r.data]
      BY <1>3, <2>1 DEF Records, Unlock, AddWrite
    <2>3. LockOK(d, t, k)
      BY <1>1, <1>2, <2>1 DEF Inv, TxnOK
    <2>4. /\ w.key = k /\ w.ts = c.cts /\ w.kind = Mutation[t][k] /\ w.start = s
          /\ w.kind # "rollback"
          /\ w \in WriteRecord
      BY <1>2, <2>3, ScriptAssumption DEF WriteRecord, LockOK, Writes
    <2> HIDE DEF w
    <2>5. r \in Records
      <3>1. r.lock \in [Key -> LockRecord]
        BY <1>2, <1>3, <2>2, RecordFields, SMTT(30) DEF NoLock, LockRecord
      <3> QED
        BY <1>3, <2>2, <2>4, <3>1 DEF Records
    <2>6. /\ r.lock[k] = NoLock /\ r.lock[k].start = 0
          /\ \A j \in Key : j # k => r.lock[j] = d.lock[j]
      BY <1>2, <1>3, <2>2, RecordFields, SMTT(30) DEF NoLock
    <2>7. ASSUME NEW u \in Txn, client[u].start # 0, NEW j \in Key, Holds(d, u, j)
          PROVE  Holds(r, u, j)
      BY <2>1, <2>2, <2>4, <2>6, <2>7, SMTT(30) DEF Holds, Recorded
    <2>8. Known(r)
      BY <2>2, <2>4, SMTT(30) DEF Inv, Known, Started, HasLock
    <2>9. Single(r)
      <3>1. ASSUME NEW v \in r.write PROVE r.lock[v.key].start # v.start
        <4>1. v.key \in Key /\ v.start # 0
          BY <2>5, <2>8, RecordFields DEF Known, Started
        <4>2. CASE v.key = k
          BY <2>6, <4>1, <4>2
        <4>3. CASE v.key # k
          BY <2>2, <2>4, <4>3, SMTT(30) DEF Inv, Single
        <4> QED
          BY <4>2, <4>3
      <3>2. \A v \in d.write : ~(v.key = k /\ v.start = s)
        BY <2>1 DEF Inv, Single
      <3> QED
        BY <2>2, <2>4, <3>1, <3>2, SMTT(30) DEF Inv, Single
    <2>10. Committed(r, t, c.cts)
      BY <1>1, <2>2, <2>4 DEF Committed, CallOK
    <2>11. \E b \in calls : /\ b.kind = "commit" /\ b.key = Primary(t)
                            /\ b.start = s /\ b.cts = c.cts
      BY <1>1, <1>2, SMTT(30) DEF CallOK, Committed, Inv, TxnOK, WriteOK
    <2>12. ASSUME NEW u \in Txn PROVE ClientOK(r, u) /\ TxnOK(r, u)
      <3> SUFFICES ASSUME client[u].start # 0 PROVE TxnOK(r, u)
        BY <2>2, <2>7, CarryOver DEF TxnOK, Inv
      <3>1. ASSUME NEW b \in calls, b.start = client[u].start PROVE CallOK(r, u, b)
        BY <2>2, <2>7, <3>1, CarryOver DEF Inv, TxnOK
      <3>2. ASSUME NEW j PROVE HasData(d, u, j) <=> HasData(r, u, j)
        BY <2>2 DEF HasData
      <3>3. ASSUME NEW v \in r.write, v.start = client[u].start PROVE WriteOK(r, u, v)
        <4>1. CASE v \in d.write
          <5>1. WriteOK(d, u, v)
            BY <3>3, <4>1 DEF Inv, TxnOK
          <5> QED
            BY <2>2, <2>7, <3>2, <5>1, CarryOver DEF WriteOK
        <4>2. CASE v = w
          <5>1. u = t
            BY <1>1, <2>4, <3>3, <4>2 DEF Inv, OwnStarts
          <5> QED
            BY <2>3, <2>4, <2>10, <2>11, <3>2, <4>2, <5>1 DEF WriteOK, CallOK, LockOK
        <4> QED
          BY <2>2, <4>1, <4>2
      <3>4. ASSUME NEW j \in Key, r.lock[j].start = client[u].start PROVE LockOK(r, u, j)
        BY <2>2, <2>4, <2>6, <3>2, <3>4, SMTT(30) DEF Inv, TxnOK, LockOK
      <3>5. ASSUME NEW x \in r.data, x.start = client[u].start
            PROVE  x.key \in Writes(u) /\ x.value = u
        BY <2>2, <3>5 DEF Inv, TxnOK
      <3> QED
        BY <3>1, <3>3, <3>4, <3>5 DEF TxnOK
    <2> QED
      BY <2>5, <2>8, <2>9, <2>12 DEF Inv, Typed
  <1> QED
    BY <1>5

\* ApplyRollback: the lock, or nothing, becomes a marker.
LEMMA ApplyRollbackInv ==
    ASSUME NEW d, Inv(d), NEW c \in calls, c.kind = "rollback",
           NEW r, r = ApplyRollback(d, c).db
    PROVE  Inv(r)
  <1> DEFINE k == c.key
             s == c.start
             own == d.lock[k].start = s
             w == [key |-> k, ts |-> s, kind |-> "rollback", start |-> s]
  <1>1. PICK t \in Txn : client[t].start = s /\ CallOK(d, t, c)
    BY CallOwner
  <1>2. s # 0 /\ s \in Nat /\ k \in Key /\ c \in Call
    BY CallOwner
  <1>3. d \in Records
    BY DEF Inv, Typed
  <1>4. CASE \E v \in d.write : v.key = k /\ v.start = s
    <2>1. PICK v \in d.write : v.key = k /\ v.start = s
      BY <1>4
    <2>2. v \in FoundOutcome(d, k, s)
      BY <2>1, FoundIsThere, SMTT(30)
    <2>3. CommittedAs(d, k, s) # {} \/ RolledBack(d, k, s)
      BY <2>2 DEF CommittedAs, RolledBack
    <2>4. ~own
      BY <2>1 DEF Inv, Single
    <2>5. r = d
      BY <2>3, <2>4 DEF ApplyRollback
    <2> QED
      BY <2>5
  <1>5. CASE ~\E v \in d.write : v.key = k /\ v.start = s
    <2>1. CommittedAs(d, k, s) = {} /\ ~RolledBack(d, k, s)
      BY <1>5, FoundIsThere, SMTT(30) DEF CommittedAs, RolledBack
    <2>2. r = AddWrite(IF own THEN [Unlock(d, k) EXCEPT
                                        !.data = {x \in @ : x.key # k \/ x.start # s}]
                              ELSE d, k, s, "rollback", s)
      BY <2>1 DEF ApplyRollback
    <2>3. /\ r.write = d.write \cup {w}
          /\ r.lock = IF own THEN [d.lock EXCEPT ![k] = NoLock] ELSE d.lock
          /\ r.data = IF own THEN {x \in d.data : x.key # k \/ x.start # s} ELSE d.data
          /\ r = [lock |-> r.lock, write |-> r.write, data |-> r.data]
      BY <1>3, <2>2 DEF Records, Unlock, AddWrite
    <2>4. /\ w.key = k /\ w.ts = s /\ w.kind = "rollback" /\ w.start = s
          /\ w \in WriteRecord
      BY <1>2 DEF WriteRecord
    <2> HIDE DEF w
    <2>5. r \in Records
      <3>1. NoLock \in LockRecord
        BY DEF NoLock, LockRecord
      <3>2. r.lock \in [Key -> LockRecord]
        BY <1>2, <1>3, <2>3, <3>1, RecordFields, SMTT(30)
      <3> QED
        BY <1>3, <2>3, <2>4, <3>2, RecordFields DEF Records
    <2>6. /\ r.lock[k].start # s
          /\ own => r.lock[k] = NoLock /\ r.lock[k].start = 0
          /\ \A j \in Key : j # k \/ ~own => r.lock[j] = d.lock[j]
      BY <1>2, <1>3, <2>3, RecordFields, SMTT(30) DEF NoLock
    <2>7. ASSUME NEW u \in Txn, client[u].start # 0, NEW j \in Key, Holds(d, u, j)
          PROVE  Holds(r, u, j)
      BY <2>3, <2>4, <2>6, <2>7, SMTT(30) DEF Holds, Recorded
    <2>8. Known(r)
      <3>1. ASSUME NEW j \in Key, HasLock(r, j) PROVE HasLock(d, j) /\ r.lock[j] = d.lock[j]
        BY <2>6, <3>1 DEF HasLock
      <3>2. ASSUME NEW v \in r.write PROVE Started(v.start)
        BY <1>1, <1>2, <2>3, <2>4 DEF Inv, Known, Started
      <3>3. ASSUME NEW x \in r.data PROVE x \in d.data
        BY <2>3
      <3> QED
        BY <3>1, <3>2, <3>3 DEF Inv, Known
    <2>9. Single(r)
      <3>1. ASSUME NEW v \in r.write PROVE r.lock[v.key].start # v.start
        <4>1. v.key \in Key /\ v.start # 0
          BY <2>5, <2>8, <3>1, RecordFields DEF Known, Started
        <4>2. CASE v.key = k /\ own
          BY <2>6, <4>1, <4>2
        <4>3. CASE v.key # k \/ ~own
          BY <2>3, <2>4, <2>6, <4>1, <4>3 DEF Inv, Single
        <4> QED
          BY <4>2, <4>3
      <3> QED
        BY <1>5, <2>3, <2>4, <3>1, SMTT(30) DEF Inv, Single
    <2>10. ASSUME NEW u \in Txn PROVE ClientOK(r, u) /\ TxnOK(r, u)
      <3>1. ClientOK(r, u)
        BY <2>3, <2>7, CarryOver DEF Inv
      <3> SUFFICES ASSUME client[u].start # 0 PROVE TxnOK(r, u)
        BY <3>1 DEF TxnOK
      <3>2. ASSUME NEW b \in calls, b.start = client[u].start PROVE CallOK(r, u, b)
        BY <2>3, <2>7, <3>2, CarryOver DEF Inv, TxnOK
      <3>3. ASSUME NEW j, ~(own /\ j = k /\ client[u].start = s)
            PROVE  HasData(d, u, j) => HasData(r, u, j)
        BY <2>3, <3>3 DEF HasData
      <3>4. ASSUME NEW v \in r.write, v.start = client[u].start PROVE WriteOK(r, u, v)
        <4>1. CASE v \in d.write
          <5>1. WriteOK(d, u, v)
            BY <3>4, <4>1 DEF Inv, TxnOK
          <5>2. HasData(d, u, v.key) => HasData(r, u, v.key)
            BY <1>5, <3>3, <3>4, <4>1
          <5> QED
            BY <2>3, <2>7, <5>1, <5>2, CarryOver DEF WriteOK
        <4>2. CASE v = w
          <5>1. u = t
            BY <1>1, <1>2, <2>4, <3>4, <4>2 DEF Inv, OwnStarts
          <5>2. Hopeless(d, u) => Hopeless(r, u)
            BY <2>3, <2>7, CarryOver
          <5> QED
            BY <1>1, <2>4, <4>2, <5>1, <5>2 DEF WriteOK, CallOK
        <4> QED
          BY <2>3, <4>1, <4>2
      <3>5. ASSUME NEW j \in Key, r.lock[j].start = client[u].start PROVE LockOK(r, u, j)
        <4>1. j # k \/ ~own
          BY <2>6, <3>5
        <4>2. LockOK(d, u, j)
          BY <2>6, <3>5, <4>1 DEF Inv, TxnOK
        <4> QED
          BY <2>3, <2>4, <2>6, <3>3, <4>1, <4>2 DEF LockOK
      <3>6. ASSUME NEW x \in r.data, x.start = client[u].start
            PROVE  x.key \in Writes(u) /\ x.value = u
        BY <2>3, <3>6 DEF Inv, TxnOK
      <3> QED
        BY <3>2, <3>4, <3>5, <3>6 DEF TxnOK
    <2> QED
      BY <2>5, <2>8, <2>9, <2>10 DEF Inv, Typed
  <1> QED
    BY <1>4, <1>5

\* A call that was ever sent may be executed at any time.
LEMMA ExecuteInv ==
    ASSUME Inv(db), NEW c \in calls
    PROVE  Inv(Perform(db, c).db)
  BY CallOwner, CallFields, PrewriteInv, ApplyCommitInv, ApplyRollbackInv DEF Perform

-----------------------------------------------------------------------------
(* A client moves.  The records e are those of the next state. *)

\* What the move of client t promises: it does not forget a commit that was sent,
\* and an abort is final.
Promises(t) ==
    /\ CommitSent(t) => /\ client'[t].pc \in {"commit", "rollforward", "committed"}
                                                   \cup Aborting
                        /\ client'[t].prewritten = client[t].prewritten
    /\ client[t].pc \in Aborting => client'[t].pc \in Aborting
    /\ client[t].gaveUp => client'[t].gaveUp
    /\ client'[t].start = client[t].start /\ client[t].start # 0

\* A new commit b carries a timestamp of its own, or that of its transaction.
InTime(b) ==
    /\ \A c \in calls' : c.kind = "commit" => (b.start = c.start <=> b.cts = c.cts)
    /\ \A u \in Txn : b.cts # client[u].start

\* A new call b, sent by client t, is in order.
Ordered(t, b) ==
    /\ b \in Call
    /\ b.kind = "commit" => InTime(b)
    /\ Started(b.start)
    /\ \A u \in Txn : client[u].start = b.start =>
          /\ CallOK(db, u, b)'
          /\ b.kind = "commit" => CommitSent(u) \/ (u = t /\ client'[t].pc \notin Aborting)

\* The invariant is kept by a move that keeps the promises.
LEMMA MoveInv ==
    ASSUME NEW e, e = db', Inv(e), NEW t \in Txn, Promises(t),
           client' \in [Txn -> ClientState], \A u \in Txn : u # t => client'[u] = client[u],
           clock' \in Nat, clock <= clock',
           calls \subseteq calls', \A b \in calls' : b \in calls \/ Ordered(t, b),
           ClientOK(db, t)'
    PROVE  Inv(db)'
  <1>1. /\ client \in [Txn -> ClientState] /\ clock \in Nat /\ calls \subseteq Call
        /\ e \in Records
    BY DEF Inv, Typed
  <1>2. /\ \A u \in Txn : u # t => client'[u] = client[u]
        /\ \A u \in Txn : client'[u].start = client[u].start
    BY DEF Promises
  <1>3. Typed(db)'
    BY <1>1 DEF Typed, Ordered
  <1>4. OwnStarts' /\ Times'
    <2>1. OwnStarts'
      BY <1>2 DEF OwnStarts, Inv
    <2>2. ASSUME NEW b \in calls', b.kind = "commit"
          PROVE  /\ \A c \in calls' : c.kind = "commit" => (b.start = c.start <=> b.cts = c.cts)
                 /\ \A u \in Txn : b.cts # client'[u].start
      BY <1>2, <2>2, SMTT(30) DEF Inv, Times, Ordered, InTime
    <2> QED
      BY <2>1, <2>2 DEF Times
  <1>5. ASSUME NEW s PROVE Started(s) => Started(s)'
    BY <1>2 DEF Started
  <1>6. Known(db)'
    BY <1>5 DEF Known, Inv, Ordered, HasLock
  <1>7. Single(db)'
    BY DEF Single, Inv
  <1>8. ASSUME NEW u \in Txn, NEW k
        PROVE  /\ HasData(db, u, k)' <=> HasData(e, u, k)
               /\ Holds(db, u, k)' <=> Holds(e, u, k)
               /\ Committed(db, u, k)' <=> Committed(e, u, k)
               /\ Poisoned(db, u)' <=> Poisoned(e, u)
    BY <1>2 DEF HasData, Holds, Recorded, Committed, Poisoned
  <1>9. ASSUME NEW u \in Txn, client[u].start # 0, Hopeless(e, u)
        PROVE  Hopeless(db, u)'
    <2>1. CASE Poisoned(e, u)
      BY <1>8, <2>1 DEF Hopeless
    <2>2. CASE client[u].pc \in Aborting /\ ~CommitSent(u)
      <3>1. client'[u].pc \in Aborting
        BY <1>2, <2>2 DEF Promises
      <3>2. ~CommitSent(u)'
        <4> SUFFICES ASSUME NEW b \in calls', b.kind = "commit", b.start = client[u].start
                     PROVE  FALSE
          BY <1>2 DEF CommitSent
        <4>1. b \notin calls
          BY <2>2 DEF CommitSent
        <4> QED
          BY <2>2, <3>1, <4>1 DEF Ordered
      <3> QED
        BY <3>1, <3>2 DEF Hopeless
    <2> QED
      BY <1>9, <2>1, <2>2 DEF Hopeless
  <1>10. ASSUME NEW u \in Txn, client[u].start # 0
         PROVE  client[u].gaveUp => client'[u].gaveUp
    BY <1>2 DEF Promises
  <1>11. ASSUME NEW u \in Txn PROVE ClientOK(db, u)'
    <2> SUFFICES ASSUME u # t PROVE ClientOK(db, u)'
      OBVIOUS
    <2>1. ClientOK(e, u) /\ client'[u] = client[u]
      BY <1>2 DEF Inv
    <2>2. BeginOK(u)'
      <3>1. client[u].start \in Nat
        BY <1>1, ClientFields
      <3> QED
        BY <1>1, <2>1, <3>1, SMTT(30) DEF ClientOK, BeginOK
    <2>3. PhaseOK(db, u)'
      <3>1. client[u].pc \in Aborting => client[u].start # 0
        BY <2>1, SMTT(30) DEF ClientOK, BeginOK, Idle, Aborting
      <3>2. client[u].pc \in Aborting => client[u].gaveUp \/ Hopeless(db, u)'
        BY <1>9, <2>1, <3>1 DEF ClientOK, PhaseOK
      <3>3. (\A k \in client[u].prewritten : k \in Writes(u) /\ Holds(db, u, k))'
        BY <1>8, <2>1 DEF ClientOK, PhaseOK
      <3>4. (\E w \in e.write : Committed(e, u, w.ts))
               => (\E w \in db.write : Committed(db, u, w.ts))'
        BY <2>1 DEF Committed
      <3> QED
        BY <2>1, <3>2, <3>3, <3>4 DEF ClientOK, PhaseOK
    <2>4. LoopOK(u)'
      <3>1. MetOK(client[u].met) => MetOK(client[u].met)'
        BY <1>2, <2>1 DEF MetOK
      <3>2. Deciding(u)' <=> Deciding(u)
        BY <2>1 DEF Deciding
      <3> QED
        BY <2>1, <3>1, <3>2 DEF ClientOK, LoopOK
    <2>5. SentOK(db, u)'
      <3>1. PrewriteCall(u, First(client[u].todo))' = PrewriteCall(u, First(client[u].todo))
        BY <2>1 DEF PrewriteCall
      <3>2. Committed(e, u, client[u].call.cts) => Committed(db, u, client[u].call.cts)'
        BY <2>1 DEF Committed
      <3>3. /\ SentOK(e, u)
            /\ calls \subseteq calls'
        BY <2>1 DEF ClientOK
      <3> QED
        BY <2>1, <3>1, <3>2, <3>3 DEF SentOK
    <2> QED
      BY <2>2, <2>3, <2>4, <2>5 DEF ClientOK
  <1>12. ASSUME NEW u \in Txn, client[u].start # 0 PROVE TxnOK(db, u)'
    <2>1. TxnOK(e, u)
      BY DEF Inv
    <2>2. ASSUME NEW b \in calls', b.start = client[u].start PROVE CallOK(db, u, b)'
      <3>1. CASE b \in calls
        <4>1. CallOK(e, u, b)
          BY <1>12, <2>1, <2>2, <3>1 DEF TxnOK
        <4>2. b.kind = "commit" => /\ client'[u].prewritten = Writes(u)
                                   /\ client'[u].pc \in {"commit", "rollforward", "committed"}
                                                             \cup Aborting
                                   /\ b.cts <= clock'
          <5> SUFFICES ASSUME b.kind = "commit"
                       PROVE  /\ client'[u].prewritten = Writes(u)
                              /\ client'[u].pc \in {"commit", "rollforward", "committed"}
                                                             \cup Aborting
                              /\ b.cts <= clock'
            OBVIOUS
          <5>1. CommitSent(u)
            BY <2>2, <3>1 DEF CommitSent
          <5>2. b.cts \in Nat
            BY <1>1, <3>1, CallFields
          <5> QED
            BY <1>1, <1>2, <4>1, <5>1, <5>2, SMTT(30) DEF Promises, CallOK
        <4> QED
          BY <1>2, <1>8, <1>9, <1>10, <1>12, <4>1, <4>2 DEF CallOK
      <3>2. CASE b \notin calls
        BY <2>2, <3>2 DEF Ordered
      <3> QED
        BY <3>1, <3>2
    <2>3. ASSUME NEW k \in Key, db'.lock[k].start = client[u].start PROVE LockOK(db, u, k)'
      <3>1. LockOK(e, u, k)
        BY <1>12, <2>1, <2>3 DEF TxnOK
      <3> QED
        BY <1>2, <1>8, <3>1 DEF LockOK
    <2>4. ASSUME NEW w \in db'.write, w.start = client[u].start PROVE WriteOK(db, u, w)'
      <3>1. WriteOK(e, u, w)
        BY <1>12, <2>1, <2>4 DEF TxnOK
      <3> QED
        BY <1>8, <1>9, <1>10, <1>12, <3>1 DEF WriteOK
    <2> QED
      BY <1>2, <2>1, <2>2, <2>3, <2>4 DEF TxnOK
  <1>13. ASSUME NEW u \in Txn PROVE TxnOK(db, u)'
    BY <1>2, <1>12 DEF TxnOK
  <1> QED
    BY <1>3, <1>4, <1>6, <1>7, <1>11, <1>13 DEF Inv

-----------------------------------------------------------------------------
(* The moves that several actions share. *)

\* The keys of a transaction are keys, and so are those it has prewritten.
LEMMA WritesAreKeys ==
    ASSUME NEW t \in Txn
    PROVE  Writes(t) \subseteq Key
  BY ScriptAssumption DEF Writes

\* abort_all, when nothing of the transaction will be committed or the client has
\* given up on its primary.
LEMMA AbortAllInv ==
    ASSUME NEW e, e = db', Inv(e), NEW t \in Txn, NEW keys,
           client[t].start # 0, ~client[t].active, client[t].pc # "idle",
           keys \subseteq client[t].prewritten,
           client[t].gaveUp \/ Poisoned(e, t) \/ ~CommitSent(t),
           clock' = clock, AbortAll(t, keys)
    PROVE  Inv(db)'
  <1> DEFINE o == client[t]
             call == RollbackCall(First(keys), o.start)
             c == IF keys = {} THEN [o EXCEPT !.pc = "aborted", !.todo = {}, !.key = 0,
                                              !.met = NoLockMet, !.call = NoCall]
                  ELSE [o EXCEPT !.pc = "abort", !.todo = keys, !.met = NoLockMet, !.call = call]
  <1>1. o \in ClientState /\ clock \in Nat /\ client \in [Txn -> ClientState]
    BY DEF Inv, Typed
  <1>2. ClientOK(e, t)
    BY DEF Inv
  <1>3. keys \subseteq Writes(t) /\ keys \subseteq Key
    BY <1>2, WritesAreKeys DEF ClientOK, PhaseOK
  <1>4. keys # {} => First(keys) \in keys /\ call \in Call
    BY <1>1, FirstKey, CallTypes, ClientFields
  <1>5. c \in ClientState
    BY <1>1, <1>3, <1>4 DEF ClientState, NoLockMet, Pcs
  <1>6. /\ client' = [client EXCEPT ![t] = c]
        /\ calls' = IF keys = {} THEN calls ELSE calls \cup {call}
    BY SMTT(30) DEF AbortAll, Send, Stay, Finish
  <1>7. /\ c.pc = IF keys = {} THEN "aborted" ELSE "abort"
        /\ c.active = o.active /\ c.start = o.start /\ c.todo = keys
        /\ c.prewritten = o.prewritten /\ c.gaveUp = o.gaveUp
        /\ c.call = IF keys = {} THEN NoCall ELSE call
    BY SMTT(30) DEF ClientState
  <1>8. /\ client'[t] = c /\ client' \in [Txn -> ClientState]
        /\ \A u \in Txn : u # t => client'[u] = client[u]
    BY <1>1, <1>5, <1>6
  <1> HIDE DEF c
  <1>9. call.kind = "rollback" /\ call.key = First(keys) /\ call.start = o.start
    BY DEF RollbackCall
  <1> HIDE DEF call
  <1>10. c.gaveUp \/ Hopeless(db, t)'
    BY <1>6, <1>7, <1>8, <1>9 DEF CommitSent, Poisoned, Hopeless, Aborting
  <1>11. \A k \in c.prewritten : k \in Writes(t) /\ Holds(db, t, k)'
    BY <1>2, <1>7, <1>8, SMTT(30) DEF ClientOK, PhaseOK, Holds, Recorded
  <1>12. ClientOK(db, t)'
    <2>1. SentOK(db, t)'
      BY <1>4, <1>6, <1>7, <1>8, NoCallIsNone DEF SentOK, Sending
    <2> QED
      BY <1>2, <1>7, <1>8, <1>10, <1>11, <2>1
         DEF ClientOK, BeginOK, LoopOK, Deciding, Resolving, PhaseOK, Aborting
  <1>13. ASSUME NEW b \in calls', b \notin calls PROVE Ordered(t, b)
    BY <1>3, <1>4, <1>6, <1>8, <1>9, <1>10, <1>13, SMTT(30)
       DEF Ordered, Started, Inv, OwnStarts, CallOK
  <1>14. Promises(t)
    BY <1>7, <1>8 DEF Promises, Aborting
  <1> QED
    BY <1>1, <1>6, <1>8, <1>12, <1>13, <1>14, MoveInv, SMTT(30)

\* What the commit record of a primary says about the client and the time.
LEMMA CommittedFacts ==
    ASSUME NEW d, Inv(d), NEW t \in Txn, client[t].start # 0, NEW ts, Committed(d, t, ts)
    PROVE  /\ ts \in Nat /\ client[t].start < ts /\ ts <= clock
           /\ CommitSent(t)
           /\ \E c \in calls : c.kind = "commit" /\ c.start = client[t].start /\ c.cts = ts
           /\ client[t].prewritten = Writes(t)
           /\ Primary(t) \in Writes(t)
           /\ ~Poisoned(d, t)
  <1>1. PICK w \in d.write : /\ w.start = client[t].start /\ w.key = Primary(t)
                             /\ w.kind # "rollback" /\ w.ts = ts
    BY DEF Committed
  <1>2. WriteOK(d, t, w)
    BY <1>1 DEF Inv, TxnOK
  <1>3. PICK c \in calls : c.kind = "commit" /\ c.start = w.start /\ c.cts = ts
    BY <1>1, <1>2 DEF WriteOK
  <1>4. CallOK(d, t, c)
    BY <1>1, <1>3 DEF Inv, TxnOK
  <1>5. ts \in Nat /\ client[t].start < ts /\ ts <= clock
    BY <1>1, RecordTimes, RecordFields DEF Inv, Typed
  <1> QED
    BY <1>1, <1>2, <1>3, <1>4, <1>5 DEF CommitSent, WriteOK, CallOK, Inv, Single, Poisoned

\* The commit of another key carries the timestamp of the primary.
LEMMA SameTime ==
    ASSUME NEW d, Inv(d), NEW t \in Txn, client[t].start # 0, NEW b, b.kind = "commit",
           b.start = client[t].start, Committed(d, t, b.cts), calls' = calls \cup {b}
    PROVE  InTime(b)
  BY CommittedFacts, SMTT(30) DEF InTime, Inv, Times

\* The commits of the secondaries, once the primary is committed.
LEMMA RollForwardInv ==
    ASSUME NEW e, e = db', Inv(e), NEW t \in Txn, NEW keys, NEW cts,
           client[t].start # 0, ~client[t].active, ~client[t].gaveUp,
           client[t].pc \notin Aborting,
           keys \subseteq Writes(t), Committed(e, t, cts),
           clock' = clock, RollForward(t, keys, cts)
    PROVE  Inv(db)'
  <1> DEFINE o == client[t]
             call == CommitCall(First(keys), o.start, cts)
             c == IF keys = {} THEN [o EXCEPT !.pc = "committed", !.todo = {}, !.key = 0,
                                              !.met = NoLockMet, !.call = NoCall]
                  ELSE [o EXCEPT !.pc = "rollforward", !.todo = keys, !.call = call]
  <1>1. o \in ClientState /\ clock \in Nat /\ client \in [Txn -> ClientState] /\ o.start \in Nat
    BY ClientFields DEF Inv, Typed
  <1>2. /\ cts \in Nat /\ o.start < cts /\ cts <= clock
        /\ CommitSent(t)
        /\ o.prewritten = Writes(t)
        /\ keys \subseteq Key
    BY CommittedFacts, WritesAreKeys
  <1>3. keys # {} => First(keys) \in keys /\ call \in Call
    BY <1>1, <1>2, FirstKey, CallTypes
  <1>4. c \in ClientState
    BY <1>1, <1>2, <1>3 DEF ClientState, NoLockMet, Pcs
  <1>5. /\ client' = [client EXCEPT ![t] = c]
        /\ calls' = IF keys = {} THEN calls ELSE calls \cup {call}
    BY SMTT(30) DEF RollForward, Send, Stay, Finish
  <1>6. /\ c.pc = IF keys = {} THEN "committed" ELSE "rollforward"
        /\ c.active = o.active /\ c.start = o.start /\ c.todo = keys
        /\ c.prewritten = o.prewritten /\ c.gaveUp = o.gaveUp
        /\ c.call = IF keys = {} THEN NoCall ELSE call
    BY SMTT(30) DEF ClientState
  <1>7. /\ client'[t] = c /\ client' \in [Txn -> ClientState]
        /\ \A u \in Txn : u # t => client'[u] = client[u]
    BY <1>1, <1>4, <1>5
  <1> HIDE DEF c
  <1>8. /\ call.kind = "commit" /\ call.key = First(keys)
        /\ call.start = o.start /\ call.cts = cts
    BY DEF CommitCall
  <1> HIDE DEF call
  <1>9. Committed(db, t, cts)'
    BY <1>6, <1>7 DEF Committed
  <1>10. ClientOK(db, t)'
    <2>1. PhaseOK(db, t)'
      BY <1>2, <1>6, <1>7, SMTT(30) DEF Committed, PhaseOK, Aborting, ClientOK, Holds, Recorded, Inv
    <2>2. LoopOK(t)'
      BY <1>2, <1>6, <1>7 DEF LoopOK, Deciding, Resolving
    <2>3. SentOK(db, t)'
      BY <1>3, <1>5, <1>6, <1>7, <1>8, NoCallIsNone DEF Committed, SentOK, Sending
    <2> QED
      BY <1>6, <1>7, <2>1, <2>2, <2>3 DEF ClientOK, BeginOK, Inv
  <1>11. ASSUME NEW b \in calls', b \notin calls PROVE Ordered(t, b)
    <2>1. b = call /\ keys # {}
      BY <1>5, <1>11
    <2> SUFFICES ASSUME NEW u \in Txn, client[u].start = b.start
                 PROVE  CallOK(db, u, b)' /\ CommitSent(u)
      BY <1>3, <1>5, <1>8, <2>1, SameTime DEF Ordered, Started
    <2>2. u = t
      BY <1>8, <2>1 DEF Inv, OwnStarts
    <2> QED
      BY <1>2, <1>3, <1>6, <1>7, <1>8, <1>9, <2>1, <2>2 DEF CallOK
  <1>12. Promises(t)
    BY <1>6, <1>7 DEF Promises, Aborting
  <1> QED
    BY <1>1, <1>5, <1>7, <1>10, <1>11, <1>12, MoveInv, SMTT(30)

\* A prewrite is sent.
LEMMA ToPrewriteInv ==
    ASSUME NEW e, e = db', Inv(e), NEW t \in Txn, NEW c \in ClientState,
           client[t].start # 0, ~client[t].gaveUp, client[t].pc \notin Aborting, ~CommitSent(t),
           c.pc = "prewrite", ~c.active, c.start = client[t].start, ~c.gaveUp,
           c.todo # {}, c.todo \cup c.prewritten = Writes(t),
           \A k \in c.prewritten : Holds(e, t, k),
           c.call = PrewriteCall(t, First(c.todo)),
           clock' = clock, Send(t, c)
    PROVE  Inv(db)'
  <1>1. clock \in Nat /\ client \in [Txn -> ClientState] /\ client[t].start \in Nat
    BY ClientFields DEF Inv, Typed
  <1>2. BeginOK(t)
    BY DEF Inv, ClientOK
  <1>3. First(c.todo) \in Writes(t) /\ First(c.todo) \in Key /\ Primary(t) \in Key
    BY FirstKey, PrimaryIsWritten, WritesAreKeys
  <1>4. /\ c.call.kind = "prewrite" /\ c.call.key = First(c.todo)
        /\ c.call.start = client[t].start /\ c.call.op = Mutation[t][First(c.todo)]
        /\ c.call.value = t /\ c.call.primary = Primary(t)
    BY SMTT(30) DEF PrewriteCall
  <1>5. c.call \in Call
    BY <1>1, <1>3, ScriptAssumption, SMTT(30) DEF PrewriteCall, Call, Writes
  <1>6. /\ client'[t] = c /\ client' \in [Txn -> ClientState]
        /\ \A u \in Txn : u # t => client'[u] = client[u]
        /\ calls' = calls \cup {c.call}
    BY <1>1 DEF Send
  <1>7. \A k \in c.prewritten : k \in Writes(t) /\ Holds(db, t, k)'
    BY <1>6, SMTT(30) DEF Holds, Recorded
  <1>8. ClientOK(db, t)'
    <2>1. BeginOK(t)'
      BY <1>2, <1>6 DEF BeginOK
    <2>2. PhaseOK(db, t)'
      BY <1>6, <1>7 DEF PhaseOK, Aborting
    <2>3. LoopOK(t)'
      BY <1>6 DEF LoopOK, Deciding, Resolving
    <2>4. SentOK(db, t)'
      <3>1. PrewriteCall(t, First(client[t].todo))' = c.call
        BY <1>6 DEF PrewriteCall
      <3> QED
        BY <1>5, <1>6, <3>1, NoCallIsNone DEF SentOK, Sending
    <2> QED
      BY <2>1, <2>2, <2>3, <2>4 DEF ClientOK
  <1>9. ASSUME NEW b \in calls', b \notin calls PROVE Ordered(t, b)
    <2>1. b = c.call
      BY <1>6, <1>9
    <2> SUFFICES ASSUME NEW u \in Txn, client[u].start = b.start
                 PROVE  CallOK(db, u, b)'
      BY <1>4, <1>5, <2>1 DEF Ordered, Started
    <2>2. u = t
      BY <1>4, <2>1 DEF Inv, OwnStarts
    <2> QED
      BY <1>3, <1>4, <2>1, <2>2 DEF CallOK
  <1>10. Promises(t)
    BY <1>6 DEF Promises, Aborting
  <1> QED
    BY <1>1, <1>6, <1>8, <1>9, <1>10, MoveInv, SMTT(30)

\* Before the commit of the primary is sent nothing is decided.
LEMMA Undecided ==
    ASSUME NEW d, Inv(d), NEW t \in Txn,
           client[t].pc \notin {"idle", "commit", "rollforward", "committed"} \cup Aborting
    PROVE  client[t].start # 0 /\ ~client[t].gaveUp /\ ~CommitSent(t)
  <1>1. ClientOK(d, t)
    BY DEF Inv
  <1>2. client[t].start # 0
    BY <1>1, PastIdle DEF ClientOK
  <1>3. ~CommitSent(t)
    BY <1>2 DEF CommitSent, Inv, TxnOK, CallOK
  <1> QED
    BY <1>1, <1>2, <1>3 DEF ClientOK, PhaseOK

\* An undecided client stays undecided.
LEMMA QuietInv ==
    ASSUME NEW e, e = db', Inv(e), NEW t \in Txn, NEW c \in ClientState,
           client[t].pc \notin {"idle", "commit", "rollforward", "committed"} \cup Aborting,
           c.pc \notin {"idle", "commit", "rollforward", "committed"} \cup Aborting,
           c.start = client[t].start, c.gaveUp = client[t].gaveUp,
           \A k \in c.prewritten : k \in Writes(t) /\ Holds(e, t, k),
           client' = [client EXCEPT ![t] = c], clock' = clock,
           calls \subseteq calls', \A b \in calls' : b \in calls \/ Ordered(t, b),
           LoopOK(t)', SentOK(db, t)'
    PROVE  Inv(db)'
  <1>1. clock \in Nat /\ client \in [Txn -> ClientState]
    BY DEF Inv, Typed
  <1>2. client[t].start # 0 /\ ~client[t].gaveUp /\ ~CommitSent(t)
    BY Undecided
  <1>3. /\ client'[t] = c /\ client' \in [Txn -> ClientState]
        /\ \A u \in Txn : u # t => client'[u] = client[u]
    BY <1>1
  <1>4. BeginOK(t)'
    BY <1>2, <1>3 DEF Inv, ClientOK, BeginOK
  <1>5. PhaseOK(db, t)'
    <2>1. \A k \in c.prewritten : k \in Writes(t) /\ Holds(db, t, k)'
      BY <1>3, SMTT(30) DEF Holds, Recorded
    <2> QED
      BY <1>2, <1>3, <2>1 DEF PhaseOK, Aborting
  <1>6. ClientOK(db, t)'
    BY <1>4, <1>5 DEF ClientOK
  <1>7. Promises(t)
    BY <1>2, <1>3 DEF Promises
  <1> QED
    BY <1>1, <1>3, <1>6, <1>7, MoveInv, SMTT(30)

\* A client that reads or prewrites meets a lock.
LEMMA MeetInv ==
    ASSUME Inv(db), NEW t \in Txn, NEW k \in Key, HasLock(db, k),
           client[t].pc \in {"active", "scan", "conflict"},
           UNCHANGED <<db, clock>>, Stay(t, Meet(t, k))
    PROVE  Inv(db)'
  <1> DEFINE o == client[t]
             m == [key |-> k, start |-> db.lock[k].start, primary |-> db.lock[k].primary]
             c == [o EXCEPT !.pc = "lookup", !.call = NoCall, !.met = m]
  <1>1. /\ o \in ClientState /\ client \in [Txn -> ClientState]
        /\ db.lock[k] \in LockRecord
    BY RecordFields DEF Inv, Typed
  <1>2. m \in [key : Key \cup {0}, start : Nat, primary : Key \cup {0}]
    BY <1>1 DEF LockRecord
  <1>3. m.start = db.lock[k].start /\ m.key = k /\ m.primary = db.lock[k].primary
    OBVIOUS
  <1> HIDE DEF m
  <1>4. c \in ClientState
    BY <1>1, <1>2 DEF ClientState, Pcs
  <1>5. client' = [client EXCEPT ![t] = c] /\ calls' = calls /\ db' = db
    BY DEF Stay, Meet, m
  <1>6. /\ c.pc = "lookup" /\ c.active = o.active /\ c.start = o.start /\ c.todo = o.todo
        /\ c.prewritten = o.prewritten /\ c.gaveUp = o.gaveUp /\ c.call = NoCall /\ c.met = m
    BY SMTT(30) DEF ClientState
  <1>7. /\ client'[t] = c
        /\ \A u \in Txn : client'[u].start = client[u].start
    BY <1>1, <1>5, SMTT(30)
  <1> HIDE DEF c
  <1>8. LoopOK(t)'
    <2>1. PICK u \in Txn : client[u].start = db.lock[k].start /\ db.lock[k].start # 0
      BY DEF Inv, Known, Started
    <2>2. LockOK(db, u, k)
      BY <2>1 DEF Inv, TxnOK
    <2>3. MetOK(client[t].met)'
      BY <1>3, <1>6, <1>7, <2>1, <2>2 DEF MetOK, LockOK
    <2> QED
      BY <1>6, <1>7, <2>3 DEF ClientOK, LoopOK, Deciding, Inv
  <1> QED
    BY <1>4, <1>5, <1>6, <1>7, <1>8, QuietInv
       DEF Aborting, ClientOK, PhaseOK, Inv, SentOK, Sending

\* After a resolution the client tries again.
LEMMA RetryInv ==
    ASSUME NEW e, e = db', Inv(e), NEW t \in Txn, client[t].pc \in Resolving,
           clock' = clock, Retry(t)
    PROVE  Inv(db)'
  <1> DEFINE o == client[t]
  <1>1. o \in ClientState /\ client \in [Txn -> ClientState] /\ o.start \in Nat
    BY ClientFields DEF Inv, Typed
  <1>2. ClientOK(e, t)
    BY DEF Inv
  <1>3. o.start # 0 /\ ~o.gaveUp /\ ~CommitSent(t)
    BY Undecided DEF Resolving, Aborting
  <1>4. CASE ~o.active
    <2> DEFINE c == [o EXCEPT !.pc = "prewrite", !.todo = o.todo, !.prewritten = o.prewritten,
                              !.met = NoLockMet, !.call = PrewriteCall(t, First(o.todo))]
    <2>1. o.todo # {} /\ o.todo \cup o.prewritten = Writes(t)
      BY <1>2, <1>4 DEF ClientOK, LoopOK, Deciding, Resolving
    <2>2. PrewriteCall(t, First(o.todo)) \in Call
      BY <1>1, <2>1, ScriptAssumption, FirstKey, PrimaryIsWritten DEF PrewriteCall, Call, Writes
    <2>3. c \in ClientState
      BY <1>1, <2>2 DEF ClientState, Pcs, NoLockMet
    <2>4. /\ c.pc = "prewrite" /\ c.active = o.active /\ c.start = o.start /\ c.todo = o.todo
          /\ c.prewritten = o.prewritten /\ c.gaveUp = o.gaveUp
          /\ c.call = PrewriteCall(t, First(o.todo))
      BY SMTT(30) DEF ClientState
    <2>5. Send(t, c)
      BY <1>4 DEF Retry, Prewrite
    <2> HIDE DEF c
    <2> QED
      BY <1>2, <1>3, <1>4, <2>1, <2>3, <2>4, <2>5, ToPrewriteInv
         DEF ClientOK, PhaseOK, Resolving, Aborting
  <1>5. CASE o.active
    <2> DEFINE c == [o EXCEPT !.pc = "active", !.key = 0, !.met = NoLockMet,
                              !.todo = IF t \in Scans THEN ReadSet[t] ELSE o.todo,
                              !.call = NoCall]
    <2>1. c \in ClientState
      BY <1>1, ScriptAssumption DEF ClientState, Pcs, NoLockMet
    <2>2. /\ c.pc = "active" /\ c.active = o.active /\ c.start = o.start
          /\ c.prewritten = o.prewritten /\ c.gaveUp = o.gaveUp /\ c.call = NoCall
      BY SMTT(30) DEF ClientState
    <2>3. client' = [client EXCEPT ![t] = c] /\ calls' = calls
      BY <1>5 DEF Retry, Stay
    <2> HIDE DEF c
    <2>4. LoopOK(t)'
      BY <1>1, <1>5, <2>2, <2>3 DEF LoopOK, Deciding, Resolving
    <2>5. SentOK(db, t)'
      BY <1>1, <2>2, <2>3 DEF SentOK, Sending
    <2> QED
      BY <1>2, <2>1, <2>2, <2>3, <2>4, <2>5, QuietInv DEF Aborting, Resolving, ClientOK, PhaseOK
  <1> QED
    BY <1>4, <1>5

\* A resolver sends a call for the lock that it has met.
LEMMA ResolveInv ==
    ASSUME NEW e, e = db', Inv(e), NEW t \in Txn, NEW pc \in {"expire", "poison", "fix"},
           NEW b \in Call, client[t].pc \in Resolving, Ordered(t, b),
           pc \in {"expire", "poison"} =>
               b = RollbackCall(client[t].met.primary, client[t].met.start),
           clock' = clock, Send(t, [client[t] EXCEPT !.pc = pc, !.call = b])
    PROVE  Inv(db)'
  <1> DEFINE o == client[t]
             c == [o EXCEPT !.pc = pc, !.call = b]
  <1>1. o \in ClientState /\ client \in [Txn -> ClientState]
    BY DEF Inv, Typed
  <1>2. ClientOK(e, t)
    BY DEF Inv
  <1>3. c \in ClientState
    BY <1>1 DEF ClientState, Pcs
  <1>4. /\ c.pc = pc /\ c.active = o.active /\ c.start = o.start /\ c.todo = o.todo
        /\ c.prewritten = o.prewritten /\ c.gaveUp = o.gaveUp /\ c.call = b /\ c.met = o.met
    BY SMTT(30) DEF ClientState
  <1>5. client' = [client EXCEPT ![t] = c] /\ calls' = calls \cup {b}
    BY SMTT(30) DEF Send
  <1> HIDE DEF c
  <1>6. LoopOK(t)'
    BY <1>1, <1>2, <1>4, <1>5 DEF MetOK, ClientOK, LoopOK, Deciding, Resolving
  <1>7. SentOK(db, t)'
    BY <1>1, <1>4, <1>5, NoCallIsNone DEF SentOK, Sending
  <1> QED
    BY <1>2, <1>3, <1>4, <1>5, <1>6, <1>7, QuietInv DEF Aborting, Resolving, ClientOK, PhaseOK

\* A call to roll back the primary is in order at any time.
LEMMA RollbackPrimaryOrdered ==
    ASSUME NEW e, e = db', Inv(e), NEW t \in Txn, client[t].pc \in Resolving, NEW b,
           b = RollbackCall(client[t].met.primary, client[t].met.start)
    PROVE  Ordered(t, b)
  <1>1. PICK u \in Txn : /\ client[t].met.start # 0 /\ client[u].start = client[t].met.start
                         /\ client[t].met.primary = Primary(u) /\ Writes(u) # {}
    BY DEF MetOK, Inv, ClientOK, LoopOK
  <1>2. ASSUME NEW v \in Txn, client[v].start = b.start PROVE v = u
    BY <1>1, <1>2 DEF Inv, OwnStarts, RollbackCall
  <1> QED
    BY <1>1, <1>2, PrimaryIsWritten, CallTypes, ClientFields
       DEF Ordered, Started, CallOK, Inv, Typed, RollbackCall

\* The blocked key is given the fate of its primary.
LEMMA FixInv ==
    ASSUME NEW e, e = db', Inv(e), NEW t \in Txn, client[t].pc \in Resolving,
           NEW cts, cts = CommittedAs(e, client[t].met.primary, client[t].met.start),
           FoundOutcome(e, client[t].met.primary, client[t].met.start) # {},
           clock' = clock, Fix(t, cts)
    PROVE  Inv(db)'
  <1> DEFINE met == client[t].met
  <1>1. PICK u \in Txn : /\ met.start # 0 /\ client[u].start = met.start
                         /\ met.key \in Writes(u) /\ met.primary = Primary(u)
    BY DEF MetOK, Inv, ClientOK, LoopOK
  <1>2. \A v \in Txn : v # t => client'[v] = client[v]
    BY DEF Fix, Send, Inv, Typed
  <1>3. \A v \in Txn : client[v].start = met.start => v = u
    BY <1>1 DEF Inv, OwnStarts
  <1>4. CASE cts # {}
    <2> DEFINE ts == First(cts)
               b == CommitCall(met.key, met.start, ts)
    <2>1. ts \in cts
      BY <1>4, FirstMember, RecordFields, CommittedAsIs, SMTT(30) DEF Inv, Typed
    <2>2. Committed(e, u, ts)
      BY <1>1, <2>1, CommittedAsIs, SMTT(30) DEF Committed
    <2> HIDE DEF ts
    <2>3. /\ ts \in Nat /\ client[u].start < ts /\ ts <= clock
          /\ CommitSent(u) /\ client[u].prewritten = Writes(u)
      BY <1>1, <2>2, CommittedFacts
    <2>4. b \in Call
      BY <1>1, <2>3, CallTypes, ClientFields, SMTT(30) DEF Inv, Typed
    <2>5. /\ b.kind = "commit" /\ b.key = met.key /\ b.start = met.start /\ b.cts = ts
      BY DEF CommitCall
    <2>6. u # t
      BY <2>3, Undecided DEF Resolving, Aborting
    <2>7. Committed(db, u, ts)'
      BY <2>2, SMTT(30) DEF Committed, Fix, Send, Inv, Typed, ClientState
    <2>8. client[u].pc \in {"commit", "rollforward", "committed"} \cup Aborting
      BY <1>1, <2>3 DEF CommitSent, Inv, TxnOK, CallOK
    <2>9. PICK x : x = b
      OBVIOUS
    <2>10. CallOK(db, u, x)'
      BY <1>1, <1>2, <2>3, <2>5, <2>6, <2>7, <2>8, <2>9 DEF CallOK
    <2>11. calls' = calls \cup {x}
      BY <1>4, <2>9 DEF Send, Inv, Typed, ClientState, Fix, FixCall, ts
    <2>12. InTime(x)
      BY <1>1, <2>2, <2>5, <2>9, <2>11, SameTime
    <2>13. Ordered(t, x)
      BY <1>1, <1>3, <2>3, <2>4, <2>5, <2>9, <2>10, <2>12 DEF Ordered, Started
    <2> QED
      BY <1>4, <2>4, <2>9, <2>13, ResolveInv DEF Fix, FixCall, ts
  <1>5. CASE cts = {}
    <2> DEFINE b == RollbackCall(met.key, met.start)
    <2>1. b \in Call
      BY <1>1, CallTypes, WritesAreKeys, ClientFields DEF Inv, Typed
    <2>2. Poisoned(e, u)
      BY <1>1, <1>5, FoundIsThere, SMTT(30) DEF CommittedAs, Poisoned
    <2>3. Poisoned(db, u)'
      BY <2>2, SMTT(30) DEF Poisoned, Fix, Send, Inv, Typed, ClientState
    <2>4. PICK x : x = b
      OBVIOUS
    <2>5. Ordered(t, x)
      BY <1>1, <1>3, <2>1, <2>3, <2>4 DEF Ordered, Started, RollbackCall, CallOK, Hopeless
    <2> QED
      BY <1>5, <2>1, <2>4, <2>5, ResolveInv DEF Fix, FixCall
  <1> QED
    BY <1>4, <1>5

-----------------------------------------------------------------------------
(* The actions. *)

\* Txn::Begin: nothing carries the new timestamp yet.
LEMMA BeginInv ==
    ASSUME Inv(db), NEW t \in Txn, Begin(t)
    PROVE  Inv(db)'
  <1> DEFINE o == client[t]
             c == [o EXCEPT !.pc = "active", !.active = TRUE, !.start = clock + 1,
                            !.todo = ReadSet[t]]
  <1>1. o \in ClientState /\ client \in [Txn -> ClientState] /\ clock \in Nat
    BY DEF Inv, Typed
  <1>2. o = Idle /\ o.start = 0
    BY DEF Begin, Inv, ClientOK, BeginOK
  <1>3. c \in ClientState
    <2> DEFINE keys == ReadSet[t]
               ts == clock + 1
    <2>1. keys \in SUBSET Key /\ ts \in Nat
      BY <1>1, ScriptAssumption, SMTT(30)
    <2> HIDE DEF keys, ts
    <2>2. [o EXCEPT !.pc = "active", !.active = TRUE, !.start = ts, !.todo = keys] \in ClientState
      BY <1>1, <2>1 DEF ClientState, Pcs
    <2> QED
      BY <2>2 DEF keys, ts
  <1>4. /\ client' = [client EXCEPT ![t] = c] /\ calls' = calls
        /\ db' = db /\ clock' = clock + 1
    BY DEF Begin, Stay
  <1>5. /\ c.pc = "active" /\ c.active /\ c.start = clock + 1 /\ c.prewritten = {}
        /\ c.call = NoCall /\ ~c.gaveUp
    BY <1>1, <1>2, SMTT(30) DEF ClientState, Idle
  <1>6. /\ client'[t] = c /\ client' \in [Txn -> ClientState]
        /\ \A u \in Txn : u # t => client'[u] = client[u]
    BY <1>1, <1>3, <1>4
  <1> HIDE DEF c
  <1>7. \A u \in Txn : client[u].start \in Nat /\ client[u].start <= clock
    BY <1>1, ClientFields DEF Inv, ClientOK, BeginOK
  <1>8. Typed(db)'
    BY <1>1, <1>4, <1>6, SMTT(30) DEF Inv, Typed
  <1>9. OwnStarts' /\ Times'
    <2>1. OwnStarts'
      BY <1>1, <1>5, <1>6, <1>7, SMTT(30) DEF Inv, OwnStarts
    <2>2. ASSUME NEW b \in calls, b.kind = "commit" PROVE b.cts # clock + 1
      <3>1. b.cts \in Nat /\ b.cts <= clock
        BY <2>2, CallOwner, CallFields DEF CallOK
      <3> QED
        BY <1>1, <3>1, SMTT(30)
    <2>3. Times'
      BY <1>4, <1>5, <1>6, <2>2, SMTT(30) DEF Inv, Times
    <2> QED
      BY <2>1, <2>3
  <1>10. ASSUME NEW s, Started(s) PROVE Started(s)' /\ s # clock + 1
    BY <1>1, <1>2, <1>6, <1>7, <1>10, SMTT(30) DEF Started
  <1>11. Known(db)'
    BY <1>4, <1>10 DEF Inv, Known, HasLock
  <1>12. Single(db)'
    BY <1>4 DEF Inv, Single
  <1>13. ClientOK(db, t)' /\ TxnOK(db, t)'
    <2>1. BeginOK(t)'
      BY <1>1, <1>4, <1>5, <1>6, SMTT(30) DEF BeginOK
    <2>2. PhaseOK(db, t)'
      BY <1>5, <1>6 DEF PhaseOK, Aborting
    <2>3. LoopOK(t)'
      BY <1>5, <1>6 DEF LoopOK, Deciding, Resolving
    <2>4. SentOK(db, t)'
      BY <1>5, <1>6 DEF SentOK, Sending
    <2>5. /\ \A b \in calls' : b.start # client'[t].start
          /\ \A k \in Key : db'.lock[k].start # client'[t].start
          /\ \A w \in db'.write : w.start # client'[t].start
          /\ \A x \in db'.data : x.start # client'[t].start
      <3>1. \A k \in Key : ~HasLock(db, k) => db.lock[k].start = 0
        BY SMTT(30) DEF HasLock, NoLock
      <3> QED
        BY <1>1, <1>4, <1>5, <1>6, <1>10, <3>1, SMTT(30) DEF Inv, Known
    <2>6. TxnOK(db, t)'
      BY <2>5 DEF TxnOK
    <2> QED
      BY <2>1, <2>2, <2>3, <2>4, <2>6 DEF ClientOK
  <1>14. ASSUME NEW u \in Txn, u # t PROVE ClientOK(db, u)' /\ TxnOK(db, u)'
    <2>1. client'[u] = client[u] /\ db' = db /\ calls' = calls
      BY <1>4, <1>6, <1>14
    <2>2. ClientOK(db, u) /\ TxnOK(db, u)
      BY DEF Inv
    <2>3. /\ Hopeless(db, u)' <=> Hopeless(db, u)
          /\ Deciding(u)' <=> Deciding(u)
      BY <2>1 DEF Hopeless, Poisoned, CommitSent, Deciding
    <2>4. ASSUME NEW k
          PROVE  /\ Holds(db, u, k)' <=> Holds(db, u, k)
                 /\ HasData(db, u, k)' <=> HasData(db, u, k)
                 /\ Committed(db, u, k)' <=> Committed(db, u, k)
      BY <2>1 DEF Holds, Recorded, HasData, Committed
    <2>5. BeginOK(u)'
      BY <1>1, <1>4, <1>7, <2>1, <2>2, SMTT(30) DEF ClientOK, BeginOK
    <2>6. PhaseOK(db, u)'
      <3>1. (\E w \in db.write : Committed(db, u, w.ts))
               => (\E w \in db.write : Committed(db, u, w.ts))'
        BY <2>1 DEF Committed
      <3>2. (\A k \in client[u].prewritten : k \in Writes(u) /\ Holds(db, u, k))'
        BY <2>1, <2>2, <2>4 DEF ClientOK, PhaseOK
      <3> QED
        BY <2>1, <2>2, <2>3, <3>1, <3>2 DEF ClientOK, PhaseOK
    <2>7. LoopOK(u)'
      <3>1. MetOK(client[u].met) => MetOK(client[u].met)'
        BY <1>2, <1>6, <2>1 DEF MetOK
      <3> QED
        BY <2>1, <2>2, <2>3, <3>1 DEF ClientOK, LoopOK
    <2>8. SentOK(db, u)'
      <3>1. PrewriteCall(u, First(client[u].todo))' = PrewriteCall(u, First(client[u].todo))
        BY <2>1 DEF PrewriteCall
      <3>2. Committed(db, u, client[u].call.cts) => Committed(db, u, client[u].call.cts)'
        BY <2>1 DEF Committed
      <3> QED
        BY <2>1, <2>2, <3>1, <3>2 DEF ClientOK, SentOK
    <2>9. TxnOK(db, u)'
      <3> SUFFICES ASSUME client[u].start # 0 PROVE TxnOK(db, u)'
        BY <2>1 DEF TxnOK
      <3>1. ASSUME NEW b \in calls, b.start = client[u].start PROVE CallOK(db, u, b)'
        <4>1. CallOK(db, u, b) /\ (b.kind = "commit" => b.cts \in Nat)
          BY <2>2, <3>1, CallFields DEF TxnOK, Inv, Typed
        <4> QED
          BY <1>1, <1>4, <2>1, <2>3, <2>4, <4>1, SMTT(30) DEF CallOK
      <3>2. ASSUME NEW k \in Key, db.lock[k].start = client[u].start PROVE LockOK(db, u, k)'
        BY <2>1, <2>2, <2>4, <3>2 DEF TxnOK, LockOK
      <3>3. ASSUME NEW w \in db.write, w.start = client[u].start PROVE WriteOK(db, u, w)'
        BY <2>1, <2>2, <2>3, <2>4, <3>3 DEF TxnOK, WriteOK
      <3> QED
        BY <2>1, <2>2, <3>1, <3>2, <3>3 DEF TxnOK
    <2> QED
      BY <2>5, <2>6, <2>7, <2>8, <2>9 DEF ClientOK
  <1> QED
    BY <1>8, <1>9, <1>11, <1>12, <1>13, <1>14 DEF Inv

Reading == {"active", "columns", "scan", "walk"}

\* A client that reads goes on reading.
LEMMA ReadInv ==
    ASSUME Inv(db), NEW t \in Txn, NEW c \in ClientState, UNCHANGED <<db, clock>>,
           client[t].pc \in Reading, c.pc \in Reading,
           c.active = client[t].active, c.start = client[t].start, c.gaveUp = client[t].gaveUp,
           c.prewritten = client[t].prewritten, c.call = client[t].call,
           c.pc = "walk" => c.key \in Key,
           Stay(t, c)
    PROVE  Inv(db)'
  <1>1. client' = [client EXCEPT ![t] = c] /\ calls' = calls /\ client'[t] = c
    BY DEF Stay, Inv, Typed
  <1>2. SentOK(db, t)'
    BY <1>1 DEF Reading, Sending, SentOK, ClientOK, LoopOK, Inv
  <1>3. /\ client[t].pc \notin {"idle", "commit", "rollforward", "committed"} \cup Aborting
        /\ c.pc \notin {"idle", "commit", "rollforward", "committed"} \cup Aborting
    BY DEF Reading, Aborting
  <1>4. \A k \in c.prewritten : k \in Writes(t) /\ Holds(db, t, k)
    BY DEF ClientOK, PhaseOK, Inv
  <1>5. /\ db' = db /\ clock' = clock
        /\ calls \subseteq calls' /\ \A b \in calls' : b \in calls
    BY <1>1
  <1> QED
    BY <1>1, <1>2, <1>3, <1>4, <1>5, QuietInv
       DEF Reading, LoopOK, Deciding, Resolving, ClientOK, SentOK, Sending, Inv

\* TxnScan and TxnGet.
LEMMA ScanLocksInv ==
    ASSUME Inv(db), NEW t \in Txn, ScanLocks(t)
    PROVE  Inv(db)'
  <1> DEFINE blocked == {k \in Rest(t) : Blocks(k, client[t].start)}
             c == [client[t] EXCEPT !.pc = "columns"]
  <1>1. client[t] \in ClientState /\ client[t].todo \subseteq Key
    BY ClientFields DEF Inv, Typed
  <1>2. CASE blocked # {}
    BY <1>1, <1>2, FirstKey, MeetInv DEF Rest, Blocks, ScanLocks
  <1>3. CASE blocked = {}
    BY <1>1, <1>3, ReadInv DEF ClientState, Pcs, ScanLocks, Reading
  <1> QED
    BY <1>2, <1>3

\* TxnScan, second pass.
LEMMA ScanColumnsInv ==
    ASSUME Inv(db), NEW t \in Txn, ScanColumns(t)
    PROVE  Inv(db)'
  <1> DEFINE absent == {k \in Rest(t) : WritesOf(db, k) = {}}
             pc == IF absent = Rest(t) THEN "active" ELSE "scan"
             todo == client[t].todo \ absent
             c == [client[t] EXCEPT !.pc = pc, !.todo = todo]
  <1>1. client[t] \in ClientState /\ client[t].todo \subseteq Key
    BY ClientFields DEF Inv, Typed
  <1>2. Stay(t, c) /\ client[t].pc = "columns" /\ UNCHANGED <<db, clock>>
    BY DEF ScanColumns
  <1>3. pc \in {"active", "scan"} /\ todo \in SUBSET Key
    BY <1>1
  <1> HIDE DEF pc, todo
  <1>4. c \in ClientState
    BY <1>1, <1>3 DEF ClientState, Pcs
  <1>5. /\ c.pc = pc /\ c.active = client[t].active /\ c.start = client[t].start
        /\ c.gaveUp = client[t].gaveUp /\ c.prewritten = client[t].prewritten
        /\ c.call = client[t].call
    BY SMTT(30) DEF ClientState
  <1> HIDE DEF c
  <1> QED
    BY <1>2, <1>3, <1>4, <1>5, ReadInv DEF Reading

\* TxnGet looks for the lock.
LEMMA GetLockInv ==
    ASSUME Inv(db), NEW t \in Txn, NEW k \in Key, GetLock(t, k)
    PROVE  Inv(db)'
  <1> DEFINE c == [client[t] EXCEPT !.pc = "walk", !.key = k]
  <1>1. client[t] \in ClientState
    BY DEF Inv, Typed
  <1>2. CASE Blocks(k, client[t].start)
    BY <1>2, MeetInv DEF GetLock, Blocks
  <1>3. CASE ~Blocks(k, client[t].start)
    BY <1>1, <1>3, ReadInv DEF ClientState, Pcs, GetLock, Reading
  <1> QED
    BY <1>2, <1>3

\* TxnGet walks the write records.
LEMMA GetWalkInv ==
    ASSUME Inv(db), NEW t \in Txn, NEW v, GetWalk(t, v)
    PROVE  Inv(db)'
  <1> DEFINE pc == IF t \in Scans /\ Rest(t) # {client[t].key} THEN "scan" ELSE "active"
             todo == client[t].todo \ {client[t].key}
             c == [client[t] EXCEPT !.pc = pc, !.key = 0, !.todo = todo]
  <1>1. client[t] \in ClientState /\ client[t].todo \subseteq Key
    BY ClientFields DEF Inv, Typed
  <1>2. Stay(t, c) /\ client[t].pc = "walk" /\ UNCHANGED <<db, clock>>
    BY DEF GetWalk
  <1>3. pc \in {"active", "scan"} /\ todo \in SUBSET Key
    BY <1>1
  <1> HIDE DEF pc, todo
  <1>4. c \in ClientState
    BY <1>1, <1>3 DEF ClientState, Pcs
  <1>5. /\ c.pc = pc /\ c.active = client[t].active /\ c.start = client[t].start
        /\ c.gaveUp = client[t].gaveUp /\ c.prewritten = client[t].prewritten
        /\ c.call = client[t].call
    BY SMTT(30) DEF ClientState
  <1> HIDE DEF c
  <1> QED
    BY <1>2, <1>3, <1>4, <1>5, ReadInv DEF Reading

\* The resolver looks for the lock of the primary, and for its outcome once the
\* lock is gone.
LEMMA ToOutcomeInv ==
    ASSUME NEW e, e = db', Inv(e), NEW t \in Txn, client[t].pc \in Resolving, clock' = clock,
           Stay(t, [client[t] EXCEPT !.pc = "outcome", !.call = NoCall])
    PROVE  Inv(db)'
  <1> DEFINE o == client[t]
             c == [o EXCEPT !.pc = "outcome", !.call = NoCall]
  <1>1. o \in ClientState /\ client \in [Txn -> ClientState]
    BY DEF Inv, Typed
  <1>2. c \in ClientState
    BY <1>1 DEF ClientState, Pcs
  <1>3. /\ c.pc = "outcome" /\ c.active = o.active /\ c.start = o.start /\ c.todo = o.todo
        /\ c.prewritten = o.prewritten /\ c.gaveUp = o.gaveUp /\ c.call = NoCall /\ c.met = o.met
    BY SMTT(30) DEF ClientState
  <1>4. client' = [client EXCEPT ![t] = c] /\ calls' = calls
    BY DEF Stay
  <1> HIDE DEF c
  <1>5. LoopOK(t)'
    BY <1>1, <1>3, <1>4, SMTT(30) DEF MetOK, ClientOK, LoopOK, Deciding, Resolving, Inv
  <1>6. SentOK(db, t)'
    BY <1>1, <1>3, <1>4 DEF SentOK, Sending
  <1> QED
    BY <1>2, <1>3, <1>4, <1>5, <1>6, QuietInv DEF Aborting, Resolving, ClientOK, PhaseOK, Inv

\* The handler of kTxnResolve looks at the primary: its lock is alive, expired or gone.
LEMMA LookUpInv ==
    ASSUME Inv(db), NEW t \in Txn, LookUp(t)
    PROVE  Inv(db)'
  <1> DEFINE met == client[t].met
  <1>1. client[t].pc = "lookup" /\ db' = db /\ clock' = clock /\ client[t].pc \in Resolving
    BY DEF LookUp, Resolving
  <1>2. CASE Retry(t)
    BY <1>1, <1>2, RetryInv
  <1>3. CASE Send(t, [client[t] EXCEPT !.pc = "expire",
                                       !.call = RollbackCall(met.primary, met.start)])
    <2>1. PICK b : b = RollbackCall(met.primary, met.start)
      OBVIOUS
    <2>2. b \in Call
      BY <1>1, <2>1, RollbackPrimaryOrdered DEF Ordered
    <2> QED
      BY <1>1, <1>3, <2>1, <2>2, ResolveInv, RollbackPrimaryOrdered
  <1>4. CASE Stay(t, [client[t] EXCEPT !.pc = "outcome"])
    BY <1>1, <1>4, ToOutcomeInv DEF Inv, Typed, ClientOK, SentOK, Sending, ClientState
  <1> QED
    BY <1>2, <1>3, <1>4 DEF LookUp

\* The handler of kTxnResolve looks for the record of the primary.
LEMMA FindOutcomeInv ==
    ASSUME Inv(db), NEW t \in Txn, FindOutcome(t)
    PROVE  Inv(db)'
  <1> DEFINE met == client[t].met
  <1>1. client[t].pc = "outcome" /\ db' = db /\ clock' = clock /\ client[t].pc \in Resolving
    BY DEF FindOutcome, Resolving
  <1>2. CASE FoundOutcome(db, met.primary, met.start) = {}
    <2>1. PICK b : b = RollbackCall(met.primary, met.start)
      OBVIOUS
    <2>2. b \in Call
      BY <1>1, <2>1, RollbackPrimaryOrdered DEF Ordered
    <2> QED
      BY <1>1, <1>2, <2>1, <2>2, ResolveInv, RollbackPrimaryOrdered DEF FindOutcome
  <1>3. CASE FoundOutcome(db, met.primary, met.start) # {}
    BY <1>1, <1>3, FixInv DEF FindOutcome
  <1> QED
    BY <1>2, <1>3

\* Txn::Commit: the first prewrite, or nothing to do.
LEMMA StartCommitInv ==
    ASSUME Inv(db), NEW t \in Txn, StartCommit(t)
    PROVE  Inv(db)'
  <1> DEFINE o == client[t]
  <1>1. o \in ClientState /\ client \in [Txn -> ClientState] /\ o.start \in Nat /\ clock \in Nat
    BY ClientFields DEF Inv, Typed
  <1>2. ClientOK(db, t)
    BY DEF Inv
  <1>3. o.pc = "active" /\ db' = db /\ clock' = clock
    BY DEF StartCommit
  <1>4. o.start # 0 /\ ~o.gaveUp /\ ~CommitSent(t)
    BY <1>3, Undecided DEF Aborting
  <1>5. CASE Writes(t) # {}
    <2> DEFINE c == [o EXCEPT !.pc = "prewrite", !.active = FALSE, !.todo = Writes(t),
                              !.call = PrewriteCall(t, Primary(t))]
    <2>1. PrewriteCall(t, Primary(t)) \in Call
      BY <1>1, <1>5, ScriptAssumption, PrimaryIsWritten DEF PrewriteCall, Call, Writes
    <2>2. c \in ClientState
      BY <1>1, <2>1, WritesAreKeys DEF ClientState, Pcs
    <2>3. /\ c.pc = "prewrite" /\ ~c.active /\ c.start = o.start /\ c.todo = Writes(t)
          /\ c.prewritten = o.prewritten /\ c.gaveUp = o.gaveUp
          /\ c.call = PrewriteCall(t, First(c.todo))
      BY SMTT(30) DEF ClientState, Primary
    <2>4. Send(t, c)
      BY <1>5 DEF StartCommit
    <2> HIDE DEF c
    <2>5. c.todo \cup c.prewritten = Writes(t) /\ \A k \in c.prewritten : Holds(db, t, k)
      BY <1>2, <2>3 DEF ClientOK, PhaseOK
    <2> QED
      BY <1>3, <1>4, <1>5, <2>2, <2>3, <2>4, <2>5, ToPrewriteInv DEF Aborting
  <1>6. CASE Writes(t) = {}
    <2> DEFINE c == [o EXCEPT !.pc = "committed", !.todo = {}, !.key = 0, !.met = NoLockMet,
                              !.call = NoCall]
    <2>1. c \in ClientState
      BY <1>1 DEF ClientState, Pcs, NoLockMet
    <2>2. /\ c.pc = "committed" /\ c.start = o.start /\ c.prewritten = o.prewritten
          /\ c.gaveUp = o.gaveUp /\ c.call = NoCall
      BY SMTT(30) DEF ClientState
    <2>3. /\ client'[t] = c /\ client' \in [Txn -> ClientState]
          /\ \A u \in Txn : u # t => client'[u] = client[u]
      BY <1>1, <1>6, <2>1 DEF StartCommit, Finish, Stay
    <2> HIDE DEF c
    <2>4. BeginOK(t)'
      BY <1>2, <1>3, <1>4, <2>2, <2>3 DEF ClientOK, BeginOK
    <2>5. PhaseOK(db, t)'
      BY <1>2, <1>4, <1>6, <2>2, <2>3 DEF ClientOK, PhaseOK, Aborting
    <2>6. ClientOK(db, t)'
      BY <2>2, <2>3, <2>4, <2>5 DEF ClientOK, LoopOK, Deciding, Resolving, SentOK, Sending
    <2>7. Promises(t)
      BY <1>3, <1>4, <2>2, <2>3 DEF Promises, Aborting
    <2> QED
      BY <1>1, <1>6, <2>3, <2>6, <2>7, MoveInv, SMTT(30) DEF StartCommit, Finish, Stay
  <1> QED
    BY <1>5, <1>6

\* Txn::Rollback.
LEMMA RollbackInv ==
    ASSUME Inv(db), NEW t \in Txn, Rollback(t)
    PROVE  Inv(db)'
  <1> DEFINE o == client[t]
             c == [o EXCEPT !.pc = "aborted", !.active = FALSE, !.todo = {}]
  <1>1. o \in ClientState /\ client \in [Txn -> ClientState] /\ o.start \in Nat /\ clock \in Nat
    BY ClientFields DEF Inv, Typed
  <1>2. ClientOK(db, t)
    BY DEF Inv
  <1>3. o.pc = "active" /\ db' = db /\ clock' = clock
    BY DEF Rollback
  <1>4. o.start # 0 /\ ~o.gaveUp /\ ~CommitSent(t) /\ o.call = NoCall
    BY <1>2, <1>3, Undecided DEF Aborting, ClientOK, SentOK, Sending
  <1>5. c \in ClientState
    BY <1>1 DEF ClientState, Pcs
  <1>6. /\ c.pc = "aborted" /\ c.start = o.start /\ c.prewritten = o.prewritten
        /\ c.gaveUp = o.gaveUp /\ c.call = o.call
    BY <1>1 DEF ClientState
  <1>7. client' = [client EXCEPT ![t] = c] /\ calls' = calls
    BY DEF Rollback, Stay
  <1>8. /\ client'[t] = c /\ client' \in [Txn -> ClientState]
        /\ \A u \in Txn : u # t => client'[u] = client[u]
    BY <1>1, <1>5, <1>7
  <1> HIDE DEF c
  <1>9. Hopeless(db, t)'
    BY <1>4, <1>6, <1>7, <1>8 DEF Hopeless, Aborting, CommitSent
  <1>10. BeginOK(t)'
    BY <1>2, <1>3, <1>4, <1>6, <1>8 DEF ClientOK, BeginOK
  <1>11. PhaseOK(db, t)'
    <2>1. \A k \in c.prewritten : k \in Writes(t) /\ Holds(db, t, k)'
      BY <1>2, <1>3, <1>6, <1>8, SMTT(30) DEF ClientOK, PhaseOK, Holds, Recorded
    <2> QED
      BY <1>4, <1>6, <1>8, <1>9, <2>1 DEF PhaseOK, Aborting
  <1>12. LoopOK(t)'
    BY <1>6, <1>8 DEF LoopOK, Deciding, Resolving
  <1>13. SentOK(db, t)'
    BY <1>4, <1>6, <1>8 DEF SentOK, Sending
  <1>14. ClientOK(db, t)'
    BY <1>10, <1>11, <1>12, <1>13 DEF ClientOK
  <1>15. Promises(t)
    BY <1>3, <1>4, <1>6, <1>8 DEF Promises, Aborting
  <1>16. calls \subseteq calls' /\ \A b \in calls' : b \in calls
    BY <1>7
  <1> QED
    BY <1>1, <1>3, <1>8, <1>14, <1>15, <1>16, MoveInv, SMTT(30)

\* A client in the prewrite loop may abort: no commit has been sent.
LEMMA DecidingAborts ==
    ASSUME NEW e, e = db', Inv(e), NEW t \in Txn, Deciding(t), clock' = clock,
           AbortAll(t, client[t].prewritten)
    PROVE  Inv(db)'
  <1>1. ~client[t].active
    BY DEF Deciding, Inv, ClientOK, LoopOK
  <1> QED
    BY <1>1, AbortAllInv, Undecided DEF Deciding, Resolving, Aborting

\* The handler reports the lock in the way of a prewrite.
LEMMA ReportConflictInv ==
    ASSUME Inv(db), NEW t \in Txn, ReportConflict(t)
    PROVE  Inv(db)'
  BY ClientFields, FirstKey, MeetInv, DecidingAborts
     DEF ReportConflict, Deciding, Inv, Typed, ClientOK, LoopOK

\* The commit of the primary is sent at a new timestamp.
LEMMA AllocateCommitTsInv ==
    ASSUME Inv(db), NEW t \in Txn, AllocateCommitTs(t)
    PROVE  Inv(db)'
  <1> DEFINE o == client[t]
             ts == clock + 1
             call == CommitCall(Primary(t), o.start, ts)
             c == [o EXCEPT !.pc = "commit", !.call = call]
  <1>1. o \in ClientState /\ client \in [Txn -> ClientState] /\ o.start \in Nat /\ clock \in Nat
    BY ClientFields DEF Inv, Typed
  <1>2. ClientOK(db, t)
    BY DEF Inv
  <1>3. o.pc = "allocate" /\ db' = db /\ clock' = ts
    BY DEF AllocateCommitTs
  <1>4. o.start # 0 /\ ~o.gaveUp /\ ~CommitSent(t) /\ o.start <= clock /\ ~o.active
    BY <1>2, <1>3, Undecided DEF Aborting, ClientOK, BeginOK, LoopOK
  <1>5. o.prewritten = Writes(t) /\ Writes(t) # {}
    BY <1>2, <1>3 DEF ClientOK, LoopOK, Deciding
  <1>6. Primary(t) \in Writes(t) /\ Primary(t) \in Key
    BY <1>5, PrimaryIsWritten
  <1>7. ts \in Nat /\ o.start < ts /\ clock <= ts
    BY <1>1, <1>4, SMTT(30)
  <1> HIDE DEF ts
  <1>8. call \in Call
    BY <1>1, <1>6, <1>7, CallTypes
  <1>9. call.kind = "commit" /\ call.key = Primary(t) /\ call.start = o.start /\ call.cts = ts
    BY DEF CommitCall
  <1>10. client' = [client EXCEPT ![t] = c] /\ calls' = calls \cup {call}
    BY SMTT(30) DEF AllocateCommitTs, ts, ClientState, Send
  <1> HIDE DEF call
  <1>11. /\ c.pc = "commit" /\ c.active = o.active /\ c.start = o.start
         /\ c.prewritten = o.prewritten /\ c.gaveUp = o.gaveUp /\ c.call = call
    BY SMTT(30) DEF ClientState
  <1>12. /\ client'[t] = c /\ client' \in [Txn -> ClientState]
         /\ \A u \in Txn : u # t => client'[u] = client[u]
    BY <1>1, <1>8, <1>10 DEF ClientState, Pcs
  <1> HIDE DEF c
  <1>13. BeginOK(t)'
    BY <1>1, <1>3, <1>4, <1>7, <1>11, <1>12, SMTT(30) DEF BeginOK
  <1>14. PhaseOK(db, t)'
    BY <1>2, <1>3, <1>5, <1>11, <1>12, SMTT(30) DEF ClientOK, PhaseOK, Holds, Recorded, Aborting
  <1>15. SentOK(db, t)'
    BY <1>8, <1>9, <1>10, <1>11, <1>12, NoCallIsNone DEF SentOK, Sending
  <1>16. ClientOK(db, t)'
    BY <1>4, <1>11, <1>12, <1>13, <1>14, <1>15 DEF ClientOK, LoopOK, Deciding, Resolving
  <1>17. Promises(t)
    BY <1>3, <1>4, <1>11, <1>12 DEF Promises, Aborting
  <1>18. ASSUME NEW b \in calls', b \notin calls PROVE Ordered(t, b)
    <2>1. b = call
      BY <1>10, <1>18
    <2>2. \A u \in Txn : client[u].start = b.start => u = t
      BY <1>4, <1>9, <2>1 DEF Inv, OwnStarts
    <2>3. CallOK(db, t, b)'
      BY <1>3, <1>5, <1>6, <1>7, <1>9, <1>11, <1>12, <2>1, SMTT(30) DEF CallOK
    <2>4. InTime(b)
      <3>1. ASSUME NEW a \in calls, a.kind = "commit"
            PROVE  a.cts # ts /\ a.start # o.start
        BY <1>1, <1>4, <3>1, CallOwner, SMTT(30) DEF CallOK, ts, CommitSent
      <3> QED
        BY <1>1, <1>9, <1>10, <2>1, <3>1, SMTT(30) DEF InTime, ts, Inv, ClientOK, BeginOK
    <2> QED
      BY <1>4, <1>8, <1>9, <1>11, <1>12, <2>1, <2>2, <2>3, <2>4 DEF Ordered, Started, Aborting
  <1> QED
    BY <1>3, <1>7, <1>10, <1>12, <1>16, <1>17, <1>18, MoveInv


-----------------------------------------------------------------------------
(* Answers. *)

\* A prewrite that is answered OK has left, or found, the lock.
LEMMA PrewriteAnswer ==
    ASSUME NEW d \in Records, NEW c \in Call, c.kind = "prewrite",
           ApplyPrewrite(d, c).code = "OK"
    PROVE  ApplyPrewrite(d, c).db.lock[c.key].start = c.start
  BY CallFields DEF ApplyPrewrite, Records

\* A commit that is answered OK has left, or found, the commit record; otherwise
\* there is neither a lock nor such a record.
LEMMA CommitAnswer ==
    ASSUME NEW d, Inv(d), NEW c \in calls, c.kind = "commit",
           NEW r, r = ApplyCommit(d, c)
    PROVE  /\ r.code = "OK" => \E w \in r.db.write : /\ w.key = c.key /\ w.start = c.start
                                                     /\ w.kind # "rollback"
           /\ r.code # "OK" => /\ r.db = d /\ d.lock[c.key].start # c.start
                               /\ \A w \in d.write : w.key = c.key /\ w.start = c.start
                                                        => w.kind = "rollback"
  <1>1. CASE d.lock[c.key].start # c.start
    BY <1>1, CommittedAsIs, SMTT(30) DEF ApplyCommit
  <1>2. CASE d.lock[c.key].start = c.start
    <2> DEFINE w == [key |-> c.key, ts |-> c.cts, kind |-> d.lock[c.key].op, start |-> c.start]
    <2>1. w \in r.db.write /\ r.code = "OK"
      BY <1>2 DEF ApplyCommit, Unlock, AddWrite, Records, Inv, Typed
    <2> QED
      BY <2>1, RecordFields, CallOwner DEF LockRecord, Inv, Typed
  <1> QED
    BY <1>1, <1>2

\* A rollback is refused where the key is committed, and leaves or finds the
\* marker otherwise.
LEMMA RollbackAnswer ==
    ASSUME NEW d, Inv(d), NEW c \in calls, c.kind = "rollback",
           NEW r, r = ApplyRollback(d, c), Inv(r.db)
    PROVE  /\ r.code = "Conflict" => CommittedAs(r.db, c.key, c.start) # {}
           /\ r.code # "Conflict" => CommittedAs(r.db, c.key, c.start) = {}
           /\ FoundOutcome(r.db, c.key, c.start) # {}
  <1> DEFINE k == c.key
             s == c.start
  <1>1. d \in Records /\ k \in Key
    BY CallOwner DEF Inv, Typed
  <1>2. CASE CommittedAs(d, k, s) # {}
    BY <1>2 DEF ApplyRollback, CommittedAs
  <1>3. CASE CommittedAs(d, k, s) = {}
    <2>1. PICK w \in r.db.write : w.key = k /\ w.start = s /\ w.kind = "rollback"
      <3>1. CASE RolledBack(d, k, s)
        <4>1. r.db.write = d.write
          BY <3>1, SMTT(30) DEF ApplyRollback, Unlock, Records
        <4> QED
          BY <3>1, <4>1, FoundIsThere, SMTT(30) DEF RolledBack
      <3>2. CASE ~RolledBack(d, k, s)
        <4> DEFINE w == [key |-> k, ts |-> s, kind |-> "rollback", start |-> s]
        <4>1. w \in r.db.write
          BY <1>1, <1>3, <3>2 DEF ApplyRollback, Unlock, AddWrite, Records
        <4> QED
          BY <4>1
      <3> QED
        BY <3>1, <3>2
    <2>2. CommittedAs(r.db, k, s) = {}
      BY <2>1, CommittedAsIs, SMTT(30) DEF Inv, Single
    <2>3. w \in FoundOutcome(r.db, k, s)
      BY <2>1, FoundIsThere, SMTT(30)
    <2> QED
      BY <2>2, <2>3 DEF ApplyRollback
  <1> QED
    BY <1>2, <1>3

\* The loop of prewrites takes its next key, or stops.
LEMMA OnPrewriteInv ==
    ASSUME Inv(db), NEW t \in Txn, client[t].pc = "prewrite", client[t].call \in calls,
           NEW r, r = Perform(db, client[t].call), db' = r.db, Inv(r.db),
           clock' = clock, OnPrewrite(t, r.code)
    PROVE  Inv(db)'
  <1> DEFINE o == client[t]
             k == First(o.todo)
             left == o.todo \ {k}
             done == o.prewritten \cup {k}
             e == r.db
  <1>1. /\ o \in ClientState /\ client \in [Txn -> ClientState] /\ o.start \in Nat
        /\ o.todo \in SUBSET Key /\ o.prewritten \in SUBSET Key
    BY ClientFields DEF Inv, Typed
  <1>2. ClientOK(db, t) /\ ClientOK(e, t)
    BY DEF Inv
  <1>3. Deciding(t)
    BY DEF Deciding
  <1>4. o.start # 0 /\ ~o.gaveUp /\ ~CommitSent(t) /\ ~o.active
    BY <1>2, Undecided DEF Aborting, ClientOK, LoopOK
  <1>5. o.todo \cup o.prewritten = Writes(t) /\ o.todo # {} /\ Writes(t) # {}
    BY <1>2, <1>3 DEF ClientOK, LoopOK
  <1>6. k \in o.todo /\ k \in Key
    BY <1>1, <1>5, FirstKey
  <1>7. o.call = PrewriteCall(t, k)
    BY <1>2 DEF ClientOK, SentOK
  <1>8. o.call.kind = "prewrite" /\ o.call.key = k /\ o.call.start = o.start
    BY <1>7, SMTT(30) DEF PrewriteCall
  <1>9. r.code = "OK" => \A j \in done : Holds(e, t, j)
    <2>1. r = ApplyPrewrite(db, o.call)
      BY <1>8 DEF Perform
    <2>2. r.code = "OK" => e.lock[k].start = o.start
      BY <1>8, <2>1, PrewriteAnswer DEF Inv, Typed
    <2>3. \A j \in o.prewritten : Holds(e, t, j)
      BY <1>2 DEF ClientOK, PhaseOK
    <2> QED
      BY <2>2, <2>3 DEF Holds
  <1>10. left \in SUBSET Key /\ done \in SUBSET Key /\ left \cup done = Writes(t)
    BY <1>1, <1>5, <1>6
  <1> HIDE DEF k, left, done
  <1>11. CASE r.code = "OK" /\ left # {} /\ Prewrite(t, left, done)
    <2> DEFINE b == PrewriteCall(t, First(left))
               c == [o EXCEPT !.pc = "prewrite", !.todo = left, !.prewritten = done,
                              !.met = NoLockMet, !.call = b]
    <2>1. First(left) \in left /\ First(left) \in Writes(t) /\ First(left) \in Key
      BY <1>10, <1>11, FirstKey
    <2>2. Primary(t) \in Key
      BY <1>5, PrimaryIsWritten
    <2>3. b \in Call
      BY <1>1, <2>1, <2>2, ScriptAssumption DEF PrewriteCall, Call, Writes
    <2>4. Send(t, c)
      BY <1>11 DEF Prewrite
    <2>5. NoLockMet \in [key : Key \cup {0}, start : Nat, primary : Key \cup {0}]
      BY DEF NoLockMet
    <2> HIDE DEF b
    <2>6. c \in ClientState
      BY <1>1, <1>10, <2>3, <2>5 DEF ClientState, Pcs
    <2>7. /\ c.pc = "prewrite" /\ c.active = o.active /\ c.start = o.start /\ c.todo = left
          /\ c.prewritten = done /\ c.gaveUp = o.gaveUp /\ c.call = b
      BY <1>1 DEF ClientState
    <2> HIDE DEF c
    <2>8. c.call = PrewriteCall(t, First(c.todo))
      BY <2>7 DEF b
    <2> QED
      BY <1>4, <1>9, <1>10, <1>11, <2>4, <2>6, <2>7, <2>8, ToPrewriteInv DEF Aborting
  <1>12. CASE /\ r.code = "OK" /\ left = {}
              /\ Stay(t, [o EXCEPT !.pc = "allocate", !.todo = {}, !.prewritten = done,
                                   !.call = NoCall])
    <2> DEFINE c == [o EXCEPT !.pc = "allocate", !.todo = {}, !.prewritten = done,
                              !.call = NoCall]
    <2>1. c \in ClientState
      BY <1>1, <1>10 DEF ClientState, Pcs
    <2>2. /\ c.pc = "allocate" /\ c.active = o.active /\ c.start = o.start /\ c.todo = {}
          /\ c.prewritten = done /\ c.gaveUp = o.gaveUp /\ c.call = NoCall
      BY <1>1 DEF ClientState
    <2>3. client' = [client EXCEPT ![t] = c] /\ calls' = calls
      BY <1>12 DEF Stay
    <2>4. client'[t] = c
      BY <1>1, <2>3
    <2> HIDE DEF c
    <2>5. LoopOK(t)'
      BY <1>4, <1>5, <1>10, <1>12, <2>2, <2>4 DEF LoopOK, Deciding, Resolving
    <2>6. SentOK(db, t)'
      BY <2>2, <2>4 DEF SentOK, Sending
    <2>7. \A j \in c.prewritten : j \in Writes(t) /\ Holds(e, t, j)
      BY <1>9, <1>10, <1>12, <2>2
    <2>8. calls \subseteq calls' /\ \A b \in calls' : b \in calls
      BY <2>3
    <2> QED
      BY <2>1, <2>2, <2>3, <2>5, <2>6, <2>7, <2>8, QuietInv DEF Aborting
  <1>13. CASE /\ r.code = "Conflict"
              /\ Stay(t, [o EXCEPT !.pc = "conflict", !.call = NoCall])
    <2> DEFINE c == [o EXCEPT !.pc = "conflict", !.call = NoCall]
    <2>1. c \in ClientState
      BY <1>1 DEF ClientState, Pcs
    <2>2. /\ c.pc = "conflict" /\ c.active = o.active /\ c.start = o.start /\ c.todo = o.todo
          /\ c.prewritten = o.prewritten /\ c.gaveUp = o.gaveUp /\ c.call = NoCall
      BY <1>1 DEF ClientState
    <2>3. client' = [client EXCEPT ![t] = c] /\ calls' = calls
      BY <1>13 DEF Stay
    <2>4. client'[t] = c
      BY <1>1, <2>3
    <2> HIDE DEF c
    <2>5. LoopOK(t)'
      BY <1>4, <1>5, <2>2, <2>4 DEF LoopOK, Deciding, Resolving
    <2>6. SentOK(db, t)'
      BY <2>2, <2>4 DEF SentOK, Sending
    <2>7. \A j \in c.prewritten : j \in Writes(t) /\ Holds(e, t, j)
      BY <1>2, <2>2 DEF ClientOK, PhaseOK
    <2>8. calls \subseteq calls' /\ \A b \in calls' : b \in calls
      BY <2>3
    <2> QED
      BY <2>1, <2>2, <2>3, <2>5, <2>6, <2>7, <2>8, QuietInv DEF Aborting
  <1>14. CASE r.code = "Aborted" /\ AbortAll(t, o.prewritten)
    BY <1>3, <1>14, DecidingAborts
  <1> QED
    BY <1>11, <1>12, <1>13, <1>14 DEF OnPrewrite, k, left, done


\* The commit of the primary is answered: by OK if and only if it is committed, at
\* the timestamp that was asked for.
LEMMA OnCommitInv ==
    ASSUME Inv(db), NEW t \in Txn, client[t].pc = "commit", client[t].call \in calls,
           NEW r, r = Perform(db, client[t].call), db' = r.db, Inv(r.db),
           clock' = clock, OnCommit(t, r.code)
    PROVE  Inv(db)'
  <1> DEFINE o == client[t]
             P == Primary(t)
             e == r.db
  <1>1. ClientOK(db, t)
    BY DEF Inv
  <1>2. /\ o.start # 0 /\ ~o.gaveUp /\ ~o.active
        /\ o.prewritten = Writes(t) /\ Writes(t) # {}
        /\ o.call.kind = "commit" /\ o.call.key = P /\ o.call.start = o.start
    BY <1>1, PastIdle DEF ClientOK, PhaseOK, LoopOK, SentOK, Aborting
  <1>3. P \in Writes(t)
    BY <1>2, PrimaryIsWritten
  <1>4. r = ApplyCommit(db, o.call)
    BY <1>2 DEF Perform
  <1>5. CASE r.code = "OK"
    <2>1. PICK w \in e.write : w.key = P /\ w.start = o.start /\ w.kind # "rollback"
      BY <1>2, <1>4, <1>5, CommitAnswer, SMTT(30)
    <2>2. Committed(e, t, w.ts)
      BY <2>1 DEF Committed
    <2>3. PICK c \in calls : c.kind = "commit" /\ c.start = o.start /\ c.cts = w.ts
      BY <1>2, <2>2, CommittedFacts, SMTT(30)
    <2>4. o.call.cts = w.ts
      BY <1>2, <2>3 DEF Inv, Times
    <2>5. RollForward(t, Writes(t) \ {P}, o.call.cts)
      BY <1>5 DEF OnCommit
    <2>6. Writes(t) \ {P} \subseteq Writes(t) /\ o.pc \notin Aborting
      BY DEF Aborting
    <2> QED
      BY <1>2, <2>2, <2>4, <2>5, <2>6, RollForwardInv
  <1>6. CASE r.code # "OK"
    <2>1. /\ e = db /\ db.lock[P].start # o.start
          /\ \A w \in db.write : w.key = P /\ w.start = o.start => w.kind = "rollback"
      BY <1>2, <1>4, <1>6, CommitAnswer, SMTT(30)
    <2>2. Holds(db, t, P)
      BY <1>1, <1>2, <1>3 DEF ClientOK, PhaseOK
    <2>3. Poisoned(e, t)
      BY <2>1, <2>2 DEF Holds, Recorded, Poisoned
    <2>4. AbortAll(t, o.prewritten) /\ o.prewritten \subseteq o.prewritten /\ o.pc # "idle"
      BY <1>6 DEF OnCommit
    <2> QED
      BY <1>2, <2>3, <2>4, AbortAllInv
  <1> QED
    BY <1>5, <1>6

\* The next secondary is committed.
LEMMA OnRollForwardInv ==
    ASSUME NEW e, e = db', Inv(e), NEW t \in Txn, client[t].pc = "rollforward",
           clock' = clock, OnRollForward(t)
    PROVE  Inv(db)'
  <1> DEFINE o == client[t]
             keys == o.todo \ {First(o.todo)}
  <1>1. ClientOK(e, t)
    BY DEF Inv
  <1>2. /\ o.start # 0 /\ ~o.gaveUp /\ ~o.active
        /\ o.todo \subseteq o.prewritten
        /\ Committed(e, t, o.call.cts)
    BY <1>1, PastIdle DEF ClientOK, PhaseOK, LoopOK, SentOK, Aborting
  <1>3. keys \subseteq Writes(t) /\ o.pc \notin Aborting
    BY <1>1, <1>2 DEF ClientOK, PhaseOK, Aborting
  <1>4. RollForward(t, keys, o.call.cts)
    BY DEF OnRollForward
  <1> QED
    BY <1>2, <1>3, <1>4, RollForwardInv

\* The next key is rolled back.
LEMMA OnAbortInv ==
    ASSUME NEW e, e = db', Inv(e), NEW t \in Txn, client[t].pc = "abort",
           clock' = clock, OnAbort(t)
    PROVE  Inv(db)'
  <1> DEFINE o == client[t]
             keys == o.todo \ {First(o.todo)}
  <1>1. ClientOK(e, t)
    BY DEF Inv
  <1>2. o.start # 0 /\ ~o.active /\ o.pc # "idle" /\ keys \subseteq o.prewritten
    BY <1>1, PastIdle DEF ClientOK, LoopOK
  <1>3. o.gaveUp \/ Poisoned(e, t) \/ ~CommitSent(t)
    BY <1>1 DEF ClientOK, PhaseOK, Aborting, Hopeless
  <1>4. AbortAll(t, keys)
    BY DEF OnAbort
  <1> QED
    BY <1>2, <1>3, <1>4, AbortAllInv

\* The primary that was to be poisoned has an outcome now.
LEMMA OnPoisonInv ==
    ASSUME Inv(db), NEW t \in Txn, client[t].pc = "poison", client[t].call \in calls,
           NEW r, r = Perform(db, client[t].call), db' = r.db, Inv(r.db),
           clock' = clock, OnPoison(t, r.db, r.code)
    PROVE  Inv(db)'
  <1> DEFINE o == client[t]
             cts == CommittedAs(r.db, o.met.primary, o.met.start)
  <1>1. o.call = RollbackCall(o.met.primary, o.met.start)
    BY DEF Inv, ClientOK, SentOK
  <1>2. o.call.kind = "rollback" /\ o.call.key = o.met.primary /\ o.call.start = o.met.start
    BY <1>1, RollbackFields
  <1>3. r = ApplyRollback(db, o.call)
    BY <1>2 DEF Perform
  <1>4. /\ r.code = "Conflict" => cts # {}
        /\ r.code # "Conflict" => cts = {}
        /\ FoundOutcome(r.db, o.met.primary, o.met.start) # {}
    BY <1>2, <1>3, RollbackAnswer
  <1>5. Fix(t, cts)
    BY <1>4 DEF OnPoison
  <1>6. o.pc \in Resolving
    BY DEF Resolving
  <1> QED
    BY <1>4, <1>5, <1>6, FixInv

\* The blocked key is fixed: the read or the prewrite is tried again, unless its
\* commit was refused.
LEMMA OnFixInv ==
    ASSUME NEW e, e = db', Inv(e), NEW t \in Txn, client[t].pc = "fix",
           clock' = clock, NEW code, OnFix(t, code)
    PROVE  Inv(db)'
  <1> DEFINE o == client[t]
  <1>1. o \in ClientState /\ client \in [Txn -> ClientState]
    BY DEF Inv, Typed
  <1>2. ClientOK(e, t) /\ o.pc \in Resolving
    BY DEF Inv, Resolving
  <1>3. CASE Retry(t)
    BY <1>2, <1>3, RetryInv
  <1>4. CASE o.active /\ Finish(t, "failed")
    <2> DEFINE c == [o EXCEPT !.pc = "failed", !.todo = {}, !.key = 0, !.met = NoLockMet,
                              !.call = NoCall]
    <2>1. c \in ClientState
      BY <1>1 DEF ClientState, Pcs, NoLockMet
    <2>2. /\ c.pc = "failed" /\ c.start = o.start /\ c.prewritten = o.prewritten
          /\ c.gaveUp = o.gaveUp /\ c.call = NoCall
      BY SMTT(30) DEF ClientState
    <2>3. client' = [client EXCEPT ![t] = c] /\ calls' = calls
      BY <1>4 DEF Finish, Stay
    <2> HIDE DEF c
    <2>4. LoopOK(t)'
      BY <1>1, <2>2, <2>3 DEF LoopOK, Deciding, Resolving
    <2>5. SentOK(db, t)'
      BY <1>1, <2>2, <2>3 DEF SentOK, Sending
    <2>6. \A j \in c.prewritten : j \in Writes(t) /\ Holds(e, t, j)
      BY <1>2, <2>2 DEF ClientOK, PhaseOK
    <2> QED
      BY <2>1, <2>2, <2>3, <2>4, <2>5, <2>6, QuietInv DEF Aborting
  <1>5. CASE ~o.active /\ AbortAll(t, o.prewritten)
    BY <1>2, <1>5, DecidingAborts DEF Deciding
  <1> QED
    BY <1>3, <1>4, <1>5 DEF OnFix

\* A call is executed and answered.
LEMMA AnsweredInv ==
    ASSUME Inv(db), NEW t \in Txn, Answered(t)
    PROVE  Inv(db)'
  <1> DEFINE o == client[t]
  <1>1. o.call \in calls /\ o.pc \in Sending
    BY DEF Answered, ClientOK, SentOK, Inv
  <1>2. PICK r : r = Perform(db, o.call)
    OBVIOUS
  <1>3. db' = r.db /\ clock' = clock
    BY <1>2 DEF Answered, Execute
  <1>4. Inv(r.db)
    BY <1>1, <1>2, ExecuteInv
  <1>5. CASE o.pc = "prewrite"
    BY <1>1, <1>2, <1>3, <1>4, <1>5, OnPrewriteInv DEF Answered
  <1>6. CASE o.pc = "commit"
    BY <1>1, <1>2, <1>3, <1>4, <1>6, OnCommitInv DEF Answered
  <1>7. CASE o.pc = "rollforward"
    BY <1>3, <1>4, <1>7, OnRollForwardInv DEF Answered
  <1>8. CASE o.pc = "abort"
    BY <1>3, <1>4, <1>8, OnAbortInv DEF Answered
  <1>9. CASE o.pc = "expire"
    BY <1>3, <1>4, <1>9, ToOutcomeInv DEF Answered, OnExpire, Resolving
  <1>10. CASE o.pc = "poison"
    BY <1>1, <1>2, <1>3, <1>4, <1>10, OnPoisonInv DEF Answered
  <1>11. CASE o.pc = "fix"
    BY <1>3, <1>4, <1>11, OnFixInv DEF Answered
  <1> QED
    BY <1>1, <1>5, <1>6, <1>7, <1>8, <1>9, <1>10, <1>11 DEF Sending

\* The invariant speaks of the variables only: records e take the place of db'.
LEMMA StandInv ==
    ASSUME NEW e, e = db', Inv(e), UNCHANGED <<client, calls, clock>>
    PROVE  Inv(db)'
  <1>1. ASSUME NEW t \in Txn PROVE ClientOK(db, t)' /\ TxnOK(db, t)'
    <2>1. ClientOK(e, t) /\ TxnOK(e, t)
      BY DEF Inv
    <2>2. Hopeless(e, t) => Hopeless(db, t)'
      BY DEF Hopeless, Poisoned, CommitSent
    <2>3. ASSUME NEW k
          PROVE  /\ Holds(e, t, k) => Holds(db, t, k)'
                 /\ HasData(e, t, k) => HasData(db, t, k)'
                 /\ Committed(e, t, k) => Committed(db, t, k)'
      BY DEF Holds, Recorded, HasData, Committed
    <2>4. LoopOK(t)'
      BY <2>1 DEF ClientOK, LoopOK, MetOK, Deciding
    <2>5. SentOK(db, t)'
      BY <2>1 DEF ClientOK, SentOK, PrewriteCall, Committed
    <2>6. TxnOK(db, t)'
      <3>1. \A k \in Key : LockOK(e, t, k) => LockOK(db, t, k)'
        BY <2>3 DEF LockOK
      <3>2. \A w : WriteOK(e, t, w) => WriteOK(db, t, w)'
        BY <2>2, <2>3 DEF WriteOK
      <3> QED
        BY <2>1, <2>2, <2>3, <3>1, <3>2 DEF TxnOK, CallOK
    <2> QED
      BY <2>1, <2>2, <2>3, <2>4, <2>5, <2>6 DEF ClientOK, BeginOK, PhaseOK, Committed
  <1> QED
    BY <1>1, SMTT(30) DEF Inv, Typed, OwnStarts, Times, Known, Single, Started, HasLock

\* A copy of a call is executed.
LEMMA ExecutedLateInv ==
    ASSUME Inv(db), NEW c \in calls, ExecutedLate(c)
    PROVE  Inv(db)'
  BY ExecuteInv, StandInv DEF ExecutedLate, Execute

\* Client::Call runs out of attempts.
LEMMA GiveUpInv ==
    ASSUME Inv(db), NEW t \in Txn, GiveUp(t)
    PROVE  Inv(db)'
  <1> DEFINE o == client[t]
  <1>1. o \in ClientState /\ client \in [Txn -> ClientState] /\ o.start \in Nat /\ clock \in Nat
    BY ClientFields DEF Inv, Typed
  <1>2. ClientOK(db, t)
    BY DEF Inv
  <1>3. db' = db /\ clock' = clock
    BY DEF GiveUp
  <1>4. CASE /\ o.pc \in {"prewrite", "conflict", "lookup", "expire", "outcome", "poison", "fix",
                          "allocate"}
             /\ ~o.active /\ AbortAll(t, o.prewritten)
    BY <1>3, <1>4, DecidingAborts DEF Deciding, Resolving
  <1>5. CASE o.pc = "rollforward" /\ OnRollForward(t)
    BY <1>3, <1>5, OnRollForwardInv
  <1>6. CASE o.pc = "abort" /\ OnAbort(t)
    BY <1>3, <1>6, OnAbortInv
  <1>7. CASE /\ o.pc = "commit"
             /\ Send(t, [o EXCEPT !.pc = "abort", !.todo = o.prewritten, !.gaveUp = TRUE,
                                  !.call = RollbackCall(First(o.prewritten), o.start)])
    <2> DEFINE b == RollbackCall(First(o.prewritten), o.start)
               c == [o EXCEPT !.pc = "abort", !.todo = o.prewritten, !.gaveUp = TRUE, !.call = b]
    <2>1. /\ o.start # 0 /\ ~o.active /\ o.start <= clock
          /\ o.prewritten = Writes(t) /\ Writes(t) # {}
      BY <1>2, <1>7, SMTT(30) DEF ClientOK, BeginOK, PhaseOK, LoopOK, Idle
    <2>2. Primary(t) \in Writes(t) /\ Primary(t) \in Key /\ First(o.prewritten) = Primary(t)
      BY <2>1, PrimaryIsWritten DEF Primary
    <2>3. b \in Call
      BY <1>1, <2>2, CallTypes
    <2>4. b.kind = "rollback" /\ b.key = Primary(t) /\ b.start = o.start
      BY <2>2 DEF RollbackCall
    <2>5. Send(t, c)
      BY <1>7
    <2> HIDE DEF b
    <2>6. c \in ClientState
      BY <1>1, <2>3 DEF ClientState, Pcs
    <2>7. /\ c.pc = "abort" /\ c.active = o.active /\ c.start = o.start /\ c.todo = o.prewritten
          /\ c.prewritten = o.prewritten /\ c.call = b
      BY <1>1 DEF ClientState
    <2>8. c.gaveUp
      BY <1>1 DEF ClientState
    <2>9. client' = [client EXCEPT ![t] = c] /\ calls' = calls \cup {b}
      BY <2>5, <2>7 DEF Send
    <2>10. /\ client'[t] = c /\ client' \in [Txn -> ClientState]
           /\ \A u \in Txn : u # t => client'[u] = client[u]
      BY <1>1, <2>6, <2>9
    <2> HIDE DEF c
    <2>11. ClientOK(db, t)'
      <3>1. BeginOK(t)'
        BY <1>1, <1>3, <2>1, <2>7, <2>10 DEF BeginOK
      <3>2. PhaseOK(db, t)'
        <4>1. \A k \in c.prewritten : k \in Writes(t) /\ Holds(db, t, k)'
          BY <1>2, <1>3, <2>7, <2>10, SMTT(30) DEF ClientOK, PhaseOK, Holds, Recorded
        <4> QED
          BY <2>7, <2>8, <2>10, <4>1 DEF PhaseOK, Aborting
      <3>3. LoopOK(t)'
        BY <2>1, <2>7, <2>10 DEF LoopOK, Deciding, Resolving
      <3>4. SentOK(db, t)'
        BY <2>3, <2>7, <2>9, <2>10, NoCallIsNone DEF SentOK, Sending
      <3> QED
        BY <3>1, <3>2, <3>3, <3>4 DEF ClientOK
    <2>12. Promises(t)
      BY <1>7, <2>1, <2>7, <2>8, <2>10 DEF Promises, Aborting
    <2>13. ASSUME NEW a \in calls', a \notin calls PROVE Ordered(t, a)
      <3>1. a = b
        BY <2>9, <2>13
      <3>2. \A u \in Txn : client[u].start = a.start => u = t
        BY <2>1, <2>4, <3>1 DEF Inv, OwnStarts
      <3>3. CallOK(db, t, a)'
        BY <2>2, <2>4, <3>1 DEF CallOK
      <3> QED
        BY <2>1, <2>3, <2>4, <3>1, <3>2, <3>3 DEF Ordered, Started
    <2> QED
      BY <1>1, <1>3, <2>9, <2>10, <2>11, <2>12, <2>13, MoveInv, SMTT(30)
  <1> QED
    BY <1>4, <1>5, <1>6, <1>7 DEF GiveUp

-----------------------------------------------------------------------------
(* The theorems. *)

\* Nothing has happened yet.
LEMMA InitInv == Init => Inv(db)
  <1> SUFFICES ASSUME Init PROVE Inv(db)
    OBVIOUS
  <1>1. Typed(db)
    BY DEF Idle, ClientState, Pcs, NoLockMet, Init, Records, LockRecord, NoLock, Typed
  <1>2. \A t \in Txn : client[t].pc = "idle" /\ client[t].start = 0 /\ ~client[t].gaveUp
                        /\ client[t].prewritten = {} /\ client[t].call = NoCall
    BY DEF Idle, Init
  <1>3. ASSUME NEW t \in Txn PROVE ClientOK(db, t) /\ TxnOK(db, t)
    <2>1. BeginOK(t)
      BY <1>2, SMTT(30) DEF BeginOK, Init
    <2> QED
      BY <1>2, <2>1
         DEF ClientOK, TxnOK, PhaseOK, Aborting, LoopOK, Deciding, Resolving, SentOK, Sending
  <1> QED
    BY <1>1, <1>2, <1>3 DEF Inv, OwnStarts, Times, Init, Known, Single, HasLock

\* Every step keeps the invariant.
LEMMA NextInv == Inv(db) /\ [Next]_vars => Inv(db)'
  <1> SUFFICES ASSUME Inv(db), [Next]_vars PROVE Inv(db)'
    OBVIOUS
  <1>1. ASSUME NEW t \in Txn, Begin(t) PROVE Inv(db)'
    BY <1>1, BeginInv
  <1>2. ASSUME NEW t \in Txn, ScanLocks(t) PROVE Inv(db)'
    BY <1>2, ScanLocksInv
  <1>3. ASSUME NEW t \in Txn, ScanColumns(t) PROVE Inv(db)'
    BY <1>3, ScanColumnsInv
  <1>4. ASSUME NEW t \in Txn, NEW k \in Key, GetLock(t, k) PROVE Inv(db)'
    BY <1>4, GetLockInv
  <1>5. ASSUME NEW t \in Txn, NEW v \in Txn \cup {NotFound}, GetWalk(t, v) PROVE Inv(db)'
    BY <1>5, GetWalkInv
  <1>6. ASSUME NEW t \in Txn, LookUp(t) PROVE Inv(db)'
    BY <1>6, LookUpInv
  <1>7. ASSUME NEW t \in Txn, FindOutcome(t) PROVE Inv(db)'
    BY <1>7, FindOutcomeInv
  <1>8. ASSUME NEW t \in Txn, StartCommit(t) PROVE Inv(db)'
    BY <1>8, StartCommitInv
  <1>9. ASSUME NEW t \in Txn, Rollback(t) PROVE Inv(db)'
    BY <1>9, RollbackInv
  <1>10. ASSUME NEW t \in Txn, ReportConflict(t) PROVE Inv(db)'
    BY <1>10, ReportConflictInv
  <1>11. ASSUME NEW t \in Txn, AllocateCommitTs(t) PROVE Inv(db)'
    BY <1>11, AllocateCommitTsInv
  <1>12. ASSUME NEW t \in Txn, Answered(t) PROVE Inv(db)'
    BY <1>12, AnsweredInv
  <1>13. ASSUME NEW t \in Txn, GiveUp(t) PROVE Inv(db)'
    BY <1>13, GiveUpInv
  <1>14. ASSUME NEW c \in calls, ExecutedLate(c) PROVE Inv(db)'
    BY <1>14, ExecutedLateInv
  <1>15. CASE UNCHANGED vars
    BY <1>15, StandInv DEF vars
  <1> QED
    BY <1>1, <1>2, <1>3, <1>4, <1>5, <1>6, <1>7, <1>8, <1>9, <1>10, <1>11, <1>12, <1>13, <1>14,
       <1>15
       DEF Next

\* A transaction that carries a commit record carries no marker, unless its client
\* has given up.
LEMMA CommittedIsClean ==
    ASSUME Inv(db), NEW t \in Txn, client[t].start # 0, ~client[t].gaveUp,
           NEW w \in db.write, w.start = client[t].start, w.kind # "rollback",
           NEW x \in db.write, x.start = client[t].start
    PROVE  x.kind # "rollback" /\ x.ts = w.ts /\ ~Hopeless(db, t)
  <1>1. WriteOK(db, t, w) /\ WriteOK(db, t, x)
    BY DEF Inv, TxnOK
  <1>2. Committed(db, t, w.ts)
    BY <1>1 DEF WriteOK
  <1>3. CommitSent(t) /\ ~Poisoned(db, t)
    BY <1>2, CommittedFacts
  <1>4. ~Hopeless(db, t)
    BY <1>3 DEF Hopeless
  <1>5. x.kind # "rollback"
    BY <1>1, <1>3, <1>4 DEF WriteOK, Poisoned
  <1>6. Committed(db, t, x.ts)
    BY <1>1, <1>5 DEF WriteOK
  <1> QED
    BY <1>2, <1>4, <1>5, <1>6 DEF Committed, Inv, Single

\* One fate per key and transaction, from the invariant.
LEMMA InvOneFate == Inv(db) => OneFate
  BY DEF Inv, Single, OneFate

\* All keys share the fate of the primary, from the invariant.
LEMMA InvAgree == Inv(db) => AnsweredOutcomesAgree
  BY RecordTimes, CommittedIsClean, SMTT(30) DEF AnsweredOutcomesAgree

\* Reports are true, from the invariant.
LEMMA InvReports == Inv(db) => ReportsAreTrue
  <1> SUFFICES ASSUME Inv(db), NEW t \in Txn, NEW k \in Writes(t)
               PROVE  /\ client[t].pc = "committed" =>
                            \/ CommittedAs(db, k, client[t].start) # {}
                            \/ db.lock[k].start = client[t].start
                      /\ client[t].pc = "aborted" /\ ~client[t].gaveUp =>
                            CommittedAs(db, k, client[t].start) = {}
    BY DEF ReportsAreTrue
  <1>1. ClientOK(db, t)
    BY DEF Inv
  <1>2. CASE client[t].pc = "committed"
    <2>1. client[t].start # 0 /\ ~client[t].gaveUp
      BY <1>1, <1>2, SMTT(30) DEF ClientOK, BeginOK, PhaseOK, Aborting, Idle
    <2>2. Holds(db, t, k) /\ \E v \in db.write : Committed(db, t, v.ts)
      BY <1>1, <1>2 DEF ClientOK, PhaseOK
    <2>3. PICK w \in db.write : w.start = client[t].start /\ w.kind # "rollback"
      BY <2>2 DEF Committed
    <2>4. Recorded(db, t, k) => CommittedAs(db, k, client[t].start) # {}
      <3> SUFFICES ASSUME NEW x \in db.write, x.key = k, x.start = client[t].start
                   PROVE  CommittedAs(db, k, client[t].start) # {}
        BY DEF Recorded
      <3>1. x.kind # "rollback"
        BY <2>1, <2>3, CommittedIsClean
      <3>2. x.ts \in CommittedAs(db, k, client[t].start)
        BY <3>1, CommittedAsIs, SMTT(30)
      <3> QED
        BY <3>2
    <2> QED
      BY <1>2, <2>2, <2>4 DEF Holds
  <1>3. CASE client[t].pc = "aborted" /\ ~client[t].gaveUp
    <2>1. client[t].start # 0 /\ Hopeless(db, t)
      BY <1>1, <1>3, SMTT(30) DEF ClientOK, BeginOK, PhaseOK, Aborting, Idle
    <2>2. \A w \in db.write : w.start = client[t].start => w.kind = "rollback"
      BY <1>3, <2>1, CommittedIsClean
    <2> QED
      BY <1>3, <2>2, CommittedAsIs, SMTT(30)
  <1> QED
    BY <1>2, <1>3

\* The types of the history variables.
HistoryOK ==
    /\ seen \in [Txn -> SUBSET [key : Key, value : Txn \cup {NotFound}]]
    /\ fate \in [Txn -> Nat]

\* What is noted is a value of a key.
LEMMA NoteType ==
    ASSUME HistoryOK, NEW t \in Txn, NEW keys, keys \subseteq Key,
           NEW v \in Txn \cup {NotFound}, Note(t, keys, v)
    PROVE  seen' \in [Txn -> SUBSET [key : Key, value : Txn \cup {NotFound}]]
  BY DEF HistoryOK, Note

\* The fate of a transaction is a timestamp.
LEMMA ExecuteType ==
    ASSUME Inv(db), NEW c \in calls, Execute(c)
    PROVE  fate' \in [Txn -> Nat]
  <1>1. PICK e : e = Perform(db, c).db
    OBVIOUS
  <1>2. Inv(e) /\ e = db'
    BY <1>1, ExecuteInv DEF Execute
  <1>3. ASSUME NEW s \in Nat, NEW k PROVE CommittedAs(e, k, s) \subseteq Nat
    <2>1. \A w \in e.write : w.ts \in Nat
      BY <1>2, RecordFields DEF Inv, Typed
    <2> QED
      BY <1>2, <2>1, CommittedAsIs, SMTT(30)
  <1>4. ASSUME NEW s \in Nat, NEW k, CommittedAs(e, k, s) # {}
        PROVE  First(CommittedAs(e, k, s)) \in Nat
    BY <1>3, <1>4, FirstMember
  <1>5. \A t \in Txn : CommitOf(e, t) \in Nat
    <2>1. \A t \in Txn : client[t].start \in Nat
      BY ClientFields DEF Inv, Typed
    <2> QED
      BY <1>4, <2>1 DEF CommitOf
  <1> QED
    BY <1>2, <1>5 DEF Execute

\* Every step keeps the types of the history variables.
LEMMA NextHistory == Inv(db) /\ HistoryOK /\ [Next]_vars => HistoryOK'
  <1> SUFFICES ASSUME Inv(db), HistoryOK, [Next]_vars PROVE HistoryOK'
    OBVIOUS
  <1>1. ASSUME NEW t \in Txn, ScanColumns(t) PROVE HistoryOK'
    BY <1>1, ClientFields, NoteType DEF Rest, Inv, Typed, ScanColumns, HistoryOK
  <1>2. ASSUME NEW t \in Txn, NEW v \in Txn \cup {NotFound}, GetWalk(t, v) PROVE HistoryOK'
    BY <1>2, NoteType DEF GetWalk, Inv, ClientOK, LoopOK, HistoryOK
  <1>3. ASSUME NEW t \in Txn, Answered(t) PROVE HistoryOK'
    BY <1>3, ExecuteType DEF Answered, Inv, ClientOK, SentOK, HistoryOK
  <1>4. ASSUME NEW c \in calls, ExecutedLate(c) PROVE HistoryOK'
    BY <1>4, ExecuteType DEF ExecutedLate, HistoryOK
  <1>5. CASE UNCHANGED <<seen, fate>>
    BY <1>5 DEF HistoryOK
  <1>6. \/ UNCHANGED <<seen, fate>>
        \/ \E t \in Txn : ScanColumns(t) \/ Answered(t)
        \/ \E t \in Txn, v \in Txn \cup {NotFound} : GetWalk(t, v)
        \/ \E c \in calls : ExecutedLate(c)
    BY DEF Next, vars, Begin, ScanLocks, GetLock, LookUp, FindOutcome, StartCommit, Rollback,
           ReportConflict, AllocateCommitTs, GiveUp
  <1> QED
    BY <1>1, <1>2, <1>3, <1>4, <1>5, <1>6

\* Types and values, from the invariant.
LEMMA InvData == Inv(db) /\ HistoryOK => DataBehindRecords
  <1> SUFFICES ASSUME Inv(db), HistoryOK PROVE DataBehindRecords
    OBVIOUS
  <1>1. ASSUME NEW k \in Key, HasLock(db, k) PROVE db.lock[k].primary \in Key
    <2>1. PICK t \in Txn : client[t].start = db.lock[k].start /\ client[t].start # 0
      BY <1>1 DEF Inv, Known, Started
    <2>2. LockOK(db, t, k)
      BY <2>1 DEF Inv, TxnOK
    <2> QED
      BY <2>2, PrimaryIsWritten DEF LockOK
  <1>2. ASSUME NEW t \in Txn, client[t].pc \in {"prewrite", "conflict"} PROVE client[t].todo # {}
    BY <1>2 DEF Inv, ClientOK, LoopOK, Deciding
  <1>3. ASSUME NEW w \in db.write, w.kind = "put"
        PROVE  \E x \in db.data : x.key = w.key /\ x.start = w.start
    <2>1. PICK t \in Txn : client[t].start = w.start /\ WriteOK(db, t, w)
      BY RecordTimes
    <2> QED
      BY <1>3, <2>1 DEF WriteOK, HasData
  <1> QED
    BY <1>1, <1>2, <1>3 DEF DataBehindRecords, TypeOK, HistoryOK, Inv, Typed, Records

\* The invariant holds, for any keys, ranges, transactions and scripts, with any
\* number of crashed clients, resolvers, copies of calls and time-outs.
THEOREM Invariant == Spec => [](Inv(db) /\ HistoryOK)
  <1>1. Init => Inv(db) /\ HistoryOK
    BY InitInv, SMTT(30) DEF Init, HistoryOK
  <1>2. (Inv(db) /\ HistoryOK) /\ [Next]_vars => (Inv(db) /\ HistoryOK)'
    BY NextInv, NextHistory
  <1> QED
    BY <1>1, <1>2, PTL DEF Spec

\* A key has one fate in a transaction: a delayed prewrite or commit finds the
\* marker or the record (ApplyPrewrite, ApplyCommit, ApplyRollback).
THEOREM OneFateHolds == Spec => []OneFate
  BY Invariant, InvOneFate, PTL

\* The records are well formed and TxnGet's "missing data record" is unreachable.
THEOREM DataBehindRecordsHolds == Spec => []DataBehindRecords
  BY Invariant, InvData, PTL

\* All keys of a transaction share the fate of its primary, whoever wrote the
\* records, unless its client has given up on the commit of the primary.
THEOREM OutcomesAgreeHolds == Spec => []AnsweredOutcomesAgree
  BY Invariant, InvAgree, PTL

\* What Commit() reports is true and stays true.
THEOREM ReportsAreTrueHolds == Spec => []ReportsAreTrue
  BY Invariant, InvReports, PTL

=============================================================================
