------------------------- MODULE PercolatorRefinement -------------------------
(***************************************************************************)
(* Percolator implements SnapshotIsolation, for any keys, ranges,          *)
(* transactions and scripts.                                               *)
(*                                                                         *)
(* A transaction commits in the abstract specification when the record of  *)
(* its primary is written.  The proof rests on two more invariants: fate   *)
(* is what the primaries say, and a key that a transaction has read, or is *)
(* about to read, is settled for it (Settled below).                       *)
(***************************************************************************)
EXTENDS PercolatorProofs

\* Every commit below the snapshot of t that concerns k has left its record on k
\* (or a marker, if its client has given up): the locks are out of the way.
Settled(d, t, k) ==
    \A c \in calls : \A u \in Txn :
        /\ c.kind = "commit" /\ c.start = client[u].start
        /\ c.cts < client[t].start /\ k \in Writes(u)
        => Recorded(d, u, k)

ReadOK(t) ==
    /\ \A r \in seen[t] : client[t].start # 0 /\ Settled(db, t, r.key)
    /\ client[t].pc = "walk" => Settled(db, t, client[t].key)
    /\ client[t].pc = "columns" => \A k \in Rest(t) : Settled(db, t, k)

FateOK == fate = [t \in Txn |-> CommitOf(db, t)]

RInv == Inv(db) /\ HistoryOK /\ FateOK /\ \A t \in Txn : ReadOK(t)

-----------------------------------------------------------------------------
(* What a step leaves alone. *)

\* A new call is no commit, or one at a new timestamp, or the commit of another
\* key of a transaction at its timestamp.
Timely(c) ==
    c.kind = "commit" =>
        \/ c.cts > clock
        \/ \E b \in calls : b.kind = "commit" /\ b.start = c.start /\ b.cts = c.cts

Looking == {"walk", "columns"}

\* Client t goes to look at records, in state c, when no lock is in the way.
Clear(t, c) ==
    /\ c.pc = "walk" => c.key \in Key /\ ~Blocks(c.key, client[t].start)
    /\ c.pc = "columns" => /\ c.todo = client[t].todo
                           /\ \A k \in Rest(t) : ~Blocks(k, client[t].start)

\* Clients keep their timestamps and do not forget that they have given up.
Steady ==
    /\ \A u \in Txn : /\ client'[u].start = client[u].start
                      /\ client[u].gaveUp => client'[u].gaveUp
                      /\ client'[u] = client[u] \/ Clear(u, client'[u])
    /\ calls \subseteq calls'
    /\ \A c \in calls' : c \in calls \/ Timely(c)

\* A client that changes its state and sends nothing.
LEMMA StaySteady ==
    ASSUME client \in [Txn -> ClientState], NEW t \in Txn, NEW c, Stay(t, c),
           c.start = client[t].start, client[t].gaveUp => c.gaveUp,
           c.pc \notin Looking \/ Clear(t, c)
    PROVE  Steady
  BY Zenon DEF Stay, Steady, Clear, Looking

\* A client that changes its state and sends a call.
LEMMA SendSteady ==
    ASSUME client \in [Txn -> ClientState], NEW t \in Txn, NEW c, Send(t, c),
           c.start = client[t].start, client[t].gaveUp => c.gaveUp, c.pc \notin Looking,
           Timely(c.call)
    PROVE  Steady
  BY Zenon DEF Send, Steady, Clear, Looking

\* abort_all sends rollbacks.
LEMMA AbortAllSteady ==
    ASSUME client \in [Txn -> ClientState], NEW t \in Txn, NEW keys, AbortAll(t, keys)
    PROVE  Steady
  <1>1. client[t] \in ClientState
    BY Zenon
  <1>2. CASE keys = {}
    <2> DEFINE c == [client[t] EXCEPT !.pc = "aborted", !.todo = {}, !.key = 0,
                                      !.met = NoLockMet, !.call = NoCall]
    <2>1. Stay(t, c)
      BY <1>2, Zenon DEF AbortAll, Finish
    <2>2. c.pc \notin Looking /\ c.start = client[t].start /\ c.gaveUp = client[t].gaveUp
      BY <1>1, Zenon DEF ClientState, Looking
    <2> QED
      BY <2>1, <2>2, StaySteady, Zenon
  <1>3. CASE keys # {}
    <2> DEFINE b == RollbackCall(First(keys), client[t].start)
               c == [client[t] EXCEPT !.pc = "abort", !.todo = keys, !.met = NoLockMet, !.call = b]
    <2>1. Send(t, c)
      BY <1>3, Zenon DEF AbortAll
    <2>2. /\ c.pc \notin Looking /\ c.call = b
          /\ c.start = client[t].start /\ c.gaveUp = client[t].gaveUp
      BY <1>1, Zenon DEF ClientState, Looking
    <2>3. Timely(b)
      BY Zenon DEF Timely, RollbackCall
    <2> QED
      BY <2>1, <2>2, <2>3, SendSteady, Zenon
  <1> QED
    BY <1>2, <1>3, Zenon

\* The next prewrite.
LEMMA PrewriteSteady ==
    ASSUME client \in [Txn -> ClientState], NEW t \in Txn, NEW keys, NEW done,
           Prewrite(t, keys, done)
    PROVE  Steady
  <1> DEFINE b == PrewriteCall(t, First(keys))
             c == [client[t] EXCEPT !.pc = "prewrite", !.todo = keys, !.prewritten = done,
                                    !.met = NoLockMet, !.call = b]
  <1>1. Send(t, c)
    BY Zenon DEF Prewrite
  <1>2. /\ c.pc \notin Looking /\ c.call = b
        /\ c.start = client[t].start /\ c.gaveUp = client[t].gaveUp
    BY DEF ClientState, Looking
  <1>3. Timely(b)
    BY Zenon DEF Timely, PrewriteCall
  <1> QED
    BY <1>1, <1>2, <1>3, SendSteady, Zenon

\* A read or a prewrite is tried again.
LEMMA RetrySteady ==
    ASSUME client \in [Txn -> ClientState], NEW t \in Txn, Retry(t)
    PROVE  Steady
  <1>1. CASE ~client[t].active
    BY <1>1, PrewriteSteady, Zenon DEF Retry
  <1>2. CASE client[t].active
    <2> DEFINE keys == IF t \in Scans THEN ReadSet[t] ELSE client[t].todo
               c == [client[t] EXCEPT !.pc = "active", !.key = 0, !.met = NoLockMet,
                                      !.todo = keys, !.call = NoCall]
    <2>1. Stay(t, c)
      BY <1>2, Zenon DEF Retry
    <2> HIDE DEF keys
    <2>2. c.pc \notin Looking /\ c.start = client[t].start /\ c.gaveUp = client[t].gaveUp
      BY DEF ClientState, Looking
    <2> QED
      BY <2>1, <2>2, StaySteady, Zenon
  <1> QED
    BY <1>1, <1>2, Zenon

\* The commit of a secondary has the timestamp of an earlier commit.
LEMMA RollForwardSteady ==
    ASSUME client \in [Txn -> ClientState], NEW t \in Txn, NEW keys, NEW cts,
           \E b \in calls : b.kind = "commit" /\ b.start = client[t].start /\ b.cts = cts,
           RollForward(t, keys, cts)
    PROVE  Steady
  <1>1. CASE keys = {}
    <2> DEFINE c == [client[t] EXCEPT !.pc = "committed", !.todo = {}, !.key = 0,
                                      !.met = NoLockMet, !.call = NoCall]
    <2>1. Stay(t, c)
      BY <1>1, Zenon DEF RollForward, Finish
    <2>2. c.pc \notin Looking /\ c.start = client[t].start /\ c.gaveUp = client[t].gaveUp
      BY DEF ClientState, Looking
    <2> QED
      BY <2>1, <2>2, StaySteady, Zenon
  <1>2. CASE keys # {}
    <2> DEFINE b == CommitCall(First(keys), client[t].start, cts)
               c == [client[t] EXCEPT !.pc = "rollforward", !.todo = keys, !.call = b]
    <2>1. Send(t, c)
      BY <1>2, Zenon DEF RollForward
    <2>2. /\ c.pc \notin Looking /\ c.call = b
          /\ c.start = client[t].start /\ c.gaveUp = client[t].gaveUp
      BY DEF ClientState, Looking
    <2>3. Timely(b)
      BY Zenon DEF Timely, CommitCall
    <2> QED
      BY <2>1, <2>2, <2>3, SendSteady, Zenon
  <1> QED
    BY <1>1, <1>2, Zenon

\* A resolver commits the blocked key at the timestamp it has found on the primary.
LEMMA FixSteady ==
    ASSUME NEW e, Inv(e), NEW t \in Txn, client[t].pc \in Resolving, NEW cts,
           cts = {} \/ cts = CommittedAs(e, client[t].met.primary, client[t].met.start),
           Fix(t, cts)
    PROVE  Steady
  <1> DEFINE met == client[t].met
             b == FixCall(met, cts)
             c == [client[t] EXCEPT !.pc = "fix", !.call = b]
  <1>1. client \in [Txn -> ClientState]
    BY Zenon DEF Inv, Typed
  <1>2. Send(t, c)
    BY Zenon DEF Fix
  <1>3. Timely(b)
    <2>1. CASE cts = {}
      BY <2>1, Zenon DEF FixCall, Timely, RollbackCall
    <2>2. CASE cts # {}
      <3>1. cts \subseteq Nat
        <4>1. \A w \in e.write : w.ts \in Nat
          BY RecordFields, Zenon DEF Inv, Typed
        <4> QED
          BY <2>2, <4>1, CommittedAsIs
      <3>2. First(cts) \in cts
        BY <2>2, <3>1, FirstMember, Zenon
      <3>3. PICK w \in e.write : /\ w.key = met.primary /\ w.start = met.start
                                 /\ w.kind # "rollback" /\ w.ts = First(cts)
        BY <2>2, <3>2, CommittedAsIs
      <3>4. \E a \in calls : a.kind = "commit" /\ a.start = w.start /\ a.cts = w.ts
        BY <3>3, RecordTimes DEF WriteOK
      <3>5. b.start = met.start /\ b.cts = First(cts)
        BY <2>2, Zenon DEF FixCall, CommitCall
      <3> QED
        BY <3>3, <3>4, <3>5, Zenon DEF Timely
    <2> QED
      BY <2>1, <2>2, Zenon
  <1> HIDE DEF b
  <1>4. /\ c.pc \notin Looking /\ c.call = b
        /\ c.start = client[t].start /\ c.gaveUp = client[t].gaveUp
    BY <1>1, Zenon DEF ClientState, Looking
  <1> QED
    BY <1>1, <1>2, <1>3, <1>4, SendSteady, Zenon

\* A client meets a lock.
LEMMA MeetSteady ==
    ASSUME client \in [Txn -> ClientState], NEW t \in Txn, NEW k, Stay(t, Meet(t, k))
    PROVE  Steady
  <1>1. /\ Meet(t, k).pc \notin Looking
        /\ Meet(t, k).start = client[t].start /\ Meet(t, k).gaveUp = client[t].gaveUp
    BY DEF Meet, ClientState, Looking
  <1> QED
    BY <1>1, StaySteady, Zenon

\* The steps of a read.
LEMMA ReadingSteady ==
    ASSUME client \in [Txn -> ClientState], NEW t \in Txn,
           \/ ScanLocks(t)
           \/ ScanColumns(t)
           \/ \E k \in Key : GetLock(t, k)
           \/ \E v \in Txn \cup {NotFound} : GetWalk(t, v)
    PROVE  Steady
  <1> DEFINE o == client[t]
  <1>1. o \in ClientState
    BY Zenon
  <1>2. CASE ScanLocks(t)
    <2> DEFINE c == [o EXCEPT !.pc = "columns"]
    <2>1. c.pc = "columns" /\ c.start = o.start /\ c.gaveUp = o.gaveUp /\ c.todo = o.todo
      BY <1>1, Zenon DEF ClientState
    <2>2. (Stay(t, c) /\ Clear(t, c)) \/ \E k : Stay(t, Meet(t, k))
      BY <1>2, <2>1, Zenon DEF ScanLocks, Clear
    <2> QED
      BY <2>1, <2>2, MeetSteady, StaySteady, Zenon
  <1>3. CASE ScanColumns(t)
    <2> DEFINE absent == {k \in Rest(t) : WritesOf(db, k) = {}}
               pc == IF absent = Rest(t) THEN "active" ELSE "scan"
               left == o.todo \ absent
               c == [o EXCEPT !.pc = pc, !.todo = left]
    <2>1. Stay(t, c) /\ pc \notin Looking
      BY <1>3, Zenon DEF ScanColumns, Looking
    <2> HIDE DEF pc, left
    <2>2. c.pc \notin Looking /\ c.start = o.start /\ c.gaveUp = o.gaveUp
      BY <1>1, <2>1, Zenon DEF ClientState
    <2> QED
      BY <2>1, <2>2, StaySteady, Zenon
  <1>4. ASSUME NEW k \in Key, GetLock(t, k) PROVE Steady
    <2> DEFINE c == [o EXCEPT !.pc = "walk", !.key = k]
    <2>1. c.pc = "walk" /\ c.key = k /\ c.start = o.start /\ c.gaveUp = o.gaveUp
      BY <1>1, Zenon DEF ClientState
    <2>2. (Stay(t, c) /\ Clear(t, c)) \/ Stay(t, Meet(t, k))
      BY <1>4, <2>1, Zenon DEF GetLock, Clear
    <2> QED
      BY <2>1, <2>2, MeetSteady, StaySteady, Zenon
  <1>5. ASSUME NEW v, GetWalk(t, v) PROVE Steady
    <2> DEFINE pc == IF t \in Scans /\ Rest(t) # {o.key} THEN "scan" ELSE "active"
               left == o.todo \ {o.key}
               c == [o EXCEPT !.pc = pc, !.key = 0, !.todo = left]
    <2>1. Stay(t, c) /\ pc \notin Looking
      BY <1>5, Zenon DEF GetWalk, Looking
    <2> HIDE DEF pc, left
    <2>2. c.pc \notin Looking /\ c.start = o.start /\ c.gaveUp = o.gaveUp
      BY <1>1, <2>1, Zenon DEF ClientState
    <2> QED
      BY <2>1, <2>2, StaySteady, Zenon
  <1> QED
    BY <1>2, <1>3, <1>4, <1>5, Zenon

\* The steps of a resolution.
LEMMA ResolvingSteady ==
    ASSUME Inv(db), NEW t \in Txn, LookUp(t) \/ FindOutcome(t)
    PROVE  Steady
  <1> DEFINE o == client[t]
             b == RollbackCall(o.met.primary, o.met.start)
  <1>1. o \in ClientState /\ client \in [Txn -> ClientState]
    BY Zenon DEF Inv, Typed
  <1>2. Timely(b)
    BY Zenon DEF Timely, RollbackCall
  <1>3. ASSUME NEW pc \in {"expire", "poison"}, Send(t, [o EXCEPT !.pc = pc, !.call = b])
        PROVE  Steady
    <2> DEFINE c == [o EXCEPT !.pc = pc, !.call = b]
    <2>1. c.pc \notin Looking /\ c.start = o.start /\ c.gaveUp = o.gaveUp /\ c.call = b
      BY <1>1, Zenon DEF ClientState, Looking
    <2> QED
      BY <1>1, <1>2, <1>3, <2>1, SendSteady, Zenon
  <1>4. CASE LookUp(t)
    <2> DEFINE c == [o EXCEPT !.pc = "outcome"]
    <2>1. c.pc \notin Looking /\ c.start = o.start /\ c.gaveUp = o.gaveUp
      BY <1>1, Zenon DEF ClientState, Looking
    <2>2. \/ Retry(t)
          \/ Send(t, [o EXCEPT !.pc = "expire", !.call = b])
          \/ Stay(t, c)
      BY <1>4, Zenon DEF LookUp
    <2> QED
      BY <1>1, <1>3, <2>1, <2>2, RetrySteady, StaySteady, Zenon
  <1>5. CASE FindOutcome(t)
    <2>1. o.pc \in Resolving
      BY <1>5, Zenon DEF FindOutcome, Resolving
    <2>2. \/ Send(t, [o EXCEPT !.pc = "poison", !.call = b])
          \/ Fix(t, CommittedAs(db, o.met.primary, o.met.start))
      BY <1>5, Zenon DEF FindOutcome
    <2> QED
      BY <1>3, <2>1, <2>2, FixSteady, Zenon
  <1> QED
    BY <1>4, <1>5, Zenon

\* Commit and Rollback up to the commit of the primary.
LEMMA DecidingSteady ==
    ASSUME Inv(db), NEW t \in Txn,
           StartCommit(t) \/ Rollback(t) \/ ReportConflict(t) \/ AllocateCommitTs(t)
    PROVE  Steady
  <1> DEFINE o == client[t]
  <1>1. o \in ClientState /\ client \in [Txn -> ClientState] /\ clock \in Nat
    BY Zenon DEF Inv, Typed
  <1>2. CASE StartCommit(t)
    <2> DEFINE b == PrewriteCall(t, Primary(t))
               c == [o EXCEPT !.pc = "prewrite", !.active = FALSE, !.todo = Writes(t), !.call = b]
               f == [o EXCEPT !.pc = "committed", !.todo = {}, !.key = 0, !.met = NoLockMet,
                              !.call = NoCall]
    <2>1. Send(t, c) \/ Stay(t, f)
      BY <1>2, Zenon DEF StartCommit, Finish
    <2>2. c.pc \notin Looking /\ c.start = o.start /\ c.gaveUp = o.gaveUp /\ c.call = b
      BY <1>1, Zenon DEF ClientState, Looking
    <2>3. f.pc \notin Looking /\ f.start = o.start /\ f.gaveUp = o.gaveUp
      BY <1>1, Zenon DEF ClientState, Looking
    <2>4. Timely(b)
      BY Zenon DEF Timely, PrewriteCall
    <2> QED
      BY <1>1, <2>1, <2>2, <2>3, <2>4, StaySteady, SendSteady, Zenon
  <1>3. CASE Rollback(t)
    <2> DEFINE c == [o EXCEPT !.pc = "aborted", !.active = FALSE, !.todo = {}]
    <2>1. c.pc \notin Looking /\ c.start = o.start /\ c.gaveUp = o.gaveUp /\ Stay(t, c)
      BY <1>1, <1>3, Zenon DEF ClientState, Rollback, Looking
    <2> QED
      BY <1>1, <2>1, StaySteady, Zenon
  <1>4. CASE ReportConflict(t)
    <2>1. AbortAll(t, o.prewritten) \/ \E k : Stay(t, Meet(t, k))
      BY <1>4, Zenon DEF ReportConflict
    <2> QED
      BY <1>1, <2>1, AbortAllSteady, MeetSteady, Zenon
  <1>5. CASE AllocateCommitTs(t)
    <2> DEFINE b == CommitCall(Primary(t), o.start, clock + 1)
               c == [o EXCEPT !.pc = "commit", !.call = b]
    <2>1. Send(t, c)
      BY <1>5, Zenon DEF AllocateCommitTs
    <2>2. c.pc \notin Looking /\ c.start = o.start /\ c.gaveUp = o.gaveUp /\ c.call = b
      BY <1>1, Zenon DEF ClientState, Looking
    <2>3. Timely(b)
      BY <1>1 DEF Timely, CommitCall
    <2> QED
      BY <1>1, <2>1, <2>2, <2>3, SendSteady, Zenon
  <1> QED
    BY <1>2, <1>3, <1>4, <1>5, Zenon

\* The next secondary.
LEMMA OnRollForwardSteady ==
    ASSUME Inv(db), NEW t \in Txn, client[t].pc = "rollforward", OnRollForward(t)
    PROVE  Steady
  <1>1. /\ client[t].call \in calls /\ client[t].call.kind = "commit"
        /\ client[t].call.start = client[t].start
    BY Zenon DEF Inv, ClientOK, SentOK, Sending
  <1> QED
    BY <1>1, RollForwardSteady, Zenon DEF OnRollForward, Inv, Typed

\* Answers.
LEMMA AnsweredSteady ==
    ASSUME Inv(db), NEW t \in Txn, Answered(t)
    PROVE  Steady
  <1> DEFINE o == client[t]
  <1>1. o \in ClientState /\ client \in [Txn -> ClientState]
    BY Zenon DEF Inv, Typed
  <1>2. o.call \in calls /\ o.pc \in Sending
    BY Zenon DEF Answered, Inv, ClientOK, SentOK
  <1>3. PICK r : r = Perform(db, o.call)
    BY Zenon
  <1>4. Inv(r.db)
    BY <1>2, <1>3, ExecuteInv, Zenon
  <1>5. CASE o.pc = "prewrite"
    <2> DEFINE done == o.prewritten \cup {First(o.todo)}
               c == [o EXCEPT !.pc = "allocate", !.todo = {}, !.prewritten = done, !.call = NoCall]
               f == [o EXCEPT !.pc = "conflict", !.call = NoCall]
    <2>1. OnPrewrite(t, r.code)
      BY <1>3, <1>5, Zenon DEF Answered
    <2>2. \/ \E keys : Prewrite(t, keys, done)
          \/ Stay(t, c) \/ Stay(t, f)
          \/ AbortAll(t, o.prewritten)
      BY <2>1, Zenon DEF OnPrewrite
    <2> HIDE DEF done
    <2>3. c.pc \notin Looking /\ c.start = o.start /\ c.gaveUp = o.gaveUp
      BY <1>1, Zenon DEF ClientState, Looking
    <2>4. f.pc \notin Looking /\ f.start = o.start /\ f.gaveUp = o.gaveUp
      BY <1>1, Zenon DEF ClientState, Looking
    <2> QED
      BY <1>1, <2>2, <2>3, <2>4, PrewriteSteady, StaySteady, AbortAllSteady, Zenon
  <1>6. CASE o.pc = "commit"
    <2>1. OnCommit(t, r.code)
      BY <1>3, <1>6, Zenon DEF Answered
    <2>2. o.call.kind = "commit" /\ o.call.start = o.start
      BY <1>6, Zenon DEF Inv, ClientOK, SentOK
    <2> QED
      BY <1>1, <1>2, <2>1, <2>2, RollForwardSteady, AbortAllSteady, Zenon DEF OnCommit
  <1>7. CASE o.pc = "rollforward"
    BY <1>7, OnRollForwardSteady, Zenon DEF Answered
  <1>8. CASE o.pc = "abort"
    BY <1>1, <1>8, AbortAllSteady, Zenon DEF Answered, OnAbort
  <1>9. CASE o.pc = "expire"
    <2> DEFINE c == [o EXCEPT !.pc = "outcome", !.call = NoCall]
    <2>1. Stay(t, c) /\ c.pc \notin Looking /\ c.start = o.start /\ c.gaveUp = o.gaveUp
      BY <1>1, <1>9, Zenon DEF Answered, OnExpire, ClientState, Looking
    <2> QED
      BY <1>1, <2>1, StaySteady, Zenon
  <1>10. CASE o.pc = "poison"
    <2>1. OnPoison(t, r.db, r.code)
      BY <1>3, <1>10, Zenon DEF Answered
    <2>2. Fix(t, CommittedAs(r.db, o.met.primary, o.met.start)) \/ Fix(t, {})
      BY <2>1, Zenon DEF OnPoison
    <2> QED
      BY <1>4, <1>10, <2>2, FixSteady, Zenon DEF Resolving
  <1>11. CASE o.pc = "fix"
    <2> DEFINE c == [o EXCEPT !.pc = "failed", !.todo = {}, !.key = 0, !.met = NoLockMet,
                              !.call = NoCall]
    <2>1. Retry(t) \/ Stay(t, c) \/ AbortAll(t, o.prewritten)
      BY <1>11, Zenon DEF Answered, OnFix, Finish
    <2>2. c.pc \notin Looking /\ c.start = o.start /\ c.gaveUp = o.gaveUp
      BY <1>1, Zenon DEF ClientState, Looking
    <2> QED
      BY <1>1, <2>1, <2>2, RetrySteady, StaySteady, AbortAllSteady, Zenon
  <1> QED
    BY <1>2, <1>5, <1>6, <1>7, <1>8, <1>9, <1>10, <1>11, Zenon DEF Sending

\* Client::Call runs out of attempts.
LEMMA GiveUpSteady ==
    ASSUME Inv(db), NEW t \in Txn, GiveUp(t)
    PROVE  Steady
  <1> DEFINE o == client[t]
             b == RollbackCall(First(o.prewritten), o.start)
             c == [o EXCEPT !.pc = "abort", !.todo = o.prewritten, !.gaveUp = TRUE, !.call = b]
  <1>1. o \in ClientState /\ client \in [Txn -> ClientState]
    BY Zenon DEF Inv, Typed
  <1>2. \/ \E keys : AbortAll(t, keys)
        \/ Send(t, c)
        \/ o.pc = "rollforward" /\ OnRollForward(t)
    BY Zenon DEF GiveUp, OnAbort
  <1>3. Timely(b)
    BY Zenon DEF Timely, RollbackCall
  <1>4. c.pc \notin Looking /\ c.start = o.start /\ c.call = b
    BY <1>1, Zenon DEF ClientState, Looking
  <1>5. c.gaveUp
    BY <1>1, Zenon DEF ClientState
  <1> QED
    BY <1>1, <1>2, <1>3, <1>4, <1>5, AbortAllSteady, SendSteady, OnRollForwardSteady, Zenon

\* No command deletes a write record.
LEMMA WritesGrow ==
    ASSUME NEW d \in Records, NEW c \in Call
    PROVE  d.write \subseteq Perform(d, c).db.write
  <1>1. CASE c.kind = "prewrite"
    BY <1>1, Zenon DEF Perform, ApplyPrewrite, Records
  <1>2. CASE c.kind = "commit"
    BY <1>2, Zenon DEF Perform, ApplyCommit, Unlock, AddWrite, Records
  <1>3. CASE c.kind = "rollback"
    BY <1>3, Zenon DEF Perform, ApplyRollback, Unlock, AddWrite, Records
  <1> QED
    BY <1>1, <1>2, <1>3, CallFields, Zenon

\* Every step but Begin.
LEMMA StepSteady ==
    ASSUME Inv(db), [Next]_vars, ~\E t \in Txn : Begin(t)
    PROVE  Steady /\ db.write \subseteq db'.write
  <1>1. client \in [Txn -> ClientState] /\ db \in Records /\ calls \subseteq Call
    BY Zenon DEF Inv, Typed
  <1>2. CASE \E t \in Txn : \/ ScanLocks(t) \/ ScanColumns(t)
                            \/ \E k \in Key : GetLock(t, k)
                            \/ \E v \in Txn \cup {NotFound} : GetWalk(t, v)
    <2>1. db' = db
      BY <1>2, Zenon DEF ScanLocks, ScanColumns, GetLock, GetWalk
    <2> QED
      BY <1>1, <1>2, <2>1, ReadingSteady, Zenon
  <1>3. CASE \E t \in Txn : LookUp(t) \/ FindOutcome(t)
    BY <1>3, ResolvingSteady, Zenon DEF LookUp, FindOutcome
  <1>4. CASE \E t \in Txn : StartCommit(t) \/ Rollback(t) \/ ReportConflict(t)
                               \/ AllocateCommitTs(t)
    <2>1. db' = db
      BY <1>4, Zenon DEF StartCommit, Rollback, ReportConflict, AllocateCommitTs
    <2> QED
      BY <1>4, <2>1, DecidingSteady, Zenon
  <1>5. ASSUME NEW t \in Txn, Answered(t) PROVE Steady /\ db.write \subseteq db'.write
    <2>1. client[t].call \in calls
      BY <1>5, Zenon DEF Answered, Inv, ClientOK, SentOK
    <2>2. client[t].call \in Call /\ db' = Perform(db, client[t].call).db
      BY <1>1, <1>5, <2>1, Zenon DEF Answered, Execute
    <2> QED
      BY <1>1, <1>5, <2>2, WritesGrow, AnsweredSteady, Zenon
  <1>6. CASE \E t \in Txn : GiveUp(t)
    BY <1>6, GiveUpSteady, Zenon DEF GiveUp
  <1>7. ASSUME NEW c \in calls, ExecutedLate(c) PROVE Steady /\ db.write \subseteq db'.write
    <2>1. c \in Call /\ db' = Perform(db, c).db
      BY <1>1, <1>7, Zenon DEF ExecutedLate, Execute
    <2> QED
      BY <1>1, <1>7, <2>1, WritesGrow, Zenon DEF ExecutedLate, Steady
  <1>8. CASE UNCHANGED vars
    BY <1>8, Zenon DEF vars, Steady
  <1> QED
    BY <1>2, <1>3, <1>4, <1>5, <1>6, <1>7, <1>8, Zenon DEF Next

-----------------------------------------------------------------------------
(* Reads. *)

\* A key without a lock that blocks is settled: whoever committed below the
\* snapshot had prewritten the key before (Txn::Commit takes the commit timestamp
\* after the last prewrite), and its lock is gone.
LEMMA FreeIsSettled ==
    ASSUME Inv(db), NEW t \in Txn, NEW k \in Key, ~Blocks(k, client[t].start)
    PROVE  Settled(db, t, k)
  <1> SUFFICES ASSUME NEW c \in calls, NEW u \in Txn, c.kind = "commit",
                      c.start = client[u].start, c.cts < client[t].start, k \in Writes(u)
               PROVE  Recorded(db, u, k)
    BY Zenon DEF Settled
  <1>1. c.start # 0 /\ c \in Call
    BY CallOwner, Zenon
  <1>2. CallOK(db, u, c)
    BY <1>1, Zenon DEF Inv, TxnOK
  <1>3. Holds(db, u, k)
    BY <1>2, Zenon DEF CallOK, Inv, ClientOK, PhaseOK
  <1>4. /\ client[u].start \in Nat /\ client[t].start \in Nat /\ c.cts \in Nat
        /\ client[u].start < c.cts
    BY <1>1, <1>2, CallFields, ClientFields, Zenon DEF Inv, Typed, CallOK
  <1>5. db.lock[k].start = client[u].start => HasLock(db, k)
    BY <1>1 DEF HasLock, NoLock
  <1> QED
    BY <1>3, <1>4, <1>5 DEF Holds, Blocks

\* Once settled a key stays settled: new commits are above the snapshot.
LEMMA SettledStays ==
    ASSUME Inv(db), Steady, db.write \subseteq db'.write, calls' \subseteq Call,
           NEW t \in Txn, NEW k, Settled(db, t, k)
    PROVE  Settled(db, t, k)'
  <1> SUFFICES ASSUME NEW c \in calls', NEW u \in Txn, c.kind = "commit",
                      c.start = client'[u].start, c.cts < client'[t].start, k \in Writes(u)
               PROVE  Recorded(db, u, k)'
    BY Zenon DEF Settled
  <1>1. client'[u].start = client[u].start /\ client'[t].start = client[t].start
    BY Zenon DEF Steady
  <1>2. /\ c.cts \in Nat /\ clock \in Nat
        /\ client[t].start \in Nat /\ client[t].start <= clock
    BY CallFields, ClientFields, Zenon DEF Inv, Typed, ClientOK, BeginOK
  <1>3. PICK b \in calls : b.kind = "commit" /\ b.start = c.start /\ b.cts = c.cts
    BY <1>1, <1>2 DEF Steady, Timely
  <1>4. Recorded(db, u, k)
    BY <1>1, <1>3, Zenon DEF Settled
  <1> QED
    BY <1>1, <1>4, Zenon DEF Recorded

\* What is noted as read.
LEMMA SeenStep ==
    ASSUME HistoryOK, [Next]_vars, NEW t \in Txn, NEW r \in seen'[t]
    PROVE  \/ r \in seen[t]
           \/ client[t].pc = "walk" /\ r.key = client[t].key
           \/ client[t].pc = "columns" /\ r.key \in Rest(t)
  <1>1. ASSUME NEW u \in Txn, NEW keys, NEW v, Note(u, keys, v)
        PROVE  r \in seen[t] \/ (u = t /\ r.key \in keys)
    BY <1>1, Zenon DEF HistoryOK, Note
  <1>2. ASSUME NEW u \in Txn, ScanColumns(u)
        PROVE  r \in seen[t] \/ (client[t].pc = "columns" /\ r.key \in Rest(t))
    BY <1>1, <1>2, Zenon DEF ScanColumns
  <1>3. ASSUME NEW u \in Txn, NEW v, GetWalk(u, v)
        PROVE  r \in seen[t] \/ (client[t].pc = "walk" /\ r.key = client[t].key)
    BY <1>1, <1>3, Zenon DEF GetWalk
  <1>4. \/ seen' = seen
        \/ \E u \in Txn : ScanColumns(u)
        \/ \E u \in Txn, v \in Txn \cup {NotFound} : GetWalk(u, v)
    BY Zenon
      DEF Next, vars, Begin, ScanLocks, GetLock, LookUp, FindOutcome, StartCommit, Rollback,
           ReportConflict, AllocateCommitTs, Answered, GiveUp, ExecutedLate
  <1> QED
    BY <1>2, <1>3, <1>4, Zenon

\* Only settled keys are read.
LEMMA NextReadOK ==
    ASSUME RInv, [Next]_vars, Inv(db)', NEW t \in Txn
    PROVE  ReadOK(t)'
  <1>1. /\ client \in [Txn -> ClientState] /\ calls' \subseteq Call
        /\ client[t].start \in Nat /\ client[t].todo \in SUBSET Key
    BY ClientFields, Zenon DEF RInv, Inv, Typed
  <1>2. client[t].pc # "idle" => client[t].start # 0
    BY DEF RInv, Inv, ClientOK, BeginOK, Idle
  <1>3. CASE ~\E u \in Txn : Begin(u)
    <2>1. Steady /\ db.write \subseteq db'.write
      BY <1>3, StepSteady, Zenon DEF RInv
    <2>2. client'[t].start = client[t].start
      BY <2>1, Zenon DEF Steady
    <2>3. ASSUME NEW k, Settled(db, t, k) PROVE Settled(db, t, k)'
      BY <1>1, <2>1, <2>3, SettledStays, Zenon DEF RInv
    <2>4. ASSUME NEW r \in seen'[t] PROVE client'[t].start # 0 /\ Settled(db, t, r.key)'
      BY <1>2, <2>2, <2>3, SeenStep, Zenon DEF RInv, ReadOK
    <2>5. ASSUME client'[t].pc = "walk", NEW k, k = client'[t].key PROVE Settled(db, t, k)'
      <3>1. CASE client'[t] = client[t]
        BY <2>3, <2>5, <3>1, Zenon DEF RInv, ReadOK
      <3>2. CASE client'[t] # client[t]
        <4>1. k \in Key /\ ~Blocks(k, client[t].start)
          BY <2>1, <2>5, <3>2, Zenon DEF Steady, Clear
        <4> QED
          BY <2>3, <4>1, FreeIsSettled, Zenon DEF RInv
      <3> QED
        BY <3>1, <3>2, Zenon
    <2>6. ASSUME client'[t].pc = "columns", NEW k \in Rest(t)' PROVE Settled(db, t, k)'
      <3>1. CASE client'[t] = client[t]
        <4>1. k \in Rest(t)
          BY <2>6, <3>1, Zenon DEF Rest
        <4> QED
          BY <2>3, <2>6, <3>1, <4>1, Zenon DEF RInv, ReadOK
      <3>2. CASE client'[t] # client[t]
        <4>1. client'[t].todo = client[t].todo /\ \A j \in Rest(t) : ~Blocks(j, client[t].start)
          BY <2>1, <2>6, <3>2, Zenon DEF Steady, Clear
        <4>2. k \in Rest(t) /\ Rest(t) \subseteq Key
          BY <1>1, <2>6, <4>1, Zenon DEF Rest
        <4> QED
          BY <2>3, <4>1, <4>2, FreeIsSettled, Zenon DEF RInv
      <3> QED
        BY <3>1, <3>2, Zenon
    <2> QED
      BY <2>4, <2>5, <2>6, Zenon DEF ReadOK
  <1>4. ASSUME NEW u \in Txn, Begin(u) PROVE ReadOK(t)'
    <2> DEFINE c == [client[u] EXCEPT !.pc = "active", !.active = TRUE, !.start = clock + 1,
                                      !.todo = ReadSet[u]]
    <2>1. /\ client' = [client EXCEPT ![u] = c] /\ client[u].pc = "idle"
          /\ db' = db /\ calls' = calls /\ seen' = seen
      BY <1>4, Zenon DEF Begin, Stay
    <2>2. c.pc = "active" /\ c.start = clock + 1
      BY <1>1, Zenon DEF ClientState
    <2> HIDE DEF c
    <2>3. client'[u] = c /\ \A v \in Txn : v # u => client'[v] = client[v]
      BY <1>1, <2>1, Zenon
    <2>4. ASSUME NEW k, t # u, Settled(db, t, k) PROVE Settled(db, t, k)'
      <3> SUFFICES ASSUME NEW a \in calls, NEW v \in Txn, a.kind = "commit",
                          a.start = client'[v].start, a.cts < client[t].start, k \in Writes(v)
                   PROVE  Recorded(db, v, k)'
        BY <2>1, <2>3, <2>4, Zenon DEF Settled
      <3>1. PICK x \in Txn : client[x].start = a.start
        BY CallOwner, Zenon DEF RInv
      <3>2. client[x].start \in Nat /\ client[x].start <= clock /\ clock \in Nat
        BY ClientFields, Zenon DEF RInv, Inv, Typed, ClientOK, BeginOK
      <3>3. v # u
        BY <2>2, <2>3, <3>1, <3>2
      <3>4. Recorded(db, v, k)
        BY <2>3, <2>4, <3>3, Zenon DEF Settled
      <3> QED
        BY <2>1, <2>3, <3>3, <3>4, Zenon DEF Recorded
    <2>5. CASE t = u
      <3>1. client[t].start = 0
        BY <2>1, <2>5, Zenon DEF RInv, Inv, ClientOK, BeginOK
      <3>2. seen'[t] = {}
        BY <2>1, <3>1, Zenon DEF RInv, ReadOK
      <3> QED
        BY <2>2, <2>3, <2>5, <3>2, Zenon DEF ReadOK
    <2>6. CASE t # u
      <3>1. client'[t] = client[t] /\ ReadOK(t)
        BY <2>3, <2>6, Zenon DEF RInv
      <3>2. Rest(t)' = Rest(t)
        BY <3>1, Zenon DEF Rest
      <3>3. (\A r \in seen[t] : client[t].start # 0 /\ Settled(db, t, r.key))'
        BY <2>1, <2>4, <2>6, <3>1, Zenon DEF ReadOK
      <3>4. ASSUME client[t].pc = "walk" PROVE Settled(db, t, client[t].key)'
        <4>1. PICK k : k = client[t].key
          BY Zenon
        <4>2. Settled(db, t, k)'
          BY <2>4, <2>6, <3>1, <3>4, <4>1, Zenon DEF ReadOK
        <4> QED
          BY <3>1, <4>1, <4>2, Zenon
      <3>5. ASSUME client[t].pc = "columns", NEW k \in Rest(t) PROVE Settled(db, t, k)'
        BY <2>4, <2>6, <3>1, <3>5, Zenon DEF ReadOK
      <3> QED
        BY <3>1, <3>2, <3>3, <3>4, <3>5, Zenon DEF ReadOK
    <2> QED
      BY <2>5, <2>6, Zenon
  <1> QED
    BY <1>3, <1>4, Zenon


-----------------------------------------------------------------------------
(* Commits. *)

\* CommitOf is the timestamp of the commit record on the primary.
LEMMA CommitOfIs ==
    ASSUME NEW d, Inv(d), NEW t \in Txn
    PROVE  /\ CommitOf(d, t) # 0 => client[t].start # 0 /\ Committed(d, t, CommitOf(d, t))
           /\ \A ts : client[t].start # 0 /\ Committed(d, t, ts)
                         => CommitOf(d, t) = ts /\ ts # 0 /\ ts \in Nat
  <1> DEFINE cts == CommittedAs(d, Primary(t), client[t].start)
  <1>1. cts \subseteq Nat
    <2>1. \A w \in d.write : w.ts \in Nat
      BY RecordFields, Zenon DEF Inv, Typed
    <2> QED
      BY <2>1, CommittedAsIs
  <1>2. \A ts : ts \in cts <=> Committed(d, t, ts)
    BY CommittedAsIs DEF Committed
  <1>3. cts # {} => First(cts) \in cts
    BY <1>1, FirstMember, Zenon
  <1>4. ASSUME CommitOf(d, t) # 0
        PROVE  client[t].start # 0 /\ Committed(d, t, CommitOf(d, t))
    BY <1>2, <1>3, <1>4, Zenon DEF CommitOf
  <1>5. ASSUME NEW ts, client[t].start # 0, Committed(d, t, ts)
        PROVE  CommitOf(d, t) = ts /\ ts # 0 /\ ts \in Nat
    <2>1. ts \in Nat /\ client[t].start < ts /\ Primary(t) \in Writes(t)
      BY <1>5, CommittedFacts, Zenon
    <2>2. ts # 0
      BY <2>1, ClientFields DEF Inv, Typed
    <2>3. First(cts) \in cts /\ cts # {}
      BY <1>2, <1>3, <1>5, Zenon
    <2>4. First(cts) = ts
      BY SMTT(30), <1>2, <1>5, <2>3 DEF Committed, Inv, Single
    <2> QED
      BY <1>5, <2>1, <2>2, <2>3, <2>4, Zenon DEF CommitOf
  <1> QED
    BY <1>4, <1>5, Zenon

\* fate is what the primaries say.
LEMMA NextFateOK ==
    ASSUME RInv, [Next]_vars
    PROVE  FateOK'
  <1>1. client \in [Txn -> ClientState]
    BY Zenon DEF RInv, Inv, Typed
  <1>2. ASSUME NEW u \in Txn, Begin(u) PROVE FateOK'
    <2> DEFINE c == [client[u] EXCEPT !.pc = "active", !.active = TRUE, !.start = clock + 1,
                                      !.todo = ReadSet[u]]
    <2>1. /\ client' = [client EXCEPT ![u] = c] /\ client[u].pc = "idle"
          /\ db' = db /\ fate' = fate
      BY <1>2, Zenon DEF Begin, Stay
    <2>2. c.start = clock + 1
      BY <1>1, Zenon DEF ClientState
    <2> HIDE DEF c
    <2>3. client'[u] = c /\ \A v \in Txn : v # u => client'[v] = client[v]
      BY <1>1, <2>1, Zenon
    <2>4. \A v \in Txn : v # u => CommitOf(db, v)' = CommitOf(db, v)
      BY <2>1, <2>3 DEF CommitOf
    <2>5. CommitOf(db, u) = 0
      BY <2>1, Zenon DEF CommitOf, RInv, Inv, ClientOK, BeginOK
    <2>6. CommitOf(db, u)' = 0
      <3>1. clock \in Nat /\ \A w \in db.write : /\ w.start \in Nat /\ w.ts \in Nat
                                                 /\ w.start <= w.ts /\ w.ts <= clock
        BY RecordTimes, RecordFields, Zenon DEF RInv, Inv, Typed
      <3>2. \A w \in db.write : w.start # clock + 1
        BY <3>1
      <3>3. CommittedAs(db, Primary(u), clock + 1) = {}
        BY <3>2, Zenon DEF CommittedAs, FoundOutcome, WritesOf
      <3> QED
        BY <2>1, <2>2, <2>3, <3>3, Zenon DEF CommitOf
    <2> QED
      BY <2>1, <2>4, <2>5, <2>6, Zenon DEF FateOK, RInv
  <1>3. CASE ~\E u \in Txn : Begin(u)
    <2>1. \A u \in Txn : client'[u].start = client[u].start
      BY <1>3, StepSteady, Zenon DEF RInv, Steady
    <2>2. \/ db' = db /\ fate' = fate
          \/ fate' = [t \in Txn |-> CommitOf(db', t)]
      BY <1>3, Zenon
         DEF Next, vars, ScanLocks, ScanColumns, GetLock, GetWalk, LookUp, FindOutcome,
                  StartCommit, Rollback, ReportConflict, AllocateCommitTs, Answered, GiveUp,
                  ExecutedLate, Execute
    <2>3. \A u \in Txn : CommitOf(db, u)' = CommitOf(db', u)
      BY <2>1, Zenon DEF CommitOf
    <2>4. fate' = [t \in Txn |-> CommitOf(db', t)]
      BY <2>2, Zenon DEF RInv, FateOK
    <2> QED
      BY <2>3, <2>4, Zenon DEF FateOK
  <1> QED
    BY <1>2, <1>3, Zenon

\* The commit of a primary that still has its lock finds the locks of all keys, if
\* the client has not given up: nobody rolls a key back before the primary.
LEMMA AllLocked ==
    ASSUME Inv(db), NEW t \in Txn, client[t].start # 0, ~client[t].gaveUp, CommitSent(t),
           db.lock[Primary(t)].start = client[t].start
    PROVE  \A k \in Writes(t) : /\ db.lock[k].start = client[t].start
                                /\ ~Recorded(db, t, k)
  <1> SUFFICES ASSUME NEW k \in Writes(t)
               PROVE  db.lock[k].start = client[t].start /\ ~Recorded(db, t, k)
    BY Zenon
  <1>1. \A w \in db.write : w.key = Primary(t) => w.start # client[t].start
    BY Zenon DEF Inv, Single
  <1>2. ~Poisoned(db, t) /\ ~Hopeless(db, t) /\ \A ts : ~Committed(db, t, ts)
    BY <1>1, Zenon DEF Poisoned, Hopeless, Committed
  <1>3. \A w \in db.write : w.start = client[t].start => WriteOK(db, t, w)
    BY Zenon DEF Inv, TxnOK
  <1>4. ~Recorded(db, t, k)
    BY <1>1, <1>2, <1>3 DEF Recorded, WriteOK
  <1>5. client[t].prewritten = Writes(t)
    BY Zenon DEF CommitSent, Inv, TxnOK, CallOK
  <1>6. Holds(db, t, k)
    BY <1>5, Zenon DEF Inv, ClientOK, PhaseOK
  <1> QED
    BY <1>4, <1>6, Zenon DEF Holds

\* A transaction that has committed and given nothing up holds a key by its lock or
\* has committed it at the timestamp of the primary.
LEMMA CommittedHolds ==
    ASSUME RInv, NEW t \in Txn, fate[t] # 0, ~client[t].gaveUp, NEW k \in Writes(t)
    PROVE  /\ client[t].start # 0 /\ fate[t] \in Nat
           /\ \E c \in calls : c.kind = "commit" /\ c.start = client[t].start /\ c.cts = fate[t]
           /\ Holds(db, t, k)
           /\ \A w \in db.write : w.key = k /\ w.start = client[t].start
                                     => w.kind # "rollback" /\ w.ts = fate[t]
  <1>1. client[t].start # 0 /\ Committed(db, t, fate[t]) /\ Inv(db)
    BY CommitOfIs, Zenon DEF RInv, FateOK
  <1>2. /\ client[t].prewritten = Writes(t) /\ fate[t] \in Nat
        /\ \E c \in calls : c.kind = "commit" /\ c.start = client[t].start /\ c.cts = fate[t]
    BY <1>1, CommittedFacts
  <1>3. Holds(db, t, k)
    BY <1>1, <1>2, Zenon DEF Inv, ClientOK, PhaseOK
  <1>4. PICK x \in db.write : x.start = client[t].start /\ x.kind # "rollback" /\ x.ts = fate[t]
    BY <1>1, Zenon DEF Committed
  <1>5. \A w \in db.write : w.start = client[t].start => w.kind # "rollback" /\ w.ts = fate[t]
    BY <1>1, <1>4, CommittedIsClean, Zenon
  <1> QED
    BY <1>1, <1>2, <1>3, <1>5, Zenon


\* The only command that changes the fate of a transaction is the commit of its
\* primary where its lock still is.
LEMMA FateChanges ==
    ASSUME Inv(db), NEW c \in calls, NEW e, e = Perform(db, c).db, NEW t \in Txn,
           CommitOf(e, t) # CommitOf(db, t)
    PROVE  /\ c.kind = "commit" /\ c.start = client[t].start /\ c.key = Primary(t)
           /\ client[t].start # 0
           /\ db.lock[Primary(t)].start = client[t].start
           /\ CommitOf(db, t) = 0
           /\ CommitOf(e, t) = c.cts
  <1>1. Inv(e) /\ db \in Records /\ c \in Call
    BY ExecuteInv, CallOwner, Zenon DEF Inv, Typed
  <1>2. db.write \subseteq e.write
    BY <1>1, WritesGrow, Zenon
  <1>3. CommitOf(db, t) = 0
    <2> SUFFICES ASSUME CommitOf(db, t) # 0 PROVE FALSE
      BY Zenon
    <2>1. client[t].start # 0 /\ Committed(db, t, CommitOf(db, t))
      BY CommitOfIs, Zenon
    <2>2. Committed(e, t, CommitOf(db, t))
      BY <1>2, <2>1, Zenon DEF Committed
    <2> QED
      BY <1>1, <2>1, <2>2, CommitOfIs, Zenon
  <1>4. client[t].start # 0 /\ Committed(e, t, CommitOf(e, t))
    BY <1>1, <1>3, CommitOfIs, Zenon
  <1>5. PICK w \in e.write : /\ w.start = client[t].start /\ w.key = Primary(t)
                             /\ w.kind # "rollback" /\ w.ts = CommitOf(e, t)
    BY <1>4, Zenon DEF Committed
  <1>6. w \notin db.write
    BY <1>3, <1>4, <1>5, CommitOfIs, Zenon DEF Committed
  <1>7. CASE c.kind = "prewrite"
    <2>1. e.write = db.write
      BY <1>1, <1>7, Zenon DEF Perform, ApplyPrewrite, Records
    <2> QED
      BY <1>6, <2>1, Zenon
  <1>8. CASE c.kind = "commit"
    <2>1. db.lock[c.key].start = c.start
      BY <1>5, <1>6, <1>8, Zenon DEF Perform, ApplyCommit
    <2>2. w = [key |-> c.key, ts |-> c.cts, kind |-> db.lock[c.key].op, start |-> c.start]
      BY <1>1, <1>5, <1>6, <1>8, <2>1, Zenon
        DEF Perform, ApplyCommit, Unlock, AddWrite, Records
    <2>3. c.key = Primary(t) /\ c.start = client[t].start /\ c.cts = CommitOf(e, t)
      BY <1>5, <2>2, Zenon
    <2> QED
      BY <1>3, <1>4, <1>8, <2>1, <2>3, Zenon
  <1>9. CASE c.kind = "rollback"
    <2>1. w = [key |-> c.key, ts |-> c.start, kind |-> "rollback", start |-> c.start]
      BY <1>1, <1>5, <1>6, <1>9, Zenon DEF Perform, ApplyRollback, Unlock, AddWrite, Records
    <2> QED
      BY <1>5, <2>1, Zenon
  <1> QED
    BY <1>1, <1>7, <1>8, <1>9, CallFields, Zenon

\* The commit of a primary is a commit of the abstract specification, unless some
\* client has given up.
LEMMA ExecuteStep ==
    ASSUME RInv, ~GaveUp, NEW c \in calls, Execute(c), fate' # fate, seen' = seen,
           \A u \in Txn : client'[u].start = client[u].start
    PROVE  SI!Next
  <1>1. PICK e : e = Perform(db, c).db
    BY Zenon
  <1>2. Inv(db) /\ fate = [u \in Txn |-> CommitOf(db, u)] /\ fate' = [u \in Txn |-> CommitOf(e, u)]
    BY <1>1, Zenon DEF RInv, FateOK, Execute
  <1>3. PICK t \in Txn : CommitOf(e, t) # CommitOf(db, t)
    BY <1>2, Zenon
  <1>4. /\ c.kind = "commit" /\ c.start = client[t].start /\ c.key = Primary(t)
        /\ client[t].start # 0 /\ db.lock[Primary(t)].start = client[t].start
        /\ fate[t] = 0 /\ fate'[t] = c.cts
    BY SMTT(30), <1>1, <1>2, <1>3, FateChanges
  <1>5. \A u \in Txn : u # t => fate'[u] = fate[u]
    BY <1>1, <1>2, <1>4, FateChanges DEF Inv, OwnStarts
  <1>6. fate' = [fate EXCEPT ![t] = c.cts]
    BY <1>2, <1>4, <1>5, Zenon
  <1>7. CallOK(db, t, c) /\ c \in Call /\ c.cts \in Nat /\ client[t].start < c.cts
    BY <1>2, <1>4, CallFields, CallOwner, Zenon DEF Inv, TxnOK, CallOK
  <1>8. /\ ~client[t].gaveUp /\ CommitSent(t)
        /\ \A u \in Txn : client[u].start \in Nat /\ ~client[u].gaveUp
    BY <1>2, <1>4, ClientFields, Zenon DEF GaveUp, CommitSent, Inv, Typed
  <1>9. \A k \in Writes(t) : db.lock[k].start = client[t].start /\ ~Recorded(db, t, k)
    BY <1>2, <1>4, <1>8, AllLocked, Zenon
  <1>10. ASSUME NEW u \in Txn PROVE client[u].start # c.cts /\ fate[u] # c.cts
    <2>1. client[u].start # c.cts
      BY <1>2, <1>4, Zenon DEF Inv, Times
    <2>2. ASSUME fate[u] = c.cts PROVE FALSE
      <3>1. c.cts # 0
        BY <1>7, <1>8
      <3>2. client[u].start # 0 /\ Committed(db, u, c.cts)
        BY <1>2, <2>2, <3>1, CommitOfIs
      <3>3. PICK b \in calls : b.kind = "commit" /\ b.start = client[u].start /\ b.cts = c.cts
        BY <1>2, <3>2, CommittedFacts
      <3>4. u = t
        BY SMTT(30), <1>2, <1>4, <3>3 DEF Inv, Times, OwnStarts
      <3> QED
        BY <1>4, <2>2, <3>1, <3>4, Zenon
    <2> QED
      BY <2>1, <2>2, Zenon
  <1>11. ASSUME NEW k \in Writes(t), NEW u \in Txn, fate[u] # 0, k \in Writes(u)
         PROVE  fate[u] < client[t].start
    <2>1. /\ client[u].start # 0 /\ Holds(db, u, k)
          /\ \A w \in db.write : w.key = k /\ w.start = client[u].start
                                    => w.kind # "rollback" /\ w.ts = fate[u]
      BY <1>8, <1>11, CommittedHolds, Zenon
    <2>2. u # t
      BY <1>4, <1>11, Zenon
    <2>3. db.lock[k].start # client[u].start
      BY <1>2, <1>4, <1>9, <2>2, Zenon DEF Inv, OwnStarts
    <2>4. PICK w \in db.write : w.key = k /\ w.kind # "rollback" /\ w.ts = fate[u]
      BY <2>1, <2>3, Zenon DEF Holds, Recorded
    <2>5. LockOK(db, t, k)
      BY <1>2, <1>4, <1>9, WritesAreKeys, Zenon DEF Inv, TxnOK
    <2> QED
      BY <2>4, <2>5, Zenon DEF LockOK
  <1>12. ASSUME NEW u \in Txn, NEW r \in seen[u], r.key \in Writes(t)
         PROVE  client[u].start < c.cts
    <2>1. Settled(db, u, r.key)
      BY <1>12, Zenon DEF RInv, ReadOK
    <2>2. ~(c.cts < client[u].start)
      BY <1>4, <1>9, <1>12, <2>1, Zenon DEF Settled
    <2>3. client[u].start # c.cts
      BY <1>10, Zenon
    <2> QED
      BY <1>7, <1>8, <2>2, <2>3
  <1>13. SI!FirstCommitter(t)
    BY <1>11, Zenon DEF SI!FirstCommitter, SI!Writers, SI!Writes, Writes
  <1>14. SI!UnreadBelow(t, c.cts)
    BY <1>12, Zenon DEF SI!UnreadBelow, SI!Writes, Writes
  <1>15. SI!Commit(t, c.cts)
    BY <1>4, <1>6, <1>7, <1>10, <1>13, <1>14, Zenon DEF SI!Commit
  <1> QED
    BY <1>4, <1>15, Zenon DEF SI!Next


\* On a settled key, the transactions that the abstract snapshot shows are those
\* with a commit record at or below it.
LEMMA VisibleRecords ==
    ASSUME RInv, ~GaveUp, NEW t \in Txn, NEW k \in Key, Settled(db, t, k)
    PROVE  /\ \A u \in SI!Visible(k, client[t].start) :
                 \E w \in db.write : /\ w.key = k /\ w.kind # "rollback"
                                     /\ w.start = client[u].start /\ w.ts = fate[u]
                                     /\ w.ts <= client[t].start
           /\ \A w \in db.write : w.key = k /\ w.kind # "rollback" /\ w.ts <= client[t].start
                 => \E u \in SI!Visible(k, client[t].start) :
                       /\ w.start = client[u].start /\ w.ts = fate[u]
                       /\ w.kind = Mutation[u][k]
  <1>1. Inv(db) /\ client[t].start \in Nat
    BY ClientFields, Zenon DEF RInv, Inv, Typed
  <1>2. ASSUME NEW u \in SI!Visible(k, client[t].start)
        PROVE  \E w \in db.write : /\ w.key = k /\ w.kind # "rollback"
                                   /\ w.start = client[u].start /\ w.ts = fate[u]
                                   /\ w.ts <= client[t].start
    <2>1. u \in Txn /\ fate[u] # 0 /\ k \in Writes(u) /\ fate[u] < client[t].start
      BY Zenon DEF SI!Visible, SI!Writers, SI!Writes, Writes
    <2>2. /\ fate[u] \in Nat
          /\ \E c \in calls : c.kind = "commit" /\ c.start = client[u].start /\ c.cts = fate[u]
          /\ \A w \in db.write : w.key = k /\ w.start = client[u].start
                                    => w.kind # "rollback" /\ w.ts = fate[u]
      BY <2>1, CommittedHolds, Zenon DEF GaveUp
    <2>3. Recorded(db, u, k)
      BY <2>1, <2>2, Zenon DEF Settled
    <2> QED
      BY <1>1, <2>1, <2>2, <2>3 DEF Recorded
  <1>3. ASSUME NEW w \in db.write, w.key = k, w.kind # "rollback", w.ts <= client[t].start
        PROVE  \E u \in SI!Visible(k, client[t].start) :
                   w.start = client[u].start /\ w.ts = fate[u] /\ w.kind = Mutation[u][k]
    <2>1. PICK u \in Txn : client[u].start = w.start /\ w.start # 0 /\ WriteOK(db, u, w)
      BY <1>1, RecordTimes, Zenon
    <2>2. /\ Committed(db, u, w.ts) /\ w.kind = Mutation[u][k] /\ k \in Writes(u)
          /\ \E c \in calls : c.kind = "commit" /\ c.cts = w.ts
      BY <1>3, <2>1, Zenon DEF WriteOK
    <2>3. fate[u] = w.ts /\ fate[u] # 0 /\ w.ts \in Nat
      BY <1>1, <2>1, <2>2, CommitOfIs, Zenon DEF RInv, FateOK
    <2>4. w.ts # client[t].start
      BY <1>1, <2>2 DEF Inv, Times
    <2>5. fate[u] < client[t].start
      BY <1>1, <1>3, <2>3, <2>4
    <2>6. u \in SI!Visible(k, client[t].start)
      BY <2>2, <2>3, <2>5, Zenon DEF SI!Visible, SI!Writers, SI!Writes, Writes
    <2> QED
      BY <2>1, <2>2, <2>3, <2>6, Zenon
  <1> QED
    BY <1>2, <1>3, Zenon

\* What TxnGet answers on a settled key is the value of the snapshot.
LEMMA AnswerIsValue ==
    ASSUME RInv, ~GaveUp, NEW t \in Txn, NEW k \in Key, Settled(db, t, k),
           NEW v, Answers(db, k, client[t].start, v)
    PROVE  SI!ValueAt(k, client[t].start, v)
  <1> DEFINE ts == client[t].start
             S == {w \in db.write : w.key = k /\ w.kind # "rollback" /\ w.ts <= ts}
  <1>1. Inv(db) /\ ts \in Nat /\ \A w \in db.write : w.ts \in Nat
    BY ClientFields, RecordFields, Zenon DEF RInv, Inv, Typed
  <1>2. ASSUME NEW u \in SI!Visible(k, ts)
        PROVE  \E w \in S : w.start = client[u].start /\ w.ts = fate[u]
    <2>1. \A y \in SI!Visible(k, client[t].start) :
             \E w \in db.write : /\ w.key = k /\ w.kind # "rollback"
                                 /\ w.start = client[y].start /\ w.ts = fate[y]
                                 /\ w.ts <= client[t].start
      BY VisibleRecords, Zenon
    <2>2. PICK w \in db.write : /\ w.key = k /\ w.kind # "rollback"
                                /\ w.start = client[u].start /\ w.ts = fate[u]
                                /\ w.ts <= ts
      BY <1>2, <2>1, Zenon
    <2> QED
      BY <2>2, Zenon
  <1>3. ASSUME NEW w \in S
        PROVE  \E u \in SI!Visible(k, ts) : /\ w.start = client[u].start /\ w.ts = fate[u]
                                             /\ w.kind = Mutation[u][k]
    BY VisibleRecords, ZenonT(30)
  <1>4. CASE S = {}
    <2>1. SI!Visible(k, ts) = {}
      BY <1>2, <1>4, Zenon
    <2>2. Newest(db, k, ts) = {}
      BY <1>4, Zenon DEF Newest, WritesOf
    <2> QED
      BY <2>1, <2>2, Zenon DEF SI!ValueAt, Answers
  <1>5. CASE S # {}
    <2>1. PICK w \in S : \A x \in S : x.ts <= w.ts
      BY <1>1, <1>5, NewestRecord, Zenon
    <2>2. w \in Newest(db, k, ts)
      BY <2>1, Zenon DEF Newest, WritesOf
    <2>3. PICK w1 \in Newest(db, k, ts) :
              \/ v = NotFound /\ w1.kind = "delete"
              \/ w1.kind = "put" /\ [key |-> k, start |-> w1.start, value |-> v] \in db.data
      BY <2>2, Zenon DEF Answers
    <2>4. w1 \in S /\ \A x \in S : x.ts <= w1.ts
      BY Zenon DEF Newest, WritesOf
    <2>5. PICK u \in SI!Visible(k, ts) : /\ w1.start = client[u].start /\ w1.ts = fate[u]
                                         /\ w1.kind = Mutation[u][k]
      BY <1>3, <2>4, Zenon
    <2>6. ASSUME NEW y \in SI!Visible(k, ts) PROVE fate[y] <= fate[u]
      <3>1. PICK x \in S : x.ts = fate[y]
        BY <1>2, Zenon
      <3> QED
        BY <2>4, <2>5, <3>1, Zenon
    <2>7. w1.kind = "put" => v = u
      <3> SUFFICES ASSUME w1.kind = "put" PROVE v = u
        BY Zenon
      <3> DEFINE x == [key |-> k, start |-> w1.start, value |-> v]
      <3>1. x \in db.data /\ x.start = client[u].start /\ x.value = v
        BY <2>3, <2>5, Zenon
      <3>2. u \in Txn /\ client[u].start # 0
        BY <1>1, <2>4, <2>5, RecordTimes, Zenon DEF SI!Visible, SI!Writers
      <3> HIDE DEF x
      <3> QED
        BY <1>1, <3>1, <3>2, Zenon DEF Inv, TxnOK
    <2>8. v = IF Mutation[u][k] = "put" THEN u ELSE NotFound
      BY <2>3, <2>5, <2>7, Zenon
    <2> QED
      BY <2>5, <2>6, <2>8, Zenon DEF SI!ValueAt
  <1> QED
    BY <1>4, <1>5, Zenon

\* A step that changes what has been seen is a read of the snapshot.
LEMMA ReadStep ==
    ASSUME RInv, ~GaveUp, NEW t \in Txn, NEW keys \in SUBSET Key, NEW v \in Txn \cup {NotFound},
           client[t].start # 0, \A k \in keys : SI!ValueAt(k, client[t].start, v),
           Note(t, keys, v), fate' = fate, \A u \in Txn : client'[u].start = client[u].start
    PROVE  SI!Next
  <1>1. SI!Read(t, keys, v)
    BY Zenon DEF SI!Read, Note
  <1> QED
    BY <1>1, Zenon DEF SI!Next

\* Every step is one of the abstract specification or leaves its variables alone,
\* until a client gives up.
LEMMA NextRefines ==
    ASSUME RInv, [Next]_vars
    PROVE  SIVars' # SIVars => GaveUp' \/ SI!Next
  <1> SUFFICES ASSUME SIVars' # SIVars, ~GaveUp' PROVE SI!Next
    BY Zenon
  <1>1. Inv(db) /\ client \in [Txn -> ClientState] /\ clock \in Nat
    BY Zenon DEF RInv, Inv, Typed
  <1>2. ASSUME NEW t \in Txn, Begin(t) PROVE SI!Next
    <2> DEFINE c == [client[t] EXCEPT !.pc = "active", !.active = TRUE, !.start = clock + 1,
                                      !.todo = ReadSet[t]]
    <2>1. /\ client' = [client EXCEPT ![t] = c] /\ client[t].pc = "idle"
          /\ seen' = seen /\ fate' = fate
      BY <1>2, Zenon DEF Begin, Stay
    <2>2. c.start = clock + 1
      BY <1>1, Zenon DEF ClientState
    <2> HIDE DEF c
    <2>3. client'[t] = c /\ \A u \in Txn : u # t => client'[u] = client[u]
      BY <1>1, <2>1, Zenon
    <2>4. client[t].start = 0
      BY <1>1, <2>1, Zenon DEF Inv, ClientOK, BeginOK
    <2>5. ASSUME NEW u \in Txn PROVE client[u].start < clock + 1 /\ fate[u] < clock + 1
      <3>1. client[u].start \in Nat /\ client[u].start <= clock
        BY <1>1, ClientFields, Zenon DEF Inv, ClientOK, BeginOK
      <3>2. fate[u] \in Nat /\ fate[u] = CommitOf(db, u)
        BY Zenon DEF RInv, HistoryOK, FateOK
      <3>3. fate[u] # 0 => fate[u] <= clock
        BY <1>1, <3>2, CommitOfIs, CommittedFacts
      <3> QED
        BY <1>1, <3>1, <3>2, <3>3
    <2> DEFINE s == [u \in Txn |-> client[u].start]
    <2>6. /\ s[t] = 0 /\ s'[t] = clock + 1 /\ s' = [s EXCEPT ![t] = s'[t]]
          /\ \A u \in Txn : s[u] = client[u].start
      BY <2>2, <2>3, <2>4, Zenon
    <2> HIDE DEF s
    <2>7. /\ s[t] = 0 /\ s'[t] \in Nat \ {0}
          /\ \A u \in Txn : s[u] < s'[t] /\ fate[u] < s'[t]
          /\ s' = [s EXCEPT ![t] = s'[t]]
          /\ UNCHANGED <<fate, seen>>
      BY <1>1, <2>1, <2>5, <2>6
    <2>8. \E u \in Txn : /\ s[u] = 0 /\ s'[u] \in Nat \ {0}
                         /\ \A x \in Txn : s[x] < s'[u] /\ fate[x] < s'[u]
                         /\ s' = [s EXCEPT ![u] = s'[u]]
                         /\ UNCHANGED <<fate, seen>>
      BY <2>7, Zenon
    <2> QED
      BY <2>8, Zenon DEF s, SI!Begin, SI!Next
  <1>3. CASE ~\E t \in Txn : Begin(t)
    <2>1. Steady
      BY <1>1, <1>3, StepSteady, Zenon
    <2>2. \A u \in Txn : client'[u].start = client[u].start
      BY <2>1, Zenon DEF Steady
    <2>3. ~GaveUp
      BY <2>1, Zenon DEF Steady, GaveUp
    <2>4. \A t \in Txn : client[t].pc # "idle" => client[t].start # 0
      BY <1>1 DEF Inv, ClientOK, BeginOK, Idle
    <2>5. seen' # seen \/ fate' # fate
      BY <2>2, Zenon DEF SIVars
    <2>6. ASSUME NEW t \in Txn, ScanColumns(t) PROVE SI!Next
      <3> DEFINE absent == {k \in Rest(t) : WritesOf(db, k) = {}}
      <3>1. absent \in SUBSET Key
        BY <1>1, ClientFields, Zenon DEF Rest
      <3>2. ASSUME NEW k \in absent PROVE SI!ValueAt(k, client[t].start, NotFound)
        <4>1. Settled(db, t, k)
          BY <2>6, Zenon DEF ScanColumns, RInv, ReadOK
        <4>2. Answers(db, k, client[t].start, NotFound)
          BY Zenon DEF Answers, Newest
        <4> QED
          BY <2>3, <3>1, <4>1, <4>2, AnswerIsValue, Zenon
      <3>3. Note(t, absent, NotFound) /\ fate' = fate /\ client[t].start # 0
        BY <2>4, <2>6, Zenon DEF ScanColumns
      <3> HIDE DEF absent
      <3> QED
        BY <2>2, <2>3, <3>1, <3>2, <3>3, ReadStep, Zenon
    <2>7. ASSUME NEW t \in Txn, NEW v \in Txn \cup {NotFound}, GetWalk(t, v) PROVE SI!Next
      <3> DEFINE k == client[t].key
      <3>1. k \in Key /\ Settled(db, t, k) /\ client[t].start # 0
        BY <1>1, <2>4, <2>7, Zenon DEF GetWalk, Inv, ClientOK, LoopOK, RInv, ReadOK
      <3>2. Answers(db, k, client[t].start, v) /\ Note(t, {k}, v) /\ fate' = fate
        BY <2>7, Zenon DEF GetWalk
      <3>3. SI!ValueAt(k, client[t].start, v)
        BY <2>3, <3>1, <3>2, AnswerIsValue, Zenon
      <3> QED
        BY SMTT(30), <2>2, <2>3, <3>1, <3>2, <3>3, ReadStep
    <2>8. ASSUME NEW c \in calls, Execute(c), seen' = seen PROVE SI!Next
      BY <2>2, <2>3, <2>5, <2>8, ExecuteStep, Zenon
    <2>9. ASSUME NEW t \in Txn, Answered(t) PROVE SI!Next
      BY <1>1, <2>8, <2>9, Zenon DEF Answered, Inv, ClientOK, SentOK
    <2>10. ASSUME NEW c \in calls, ExecutedLate(c) PROVE SI!Next
      BY <2>8, <2>10, Zenon DEF ExecutedLate
    <2>11. \/ seen' = seen /\ fate' = fate
           \/ \E t \in Txn : ScanColumns(t) \/ Answered(t)
           \/ \E t \in Txn, v \in Txn \cup {NotFound} : GetWalk(t, v)
           \/ \E c \in calls : ExecutedLate(c)
      BY <1>3, Zenon
         DEF Next, vars, ScanLocks, GetLock, LookUp, FindOutcome, StartCommit, Rollback,
                  ReportConflict, AllocateCommitTs, GiveUp
    <2> QED
      BY <2>5, <2>6, <2>7, <2>9, <2>10, <2>11, Zenon
  <1> QED
    BY <1>2, <1>3, Zenon

-----------------------------------------------------------------------------

\* The invariants that the refinement rests on: only settled keys are read, and
\* fate is what the primaries say.
THEOREM ReadsAreSettled == Spec => []RInv
  <1>1. Init => RInv
    <2> SUFFICES ASSUME Init PROVE RInv
      BY Zenon
    <2>1. Inv(db) /\ HistoryOK
      BY InitInv, Zenon DEF Init, HistoryOK
    <2>2. FateOK
      BY Zenon DEF Init, FateOK, CommitOf, Idle
    <2>3. \A t \in Txn : ReadOK(t)
      BY Zenon DEF Init, ReadOK, Idle
    <2> QED
      BY <2>1, <2>2, <2>3, Zenon DEF RInv
  <1>2. RInv /\ [Next]_vars => RInv'
    <2> SUFFICES ASSUME RInv, [Next]_vars PROVE RInv'
      BY Zenon
    <2>1. Inv(db)' /\ HistoryOK'
      BY NextInv, NextHistory, Zenon DEF RInv
    <2> QED
      BY <2>1, NextFateOK, NextReadOK, Zenon DEF RInv
  <1> QED
    BY <1>1, <1>2, PTL DEF Spec

\* Two-phase commit over lock records implements snapshot isolation until a client
\* gives up on the commit of its primary (Txn::Get, Txn::Scan, Txn::Commit,
\* ResolveLock, ApplyPrewrite), for any keys, ranges, transactions and scripts.
THEOREM Refinement == Spec => ImplementsSnapshotIsolation
  <1>1. Init => SI!Init
    BY DEF Init, SI!Init, Idle
  <1>2. RInv /\ [Next]_vars => [SIVars' # SIVars => GaveUp' \/ SI!Next]_SIVars
    BY NextRefines, Zenon
  <1> QED
    BY <1>1, <1>2, ReadsAreSettled, PTL DEF Spec, ImplementsSnapshotIsolation


-----------------------------------------------------------------------------

SIP == INSTANCE SnapshotIsolationProofs WITH
         start <- [t \in Txn |-> client[t].start],
         commit <- fate

\* The inductive invariant of the abstract specification carries over: giving up is
\* for good, and until then each step is one of the abstract specification.
LEMMA NextIsolated ==
    ASSUME RInv, [Next]_vars, GaveUp \/ SIP!SIInv
    PROVE  (GaveUp \/ SIP!SIInv)'
  <1> SUFFICES ASSUME ~GaveUp' PROVE SIP!SIInv'
    BY Zenon
  <1>1. ~GaveUp
    <2>1. ASSUME NEW u \in Txn, client[u].gaveUp PROVE client'[u].gaveUp
      <3>1. client \in [Txn -> ClientState]
        BY Zenon DEF RInv, Inv, Typed
      <3>2. ASSUME NEW t \in Txn, Begin(t) PROVE client'[u].gaveUp
        <4> DEFINE c == [client[t] EXCEPT !.pc = "active", !.active = TRUE,
                                          !.start = clock + 1, !.todo = ReadSet[t]]
        <4>1. client' = [client EXCEPT ![t] = c]
          BY <3>2, Zenon DEF Begin, Stay
        <4>2. c.gaveUp = client[t].gaveUp
          BY <3>1, Zenon DEF ClientState
        <4> HIDE DEF c
        <4> QED
          BY <2>1, <3>1, <4>1, <4>2, Zenon
      <3>3. CASE ~\E t \in Txn : Begin(t)
        BY <2>1, <3>3, StepSteady, Zenon DEF RInv, Steady
      <3> QED
        BY <3>2, <3>3, Zenon
    <2> QED
      BY <2>1, Zenon DEF GaveUp
  <1>2. [SI!Next]_SIVars
    BY NextRefines, Zenon
  <1>3. SI!Next => SIP!Next
    BY Zenon
       DEF SI!Next, SI!Begin, SI!Read, SI!Commit, SI!FirstCommitter, SI!UnreadBelow, SI!ValueAt, SI!Visible, SI!Writers, SI!Writes,
           SIP!Next, SIP!Begin, SIP!Read, SIP!Commit, SIP!FirstCommitter, SIP!UnreadBelow, SIP!ValueAt, SIP!Visible, SIP!Writers, SIP!Writes
  <1>4. [SIP!Next]_(SIP!siVars)
    BY <1>2, <1>3, Zenon DEF SIVars, SIP!siVars
  <1> QED
    BY <1>1, <1>4, SIP!NextInv, Zenon


\* Until a client gives up on the commit of its primary, every answer that Txn::Get
\* or Txn::Scan gave is the value of the snapshot of its transaction, and Txn::Commit
\* lets no update be lost.
THEOREM Isolation == Spec => [](GaveUp \/ (SI!SnapshotReads /\ SI!NoLostUpdate))
  <1> DEFINE J == GaveUp \/ SIP!SIInv
             K == GaveUp \/ (SI!SnapshotReads /\ SI!NoLostUpdate)
  <1>1. Init => J
    <2>1. Init => SIP!Init
      BY DEF Init, SIP!Init, Idle
    <2> QED
      BY <2>1, SIP!InitInv, Zenon
  <1>2. RInv /\ [Next]_vars /\ J => J'
    BY NextIsolated, Zenon
  <1>3. J => K
    BY Zenon DEF SIP!SIInv, SIP!SnapshotReads, SIP!NoLostUpdate, SI!SnapshotReads,
                 SI!NoLostUpdate, SIP!ValueAt, SI!ValueAt, SIP!Visible, SI!Visible,
                 SIP!Writers, SI!Writers, SIP!Writes, SI!Writes
  <1> HIDE DEF J, K
  <1>4. Spec => []K
    BY <1>1, <1>2, <1>3, ReadsAreSettled, PTL DEF Spec
  <1> QED
    BY <1>4, Zenon DEF K

=============================================================================
