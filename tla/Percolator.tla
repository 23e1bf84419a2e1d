----------------------------- MODULE Percolator -----------------------------
(***************************************************************************)
(* Transactions of FlotillaDB: the lock, data and write records of a key   *)
(* (src/txn/txn_ops.cc), the client that drives two-phase commit           *)
(* (src/client/txn_client.cc) and the handlers between them                *)
(* (ShardedNode::Handle).                                                  *)
(*                                                                         *)
(* A prewrite, commit or rollback is a command of the replicated log of    *)
(* its key's range and takes effect in one step.  Client::Call sends it    *)
(* again when the answer does not come, and every copy may be executed,    *)
(* early or late: a call that was ever sent stays in `calls' and may be    *)
(* executed at any time.  A client that stops taking steps has crashed.    *)
(*                                                                         *)
(* Data: the value t puts is t itself.  Keys are numbers, in key order.    *)
(***************************************************************************)
EXTENDS Naturals

CONSTANTS
    Key,
    Txn,
    Mutation,            \* Mutation[t]: the buffered writes, key -> "put" or "delete"
    ReadSet,             \* ReadSet[t]: the keys t reads before it commits
    Scans,               \* the transactions that read them with one Txn::Scan
    Range,               \* the ranges of the key space: the keys of each
    NotFound,
    CommitMayTimeOut     \* may the client give up on the commit of the primary?

ASSUME KeyAssumption == Key \subseteq Nat \ {0}
ASSUME ScriptAssumption ==
    \A t \in Txn : /\ DOMAIN Mutation[t] \subseteq Key
                   /\ \A k \in DOMAIN Mutation[t] : Mutation[t][k] \in {"put", "delete"}
                   /\ ReadSet[t] \subseteq Key
ASSUME RangeAssumption ==
    /\ UNION Range = Key
    /\ \A R, S \in Range : R = S \/ R \cap S = {}

VARIABLES
    db,            \* the records: lock[k], and sets of write and data records
    client,        \* the state of each client
    calls,         \* every prewrite, commit and rollback ever sent
    clock,         \* the last timestamp given out (kTxnTs)
    seen,          \* history: what the reads of each transaction have returned
    fate           \* history: the commit timestamp at each primary, 0 if none

vars == <<db, client, calls, clock, seen, fate>>

Writes(t) == DOMAIN Mutation[t]
First(K) == CHOOSE k \in K : \A j \in K : k <= j
Primary(t) == First(Writes(t))

-----------------------------------------------------------------------------
(* txn_ops.cc: commands are operators from the records to the records and a
   status code. *)

NoLock == [start |-> 0, primary |-> 0, op |-> "none"]
HasLock(d, k) == d.lock[k] # NoLock
WritesOf(d, k) == {w \in d.write : w.key = k}

Unlock(d, k) == [d EXCEPT !.lock[k] = NoLock]
AddWrite(d, k, ts, kind, start) ==
    [d EXCEPT !.write = @ \cup {[key |-> k, ts |-> ts, kind |-> kind, start |-> start]}]

\* The records of k that FindTxnOutcome reaches and that belong to start: the
\* walk is newest first and ends at such a record, or below start.
FoundOutcome(d, k, start) ==
    {w \in WritesOf(d, k) :
        /\ w.start = start
        /\ \A v \in WritesOf(d, k) : v.ts > w.ts => v.ts > start /\ v.start # start}

CommittedAs(d, k, start) == {w.ts : w \in {x \in FoundOutcome(d, k, start) : x.kind # "rollback"}}
RolledBack(d, k, start) == \E w \in FoundOutcome(d, k, start) : w.kind = "rollback"

\* The records of k that ApplyPrewrite reaches: newest first, past rollback
\* markers above start, up to and including the first other record.
ConflictWalk(d, k, start) ==
    {w \in WritesOf(d, k) :
        \A v \in WritesOf(d, k) : v.ts > w.ts => v.kind = "rollback" /\ v.ts > start}

\* Mutant: rollback markers do not stop a prewrite.
PrewriteIgnoresMarker(d, k, start) == FALSE

PrewriteAborts(d, k, start) ==
    \E w \in ConflictWalk(d, k, start) : w.kind = "rollback" /\ w.start = start

PrewriteConflicts(d, k, start) ==
    \E w \in ConflictWalk(d, k, start) : w.kind # "rollback" /\ w.ts >= start

ApplyPrewrite(d, c) ==
    LET lock == [start |-> c.start, primary |-> c.primary, op |-> c.op]
    IN  IF PrewriteAborts(d, c.key, c.start) THEN [db |-> d, code |-> "Aborted"]
        ELSE IF PrewriteConflicts(d, c.key, c.start) THEN [db |-> d, code |-> "Conflict"]
        ELSE IF HasLock(d, c.key)
        THEN [db |-> d, code |-> IF d.lock[c.key].start = c.start THEN "OK" ELSE "Conflict"]
        ELSE [db |-> [d EXCEPT !.lock[c.key] = lock,
                               !.data = IF c.op = "put"
                                        THEN @ \cup {[key |-> c.key, start |-> c.start,
                                                      value |-> c.value]}
                                        ELSE @],
              code |-> "OK"]

ApplyCommit(d, c) ==
    LET lock == d.lock[c.key]
    IN  IF lock.start # c.start
        THEN [db |-> d, code |-> IF CommittedAs(d, c.key, c.start) # {} THEN "OK" ELSE "Aborted"]
        ELSE [db |-> Unlock(AddWrite(d, c.key, c.cts, lock.op, c.start), c.key), code |-> "OK"]

\* Mutant: lock and value are deleted before anybody asks whether the
\* transaction has committed.
ApplyRollbackEager(d, c) ==
    LET cleared == [d EXCEPT !.data = {x \in @ : x.key # c.key \/ x.start # c.start},
                             !.lock[c.key] = IF @.start = c.start THEN NoLock ELSE @]
    IN  IF CommittedAs(d, c.key, c.start) # {} THEN [db |-> cleared, code |-> "Conflict"]
        ELSE [db |-> AddWrite(cleared, c.key, c.start, "rollback", c.start), code |-> "OK"]

ApplyRollback(d, c) ==
    LET own == d.lock[c.key].start = c.start
        unlocked == IF own THEN [Unlock(d, c.key) EXCEPT
                                    !.data = {x \in @ : x.key # c.key \/ x.start # c.start}]
                           ELSE d
    IN  IF CommittedAs(d, c.key, c.start) # {} THEN [db |-> d, code |-> "Conflict"]
        ELSE IF RolledBack(d, c.key, c.start) THEN [db |-> unlocked, code |-> "OK"]
        ELSE [db |-> AddWrite(unlocked, c.key, c.start, "rollback", c.start), code |-> "OK"]

Perform(d, c) ==
    CASE c.kind = "prewrite" -> ApplyPrewrite(d, c)
      [] c.kind = "commit"   -> ApplyCommit(d, c)
      [] c.kind = "rollback" -> ApplyRollback(d, c)

\* The record TxnGet stops at: the newest at or below ts, rollbacks skipped.
Newest(d, k, ts) ==
    {w \in WritesOf(d, k) :
        /\ w.kind # "rollback" /\ w.ts <= ts
        /\ \A v \in WritesOf(d, k) : v.kind # "rollback" /\ v.ts <= ts => v.ts <= w.ts}

\* v is what TxnGet answers once it has passed the lock.  A put without its data
\* record is a corruption and has no answer.
Answers(d, k, ts, v) ==
    \/ v = NotFound /\ \A w \in Newest(d, k, ts) : w.kind = "delete"
    \/ \E w \in Newest(d, k, ts) :
          w.kind = "put" /\ [key |-> k, start |-> w.start, value |-> v] \in d.data

-----------------------------------------------------------------------------
(* Calls. *)

PrewriteCall(t, k) ==
    [kind |-> "prewrite", key |-> k, start |-> client[t].start, op |-> Mutation[t][k],
     value |-> t, primary |-> Primary(t)]
CommitCall(k, start, cts) == [kind |-> "commit", key |-> k, start |-> start, cts |-> cts]
RollbackCall(k, start) == [kind |-> "rollback", key |-> k, start |-> start]

\* Client t goes to state c and sends its call.
Send(t, c) ==
    /\ client' = [client EXCEPT ![t] = c]
    /\ calls' = calls \cup {c.call}

Stay(t, c) ==
    /\ client' = [client EXCEPT ![t] = c]
    /\ UNCHANGED calls

\* The states of a client: pc is what it waits for; todo the keys a loop has
\* left; active and prewritten as in class Txn; met the lock it is resolving;
\* gaveUp is history: Client::Call failed on the commit of the primary.
NoCall == [kind |-> "none"]
NoLockMet == [key |-> 0, start |-> 0, primary |-> 0]

Idle == [pc |-> "idle", active |-> FALSE, start |-> 0, todo |-> {}, prewritten |-> {},
         key |-> 0, met |-> NoLockMet, call |-> NoCall, gaveUp |-> FALSE]

Finish(t, pc) ==
    Stay(t, [client[t] EXCEPT !.pc = pc, !.todo = {}, !.key = 0, !.met = NoLockMet,
                              !.call = NoCall])

\* abort_all: roll back what was prewritten, one key after the other.
AbortAll(t, keys) ==
    IF keys = {} THEN Finish(t, "aborted")
    ELSE Send(t, [client[t] EXCEPT !.pc = "abort", !.todo = keys, !.met = NoLockMet,
                                   !.call = RollbackCall(First(keys), client[t].start)])

\* The commits of the secondaries, one after the other.
RollForward(t, keys, cts) ==
    IF keys = {} THEN Finish(t, "committed")
    ELSE Send(t, [client[t] EXCEPT !.pc = "rollforward", !.todo = keys,
                                   !.call = CommitCall(First(keys), client[t].start, cts)])

Prewrite(t, keys, done) ==
    Send(t, [client[t] EXCEPT !.pc = "prewrite", !.todo = keys, !.prewritten = done,
                              !.met = NoLockMet, !.call = PrewriteCall(t, First(keys))])

\* After a resolution the prewrite or the read is tried again, a scan from its
\* first key on.
Retry(t) ==
    IF ~client[t].active THEN Prewrite(t, client[t].todo, client[t].prewritten)
    ELSE Stay(t, [client[t] EXCEPT !.pc = "active", !.key = 0, !.met = NoLockMet,
                                   !.todo = IF t \in Scans THEN ReadSet[t] ELSE @,
                                   !.call = NoCall])

-----------------------------------------------------------------------------
(* Reading. *)

Begin(t) ==
    /\ client[t].pc = "idle"
    /\ clock' = clock + 1
    /\ Stay(t, [client[t] EXCEPT !.pc = "active", !.active = TRUE,
                                 !.start = clock + 1, !.todo = ReadSet[t]])
    /\ UNCHANGED <<db, seen, fate>>

Meet(t, k) ==
    [client[t] EXCEPT !.pc = "lookup", !.call = NoCall,
                      !.met = [key |-> k, start |-> db.lock[k].start,
                               primary |-> db.lock[k].primary]]

Blocks(k, ts) == HasLock(db, k) /\ db.lock[k].start <= ts

\* What the server has read is noted in seen, whether or not the client gets to
\* see the rows of a scan that is blocked further on.
Note(t, keys, v) ==
    seen' = [seen EXCEPT ![t] = @ \cup [key : keys, value : {v}]]

\* A scan goes from range to range: Rest is what it has left of the first one.
Rest(t) ==
    LET todo == client[t].todo
    IN  IF todo = {} THEN {} ELSE (CHOOSE R \in Range : First(todo) \in R) \cap todo

\* The first pass of TxnScan over a range: a lock that matters blocks the scan,
\* whether or not its key has a write record.
ScanLocks(t) ==
    LET blocked == {k \in Rest(t) : Blocks(k, client[t].start)} IN
    /\ client[t].pc = "active" /\ t \in Scans /\ Rest(t) # {}
    /\ IF blocked # {} THEN Stay(t, Meet(t, First(blocked)))
                       ELSE Stay(t, [client[t] EXCEPT !.pc = "columns"])
    /\ UNCHANGED <<db, clock, seen, fate>>

\* The second pass visits the keys with write records, which the iterator
\* shows as they are now or later; the others are not found.
ScanColumns(t) ==
    LET absent == {k \in Rest(t) : WritesOf(db, k) = {}} IN
    /\ client[t].pc = "columns"
    /\ Note(t, absent, NotFound)
    /\ Stay(t, [client[t] EXCEPT !.pc = IF absent = Rest(t) THEN "active" ELSE "scan",
                                 !.todo = @ \ absent])
    /\ UNCHANGED <<db, clock, fate>>

\* TxnGet looks at the lock first and walks the write records afterwards; the
\* apply thread may come in between.
GetLock(t, k) ==
    /\ \/ client[t].pc = "active" /\ t \notin Scans /\ k \in client[t].todo
       \/ client[t].pc = "scan" /\ k = First(client[t].todo)
    /\ IF Blocks(k, client[t].start)
       THEN Stay(t, Meet(t, k))
       ELSE Stay(t, [client[t] EXCEPT !.pc = "walk", !.key = k])
    /\ UNCHANGED <<db, clock, seen, fate>>

GetWalk(t, v) ==
    LET k == client[t].key IN
    /\ client[t].pc = "walk"
    /\ Answers(db, k, client[t].start, v)
    /\ Note(t, {k}, v)
    /\ Stay(t, [client[t] EXCEPT !.pc = IF t \in Scans /\ Rest(t) # {k} THEN "scan" ELSE "active",
                                 !.key = 0, !.todo = @ \ {k}])
    /\ UNCHANGED <<db, clock, fate>>

-----------------------------------------------------------------------------
(* Resolving a lock (Txn::ResolveLock and the handler of kTxnResolve). *)

\* The blocked key is given the fate of the primary: cts is the set of its commit
\* timestamps, empty when it was rolled back.
FixCall(met, cts) ==
    IF cts # {} THEN CommitCall(met.key, met.start, First(cts))
                ELSE RollbackCall(met.key, met.start)

Fix(t, cts) ==
    Send(t, [client[t] EXCEPT !.pc = "fix", !.call = FixCall(client[t].met, cts)])

\* Mutant: an expired lock is cleared without a word to the primary.
LookUpSkipsPrimary(t) ==
    LET met == client[t].met IN
    /\ client[t].pc = "lookup"
    /\ IF db.lock[met.primary].start = met.start
       THEN Fix(t, {}) ELSE Stay(t, [client[t] EXCEPT !.pc = "outcome"])
    /\ UNCHANGED <<db, clock, seen, fate>>

\* The owner is alive, or its lock is older than the time to live by the clock
\* of the server: then the primary is rolled back.
LookUp(t) ==
    LET met == client[t].met IN
    /\ client[t].pc = "lookup"
    /\ \/ /\ db.lock[met.primary].start = met.start
          /\ \/ Retry(t)
             \/ Send(t, [client[t] EXCEPT !.pc = "expire",
                                          !.call = RollbackCall(met.primary, met.start)])
       \/ /\ db.lock[met.primary].start # met.start
          /\ Stay(t, [client[t] EXCEPT !.pc = "outcome"])
    /\ UNCHANGED <<db, clock, seen, fate>>

\* Neither committed nor rolled back: the primary is poisoned.
FindOutcome(t) ==
    LET met == client[t].met IN
    /\ client[t].pc = "outcome"
    /\ IF FoundOutcome(db, met.primary, met.start) = {}
       THEN Send(t, [client[t] EXCEPT !.pc = "poison",
                                      !.call = RollbackCall(met.primary, met.start)])
       ELSE Fix(t, CommittedAs(db, met.primary, met.start))
    /\ UNCHANGED <<db, clock, seen, fate>>

-----------------------------------------------------------------------------
(* Committing. *)

StartCommit(t) ==
    /\ client[t].pc = "active" /\ client[t].todo = {}
    /\ IF Writes(t) = {} THEN Finish(t, "committed")
       ELSE Send(t, [client[t] EXCEPT !.pc = "prewrite", !.active = FALSE,
                                      !.todo = Writes(t),
                                      !.call = PrewriteCall(t, Primary(t))])
    /\ UNCHANGED <<db, clock, seen, fate>>

\* Txn::Rollback: nothing is prewritten before Commit, so there is nothing to
\* tell the servers.
Rollback(t) ==
    /\ client[t].pc = "active"
    /\ Stay(t, [client[t] EXCEPT !.pc = "aborted", !.active = FALSE, !.todo = {}])
    /\ UNCHANGED <<db, clock, seen, fate>>

\* The handler of kTxnPrewrite looks for the lock in the way after the prewrite
\* has failed; it may be gone by then.
ReportConflict(t) ==
    LET k == First(client[t].todo) IN
    /\ client[t].pc = "conflict"
    /\ IF HasLock(db, k) THEN Stay(t, Meet(t, k)) ELSE AbortAll(t, client[t].prewritten)
    /\ UNCHANGED <<db, clock, seen, fate>>

\* Mutant: the timestamp is the last one given out.
AllocateLastTs(t) ==
    /\ client[t].pc = "allocate"
    /\ Send(t, [client[t] EXCEPT !.pc = "commit",
                                 !.call = CommitCall(Primary(t), client[t].start, clock)])
    /\ UNCHANGED <<db, clock, seen, fate>>

AllocateCommitTs(t) ==
    /\ client[t].pc = "allocate"
    /\ clock' = clock + 1
    /\ Send(t, [client[t] EXCEPT !.pc = "commit",
                                 !.call = CommitCall(Primary(t), client[t].start, clock + 1)])
    /\ UNCHANGED <<db, seen, fate>>

\* What client t does with the answer to its call, by what it was waiting for.
OnPrewrite(t, code) ==
    LET k == First(client[t].todo)
        left == client[t].todo \ {k}
        done == client[t].prewritten \cup {k}
    IN  \/ code = "OK" /\ left # {} /\ Prewrite(t, left, done)
        \/ code = "OK" /\ left = {} /\
              Stay(t, [client[t] EXCEPT !.pc = "allocate", !.todo = {}, !.prewritten = done,
                                        !.call = NoCall])
        \/ code = "Conflict" /\ Stay(t, [client[t] EXCEPT !.pc = "conflict", !.call = NoCall])
        \/ code = "Aborted" /\ AbortAll(t, client[t].prewritten)

\* Mutant: the answer is taken for granted and the secondaries are left to the
\* readers.
OnCommitAnyway(t, code) == Finish(t, "committed")

OnCommit(t, code) ==
    IF code = "OK" THEN RollForward(t, Writes(t) \ {Primary(t)}, client[t].call.cts)
                   ELSE AbortAll(t, client[t].prewritten)

OnRollForward(t) ==
    RollForward(t, client[t].todo \ {First(client[t].todo)}, client[t].call.cts)

OnAbort(t) == AbortAll(t, client[t].todo \ {First(client[t].todo)})

OnExpire(t) == Stay(t, [client[t] EXCEPT !.pc = "outcome", !.call = NoCall])

\* A refused poison means that the primary has committed in the meantime.
OnPoison(t, d, code) ==
    Fix(t, IF code = "Conflict"
           THEN CommittedAs(d, client[t].met.primary, client[t].met.start) ELSE {})

OnFix(t, code) ==
    \/ code # "Aborted" /\ Retry(t)
    \/ code = "Aborted" /\ client[t].active /\ Finish(t, "failed")
    \/ code = "Aborted" /\ ~client[t].active /\ AbortAll(t, client[t].prewritten)

CommitOf(d, t) ==
    LET cts == CommittedAs(d, Primary(t), client[t].start)
    IN  IF client[t].start = 0 \/ Writes(t) = {} \/ cts = {} THEN 0 ELSE First(cts)

Execute(c) ==
    /\ db' = Perform(db, c).db
    /\ fate' = [t \in Txn |-> CommitOf(db', t)]

\* The call of client t is executed and answered.
Answered(t) ==
    LET res == Perform(db, client[t].call) IN
    /\ client[t].call # NoCall
    /\ Execute(client[t].call)
    /\ CASE client[t].pc = "prewrite"    -> OnPrewrite(t, res.code)
         [] client[t].pc = "commit"      -> OnCommit(t, res.code)
         [] client[t].pc = "rollforward" -> OnRollForward(t)
         [] client[t].pc = "abort"       -> OnAbort(t)
         [] client[t].pc = "expire"      -> OnExpire(t)
         [] client[t].pc = "poison"      -> OnPoison(t, res.db, res.code)
         [] client[t].pc = "fix"         -> OnFix(t, res.code)
    /\ UNCHANGED <<clock, seen>>

\* A copy of a call is executed and nobody waits for its answer.  (Without the
\* first conjunct it could also be a stuttering step.)
ExecutedLate(c) ==
    /\ Perform(db, c).db # db
    /\ Execute(c)
    /\ UNCHANGED <<client, calls, clock, seen>>

\* Client::Call has run out of attempts, or a loop of Txn has: the prewrites
\* (allocation of the timestamp and resolutions included) and the commit of the
\* primary end in abort_all, the other loops go on with the next key.
GiveUp(t) ==
    /\ \/ /\ client[t].pc \in {"prewrite", "conflict", "lookup", "expire", "outcome",
                               "poison", "fix", "allocate"}
          /\ ~client[t].active
          /\ AbortAll(t, client[t].prewritten)
       \/ /\ client[t].pc = "commit" /\ CommitMayTimeOut
          /\ Send(t, [client[t] EXCEPT !.pc = "abort", !.todo = client[t].prewritten,
                                       !.gaveUp = TRUE,
                                       !.call = RollbackCall(First(client[t].prewritten),
                                                             client[t].start)])
       \/ client[t].pc = "rollforward" /\ OnRollForward(t)
       \/ client[t].pc = "abort" /\ OnAbort(t)
    /\ UNCHANGED <<db, clock, seen, fate>>

-----------------------------------------------------------------------------

Init ==
    /\ db = [lock |-> [k \in Key |-> NoLock], write |-> {}, data |-> {}]
    /\ client = [t \in Txn |-> Idle]
    /\ calls = {}
    /\ clock = 0
    /\ seen = [t \in Txn |-> {}]
    /\ fate = [t \in Txn |-> 0]

Next ==
    \/ \E t \in Txn : Begin(t)
    \/ \E t \in Txn : ScanLocks(t)
    \/ \E t \in Txn : ScanColumns(t)
    \/ \E t \in Txn, k \in Key : GetLock(t, k)
    \/ \E t \in Txn, v \in Txn \cup {NotFound} : GetWalk(t, v)
    \/ \E t \in Txn : LookUp(t)
    \/ \E t \in Txn : FindOutcome(t)
    \/ \E t \in Txn : StartCommit(t)
    \/ \E t \in Txn : Rollback(t)
    \/ \E t \in Txn : ReportConflict(t)
    \/ \E t \in Txn : AllocateCommitTs(t)
    \/ \E t \in Txn : Answered(t)
    \/ \E t \in Txn : GiveUp(t)
    \/ \E c \in calls : ExecutedLate(c)

Spec == Init /\ [][Next]_vars

-----------------------------------------------------------------------------
(* Properties. *)

Pcs == {"idle", "active", "columns", "scan", "walk", "lookup", "expire", "outcome", "poison", "fix",
        "prewrite", "conflict", "allocate", "commit", "rollforward", "abort",
        "committed", "aborted", "failed"}
LockRecord == [start : Nat, primary : Key \cup {0}, op : {"put", "delete", "none"}]
WriteRecord == [key : Key, ts : Nat, kind : {"put", "delete", "rollback"}, start : Nat]
DataRecord == [key : Key, start : Nat, value : Txn]
Call ==
    [kind : {"prewrite"}, key : Key, start : Nat, op : {"put", "delete"}, value : Txn,
     primary : Key]
        \cup [kind : {"commit"}, key : Key, start : Nat, cts : Nat]
        \cup [kind : {"rollback"}, key : Key, start : Nat]
ClientState ==
    [pc : Pcs, active : BOOLEAN, start : Nat, todo : SUBSET Key, prewritten : SUBSET Key,
     key : Key \cup {0}, met : [key : Key \cup {0}, start : Nat, primary : Key \cup {0}],
     call : Call \cup {NoCall}, gaveUp : BOOLEAN]

\* Every variable has its type; a lock names a primary, and the client of a
\* prewrite loop always has a key left to write.
TypeOK ==
    /\ db \in [lock : [Key -> LockRecord], write : SUBSET WriteRecord, data : SUBSET DataRecord]
    /\ client \in [Txn -> ClientState]
    /\ calls \in SUBSET Call
    /\ clock \in Nat
    /\ seen \in [Txn -> SUBSET [key : Key, value : Txn \cup {NotFound}]]
    /\ fate \in [Txn -> Nat]
    /\ \A k \in Key : HasLock(db, k) => db.lock[k].primary \in Key
    /\ \A t \in Txn : client[t].pc \in {"prewrite", "conflict"} => client[t].todo # {}

\* A key has one fate in a transaction: locked, committed or rolled back, never
\* two of them.  A delayed prewrite or commit finds the marker or the record
\* (docs/mvcc.md: "A lock and a write record for the same (key, start_ts) never
\* coexist", ApplyPrewrite, ApplyCommit, ApplyRollback).
OneFate ==
    /\ \A w \in db.write : db.lock[w.key].start # w.start
    /\ \A w, x \in db.write : w.key = x.key /\ w.start = x.start => w = x

\* All keys of a transaction share the fate of its primary: no key is committed
\* while another is rolled back, and commits carry one timestamp, whoever wrote
\* the records: the coordinator, a late copy of its calls or a resolver
\* (docs/mvcc.md "Cross-range atomicity").
OutcomesAgree ==
    \A w, x \in db.write : w.start = x.start =>
        IF w.kind = "rollback" THEN x.kind = "rollback"
                               ELSE x.kind # "rollback" /\ x.ts = w.ts

\* The same for every transaction whose client has not given up on the commit of
\* its primary.
AnsweredOutcomesAgree ==
    \A w, x \in db.write :
        \/ w.start # x.start
        \/ \E t \in Txn : client[t].start = w.start /\ client[t].gaveUp
        \/ w.kind = "rollback" /\ x.kind = "rollback"
        \/ w.kind # "rollback" /\ x.kind # "rollback" /\ x.ts = w.ts

\* The records are well formed and no committed put has lost its value: TxnGet's
\* "missing data record" is unreachable (ApplyRollback deletes data, ApplyPrewrite
\* writes it).  A command is one step here; a crash between the two writes of
\* ApplyPrewrite makes it reachable (RaftGroup, txn_ops.cc:81-82).
DataBehindRecords ==
    /\ TypeOK
    /\ \A w \in db.write : w.kind = "put" =>
          \E x \in db.data : x.key = w.key /\ x.start = w.start

\* What Commit() reports is true and stays true: after OK every written key is
\* committed or still locked with its value, so that the next reader rolls it
\* forward; after an error nothing of the transaction is ever committed, unless
\* the error is that the commit of the primary was not answered.
ReportsAreTrue ==
    \A t \in Txn : \A k \in Writes(t) :
        /\ client[t].pc = "committed" =>
              \/ CommittedAs(db, k, client[t].start) # {}
              \/ db.lock[k].start = client[t].start
        /\ client[t].pc = "aborted" /\ ~client[t].gaveUp =>
              CommittedAs(db, k, client[t].start) = {}

SI == INSTANCE SnapshotIsolation WITH
        start <- [t \in Txn |-> client[t].start],
        commit <- fate

SIVars == <<[t \in Txn |-> client[t].start], fate, seen>>
GaveUp == \E t \in Txn : client[t].gaveUp

\* Two-phase commit over lock records, with crashed coordinators, resolvers,
\* retries and late calls, implements snapshot isolation: a transaction takes
\* effect at once, when its primary is committed, nobody sees a part of it, and of
\* two that write a common key one began after the other had committed (Txn::Get,
\* Txn::Scan, Txn::Commit, ResolveLock, ApplyPrewrite).  It holds until a client
\* gives up on the commit of its primary.
ImplementsSnapshotIsolation ==
    SI!Init /\ [][SIVars' # SIVars => GaveUp' \/ SI!Next]_SIVars

=============================================================================
