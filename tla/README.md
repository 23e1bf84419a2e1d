# FlotillaDB in TLA+

A verification project kept beside FlotillaDB, a distributed SQL database: TLA+
modules translated from the C++ source, TLC configurations that check them on
small instances, and TLAPS proofs of the results that matter most. Paths below
are relative to the repository.

## The system and its parts

From the bottom up (`docs/`, `src/`):

| part | source | state it owns | who calls it |
|---|---|---|---|
| storage engine | `src/storage/` | memtables, write-ahead logs, tables in levels, manifest | raft groups (one engine per node, shared) |
| Raft core | `src/raft/raft.cc` | term, vote, log, commit index, leader bookkeeping, `ready_` | `RaftGroup`, under `raft_mutex_` |
| Raft persistence | `src/raft/raft_storage.cc` | hard state file, log file, snapshot file | `RaftGroup::DrainReady` |
| Raft group | `src/server/raft_group.cc` | apply queue and thread, applied marker, waiters, pending reads, the range descriptor | `ShardedNode`, client requests, the apply thread |
| sharded node | `src/server/sharded_node.cc` | table of groups, outboxes, tick and sender threads | TCP server, peers |
| transaction records | `src/txn/txn_ops.cc`, `codec.cc` | lock, data and write records of a key | the apply loop (writes), requests (reads) |
| transaction client | `src/client/txn_client.cc` | buffered mutations, timestamps, prewritten keys | SQL executor, command line |
| key-value client | `src/client/client.cc` | believed leader, retry loop | all clients |
| SQL layer | `src/sql/` | catalog (stored in keys), one transaction per statement | command line |
| network | `src/net/` | frames and sockets | everyone |

How they interact: a client sends a request to a node; the node routes it to the
group of the key's range; a write is proposed to Raft and answered when the apply
loop has executed it on the local engine; a read waits for a ReadIndex and for the
apply loop to reach it. Raft messages leave through a bounded outbox per peer and
may be lost. A transaction is a client-driven two-phase commit whose only state is
the lock, data and write records it leaves in the ranges of its keys; any reader
that meets a lock may decide the fate of its owner.

## Modules

| module | models | kind |
|---|---|---|
| `Raft` | `src/raft/raft.cc`, with the calls of `RaftGroup` that drive it | specification of a cluster |
| `RaftProofs`, `RaftLogProofs`, `RaftCommitProofs`, `RaftSafetyProofs` | theorems about `Raft` | proofs |
| `RaftHistory` | what the proofs about logs are stated in | definitions |
| `RaftGroup` | `src/server/raft_group.cc`, `src/raft/raft_storage.cc` | specification of one replica |
| `Sharding` | `src/server/sharded_node.cc`, the split and snapshot commands of `src/server/raft_group.cc`, `src/client/client.cc` | specification of nodes and ranges |
| `SnapshotIsolation` | what transactions promise | abstract specification |
| `SnapshotIsolationProofs` | theorems about `SnapshotIsolation` | proofs |
| `Percolator` | `src/txn/txn_ops.cc`, `src/client/txn_client.cc`, the transaction handlers of `src/server/sharded_node.cc` | specification |
| `PercolatorProofs`, `PercolatorRefinement` | theorems about `Percolator` | proofs |
| `KvStore` | what the storage engine promises | abstract specification |
| `Lsm` | `src/storage/` | specification |
| `Codec` | `src/txn/codec.cc` | pure functions |
| `Sql` | `src/sql/executor.cc`, `src/sql/catalog.cc`, the buffered writes of `src/client/txn_client.cc` | specification of statements |
| `SqlProofs` | theorems about `Sql` | proofs |
| `MCRaft`, `MCRaftGroup`, `MCSharding`, `MCPercolator`, `MCLsm`, `MCSql` | small instances | model checking |

The layers rest on each other. `Raft` establishes one sequence of committed entries;
`RaftGroup` takes such a sequence and shows that a replica turns it into a state
machine that applies each command once; `Sharding` takes such state machines and
divides the key space among them; `Percolator` takes a command as one atomic
step. `Lsm` implements `KvStore`, the map with atomic durable writes that `RaftGroup`
takes the engine to be. `Percolator` implements `SnapshotIsolation`, and `Sql` takes
transactions to be what `SnapshotIsolation` says.

A definition whose comment begins with `Mutant:` is a plausible wrong version of the
definition that follows it. No specification uses one; replacing the definition by it
makes the property named in `PROJECT.json` fail, which shows that the property can.

### Raft

One record per server holds the members of class `Raft`; every member function is
an operator from record to record with the name it has in the source. The `ready_`
accumulator is the fields `out`, `emitted` and `confirmed`. An action is one call of
the host with `raft_mutex_` held: the member function, then `DrainReady`, which
persists and only then sends. Timers are nondeterministic (any non-leader may time
out, any leader may heartbeat). The network is a set of messages: any message may be
delivered next or lost; it is not duplicated, since TCP carries each frame at most
once and the sender loop does not resend. A restart rebuilds the record from term,
vote, snapshot base and log.

Abstractions: a log entry is its term, because a leader creates one entry per index
and term, so the pair identifies the command. The byte cap of an append is part of
`MaxEntries`, the entry cap. `last_emitted_` is identified with `commit_`: the code
advances them together. `Ignorable` responses (of an older term, or of an election or
leadership that is over) leave the network at once, since their receiver does
nothing with them. A refused append is kept while its receiver may still come to lead
in that term.

History variables: `cast` (votes), `elected` (elections won), `committed` (entries
handed to a state machine, with the term of the server that first did), `reads`
(confirmed reads, with the highest index committed anywhere when they began).

### RaftGroup

One replica of one range. On disk: `file` (snapshot, log and hard state files) and
`db` (the records of the range and the applied marker, in the engine). In memory: the
core, `entries_`, both queues, `applied_index_`, the proposals and the apply thread.
A call of the core is one step that fills `drain` with the file writes of `Persist` or
`SaveSnapshot`; `Persist` then performs one of them per step with `raft_mutex_` held,
and the last one sends the messages and fills the queues. `ApplyLoop` runs beside it,
one write to the engine per step: a command expands to the writes `txn_ops.cc` makes
for it followed by the marker, a snapshot to the deletion of what the range holds, the
insertion of its records, and the marker. `Crash` may come anywhere, and inside an
append leaves any part of its records; `Start` is `Init` with `Load`, including the
snapshot it restores when the engine is behind. A failure in `Persist` or
`ApplySnapshot` calls `abort()` and is a crash; one in a command ends the apply thread
(`ApplyFails`), one in `MaybeSnapshot` is ignored by the code (`SaveSnapshotFails`)
and leaves the log closed if `RewriteLog` was under way.

The environment (the other replicas and the core) is constrained to what `Raft` gives:
an entry is its index and whether it is the chosen one of that index; a chosen entry
has chosen entries below it; only chosen entries are committed, and none that was
committed is replaced. Comparing the terms of a proposal and of the applied entry is
comparing the two entries.

`LateSnapshots = FALSE` excludes an InstallSnapshot whose last entry the log already
holds. With `TRUE` `AppliedExactlyOnce` fails: after a restart the core's commit index
is that of its snapshot and lies below the applied index, an old snapshot passes the
check `m.snap_index <= commit_`, the apply thread restores it, and `applied_index_`
stays at the maximum (`raft_group.cc:374`), so the entries between are skipped. The
cause is the one `raft_snapshot_loss` shows in the core.

### Sharding

All nodes, each with one engine that its groups share. A group is a log of committed
commands (`log[g]`), at most one leader, and a replica per node that applies the log as
late as it likes. A node has on disk the data of its engine, the descriptor, the list of
children and the applied marker of each group and the last snapshot of each, and in
memory the range that each group works with. `ApplySplit` performs its writes
one after the other, with a crash between any two (`CrashSplitting`), and
`OnSplitApplied`, which makes the child known to the node, is a step of its own: in
between, part of the key space is in no range of the node. `MaybeSnapshot` and
`ApplySnapshot` carry the descriptor, the children and the data of the range;
`WithChildren` is `OnSnapshotRestored`. `Restart` is `Init`, which reads the
descriptors back. `Elect` moves the leadership of a group to any replica that hosts it.

A write is called with any key on a node, routed by it (`CallWrite`), proposed to the group it
was routed to (`ProposeWrite`) and acknowledged when the leader applies it; each step
may find the ranges changed. A read is `Get` or a scan: the list of ranges is taken
once, and each part is served by the leader of its group, after the `ReadIndex` and the
wait for the apply loop, which are two steps (`ReadIndex`, `ServePart`). A call that is
refused is tried on another node. With `MaxAttempts` above 1 a write that was not
answered is sent again.

The code lets four things go wrong that its documentation excludes. The model has them
all; it records them in history variables, and the properties leave out what they
touch, so that everything else is still checked in the same behaviours:

* `history.torn`: nodes that crashed between two writes of `ApplySplit`, and after how
  many. After one, the ranges of the node overlap for good (`Overlaps`): it may have two
  ranges for a key, but never none. After two, nothing is wrong with the node itself;
* `history.marred`: nodes that learned of a child from a snapshot of its parent, or that
  restored a snapshot of a torn or a marred node;
* `history.strayed`: keys that were written through a group after a split in its log had
  given them away;
* `read.crossed`: reads that a node served while it was applying a split of a range they
  read, between the two steps of one, or on a marred node or one whose ranges overlap.

### Sql and Codec

`Sql` has the committed store, a function on the keys that are there, and one record per
client. `Begin` takes the snapshot, `Run` executes the whole statement on it
(`Execute` and the operators named after the statements), `Commit` applies the buffered
writes unless somebody has committed to one of their keys since `Begin`, and `Abort` ends
the transaction at any point. `Get` and `Scan` lay the buffered writes over the snapshot.
Keys are real byte strings in two parts, so that the order of primary keys, the bounds
of a table scan and the separation of catalog, tables and rows are those of the code.
A statement is what the parser returns. `ledger` counts what committed statements
reported: tables created and dropped by name, ids given out, rows inserted and removed.

Left out: the limit of a scan (2^20 rows), the text of results, the encoding of schemas
and rows (`DecodeRow` keeps its check of the number of columns). A commit that times
out after it was executed is a `Commit` here; what it may do to the atomicity of a
statement is shown by `txn_commit_timeout`.

`Codec` has `EscapeKey`, `UnescapeKey`, `WriteKey` and `ParseWriteKey` as recursive
functions; `WriteKeysAreOrdered` compares them with the order and the round trip they
are for. It justifies that `Sql` orders user keys by their own bytes.

### SnapshotIsolation and Percolator

`SnapshotIsolation` has three actions: begin at a timestamp above all others, read what
was committed below it on one key or several, and commit at a timestamp that is free and above one's start,
unless somebody has committed to a common key since the start or a snapshot above that
timestamp has already been read where the transaction writes. Timestamps are unbounded.
The commit timestamp is
not necessarily the newest: the code draws it before it commits the primary, and others
may begin in between.

`Percolator` keeps the lock of each key and the sets of write and data records.
`ApplyPrewrite`, `ApplyCommit`, `ApplyRollback`, `FindTxnOutcome`, `TxnGet` and
`TxnScan` are operators on them, with the order in which the code walks the records.
Clients follow `Txn::Begin`, `Get`, `Scan`, `ResolveLock`, `Commit` and `Rollback`, one
request per step and a scan one range after the other; a request that
was ever sent may be executed again at any later time, since `Client::Call` retries
and old copies linger; a client that takes no further step has crashed. The time to
live of a lock is nondeterministic, as is the number of attempts of a reader. The
refinement mapping gives a transaction its commit timestamp when its primary is
committed (history `fate`) and its answers when it reads (history `seen`).

Abstractions: reads precede the buffered writes, so that `Get` never answers from the
buffer (it does in `Sql`); a server read is one step at or after its barrier. A command is
applied in one step; the crash inside `ApplyPrewrite` that leaves a lock without data is in
`RaftGroup`.

### KvStore and Lsm

`KvStore`: a write that returns OK takes effect at once. One that returns an error has
either taken effect all the same (the new log could not be opened, `FailLate`) or is in
doubt: it may or may not come back with the next restart, unless a later write to its key
took effect first. The calls that returned OK and those that failed are counted, so a
change of the map is a call or a restart, and nothing but writes in doubt may change at
a restart. `Lsm` has the manifest,
tables and logs on disk, and memtables, version and background job in memory. Flush
and compaction are steps (pick, build, install, save, remove) with the mutex released
where the code releases it; `Recover` is a sequence of steps with a crash between any
two; a `Get` or a `Checkpoint` may be under way throughout. Byte sizes are left out:
a memtable may be full after any write, an output file after any number of entries in
`OutputSizes`, a level over its target whenever it has a file.

Assumed: `fsync_writes` is on, and what was written to a file before a crash is kept
(the missing fsync of a directory is not modelled). A clean shutdown is a crash. An
iterator is what it would show at one moment.

## Runs

Every run is exhaustive within its bounds. `CHECK_DEADLOCK FALSE` is in every
configuration because the bounds (terms, indexes, writes, crashes, the finite scripts
of the transactions) make every model stop. The type invariant of a module is `TypeOK`;
outside `Raft` it is a conjunct of the property about the shape of the state
(`SnapshotsHoldTheirPrefix`, `RangesFollowTheLog`, `DataBehindRecords`, `FilesPresent`,
`KeysMatchRows`).

| run | bounds | checks |
|---|---|---|
| `raft_protocol` | 3 servers, 2 terms, 2 indexes, 3 messages in flight (a restart, or heartbeats without a read, take the place of one), one event (restart, snapshot, heartbeat or read, command) | `TypeOK`, `AcknowledgedEntriesStay`, `ElectionSafety`, `LeaderHintIsElected`, `ReadsAreFresh`, `SnapshotsAreCommitted`, `CommittedEntriesStay`, `OneVotePerTerm` |
| `raft_three_terms` | 3 servers, 3 terms, 3 indexes, 2 messages, candidates n1, n2, then n1 or n3 | `LogMatching`, `StateMachineSafety`, `LeaderCompleteness` |
| `raft_snapshot_loss` | 2 terms, snapshot at index 1, 3 events | **violated** `CommittedEntriesStay` |
| `raft_capped_append` | 3 terms, appends of one entry | **violated** `StateMachineSafety` |
| `group_replica` | logs of 2 or 3 commands, a snapshot after every entry, one crash, failed write, new term or proposal; two proposals on the short logs | `AppliedExactlyOnce`, `SnapshotsHoldTheirPrefix`, `AcknowledgedSurvives`, `AnswersAreTrue`, `CommittedIsApplied` |
| `group_prewrite_crash` | prewrite and commit, one crash | **violated** `AppliedExactlyOnce` |
| `sharding` | 3 nodes, 2 keys, one split, 2 writes, at least one of them to the key the split gives away, one Get or scan, one crash, one snapshot, one election; a crash or a snapshot weighs two and any other event one, at most 4 together (`WithinBounds`); of the combinations those that `MCSharding!Matched` names | `RangesPartition`, `RangesFollowTheLog`, `ReplicasAgree`, `ScansAreOrdered`, `ReadsAreFresh` |
| `txn_protocol` | a writer of both keys, one that reads a key and deletes the other, a scan of two ranges; commits may time out | `OneFate`, `DataBehindRecords`, `AnsweredOutcomesAgree`, `ReportsAreTrue`, `ImplementsSnapshotIsolation` |
| `txn_commit_timeout` | 2 writers of both keys, a reader of both | **violated** `OutcomesAgree` |
| `lsm_store` | 2 keys, 3 levels, compaction after every flush, 3 writes, one crash, one fault, one read or checkpoint; a fault or a read weighs two, a write that took effect and a crash one, at most 4 together (`WithinBounds`) | `FilesPresent`, `LevelsDisjoint`, `IteratorsAgree`, `SeesStore`, `ReadsAreCurrent`, `WritesResume`, `ImplementsKvStore` |
| `lsm_torn_append` | 3 writes, one crash, one torn append | **violated** `Durable` |
| `sql_statements` | 3 clients, 5 statements out of 15, 2 table names, INTs of 2 bits; user keys of up to 3 bytes out of 0, 1, 255 | `IdsAreNeverReused`, `TablesAddUp`, `RowsAddUp`, `KeysMatchRows`, `NothingIsCorrupt`, `RowsInKeyOrder`, `WriteKeysAreOrdered` |

Why the bounds are enough for the cases that matter. Three messages in flight and two
terms reach the deposed leader that counts an echo sent before its read began; three
terms with three indexes let the entries of two old leaders compete for an index that a
third replicates or overwrites, and the candidates are fixed only to make that depth
affordable. Figure 8 of the Raft paper is out of reach of any run: an append that carries
the whole log always reaches the no-op of its leader, so that the check of the term in
`MaybeAdvanceCommit` has nothing to refuse, and with capped appends `raft_capped_append`
fails first. Two keys are a primary and
a secondary; two writers conflict on both, and a third transaction resolves their
locks. Three writes on two keys give an overwrite and a deletion spread over three
levels, which is what a dropped tombstone or a wrong search order needs. In
`group_replica` the committed and the rolled-back transaction and the overwritten plain
key are the three ways a replay could show. In `sharding` three nodes are a majority
with one replica that lags behind a split and is brought up by a snapshot; the writes
race the split that moves their key, an election lets another node serve a read, and
with both keys written a scan has rows from two ranges to put in order. `Matched` leaves
out a Get beside writes to the other key, a scan beside two writes to one key, and
together with two writes and a read a change of leader other than the first election of
the new range. In `lsm_store` a write that failed before it took effect weighs nothing
beyond its fault, so that a crash after it and a further write are within the bounds.
Five statements are enough to create, fill, drop and create again a table while an
insertion into the first one is still under way.

Larger instances were run once, without a violation: `txn_protocol` with both writers
writing both keys (1.2 million states), and `sharding` with every combination in which
at most one write is to the key that stays (0.9 million).

`CommittedEntriesStay` is about servers that have reached the term in which the entry was
committed: one that has not may hold the entry from an older leader and lose it to a late
append of a leader in between. It passes in `raft_protocol` because the snapshot is then the
only event; `raft_snapshot_loss` is the same property with three. `MCRaft!View` leaves out
the leader's bookkeeping of servers that do not lead (it is reset by `BecomeLeader`)
and the history `cast`, which none of the properties checked there reads.
`NoCrashInPrewrite` keeps `group_replica` clear of what `group_prewrite_crash` shows.

### Disagreements found

* `raft_snapshot_loss`: `HandleInstallSnapshot` clears the whole log, so a late
  InstallSnapshot removes committed entries above the snapshot from a follower that
  acknowledged them (`docs/raft.md:88`: "Committed entries are never truncated").
* `raft_capped_append`: a follower commits `min(m.commit, last_index())`; when the
  append was capped below `m.commit`, `last_index()` may lie in a stale suffix, and two
  servers apply different entries at one index (`tests/raft_sim.h:260`).
* `txn_commit_timeout`: `Txn::Commit` rolls the secondaries back when the commit of the
  primary times out although it may have been executed (`docs/mvcc.md:110`).
* `lsm_torn_append`: after an append that failed half way the log accepts records
  behind the torn one, and recovery drops them (`docs/storage.md:62`, `33-35`). With a
  crash and a flush in between, an old part of the log may also be replayed above a
  newer table; `lsm_store` therefore has no crash after a torn append (`CrashAfterTorn`).
* `group_prewrite_crash`: a crash between the lock and the data record of a prewrite;
  the replay takes the lock for a finished prewrite (`docs/raft.md:26`: "exactly once").

Met while modelling `Sharding`, `Sql` and the client, and part of the models (the
history variables above name the behaviours), without a run of their own:

* A crash inside `ApplySplit` after the descriptor of the child alone leaves two
  overlapping ranges for good: the replay finds the child and takes the split for done
  (`docs/sharding.md:74`: "Ranges in every node's routing table are disjoint and cover the
  keyspace").
* A replica that gets a child from a snapshot of its parent creates it empty, and the
  child has no durable descriptor: a restart forgets it (`docs/sharding.md:68-70`: "A
  replica that was down across a split therefore converges").
* A put that was routed before a split and proposed after it is applied by the parent,
  outside its range (`raft_group.h:47-49`: "a group only ever touches user keys inside its
  range"), and a read may meet the node between the two steps of a split, when a part of
  the key space is in none of its ranges.
* A put that is sent again may overwrite somebody else's later put, although it is the
  same request (`client.cc:90`: "every request here is idempotent").
* An INSERT whose column list names a column twice is accepted and leaves another column
  at the integer 0, even a TEXT one. An INSERT that commits beside a DROP of its table
  leaves rows that no statement sees; the id is not used again. Two UPDATEs may show write
  skew, which snapshot isolation allows.

### Fairness

Only two properties need it. `WritesResume` assumes weak fairness of the background
thread and of recovery: a thread that can run is run. `CommittedIsApplied` assumes weak
fairness of the restart and of `Persist` (system calls return) and strong fairness of
the apply thread, which competes for `raft_mutex_` with ticks and messages: ticks are
milliseconds apart and each holds the mutex briefly, so the thread gets it in the end.
Raft has no liveness property: under nondeterministic timers nothing has to be elected.

## Proofs

Everything below is proved for every value of the constants: any finite set of
servers, any keys, transactions, scripts, clients, tables and statements, and any bound.
Each module has one inductive invariant, a lemma per operator of the model that says what
the operator leaves alone or establishes, a lemma per action, and the theorems at the end.

| module | theorem | states |
|---|---|---|
| `RaftProofs` | `TypeCorrect` | `Spec => []TypeOK` |
| | `ElectionIsSafe` | `Spec => []ElectionSafety` |
| | `VotesStand` | `Spec => OneVotePerTerm` |
| `RaftLogProofs` | `HintsAreElected` | `Spec => []LeaderHintIsElected` |
| | `LogsAlwaysMatch` | `Spec /\ []Uncompacted => []LogMatching` |
| `RaftSafetyProofs` | `StateMachinesAgree` | `Spec /\ []Whole => []StateMachineSafety` |
| | `LeadersAreComplete` | `Spec /\ []Whole => []LeaderCompleteness` |
| | `AcknowledgementsStand` | `Spec /\ []Whole => []AcknowledgedEntriesStay` |
| | `CommitsStay` | `Spec /\ []Whole => CommittedEntriesStay` |
| `SnapshotIsolationProofs` | `ReadsAreSnapshots` | `Spec => []SnapshotReads` |
| | `NoUpdateIsLost` | `Spec => []NoLostUpdate` |
| `PercolatorProofs` | `OneFateHolds` | `Spec => []OneFate` |
| | `DataBehindRecordsHolds` | `Spec => []DataBehindRecords` |
| | `OutcomesAgreeHolds` | `Spec => []AnsweredOutcomesAgree` |
| | `ReportsAreTrueHolds` | `Spec => []ReportsAreTrue` |
| `PercolatorRefinement` | `Refinement` | `Spec => ImplementsSnapshotIsolation` |
| | `Isolation` | `Spec => [](GaveUp \/ (SI!SnapshotReads /\ SI!NoLostUpdate))` |
| `SqlProofs` | `IdsStayUnique` | `Spec => []IdsAreNeverReused` |
| | `TablesAreCounted` | `Spec => []TablesAddUp` |
| | `RowsAreCounted` | `Spec => []RowsAddUp` |
| | `KeysAlwaysMatchRows` | `Spec => []KeysMatchRows` |
| | `NoCorruption` | `Spec => []NothingIsCorrupt` |

### Raft: elections

Election safety is not inductive. The invariant `IInv` adds the chain that makes it
so: every vote a server holds for its current term is in the history `cast`, and
`cast` has none for a term in its future (`CastStands`); nobody casts two votes in a
term (`CastOnce`); a granting response in flight stands for a vote that was cast
(`GrantsCast`); a candidate's `votes` are votes that were cast for it (`VotesCast`);
a leader has been elected and an elected server has a quorum of cast votes
(`LeadersHaveQuorum`, `ElectedByQuorum`). Two quorums meet (`QuorumsMeet`), so two
winners of a term share a voter, who voted once. `HintInv` adds that appends and snapshots
in flight come from elected servers; it is what makes the leader hint reliable. The
assumptions are those of `Raft`: the servers are a finite set without `Nil`, the bounds
are numbers (`ServerAssumption`, `BoundAssumption`).

### Raft: logs

Log matching says nothing about appends in flight or about logs that no longer exist, so
it is far from inductive. The proof keeps a history that the model does not record, the
set `H` of all logs that leaders have had, and the invariant says that such a set exists:
`MatchInv == IInv /\ HintInv /\ \E H : LogInv(H)`. `LogInv(H)` says that `H` holds the
beginnings of its members, that terms grow along a log and that the logs of one leader
extend one another (`LogsOK`); that every server's log is in `H`, a leader's being the
longest of its term (`ServerFit`, `LeaderFit`); and that an append carries a piece of a log
of its term (`MessageFit`). The consistency check of `HandleAppendEntries` then makes the
log of a follower a log of `H` again (`Overwritten`): either its own or the leader's up to
the last entry of the message. `Uncompacted` is the premise that no server has taken or
installed a snapshot.

### Raft: committed entries

`SafeInv(H, A)` has a second history, the set `A` of acknowledgements: server p had, in
term t, a log that ended in an entry of term t. A log is chosen when a quorum has
acknowledged it, and lost when a quorum has moved on to later terms without. The heart
of it is `LaterHaveChosen`: for two logs of leaders, the later begins with the earlier or
the earlier is lost. It needs that a candidate's log is at least as new as whatever its
voters have acknowledged (`Informed`; the check of `HandleRequestVote`), that leaders
count only acknowledged entries (`Backs`), that commit indexes, also those in messages,
cover only entries of chosen logs (`Settled`), and that each committed entry was in a
chosen log of its committer's own term (`Witnessed`). `MaybeAdvanceCommit` checks that
term; under the premise below the check is idle, because whatever is acknowledged to a
leader reaches its no-op.

`RaftCommitProofs` has the part of the argument that is about logs and quorums: a
step that is led, quiet or followed (`Effect`) keeps `SafeInv`. It also shows that the
handlers without elections make such steps; `RaftSafetyProofs` does the same for the
functions that campaign and win, and puts both together.

The premise `Whole` is `Uncompacted` and `OneMessage`, that one append can carry a whole
log. Neither can be dropped, and the theorems are false of the code without them:
`raft_snapshot_loss` violates the first, `raft_capped_append` the second. What is proved is
that nothing else is wrong: crashes, lost and reordered messages, any number of terms.

### Snapshot isolation

`SIInv` adds to the two properties the types and `InOrder`: a transaction reads only
after it has begun and commits above its start. Without the first a commit or a begin
could change the snapshot of an answer, without the second two writers could miss each
other.

### Transactions

The four properties of `Percolator` follow from one invariant, `Inv`, because each depends
on the others: a key is rolled back only if the primary never commits, a resolver relies
on what it has read about the primary some steps ago, and copies of every call that was
ever sent may still be executed. `Inv` therefore ties each call and each record to the
client that it belongs to (`CallOK`, `WriteOK`, `LockOK`, `SentOK`): a commit of a
secondary is sent only when the primary carries its commit record; a rollback of a
secondary only when the primary carries a marker, or the client is aborting and has sent
no commit (`Hopeless`), or it has given up on the commit of its primary; a commit carries
the one timestamp of its transaction (`Times`); a key that was prewritten has the lock or
a record (`PhaseOK`). `MoveInv` says that a client whose move keeps `Promises` and whose
new calls are in order (`Ordered`) keeps `Inv`; the lemmas about the actions only have to
show that. The lemmas `ApplyPrewriteInv`, `ApplyCommitInv` and `ApplyRollbackInv` execute
any call at any time.

The refinement needs in addition that a key that is read is `Settled`: whoever commits
below the snapshot of the reader, now or ever, has left its record on the key. A key
without a lock that blocks is settled, because commit timestamps are drawn after the last
prewrite, and it stays settled, because new timestamps are above the snapshot. On a
settled key `TxnGet`'s walk finds what the abstract snapshot shows. The abstract commit is
the execution of the commit of the primary; that no snapshot above it has been read where
it writes follows from the locks, which are all still there (unless a client gave up, see
`txn_commit_timeout`). `Isolation` carries the theorems of `SnapshotIsolation` over.
Assumed: keys are numbers, which gives them their order (`KeyAssumption`; the first key of a
transaction is its primary), scripts put and delete keys (`ScriptAssumption`), and the
ranges partition the keys (`RangeAssumption`).

### SQL

Whether `Commit` keeps the books depends on what `Run` decided on an older snapshot. The
invariant `SqlInv` says that the store is well formed (`IsStore`); that the snapshot of a
running transaction differs from the store at most in the keys its `changed` names, and
that the buffered writes of an executed statement and the rows and tables it reports agree
on that snapshot (`SessionOK`, `Outcome`); and that no id from the next one on has been
given out (`Unused`). A commit is let through only when none of its keys is in `changed`,
so on those keys snapshot and store agree, and what the statement counted there is what
changes.

That rows fit their schemas needs `FitInv`, because an INSERT may commit beside the DROP
of its table and a CREATE of the same name. It says that in the store and in every snapshot
the rows of a table fit its schema and all ids in use are below the next one
(`StoreFits`); that a table of the store which is older than a running transaction is in
its snapshot, with the same schema (`OldTables`), so that rows computed on the snapshot
fit the table they end up in, or none; and that buffered rows fit the schema that was
read (`WritesFit`). The model numbers its tables up to `MaxStatements`; `IdsSuffice` shows
that the ids do not run out, because every running statement takes one at most. The
assumptions are those of `Sql`: statements are of the six kinds and name known tables, a
CREATE has a primary key, an INSERT has finitely many rows (`StatementAssumption`), and
the number of statements of a behaviour is a number (`BoundAssumption`).

### Only model-checked

Read freshness and snapshots in `Raft`; replicas (`RaftGroup`), ranges (`Sharding`) and
the storage engine (`Lsm`) with its refinement of `KvStore`. `RowsInKeyOrder` and
`WriteKeysAreOrdered` need induction over byte strings, which the prover cannot do.
`CommittedIsApplied` and `WritesResume` are liveness under fairness, which it cannot do
either. The invariants behind the theorems (`IInv`, `LogInv` and `SafeInv` with histories
recorded in extra variables, `Inv`, `RInv`, `SqlInv`, `FitInv`) were checked with TLC on
small instances before they were proved.

Worth proving next: `ReadsAreFresh` under the premise `Whole` (it holds on the instances,
and needs that an acknowledged heartbeat precedes the election of a later leader),
`AppliedExactlyOnce` for commands that write one record, `LevelsDisjoint`.

## Not modelled

* Byte-level encodings (`src/raft/wire.cc`, `src/net/`, `src/common/`), checksums and
  table layout: pure serialisation. Torn records are modelled where recovery meets them.
* Lexer and parser of the SQL layer, the command line, configuration: text processing.
* Thread scheduling below the mutexes, memory order, memory exhaustion.
* A resolver that goes on after its client gave up is covered by the calls that stay
  executable in `Percolator`; the handler itself is not kept.
* The outboxes of a node, the tick and sender threads and TCP: a message is delivered or
  lost. Rebalancing does not exist in the code; a split is ordered by a client.
* The cached leader of the key-value client: an attempt goes to any node, which is all
  that a stale cache can lead to.
