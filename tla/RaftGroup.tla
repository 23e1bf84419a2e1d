----------------------------- MODULE RaftGroup -----------------------------
(***************************************************************************)
(* One replica of one range (src/server/raft_group.cc): the host that      *)
(* writes what the Raft core decides to files (src/raft/raft_storage.cc),  *)
(* applies committed entries to the storage engine on a thread of its own, *)
(* answers proposals, cuts and restores snapshots, and restarts.           *)
(*                                                                         *)
(* The rest of the cluster and the Raft core are the environment, with     *)
(* what the module Raft establishes about them: there is one sequence of   *)
(* chosen commands, an entry that is the chosen one has chosen entries     *)
(* below it, and only chosen entries are committed.  An entry is its index *)
(* and whether it is the chosen one.  The storage engine is KvStore: every *)
(* Put and Delete is atomic and durable.                                   *)
(*                                                                         *)
(* The range holds one plain key and the lock, write and data record of    *)
(* one transaction on one other key.  A crash may come before every write  *)
(* to a file or to the engine, and in the middle of an append.             *)
(***************************************************************************)
EXTENDS Naturals, FiniteSets, FiniteSetsExt, Sequences, SequencesExt

CONSTANTS
    Logs,              \* the sequences of commands that may be chosen
    Proposer,          \* the threads in ProposeAndWait
    Nobody,            \* no thread
    SnapshotInterval,  \* options_.snapshot_interval_entries
    MaxCrashes,        \* bound: the crashes of a behaviour
    MaxFaults,         \* bound: the failed writes of a behaviour
    MaxHard,           \* bound: the changes of term and vote
    LateSnapshots      \* may a snapshot arrive that the log already covers?

Command == {"noop", "put", "delete", "prewrite", "commit", "rollback"}

ASSUME LogsAssumption == \A log \in Logs : log \in Seq(Command)
ASSUME NobodyAssumption == Nobody \notin Proposer
ASSUME IntervalAssumption == SnapshotInterval \in Nat

VARIABLES
    chosen,      \* the commands the cluster chooses, by index
    file,        \* disk: the files "snap", "log" and "state"
    db,          \* disk: the records of the range and the applied marker
    phase,       \* "down", "starting" (Init restores a snapshot) or "up"
    core,        \* raft_: base_, log_, commit_ and the hard state
    entries,     \* raft_storage_->entries_
    logOpen,     \* raft_storage_->log_fd_ >= 0
    drain,       \* what the holder of raft_mutex_ has yet to write
    snapQueue,   \* snapshot_queue_
    applyQueue,  \* apply_queue_
    apply,       \* the apply thread
    applied,     \* applied_index_
    since,       \* applied_since_snapshot_
    proposals,   \* proposals_, by index
    waiter,      \* the threads in ProposeAndWait
    known,       \* history: the highest commit index there was, and the newest
                 \* entry whose writes began
    sent,        \* history: the log and the hard state last acted upon
    done         \* history: how often each bounded thing happened

disk == <<file, db>>
queues == <<snapQueue, applyQueue>>
answers == <<proposals, waiter>>
vars == <<chosen, disk, phase, core, entries, logOpen, drain, queues, apply,
          applied, since, answers, known, sent, done>>

Index == 1..Len(chosen)
Entry == [index : Index, ok : BOOLEAN]

-----------------------------------------------------------------------------
(* The state machine.  The plain key holds the index of the command that   *)
(* put it, the other records 1 when present; a write record is 2 when it   *)
(* is a rollback marker; 0 is absent.                                      *)

Owned == {"raw", "lock", "write", "data"}
OwnedOrder == <<"raw", "lock", "write", "data">>   \* of ForEachOwnedPair
Set(record, value) == [record |-> record, value |-> value]
Marker(index) == <<Set("applied", index)>>
Written(d, w) == [d EXCEPT ![w.record] = w.value]
Empty == [record \in Owned \cup {"applied"} |-> 0]

ApplyPrewrite(d) ==
    IF d.write = 0 /\ d.lock = 0 THEN <<Set("lock", 1), Set("data", 1)>> ELSE <<>>

ApplyCommit(d) ==
    IF d.lock = 1 THEN <<Set("write", 1), Set("lock", 0)>> ELSE <<>>

ApplyRollback(d) ==
    IF d.write = 1 THEN <<>>
    ELSE (IF d.lock = 1 THEN <<Set("lock", 0), Set("data", 0)>> ELSE <<>>)
         \o (IF d.write = 2 THEN <<>> ELSE <<Set("write", 2)>>)

\* The writes that applying entry i makes to the records d.
ApplyCommand(d, i) ==
    CASE chosen[i] = "put" -> <<Set("raw", i)>>
      [] chosen[i] = "delete" -> <<Set("raw", 0)>>
      [] chosen[i] = "prewrite" -> ApplyPrewrite(d)
      [] chosen[i] = "commit" -> ApplyCommit(d)
      [] chosen[i] = "rollback" -> ApplyRollback(d)
      [] OTHER -> <<>>

\* Mutant: the marker before the command.
ApplyEntryMarkerFirst(d, i) == Marker(i) \o ApplyCommand(d, i)

ApplyEntry(d, i) == ApplyCommand(d, i) \o Marker(i)

SerializeStateMachine(d) == [record \in Owned |-> d[record]]

\* Wipe the range, insert the snapshot, then the marker.
ApplySnapshot(d, s) ==
    LET Held(r) == d[r] # 0
        Present(r) == s.data[r] # 0
        Delete(r) == Set(r, 0)
        Insert(r) == Set(r, s.data[r])
        Each(Op(_), order) == [i \in DOMAIN order |-> Op(order[i])]
    IN  Each(Delete, SelectSeq(OwnedOrder, Held))
        \o Each(Insert, SelectSeq(OwnedOrder, Present))
        \o Marker(s.index)

\* The state of a replica that applied the first n commands and never failed.
StateAt(n) ==
    LET State[i \in 0..n] ==
          IF i = 0 THEN Empty
          ELSE FoldLeft(Written, State[i-1], ApplyEntry(State[i-1], i))
    IN  State[n]

NoSnapshot == [index |-> 0, data |-> SerializeStateMachine(Empty)]
SnapshotAt(n) == [index |-> n, data |-> SerializeStateMachine(StateAt(n))]

-----------------------------------------------------------------------------
(* RaftStorage. *)

Above(log, n) == SelectSeq(log, LAMBDA e : e.index > n)
Below(log, n) == SelectSeq(log, LAMBDA e : e.index < n)

\* The records of the log that Load keeps: the ones that follow the snapshot
\* without a gap.
Load(f) ==
    LET Keep(kept, e) ==
          IF ~kept.gap /\ e.index = f.snap.index + Len(kept.log) + 1
          THEN [kept EXCEPT !.log = Append(@, e)]
          ELSE [kept EXCEPT !.gap = @ \/ e.index > f.snap.index + Len(kept.log)]
    IN  FoldLeft(Keep, [log |-> <<>>, gap |-> FALSE], f.log).log

\* Mutant: the log is rewritten before the snapshot is saved.
SaveSnapshotLogFirst(s, dropAll) ==
    <<[op |-> "rewrite", log |-> IF dropAll THEN <<>> ELSE Above(entries, s.index)],
      [op |-> "snap", snap |-> s, dropAll |-> dropAll]>>

SaveSnapshot(s, dropAll) ==
    <<[op |-> "snap", snap |-> s, dropAll |-> dropAll],
      [op |-> "rewrite", log |-> IF dropAll THEN <<>> ELSE Above(entries, s.index)]>>

TruncateFrom(n) == <<[op |-> "rewrite", log |-> Below(entries, n)]>>
AppendLog(new) == IF new = <<>> THEN <<>> ELSE <<[op |-> "append", new |-> new]>>
SaveHardState(hard) == <<[op |-> "state", hard |-> hard]>>

\* The files and entries_ after one write.
FileAfter(w) ==
    CASE w.op = "snap" -> [file EXCEPT !.snap = w.snap]
      [] w.op = "rewrite" -> [file EXCEPT !.log = w.log]
      [] w.op = "append" -> [file EXCEPT !.log = @ \o w.new]
      [] w.op = "state" -> [file EXCEPT !.hard = w.hard]

EntriesAfter(w) ==
    CASE w.op = "snap" -> IF w.dropAll THEN <<>> ELSE Above(entries, w.snap.index)
      [] w.op = "rewrite" -> w.log
      [] w.op = "append" -> entries \o w.new
      [] w.op = "state" -> entries

-----------------------------------------------------------------------------
(* The core and DrainReady. *)

NoDrain == [todo |-> <<>>, snaps |-> <<>>, committed |-> <<>>, compacting |-> FALSE]
Locked == drain.todo # <<>>
Ready == phase = "up" /\ ~Locked
LastIndex == core.snap.index + Len(core.log)
WellFormed(log) ==
    \A i \in DOMAIN log : log[i].ok => \A j \in 1..i : log[j].ok

\* Persist the Ready of the core's step, if it has anything to persist; the
\* messages and the queues come after it.
DrainReady(c, todo, snaps, committed) ==
    /\ core' = c
    /\ known' = [known EXCEPT !.commit = Max({@, c.commit})]
    /\ IF todo = <<>>
       THEN /\ snapQueue' = snapQueue \o snaps
            /\ applyQueue' = applyQueue \o committed
            /\ sent' = [log |-> c.log, hard |-> c.hard]
            /\ UNCHANGED drain
       ELSE /\ drain' = [todo |-> todo, snaps |-> snaps, committed |-> committed,
                         compacting |-> FALSE]
            /\ UNCHANGED <<queues, sent>>

\* Entries a leader sent or this leader made replace the log from index
\* "from" on, the commit index moves, the term or the vote changes.
StepMessage ==
    /\ Ready
    /\ \E from \in core.commit + 1 .. LastIndex + 1 :
       \E flags \in SeqOf(BOOLEAN, 2), bump \in {0, 1} :
        LET new == [i \in DOMAIN flags |-> [index |-> from + i - 1, ok |-> flags[i]]]
            conflict == from <= LastIndex
            log == Below(core.log, from) \o new
        IN  /\ from + Len(flags) - 1 <= Len(chosen)
            /\ conflict => /\ from > known.commit
                           /\ flags # <<>>
                           /\ flags[1] # core.log[from - core.snap.index].ok
            /\ WellFormed(log)
            /\ core.hard + bump <= MaxHard
            /\ \E commit \in core.commit .. core.snap.index + Len(log) :
                /\ commit > core.commit => log[commit - core.snap.index].ok
                /\ commit > core.commit \/ flags # <<>> \/ bump = 1
                /\ DrainReady(
                     [core EXCEPT !.log = log, !.commit = commit, !.hard = @ + bump],
                     (IF conflict THEN TruncateFrom(from) ELSE <<>>)
                       \o AppendLog(new)
                       \o (IF bump = 1 THEN SaveHardState(core.hard + 1) ELSE <<>>),
                     <<>>,
                     [i \in 1 .. commit - core.commit |-> core.commit + i])
    /\ UNCHANGED <<chosen, disk, phase, entries, logOpen, apply, applied,
                   since, answers, done>>

\* The leader sends a snapshot of the first n commands.
InstallSnapshot ==
    /\ Ready
    /\ \E n \in core.commit + 1 .. Len(chosen) :
        /\ LateSnapshots \/ [index |-> n, ok |-> TRUE] \notin ToSet(core.log)
        /\ DrainReady(
             [core EXCEPT !.snap = SnapshotAt(n), !.log = <<>>, !.commit = n],
             SaveSnapshot(SnapshotAt(n), TRUE), <<SnapshotAt(n)>>, <<>>)
    /\ UNCHANGED <<chosen, disk, phase, entries, logOpen, apply, applied,
                   since, answers, done>>

\* One write of Persist or SaveSnapshot; after the last one of Persist the
\* messages are sent and the apply thread gets its work.
Persist ==
    /\ phase = "up" /\ Locked
    /\ LET w == Head(drain.todo)
           last == Len(drain.todo) = 1
       IN  /\ w.op = "append" => logOpen
           /\ file' = FileAfter(w)
           /\ entries' = EntriesAfter(w)
           /\ logOpen' = (logOpen \/ w.op = "rewrite")
           /\ drain' = IF last THEN NoDrain ELSE [drain EXCEPT !.todo = Tail(@)]
           /\ IF last /\ drain.compacting
              THEN since' = 0 /\ apply' = [apply EXCEPT !.pc = "wait"]
              ELSE UNCHANGED <<since, apply>>
           /\ IF last /\ ~drain.compacting
              THEN /\ snapQueue' = snapQueue \o drain.snaps
                   /\ applyQueue' = applyQueue \o drain.committed
                   /\ sent' = [log |-> core.log, hard |-> core.hard]
              ELSE UNCHANGED <<queues, sent>>
    /\ UNCHANGED <<chosen, known, db, phase, core, applied, answers, done>>

-----------------------------------------------------------------------------
(* ProposeAndWait. *)

Idle == [state |-> "idle", index |-> 0, ok |-> FALSE]

\* The entry of a new proposal turns out to be the chosen one of its index,
\* or not.
ProposeAndWait(p) ==
    /\ Ready /\ waiter[p].state = "idle"
    /\ LastIndex < Len(chosen)
    /\ \E ok \in BOOLEAN :
        LET e == [index |-> LastIndex + 1, ok |-> ok]
        IN  /\ WellFormed(Append(core.log, e))
            /\ \A q \in Proposer : waiter[q].index = e.index => ~(waiter[q].ok /\ ok)
            /\ proposals' = [proposals EXCEPT ![e.index] = p]
            /\ waiter' = [waiter EXCEPT ![p] = [state |-> "waiting", index |-> e.index,
                                                ok |-> ok]]
            /\ DrainReady([core EXCEPT !.log = Append(@, e)], AppendLog(<<e>>), <<>>, <<>>)
    /\ UNCHANGED <<chosen, disk, phase, entries, logOpen, apply, applied,
                   since, done>>

\* The wait ends at its deadline and takes whatever waits under its index
\* out of the table.
ProposalTimeout(p) ==
    /\ Ready /\ waiter[p].state = "waiting"
    /\ waiter' = [waiter EXCEPT ![p].state = "timeout"]
    /\ proposals' = [proposals EXCEPT ![waiter[p].index] = Nobody]
    /\ UNCHANGED <<chosen, known, disk, phase, core, entries, logOpen, drain,
                   queues, apply, applied, since, sent, done>>

-----------------------------------------------------------------------------
(* ApplyLoop. *)

NoItem == [snap |-> FALSE, index |-> 0]
Waiting == [pc |-> "wait", snaps |-> <<>>, entries |-> <<>>, item |-> NoItem,
            writes |-> <<>>, any |-> FALSE, cut |-> NoSnapshot]

\* Mutant: a snapshot alone does not wake the thread.
ApplySwapOnEntries ==
    /\ phase = "up" /\ apply.pc = "wait"
    /\ applyQueue # <<>>
    /\ apply' = [Waiting EXCEPT !.pc = "loop", !.snaps = snapQueue,
                                !.entries = applyQueue]
    /\ snapQueue' = <<>> /\ applyQueue' = <<>>
    /\ UNCHANGED <<chosen, known, disk, phase, core, entries, logOpen, drain,
                   applied, since, answers, sent, done>>

\* Take both queues.
ApplySwap ==
    /\ phase = "up" /\ apply.pc = "wait"
    /\ snapQueue # <<>> \/ applyQueue # <<>>
    /\ apply' = [Waiting EXCEPT !.pc = "loop", !.snaps = snapQueue,
                                !.entries = applyQueue]
    /\ snapQueue' = <<>> /\ applyQueue' = <<>>
    /\ UNCHANGED <<chosen, known, disk, phase, core, entries, logOpen, drain,
                   applied, since, answers, sent, done>>

\* Snapshots first, then the entries that are not applied yet.
BeginNext ==
    IF apply.snaps # <<>>
    THEN [apply EXCEPT !.pc = "write", !.snaps = Tail(@),
                       !.item = [snap |-> TRUE, index |-> Head(apply.snaps).index],
                       !.writes = ApplySnapshot(db, Head(apply.snaps))]
    ELSE IF Head(apply.entries) <= applied
    THEN [apply EXCEPT !.entries = Tail(@)]
    ELSE [apply EXCEPT !.pc = "write", !.entries = Tail(@),
                       !.item = [snap |-> FALSE, index |-> Head(apply.entries)],
                       !.writes = ApplyEntry(db, Head(apply.entries))]

ApplyNext ==
    /\ phase = "up" /\ apply.pc = "loop"
    /\ apply.snaps # <<>> \/ apply.entries # <<>>
    /\ apply' = BeginNext
    /\ known' = [known EXCEPT !.begun = Max({@, apply'.item.index})]
    /\ UNCHANGED <<chosen, disk, phase, core, entries, logOpen, drain, queues,
                   applied, since, answers, sent, done>>

\* One write to the engine.  After the last one the applied index moves, in
\* Init before the thread starts.
ApplyWrite ==
    /\ apply.pc = "write"
    /\ db' = Written(db, Head(apply.writes))
    /\ IF Len(apply.writes) > 1
       THEN /\ apply' = [apply EXCEPT !.writes = Tail(@)]
            /\ UNCHANGED <<phase, applied, since>>
       ELSE /\ applied' = IF apply.item.snap /\ apply.item.index < applied
                          THEN applied ELSE apply.item.index
            /\ since' = IF apply.item.snap THEN 0 ELSE since + 1
            /\ phase' = "up"
            /\ apply' = CASE phase = "starting" -> Waiting
                          [] apply.item.snap -> [apply EXCEPT !.writes = <<>>, !.pc = "loop"]
                          [] OTHER -> [apply EXCEPT !.writes = <<>>, !.pc = "notify",
                                                    !.any = TRUE]
    /\ UNCHANGED <<chosen, known, file, core, entries, logOpen, drain, queues,
                   answers, sent, done>>

\* The engine fails under a command: the thread ends.  (Under a snapshot the
\* process aborts, which is a crash.)
ApplyFails ==
    /\ phase = "up" /\ apply.pc = "write" /\ ~apply.item.snap
    /\ done.faults < MaxFaults
    /\ done' = [done EXCEPT !.faults = @ + 1]
    /\ apply' = [apply EXCEPT !.pc = "failed"]
    /\ UNCHANGED <<chosen, known, disk, phase, core, entries, logOpen, drain,
                   queues, applied, since, answers, sent>>

\* Mutant: whoever waits at the index is told the command was applied.
ResultOfAny(p) == "ok"

\* The entry that was applied is the one the proposal made, or another one
\* took its index: the terms tell.
ResultOf(p) == IF waiter[p].ok THEN "ok" ELSE "superseded"

AnswerProposal ==
    /\ Ready /\ apply.pc = "notify"
    /\ LET p == proposals[apply.item.index]
       IN  IF p = Nobody THEN UNCHANGED answers
           ELSE /\ waiter' = [waiter EXCEPT ![p].state = ResultOf(p)]
                /\ proposals' = [proposals EXCEPT ![apply.item.index] = Nobody]
    /\ apply' = [apply EXCEPT !.pc = "loop"]
    /\ UNCHANGED <<chosen, known, disk, phase, core, entries, logOpen, drain,
                   queues, applied, since, sent, done>>

\* The batch is done: serialise the state machine when a snapshot is due.
ApplyDone ==
    /\ phase = "up" /\ apply.pc = "loop"
    /\ apply.snaps = <<>> /\ apply.entries = <<>>
    /\ apply' = IF apply.any /\ SnapshotInterval # 0 /\ since >= SnapshotInterval
                THEN [Waiting EXCEPT !.pc = "compact",
                         !.cut = [index |-> applied, data |-> SerializeStateMachine(db)]]
                ELSE Waiting
    /\ UNCHANGED <<chosen, known, disk, phase, core, entries, logOpen, drain,
                   queues, applied, since, answers, sent, done>>

\* Mutant: the whole committed log is taken to be in the snapshot.
CompactToCommit ==
    IF apply.cut.index <= core.snap.index THEN core
    ELSE [core EXCEPT !.snap = [apply.cut EXCEPT !.index = core.commit],
                      !.log = Above(@, core.commit)]

CompactTo ==
    IF apply.cut.index <= core.snap.index THEN core
    ELSE [core EXCEPT !.snap = apply.cut, !.log = Above(@, apply.cut.index)]

MaybeSnapshot ==
    /\ Ready /\ apply.pc = "compact"
    /\ IF apply.cut.index > core.commit
       THEN /\ apply' = Waiting
            /\ UNCHANGED <<core, drain>>
       ELSE /\ core' = CompactTo
            /\ drain' = [NoDrain EXCEPT !.todo = SaveSnapshot(core'.snap, FALSE),
                                        !.compacting = TRUE]
            /\ apply' = [Waiting EXCEPT !.pc = "saving"]
    /\ UNCHANGED <<chosen, known, disk, phase, entries, logOpen, queues,
                   applied, since, answers, sent, done>>

\* A write of SaveSnapshot fails and MaybeSnapshot gives up; RewriteLog has
\* closed the log by then.
SaveSnapshotFails ==
    /\ phase = "up" /\ Locked /\ drain.compacting
    /\ done.faults < MaxFaults
    /\ done' = [done EXCEPT !.faults = @ + 1]
    /\ logOpen' = (logOpen /\ Head(drain.todo).op # "rewrite")
    /\ drain' = NoDrain
    /\ apply' = Waiting
    /\ UNCHANGED <<chosen, known, disk, phase, core, entries, queues, applied,
                   since, answers, sent>>

-----------------------------------------------------------------------------
(* Crashes and restarts. *)

NoCore == [snap |-> NoSnapshot, log |-> <<>>, commit |-> 0, hard |-> 0]

\* The process ends, also by abort() when Persist or ApplySnapshot fails.  Of
\* an append some of the records may be on disk.
Crash ==
    /\ phase # "down"
    /\ done.crashes < MaxCrashes
    /\ done' = [done EXCEPT !.crashes = @ + 1]
    /\ phase' = "down"
    /\ IF Locked /\ Head(drain.todo).op = "append" /\ logOpen
       THEN \E n \in 0 .. Len(Head(drain.todo).new) :
              file' = [file EXCEPT !.log = @ \o SubSeq(Head(drain.todo).new, 1, n)]
       ELSE UNCHANGED file
    /\ core' = NoCore /\ entries' = <<>> /\ logOpen' = TRUE /\ drain' = NoDrain
    /\ snapQueue' = <<>> /\ applyQueue' = <<>>
    /\ apply' = Waiting /\ applied' = 0 /\ since' = 0
    /\ proposals' = [i \in Index |-> Nobody]
    /\ waiter' = [p \in Proposer |-> IF waiter[p].state = "waiting"
                                     THEN [waiter[p] EXCEPT !.state = "timeout"]
                                     ELSE waiter[p]]
    /\ UNCHANGED <<chosen, known, db, sent>>

\* Init: read the marker and the files; restore the snapshot when the engine
\* is behind it.
Start ==
    /\ phase = "down"
    /\ entries' = Load(file)
    /\ core' = [snap |-> file.snap, log |-> Load(file), commit |-> file.snap.index,
                hard |-> file.hard]
    /\ sent' = [sent EXCEPT !.log = Load(file)]
    /\ applied' = db.applied
    /\ IF file.snap.index > db.applied
       THEN /\ phase' = "starting"
            /\ apply' = [Waiting EXCEPT !.pc = "write",
                             !.item = [snap |-> TRUE, index |-> file.snap.index],
                             !.writes = ApplySnapshot(db, file.snap)]
       ELSE phase' = "up" /\ UNCHANGED apply
    /\ UNCHANGED <<chosen, known, disk, logOpen, drain, queues, since, answers,
                   done>>

Init ==
    /\ chosen \in Logs
    /\ file = [snap |-> NoSnapshot, log |-> <<>>, hard |-> 0]
    /\ db = Empty
    /\ phase = "down"
    /\ core = NoCore /\ entries = <<>> /\ logOpen = TRUE /\ drain = NoDrain
    /\ snapQueue = <<>> /\ applyQueue = <<>>
    /\ apply = Waiting /\ applied = 0 /\ since = 0
    /\ proposals = [i \in Index |-> Nobody]
    /\ waiter = [p \in Proposer |-> Idle]
    /\ known = [commit |-> 0, begun |-> 0]
    /\ sent = [log |-> <<>>, hard |-> 0]
    /\ done = [crashes |-> 0, faults |-> 0]

ApplyLoop ==
    \/ ApplySwap
    \/ ApplyNext
    \/ ApplyWrite
    \/ AnswerProposal
    \/ ApplyDone
    \/ MaybeSnapshot

Next ==
    \/ StepMessage
    \/ InstallSnapshot
    \/ Persist
    \/ \E p \in Proposer : ProposeAndWait(p) \/ ProposalTimeout(p)
    \/ ApplyLoop
    \/ ApplyFails
    \/ SaveSnapshotFails
    \/ Crash
    \/ Start

Spec == Init /\ [][Next]_vars

\* The threads run on, and the mutex of the core is not withheld for ever
\* from the apply thread.
FairSpec == Spec /\ WF_vars(Start) /\ WF_vars(Persist) /\ SF_vars(ApplyLoop)

-----------------------------------------------------------------------------
Snapshot == [index : 0..Len(chosen), data : [Owned -> 0..Len(chosen)]]
IsLog(log) == \A i \in DOMAIN log : log[i] \in Entry

\* The types of the state; the core, Load and the engine stay within what the
\* cluster has chosen.
TypeOK ==
    /\ chosen \in Logs
    /\ file.snap \in Snapshot /\ IsLog(file.log) /\ file.hard \in 0..MaxHard
    /\ db \in [Owned \cup {"applied"} -> 0..Len(chosen)]
    /\ phase \in {"down", "starting", "up"}
    /\ core.snap \in Snapshot /\ IsLog(core.log)
    /\ core.commit \in core.snap.index .. LastIndex
    /\ core.hard \in 0..MaxHard
    /\ \A i \in DOMAIN core.log : core.log[i].index = core.snap.index + i
    /\ IsLog(entries)
    /\ logOpen \in BOOLEAN
    /\ drain.compacting \in BOOLEAN
    /\ \A i \in DOMAIN snapQueue : snapQueue[i] \in Snapshot
    /\ \A i \in DOMAIN applyQueue : applyQueue[i] \in Index
    /\ apply.pc \in {"wait", "loop", "write", "notify", "compact", "saving", "failed"}
    /\ applied \in 0..Len(chosen) /\ since \in Nat
    /\ proposals \in [Index -> Proposer \cup {Nobody}]
    /\ \A p \in Proposer :
        waiter[p].state \in {"idle", "waiting", "ok", "superseded", "timeout"}
    /\ done.crashes \in 0..MaxCrashes /\ done.faults \in 0..MaxFaults

\* What readers of the range can find: a data record counts when a lock or a
\* committed write record leads to it.
Visible(d) ==
    [raw |-> d.raw, lock |-> d.lock, write |-> d.write,
     value |-> IF d.lock = 1 \/ d.write = 1 THEN d.data ELSE 0]

\* Between two entries the engine holds exactly the effect of the first
\* "applied" commands, each once and in order, whatever crashes, replays,
\* restored snapshots and skipped entries led there.  (After a crash in the
\* middle of an entry this holds again once the entry has been replayed.)
AppliedExactlyOnce ==
    phase = "up" /\ apply.writes = <<>> =>
        /\ db.applied = applied
        /\ applied >= known.begun => Visible(db) = Visible(StateAt(applied))

\* The state is well formed, and a snapshot, on disk or in the core, holds the
\* effect of exactly the commands its index covers.
SnapshotsHoldTheirPrefix ==
    /\ TypeOK
    /\ \A s \in {file.snap, core.snap} :
          Visible(s.data) = Visible(StateAt(s.index))

\* Persist before send: the term and vote this replica acted upon, and the
\* chosen entries it acknowledged and has not replaced since, are what a
\* restart would load, at every moment of Persist and SaveSnapshot.
AcknowledgedSurvives ==
    /\ sent.hard <= file.hard
    /\ phase = "up" =>
        \A e \in ToSet(sent.log) :
            e.ok /\ (e.index <= core.snap.index \/ e \in ToSet(core.log)) =>
                e.index <= file.snap.index \/ e \in ToSet(Load(file))

\* A proposal answered OK was chosen and is applied durably, also after any
\* crash that follows; one answered "superseded" never takes effect.
AnswersAreTrue ==
    \A p \in Proposer :
        /\ waiter[p].state = "ok" => waiter[p].ok /\ waiter[p].index <= db.applied
        /\ waiter[p].state = "superseded" => ~waiter[p].ok

Longest == Max({Len(log) : log \in Logs})

\* What the core commits is applied in the end, from the queue or with a
\* snapshot, unless the process ends, the engine fails or the log is closed.
CommittedIsApplied ==
    \A i \in 1..Longest :
        phase = "up" /\ core.commit >= i ~>
            applied >= i \/ phase = "down" \/ apply.pc = "failed" \/ ~logOpen
=============================================================================
