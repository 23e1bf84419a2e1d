-------------------------------- MODULE Lsm --------------------------------
(***************************************************************************)
(* The storage engine of FlotillaDB (src/storage): a log-structured merge  *)
(* tree with a write-ahead log per memtable, sorted tables in levels, a    *)
(* manifest that names the live tables, one background thread that flushes *)
(* and compacts, readers that search without the mutex, and recovery.      *)
(*                                                                         *)
(* Data: a value is the number of the write that put it.  Keys are numbers *)
(* in key order.  A memtable is what MemTable::Get can find in it, one     *)
(* entry per key; a table is a set of entries, one per key.  Sizes are     *)
(* left out: a memtable may be full after any write, an output file after  *)
(* any number of entries, a level over its target whenever it has a file.  *)
(*                                                                         *)
(* A crash stands for the end of the process at any point, a clean         *)
(* shutdown included.  What was written to a file before it is kept.       *)
(***************************************************************************)
EXTENDS Naturals, FiniteSets, Sequences, SequencesExt

CONSTANTS
    Key,
    NumLevels,           \* kNumLevels
    L0Trigger,           \* options_.l0_compaction_trigger
    OutputSizes,         \* how many entries may fill an output file
    MaxWrites,           \* bound: the writes of a behaviour, failed ones included
    MaxCrashes,          \* bound: the crashes of a behaviour
    MaxFaults,           \* bound: the failed system calls of a behaviour
    MaxReads,            \* bound: the reads of a behaviour
    MaxEvents,           \* bound: all of these together, a write that takes no effect
                         \* not counting, a read or a fault counting twice
    CrashAfterTorn       \* may the process stop while a log has a torn record?

ASSUME KeyAssumption == Key \subseteq Nat \ {0} /\ IsFiniteSet(Key)
ASSUME LevelAssumption == NumLevels \in Nat \ {0, 1} /\ L0Trigger \in Nat \ {0}
ASSUME SizeAssumption == OutputSizes \subseteq Nat \ {0} /\ OutputSizes # {}

VARIABLES
    manifest,      \* disk: MANIFEST
    ssts,          \* disk: the .sst files
    wals,          \* disk: the .wal files, number -> records
    phase,         \* "down", the steps of Recover, or "up"
    nextFile,      \* next_file_
    lastSeq,       \* last_seq_
    memtables,     \* every memtable of this run, by the number of its WAL
    walNumber,     \* wal_number_, the number of mem_ and of its WAL
    imm,           \* imm_, as WAL numbers, oldest first
    version,       \* version_, as a set of tables
    bgError,       \* bg_error_
    bg,            \* the job of the background thread
    reader,        \* one thread in Get or Checkpoint
    done,          \* history: how often each bounded thing happened; writes are the calls
                   \* that returned OK, late those that returned an error after
                   \* they took effect, failed those that returned one before
    store,         \* history: the value every key should have
    doubt          \* history: the writes that failed since the last restart

disk == <<manifest, ssts, wals>>
memory == <<nextFile, lastSeq, memtables, walNumber, imm, version, bgError>>
vars == <<disk, phase, memory, bg, reader, done, store, doubt>>

-----------------------------------------------------------------------------
(* Entries, memtables and tables. *)

NotFound == 0
Value == 0..MaxWrites
Op == {"put", "delete"}
Entry == [key : Key, seq : 1..MaxWrites, op : Op, value : Value]
Torn == [torn |-> TRUE]
NoEntry == [seq |-> 0, op |-> "delete", value |-> NotFound]

Has(entries, k) == \E e \in entries : e.key = k
EntryOf(entries, k) == CHOOSE e \in entries : e.key = k

\* Mutant: of two entries with the same number the first stays in front.
AddBehindEqual(mem, e) ==
    IF \E f \in mem : f.key = e.key /\ f.seq >= e.seq
    THEN mem
    ELSE {f \in mem : f.key # e.key} \cup {e}

(* MemTable::Add puts an entry before those of the same key with a lower   *)
(* or an equal sequence number, and MemTable::Get returns the first.       *)
Add(mem, e) ==
    IF \E f \in mem : f.key = e.key /\ f.seq > e.seq
    THEN mem
    ELSE {f \in mem : f.key # e.key} \cup {e}

Smallest(t) == Min({e.key : e \in t.entries})
Largest(t) == Max({e.key : e \in t.entries})
Covers(t, k) == Smallest(t) <= k /\ k <= Largest(t)
Overlap(t, u) == Largest(u) >= Smallest(t) /\ Smallest(u) <= Largest(t)
OfLevel(tables, level) == {t \in tables : t.level = level}

Find(entries, k) == IF Has(entries, k) THEN EntryOf(entries, k) ELSE NoEntry

\* Mutant: L0 is searched from the oldest table.
SearchL0OldestFirst(tables, k) ==
    LET hits == {t \in OfLevel(tables, 0) : Has(t.entries, k)}
    IN  IF hits = {} THEN NoEntry
        ELSE EntryOf((CHOOSE t \in hits : \A u \in hits : t.number <= u.number).entries, k)

(* L0 is sorted newest table first. *)
SearchL0(tables, k) ==
    LET hits == {t \in OfLevel(tables, 0) : Has(t.entries, k)}
    IN  IF hits = {} THEN NoEntry
        ELSE EntryOf((CHOOSE t \in hits : \A u \in hits : t.number >= u.number).entries, k)

(* A deeper level is sorted by smallest key, and the only table that Get   *)
(* looks into is the first whose largest key is not below k.               *)
SearchLevel(tables, level, k) ==
    LET ahead == {t \in OfLevel(tables, level) : Largest(t) >= k}
    IN  IF ahead = {} THEN NoEntry
        ELSE Find((CHOOSE t \in ahead : \A u \in ahead : Smallest(t) <= Smallest(u)).entries, k)

(* The first source that has the key decides: the memtable, the immutable  *)
(* ones from the newest, L0, and the deeper levels in order.               *)
GetEntry(mem, imms, tables, k) ==
    LET found == <<Find(mem, k)>>
                     \o [n \in DOMAIN imms |-> Find(Reverse(imms)[n], k)]
                     \o <<SearchL0(tables, k)>>
                     \o [level \in 1..(NumLevels - 1) |-> SearchLevel(tables, level, k)]
        hits == SelectSeq(found, LAMBDA e : e # NoEntry)
    IN  IF hits = <<>> THEN NoEntry ELSE Head(hits)

ValueOf(e) == IF e.op = "delete" THEN NotFound ELSE e.value

(* A merging iterator shows the entry with the highest sequence number of  *)
(* each key.                                                               *)
Newest(entries) ==
    {e \in entries : \A f \in entries : f.key = e.key => f.seq <= e.seq}

EntriesOf(tables) == UNION {t.entries : t \in tables}

Imms == [n \in DOMAIN imm |-> memtables[imm[n]]]

(* A new iterator merges all sources and hides the keys whose newest entry *)
(* is a tombstone.                                                         *)
NewIterator ==
    {e \in Newest(UNION ({memtables[walNumber]} \cup ToSet(Imms)) \cup EntriesOf(version)) :
        e.op = "put"}

(* The value of k to a caller of this run. *)
Lookup(k) == ValueOf(GetEntry(memtables[walNumber], Imms, version, k))

-----------------------------------------------------------------------------
(* Recovery reads the disk. *)

(* RecoverWal stops at the first record that is not whole. *)
RecoverWal(records) ==
    LET n == SelectInSeq(records, LAMBDA r : r = Torn)
    IN  IF n = 0 THEN records ELSE SubSeq(records, 1, n - 1)

(* The logs are replayed in the order of their numbers. *)
Replayed ==
    MapThenFoldSet(LAMBDA records, mem : FoldLeft(Add, mem, records), {},
                   LAMBDA n : RecoverWal(wals[n]), LAMBDA S : Max(S), DOMAIN wals)

ReplayedSeqs ==
    UNION {{r.seq : r \in ToSet(RecoverWal(wals[n]))} : n \in DOMAIN wals}

(* The value of k to a caller after DB::Open would succeed now. *)
DiskLookup(k) == ValueOf(GetEntry(Replayed, <<>>, manifest.tables, k))

-----------------------------------------------------------------------------
(* Building tables. *)

\* Mutant: nothing below is ever looked at.
KeyMayExistBelowNever(tables, level, k) == FALSE

KeyMayExistBelow(tables, level, k) ==
    \E t \in tables : t.level > level /\ Covers(t, k)

DropsTombstone(e, level) ==
    /\ e.op = "delete"
    /\ level > 0
    /\ ~ KeyMayExistBelow(version, level, e.key)

(* BuildTableFromIterator: the newest entry of each key, without the       *)
(* tombstones nothing below needs, in files of `size' entries.             *)
Build(entries, level, size) ==
    LET kept == {e \in Newest(entries) : ~ DropsTombstone(e, level)}
        File(e) == Cardinality({f \in kept : f.key < e.key}) \div size
    IN  {[number |-> nextFile + i, level |-> level, entries |-> {e \in kept : File(e) = i}] :
            i \in {File(e) : e \in kept}}

ManifestOf(tables, next) == [nextFile |-> next, lastSeq |-> lastSeq, tables |-> tables]

-----------------------------------------------------------------------------
NoJob == [pc |-> "idle"]
NoReader == [pc |-> "idle"]

Init ==
    /\ manifest = [nextFile |-> 1, lastSeq |-> 0, tables |-> {}]
    /\ ssts = {}
    /\ wals = <<>>
    /\ phase = "down"
    /\ nextFile = 1 /\ lastSeq = 0
    /\ memtables = <<>> /\ walNumber = 0 /\ imm = <<>>
    /\ version = {}
    /\ bgError = FALSE
    /\ bg = NoJob
    /\ reader = NoReader
    /\ done = [writes |-> 0, late |-> 0, failed |-> 0, crashes |-> 0, faults |-> 0, reads |-> 0]
    /\ store = [k \in Key |-> NotFound]
    /\ doubt = {}

WithinBounds(d) ==
    /\ d.writes + d.late + d.failed <= MaxWrites /\ d.crashes <= MaxCrashes
    /\ d.faults <= MaxFaults /\ d.reads <= MaxReads
    /\ d.writes + d.late + d.crashes + 2 * (d.faults + d.reads) <= MaxEvents

Count(what) ==
    /\ done' = [done EXCEPT ![what] = @ + 1]
    /\ WithinBounds(done')

(* The mutex is held from SaveManifest to the last file removed. *)
Unlocked == phase = "up" /\ bg.pc # "cleanup"

-----------------------------------------------------------------------------
(* Writes. *)

Writable == Unlocked /\ ~ bgError /\ Len(imm) < 2

Calls == done.writes + done.late + done.failed

NextEntry(k, op) == [key |-> k, seq |-> lastSeq + 1, op |-> op, value |-> Calls + 1]

Logged(r) == [wals EXCEPT ![walNumber] = Append(@, r)]

(* A read that is under way may also return what is written meanwhile. *)
Observe(e) ==
    reader' = IF reader.pc \in {"idle", "done"} THEN reader
              ELSE [reader EXCEPT !.window[e.key] = @ \cup {ValueOf(e)}]

(* The write e is in the log and in the memtable. *)
Applied(e) ==
    /\ lastSeq' = e.seq
    /\ store' = [store EXCEPT ![e.key] = ValueOf(e)]
    /\ doubt' = {d \in doubt : d.key # e.key}
    /\ Observe(e)

SwitchMemtable(mem, log) ==
    /\ wals' = log @@ (nextFile :> <<>>)
    /\ memtables' = [memtables EXCEPT ![walNumber] = mem] @@ (nextFile :> {})
    /\ imm' = Append(imm, walNumber)
    /\ walNumber' = nextFile
    /\ nextFile' = nextFile + 1

(* WriteImpl returns OK; the memtable may be full then. *)
WriteImpl(k, op) ==
    /\ Writable
    /\ Count("writes")
    /\ LET e == NextEntry(k, op)
           mem == Add(memtables[walNumber], e)
       IN  /\ Applied(e)
           /\ \/ /\ wals' = Logged(e)
                 /\ memtables' = [memtables EXCEPT ![walNumber] = mem]
                 /\ UNCHANGED <<imm, walNumber, nextFile>>
              \/ SwitchMemtable(mem, Logged(e))
    /\ UNCHANGED <<manifest, ssts, phase, version, bgError, bg>>

Fault(outcome) ==
    /\ done' = [done EXCEPT ![outcome] = @ + 1, !.faults = @ + 1]
    /\ WithinBounds(done')

(* The new WAL cannot be opened: WriteImpl returns the error of a write    *)
(* that has taken effect.                                                  *)
FailSwitch(k, op) ==
    /\ Writable
    /\ Fault("late")
    /\ LET e == NextEntry(k, op)
       IN  /\ Applied(e)
           /\ wals' = Logged(e)
           /\ memtables' = [memtables EXCEPT ![walNumber] = Add(@, e)]
    /\ nextFile' = nextFile + 1
    /\ UNCHANGED <<manifest, ssts, phase, version, bgError, bg, imm, walNumber>>

(* Append or Sync fails.  The record is in the file, or the beginning of   *)
(* it; its sequence number will be used again.                             *)
FailLog(k, op) ==
    /\ Writable
    /\ Fault("failed")
    /\ LET e == NextEntry(k, op)
       IN  /\ \/ wals' = Logged(e)
              \/ wals' = Logged(Torn)
           /\ doubt' = doubt \cup {[key |-> k, value |-> ValueOf(e)]}
    /\ UNCHANGED <<manifest, ssts, phase, memory, bg, reader, store>>

(* DB::Flush up to its wait.  It takes no notice of bg_error_ or of the    *)
(* length of imm_.                                                         *)
Flush ==
    /\ Unlocked
    /\ memtables[walNumber] # {}
    /\ SwitchMemtable(memtables[walNumber], wals)
    /\ UNCHANGED <<manifest, ssts, phase, lastSeq, version, bgError, bg, reader, done, store, doubt>>

-----------------------------------------------------------------------------
(* The background thread: pick a job and build its tables without the      *)
(* mutex, save the manifest and install the version under it, remove the   *)
(* files that are not needed any more.                                     *)

CanStart == phase = "up" /\ bg.pc = "idle" /\ ~ bgError

\* Mutant: the inputs go before the manifest is saved.
StartJobRemovingInputs(job, entries, size) ==
    LET outputs == Build(entries, job.level, size)
    IN  /\ ssts' = (ssts \ job.inputs) \cup outputs
        /\ nextFile' = nextFile + Cardinality(outputs)
        /\ bg' = job @@ [pc |-> "built", outputs |-> outputs]
        /\ UNCHANGED <<manifest, wals, phase, lastSeq, memtables, walNumber, imm, version,
                       bgError, reader, done, store, doubt>>

StartJob(job, entries, size) ==
    LET outputs == Build(entries, job.level, size)
    IN  /\ ssts' = ssts \cup outputs
        /\ nextFile' = nextFile + Cardinality(outputs)
        /\ bg' = job @@ [pc |-> "built", outputs |-> outputs]
        /\ UNCHANGED <<manifest, wals, phase, lastSeq, memtables, walNumber, imm, version,
                       bgError, reader, done, store, doubt>>

\* Mutant: the thread waits for a third memtable.
FlushOneLate ==
    /\ CanStart
    /\ Len(imm) > 2
    /\ StartJob([level |-> 0, inputs |-> {}], memtables[Head(imm)], Cardinality(Key))

FlushOne ==
    /\ CanStart
    /\ imm # <<>>
    /\ StartJob([level |-> 0, inputs |-> {}], memtables[Head(imm)], Cardinality(Key))

\* Mutant: the next level is left out.
WithoutOverlap(tables, level) == tables

WithOverlap(tables, level) ==
    LET smallest == Min({Smallest(t) : t \in tables})
        largest == Max({Largest(t) : t \in tables})
    IN  tables \cup {u \in OfLevel(version, level) :
                        Largest(u) >= smallest /\ Smallest(u) <= largest}

(* PickCompaction: all of L0, or one table of a deeper level, with the     *)
(* tables of the next level in its key range.                              *)
PickCompaction(level) ==
    IF level = 0
    THEN {t \in {OfLevel(version, 0)} : Cardinality(t) >= L0Trigger}
    ELSE {{t} : t \in {u \in OfLevel(version, level) :
                          Cardinality(OfLevel(version, 0)) < L0Trigger}}

DoCompaction(level) ==
    /\ CanStart
    /\ imm = <<>>
    /\ \E picked \in PickCompaction(level), size \in OutputSizes :
          LET inputs == WithOverlap(picked, level + 1)
          IN  StartJob([level |-> level + 1, inputs |-> inputs], EntriesOf(inputs), size)

NewVersion == (version \ bg.inputs) \cup bg.outputs

(* A memtable lives as long as the database or a reader points to it. *)
Held(queue) ==
    {walNumber} \cup ToSet(queue) \cup IF reader.pc = "reading" THEN {reader.live} ELSE {}

Install ==
    /\ phase = "up" /\ bg.pc = "built"
    /\ manifest' = ManifestOf(NewVersion, nextFile)
    /\ version' = NewVersion
    /\ imm' = IF bg.level = 0 THEN Tail(imm) ELSE imm
    /\ bg' = [bg EXCEPT !.pc = "cleanup"] @@ [wal |-> IF bg.level = 0 THEN Head(imm) ELSE 0]
    /\ memtables' = Restrict(memtables, Held(imm'))
    /\ UNCHANGED <<ssts, wals, phase, nextFile, lastSeq, walNumber, bgError, reader, done, store, doubt>>

(* The tables cannot be written, or the manifest cannot be, before or      *)
(* after its rename: the thread stops for good.                            *)
InstallFails ==
    /\ phase = "up" /\ bg.pc = "built"
    /\ Count("faults")
    /\ manifest' \in {manifest, ManifestOf(NewVersion, nextFile)}
    /\ bgError' = TRUE
    /\ bg' = NoJob
    /\ UNCHANGED <<ssts, wals, phase, nextFile, lastSeq, memtables, walNumber, imm, version,
                   reader, store, doubt>>

Cleanup ==
    /\ phase = "up" /\ bg.pc = "cleanup"
    /\ wals' = Restrict(wals, DOMAIN wals \ {bg.wal})
    /\ ssts' = ssts \ bg.inputs
    /\ bg' = NoJob
    /\ UNCHANGED <<manifest, phase, memory, reader, done, store, doubt>>

-----------------------------------------------------------------------------
(* Recovery.  Every step may be the last before a crash. *)

FileNumbers == {t.number : t \in ssts} \cup DOMAIN wals

(* Open the live tables, remove the others, replay the logs in order and   *)
(* build an L0 table of what they hold.                                    *)
RecoverLoad ==
    LET next == Max({manifest.nextFile} \cup {n + 1 : n \in FileNumbers})
        replayed == IF Replayed = {} THEN {}
                    ELSE {[number |-> next, level |-> 0, entries |-> Replayed]}
    IN  /\ phase = "down"
        /\ manifest.tables \subseteq ssts
        /\ ssts' = manifest.tables \cup replayed
        /\ version' = manifest.tables \cup replayed
        /\ nextFile' = next + Cardinality(replayed)
        /\ lastSeq' = Max({manifest.lastSeq} \cup ReplayedSeqs)
        /\ phase' = "loaded"
        /\ UNCHANGED <<manifest, wals, memtables, walNumber, imm, bgError, bg, reader, done, store, doubt>>

RecoverSave ==
    /\ phase = "loaded"
    /\ manifest' = ManifestOf(version, nextFile)
    /\ phase' = "saved"
    /\ UNCHANGED <<ssts, wals, memory, bg, reader, done, store, doubt>>

\* Mutant: the newest log goes first.
RecoverRemoveNewestFirst ==
    /\ phase = "saved" /\ DOMAIN wals # {}
    /\ wals' = Restrict(wals, DOMAIN wals \ {Max(DOMAIN wals)})
    /\ UNCHANGED <<manifest, ssts, phase, memory, bg, reader, done, store, doubt>>

(* The replayed logs go one by one, the oldest first. *)
RecoverRemove ==
    /\ phase = "saved" /\ DOMAIN wals # {}
    /\ wals' = Restrict(wals, DOMAIN wals \ {Min(DOMAIN wals)})
    /\ UNCHANGED <<manifest, ssts, phase, memory, bg, reader, done, store, doubt>>

RecoverOpen ==
    /\ phase = "saved" /\ DOMAIN wals = {}
    /\ phase' = "up"
    /\ walNumber' = nextFile
    /\ nextFile' = nextFile + 1
    /\ wals' = (nextFile :> <<>>)
    /\ memtables' = (nextFile :> {})
    /\ UNCHANGED <<manifest, ssts, lastSeq, imm, version, bgError, bg, reader, done, store, doubt>>

(* The process ends; what it held in memory is gone. *)
Crash ==
    /\ phase # "down"
    /\ CrashAfterTorn \/ \A n \in DOMAIN wals : Torn \notin Range(wals[n])
    /\ Count("crashes")
    /\ phase' = "down"
    /\ nextFile' = 1 /\ lastSeq' = 0
    /\ memtables' = <<>> /\ walNumber' = 0 /\ imm' = <<>>
    /\ version' = {}
    /\ bgError' = FALSE
    /\ bg' = NoJob
    /\ reader' = NoReader
    /\ store' = [k \in Key |-> DiskLookup(k)]
    /\ doubt' = {}
    /\ UNCHANGED disk

-----------------------------------------------------------------------------
(* Get takes its sources under the mutex and searches them without it,     *)
(* while the live memtable goes on changing.  Checkpoint flushes, waits,   *)
(* lets the mutex go, and links the tables of the version it finds then.   *)

Start(pc, keys) ==
    /\ reader.pc \in {"idle", "done"}
    /\ Count("reads")
    /\ reader' = [pc |-> pc, keys |-> keys, live |-> walNumber, imms |-> Imms,
                  tables |-> version, window |-> [k \in Key |-> {Lookup(k)}]]

Finish(tables) ==
    reader' = [pc |-> "done", window |-> reader.window,
               got |-> [k \in reader.keys |->
                          ValueOf(GetEntry(tables.mem, tables.imms, tables.version, k))]]

Get(k) ==
    /\ Unlocked
    /\ ~ bgError
    /\ Start("reading", {k})
    /\ UNCHANGED <<disk, phase, memory, bg, store, doubt>>

GetSearch ==
    /\ phase = "up" /\ reader.pc = "reading"
    /\ Finish([mem |-> memtables[reader.live], imms |-> reader.imms, version |-> reader.tables])
    /\ UNCHANGED <<disk, phase, memory, bg, done, store, doubt>>

\* Mutant: the memtable is not flushed.
CheckpointNoFlush ==
    /\ Unlocked
    /\ Start("flushing", Key)
    /\ UNCHANGED <<disk, phase, memory, bg, store, doubt>>

Checkpoint ==
    /\ Unlocked
    /\ Start("flushing", Key)
    /\ \/ /\ memtables[walNumber] = {}
          /\ UNCHANGED <<wals, memtables, imm, walNumber, nextFile>>
       \/ /\ memtables[walNumber] # {}
          /\ SwitchMemtable(memtables[walNumber], wals)
    /\ UNCHANGED <<manifest, ssts, phase, lastSeq, version, bgError, bg, store, doubt>>

CheckpointFlushed ==
    /\ Unlocked /\ reader.pc = "flushing"
    /\ imm = <<>> /\ ~ bgError
    /\ reader' = [reader EXCEPT !.pc = "flushed"]
    /\ UNCHANGED <<disk, phase, memory, bg, done, store, doubt>>

CheckpointLink ==
    /\ Unlocked /\ reader.pc = "flushed"
    /\ Finish([mem |-> {}, imms |-> <<>>, version |-> version])
    /\ UNCHANGED <<disk, phase, memory, bg, done, store, doubt>>

-----------------------------------------------------------------------------
Background ==
    \/ FlushOne
    \/ \E level \in 0..(NumLevels - 2) : DoCompaction(level)
    \/ Install
    \/ Cleanup

Recover == RecoverLoad \/ RecoverSave \/ RecoverRemove \/ RecoverOpen

Caller ==
    \/ \E k \in Key, op \in Op : WriteImpl(k, op) \/ FailSwitch(k, op) \/ FailLog(k, op)
    \/ Flush
    \/ \E k \in Key : Get(k)
    \/ GetSearch \/ Checkpoint \/ CheckpointFlushed \/ CheckpointLink

Next == Caller \/ Background \/ InstallFails \/ Recover \/ Crash

Spec == Init /\ [][Next]_vars

(* The background thread and a recovering process go on taking steps. *)
FairSpec == Spec /\ WF_vars(Background) /\ WF_vars(Recover)

-----------------------------------------------------------------------------
(* Properties. *)

Table == [number : Nat, level : 0..(NumLevels - 1), entries : SUBSET Entry]

(* Every part of the state is what its declaration says: tables are of one *)
(* of the kNumLevels levels and hold one entry per key, logs hold records. *)
TypeOK ==
    /\ phase \in {"down", "loaded", "saved", "up"}
    /\ \A t \in ssts \cup version \cup manifest.tables :
          /\ t \in Table /\ t.entries # {}
          /\ \A e, f \in t.entries : e.key = f.key => e = f
    /\ \A n \in DOMAIN wals : wals[n] \in Seq(Entry \cup {Torn})
    /\ \A n \in DOMAIN memtables : memtables[n] \subseteq Entry
    /\ nextFile \in Nat /\ lastSeq \in 0..MaxWrites
    /\ phase = "up" => walNumber \in DOMAIN wals /\ walNumber \in DOMAIN memtables
    /\ \A d \in doubt : d.key \in Key /\ d.value \in Value

(* At every moment the files on disk are enough to recover exactly what    *)
(* callers see: recovery now would give every key its present value, or    *)
(* that of a write whose caller was told it failed.  docs/storage.md: "A   *)
(* write is acked only after its WAL record is fsynced".                   *)
Durable ==
    phase = "up" =>
        \A k \in Key : DiskLookup(k) # Lookup(k) => [key |-> k, value |-> DiskLookup(k)] \in doubt

(* docs/storage.md: "L1+ tables are disjoint within a level", which the    *)
(* binary search of DB::Get relies on.                                     *)
LevelsDisjoint ==
    \A t, u \in version : t # u /\ t.level = u.level /\ t.level > 0 => ~ Overlap(t, u)

(* docs/storage.md: "For equal user keys the higher seqno wins": an        *)
(* iterator, which merges all sources by sequence number, shows exactly    *)
(* the entries that Get finds in the first source that has their key, and  *)
(* no key that Get takes to be deleted.                                    *)
IteratorsAgree ==
    phase = "up" =>
        NewIterator = {e \in {GetEntry(memtables[walNumber], Imms, version, k) : k \in Key} :
                          e.op = "put"}

(* docs/storage.md: "The manifest is renamed into place only after the     *)
(* tables it references are fsynced", and no table is removed while the    *)
(* manifest or the installed version names it: DB::Open finds its files,   *)
(* and they are well formed.                                               *)
FilesPresent ==
    /\ TypeOK
    /\ manifest.tables \subseteq ssts
    /\ phase = "up" => version \subseteq ssts

(* Get, which searches without the mutex, returns a value the key had      *)
(* between its call and its return, and a checkpoint holds for every key a *)
(* value it had between the call of Checkpoint and its return.             *)
ReadsAreCurrent ==
    reader.pc = "done" => \A k \in DOMAIN reader.got : reader.got[k] \in reader.window[k]

(* What callers see is the store: flushes, compactions and every step of   *)
(* recovery leave all values as they are, on disk while the process is     *)
(* down and in the sources of DB::Get while it is up.                      *)
SeesStore ==
    \A k \in Key : store[k] = IF phase = "up" THEN Lookup(k) ELSE DiskLookup(k)

Abstract == INSTANCE KvStore WITH acked <- done.writes, failed <- done.late + done.failed

(* The store so seen is the crash-safe map of KvStore: it changes by calls *)
(* of Put and Delete alone, each to one key, and at a crash, which is no   *)
(* call, by nothing but writes whose caller was told that they failed and  *)
(* that no later write to the key has replaced.                            *)
ImplementsKvStore == Abstract!Spec

(* A writer that waits in WriteImpl for the flush of one of two immutable  *)
(* memtables can go on some time, unless the background thread has failed  *)
(* or the process stops.                                                   *)
WritesResume == (phase = "up" /\ Len(imm) >= 2) ~> (Len(imm) < 2 \/ bgError)

=============================================================================
