------------------------------ MODULE Sharding ------------------------------
(***************************************************************************)
(* Ranges of FlotillaDB: the nodes that host one Raft group per range over *)
(* one shared engine (src/server/sharded_node.cc), what a group does to    *)
(* the range when it applies a split or restores a snapshot                *)
(* (src/server/raft_group.cc), and the client that looks for the right     *)
(* node (src/client/client.cc).                                            *)
(*                                                                         *)
(* Raft is taken at its word (module Raft): a group is a log of committed  *)
(* commands and at most one leader, and a replica applies the log in       *)
(* order, as late as it likes.  How a replica persists and replays its log *)
(* is in RaftGroup; here the effect of a command and its applied marker    *)
(* are one step, except for a split, which is several.                     *)
(*                                                                         *)
(* Keys are numbers in key order; the empty key, where the first range     *)
(* starts, is the first of them, and the open end of the last range is     *)
(* LastKey + 1.                                                            *)
(***************************************************************************)
EXTENDS Naturals, FiniteSets, Sequences, Functions

CONSTANTS
    Node,
    LastKey,             \* keys are 1..LastKey
    MaxGroup,            \* group ids are 1..MaxGroup
    Write,               \* the calls of Put and Delete
    WriteValue,          \* WriteValue[w]: the value of a call, Absent for a Delete
    WriteKey,            \* the keys that are written
    ReadKey,             \* the keys that are read with Get
    SplitKey,            \* SplitKey[i]: the key of the i-th split request
    MaxAttempts,         \* bound: the copies of a write that Client::Call sends
    MaxCrashes,          \* bound: the crashes of a behaviour
    MaxSnapshots,        \* bound: the compactions of a behaviour
    MaxElections,        \* bound: the elections of a behaviour
    MaxEvents,           \* bound: all of these, with the attempts at writes and reads
    Absent,              \* the value of a key that is not there
    None

ASSUME QuorumAssumption == IsFiniteSet(Node) /\ Node # {}
ASSUME KeyAssumption == WriteKey \subseteq 1..LastKey /\ ReadKey \subseteq 1..LastKey

VARIABLES
    log,           \* log[g]: the committed commands of a group
    leader,        \* leader[g]: the leader of a group, or None
    node,          \* the nodes
    write,         \* write[w]: the copies of a call, one for each attempt
    read,          \* one Get or Scan
    split,         \* the split requests that were proposed
    history,       \* history: the writes of each key in log order, and what was answered
    done           \* history: how often each bounded thing happened

vars == <<log, leader, node, write, read, split, history, done>>

Key == 1..LastKey
Gid == 1..MaxGroup

-----------------------------------------------------------------------------
(* Ranges. *)

NoRange == [start |-> 0, end |-> 0]
Everything == [start |-> 1, end |-> LastKey + 1]
Contains(r, k) == r.start <= k /\ k < r.end
KeysOf(r) == {k \in Key : Contains(r, k)}
Intersects(r, s) == r.start < s.end /\ s.start < r.end
Clip(r, s) == [start |-> IF r.start < s.start THEN s.start ELSE r.start,
               end |-> IF r.end < s.end THEN r.end ELSE s.end]

\* A node's view: a group is hosted once it is in groups_.
Hosts(n, g) == node[n].range[g] # NoRange
HostedBy(n) == {g \in Gid : Hosts(n, g)}

\* RouteToGroup: the group with the greatest start at or before k.
RouteToGroup(n, k) ==
    LET before == {g \in HostedBy(n) : node[n].range[g].start <= k}
    IN  CHOOSE g \in before : \A h \in before : node[n].range[h].start <= node[n].range[g].start

\* RangesIntersecting, by group id.
RangesIntersecting(n, r) ==
    {g \in HostedBy(n) : Intersects(node[n].range[g], r)}

AllocateRangeId(n) == 1 + CHOOSE g \in HostedBy(n) : \A h \in HostedBy(n) : h <= g

\* A majority of the nodes hosts g and is up.
HasQuorum(g) == 2 * Cardinality({n \in Node : Hosts(n, g)}) > Cardinality(Node)

Leads(n, g) == leader[g] = n

\* Crashes and snapshots count twice.
WithinBounds(d) ==
    /\ d.crashes <= MaxCrashes /\ d.snapshots <= MaxSnapshots /\ d.elections <= MaxElections
    /\ 2 * (d.crashes + d.snapshots) + d.elections + d.writes + d.reads <= MaxEvents

Count(what) ==
    /\ done' = [done EXCEPT ![what] = @ + 1]
    /\ WithinBounds(done')

-----------------------------------------------------------------------------
(* Groups. *)

NoSnapshot == [index |-> 0, range |-> NoRange, spawns |-> {}, data |-> [k \in Key |-> Absent]]
Bare == [g \in Gid |-> NoRange]

\* ShardedNode::Init on an empty directory: the first range is written down.
Fresh ==
    [up |-> TRUE, db |-> [k \in Key |-> Absent],
     desc |-> [Bare EXCEPT ![1] = Everything],           \* RangeKey
     spawns |-> [g \in Gid |-> {}],                      \* SpawnsKey
     marker |-> [g \in Gid |-> 0],                       \* AppliedKey, applied_index_
     snap |-> [g \in Gid |-> NoSnapshot],
     range |-> [Bare EXCEPT ![1] = Everything],          \* range_ of the hosted groups
     shrunk |-> [g \in Gid |-> FALSE]]                   \* inside OnSplitApplied

\* EnsureGroup: RaftGroup::Init prefers the durable descriptor.
EnsureGroup(x, g, r) ==
    IF x.range[g] # NoRange THEN x
    ELSE [x EXCEPT !.range[g] = IF x.desc[g] # NoRange THEN x.desc[g] ELSE r]

Marked(x, g) == [x EXCEPT !.marker[g] = @ + 1]

\* The next command of group g on node n, for its apply thread.
NextIs(n, g, op) ==
    /\ Hosts(n, g) /\ node[n].marker[g] < Len(log[g])
    /\ log[g][node[n].marker[g] + 1].op = op
    /\ ~node[n].shrunk[g]
NextOf(n, g) == log[g][node[n].marker[g] + 1]

Set(n, x) == node' = [node EXCEPT ![n] = x]

\* A copy of a call that nobody works on any more.
Over(k) == [pc |-> "over", key |-> k, node |-> None, gid |-> 0, index |-> 0, at |-> 0]

\* ApplyCommand of a put or a delete: nobody asks whether the group still owns
\* the key.  The apply loop wakes the handler that waits for the command, which
\* answers its client.
ApplyWrite(n, g) ==
    LET c == NextOf(n, g)
        index == node[n].marker[g] + 1
        Waits(d) == d.pc = "proposed" /\ d.node = n /\ d.gid = g /\ d.index = index
        places == {d.at : d \in UNION {{d \in Range(write[w]) : Waits(d)} : w \in Write}}
    IN  /\ NextIs(n, g, "write")
        /\ Set(n, Marked([node[n] EXCEPT !.db[c.key] = c.value], g))
        /\ write' = [w \in Write |-> [i \in DOMAIN write[w] |->
                         IF Waits(write[w][i]) THEN Over(c.key) ELSE write[w][i]]]
        /\ history' = [history EXCEPT !.acked[c.key] =
                          IF \E p \in places : p > @ THEN CHOOSE p \in places : TRUE ELSE @]
        /\ UNCHANGED <<log, leader, read, split, done>>

StrictlyInside(r, k) == Contains(r, k) /\ k # r.start
ChildOf(r, k) == [r EXCEPT !.start = k]
ParentOf(r, k) == [r EXCEPT !.end = k]

\* The split comes too late for this range, or its child exists.
SplitIsStale(x, g, c) == ~StrictlyInside(x.range[g], c.key) \/ x.desc[c.child] # NoRange

ApplyStaleSplit(n, g) ==
    /\ NextIs(n, g, "split")
    /\ SplitIsStale(node[n], g, NextOf(n, g))
    /\ Set(n, Marked(node[n], g))
    /\ UNCHANGED <<log, leader, write, read, split, history, done>>

\* Mutant: the parent gives the keys up before the child has them.
SplitWritesParentFirst(x, g, c, count) ==
    LET child == ChildOf(x.range[g], c.key)
        one == [x EXCEPT !.desc[g] = ParentOf(x.range[g], c.key)]
        two == [one EXCEPT !.desc[c.child] = child]
        three == [two EXCEPT !.spawns[g] = @ \cup {[id |-> c.child, range |-> child]}]
    IN  CASE count = 1 -> one [] count = 2 -> two [] count = 3 -> three

\* The writes of ApplySplit in their order: the descriptor of the child, that of
\* the parent, the list of children.
SplitWrites(x, g, c, count) ==
    LET child == ChildOf(x.range[g], c.key)
        one == [x EXCEPT !.desc[c.child] = child]
        two == [one EXCEPT !.desc[g] = ParentOf(x.range[g], c.key)]
        three == [two EXCEPT !.spawns[g] = @ \cup {[id |-> c.child, range |-> child]}]
    IN  CASE count = 1 -> one [] count = 2 -> two [] count = 3 -> three

\* ApplySplit up to the end of its critical section; nobody can look at range_
\* in between.
ApplySplit(n, g) ==
    LET c == NextOf(n, g) IN
    /\ NextIs(n, g, "split")
    /\ ~SplitIsStale(node[n], g, c)
    /\ Set(n, [SplitWrites(node[n], g, c, 3) EXCEPT
                  !.range[g] = ParentOf(node[n].range[g], c.key), !.shrunk[g] = TRUE])
    /\ UNCHANGED <<log, leader, write, read, split, history, done>>

\* OnSplitApplied creates the child, and the apply loop goes on.
OnSplitApplied(n, g) ==
    LET c == NextOf(n, g) IN
    /\ node[n].shrunk[g]
    /\ Set(n, Marked([EnsureGroup(node[n], c.child, node[n].desc[c.child]) EXCEPT
                         !.shrunk[g] = FALSE], g))
    /\ UNCHANGED <<log, leader, write, read, split, history, done>>

OnlyKeys(db, r) == [k \in Key |-> IF Contains(r, k) THEN db[k] ELSE Absent]

\* Mutant: the snapshot is said to reach as far as the log.
MaybeSnapshotAhead(n, g) ==
    /\ Hosts(n, g) /\ ~node[n].shrunk[g]
    /\ node[n].marker[g] > node[n].snap[g].index
    /\ Count("snapshots")
    /\ Set(n, [node[n] EXCEPT !.snap[g] =
                  [index |-> Len(log[g]), range |-> node[n].range[g],
                   spawns |-> node[n].spawns[g],
                   data |-> OnlyKeys(node[n].db, node[n].range[g])]])
    /\ UNCHANGED <<log, leader, write, read, split, history>>

\* MaybeSnapshot: the pairs of the range as it is now.
MaybeSnapshot(n, g) ==
    /\ Hosts(n, g) /\ ~node[n].shrunk[g]
    /\ node[n].marker[g] > node[n].snap[g].index
    /\ Count("snapshots")
    /\ Set(n, [node[n] EXCEPT !.snap[g] =
                  [index |-> node[n].marker[g], range |-> node[n].range[g],
                   spawns |-> node[n].spawns[g],
                   data |-> OnlyKeys(node[n].db, node[n].range[g])]])
    /\ UNCHANGED <<log, leader, write, read, split, history>>

\* Mutant: the whole engine is replaced, the data of other ranges with it.
RestoreEverything(x, g, s) ==
    [x EXCEPT !.db = s.data,
              !.desc[g] = s.range, !.spawns[g] = s.spawns, !.marker[g] = s.index,
              !.range[g] = s.range, !.snap[g] = s]

\* ApplySnapshot: exactly the range of the snapshot is replaced.
Restore(x, g, s) ==
    [x EXCEPT !.db = [k \in Key |-> IF Contains(s.range, k) THEN s.data[k] ELSE x.db[k]],
              !.desc[g] = s.range, !.spawns[g] = s.spawns, !.marker[g] = s.index,
              !.range[g] = s.range, !.snap[g] = s]

\* OnSnapshotRestored hosts the children the snapshot knows of; it writes no
\* descriptor for them.
WithChildren(x, spawns) ==
    [x EXCEPT !.range = [g \in Gid |->
        LET r == {c.range : c \in {d \in spawns : d.id = g}}
        IN  IF r = {} THEN x.range[g] ELSE EnsureGroup(x, g, CHOOSE y \in r : TRUE).range[g]]]

\* The leader's log does not go back far enough for n.  A child that n hosts from
\* here on starts without the data it had at the split: n is marred, as is
\* whoever restores what a marred or a torn node sends.
ApplySnapshot(n, g) ==
    LET s == node[leader[g]].snap[g] IN
    /\ Hosts(n, g) /\ ~node[n].shrunk[g]
    /\ leader[g] \notin {None, n}
    /\ node[n].marker[g] < s.index
    /\ Set(n, WithChildren(Restore(node[n], g, s), s.spawns))
    /\ history' = [history EXCEPT !.marred =
                      IF \/ leader[g] \in @ \/ history.torn[leader[g]] # 0
                         \/ \E c \in s.spawns : ~Hosts(n, c.id)
                      THEN @ \cup {n} ELSE @]
    /\ UNCHANGED <<log, leader, write, read, split, done>>

\* A hosted replica that can reach a majority wins an election.
Elect(n, g) ==
    /\ Hosts(n, g) /\ HasQuorum(g) /\ leader[g] # n
    /\ Count("elections")
    /\ leader' = [leader EXCEPT ![g] = n]
    /\ UNCHANGED <<log, node, write, read, split, history>>

-----------------------------------------------------------------------------
(* Writes: Client::Call sends a copy to some node, and another one when no
   answer comes.  An attempt at a node that does not lead the group it finds is
   answered with NotLeader and leaves nothing behind; such attempts are left
   out, here and with Get and Split. *)

CallWrite(w, n, k) ==
    LET g == RouteToGroup(n, k) IN
    /\ Len(write[w]) < MaxAttempts
    /\ \A c \in Range(write[w]) : c.key = k
    /\ node[n].up /\ Leads(n, g)
    /\ Count("writes")
    /\ write' = [write EXCEPT ![w] =
                    Append(@, [Over(k) EXCEPT !.pc = "routed", !.node = n, !.gid = g])]
    /\ UNCHANGED <<log, leader, node, read, split, history>>

SetCopy(w, i, c) == write' = [write EXCEPT ![w][i] = c]

\* The range of g after all of its log.
LoggedRange(g) == history.ranges[g][Len(history.ranges[g])]

\* ProposeAndWait.  The group takes any key; one that the log has already given
\* away is noted as strayed.
ProposeWrite(w, i) ==
    LET c == write[w][i]
        k == c.key
    IN  /\ c.pc = "routed" /\ Leads(c.node, c.gid) /\ HasQuorum(c.gid)
        /\ log' = [log EXCEPT ![c.gid] =
                      Append(@, [op |-> "write", key |-> k, value |-> WriteValue[w]])]
        /\ history' = [history EXCEPT
                          !.order[k] = Append(@, WriteValue[w]),
                          !.ranges[c.gid] = Append(@, LoggedRange(c.gid)),
                          !.strayed = IF Contains(LoggedRange(c.gid), k) THEN @ ELSE @ \cup {k}]
        /\ SetCopy(w, i, [c EXCEPT !.pc = "proposed", !.index = Len(log'[c.gid]),
                                   !.at = Len(history'.order[k])])
        /\ UNCHANGED <<leader, node, read, split, done>>

\* NotLeader after all: the client goes on to its next attempt.
RefuseWrite(w, i) ==
    LET c == write[w][i] IN
    /\ c.pc = "routed" /\ ~Leads(c.node, c.gid)
    /\ SetCopy(w, i, Over(c.key))
    /\ UNCHANGED <<log, leader, node, read, split, history, done>>

-----------------------------------------------------------------------------
(* Reads: a Get, or a Scan of everything.  A read has parts, ranges with the
   group that is to serve them: todo are those the first node has found, subs
   those of the node that serves the first of todo. *)

NoRead == [pc |-> "none", key |-> 0, node |-> None, at |-> None, todo |-> {}, subs |-> {},
           index |-> 0, rows |-> <<>>, floor |-> [k \in Key |-> 0], crossed |-> FALSE]

Part(g, r) == [id |-> g, range |-> r]

\* Mutant: the newest range is served first.
NewestPart(P) == CHOOSE p \in P : \A q \in P : p.id >= q.id

\* routing_ is ordered by the starts of the ranges.
FirstPart(P) == CHOOSE p \in P : \A q \in P : p.range.start <= q.range.start
PartsOf(n, r) == {Part(g, Clip(node[n].range[g], r)) : g \in RangesIntersecting(n, r)}

\* The node stopped after the child had its descriptor and before the parent had.
Overlaps(n) == history.torn[n] = 1

\* While the parent has shrunk and the child is not there yet, a part of the key
\* space is in no range of the node.
InGap(n) == \E g \in Gid : node[n].shrunk[g]
Unsettled(n) == InGap(n) \/ n \in history.marred \/ Overlaps(n)

\* The first attempt of a read decides what it must not miss.
StartRead(r) ==
    \/ /\ read.pc = "none"
       /\ Count("reads")
       /\ read' = [r EXCEPT !.floor = history.acked]
    \/ /\ read.pc = "retry" /\ read.key = r.key
       /\ read' = [r EXCEPT !.floor = read.floor]
       /\ UNCHANGED done

CallGet(n, k) ==
    LET g == RouteToGroup(n, k) IN
    /\ node[n].up /\ Leads(n, g)
    /\ StartRead([NoRead EXCEPT !.pc = "next", !.key = k, !.node = n, !.at = n,
                                !.subs = {Part(g, [start |-> k, end |-> k + 1])}])
    /\ UNCHANGED <<log, leader, node, write, split, history>>

\* ScanAcrossRanges lists the ranges once.
CallScan(n) ==
    /\ node[n].up
    /\ StartRead([NoRead EXCEPT !.pc = "next", !.node = n, !.todo = PartsOf(n, Everything),
                                !.crossed = Unsettled(n)])
    /\ UNCHANGED <<log, leader, node, write, split, history>>

\* The next part is served here, or by its leader, which lists its own ranges.
ScanNext ==
    LET p == FirstPart(read.todo)
        m == leader[p.id]
        subs == IF m = read.node THEN {p} ELSE PartsOf(m, p.range)
    IN  /\ read.pc = "next" /\ read.subs = {} /\ read.todo # {}
        /\ m # None
        /\ read' = [read EXCEPT !.todo = @ \ {p}, !.at = m, !.subs = subs,
                        !.pc = IF subs = {} /\ read.todo = {p} THEN "done" ELSE @,
                        !.crossed = @ \/ (m # read.node /\ Unsettled(m))]
        /\ UNCHANGED <<log, leader, node, write, split, history, done>>

\* Mutant: the leader is confirmed, and nobody waits for the commit index.
ReadIndexAtOnce ==
    LET p == FirstPart(read.subs) IN
    /\ read.pc = "next" /\ read.subs # {}
    /\ Leads(read.at, p.id) /\ HasQuorum(p.id)
    /\ read' = [read EXCEPT !.pc = "wait", !.index = node[read.at].marker[p.id]]
    /\ UNCHANGED <<log, leader, node, write, split, history, done>>

\* The first half of LinearizableReadBarrier: a majority confirms the leader and
\* its commit index.
ReadIndex ==
    LET p == FirstPart(read.subs) IN
    /\ read.pc = "next" /\ read.subs # {}
    /\ Leads(read.at, p.id) /\ HasQuorum(p.id)
    /\ read' = [read EXCEPT !.pc = "wait", !.index = Len(log[p.id])]
    /\ UNCHANGED <<log, leader, node, write, split, history, done>>

RowsOf(db, r) ==
    LET found == {k \in KeysOf(r) : db[k] # Absent}
    IN  [i \in 1..Cardinality(found) |->
            LET k == CHOOSE k \in found : Cardinality({j \in found : j < k}) = i - 1
            IN  [key |-> k, value |-> db[k]]]

\* The barrier is passed and the engine is read, for the range as it was listed.
ServePart ==
    LET p == FirstPart(read.subs)
        x == node[read.at]
        left == read.subs \ {p}
    IN  /\ read.pc = "wait" /\ x.marker[p.id] >= read.index
        /\ read' = [read EXCEPT !.pc = IF left = {} /\ read.todo = {} THEN "done" ELSE "next",
                        !.subs = left, !.index = 0, !.rows = @ \o RowsOf(x.db, p.range),
                        !.crossed = \/ @ \/ read.at \in history.marred
                                    \/ ~(KeysOf(p.range) \subseteq KeysOf(x.range[p.id]))]
        /\ UNCHANGED <<log, leader, node, write, split, history, done>>

\* NotLeader: Client::Call tries again.
AgainLater == [NoRead EXCEPT !.pc = "retry", !.key = read.key, !.floor = read.floor]

RefuseRead ==
    /\ read.pc = "next"
    /\ \/ read.subs # {} /\ ~Leads(read.at, FirstPart(read.subs).id)
       \/ read.subs = {} /\ leader[FirstPart(read.todo).id] = None
    /\ read' = AgainLater
    /\ UNCHANGED <<log, leader, node, write, split, history, done>>

-----------------------------------------------------------------------------
(* Splits, crashes and restarts. *)

\* The handler of kSplit, up to the proposal: the group, the id of the child, the
\* check of RaftGroup::Split.  What the log makes of the ranges is noted in
\* history.
ProposeSplit(i, n) ==
    LET k == SplitKey[i]
        g == RouteToGroup(n, k)
        child == AllocateRangeId(n)
        r == LoggedRange(g)
        effective == StrictlyInside(r, k) /\ history.ranges[child] = <<>>
    IN  /\ i \notin split /\ node[n].up /\ child \in Gid
        /\ StrictlyInside(node[n].range[g], k)
        /\ Leads(n, g) /\ HasQuorum(g)
        /\ log' = [log EXCEPT ![g] = Append(@, [op |-> "split", key |-> k, child |-> child])]
        /\ history' = IF effective
                      THEN [history EXCEPT !.ranges[g] = Append(@, ParentOf(r, k)),
                                           !.ranges[child] = <<ChildOf(r, k)>>]
                      ELSE [history EXCEPT !.ranges[g] = Append(@, r)]
        /\ split' = split \cup {i}
        /\ UNCHANGED <<leader, node, write, read, done>>

\* What node n was doing for clients ends with it.
DropWork(n) ==
    /\ leader' = [g \in Gid |-> IF leader[g] = n THEN None ELSE leader[g]]
    /\ write' = [w \in Write |-> [i \in DOMAIN write[w] |->
                    IF write[w][i].node = n THEN Over(write[w][i].key) ELSE write[w][i]]]
    /\ read' = IF read.pc \in {"next", "wait"} /\ n \in {read.node, read.at}
               THEN AgainLater ELSE read
    /\ UNCHANGED <<log, split>>

Down(x) == [x EXCEPT !.up = FALSE, !.range = Bare, !.shrunk = [g \in Gid |-> FALSE]]

Crash(n) ==
    /\ node[n].up
    /\ Count("crashes")
    /\ Set(n, Down(node[n]))
    /\ DropWork(n)
    /\ UNCHANGED history

\* The process ends between two writes of ApplySplit.  Once the child has a
\* descriptor, the split is stale when it is applied again: after the first write
\* the range of the parent never shrinks, after the second the child is in no
\* list of children.
CrashSplitting(n, g, count) ==
    /\ NextIs(n, g, "split") /\ ~SplitIsStale(node[n], g, NextOf(n, g))
    /\ Count("crashes")
    /\ Set(n, Down(SplitWrites(node[n], g, NextOf(n, g), count)))
    /\ DropWork(n)
    /\ history' = [history EXCEPT !.torn[n] = count]

\* ShardedNode::Init opens every group that has a descriptor.
Restart(n) ==
    /\ ~node[n].up
    /\ Set(n, [node[n] EXCEPT !.up = TRUE, !.range = node[n].desc])
    /\ UNCHANGED <<log, leader, write, read, split, history, done>>

-----------------------------------------------------------------------------

Init ==
    /\ log = [g \in Gid |-> <<>>]
    /\ \E n \in Node : leader = [g \in Gid |-> IF g = 1 THEN n ELSE None]
    /\ node = [n \in Node |-> Fresh]
    /\ write = [w \in Write |-> <<>>]
    /\ read = NoRead
    /\ split = {}
    /\ history = [order |-> [k \in Key |-> <<>>], acked |-> [k \in Key |-> 0],
                  strayed |-> {}, marred |-> {}, torn |-> [n \in Node |-> 0],
                  ranges |-> [g \in Gid |-> IF g = 1 THEN <<Everything>> ELSE <<>>]]
    /\ done = [writes |-> 0, reads |-> 0, elections |-> 0, crashes |-> 0, snapshots |-> 0]

Replica(n, g) ==
    \/ ApplyWrite(n, g) \/ ApplyStaleSplit(n, g) \/ ApplySplit(n, g) \/ OnSplitApplied(n, g)
    \/ MaybeSnapshot(n, g) \/ ApplySnapshot(n, g) \/ Elect(n, g)
    \/ \E count \in 1..2 : CrashSplitting(n, g, count)

Next ==
    \/ \E n \in Node, g \in Gid : Replica(n, g)
    \/ \E n \in Node : Crash(n) \/ Restart(n)
    \/ \E w \in Write, n \in Node, k \in WriteKey : CallWrite(w, n, k)
    \/ \E w \in Write : \E i \in DOMAIN write[w] : ProposeWrite(w, i) \/ RefuseWrite(w, i)
    \/ \E n \in Node, k \in ReadKey : CallGet(n, k)
    \/ \E n \in Node : CallScan(n)
    \/ ScanNext \/ ReadIndex \/ ServePart \/ RefuseRead
    \/ \E i \in DOMAIN SplitKey, n \in Node : ProposeSplit(i, n)

Spec == Init /\ [][Next]_vars

-----------------------------------------------------------------------------
(* Properties. *)

KeyRange == [start : 0..LastKey, end : 0..LastKey + 1]
Child == [id : Gid, range : KeyRange]
Value == {Absent} \cup {WriteValue[w] : w \in Write}
Snapshot == [index : Nat, range : KeyRange, spawns : SUBSET Child, data : [Key -> Value]]
NodeState ==
    [up : BOOLEAN, db : [Key -> Value], desc : [Gid -> KeyRange], spawns : [Gid -> SUBSET Child],
     marker : [Gid -> Nat], snap : [Gid -> Snapshot], range : [Gid -> KeyRange],
     shrunk : [Gid -> BOOLEAN]]

\* The nodes are what their declarations say, no replica has applied more than
\* its log holds, a leader hosts its group, and only a read that has passed the
\* first half of the barrier waits.
TypeOK ==
    /\ \A n \in Node : node[n] \in NodeState
    /\ \A n \in Node, g \in Gid : node[n].marker[g] <= Len(log[g])
    /\ \A g \in Gid : leader[g] # None => Hosts(leader[g], g)
    /\ read.pc = "wait" => read.subs # {}

Sound == Node \ history.marred

\* On a node that is not in the middle of a split every key belongs to exactly one
\* of the ranges it hosts (docs/sharding.md: "Ranges in every node's routing table
\* are disjoint and cover the keyspace"), whatever came before: crashes between any
\* two writes of ApplySplit, replays, snapshots.  A node that stopped after the
\* first of these writes keeps two ranges that overlap, but none of its keys is
\* without a range.  Nodes that learned of a child from a snapshot, or restored one
\* of a node that stopped inside ApplySplit, are exempt, here and below.
RangesPartition ==
    \A n \in Sound : node[n].up /\ ~InGap(n) =>
        \A k \in Key :
            LET owners == {g \in Gid : Contains(node[n].range[g], k)}
            IN  owners # {} /\ (~Overlaps(n) => Cardinality(owners) = 1)

\* The range a replica works with is the one its position in the log of the group
\* says, or, when a split is being applied again after a crash, the one after it
\* (ApplySplit; docs/sharding.md: "A split changes ownership at one definite
\* parent-log position"), or, on a node with ranges that overlap, one from before
\* the split; and the state is well formed.
RangesFollowTheLog ==
    /\ TypeOK
    /\ \A n \in Sound, g \in Gid : Hosts(n, g) =>
          LET i == node[n].marker[g] + 1
              At(j) == j \in DOMAIN history.ranges[g] /\ node[n].range[g] = history.ranges[g][j]
          IN  /\ i \in DOMAIN history.ranges[g]
              /\ At(i) \/ At(i + 1) \/ (Overlaps(n) /\ \E j \in 1..i : At(j))

\* The keys that node n looks for in group g.
Owned(n, g) ==
    LET range == IF node[n].up THEN node[n].range ELSE node[n].desc
    IN  {k \in KeysOf(range[g]) :
            \A h \in Gid : Contains(range[h], k) => range[h].start <= range[g].start}

\* Two replicas of a group that have applied the same commands hold the same data
\* in the range, whatever path they came by: the log, replays, a split, a crash
\* inside a split, a snapshot from before or after one (ApplyCommand, ApplySplit,
\* ApplySnapshot).  A key is exempt once a write to it was proposed in a group
\* whose log had given it away.
ReplicasAgree ==
    \A m, n \in Sound : node[m].db # node[n].db =>
        \A g \in Gid : node[m].marker[g] = node[n].marker[g] =>
            \A k \in (Owned(m, g) \cap Owned(n, g)) \ history.strayed :
                node[m].db[k] = node[n].db[k]

ReadKeys == IF read.key = 0 THEN Key ELSE {read.key}
Returned(k) ==
    LET rows == {i \in DOMAIN read.rows : read.rows[i].key = k}
    IN  IF rows = {} THEN Absent ELSE read.rows[CHOOSE i \in rows : TRUE].value

\* A Get or a Scan returns for every key a value that had not been overwritten by
\* an acknowledged write when the read began, whichever nodes served it and
\* whatever they had applied.  Exempt are reads during which a node that serves
\* them applies a split of the range, and keys with strayed writes (RouteToGroup,
\* LinearizableReadBarrier, ScanAcrossRanges).
ReadsAreFresh ==
    read.pc = "done" /\ ~read.crossed =>
        \A k \in ReadKeys \ history.strayed :
            \/ read.floor[k] = 0 /\ Returned(k) = Absent
            \/ \E i \in DOMAIN history.order[k] :
                  i >= read.floor[k] /\ i > 0 /\ history.order[k][i] = Returned(k)

\* A scan that is put together from the ranges of several nodes returns its keys
\* in order and none of them twice (ScanAcrossRanges).
ScansAreOrdered ==
    ~read.crossed =>
        \A i, j \in DOMAIN read.rows : i < j => read.rows[i].key < read.rows[j].key

=============================================================================
