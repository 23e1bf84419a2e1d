----------------------- MODULE SnapshotIsolationProofs -----------------------
(***************************************************************************)
(* Snapshot reads and the absence of lost updates, for any set of          *)
(* transactions, keys and mutations.                                       *)
(***************************************************************************)
EXTENDS SnapshotIsolation, TLAPS

\* A transaction reads only after it has begun, and commits above its start.
InOrder ==
    \A t \in Txn : /\ start[t] = 0 => seen[t] = {}
                   /\ commit[t] # 0 => start[t] # 0 /\ start[t] < commit[t]

SIInv == SITypeOK /\ InOrder /\ SnapshotReads /\ NoLostUpdate

\* The initial state satisfies the invariant.
LEMMA InitInv == Init => SIInv
  BY DEF Init, SIInv, SITypeOK, InOrder, SnapshotReads, NoLostUpdate

\* A new transaction disturbs no snapshot that has been read.
LEMMA BeginInv ==
    ASSUME SIInv, NEW t \in Txn, NEW ts, Begin(t, ts)
    PROVE  SIInv'
  <1>1. ts \in Nat /\ ts # 0
    BY Zenon DEF Begin
  <1>2. SITypeOK'
    BY <1>1, Zenon DEF SIInv, SITypeOK, Begin
  <1>3. commit[t] = 0 /\ seen[t] = {}
    BY Zenon DEF SIInv, InOrder, Begin
  <1>4. InOrder'
    BY <1>1, <1>3, Zenon DEF SIInv, SITypeOK, InOrder, Begin
  <1>5. SnapshotReads'
    <2> SUFFICES ASSUME NEW u \in Txn, NEW r \in seen'[u]
                 PROVE  ValueAt(r.key, start[u], r.value)' 
      BY Zenon DEF SnapshotReads
    <2>1. u # t /\ r \in seen[u] /\ start'[u] = start[u]
      BY <1>3, Zenon DEF SIInv, SITypeOK, Begin
    <2>2. ValueAt(r.key, start[u], r.value)
      BY <2>1, Zenon DEF SIInv, SnapshotReads
    <2> QED
      BY <2>1, <2>2, Zenon DEF Begin, ValueAt, Visible, Writers
  <1>6. NoLostUpdate'
    BY <1>3, Zenon DEF SIInv, SITypeOK, NoLostUpdate, Begin
  <1> QED
    BY <1>2, <1>4, <1>5, <1>6, Zenon DEF SIInv

\* A read records the value of its snapshot.
LEMMA ReadInv ==
    ASSUME SIInv, NEW t \in Txn, NEW keys \in SUBSET Key, NEW v \in Txn \cup {NotFound},
           Read(t, keys, v)
    PROVE  SIInv'
  <1>1. SITypeOK'
    BY Zenon DEF SIInv, SITypeOK, Read
  <1>2. InOrder'
    BY Zenon DEF SIInv, SITypeOK, InOrder, Read
  <1>3. SnapshotReads'
    <2> SUFFICES ASSUME NEW u \in Txn, NEW r \in seen'[u]
                 PROVE  ValueAt(r.key, start[u], r.value)'
      BY Zenon DEF SnapshotReads
    <2>1. r \in seen[u] \/ (u = t /\ r \in [key : keys, value : {v}])
      BY Zenon DEF SIInv, SITypeOK, Read
    <2>2. ValueAt(r.key, start[u], r.value)
      BY <2>1, Zenon DEF SIInv, SnapshotReads, Read
    <2> QED
      BY <2>2, Zenon DEF Read, ValueAt, Visible, Writers
  <1>4. NoLostUpdate'
    BY Zenon DEF SIInv, NoLostUpdate, Read
  <1> QED
    BY <1>1, <1>2, <1>3, <1>4, Zenon DEF SIInv

\* A commit is invisible to every snapshot that was read where it writes, and it
\* follows every other commit to its keys.
LEMMA CommitInv ==
    ASSUME SIInv, NEW t \in Txn, NEW ts, Commit(t, ts)
    PROVE  SIInv'
  <1>1. ts \in Nat /\ ts # 0
    BY Zenon DEF Commit, SIInv, SITypeOK
  <1>2. SITypeOK'
    BY <1>1, Zenon DEF SIInv, SITypeOK, Commit
  <1>3. /\ commit'[t] = ts
        /\ \A u \in Txn : u # t => commit'[u] = commit[u]
        /\ start' = start /\ seen' = seen
    BY Zenon DEF SIInv, SITypeOK, Commit
  <1>4. InOrder'
    BY <1>1, <1>3, Zenon DEF SIInv, SITypeOK, InOrder, Commit
  <1>5. SnapshotReads'
    <2> SUFFICES ASSUME NEW u \in Txn, NEW r \in seen[u]
                 PROVE  ValueAt(r.key, start[u], r.value)'
      BY <1>3, Zenon DEF SnapshotReads
    <2>1. ValueAt(r.key, start[u], r.value)
      BY Zenon DEF SIInv, SnapshotReads
    <2>2. r.key \in Writes(t) => ~(ts < start[u])
      BY <1>1 DEF Commit, UnreadBelow, SIInv, SITypeOK
    <2>3. t \notin Visible(r.key, start[u]) /\ t \notin Visible(r.key, start[u])'
      BY <1>3, <2>2, Zenon DEF Commit, Visible, Writers, Writes
    <2>4. Visible(r.key, start[u])' = Visible(r.key, start[u])
      BY <1>3, <2>3, Zenon DEF Visible, Writers, Writes
    <2>5. \A x \in Visible(r.key, start[u]) : commit'[x] = commit[x]
      BY <1>3, <2>3, Zenon DEF Visible, Writers
    <2> QED
      BY <1>3, <2>1, <2>4, <2>5, Zenon DEF ValueAt
  <1>6. NoLostUpdate'
    <2> SUFFICES ASSUME NEW x \in Txn, NEW y \in Txn, x # y, commit'[x] # 0, commit'[y] # 0,
                        Writes(x) \cap Writes(y) # {}
                 PROVE  commit'[x] < start[y] \/ commit'[y] < start[x]
      BY <1>3, Zenon DEF NoLostUpdate, Writes
    <2>1. CASE x # t /\ y # t
      BY <1>3, <2>1, Zenon DEF SIInv, NoLostUpdate
    <2>2. CASE x = t
      BY <1>3, <2>2, Zenon DEF Commit, FirstCommitter, Writers
    <2>3. CASE y = t
      BY <1>3, <2>3, Zenon DEF Commit, FirstCommitter, Writers
    <2> QED
      BY <2>1, <2>2, <2>3, Zenon
  <1> QED
    BY <1>2, <1>4, <1>5, <1>6, Zenon DEF SIInv

\* Every step keeps the invariant.
LEMMA NextInv == SIInv /\ [Next]_siVars => SIInv'
  <1> SUFFICES ASSUME SIInv, [Next]_siVars PROVE SIInv'
    BY Zenon
  <1>1. CASE UNCHANGED siVars
    BY <1>1 DEF siVars, SIInv, SITypeOK, InOrder, SnapshotReads, NoLostUpdate, ValueAt,
                Visible, Writers
  <1>2. ASSUME NEW t \in Txn, Begin(t, start'[t]) PROVE SIInv'
    BY <1>2, BeginInv, Zenon
  <1>3. ASSUME NEW t \in Txn, NEW keys \in SUBSET Key, NEW v \in Txn \cup {NotFound},
               Read(t, keys, v)
        PROVE  SIInv'
    BY <1>3, ReadInv, Zenon
  <1>4. ASSUME NEW t \in Txn, Commit(t, commit'[t]) PROVE SIInv'
    BY <1>4, CommitInv, Zenon
  <1> QED
    BY <1>1, <1>2, <1>3, <1>4, Zenon DEF Next

\* The invariant holds in every reachable state.
THEOREM SnapshotIsolationInvariant == Spec => []SIInv
  BY InitInv, NextInv, PTL DEF Spec

\* Txn::Get is a snapshot read for ever: nothing that commits later changes what
\* a transaction should have seen.
THEOREM ReadsAreSnapshots == Spec => []SnapshotReads
  <1>1. SIInv => SnapshotReads
    BY Zenon DEF SIInv
  <1> QED
    BY <1>1, SnapshotIsolationInvariant, PTL

\* Txn::Commit lets no update be lost: of two transactions with a common key one
\* began after the other's commit.
THEOREM NoUpdateIsLost == Spec => []NoLostUpdate
  <1>1. SIInv => NoLostUpdate
    BY Zenon DEF SIInv
  <1> QED
    BY <1>1, SnapshotIsolationInvariant, PTL

=============================================================================
