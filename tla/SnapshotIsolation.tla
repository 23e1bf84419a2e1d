-------------------------- MODULE SnapshotIsolation --------------------------
(***************************************************************************)
(* What transactions promise to their users (src/client/txn_client.h):     *)
(* "Reads see the database as of Begin(); writes buffer locally until      *)
(* Commit().  Commit returns Conflict when another transaction won a       *)
(* write-write race."                                                      *)
(*                                                                         *)
(* A transaction takes effect in one step, at its commit timestamp.  The   *)
(* records, locks, messages and resolvers that bring this about are in     *)
(* Percolator, which implements this specification.                        *)
(***************************************************************************)
EXTENDS Naturals

CONSTANTS
    Key,
    Txn,
    Mutation,      \* Mutation[t]: what t writes, a function into {"put", "delete"}
    NotFound       \* the answer of a read that finds nothing

VARIABLES
    start,         \* start[t]: the timestamp of Begin, 0 before it
    commit,        \* commit[t]: the timestamp of the commit, 0 unless committed
    seen           \* seen[t]: what the reads of t have returned

siVars == <<start, commit, seen>>

Writes(t) == DOMAIN Mutation[t]
Writers(k) == {t \in Txn : commit[t] # 0 /\ k \in Writes(t)}
Visible(k, ts) == {t \in Writers(k) : commit[t] < ts}

\* v is the value of k in the snapshot taken at ts.
ValueAt(k, ts, v) ==
    \/ Visible(k, ts) = {} /\ v = NotFound
    \/ \E t \in Visible(k, ts) :
          /\ \A u \in Visible(k, ts) : commit[u] <= commit[t]
          /\ v = IF Mutation[t][k] = "put" THEN t ELSE NotFound

Init ==
    /\ start = [t \in Txn |-> 0]
    /\ commit = [t \in Txn |-> 0]
    /\ seen = [t \in Txn |-> {}]

\* The snapshot contains everything that has committed so far.
Begin(t, ts) ==
    /\ start[t] = 0 /\ ts \in Nat \ {0}
    /\ \A u \in Txn : start[u] < ts /\ commit[u] < ts
    /\ start' = [start EXCEPT ![t] = ts]
    /\ UNCHANGED <<commit, seen>>

\* A read of one key, or the part of a scan that finds nothing on several.
Read(t, keys, v) ==
    /\ start[t] # 0
    /\ \A k \in keys : ValueAt(k, start[t], v)
    /\ seen' = [seen EXCEPT ![t] = @ \cup [key : keys, value : {v}]]
    /\ UNCHANGED <<start, commit>>

\* Nobody has committed to a key of t since t began.
FirstCommitter(t) ==
    \A k \in Writes(t) : \A u \in Writers(k) : commit[u] < start[t]

\* No snapshot at or above ts has been read where t writes.
UnreadBelow(t, ts) ==
    \A u \in Txn : \A r \in seen[u] : r.key \in Writes(t) => start[u] < ts

Commit(t, ts) ==
    /\ start[t] # 0 /\ commit[t] = 0 /\ ts \in Nat /\ start[t] < ts
    /\ \A u \in Txn : start[u] # ts /\ commit[u] # ts
    /\ FirstCommitter(t)
    /\ UnreadBelow(t, ts)
    /\ commit' = [commit EXCEPT ![t] = ts]
    /\ UNCHANGED <<start, seen>>

\* Timestamps are unbounded: a step names the one it uses.
Next ==
    \/ \E t \in Txn : Begin(t, start'[t])
    \/ \E t \in Txn, keys \in SUBSET Key, v \in Txn \cup {NotFound} : Read(t, keys, v)
    \/ \E t \in Txn : Commit(t, commit'[t])

Spec == Init /\ [][Next]_siVars

-----------------------------------------------------------------------------

SITypeOK ==
    /\ start \in [Txn -> Nat]
    /\ commit \in [Txn -> Nat]
    /\ seen \in [Txn -> SUBSET [key : Key, value : Txn \cup {NotFound}]]

\* Whatever commits later, an answer given by a read stays the value of its key
\* in the snapshot of its transaction: reads are repeatable and nobody sees a
\* part of a transaction (Txn::Get).
SnapshotReads ==
    \A t \in Txn : \A r \in seen[t] : ValueAt(r.key, start[t], r.value)

\* Of two transactions that write a common key one began after the other had
\* committed: no update is lost (Txn::Commit).
NoLostUpdate ==
    \A t, u \in Txn :
        (t # u /\ commit[t] # 0 /\ commit[u] # 0 /\ Writes(t) \cap Writes(u) # {}) =>
            commit[t] < start[u] \/ commit[u] < start[t]

=============================================================================
