---------------------------- MODULE MCSharding ----------------------------
(* Small instances of Sharding for TLC. *)
EXTENDS Sharding, TLC

CONSTANTS n1, n2, n3, w1, w2

Nodes == {n1, n2, n3}
Writes == {w1, w2}
Values == (w1 :> w1) @@ (w2 :> w2)
OneSplit == <<2>>

\* The combinations that are explored: one of the writes is to the key that the
\* split gives away, a Get comes with writes to its own key, and a scan with writes
\* to different keys.  With two writes and a read an election is the first one of
\* the new range.  Nothing depends on a read that is over, so its last state is
\* checked and not continued.
Matched ==
    LET keys == {c.key : c \in UNION {Range(write[w]) : w \in Writes}} IN
    /\ read.pc # "done"
    /\ \E w \in Writes : \A c \in Range(write[w]) : c.key = 2
    /\ read.key # 0 => keys \subseteq {read.key}
    /\ read.pc # "none" /\ read.key = 0 /\ done.writes = 2 => keys = Key
    /\ done.writes = 2 /\ done.reads = 1 /\ done.elections = 1 => leader[2] # None

Symmetry == Permutations(Nodes) \cup Permutations(Writes)
=============================================================================
