------------------------------- MODULE MCRaft -------------------------------
(* Small instances of Raft for TLC. *)
EXTENDS Raft, TLC

CONSTANTS n1, n2, n3,
          MaxInFlight,   \* states with more messages in flight are not explored
          MaxEvents      \* nor states with more of Events, below

Servers == {n1, n2, n3}
Symmetry == Permutations(Servers)

\* What a behaviour has besides elections and the no-ops of its leaders:
\* restarts, snapshots, servers that sent a heartbeat or started a read as
\* leaders, and commands (a second entry of one term).
Events ==
    restarts + Cardinality({node[i].base.index : i \in Server} \ {0})
             + Cardinality({i \in Server : node[i].hbSeq > 1})
             + Cardinality({t \in 1 .. MaxTerm :
                              \E i \in Server : \E k \in 2 .. Len(node[i].log) :
                                  node[i].log[k] = t /\ node[i].log[k - 1] = t})
EventBound == Events <= MaxEvents

\* A restart, or heartbeats that no read is waiting for, take the place of a message.
InFlightBound ==
    Cardinality(msgs) + restarts
        + Cardinality({i \in Server : node[i].hbSeq > 1 /\ node[i].pending = {}})
            <= MaxInFlight

\* A part of the behaviours, for a search that has to go deep: n1 stands for
\* election in term 1, n2 in term 2, and n1 or n3 in term 3.
Steered ==
    \A i \in Server :
        node'[i].role = "candidate" =>
            <<node'[i].term, i>> \in {<<1, n1>>, <<2, n2>>, <<3, n1>>, <<3, n3>>}

\* Two states are the same to TLC when they differ only in the votes of the
\* past (cast is read by no property checked here) and in the leader's
\* bookkeeping of a server that is not one, which BecomeLeader resets.
Viewed(s) ==
    IF s.role = "leader" THEN s ELSE [s EXCEPT !.next = Nil, !.match = Nil, !.hbAcked = Nil]
View == <<[i \in Server |-> Viewed(node[i])], msgs, restarts, elected, committed, reads>>
=============================================================================
