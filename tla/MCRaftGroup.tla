---------------------------- MODULE MCRaftGroup ----------------------------
(* Small instances of RaftGroup for TLC. *)
EXTENDS RaftGroup

SmallLogs ==
    {<<"prewrite", "commit">>, <<"put", "prewrite", "rollback">>,
     <<"put", "delete">>}

PrewriteAndCommit == {<<"prewrite", "commit">>}

\* No crash between the lock and the data record of a prewrite.
NoCrashInPrewrite ==
    done'.crashes > done.crashes /\ apply.writes # <<>> =>
        Head(apply.writes) # Set("data", 1) \/ apply.item.snap

\* A crash, a failed write, a new term or a proposal; two proposals when
\* only two commands are chosen.
FewEvents ==
    LET proposed == Cardinality({p \in Proposer : waiter[p] # Idle})
    IN  \/ done.crashes + done.faults + core.hard + proposed <= 1
        \/ done.crashes + done.faults + core.hard = 0 /\ Len(chosen) = 2
=============================================================================
