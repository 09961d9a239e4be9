------------------------- MODULE MCPredictionSnapshot -------------------------
(* Instances of PredictionSnapshot for TLC.                                *)
EXTENDS PredictionSnapshot, TLC

Entry(a, rank, front) == [app |-> a, score |-> 1, rank |-> rank, foreground |-> front]

Batch(g, m, t, x, entries) ==
    [generation |-> g, model |-> m, timestamp |-> t, expiry |-> x, horizon |-> 1, entries |-> entries]

\* Two usable batches of the same model, one of another model that covers one
\* application only, one from the future and one with two foreground entries.
MCBatches ==
    {Batch(1, 1, 1, 3, <<Entry(1, 1, TRUE), Entry(2, 2, FALSE)>>),
     Batch(2, 1, 1, 2, <<Entry(2, 1, TRUE)>>),
     Batch(2, 2, 2, 4, <<Entry(1, 1, FALSE)>>),
     Batch(3, 1, 4, 5, <<Entry(1, 1, TRUE)>>),
     Batch(3, 1, 1, 3, <<Entry(1, 1, TRUE), Entry(2, 2, TRUE)>>)}

FewBatches == {Batch(g, 1, 1, 3, <<Entry(1, 1, TRUE)>>) : g \in 1..2}

WriterSymmetry == Permutations(Writers)

\* Every call allowed by MaxCalls was made and has returned, and time is up.
Quiescent ==
    /\ calls = MaxCalls /\ now = MaxNow
    /\ \A w \in Writers : writer[w].pc = "idle"
    /\ UNCHANGED <<snapshotVars, now, calls>>

MCSpec == SnapshotInit /\ [][SnapshotNext \/ Quiescent]_<<snapshotVars, now, calls>>
=============================================================================
