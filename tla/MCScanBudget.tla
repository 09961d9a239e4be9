----------------------------- MODULE MCScanBudget -----------------------------
(* Instances of ScanBudget for TLC.                                        *)
EXTENDS ScanBudget, TLC

Batch(g, x) ==
    [generation |-> g, model |-> 1, timestamp |-> 1, expiry |-> x, horizon |-> 1,
     entries |-> <<[app |-> 1, score |-> 7, rank |-> 1, foreground |-> FALSE]>>]

\* A short-lived batch and its successor.
MCBatches == {Batch(1, 2), Batch(2, 3)}
OneBatch == {Batch(1, 3)}

GoodParams ==
    [foreground |-> 4, high |-> 5, medium |-> 6, low |-> 10, minimum |-> 4, maximum |-> 12,
     highFrom |-> 6, mediumFrom |-> 3, minUnits |-> 1, maxExtra |-> 10]
MCParams == {GoodParams, [GoodParams EXCEPT !.minimum = 13]}
OnlyGoodParams == {GoodParams}

TaskSymmetry ==
    Permutations(Writers) \cup Permutations(Reclaimers) \cup Permutations(Admins)

\* Every call allowed by MaxCalls was made and has returned, and time is up.
Quiescent ==
    /\ calls = MaxCalls /\ now = MaxNow
    /\ \A w \in Writers : writer[w].pc = "idle"
    /\ \A r \in Reclaimers : req[r].pc = "idle"
    /\ \A a \in Admins : admin[a].pc = "idle"
    /\ UNCHANGED vars

MCSpec == Init /\ [][Next \/ Quiescent]_vars
=============================================================================
