-------------------------- MODULE MCEffectiveTier --------------------------
(* Instances of EffectiveTier for TLC.                                     *)
EXTENDS EffectiveTier, TLC

CONSTANTS small, large

MCPages == small :> 1 @@ large :> 2
OnePage == small :> 1
MCConfigs == {[max_upgrade |-> 2, batch |-> 2, epoch |-> 3, ratio |-> 3],
              [max_upgrade |-> 3, batch |-> 2, epoch |-> 2, ratio |-> 2]}

TaskSymmetry == Permutations(Admins) \cup Permutations(Reclaimers)

\* Every call allowed by MaxCalls was made and has returned.
Quiescent ==
    /\ calls = MaxCalls
    /\ \A a \in Admins : admin[a].pc = "idle"
    /\ \A r \in Reclaimers : ctx[r].pc = "idle"
    /\ UNCHANGED vars

MCSpec == Init /\ [][Next \/ Quiescent]_vars
=============================================================================
