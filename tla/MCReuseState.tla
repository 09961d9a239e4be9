---------------------------- MODULE MCReuseState ----------------------------
(* Instances of ReuseState for TLC.                                        *)
EXTENDS ReuseState, TLC

CPUSymmetry == Permutations(CPUs)

\* Every call allowed by MaxCalls was made and has returned.
Quiescent ==
    /\ calls = MaxCalls /\ scan.step = "idle"
    /\ \A c \in AllCPUs : cpu[c].pc = "idle"
    /\ UNCHANGED vars

MCSpec == Init /\ [][Next \/ Quiescent]_vars
=============================================================================
