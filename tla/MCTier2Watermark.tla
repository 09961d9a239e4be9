-------------------------- MODULE MCTier2Watermark --------------------------
(* Small instances of Tier2Watermark for TLC. *)
EXTENDS Tier2Watermark, TLC

TaskSymmetry == Permutations(Tasks)
=============================================================================
