---------------------------- MODULE MCCandleJobs -----------------------------
(* CandleJobs on a small instance.                                         *)
EXTENDS CandleJobs, TLC

Symmetry == Permutations(Symbols)
=============================================================================
