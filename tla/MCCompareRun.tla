---------------------------- MODULE MCCompareRun ----------------------------
(* CompareRun for TLC: the candidates are interchangeable.                 *)
EXTENDS CompareRun, TLC

CandSymmetry == Permutations(Cands)
=============================================================================
