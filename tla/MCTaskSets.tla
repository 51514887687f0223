----------------------------- MODULE MCTaskSets -----------------------------
(* Histories for TLC, oldest content first, the suite as it is now last.     *)
EXTENDS TaskSets, TLC

CONSTANTS t1, m1

PageSymmetry == Permutations(Pages)

At(ver, body) == [ver |-> ver, body |-> body]

(* Saved twice under one number and run both times; edited and taken back;   *)
(* edited without a run, so that the number ran ahead; a model added to the  *)
(* results alone.                                                            *)
MCPasts == { <<At(1, {t1}), At(1, {t1, m1})>>,
             <<At(1, {t1}), At(2, {t1, m1}), At(2, {t1})>>,
             <<At(2, {t1})>>,
             <<At(1, {t1, m1}), At(1, {t1})>> }
=============================================================================
