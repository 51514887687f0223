-------------------------- MODULE MCExperimentAgain --------------------------
(* Checking ExperimentRun with commands given at any time.                   *)
EXTENDS ExperimentRun

\* Bound: faults, expiries and closings come only until a command is given
\* while something else is under way.
Bounded == rushed => faults = 0 /\ odd # "lost"
=============================================================================
