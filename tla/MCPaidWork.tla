----------------------------- MODULE MCPaidWork -----------------------------
(* A Compare run and a policy study, which share nothing but the providers   *)
(* they pay, for one run of TLC: a behaviour chooses one of them, and the    *)
(* other stays where it begins.  Candidates are interchangeable, and pages.  *)
EXTENDS MCCompareRun, PolicyStudy

VARIABLE part

paidVars == <<part, vars, studyVars>>

PaidInit ==
    /\ part \in {"compare", "study"}
    /\ Init /\ StudyInit
    /\ part # "compare" => rec = FanoutStart(CHOOSE mode \in Mode : TRUE)

InCompare == part = "compare" /\ Next /\ UNCHANGED <<part, studyVars>>
InStudy   == part = "study" /\ StudyNext /\ UNCHANGED <<part, vars>>

PaidSpec == PaidInit /\ [][InCompare \/ InStudy]_paidVars

PaidSymmetry == CandSymmetry \cup Permutations(StudyPages)

(* Both keep their variables in their types.                                 *)
PaidTypeOK == CompareTypeOK /\ StudyTypeOK
=============================================================================
