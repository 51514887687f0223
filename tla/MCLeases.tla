------------------------------ MODULE MCLeases ------------------------------
(* The execution lease, or the drains of the evidence index and their        *)
(* claims, for one run of TLC: a behaviour chooses one and is a behaviour of *)
(* it, while the variables of the other stay where they begin.               *)
EXTENDS ExecutionLease, EvidenceDrains

VARIABLE part

leasesVars == <<part, vars, drainVars>>

LeasesInit == part \in {"lease", "drains"} /\ Init /\ DrainsInit

InLease  == part = "lease" /\ Next /\ UNCHANGED <<part, drainVars>>
InDrains == part = "drains" /\ DrainsNext /\ UNCHANGED <<part, vars>>

(* The fairness of DrainsSpec, when it is the drains that run.               *)
LeasesFairness ==
    \A p \in Pages :
       WF_indexVars(part = "drains" /\ (QueueStep(p) \/ DeriveWrite(<<p, "queue">>)))

LeasesSpec == LeasesInit /\ [][InLease \/ InDrains]_leasesVars /\ LeasesFairness
=============================================================================
