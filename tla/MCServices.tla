----------------------------- MODULE MCServices -----------------------------
(* Five parts of the program that do not share state, for one run of TLC: a  *)
(* behaviour chooses one of them and is a behaviour of that part, while the  *)
(* others stay where they begin.                                             *)
EXTENDS ProviderCall, Heartbeat, PreCall, MigrationRegistry, SearchIndex

VARIABLE part

Parts == {"call", "beat", "start", "migration", "search"}

servicesVars == <<part, callVars, beatVars, preVars, migVars, searchVars>>

ServicesInit ==
    /\ part \in Parts
    /\ CallInit /\ BeatInit /\ PreInit /\ MigInit /\ SearchInit
    /\ part # "call" => call = [stream |-> FALSE, marked |-> FALSE, overall |-> FALSE]
    /\ part # "start" => canonical = [r \in Starts |-> FALSE]

InCall      == part = "call" /\ CallNext
               /\ UNCHANGED <<part, beatVars, preVars, migVars, searchVars>>
InBeat      == part = "beat" /\ BeatNext
               /\ UNCHANGED <<part, callVars, preVars, migVars, searchVars>>
InStart     == part = "start" /\ PreNext
               /\ UNCHANGED <<part, callVars, beatVars, migVars, searchVars>>
InMigration == part = "migration" /\ MigNext
               /\ UNCHANGED <<part, callVars, beatVars, preVars, searchVars>>
InSearch    == part = "search" /\ SearchNext
               /\ UNCHANGED <<part, callVars, beatVars, preVars, migVars>>

ServicesNext == InCall \/ InBeat \/ InStart \/ InMigration \/ InSearch

(* The fairness of CallSpec, MigSpec and SearchSpec, of the part that runs.  *)
ServicesFairness ==
    /\ WF_callVars(part = "call" /\ Tick)
    /\ WF_callVars(part = "call" /\ ConnectFires)
    /\ WF_callVars(part = "call" /\ InactivityFires)
    /\ WF_callVars(part = "call" /\ OverallFires)
    /\ WF_callVars(part = "call" /\ Settles)
    /\ \A p \in Tabs : /\ WF_migVars(part = "migration" /\ RegistryStep(p))
                       /\ WF_migVars(part = "migration" /\ TabOpens(p))
    /\ WF_migVars(part = "migration" /\ \E p \in Tabs : TabReloads(p))
    /\ WF_migVars(part = "migration" /\ OwnerLapses)
    /\ \A v \in Views : /\ WF_searchVars(part = "search" /\ RebuildStep(v))
                        /\ WF_searchVars(part = "search" /\ VisitRebuilds(v))
    /\ WF_searchVars(part = "search" /\ RebuildExpires)

ServicesSpec == ServicesInit /\ [][ServicesNext]_servicesVars /\ ServicesFairness

(* Every part keeps its variables in their types.                            *)
ServicesTypeOK ==
    CallTypeOK /\ BeatTypeOK /\ PreTypeOK /\ MigTypeOK /\ SearchTypeOK
=============================================================================
