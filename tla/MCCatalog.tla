----------------------------- MODULE MCCatalog ------------------------------
(* The catalogue: a task set, a task, a rubric, the families, or the         *)
(* assignments of a task to them.  They share no state: a behaviour chooses  *)
(* one and is a behaviour of that part, the others stay where they begin.    *)
EXTENDS MCTaskSets, TaskRecords, Rubrics, TaskFamilies, FamilyLinks

VARIABLE part

catalogVars == <<part, setVars, taskVars, rubricVars, familyVars, linkVars>>

CatalogInit ==
    /\ part \in {"sets", "task", "rubric", "families", "links"}
    /\ SetsInit /\ TaskInit /\ RubricInit /\ FamilyInit /\ LinkInit
    /\ part # "sets" => past = <<>>

InSets     == part = "sets" /\ SetsNext
              /\ UNCHANGED <<part, taskVars, rubricVars, familyVars, linkVars>>
InTask     == part = "task" /\ TaskNext
              /\ UNCHANGED <<part, setVars, rubricVars, familyVars, linkVars>>
InRubric   == part = "rubric" /\ RubricNext
              /\ UNCHANGED <<part, setVars, taskVars, familyVars, linkVars>>
InFamilies == part = "families" /\ FamilyNext
              /\ UNCHANGED <<part, setVars, taskVars, rubricVars, linkVars>>
InLinks    == part = "links" /\ LinkNext
              /\ UNCHANGED <<part, setVars, taskVars, rubricVars, familyVars>>

CatalogNext == InSets \/ InTask \/ InRubric \/ InFamilies \/ InLinks

CatalogSpec == CatalogInit /\ [][CatalogNext]_catalogVars

CatalogSymmetry == PageSymmetry \cup Permutations(Cards)

(* Each of the five parts keeps its variables in their types.                *)
CatalogTypeOK == SetsTypeOK /\ TaskTypeOK /\ RubricTypeOK /\ FamilyTypeOK /\ LinkTypeOK
=============================================================================
