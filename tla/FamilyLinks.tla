---------------------------- MODULE FamilyLinks -----------------------------
(* The assignments of one task to families (task-repository.ts), made and    *)
(* ended on the page of the task (TaskFamilyAssignment.tsx) in several tabs, *)
(* each acting on what it listed earlier.  Which family an assignment names  *)
(* makes no difference here.                                                 *)
EXTENDS Naturals

CONSTANTS Panels,    \* tabs that show the task
          MaxLinks   \* bound: assignments ever made

ASSUME LinkAssumption == MaxLinks \in Nat

VARIABLES links,     \* the assignments, by the order they were made in
          panel      \* per tab: the primary assignment that it shows, if any

linkVars == <<links, panel>>

NoPanel == [link |-> 0, rev |-> 0]

LinkInit ==
    /\ links = [i \in {} |-> NoPanel]
    /\ panel = [p \in Panels |-> NoPanel]

IsPrimary(l) == l.primary /\ ~l.archived

(* The page lists the assignments and shows the active primary one, if any.  *)
ListLinks(p) ==
    /\ \/ /\ \A i \in DOMAIN links : ~IsPrimary(links[i])
          /\ panel' = [panel EXCEPT ![p] = NoPanel]
       \/ \E i \in DOMAIN links :
             /\ IsPrimary(links[i])
             /\ panel' = [panel EXCEPT ![p] = [link |-> i, rev |-> links[i].rev]]
    /\ UNCHANGED links

(* Mutant of Demoted: stepping back does not count as a write.               *)
DemotedQuietly(l) == IF IsPrimary(l) THEN [l EXCEPT !.primary = FALSE] ELSE l

(* assignTaskFamily: the primaries there are step back, in the transaction   *)
(* that adds the new one.                                                    *)
Demoted(l) == IF IsPrimary(l) THEN [l EXCEPT !.primary = FALSE, !.rev = @ + 1] ELSE l

NewLink == [rev |-> 0, primary |-> TRUE, archived |-> FALSE]

AssignFamily(p) ==
    \E new \in (1 .. MaxLinks) \ DOMAIN links :
        /\ \A i \in DOMAIN links : i < new
        /\ links' = [i \in DOMAIN links \cup {new} |->
                        IF i = new THEN NewLink ELSE Demoted(links[i])]
        /\ panel' = [panel EXCEPT ![p] = NoPanel]

(* archiveTaskFamilyAssignment, of the primary one that is shown.            *)
Ended(l) == [l EXCEPT !.rev = @ + 1, !.archived = TRUE]

EndAssignment(p) ==
    LET i == panel[p].link IN
    /\ i # 0
    /\ links[i].rev = panel[p].rev
    /\ links' = [links EXCEPT ![i] = Ended(@)]
    /\ panel' = [panel EXCEPT ![p] = NoPanel]

PanelStep(p) == ListLinks(p) \/ AssignFamily(p) \/ EndAssignment(p)

LinkNext == \E p \in Panels : PanelStep(p)

LinkSpec == LinkInit /\ [][LinkNext]_linkVars

-----------------------------------------------------------------------------
(* Types; an assignment has a number from 1.                                 *)
LinkRecord == [rev : Nat, primary : BOOLEAN, archived : BOOLEAN]

LinkTypeOK ==
    /\ links \in [DOMAIN links -> LinkRecord]
    /\ DOMAIN links \subseteq Nat \ {0}
    /\ panel \in [Panels -> [link : Nat, rev : Nat]]

(* However assignments, endings and their stale lists interleave, the task   *)
(* has at most one active primary family.                                    *)
OnePrimary ==
    \A i, j \in DOMAIN links : IsPrimary(links[i]) /\ IsPrimary(links[j]) => i = j

(* The button that ends the assignment shown as the primary one never ends   *)
(* one that has been demoted since.                                          *)
OnlyThePrimaryEnds ==
    [][\A i \in DOMAIN links :
          ~links[i].archived /\ links'[i].archived => links[i].primary]_linkVars
=============================================================================
