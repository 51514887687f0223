---------------------------- MODULE TaskFamilies ----------------------------
(* The families of tasks, a hierarchy (task-repository.ts), changed from the *)
(* registry of families (TaskFamilyRegistry.tsx) in several tabs, each       *)
(* acting on what it listed earlier.                                         *)
EXTENDS Naturals, FiniteSets

CONSTANTS Families,      \* families that may come to exist
          Cards,         \* tabs that show the registry
          NoFamily,      \* no family, no parent, nothing listed
          MaxFamilyRev   \* bound: writes of a family

FamilyRecord == [rev : Nat, parent : Families \cup {NoFamily}, archived : BOOLEAN]

ASSUME FamilyAssumption ==
    /\ IsFiniteSet(Families)
    /\ NoFamily \notin Families \cup FamilyRecord
    /\ MaxFamilyRev \in Nat

VARIABLES family,   \* the families: revision, parent, archived
          card      \* per tab: what it does, and what it acts on

familyVars == <<family, card>>

NoCard == [pc |-> "idle", fam |-> NoFamily, rev |-> 0, parent |-> NoFamily,
           archived |-> FALSE]

Exists(f) == family[f] # NoFamily

FamilyInit ==
    /\ family = [f \in Families |-> NoFamily]
    /\ card = [c \in Cards |-> NoCard]

(* assertParentChainValid: the walk from x upwards, that is the least set    *)
(* with x and the parents of its members.  (It also gives up after a         *)
(* thousand families: Families has fewer.)                                   *)
ClosedUpwards(S) == \A g \in S : Exists(g) => family[g].parent \in S \cup {NoFamily}

Chain(x) ==
    {g \in Families : \A S \in SUBSET Families :
        ClosedUpwards(S) /\ x \in S \cup {NoFamily} => g \in S}

(* Mutant of MayBeUnder: only the family itself is refused as its parent.    *)
NotItsOwnParent(f, parent) == f # parent

MayBeUnder(f, parent) ==
    /\ f \notin Chain(parent)
    /\ \A g \in Chain(parent) : Exists(g)

-----------------------------------------------------------------------------
(* The registry.  A form or a dialog acts on the copy of a family that was   *)
(* listed, whenever that was.                                                *)
Listed(f, rev, archived) ==
    [pc |-> "listed", fam |-> f, rev |-> rev, parent |-> NoFamily, archived |-> archived]

CreateFamily(c, f, parent) ==
    /\ card[c].pc = "idle"
    /\ ~Exists(f)
    /\ parent # NoFamily => Exists(parent)
    /\ MayBeUnder(f, parent)
    /\ family' = [family EXCEPT ![f] = [rev |-> 0, parent |-> parent, archived |-> FALSE]]
    /\ card' = [card EXCEPT ![c] = Listed(f, 0, FALSE)]

ListFamily(c, f) ==
    /\ card[c].pc = "idle"
    /\ Exists(f)
    /\ card' = [card EXCEPT ![c] = Listed(f, family[f].rev, family[f].archived)]
    /\ UNCHANGED family

PutAway(c) ==
    /\ card[c].pc # "idle"
    /\ card' = [card EXCEPT ![c] = NoCard]
    /\ UNCHANGED family

(* handleSave reads the family again for what the form does not show, and    *)
(* writes with the revision that the form was opened with.                   *)
SaveFamily(c, parent) ==
    /\ card[c].pc = "listed"
    /\ parent # NoFamily => Exists(parent)
    /\ card' = [card EXCEPT ![c].pc = "save", ![c].parent = parent,
                            ![c].archived = family[card[c].fam].archived]
    /\ UNCHANGED family

FamilyIsCurrent(c) ==
    family[card[c].fam].rev = card[c].rev /\ card[c].rev < MaxFamilyRev

UpdateFamily(c) ==
    LET f == card[c].fam IN
    /\ card[c].pc = "save"
    /\ FamilyIsCurrent(c)
    /\ MayBeUnder(f, card[c].parent)
    /\ family' = [family EXCEPT ![f] = [rev |-> card[c].rev + 1, parent |-> card[c].parent,
                                        archived |-> card[c].archived]]
    /\ card' = [card EXCEPT ![c].pc = "listed", ![c].rev = @ + 1]

(* A refused update leaves the form open.                                    *)
RefuseFamily(c) ==
    /\ card[c].pc = "save"
    /\ card' = [card EXCEPT ![c].pc = "listed"]
    /\ UNCHANGED family

(* archiveTaskFamily and restoreTaskFamily, by what was listed.              *)
SetFamilyArchived(c) ==
    LET f == card[c].fam IN
    /\ card[c].pc = "listed"
    /\ FamilyIsCurrent(c)
    /\ family' = [family EXCEPT ![f].rev = card[c].rev + 1, ![f].archived = ~card[c].archived]
    /\ card' = [card EXCEPT ![c] = NoCard]

CardStep(c) ==
    \/ \E f \in Families : ListFamily(c, f)
    \/ \E f \in Families, parent \in Families \cup {NoFamily} : CreateFamily(c, f, parent)
    \/ \E parent \in Families \cup {NoFamily} : SaveFamily(c, parent)
    \/ UpdateFamily(c) \/ RefuseFamily(c) \/ SetFamilyArchived(c) \/ PutAway(c)

FamilyNext == \E c \in Cards : CardStep(c)

FamilySpec == FamilyInit /\ [][FamilyNext]_familyVars

-----------------------------------------------------------------------------
(* Types of the families and of what the tabs act on.                        *)
CardRecord ==
    [pc : {"idle", "listed", "save"}, fam : Families \cup {NoFamily}, rev : Nat,
     parent : Families \cup {NoFamily}, archived : BOOLEAN]

FamilyTypeOK ==
    /\ family \in [Families -> FamilyRecord \cup {NoFamily}]
    /\ card \in [Cards -> CardRecord]

(* Two tabs that move families under one another at once do not make them    *)
(* each other's ancestors, and no parent is missing.                         *)
FamiliesAreAForest ==
    \A f \in Families :
        Exists(f) => /\ f \notin Chain(family[f].parent)
                     /\ \A g \in Chain(f) : Exists(g)

(* Saving a form that was opened before a family was archived or restored    *)
(* does not undo that.                                                       *)
SavingKeepsTheShelf ==
    [][\A f \in Families :
          Exists(f) /\ family'[f].archived # family[f].archived
            => family'[f].parent = family[f].parent
               /\ \E c \in Cards : card[c].pc = "listed" /\ card'[c].pc = "idle"]_familyVars
=============================================================================
