------------------------------ MODULE Rubrics -------------------------------
(* One rubric: its record and its versions (evaluation-repository.ts), and   *)
(* the pages that edit it (RubricDetail.tsx, RubricList.tsx).  The           *)
(* repository compares revisions; the pages read the record again before     *)
(* each write, and write with the revision they find.                        *)
EXTENDS Naturals, Sequences

CONSTANTS Desks,       \* tabs that show the rubric
          Texts,       \* what a version may say
          NoRubric,    \* no rubric, or nothing loaded
          MaxRubricRev \* bound: writes of the record

RubricRecord == [rev : Nat, latest : Nat, archived : BOOLEAN]

ASSUME RubricAssumption ==
    /\ MaxRubricRev \in Nat
    /\ NoRubric \notin RubricRecord

VARIABLES rubric,         \* the record
          rubricVersions, \* by number: what it says
          desk            \* per tab: what it does, shows and has read again

rubricVars == <<rubric, rubricVersions, desk>>

NoDesk == [pc |-> "closed", latest |-> 0, selected |-> 0, fresh |-> NoRubric]

RubricInit ==
    /\ rubric = NoRubric
    /\ rubricVersions = <<>>
    /\ desk = [d \in Desks |-> NoDesk]

(* createRubric, also of a copy: the record and version 1.                   *)
CreateRubric ==
    /\ rubric = NoRubric
    /\ rubric' = [rev |-> 1, latest |-> 1, archived |-> FALSE]
    /\ \E text \in Texts : rubricVersions' = <<text>>
    /\ UNCHANGED desk

(* load: the record and one of its versions; only the latest is a draft.     *)
LoadRubric(d) ==
    /\ rubric # NoRubric
    /\ desk[d].pc \in {"closed", "shown"}
    /\ \E n \in 1 .. rubric.latest :
          desk' = [desk EXCEPT ![d] = [pc |-> "shown", latest |-> rubric.latest,
                                       selected |-> n, fresh |-> NoRubric]]
    /\ UNCHANGED <<rubric, rubricVersions>>

LeaveRubric(d) ==
    /\ desk[d].pc # "closed"
    /\ desk' = [desk EXCEPT ![d] = NoDesk]
    /\ UNCHANGED <<rubric, rubricVersions>>

(* save, editAsNewVersion and toggleArchive begin by reading the record.     *)
Rereads(d, s) ==
    /\ desk[d].pc = "shown"
    /\ desk' = [desk EXCEPT ![d].pc = s, ![d].fresh = rubric]
    /\ UNCHANGED <<rubric, rubricVersions>>

SaveDraft(d)     == desk[d].selected = desk[d].latest /\ Rereads(d, "save")
EditAsNew(d)     == desk[d].selected # desk[d].latest /\ Rereads(d, "edit")
ToggleArchive(d) == Rereads(d, "toggle")

RubricIsCurrent(fresh) == rubric.rev = fresh.rev

(* The page shows an error and stays as it is.                               *)
RubricRefuses(d) ==
    /\ desk[d].pc \in {"save", "edit", "toggle"}
    /\ desk' = [desk EXCEPT ![d].pc = "shown", ![d].fresh = NoRubric]
    /\ UNCHANGED <<rubric, rubricVersions>>

(* Mutant of AppendRubric: the next number is taken from what the page shows.*)
AppendAtTheCopy(d) ==
    LET fresh == desk[d].fresh
        next  == desk[d].latest + 1
    IN
    /\ desk[d].pc \in {"save", "edit"}
    /\ rubric.rev < MaxRubricRev
    /\ RubricIsCurrent(fresh)
    /\ rubric' = [fresh EXCEPT !.rev = fresh.rev + 1, !.latest = next]
    /\ \E text \in Texts :
          rubricVersions' =
             [n \in DOMAIN rubricVersions \cup {next} |->
                 IF n = next THEN text ELSE rubricVersions[n]]
    /\ desk' = [desk EXCEPT ![d] = NoDesk]

(* appendRubricVersion: the next number is that of the row, and the version  *)
(* is put there.                                                             *)
AppendRubric(d) ==
    LET fresh == desk[d].fresh
        next  == rubric.latest + 1
    IN
    /\ desk[d].pc \in {"save", "edit"}
    /\ rubric.rev < MaxRubricRev
    /\ RubricIsCurrent(fresh)
    /\ rubric' = [fresh EXCEPT !.rev = fresh.rev + 1, !.latest = next]
    /\ \E text \in Texts :
          /\ (desk[d].pc = "edit") => text = rubricVersions[desk[d].selected]
          /\ rubricVersions' =
                [n \in DOMAIN rubricVersions \cup {next} |->
                    IF n = next THEN text ELSE rubricVersions[n]]
    /\ desk' = [desk EXCEPT ![d] = NoDesk]

(* archiveRubric or restoreRubric, by what was read: the page does the       *)
(* opposite of what it finds, not what its button says.                      *)
SetArchived(d) ==
    LET fresh == desk[d].fresh IN
    /\ desk[d].pc = "toggle"
    /\ rubric.rev < MaxRubricRev
    /\ RubricIsCurrent(fresh)
    /\ rubric' = [rubric EXCEPT !.rev = fresh.rev + 1, !.archived = ~fresh.archived]
    /\ desk' = [desk EXCEPT ![d] = NoDesk]
    /\ UNCHANGED rubricVersions

DeskStep(d) ==
    \/ LoadRubric(d) \/ LeaveRubric(d)
    \/ SaveDraft(d) \/ EditAsNew(d) \/ ToggleArchive(d)
    \/ AppendRubric(d) \/ SetArchived(d) \/ RubricRefuses(d)

RubricNext == CreateRubric \/ \E d \in Desks : DeskStep(d)

RubricSpec == RubricInit /\ [][RubricNext]_rubricVars

-----------------------------------------------------------------------------
(* Types; the versions are numbered from 1 to the latest.                    *)
RubricTypeOK ==
    /\ rubric \in RubricRecord \cup {NoRubric}
    /\ rubric # NoRubric => DOMAIN rubricVersions = 1 .. rubric.latest
    /\ rubric = NoRubric => rubricVersions = <<>>
    /\ \A n \in DOMAIN rubricVersions : rubricVersions[n] \in Texts
    /\ desk \in [Desks -> [pc : {"closed", "shown", "save", "edit", "toggle"},
                           latest : Nat, selected : Nat,
                           fresh : RubricRecord \cup {NoRubric}]]

(* A version that something is pinned to stays what it was: no append puts   *)
(* its version over an earlier one, however many pages append at once.       *)
VersionsAreKept ==
    [][\A n \in DOMAIN rubricVersions :
          n \in DOMAIN rubricVersions' /\ rubricVersions'[n] = rubricVersions[n]]_rubricVars

(* A version appended by one page does not undo the archiving or restoring   *)
(* of another: appending writes the archive date that its copy has.          *)
AppendKeepsTheShelf ==
    [][rubric # NoRubric /\ rubricVersions' # rubricVersions
          => rubric'.archived = rubric.archived]_rubricVars
=============================================================================
