------------------------------- MODULE TaskSets -------------------------------
(* One task set: the suite row the editor shows, the canonical Task Set and  *)
(* its immutable versions, and the workloads that runs are given             *)
(* (evaluation-repository.ts, task-set-repository.ts).  Pages load it, edit  *)
(* it, save it and run it (TaskSetEditor.tsx, TaskSetList.tsx), and the      *)
(* results page adds a model to it (suite-roster-extension.ts), each as a    *)
(* chain of reads and one transaction, compared by revision.  The Task Set   *)
(* of a suite older than Task Sets was numbered by task-set-migration.ts.    *)
EXTENDS Integers, FiniteSets, Sequences

CONSTANTS Pages,      \* the open pages
          Tasks,      \* tasks that a set may contain
          Models,     \* models that the results page may add
          Marks,      \* roles, strata and weights set on a member
          Pasts,      \* histories of suites older than Task Sets
          None,       \* no suite, no Task Set, nothing loaded
          MaxVersion, \* bound: versions of the Task Set
          MaxEdits    \* bound: how far a draft is from what was loaded or sent

Content == SUBSET (Tasks \cup Models \cup Marks)
Suite   == [row : Nat, rev : Nat, ver : Nat, body : Content, archived : BOOLEAN]
Set     == [rev : Nat, latest : Nat]

ASSUME TaskSetsAssumption ==
    /\ MaxVersion \in Nat /\ MaxEdits \in Nat
    /\ Marks \cap (Tasks \cup Models) = {}
    /\ None \notin Suite \cup Set
    /\ \A p \in Pasts : /\ p \in Seq([ver : Nat, body : Content])
                        /\ \A i \in 1 .. Len(p) - 1 : p[i].ver <= p[i + 1].ver

VARIABLES suite,    \* the row of the suite: both its revisions, and the suite
          set,      \* the row of the Task Set: its revision and latest version
          versions, \* the immutable versions, by number
          page,     \* per page: what it loaded, what it shows, what it does
          roster,   \* the addition of a model that is under way
          begun,    \* a run of this task set was started
          past      \* what the suite was before the migration

setVars == <<suite, set, versions, page, roster, begun, past>>

Saving   == {"record", "commit", "settle"}
Stage    == {"closed", "idle", "read", "run", "create", "resolve", "start"} \cup Saving
Closed   == [pc |-> "closed", base |-> None, draft |-> {}, sent |-> {},
             seen |-> None, work |-> None]
NoRoster == [pc |-> "idle", model |-> None, base |-> None, seen |-> None, from |-> {}]

(* projectTaskSetVersion: what a version keeps of a suite.  Every member is  *)
(* written as an organic one of weight 1.                                    *)
Projected(body) == body \ Marks

(* The migration numbers the contents a suite had, by first appearance among *)
(* the executed experiments, oldest first, and the suite as it is now.       *)
FirstSeen(p)  == {i \in DOMAIN p : \A j \in 1 .. i - 1 : p[j].body # p[i].body}
Numbered(p) ==
    [n \in 1 .. Cardinality(FirstSeen(p)) |->
        p[CHOOSE i \in FirstSeen(p) : Cardinality({j \in FirstSeen(p) : j <= i}) = n].body]

SetsInit ==
    /\ past \in Pasts \cup {<<>>}
    /\ IF past = <<>>
         THEN suite = None /\ set = None /\ versions = <<>>
         ELSE /\ suite = [row |-> 1, rev |-> 1, ver |-> past[Len(past)].ver,
                          body |-> past[Len(past)].body, archived |-> FALSE]
              /\ versions = Numbered(past)
              /\ set = [rev |-> 0, latest |-> Len(Numbered(past))]
    /\ page = [p \in Pages |-> Closed]
    /\ roster = NoRoster
    /\ begun = (Len(past) > 1)

Goes(p, s)  == page' = [page EXCEPT ![p].pc = s]
Distance(b, c) == Cardinality((b \ c) \cup (c \ b))

(* The draft stays after a refusal.                                          *)
Refused(p) ==
    page' = [page EXCEPT ![p] = [Closed EXCEPT !.pc = "idle", !.base = page[p].base,
                                               !.draft = page[p].draft]]
Stored      == <<suite, set, versions>>

-----------------------------------------------------------------------------
(* The list: a new blank set, a copy or an import is one row of suites, at   *)
(* version 1; archiving counts up the revision of the row, not the suite's.  *)
Create(body) ==
    /\ suite = None
    /\ suite' = [row |-> 1, rev |-> 1, ver |-> 1, body |-> body, archived |-> FALSE]
    /\ UNCHANGED <<set, versions, page, roster, begun, past>>

Archive ==
    /\ suite # None
    /\ ~suite.archived   \* bound: archived once
    /\ suite' = [suite EXCEPT !.archived = TRUE, !.row = @ + 1]
    /\ UNCHANGED <<set, versions, page, roster, begun, past>>

(* The editor.  Typing is possible also while a save is under way.           *)
Load(p) ==
    /\ suite # None
    /\ page[p].pc \in {"closed", "idle"}
    /\ page' = [page EXCEPT ![p] = [Closed EXCEPT !.pc = "idle", !.base = suite,
                                                  !.draft = suite.body]]
    /\ UNCHANGED <<Stored, roster, begun, past>>

Leave(p) ==
    /\ page[p].pc # "closed"
    /\ page' = [page EXCEPT ![p] = Closed]
    /\ UNCHANGED <<Stored, roster, begun, past>>

Edit(p, e) ==
    /\ page[p].pc \in {"idle", "read"} \cup Saving
    /\ page' = [page EXCEPT ![p].draft = IF e \in @ THEN @ \ {e} ELSE @ \cup {e}]
    /\ Distance(page'[p].draft, IF page[p].pc = "idle" THEN page[p].base.body
                                                      ELSE page[p].sent) <= MaxEdits
    /\ UNCHANGED <<Stored, roster, begun, past>>

(* handleSave: the suite and the Task Set are read, one after the other,     *)
(* and written in one transaction.                                           *)
Save(p) ==
    /\ page[p].pc = "idle"
    /\ page[p].draft # page[p].base.body
    /\ page' = [page EXCEPT ![p].pc = "read", ![p].sent = page[p].draft]
    /\ UNCHANGED <<Stored, roster, begun, past>>

SaveReadsSuite(p) ==
    /\ page[p].pc = "read"
    /\ IF suite.rev = page[p].base.rev THEN Goes(p, "record")
                                       ELSE Refused(p)
    /\ UNCHANGED <<Stored, roster, begun, past>>

SaveReadsSet(p) ==
    /\ page[p].pc = "record"
    /\ IF set = None
         THEN Refused(p)
         ELSE page' = [page EXCEPT ![p].pc = "commit", ![p].seen = set]
    /\ UNCHANGED <<Stored, roster, begun, past>>

(* Mutant of Current: the row of the suite is not compared.                  *)
CurrentOfSetOnly(base, seen) ==
    /\ set.rev = seen.rev
    /\ seen.latest + 1 = set.latest + 1
    /\ seen.latest + 1 \notin DOMAIN versions

(* saveSuiteAndTaskSetVersion: both rows are as they were read, the version  *)
(* is the next one and is new; then all three are written, or nothing is.    *)
Current(base, seen) ==
    /\ suite.row = base.rev
    /\ set.rev = seen.rev
    /\ seen.latest + 1 = set.latest + 1
    /\ seen.latest + 1 \notin DOMAIN versions

(* The versions with one stored at n.                                        *)
With(n, version) ==
    [k \in DOMAIN versions \cup {n} |-> IF k = n THEN version ELSE versions[k]]

(* Mutant of Publish: the suite keeps its old number.                        *)
PublishOldNumber(base, seen, body, version) ==
    /\ seen.latest < MaxVersion
    /\ versions' = With(seen.latest + 1, version)
    /\ set' = [rev |-> seen.rev + 1, latest |-> seen.latest + 1]
    /\ suite' = [row |-> base.rev + 1, rev |-> base.rev + 1, ver |-> base.ver,
                 body |-> body, archived |-> base.archived]

Publish(base, seen, body, version) ==
    /\ seen.latest < MaxVersion
    /\ versions' = With(seen.latest + 1, version)
    /\ set' = [rev |-> seen.rev + 1, latest |-> seen.latest + 1]
    /\ suite' = [row |-> base.rev + 1, rev |-> base.rev + 1, ver |-> seen.latest + 1,
                 body |-> body, archived |-> base.archived]

HasTasks(body) == body \cap Tasks # {}

SaveCommits(p) ==
    LET me == page[p] IN
    /\ me.pc = "commit"
    /\ IF HasTasks(Projected(me.sent)) /\ Current(me.base, me.seen)
         THEN /\ Publish(me.base, me.seen, me.sent, Projected(me.sent))
              /\ Goes(p, "settle")
         ELSE Refused(p) /\ UNCHANGED Stored
    /\ UNCHANGED <<roster, begun, past>>

(* After the save the page shows what is stored by then, with the revision   *)
(* its own save made, and runs that when the user asked to save and run.     *)
(* When the read fails, the page says that the save did.                     *)
SaveSettles(p) ==
    /\ page[p].pc = "settle"
    /\ LET settled == [suite EXCEPT !.rev = page[p].base.rev + 1]
       IN \E s \in {"idle", "run"} :
            page' = [page EXCEPT ![p] = [Closed EXCEPT !.pc = s, !.base = settled,
                                                       !.draft = settled.body]]
    /\ UNCHANGED <<Stored, roster, begun, past>>

(* A read, or a transaction before it commits, fails.                        *)
StorageFails(p) ==
    /\ page[p].pc \in {"read", "run", "create", "resolve", "start"} \cup Saving
    /\ Refused(p)
    /\ UNCHANGED <<Stored, roster, begun, past>>

-----------------------------------------------------------------------------
(* handleRun: what is shown is saved, is complete and is not archived.       *)
Run(p) ==
    /\ page[p].pc = "idle"
    /\ page[p].draft = page[p].base.body
    /\ HasTasks(page[p].draft)
    /\ ~page[p].base.archived
    /\ Goes(p, "run")
    /\ UNCHANGED <<Stored, roster, begun, past>>

(* materializeWorkloadBeforeRun: a suite without a Task Set is given one,    *)
(* then the version with the number of the suite is frozen and stored.       *)
RunReadsSet(p) ==
    /\ page[p].pc = "run"
    /\ Goes(p, IF set = None THEN "create" ELSE "resolve")
    /\ UNCHANGED <<Stored, roster, begun, past>>

CreatesTaskSet(base) ==
    /\ base.ver = 1
    /\ HasTasks(Projected(base.body))
    /\ set = None

RunCreates(p) ==
    LET base == page[p].base IN
    /\ page[p].pc = "create"
    /\ \/ /\ CreatesTaskSet(base)
          /\ set' = [rev |-> base.rev, latest |-> 1]
          /\ versions' = With(1, Projected(base.body))
          /\ Goes(p, "resolve")
       \/ /\ ~CreatesTaskSet(base)
          /\ Refused(p)
          /\ UNCHANGED <<set, versions>>
    /\ UNCHANGED <<suite, roster, begun, past>>

(* Mutant of RunMaterializes: the newest version, not that of the page.      *)
RunMaterializesLatest(p) ==
    /\ page[p].pc = "resolve"
    /\ page' = [page EXCEPT ![p].pc = "start", ![p].work = versions[set.latest]]
    /\ UNCHANGED <<Stored, roster, begun, past>>

(* A member that is archived or does not resolve refuses the run.            *)
RunMaterializes(p) ==
    LET base == page[p].base IN
    /\ page[p].pc = "resolve"
    /\ IF base.ver \in DOMAIN versions
         THEN \/ /\ HasTasks(versions[base.ver])
                 /\ page' = [page EXCEPT ![p].pc = "start",
                                         ![p].work = versions[base.ver]]
              \/ Refused(p)
         ELSE Refused(p)
    /\ UNCHANGED <<Stored, roster, begun, past>>

(* controller.start begins the experiment or says why it does not.           *)
RunStarts(p) ==
    /\ page[p].pc = "start"
    /\ Refused(p)
    /\ begun' \in {begun, TRUE}
    /\ UNCHANGED <<Stored, roster, past>>

-----------------------------------------------------------------------------
(* appendModelToSuite, of an experiment of this task set: the suite, the     *)
(* Task Set and its latest version are read one by one, then both get the    *)
(* model.  Any refusal leaves the model to the results alone.                *)
AddModel(m) ==
    /\ roster.pc = "idle"
    /\ begun
    /\ roster' = IF suite.archived \/ m \in suite.body
                   THEN NoRoster
                   ELSE [NoRoster EXCEPT !.pc = "set", !.model = m, !.base = suite]
    /\ UNCHANGED <<Stored, page, begun, past>>

RosterReadsSet ==
    /\ roster.pc = "set"
    /\ roster' = [roster EXCEPT !.pc = "version", !.seen = set]
    /\ UNCHANGED <<Stored, page, begun, past>>

RosterReadsVersion ==
    /\ roster.pc = "version"
    /\ roster' = IF roster.seen.latest \in DOMAIN versions
                   THEN [roster EXCEPT !.pc = "commit", !.from = versions[roster.seen.latest]]
                   ELSE NoRoster
    /\ UNCHANGED <<Stored, page, begun, past>>

RosterCommits ==
    /\ roster.pc = "commit"
    /\ IF Current(roster.base, roster.seen)
         THEN Publish(roster.base, roster.seen, roster.base.body \cup {roster.model},
                      roster.from \cup {roster.model})
         ELSE UNCHANGED Stored
    /\ roster' = NoRoster
    /\ UNCHANGED <<page, begun, past>>

RosterFails ==
    /\ roster.pc # "idle"
    /\ roster' = NoRoster
    /\ UNCHANGED <<Stored, page, begun, past>>

PageStep(p) ==
    \/ Load(p) \/ Leave(p) \/ \E e \in Tasks \cup Models \cup Marks : Edit(p, e)
    \/ Save(p) \/ SaveReadsSuite(p) \/ SaveReadsSet(p) \/ SaveCommits(p)
    \/ SaveSettles(p) \/ StorageFails(p)
    \/ Run(p) \/ RunReadsSet(p) \/ RunCreates(p) \/ RunMaterializes(p) \/ RunStarts(p)

SetsNext ==
    \/ \E body \in {{}} \cup {{t} : t \in Tasks} : Create(body)
    \/ Archive
    \/ \E p \in Pages : PageStep(p)
    \/ \E m \in Models : AddModel(m)
    \/ RosterReadsSet \/ RosterReadsVersion \/ RosterCommits \/ RosterFails

SetsSpec == SetsInit /\ [][SetsNext]_setVars

-----------------------------------------------------------------------------
(* Types; the versions are numbered from 1 to the latest, and a page that    *)
(* does anything has loaded the suite.                                       *)
SetsTypeOK ==
    /\ suite \in Suite \cup {None}
    /\ set \in Set \cup {None}
    /\ DOMAIN versions = 1 .. (IF set = None THEN 0 ELSE set.latest)
    /\ \A n \in DOMAIN versions : versions[n] \in Content
    /\ \A p \in Pages :
          /\ page[p].pc \in Stage
          /\ page[p].base \in Suite \cup {None}
          /\ (page[p].base = None) = (page[p].pc = "closed")
          /\ page[p].draft \in Content
    /\ roster.model \in Models \cup {None}

(* Whoever publishes a version, the editor or the results page, started from *)
(* what is stored at that moment: no version silently undoes the edits of    *)
(* the one before it, and none brings back a set archived meanwhile.         *)
BasedOnCurrent ==
    [][versions' # versions =>
         /\ suite'.archived = suite.archived
         /\ \/ \E p \in Pages : /\ page'[p] # page[p]
                                /\ page[p].base.body = suite.body
                                /\ page[p].base.ver = suite.ver
            \/ roster' # roster /\ roster.base.body = suite.body]_setVars

(* The suite the editor shows is the latest version of its Task Set.         *)
Aligned ==
    set = None \/ /\ suite.ver = set.latest
                  /\ Projected(suite.body) = versions[set.latest]

(* What two tables say of one task set never comes apart: once the suite row *)
(* is the latest version, every save, sync and first run leaves it so, for a *)
(* migrated suite too.                                                       *)
StaysAligned == [][Aligned => Aligned']_setVars

RunsItsSuite(p) ==
    page[p].pc = "start" => page[p].work = Projected(page[p].base.body)

(* A run of a task set made with this version of the program is given what   *)
(* its page showed, also when others saved meanwhile: members and models, as *)
(* far as a version keeps them.                                              *)
RunsWhatIsShown == past = <<>> => \A p \in Pages : RunsItsSuite(p)

(* "Run a clean, persisted suite: materialize immutable workload, then       *)
(* start" (TaskSetEditor.tsx:451): of any suite, a migrated one too.         *)
RunsThePersistedSuite == \A p \in Pages : RunsItsSuite(p)
=============================================================================
