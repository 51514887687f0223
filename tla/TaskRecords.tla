---------------------------- MODULE TaskRecords -----------------------------
(* One task of the library: its row, the record inside the row, and its      *)
(* immutable versions (task-repository.ts), edited by several tabs at once   *)
(* from copies of it that they loaded earlier (TaskRoute.tsx,                *)
(* TaskEditor.tsx).  A write is one transaction, which compares the revision *)
(* of the row with that of the copy.                                         *)
EXTENDS Naturals, Sequences

CONSTANTS Editors,     \* tabs that show the task
          Bodies,      \* what a version may say
          NoTask,      \* no task, or nothing loaded
          MaxTaskRev   \* bound: writes of the record

TaskRecord == [rev : Nat, latest : Nat, archived : BOOLEAN]
TaskRow    == [rev : Nat, latest : Nat, archived : BOOLEAN, rec : TaskRecord]

ASSUME TaskAssumption ==
    /\ MaxTaskRev \in Nat
    /\ NoTask \notin TaskRow \cup TaskRecord

VARIABLES task,        \* the row; .rec is the record inside it
          taskVersions,\* the versions, by number; .on is what the author was shown
          editor       \* per tab: what it does, and the record it loaded

taskVars == <<task, taskVersions, editor>>

NoEditor   == [pc |-> "closed", rec |-> NoTask]

TaskInit ==
    /\ task = NoTask
    /\ taskVersions = <<>>
    /\ editor = [e \in Editors |-> NoEditor]

(* createTask: the record and its version 1, in one transaction.             *)
InitialRecord == [rev |-> 0, latest |-> 1, archived |-> FALSE]

CreateTask(b) ==
    /\ task = NoTask
    /\ task' = [rev |-> 0, latest |-> 1, archived |-> FALSE, rec |-> InitialRecord]
    /\ taskVersions' = <<[body |-> b, on |-> 0]>>
    /\ UNCHANGED editor

-----------------------------------------------------------------------------
(* The route reads the record and then the version it calls the latest.      *)
OpenTask(e) ==
    /\ task # NoTask
    /\ editor' = [editor EXCEPT ![e] = [pc |-> "loading", rec |-> task.rec]]
    /\ UNCHANGED <<task, taskVersions>>

ShowTask(e) ==
    /\ editor[e].pc = "loading"
    /\ editor[e].rec.latest \in DOMAIN taskVersions
    /\ editor' = [editor EXCEPT ![e].pc = "shown"]
    /\ UNCHANGED <<task, taskVersions>>

LeaveTask(e) ==
    /\ editor[e].pc # "closed"
    /\ editor' = [editor EXCEPT ![e] = NoEditor]
    /\ UNCHANGED <<task, taskVersions>>

-----------------------------------------------------------------------------
(* The writes.  A refused one leaves the tab with its copy until it reloads; *)
(* after an accepted one the route loads the task again.                     *)
TaskIsCurrent(rec) == task.rev = rec.rev /\ task.rev < MaxTaskRev

Appends(rec) ==
    /\ TaskIsCurrent(rec)
    /\ rec.latest + 1 = task.latest + 1
    /\ rec.latest + 1 \notin DOMAIN taskVersions

(* Mutant of CommitVersion: the editor reads the task again before it writes.*)
CommitAfterReread(e, b) ==
    LET rec == task.rec IN
    /\ editor[e].pc = "shown"
    /\ ~rec.archived
    /\ b # taskVersions[editor[e].rec.latest].body
    /\ Appends(rec)
    /\ task' = [rev |-> rec.rev + 1, latest |-> rec.latest + 1, archived |-> task.archived,
                rec |-> [rec EXCEPT !.rev = rec.rev + 1, !.latest = rec.latest + 1]]
    /\ taskVersions' = Append(taskVersions, [body |-> b, on |-> editor[e].rec.latest])
    /\ editor' = [editor EXCEPT ![e] = NoEditor]

(* appendTaskVersion: the row keeps its own archive date, the record inside  *)
(* it takes that of the caller's copy.                                       *)
CommitVersion(e, b) ==
    LET rec == editor[e].rec IN
    /\ editor[e].pc = "shown"
    /\ ~rec.archived
    /\ b # taskVersions[rec.latest].body
    /\ Appends(rec)
    /\ task' = [rev |-> rec.rev + 1, latest |-> rec.latest + 1, archived |-> task.archived,
                rec |-> [rec EXCEPT !.rev = rec.rev + 1, !.latest = rec.latest + 1]]
    /\ taskVersions' = [n \in DOMAIN taskVersions \cup {rec.latest + 1} |->
                           IF n = rec.latest + 1 THEN [body |-> b, on |-> rec.latest]
                                                 ELSE taskVersions[n]]
    /\ editor' = [editor EXCEPT ![e] = NoEditor]

(* Mutant of Dated: the record inside the row keeps its old date.            *)
DatedInTheRowOnly(rec, archived) ==
    [task EXCEPT !.rev = rec.rev + 1, !.archived = archived, !.rec.archived = archived]

(* archiveTask and restoreTask: the archive date, in the row and the record. *)
Dated(rec, archived) ==
    [task EXCEPT !.rev = rec.rev + 1, !.archived = archived,
                 !.rec = [task.rec EXCEPT !.rev = rec.rev + 1, !.archived = archived]]

ArchiveTask(e) ==
    LET rec == editor[e].rec IN
    /\ editor[e].pc = "shown"
    /\ ~rec.archived
    /\ TaskIsCurrent(rec)
    /\ task' = Dated(rec, TRUE)
    /\ editor' = [editor EXCEPT ![e] = NoEditor]
    /\ UNCHANGED taskVersions

RestoreTask(e) ==
    LET rec == editor[e].rec IN
    /\ editor[e].pc = "shown"
    /\ rec.archived
    /\ TaskIsCurrent(rec)
    /\ task' = Dated(rec, FALSE)
    /\ editor' = [editor EXCEPT ![e] = NoEditor]
    /\ UNCHANGED taskVersions

EditorStep(e) ==
    \/ OpenTask(e) \/ ShowTask(e) \/ LeaveTask(e)
    \/ ArchiveTask(e) \/ RestoreTask(e)
    \/ \E b \in Bodies : CommitVersion(e, b)

TaskNext == (\E b \in Bodies : CreateTask(b)) \/ \E e \in Editors : EditorStep(e)

TaskSpec == TaskInit /\ [][TaskNext]_taskVars

-----------------------------------------------------------------------------
(* Types; what the row says and what the record inside it says is one thing, *)
(* and the versions are numbered from 1 to the latest.                       *)
TaskTypeOK ==
    /\ task \in TaskRow \cup {NoTask}
    /\ task # NoTask => task.rec = [rev |-> task.rev, latest |-> task.latest,
                                    archived |-> task.archived]
    /\ taskVersions \in Seq([body : Bodies, on : Nat])
    /\ Len(taskVersions) = IF task = NoTask THEN 0 ELSE task.latest
    /\ editor \in [Editors -> [pc : {"closed", "loading", "shown"},
                               rec : TaskRecord \cup {NoTask}]]

(* A copy that has the revision of the row is the record stored there.       *)
CopiesAreHonest ==
    \A e \in Editors :
        editor[e].pc # "closed" =>
            /\ task # NoTask
            /\ editor[e].rec \in TaskRecord
            /\ editor[e].rec.rev <= task.rev
            /\ editor[e].rec.rev = task.rev => editor[e].rec = task.rec

Log == INSTANCE VersionLog
         WITH log <- taskVersions, shelved <- (task # NoTask /\ task.archived)

(* However many tabs edit, archive and restore it from copies of any age, a  *)
(* task is a line of versions, each written by somebody who was shown the    *)
(* one before it, and grows only while it is not archived.                   *)
TaskIsVersionLog == Log!LogSpec
=============================================================================
