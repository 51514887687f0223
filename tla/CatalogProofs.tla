--------------------------- MODULE CatalogProofs ----------------------------
(* What TaskSets, TaskRecords, Rubrics, TaskFamilies and FamilyLinks promise *)
(* for any number of tabs, versions and families.                            *)
EXTENDS MCCatalog, SequenceTheorems, FiniteSetTheorems, TLAPS

-----------------------------------------------------------------------------
(* A task.  What makes its type inductive, and a write of a stale copy       *)
(* impossible, is that a copy with the revision of the row is the record.    *)
HasAVersion == task # NoTask => task.latest # 0

TaskInv == TaskTypeOK /\ CopiesAreHonest /\ HasAVersion

LEMMA TaskInvInit == TaskInit => TaskInv
BY DEF TaskInit, TaskInv, TaskTypeOK, CopiesAreHonest, HasAVersion, NoEditor

(* Putting a version at the number after the last one appends it.            *)
LEMMA PutAfterLast ==
    ASSUME NEW S, NEW s \in Seq(S), NEW x \in S
    PROVE  [n \in DOMAIN s \cup {Len(s) + 1} |-> IF n = Len(s) + 1 THEN x ELSE s[n]]
              = Append(s, x)
<1> DEFINE t == [n \in DOMAIN s \cup {Len(s) + 1} |-> IF n = Len(s) + 1 THEN x ELSE s[n]]
<1>1. DOMAIN s \cup {Len(s) + 1} = 1 .. Len(s) + 1
  OBVIOUS
<1>2. t \in [1 .. Len(s) + 1 -> S]
  BY <1>1
<1>3. Append(s, x) \in [1 .. Len(s) + 1 -> S]
  <2>1. Append(s, x) \in Seq(S) /\ Len(Append(s, x)) = Len(s) + 1
    BY AppendProperties
  <2>2. Append(s, x) \in [1 .. Len(Append(s, x)) -> S]
    BY <2>1, LenProperties
  <2> QED
    BY <2>1, <2>2
<1>4. \A i \in 1 .. Len(s) + 1 : t[i] = Append(s, x)[i]
  BY <1>1
<1> QED
  BY <1>2, <1>3, <1>4

(* What the two kinds of write make of the record of a task or a rubric.     *)
VersionedRecord == [rev : Nat, latest : Nat, archived : BOOLEAN]

LEMMA RenumberedRecord ==
    ASSUME NEW r \in VersionedRecord, NEW x \in Nat, NEW n \in Nat
    PROVE  [r EXCEPT !.rev = x, !.latest = n]
              = [rev |-> x, latest |-> n, archived |-> r.archived]
<1> DEFINE q == [r EXCEPT !.rev = x, !.latest = n]
           w == [rev |-> x, latest |-> n, archived |-> r.archived]
<1>1. q \in VersionedRecord /\ w \in VersionedRecord
  BY DEF VersionedRecord
<1>2. q.rev = w.rev /\ q.latest = w.latest /\ q.archived = w.archived
  BY DEF VersionedRecord
<1> HIDE DEF q, w
<1>3. q = w
  BY <1>1, <1>2 DEF VersionedRecord
<1> QED
  BY <1>3 DEF q, w

LEMMA RedatedRecord ==
    ASSUME NEW r \in VersionedRecord, NEW x \in Nat, NEW a \in BOOLEAN
    PROVE  [r EXCEPT !.rev = x, !.archived = a]
              = [rev |-> x, latest |-> r.latest, archived |-> a]
<1> DEFINE q == [r EXCEPT !.rev = x, !.archived = a]
           w == [rev |-> x, latest |-> r.latest, archived |-> a]
<1>1. q \in VersionedRecord /\ w \in VersionedRecord
  BY DEF VersionedRecord
<1>2. q.rev = w.rev /\ q.latest = w.latest /\ q.archived = w.archived
  BY DEF VersionedRecord
<1> HIDE DEF q, w
<1>3. q = w
  BY <1>1, <1>2 DEF VersionedRecord
<1> QED
  BY <1>3 DEF q, w

(* A new task is one version; nobody has a copy of it yet.                   *)
LEMMA CreateKeepsTaskInv ==
    ASSUME TaskInv, NEW b \in Bodies, CreateTask(b)
    PROVE  TaskInv'
<1>1. task' \in TaskRow /\ task' # NoTask
  <2>1. InitialRecord \in TaskRecord
    BY DEF InitialRecord, TaskRecord
  <2>2. task' \in TaskRow
    BY <2>1 DEF CreateTask, TaskRow
  <2> QED
    BY <2>2, TaskAssumption
<1>2. /\ taskVersions' = <<[body |-> b, on |-> 0]>>
      /\ taskVersions' \in Seq([body : Bodies, on : Nat])
      /\ Len(taskVersions') = 1
  BY DEF CreateTask
<1>3. \A e \in Editors : editor'[e].pc = "closed"
  BY DEF CreateTask, TaskInv, TaskTypeOK, CopiesAreHonest
<1> QED
  BY <1>1, <1>2, <1>3
  DEF CreateTask, TaskInv, TaskTypeOK, CopiesAreHonest, HasAVersion, InitialRecord

(* A commit writes what its author was shown, for its copy is the record.    *)
LEMMA CommitWritesTheNext ==
    ASSUME TaskInv, NEW e \in Editors, NEW b \in Bodies, CommitVersion(e, b)
    PROVE  /\ task \in TaskRow /\ ~task.archived /\ editor[e].rec = task.rec
           /\ taskVersions' = Append(taskVersions, [body |-> b, on |-> Len(taskVersions)])
           /\ task' = [rev |-> task.rev + 1, latest |-> task.latest + 1, archived |-> task.archived,
                       rec |-> [rev |-> task.rev + 1, latest |-> task.latest + 1,
                                archived |-> task.archived]]
<1> DEFINE rec == editor[e].rec
<1>1. /\ task \in TaskRow
      /\ rec = task.rec
      /\ rec = [rev |-> task.rev, latest |-> task.latest, archived |-> task.archived]
      /\ Len(taskVersions) = task.latest
      /\ task.latest \in Nat /\ task.rev \in Nat
  BY DEF TaskInv, TaskTypeOK, CopiesAreHonest, CommitVersion, Appends, TaskIsCurrent,
         TaskRow
<1>2. ~task.archived
  BY <1>1 DEF CommitVersion
<1>3. taskVersions \in Seq([body : Bodies, on : Nat])
  BY DEF TaskInv, TaskTypeOK
<1>4. taskVersions' = Append(taskVersions, [body |-> b, on |-> Len(taskVersions)])
  <2>1. rec.latest = Len(taskVersions)
    BY <1>1
  <2>2. taskVersions' = [n \in DOMAIN taskVersions \cup {Len(taskVersions) + 1} |->
                           IF n = Len(taskVersions) + 1
                           THEN [body |-> b, on |-> Len(taskVersions)]
                           ELSE taskVersions[n]]
    BY <2>1 DEF CommitVersion
  <2>3. [body |-> b, on |-> Len(taskVersions)] \in [body : Bodies, on : Nat]
    BY <1>1
  <2> QED
    BY <1>3, <2>2, <2>3, PutAfterLast
<1>5. task' = [rev |-> task.rev + 1, latest |-> task.latest + 1, archived |-> task.archived,
               rec |-> [rev |-> task.rev + 1, latest |-> task.latest + 1,
                        archived |-> task.archived]]
  <2>1. rec.rev = task.rev /\ rec.latest = task.latest
    BY <1>1
  <2>2. [rec EXCEPT !.rev = rec.rev + 1, !.latest = rec.latest + 1]
          = [rev |-> task.rev + 1, latest |-> task.latest + 1, archived |-> task.archived]
    <3>1. rec \in VersionedRecord
      BY <1>1 DEF TaskRow, TaskRecord, VersionedRecord
    <3>2. rec.archived = task.archived
      BY <1>1
    <3>3. rec.rev + 1 \in Nat /\ rec.latest + 1 \in Nat
      BY <1>1, <2>1
    <3> HIDE DEF rec
    <3>4. [rec EXCEPT !.rev = rec.rev + 1, !.latest = rec.latest + 1]
            = [rev |-> rec.rev + 1, latest |-> rec.latest + 1, archived |-> rec.archived]
      BY <3>1, <3>3, RenumberedRecord
    <3> QED
      BY <2>1, <3>2, <3>4
  <2>3. task' = [rev |-> rec.rev + 1, latest |-> rec.latest + 1, archived |-> task.archived,
                 rec |-> [rec EXCEPT !.rev = rec.rev + 1, !.latest = rec.latest + 1]]
    BY DEF CommitVersion
  <2> QED
    BY <2>1, <2>2, <2>3
<1> QED
  BY <1>1, <1>2, <1>4, <1>5

LEMMA CommitKeepsTaskInv ==
    ASSUME TaskInv, NEW e \in Editors, NEW b \in Bodies, CommitVersion(e, b)
    PROVE  TaskInv'
<1>0. /\ task \in TaskRow /\ ~task.archived /\ editor[e].rec = task.rec
      /\ taskVersions' = Append(taskVersions, [body |-> b, on |-> Len(taskVersions)])
      /\ task' = [rev |-> task.rev + 1, latest |-> task.latest + 1, archived |-> task.archived,
                  rec |-> [rev |-> task.rev + 1, latest |-> task.latest + 1,
                           archived |-> task.archived]]
  BY CommitWritesTheNext
<1>1. task.rev \in Nat /\ task.latest \in Nat /\ Len(taskVersions) = task.latest
  BY <1>0, TaskAssumption DEF TaskInv, TaskTypeOK, TaskRow
<1>2. task' \in TaskRow /\ task' # NoTask
  <2>0. task.archived \in BOOLEAN
    BY <1>0 DEF TaskRow
  <2>1. task'.rec \in TaskRecord
    <3>1. [rev |-> task.rev + 1, latest |-> task.latest + 1, archived |-> task.archived]
             \in TaskRecord
      BY <1>1, <2>0 DEF TaskRecord
    <3> QED
      BY <1>0, <3>1
  <2>2. task' \in TaskRow
    BY <1>0, <1>1, <2>0, <2>1 DEF TaskRow
  <2> QED
    BY <2>2, TaskAssumption
<1>3. /\ taskVersions' \in Seq([body : Bodies, on : Nat])
      /\ Len(taskVersions') = task.latest + 1
  <2>1. taskVersions \in Seq([body : Bodies, on : Nat])
    BY DEF TaskInv, TaskTypeOK
  <2>2. [body |-> b, on |-> Len(taskVersions)] \in [body : Bodies, on : Nat]
    BY <2>1
  <2> QED
    BY <1>0, <1>1, <2>1, <2>2
<1>4. editor' = [editor EXCEPT ![e] = NoEditor]
  BY DEF CommitVersion
<1>5. editor' \in [Editors -> [pc : {"closed", "loading", "shown"},
                               rec : TaskRecord \cup {NoTask}]]
  BY <1>4 DEF TaskInv, TaskTypeOK, NoEditor
<1>6. TaskTypeOK'
  BY <1>0, <1>2, <1>3, <1>5 DEF TaskTypeOK
<1>7. CopiesAreHonest'
  <2>1. task'.rev = task.rev + 1
    BY <1>0
  <2> SUFFICES ASSUME NEW x \in Editors, editor'[x].pc # "closed"
               PROVE  /\ editor'[x].rec \in TaskRecord
                      /\ editor'[x].rec.rev <= task.rev + 1
                      /\ editor'[x].rec.rev # task.rev + 1
    BY <1>2, <2>1 DEF CopiesAreHonest
  <2>2. /\ x # e /\ editor'[x] = editor[x]
        /\ editor[x].rec \in TaskRecord /\ editor[x].rec.rev <= task.rev
    BY <1>4 DEF TaskInv, TaskTypeOK, CopiesAreHonest, NoEditor
  <2> QED
    BY <1>1, <2>2 DEF TaskRecord
<1>8. HasAVersion'
  BY <1>0, <1>1 DEF HasAVersion
<1> QED
  BY <1>6, <1>7, <1>8 DEF TaskInv

(* Archiving and restoring date the row and the record in it alike.          *)
LEMMA DateKeepsTaskInv ==
    ASSUME TaskInv, NEW e \in Editors, NEW a \in BOOLEAN,
           editor[e].pc = "shown", TaskIsCurrent(editor[e].rec),
           task' = Dated(editor[e].rec, a),
           editor' = [editor EXCEPT ![e] = NoEditor], UNCHANGED taskVersions
    PROVE  /\ TaskInv'
           /\ task # NoTask /\ editor[e].rec.archived = task.archived
           /\ task' # NoTask /\ task'.archived = a
<1>1. /\ task \in TaskRow /\ task # NoTask
      /\ editor[e].rec.rev = task.rev /\ task.rev \in Nat /\ task.latest \in Nat
      /\ task.rec = [rev |-> task.rev, latest |-> task.latest, archived |-> task.archived]
      /\ editor[e].rec.archived = task.archived
  BY DEF TaskInv, TaskTypeOK, CopiesAreHonest, TaskIsCurrent, TaskRow
<1>2. task' = [rev |-> task.rev + 1, latest |-> task.latest, archived |-> a,
               rec |-> [rev |-> task.rev + 1, latest |-> task.latest, archived |-> a]]
  <2>1. task = [rev |-> task.rev, latest |-> task.latest, archived |-> task.archived,
                rec |-> task.rec]
    BY <1>1 DEF TaskRow
  <2>2. [task.rec EXCEPT !.rev = editor[e].rec.rev + 1, !.archived = a]
          = [rev |-> task.rev + 1, latest |-> task.latest, archived |-> a]
    <3>1. task.rec \in VersionedRecord
      BY <1>1 DEF TaskRow, TaskRecord, VersionedRecord
    <3>2. /\ task.rec.latest = task.latest /\ editor[e].rec.rev = task.rev
          /\ task.rev + 1 \in Nat
      BY <1>1
    <3> QED
      BY <3>1, <3>2, RedatedRecord, ZenonT(30)
  <2> QED
    BY <1>1, <2>1, <2>2 DEF Dated
<1>3. task' \in TaskRow /\ task' # NoTask
  BY <1>1, <1>2, TaskAssumption DEF TaskRow, TaskRecord
<1>4. editor' \in [Editors -> [pc : {"closed", "loading", "shown"},
                               rec : TaskRecord \cup {NoTask}]]
  BY DEF TaskInv, TaskTypeOK, NoEditor
<1>5. TaskTypeOK'
  BY <1>1, <1>2, <1>3, <1>4 DEF TaskInv, TaskTypeOK
<1>6. CopiesAreHonest'
  <2> SUFFICES ASSUME NEW x \in Editors, editor'[x].pc # "closed"
               PROVE  /\ editor'[x].rec \in TaskRecord
                      /\ editor'[x].rec.rev <= task.rev
    BY <1>1, <1>2, <1>3 DEF CopiesAreHonest, TaskRecord
  <2> QED
    BY DEF TaskInv, TaskTypeOK, CopiesAreHonest, NoEditor
<1>7. HasAVersion'
  BY <1>1, <1>2 DEF TaskInv, HasAVersion
<1> QED
  BY <1>1, <1>2, <1>3, <1>5, <1>6, <1>7 DEF TaskInv

(* Every step keeps it.                                                      *)
LEMMA TaskStepKeepsTaskInv ==
    ASSUME TaskInv, [TaskNext]_taskVars
    PROVE  TaskInv'
<1>1. CASE UNCHANGED taskVars
  BY <1>1 DEF taskVars, TaskInv, TaskTypeOK, CopiesAreHonest, HasAVersion
<1>2. ASSUME NEW b \in Bodies, CreateTask(b) PROVE TaskInv'
  BY <1>2, CreateKeepsTaskInv
<1>3. ASSUME NEW e \in Editors, EditorStep(e) PROVE TaskInv'
  <2>1. CASE OpenTask(e)
    BY <2>1 DEF OpenTask, TaskInv, TaskTypeOK, CopiesAreHonest, HasAVersion,
                TaskRow, TaskRecord
  <2>2. CASE ShowTask(e)
    BY <2>2 DEF ShowTask, TaskInv, TaskTypeOK, CopiesAreHonest, HasAVersion
  <2>3. CASE LeaveTask(e)
    BY <2>3 DEF LeaveTask, TaskInv, TaskTypeOK, CopiesAreHonest, HasAVersion, NoEditor
  <2>4. CASE ArchiveTask(e)
    BY <2>4, DateKeepsTaskInv DEF ArchiveTask
  <2>5. CASE RestoreTask(e)
    BY <2>5, DateKeepsTaskInv DEF RestoreTask
  <2>6. ASSUME NEW b \in Bodies, CommitVersion(e, b) PROVE TaskInv'
    BY <2>6, CommitKeepsTaskInv
  <2> QED
    BY <1>3, <2>1, <2>2, <2>3, <2>4, <2>5, <2>6 DEF EditorStep
<1> QED
  BY <1>1, <1>2, <1>3 DEF TaskNext

(* The types hold, the row and the record inside it never come apart, and a  *)
(* copy with the revision of the row is the record: appends, archivings and  *)
(* restorations from copies of any age (TaskRecords).                        *)
THEOREM TaskInvariance == TaskSpec => [](TaskTypeOK /\ CopiesAreHonest)
<1>1. TaskInit => TaskInv
  BY TaskInvInit
<1>2. TaskInv /\ [TaskNext]_taskVars => TaskInv'
  BY TaskStepKeepsTaskInv
<1> QED
  BY <1>1, <1>2, PTL DEF TaskSpec, TaskInv

(* For any tabs and any number of versions the library's task is the line of *)
(* versions with a shelf that VersionLog promises (TaskRecords implements    *)
(* VersionLog).                                                              *)
THEOREM TasksAreVersionLogs == TaskSpec => TaskIsVersionLog
<1>1. TaskInit => Log!LogInit
  BY DEF TaskInit, Log!LogInit
<1>2. TaskInv /\ [TaskNext]_taskVars => [Log!LogNext]_(Log!logVars)
  <2> SUFFICES ASSUME TaskInv, [TaskNext]_taskVars
               PROVE  [Log!LogNext]_(Log!logVars)
    OBVIOUS
  <2>1. CASE UNCHANGED taskVars
    BY <2>1 DEF taskVars, Log!logVars
  <2>2. ASSUME NEW b \in Bodies, CreateTask(b) PROVE Log!Publish(b)
    <3>1. /\ taskVersions = <<>> /\ task = NoTask
          /\ taskVersions' = <<[body |-> b, on |-> 0]>> /\ ~task'.archived
      BY <2>2 DEF TaskInv, TaskTypeOK, CreateTask
    <3>2. taskVersions' = Append(taskVersions, [body |-> b, on |-> Len(taskVersions)])
      BY <3>1
    <3> QED
      BY <3>1, <3>2 DEF Log!Publish
  <2>3. ASSUME NEW e \in Editors, EditorStep(e) PROVE [Log!LogNext]_(Log!logVars)
    <3>1. CASE OpenTask(e) \/ ShowTask(e) \/ LeaveTask(e)
      BY <3>1 DEF OpenTask, ShowTask, LeaveTask, Log!logVars
    <3>2. CASE ArchiveTask(e)
      <4>1. task # NoTask /\ ~task.archived /\ task' # NoTask /\ task'.archived = TRUE
        BY <3>2, DateKeepsTaskInv DEF ArchiveTask
      <4>2. taskVersions # <<>> /\ UNCHANGED taskVersions
        BY <3>2, <4>1 DEF ArchiveTask, TaskInv, TaskTypeOK, HasAVersion
      <4> QED
        BY <4>1, <4>2 DEF Log!Shelve, Log!LogNext
    <3>3. CASE RestoreTask(e)
      <4>1. task # NoTask /\ task.archived /\ task' # NoTask /\ task'.archived = FALSE
        BY <3>3, DateKeepsTaskInv DEF RestoreTask
      <4>2. UNCHANGED taskVersions
        BY <3>3 DEF RestoreTask
      <4> QED
        BY <4>1, <4>2 DEF Log!Unshelve, Log!LogNext
    <3>4. ASSUME NEW b \in Bodies, CommitVersion(e, b) PROVE Log!Publish(b)
      BY <3>4, CommitWritesTheNext, TaskAssumption DEF Log!Publish
    <3> QED
      BY <2>3, <3>1, <3>2, <3>3, <3>4 DEF EditorStep, Log!LogNext
  <2> QED
    BY <2>1, <2>2, <2>3 DEF TaskNext, Log!LogNext
<1>3. TaskSpec => []TaskInv
  BY TaskInvInit, TaskStepKeepsTaskInv, PTL DEF TaskSpec
<1> QED
  BY <1>1, <1>2, <1>3, PTL DEF TaskSpec, TaskIsVersionLog, Log!LogSpec

-----------------------------------------------------------------------------
(* The assignments of a task.  What a tab shows as the primary one is so, or *)
(* has a later revision than the tab has.                                    *)
ShownLinksAreKnown ==
    \A p \in Panels :
        LET i == panel[p].link IN
        i # 0 => /\ i \in DOMAIN links
                 /\ panel[p].rev <= links[i].rev
                 /\ panel[p].rev = links[i].rev => IsPrimary(links[i])

LinkInv == LinkTypeOK /\ OnePrimary /\ ShownLinksAreKnown

LEMMA LinkInvInit == LinkInit => LinkInv
BY DEF LinkInit, LinkInv, LinkTypeOK, OnePrimary, ShownLinksAreKnown, NoPanel, LinkRecord

(* What demotion and ending make of an assignment.                           *)
LEMMA DemotedLink ==
    ASSUME NEW l \in LinkRecord
    PROVE  /\ Demoted(l) \in LinkRecord
           /\ ~IsPrimary(Demoted(l))
           /\ Demoted(l).archived = l.archived
           /\ l.rev <= Demoted(l).rev
           /\ IsPrimary(l) => Demoted(l).rev = l.rev + 1
           /\ ~IsPrimary(l) => Demoted(l) = l
<1> DEFINE d == [l EXCEPT !.primary = FALSE, !.rev = @ + 1]
<1>1. /\ d \in LinkRecord /\ d.rev = l.rev + 1 /\ ~d.primary
      /\ d.archived = l.archived /\ l.rev \in Nat
  <2>1. l.rev \in Nat /\ l.rev + 1 \in Nat
    BY DEF LinkRecord
  <2> DEFINE D(a) == [l EXCEPT !.primary = a, !.rev = l.rev + 1]
  <2>2. \A a \in BOOLEAN : /\ D(a) \in LinkRecord /\ D(a).rev = l.rev + 1
                          /\ D(a).primary = a /\ D(a).archived = l.archived
    <3> TAKE a \in BOOLEAN
    <3>1. D(a) \in LinkRecord /\ D(a).rev = l.rev + 1
      BY <2>1 DEF LinkRecord
    <3> QED
      BY <2>1, <3>1 DEF LinkRecord
  <2>3. d = D(FALSE)
    OBVIOUS
  <2> HIDE DEF d, D
  <2>4. FALSE \in BOOLEAN
    OBVIOUS
  <2>5. d \in LinkRecord /\ d.rev = l.rev + 1 /\ d.primary = FALSE
        /\ d.archived = l.archived
    BY <2>2, <2>3, <2>4, Zenon
  <2> QED
    BY <2>1, <2>5, Zenon
<1> HIDE DEF d
<1>2. ~IsPrimary(d)
  BY <1>1 DEF IsPrimary
<1>3. CASE IsPrimary(l)
  <2>1. Demoted(l) = d
    BY <1>3 DEF Demoted, d
  <2> QED
    BY <1>1, <1>2, <1>3, <2>1
<1>4. CASE ~IsPrimary(l)
  <2>1. Demoted(l) = l
    BY <1>4 DEF Demoted
  <2> QED
    BY <1>1, <1>4, <2>1
<1> QED
  BY <1>3, <1>4

LEMMA EndedLink ==
    ASSUME NEW l \in LinkRecord
    PROVE  /\ Ended(l) \in LinkRecord
           /\ ~IsPrimary(Ended(l))
           /\ Ended(l).rev = l.rev + 1
<1>1. /\ Ended(l) \in LinkRecord /\ Ended(l).rev = l.rev + 1
      /\ Ended(l).archived
  <2>1. l.rev \in Nat /\ l.rev + 1 \in Nat
    BY DEF LinkRecord
  <2> DEFINE D(a) == [l EXCEPT !.rev = l.rev + 1, !.archived = a]
  <2>2. \A a \in BOOLEAN : /\ D(a) \in LinkRecord /\ D(a).rev = l.rev + 1
                          /\ D(a).archived = a
    <3> TAKE a \in BOOLEAN
    <3>1. D(a) \in LinkRecord /\ D(a).rev = l.rev + 1
      BY <2>1 DEF LinkRecord
    <3> QED
      BY <2>1, <3>1 DEF LinkRecord
  <2>3. Ended(l) = D(TRUE)
    BY DEF Ended
  <2> HIDE DEF D
  <2>4. TRUE \in BOOLEAN
    OBVIOUS
  <2>5. Ended(l) \in LinkRecord /\ Ended(l).rev = l.rev + 1 /\ Ended(l).archived = TRUE
    BY <2>2, <2>3, <2>4, Zenon
  <2> QED
    BY <2>5, Zenon
<1> QED
  BY <1>1 DEF IsPrimary

LEMMA ListKeepsLinkInv ==
    ASSUME LinkInv, NEW p \in Panels, ListLinks(p)
    PROVE  LinkInv'
<1>1. UNCHANGED links
  BY DEF ListLinks
<1>2. CASE panel' = [panel EXCEPT ![p] = NoPanel]
  BY <1>1, <1>2 DEF LinkInv, LinkTypeOK, OnePrimary, ShownLinksAreKnown, NoPanel, IsPrimary
<1>3. CASE \E i \in DOMAIN links :
              /\ IsPrimary(links[i])
              /\ panel' = [panel EXCEPT ![p] = [link |-> i, rev |-> links[i].rev]]
  <2>1. PICK i \in DOMAIN links :
              /\ IsPrimary(links[i])
              /\ panel' = [panel EXCEPT ![p] = [link |-> i, rev |-> links[i].rev]]
    BY <1>3
  <2>2. i \in Nat /\ links[i].rev \in Nat
    BY DEF LinkInv, LinkTypeOK, LinkRecord
  <2>3. LinkTypeOK' /\ OnePrimary'
    BY <1>1, <2>1, <2>2 DEF LinkInv, LinkTypeOK, OnePrimary, IsPrimary
  <2>4. ShownLinksAreKnown'
    <3> SUFFICES ASSUME NEW q \in Panels, panel'[q].link # 0
                 PROVE  LET j == panel'[q].link IN
                        /\ j \in DOMAIN links'
                        /\ panel'[q].rev <= links'[j].rev
                        /\ panel'[q].rev = links'[j].rev => IsPrimary(links'[j])
      BY DEF ShownLinksAreKnown, IsPrimary
    <3>1. CASE q = p
      BY <1>1, <2>1, <2>2, <3>1 DEF LinkInv, LinkTypeOK
    <3>2. CASE q # p
      <4>1. panel'[q] = panel[q]
        BY <2>1, <3>2 DEF LinkInv, LinkTypeOK
      <4> QED
        BY <1>1, <4>1 DEF LinkInv, ShownLinksAreKnown
    <3> QED
      BY <3>1, <3>2
  <2> QED
    BY <2>3, <2>4 DEF LinkInv
<1> QED
  BY <1>2, <1>3 DEF ListLinks

LEMMA AssignKeepsLinkInv ==
    ASSUME LinkInv, NEW p \in Panels, AssignFamily(p)
    PROVE  LinkInv' /\ \A i \in DOMAIN links : links'[i].archived = links[i].archived
<1>1. PICK new \in (1 .. MaxLinks) \ DOMAIN links :
         links' = [i \in DOMAIN links \cup {new} |->
                     IF i = new THEN NewLink ELSE Demoted(links[i])]
  BY DEF AssignFamily
<1>2. \A i \in DOMAIN links : links[i] \in LinkRecord
  BY DEF LinkInv, LinkTypeOK
<1>3. NewLink \in LinkRecord /\ IsPrimary(NewLink)
  BY DEF NewLink, LinkRecord, IsPrimary
<1>4. /\ DOMAIN links' = DOMAIN links \cup {new}
      /\ links'[new] = NewLink
      /\ \A i \in DOMAIN links : links'[i] = Demoted(links[i])
  BY <1>1
<1>5. panel' = [panel EXCEPT ![p] = NoPanel]
  BY DEF AssignFamily
<1>6. LinkTypeOK'
  <2>1. links' \in [DOMAIN links' -> LinkRecord]
    BY <1>1, <1>2, <1>3, DemotedLink
  <2>2. DOMAIN links' \subseteq Nat \ {0}
    BY <1>4, LinkAssumption DEF LinkInv, LinkTypeOK
  <2> QED
    BY <1>5, <2>1, <2>2 DEF LinkInv, LinkTypeOK, NoPanel
<1>7. OnePrimary'
  <2>1. \A i \in DOMAIN links : ~IsPrimary(links'[i])
    BY <1>2, <1>4, DemotedLink
  <2> QED
    BY <1>4, <2>1 DEF OnePrimary, IsPrimary
<1>8. ShownLinksAreKnown'
  <2> SUFFICES ASSUME NEW q \in Panels, panel'[q].link # 0
               PROVE  LET j == panel'[q].link IN
                      /\ j \in DOMAIN links'
                      /\ panel'[q].rev <= links'[j].rev
                      /\ panel'[q].rev # links'[j].rev
    BY DEF ShownLinksAreKnown
  <2> DEFINE j == panel[q].link
  <2>1. panel'[q] = panel[q] /\ panel[q].rev \in Nat
    BY <1>5 DEF LinkInv, LinkTypeOK, NoPanel
  <2>2. /\ j \in DOMAIN links
        /\ panel[q].rev <= links[j].rev
        /\ panel[q].rev = links[j].rev => IsPrimary(links[j])
    BY <2>1 DEF LinkInv, ShownLinksAreKnown
  <2>3. links[j] \in LinkRecord /\ links[j].rev \in Nat
    BY <1>2, <2>2 DEF LinkRecord
  <2>4. links'[j] = Demoted(links[j])
    BY <1>4, <2>2
  <2>5. panel[q].rev <= Demoted(links[j]).rev /\ panel[q].rev # Demoted(links[j]).rev
    <3>1. CASE IsPrimary(links[j])
      BY <2>1, <2>2, <2>3, <3>1, DemotedLink
    <3>2. CASE ~IsPrimary(links[j])
      BY <2>1, <2>2, <2>3, <3>2, DemotedLink
    <3> QED
      BY <3>1, <3>2
  <2> QED
    BY <1>4, <2>1, <2>2, <2>4, <2>5
<1> QED
  BY <1>2, <1>4, <1>6, <1>7, <1>8, DemotedLink DEF LinkInv

(* Only what is shown as primary, and has not changed since, can be ended.   *)
LEMMA EndKeepsLinkInv ==
    ASSUME LinkInv, NEW p \in Panels, EndAssignment(p)
    PROVE  /\ LinkInv'
           /\ \A i \in DOMAIN links :
                 ~links[i].archived /\ links'[i].archived => links[i].primary
<1> DEFINE i == panel[p].link
<1>1. /\ i \in DOMAIN links /\ links[i] \in LinkRecord /\ links[i].rev \in Nat
      /\ IsPrimary(links[i])
      /\ links' = [links EXCEPT ![i] = Ended(links[i])]
      /\ panel' = [panel EXCEPT ![p] = NoPanel]
  BY DEF EndAssignment, LinkInv, LinkTypeOK, ShownLinksAreKnown, LinkRecord
<1>2. /\ DOMAIN links' = DOMAIN links
      /\ links'[i] = Ended(links[i])
      /\ \A k \in DOMAIN links : k # i => links'[k] = links[k]
  BY <1>1 DEF LinkInv, LinkTypeOK
<1>3. LinkTypeOK'
  <2>1. links' \in [DOMAIN links' -> LinkRecord]
    BY <1>1, EndedLink DEF LinkInv, LinkTypeOK
  <2> QED
    BY <1>1, <1>2, <2>1 DEF LinkInv, LinkTypeOK, NoPanel
<1>4. OnePrimary'
  <2>1. \A k \in DOMAIN links : IsPrimary(links'[k]) => IsPrimary(links[k])
    BY <1>1, <1>2
  <2> QED
    BY <1>2, <2>1 DEF LinkInv, OnePrimary, IsPrimary
<1>5. ShownLinksAreKnown'
  <2> SUFFICES ASSUME NEW q \in Panels, panel'[q].link # 0
               PROVE  LET j == panel'[q].link IN
                      /\ j \in DOMAIN links'
                      /\ panel'[q].rev <= links'[j].rev
                      /\ panel'[q].rev = links'[j].rev => IsPrimary(links'[j])
    BY DEF ShownLinksAreKnown, IsPrimary
  <2> DEFINE j == panel[q].link
  <2>1. panel'[q] = panel[q] /\ panel[q].rev \in Nat
    BY <1>1 DEF LinkInv, LinkTypeOK, NoPanel
  <2>2. /\ j \in DOMAIN links
        /\ panel[q].rev <= links[j].rev
        /\ panel[q].rev = links[j].rev => IsPrimary(links[j])
    BY <2>1 DEF LinkInv, ShownLinksAreKnown
  <2>3. CASE j = i
    <3>1. links'[j].rev = links[j].rev + 1
      BY <1>1, <1>2, <2>3, EndedLink
    <3>2. panel[q].rev <= links'[j].rev /\ panel[q].rev # links'[j].rev
      BY <1>1, <2>1, <2>2, <2>3, <3>1
    <3> QED
      BY <1>2, <2>1, <2>2, <3>2
  <2>4. CASE j # i
    BY <1>2, <2>1, <2>2, <2>4
  <2> QED
    BY <2>3, <2>4
<1>6. \A k \in DOMAIN links : ~links[k].archived /\ links'[k].archived => links[k].primary
  BY <1>1, <1>2 DEF IsPrimary
<1> QED
  BY <1>3, <1>4, <1>5, <1>6 DEF LinkInv

LEMMA LinkStepKeepsLinkInv ==
    ASSUME LinkInv, [LinkNext]_linkVars
    PROVE  LinkInv'
<1>1. CASE UNCHANGED linkVars
  BY <1>1 DEF linkVars, LinkInv, LinkTypeOK, OnePrimary, ShownLinksAreKnown, IsPrimary
<1>2. ASSUME NEW p \in Panels, PanelStep(p) PROVE LinkInv'
  BY <1>2, ListKeepsLinkInv, AssignKeepsLinkInv, EndKeepsLinkInv DEF PanelStep
<1> QED
  BY <1>1, <1>2 DEF LinkNext

(* However many tabs assign and end from whatever they listed, a task has at *)
(* most one active primary family (assignTaskFamily demotes the others in    *)
(* its transaction).                                                         *)
THEOREM TasksHaveOnePrimary == LinkSpec => []OnePrimary
<1>1. LinkInv => OnePrimary
  BY DEF LinkInv
<1> QED
  BY <1>1, LinkInvInit, LinkStepKeepsLinkInv, PTL DEF LinkSpec

(* The page that ends the primary assignment it shows never ends one that    *)
(* was demoted since: demotion counts its revision up.                       *)
THEOREM EndingsAreOfPrimaries == LinkSpec => OnlyThePrimaryEnds
<1>1. LinkInv /\ [LinkNext]_linkVars
        => [\A i \in DOMAIN links :
              ~links[i].archived /\ links'[i].archived => links[i].primary]_linkVars
  <2> SUFFICES ASSUME LinkInv, NEW p \in Panels, PanelStep(p)
               PROVE  \A i \in DOMAIN links :
                         ~links[i].archived /\ links'[i].archived => links[i].primary
    BY DEF LinkNext
  <2>1. CASE ListLinks(p)
    BY <2>1 DEF ListLinks
  <2>2. CASE AssignFamily(p)
    BY <2>2, AssignKeepsLinkInv
  <2>3. CASE EndAssignment(p)
    BY <2>3, EndKeepsLinkInv
  <2> QED
    BY <2>1, <2>2, <2>3 DEF PanelStep
<1> QED
  BY <1>1, LinkInvInit, LinkStepKeepsLinkInv, PTL DEF LinkSpec, OnlyThePrimaryEnds

-----------------------------------------------------------------------------
(* A rubric.  What a page has read again is the record there, or older than  *)
(* that.                                                                     *)
ReadAgain(d) ==
    /\ desk[d].pc # "closed" => rubric # NoRubric
    /\ desk[d].pc \in {"save", "edit", "toggle"} =>
        /\ desk[d].fresh \in RubricRecord
        /\ desk[d].fresh.rev <= rubric.rev
        /\ desk[d].fresh.rev = rubric.rev => desk[d].fresh = rubric

RubricInv == RubricTypeOK /\ \A d \in Desks : ReadAgain(d)

LEMMA RubricInvInit == RubricInit => RubricInv
BY DEF RubricInit, RubricInv, RubricTypeOK, ReadAgain, NoDesk

(* A write that counts the record up outdates whatever other pages read.     *)
LEMMA WriteOutdates ==
    ASSUME RubricInv, NEW d \in Desks, rubric # NoRubric,
           desk' = [desk EXCEPT ![d] = NoDesk],
           rubric' \in RubricRecord, rubric'.rev = rubric.rev + 1
    PROVE  \A x \in Desks : ReadAgain(x)'
<1>1. rubric.rev \in Nat
  BY DEF RubricInv, RubricTypeOK, RubricRecord
<1> SUFFICES ASSUME NEW x \in Desks, desk'[x].pc \in {"save", "edit", "toggle"}
             PROVE  /\ desk'[x].fresh \in RubricRecord
                    /\ desk'[x].fresh.rev <= rubric.rev
  BY <1>1, RubricAssumption DEF ReadAgain, RubricRecord
<1>2. x # d /\ desk'[x] = desk[x]
  BY DEF RubricInv, RubricTypeOK, NoDesk
<1> QED
  BY <1>2 DEF RubricInv, ReadAgain

(* An append adds one version behind the others, to the record it was read   *)
(* from.                                                                     *)
LEMMA AppendAdds ==
    ASSUME RubricInv, NEW d \in Desks, AppendRubric(d)
    PROVE  /\ RubricInv'
           /\ rubric'.archived = rubric.archived
           /\ \A n \in DOMAIN rubricVersions :
                 n \in DOMAIN rubricVersions' /\ rubricVersions'[n] = rubricVersions[n]
<1> DEFINE next == rubric.latest + 1
           t(text) == [n \in DOMAIN rubricVersions \cup {next} |->
                          IF n = next THEN text ELSE rubricVersions[n]]
<1>1. /\ rubric # NoRubric /\ rubric \in RubricRecord
      /\ desk[d].fresh = rubric
      /\ DOMAIN rubricVersions = 1 .. rubric.latest
      /\ rubric.rev \in Nat /\ rubric.latest \in Nat
  BY DEF AppendRubric, RubricIsCurrent, RubricInv, RubricTypeOK, ReadAgain, RubricRecord
<1>2. /\ rubric' = [rubric EXCEPT !.rev = rubric.rev + 1, !.latest = next]
      /\ desk' = [desk EXCEPT ![d] = NoDesk]
  BY <1>1 DEF AppendRubric
<1>3. /\ rubric' \in RubricRecord /\ rubric'.rev = rubric.rev + 1
      /\ rubric'.latest = next /\ rubric'.archived = rubric.archived
  <2>1. rubric.rev + 1 \in Nat /\ next \in Nat /\ rubric.archived \in BOOLEAN
    BY <1>1 DEF RubricRecord
  <2> HIDE DEF next
  <2>2. rubric' = [rev |-> rubric.rev + 1, latest |-> next, archived |-> rubric.archived]
    BY <1>1, <1>2, <2>1, RenumberedRecord DEF VersionedRecord, RubricRecord
  <2> QED
    BY <2>1, <2>2 DEF RubricRecord
<1>4. PICK text \in Texts : rubricVersions' = t(text)
  BY DEF AppendRubric
<1>5. /\ DOMAIN rubricVersions' = 1 .. next
      /\ \A n \in DOMAIN rubricVersions :
            n \in DOMAIN rubricVersions' /\ rubricVersions'[n] = rubricVersions[n]
  BY <1>1, <1>4
<1>6. RubricTypeOK'
  <2>1. \A n \in DOMAIN rubricVersions' : rubricVersions'[n] \in Texts
    BY <1>4 DEF RubricInv, RubricTypeOK
  <2>2. desk' \in [Desks -> [pc : {"closed", "shown", "save", "edit", "toggle"},
                             latest : Nat, selected : Nat,
                             fresh : RubricRecord \cup {NoRubric}]]
    BY <1>2 DEF RubricInv, RubricTypeOK, NoDesk
  <2> QED
    BY <1>3, <1>5, <2>1, <2>2, RubricAssumption DEF RubricTypeOK
<1>7. \A x \in Desks : ReadAgain(x)'
  BY <1>1, <1>2, <1>3, WriteOutdates
<1> QED
  BY <1>3, <1>5, <1>6, <1>7 DEF RubricInv

LEMMA SetArchivedKeepsRubricInv ==
    ASSUME RubricInv, NEW d \in Desks, SetArchived(d)
    PROVE  RubricInv'
<1>1. /\ rubric # NoRubric /\ rubric \in RubricRecord
      /\ desk[d].fresh = rubric /\ rubric.rev \in Nat
      /\ rubric' = [rubric EXCEPT !.rev = rubric.rev + 1, !.archived = ~rubric.archived]
      /\ desk' = [desk EXCEPT ![d] = NoDesk]
      /\ UNCHANGED rubricVersions
  BY DEF SetArchived, RubricIsCurrent, RubricInv, RubricTypeOK, ReadAgain, RubricRecord
<1>2. /\ rubric' \in RubricRecord /\ rubric'.rev = rubric.rev + 1
      /\ rubric'.latest = rubric.latest
  <2>1. \E a \in BOOLEAN : rubric' = [rubric EXCEPT !.rev = rubric.rev + 1, !.archived = a]
    BY <1>1
  <2>2. PICK a \in BOOLEAN : rubric' = [rubric EXCEPT !.rev = rubric.rev + 1, !.archived = a]
    BY <2>1
  <2>3. rubric.rev + 1 \in Nat /\ rubric.latest \in Nat
    BY <1>1 DEF RubricRecord
  <2>4. rubric' = [rev |-> rubric.rev + 1, latest |-> rubric.latest, archived |-> a]
    BY <1>1, <2>2, <2>3, RedatedRecord DEF VersionedRecord, RubricRecord
  <2> QED
    BY <2>3, <2>4 DEF RubricRecord
<1>3. RubricTypeOK'
  BY <1>1, <1>2, RubricAssumption DEF RubricInv, RubricTypeOK, NoDesk
<1> QED
  BY <1>1, <1>2, <1>3, WriteOutdates DEF RubricInv

LEMMA RubricStepKeepsRubricInv ==
    ASSUME RubricInv, [RubricNext]_rubricVars
    PROVE  RubricInv'
<1>1. CASE UNCHANGED rubricVars
  BY <1>1 DEF rubricVars, RubricInv, RubricTypeOK, ReadAgain
<1>2. CASE CreateRubric
  <2>1. /\ rubric' \in RubricRecord /\ rubric'.latest = 1 /\ rubric = NoRubric
        /\ UNCHANGED desk
    BY <1>2 DEF CreateRubric, RubricRecord
  <2>2. /\ DOMAIN rubricVersions' = 1 .. 1
        /\ \A n \in DOMAIN rubricVersions' : rubricVersions'[n] \in Texts
    BY <1>2 DEF CreateRubric
  <2> QED
    BY <2>1, <2>2, RubricAssumption DEF RubricInv, RubricTypeOK, ReadAgain
<1>3. ASSUME NEW d \in Desks, DeskStep(d) PROVE RubricInv'
  <2>1. CASE LoadRubric(d)
    <3>1. rubric.latest \in Nat /\ rubric \in RubricRecord
      BY <2>1 DEF LoadRubric, RubricInv, RubricTypeOK, RubricRecord
    <3>2. PICK n \in 1 .. rubric.latest :
             desk' = [desk EXCEPT ![d] = [pc |-> "shown", latest |-> rubric.latest,
                                          selected |-> n, fresh |-> NoRubric]]
      BY <2>1 DEF LoadRubric
    <3>3. n \in Nat /\ rubric # NoRubric /\ UNCHANGED <<rubric, rubricVersions>>
      BY <2>1, <3>1, RubricAssumption DEF LoadRubric
    <3>4. RubricTypeOK'
      BY <3>1, <3>2, <3>3 DEF RubricInv, RubricTypeOK
    <3>5. ASSUME NEW x \in Desks PROVE ReadAgain(x)'
      BY <3>2, <3>3 DEF RubricInv, RubricTypeOK, ReadAgain
    <3> QED
      BY <3>4, <3>5 DEF RubricInv
  <2>2. CASE LeaveRubric(d)
    BY <2>2 DEF LeaveRubric, RubricInv, RubricTypeOK, ReadAgain, NoDesk
  <2>3. ASSUME NEW s \in {"save", "edit", "toggle"}, Rereads(d, s) PROVE RubricInv'
    <3>1. /\ desk' = [desk EXCEPT ![d].pc = s, ![d].fresh = rubric]
          /\ desk[d].pc = "shown" /\ UNCHANGED <<rubric, rubricVersions>>
      BY <2>3 DEF Rereads
    <3>2. RubricTypeOK'
      BY <3>1 DEF RubricInv, RubricTypeOK
    <3>3. rubric # NoRubric
      BY <3>1 DEF RubricInv, ReadAgain
    <3>4. ReadAgain(d)'
      BY <3>1, <3>3 DEF RubricInv, RubricTypeOK, ReadAgain, RubricRecord
    <3>5. ASSUME NEW x \in Desks \ {d} PROVE ReadAgain(x)'
      BY <3>1 DEF RubricInv, RubricTypeOK, ReadAgain
    <3> QED
      BY <3>2, <3>4, <3>5 DEF RubricInv
  <2>4. CASE RubricRefuses(d)
    BY <2>4, ZenonT(30) DEF RubricRefuses, RubricInv, RubricTypeOK, ReadAgain
  <2> QED
    BY <1>3, <2>1, <2>2, <2>3, <2>4, AppendAdds, SetArchivedKeepsRubricInv
    DEF DeskStep, SaveDraft, EditAsNew, ToggleArchive
<1> QED
  BY <1>1, <1>2, <1>3 DEF RubricNext

LEMMA RubricInvariance == RubricSpec => []RubricInv
BY RubricInvInit, RubricStepKeepsRubricInv, PTL DEF RubricSpec

LEMMA OtherStepsKeepVersions ==
    ASSUME RubricInv, [RubricNext]_rubricVars, \A d \in Desks : ~AppendRubric(d)
    PROVE  CreateRubric \/ UNCHANGED rubricVersions
BY DEF RubricNext, rubricVars, DeskStep, LoadRubric, LeaveRubric, SaveDraft, EditAsNew,
       ToggleArchive, Rereads, SetArchived, RubricRefuses

(* What a version says stays, however many pages append at once: a page      *)
(* appends behind the latest version, and to no record but the one it read.  *)
THEOREM RubricVersionsAreKept == RubricSpec => VersionsAreKept
<1>1. RubricInv /\ [RubricNext]_rubricVars
        => [\A n \in DOMAIN rubricVersions :
              n \in DOMAIN rubricVersions' /\ rubricVersions'[n] = rubricVersions[n]]_rubricVars
  <2> SUFFICES ASSUME RubricInv, [RubricNext]_rubricVars
               PROVE  \A n \in DOMAIN rubricVersions :
                         n \in DOMAIN rubricVersions' /\ rubricVersions'[n] = rubricVersions[n]
    OBVIOUS
  <2>1. CASE \E d \in Desks : AppendRubric(d)
    BY <2>1, AppendAdds
  <2>2. CASE \A d \in Desks : ~AppendRubric(d)
    <3>1. CASE CreateRubric
      BY <3>1 DEF CreateRubric, RubricInv, RubricTypeOK
    <3> QED
      BY <2>2, <3>1, OtherStepsKeepVersions
  <2> QED
    BY <2>1, <2>2
<1> QED
  BY <1>1, RubricInvariance, PTL DEF RubricSpec, VersionsAreKept

(* An append leaves the rubric archived or not, as it finds it, although it  *)
(* writes the archive date of the copy it read.                              *)
THEOREM RubricAppendsKeepTheShelf == RubricSpec => AppendKeepsTheShelf
<1>1. RubricInv /\ [RubricNext]_rubricVars
        => [rubric # NoRubric /\ rubricVersions' # rubricVersions
              => rubric'.archived = rubric.archived]_rubricVars
  <2> SUFFICES ASSUME RubricInv, [RubricNext]_rubricVars,
                      rubric # NoRubric, rubricVersions' # rubricVersions
               PROVE  rubric'.archived = rubric.archived
    OBVIOUS
  <2>1. CASE \E d \in Desks : AppendRubric(d)
    BY <2>1, AppendAdds
  <2>2. CASE \A d \in Desks : ~AppendRubric(d)
    BY <2>2, OtherStepsKeepVersions DEF CreateRubric
  <2> QED
    BY <2>1, <2>2
<1> QED
  BY <1>1, RubricInvariance, PTL DEF RubricSpec, AppendKeepsTheShelf

-----------------------------------------------------------------------------
(* The families.  A card with the revision of its family has the archive     *)
(* date of it; one whose family was written since has an older revision.     *)
CardIsHonest(c) ==
    LET k == card[c] IN
    k.pc # "idle" =>
        /\ k.fam \in Families /\ Exists(k.fam)
        /\ k.rev <= family[k.fam].rev
        /\ k.rev = family[k.fam].rev => k.archived = family[k.fam].archived

FamilyInv == FamilyTypeOK /\ \A c \in Cards : CardIsHonest(c)

LEMMA FamilyInvInit == FamilyInit => FamilyInv
BY DEF FamilyInit, FamilyInv, FamilyTypeOK, CardIsHonest, NoCard, CardRecord

LEMMA RefuseKeepsFamilyInv ==
    ASSUME FamilyInv, NEW c \in Cards, RefuseFamily(c)
    PROVE  FamilyInv'
BY DEF RefuseFamily, FamilyInv, FamilyTypeOK, CardIsHonest, CardRecord, Exists

LEMMA PutAwayKeepsFamilyInv ==
    ASSUME FamilyInv, NEW c \in Cards, PutAway(c)
    PROVE  FamilyInv'
BY DEF PutAway, FamilyInv, FamilyTypeOK, CardIsHonest, CardRecord, Exists, NoCard

LEMMA ListKeepsFamilyInv ==
    ASSUME FamilyInv, NEW c \in Cards, NEW f \in Families, ListFamily(c, f)
    PROVE  FamilyInv'
<1>1. family[f] \in FamilyRecord
  BY DEF ListFamily, Exists, FamilyInv, FamilyTypeOK
<1>2. Listed(f, family[f].rev, family[f].archived) \in CardRecord
  BY <1>1 DEF Listed, CardRecord, FamilyRecord
<1>3. FamilyTypeOK'
  BY <1>2 DEF ListFamily, FamilyInv, FamilyTypeOK
<1>4. CardIsHonest(c)'
  BY <1>1 DEF ListFamily, Listed, CardIsHonest, Exists, FamilyInv, FamilyTypeOK, FamilyRecord
<1>5. ASSUME NEW x \in Cards \ {c} PROVE CardIsHonest(x)'
  BY DEF ListFamily, FamilyInv, FamilyTypeOK, CardIsHonest, Exists
<1> QED
  BY <1>3, <1>4, <1>5 DEF FamilyInv

(* A new family is nobody's yet, so no card but its maker's shows it.        *)
LEMMA CreateKeepsFamilyInv ==
    ASSUME FamilyInv, NEW c \in Cards, NEW f \in Families,
           NEW parent \in Families \cup {NoFamily}, CreateFamily(c, f, parent)
    PROVE  FamilyInv'
<1> DEFINE new == [rev |-> 0, parent |-> parent, archived |-> FALSE]
<1>1. new \in FamilyRecord /\ new # NoFamily
  <2>1. new \in FamilyRecord
    BY DEF FamilyRecord
  <2> HIDE DEF new
  <2> QED
    BY <2>1, FamilyAssumption
<1>2. /\ family' = [family EXCEPT ![f] = new]
      /\ card' = [card EXCEPT ![c] = Listed(f, 0, FALSE)]
      /\ ~Exists(f)
  BY DEF CreateFamily
<1>3. Listed(f, 0, FALSE) \in CardRecord
  BY DEF Listed, CardRecord
<1>4. FamilyTypeOK'
  BY <1>1, <1>2, <1>3 DEF FamilyInv, FamilyTypeOK
<1>5. CardIsHonest(c)'
  <2>1. card'[c] = Listed(f, 0, FALSE) /\ family'[f] = new
    BY <1>2 DEF FamilyInv, FamilyTypeOK
  <2> DEFINE L(a) == Listed(f, 0, a)
             N(a) == [rev |-> 0, parent |-> parent, archived |-> a]
  <2>2. \A a \in BOOLEAN : /\ L(a).fam = f /\ L(a).rev = 0 /\ N(a).rev = 0
                          /\ L(a).archived = N(a).archived
    BY DEF Listed
  <2>3. card'[c] = L(FALSE) /\ family'[f] = N(FALSE) /\ N(FALSE) # NoFamily
    BY <1>1, <2>1
  <2>4. FALSE \in BOOLEAN
    OBVIOUS
  <2> HIDE DEF L, N
  <2>5. /\ card'[c].fam = f /\ family'[f].rev = 0 /\ card'[c].rev = 0
        /\ family'[f] # NoFamily
        /\ card'[c].archived = family'[f].archived
    BY <2>2, <2>3, <2>4, Zenon
  <2> QED
    BY <2>5 DEF CardIsHonest, Exists
<1>6. ASSUME NEW x \in Cards \ {c} PROVE CardIsHonest(x)'
  BY <1>2 DEF FamilyInv, FamilyTypeOK, CardIsHonest, Exists
<1> QED
  BY <1>4, <1>5, <1>6 DEF FamilyInv

(* The form's archive date is read when it is submitted, its revision when   *)
(* it was listed: if the revisions agree, so do the dates.                   *)
LEMMA SaveKeepsFamilyInv ==
    ASSUME FamilyInv, NEW c \in Cards, NEW parent \in Families \cup {NoFamily},
           SaveFamily(c, parent)
    PROVE  FamilyInv'
<1>1. card[c].fam \in Families /\ family[card[c].fam] \in FamilyRecord
  BY DEF SaveFamily, FamilyInv, FamilyTypeOK, CardIsHonest, Exists
<1>2. family[card[c].fam].archived \in BOOLEAN
  BY <1>1 DEF FamilyRecord
<1>3. FamilyTypeOK'
  <2>1. card[c] \in CardRecord
    BY DEF FamilyInv, FamilyTypeOK
  <2> DEFINE k == [card[c] EXCEPT !.pc = "save", !.parent = parent,
                                  !.archived = family[card[c].fam].archived]
  <2>2. k \in CardRecord
    BY <1>2, <2>1 DEF CardRecord
  <2>3. card' = [card EXCEPT ![c] = k] /\ UNCHANGED family
    BY DEF SaveFamily
  <2> HIDE DEF k
  <2> QED
    BY <2>2, <2>3 DEF FamilyInv, FamilyTypeOK
<1>4. CardIsHonest(c)'
  BY DEF SaveFamily, FamilyInv, FamilyTypeOK, CardIsHonest, CardRecord, Exists
<1>5. ASSUME NEW x \in Cards \ {c} PROVE CardIsHonest(x)'
  BY DEF SaveFamily, FamilyInv, FamilyTypeOK, CardIsHonest, Exists
<1> QED
  BY <1>3, <1>4, <1>5 DEF FamilyInv

(* A write counts the family up: the cards that showed it fall behind.       *)
LEMMA WriteKeepsOthers ==
    ASSUME FamilyInv, NEW c \in Cards, NEW x \in Cards \ {c}, NEW f \in Families,
           NEW new \in FamilyRecord, new.rev = family[f].rev + 1, Exists(f),
           family' = [family EXCEPT ![f] = new], card'[x] = card[x]
    PROVE  CardIsHonest(x)'
<1>1. new # NoFamily /\ family[f].rev \in Nat
  BY FamilyAssumption DEF FamilyInv, FamilyTypeOK, FamilyRecord, Exists
<1>2. CASE card[x].fam = f
  <2>1. card[x].rev \in Nat /\ family'[f] = new
    BY DEF FamilyInv, FamilyTypeOK, CardRecord
  <2> QED
    BY <1>1, <1>2, <2>1 DEF FamilyInv, CardIsHonest, Exists
<1>3. CASE card[x].fam # f
  BY <1>3 DEF FamilyInv, FamilyTypeOK, CardIsHonest, Exists
<1> QED
  BY <1>2, <1>3

LEMMA UpdateKeepsFamilyInv ==
    ASSUME FamilyInv, NEW c \in Cards, UpdateFamily(c)
    PROVE  /\ FamilyInv'
           /\ \A f \in Families : family'[f].archived = family[f].archived
<1> DEFINE f == card[c].fam
           new == [rev |-> card[c].rev + 1, parent |-> card[c].parent,
                   archived |-> card[c].archived]
<1>1. /\ f \in Families /\ Exists(f) /\ family[f] \in FamilyRecord
      /\ card[c] \in CardRecord
      /\ family[f].rev = card[c].rev /\ card[c].archived = family[f].archived
  BY DEF UpdateFamily, FamilyIsCurrent, FamilyInv, FamilyTypeOK, CardIsHonest, Exists
<1>2. new \in FamilyRecord /\ new.rev = family[f].rev + 1 /\ new # NoFamily
  BY <1>1, FamilyAssumption DEF CardRecord, FamilyRecord
<1>3. /\ family' = [family EXCEPT ![f] = new]
      /\ card' = [card EXCEPT ![c].pc = "listed", ![c].rev = card[c].rev + 1]
  BY DEF UpdateFamily
<1>4. FamilyTypeOK'
  BY <1>2, <1>3 DEF FamilyInv, FamilyTypeOK, CardRecord
<1>5. CardIsHonest(c)'
  <2>1. /\ card'[c].fam = f /\ card'[c].rev = card[c].rev + 1
        /\ card'[c].archived = card[c].archived /\ family'[f] = new
    BY <1>1, <1>3 DEF FamilyInv, FamilyTypeOK, CardRecord
  <2> QED
    BY <1>1, <1>2, <2>1 DEF CardIsHonest, Exists, CardRecord
<1>6. ASSUME NEW x \in Cards \ {c} PROVE CardIsHonest(x)'
  <2>1. card'[x] = card[x]
    BY <1>3 DEF FamilyInv, FamilyTypeOK
  <2> QED
    BY <1>1, <1>2, <1>3, <2>1, WriteKeepsOthers
<1>7. \A g \in Families : family'[g].archived = family[g].archived
  BY <1>1, <1>3 DEF FamilyInv, FamilyTypeOK
<1> QED
  BY <1>4, <1>5, <1>6, <1>7 DEF FamilyInv

LEMMA SetArchivedKeepsFamilyInv ==
    ASSUME FamilyInv, NEW c \in Cards, SetFamilyArchived(c)
    PROVE  /\ FamilyInv'
           /\ \A f \in Families : Exists(f) => family'[f].parent = family[f].parent
           /\ card[c].pc = "listed" /\ card'[c].pc = "idle"
<1> DEFINE f == card[c].fam
           new == [rev |-> card[c].rev + 1, parent |-> family[f].parent,
                   archived |-> ~card[c].archived]
<1>1. /\ f \in Families /\ Exists(f) /\ family[f] \in FamilyRecord
      /\ card[c] \in CardRecord
      /\ family[f].rev = card[c].rev
  BY DEF SetFamilyArchived, FamilyIsCurrent, FamilyInv, FamilyTypeOK, CardIsHonest, Exists
<1>2. new \in FamilyRecord /\ new.rev = family[f].rev + 1
  BY <1>1 DEF CardRecord, FamilyRecord
<1>3. family' = [family EXCEPT ![f] = new]
  <2>1. PICK a \in BOOLEAN : a = ~card[c].archived
    OBVIOUS
  <2>2. card[c].rev + 1 \in Nat
    BY <1>1 DEF CardRecord
  <2> DEFINE k == [family[f] EXCEPT !.rev = card[c].rev + 1, !.archived = a]
  <2>3. /\ k \in FamilyRecord /\ k.rev = card[c].rev + 1
        /\ k.parent = family[f].parent /\ k.archived = a
    BY <1>1, <2>2 DEF FamilyRecord
  <2>4. family' = [family EXCEPT ![f] = k]
    BY <2>1 DEF SetFamilyArchived
  <2> HIDE DEF k
  <2>5. k = new
    BY <2>1, <2>3 DEF FamilyRecord
  <2> QED
    BY <2>4, <2>5
<1>4. card' = [card EXCEPT ![c] = NoCard] /\ card[c].pc = "listed"
  BY DEF SetFamilyArchived
<1>5. card'[c] = NoCard /\ NoCard \in CardRecord /\ NoCard.pc = "idle"
  BY <1>4 DEF FamilyInv, FamilyTypeOK, NoCard, CardRecord
<1>6. FamilyTypeOK'
  BY <1>2, <1>3, <1>4, <1>5 DEF FamilyInv, FamilyTypeOK
<1>7. CardIsHonest(c)'
  BY <1>5 DEF CardIsHonest
<1>8. ASSUME NEW x \in Cards \ {c} PROVE CardIsHonest(x)'
  <2>1. card'[x] = card[x]
    BY <1>4 DEF FamilyInv, FamilyTypeOK
  <2> QED
    BY <1>1, <1>2, <1>3, <2>1, WriteKeepsOthers
<1>9. \A g \in Families : Exists(g) => family'[g].parent = family[g].parent
  BY <1>1, <1>3 DEF FamilyInv, FamilyTypeOK
<1> QED
  BY <1>4, <1>5, <1>6, <1>7, <1>8, <1>9 DEF FamilyInv

LEMMA ArchivingKeepsFamily ==
    ASSUME FamilyInv, NEW c \in Cards, SetFamilyArchived(c)
    PROVE  family'[card[c].fam] # NoFamily
<1> DEFINE f == card[c].fam
<1>1. f \in Families /\ family[f] \in FamilyRecord
  BY DEF SetFamilyArchived, FamilyInv, FamilyTypeOK, CardIsHonest, Exists
<1>3. card[c].rev + 1 \in Nat
  BY DEF FamilyInv, FamilyTypeOK, CardRecord
<1>4. PICK a \in BOOLEAN : a = ~card[c].archived
  OBVIOUS
<1>5. [family[f] EXCEPT !.rev = card[c].rev + 1, !.archived = a] \in FamilyRecord
  BY <1>1, <1>3 DEF FamilyRecord
<1> DEFINE k == [family[f] EXCEPT !.rev = card[c].rev + 1, !.archived = a]
<1>6. family' = [family EXCEPT ![f] = k]
  BY <1>4 DEF SetFamilyArchived
<1>7. family'[f] = k /\ card[c].fam = f
  <2> HIDE DEF k
  <2> QED
    BY <1>1, <1>6 DEF FamilyInv, FamilyTypeOK
<1>8. k \in FamilyRecord
  BY <1>5
<1>9. family'[f] # NoFamily
  <2> HIDE DEF k
  <2> QED
    BY <1>7, <1>8, FamilyAssumption
<1> QED
  BY <1>9

LEMMA FamilyStepKeepsFamilyInv ==
    ASSUME FamilyInv, [FamilyNext]_familyVars
    PROVE  FamilyInv'
<1>1. CASE UNCHANGED familyVars
  BY <1>1 DEF familyVars, FamilyInv, FamilyTypeOK, CardIsHonest, Exists
<1>2. ASSUME NEW c \in Cards, CardStep(c) PROVE FamilyInv'
  BY <1>2, ListKeepsFamilyInv, CreateKeepsFamilyInv, SaveKeepsFamilyInv,
     UpdateKeepsFamilyInv, RefuseKeepsFamilyInv, SetArchivedKeepsFamilyInv,
     PutAwayKeepsFamilyInv
  DEF CardStep
<1> QED
  BY <1>1, <1>2 DEF FamilyNext

(* Saving a family from a form of any age never archives or restores it:     *)
(* only the dialog that archives and restores does, and it leaves the        *)
(* parent (TaskFamilyRegistry).                                              *)
THEOREM SavesKeepFamiliesShelved == FamilySpec => SavingKeepsTheShelf
<1>1. FamilyInv /\ [FamilyNext]_familyVars
        => [\A f \in Families :
              Exists(f) /\ family'[f].archived # family[f].archived
                => family'[f].parent = family[f].parent
                   /\ \E c \in Cards : card[c].pc = "listed" /\ card'[c].pc = "idle"]_familyVars
  <2> SUFFICES ASSUME FamilyInv, NEW c \in Cards, CardStep(c), NEW f \in Families,
                      Exists(f), family'[f].archived # family[f].archived
               PROVE  /\ family'[f].parent = family[f].parent
                      /\ \E k \in Cards : card[k].pc = "listed" /\ card'[k].pc = "idle"
    BY DEF FamilyNext
  <2>1. ASSUME NEW g \in Families, NEW parent \in Families \cup {NoFamily},
               CreateFamily(c, g, parent)
        PROVE  FALSE
    BY <2>1 DEF CreateFamily, FamilyInv, FamilyTypeOK, Exists
  <2>2. CASE UpdateFamily(c)
    BY <2>2, UpdateKeepsFamilyInv
  <2>3. CASE SetFamilyArchived(c)
    BY <2>3, SetArchivedKeepsFamilyInv
  <2>4. CASE UNCHANGED family
    BY <2>4
  <2> QED
    BY <2>1, <2>2, <2>3, <2>4
    DEF CardStep, ListFamily, SaveFamily, RefuseFamily, PutAway
<1>2. FamilySpec => []FamilyInv
  BY FamilyInvInit, FamilyStepKeepsFamilyInv, PTL DEF FamilySpec
<1> QED
  BY <1>1, <1>2, PTL DEF FamilySpec, SavingKeepsTheShelf

-----------------------------------------------------------------------------
(* The hierarchy.  There is a rank of the families by which every parent     *)
(* exists and is above what is under it.  A walk upwards only rises, so it   *)
(* never comes back to where it began.                                       *)
Ranks(r) ==
    \A f \in Families :
        Exists(f) /\ family[f].parent # NoFamily
          => Exists(family[f].parent) /\ r[f] < r[family[f].parent]

Ranked == \E r \in [Families -> Nat] : Ranks(r)

LEMMA ParentIsFamily ==
    ASSUME FamilyTypeOK, NEW f \in Families, Exists(f)
    PROVE  family[f].parent \in Families \cup {NoFamily}
<1>1. family[f] \in FamilyRecord
  BY DEF FamilyTypeOK, Exists
<1> QED
  BY <1>1 DEF FamilyRecord

LEMMA NoFamilyIsNone == NoFamily \notin Families
BY FamilyAssumption

LEMMA ChainOfNone == Chain(NoFamily) = {}
<1>1. {} \in SUBSET Families /\ ClosedUpwards({})
  BY DEF ClosedUpwards
<1> QED
  BY <1>1 DEF Chain

LEMMA ChainHasItsStart ==
    ASSUME NEW x \in Families
    PROVE  x \in Chain(x)
BY NoFamilyIsNone DEF Chain

LEMMA ChainIsClosed ==
    ASSUME FamilyTypeOK, NEW x \in Families \cup {NoFamily}, NEW g \in Chain(x), Exists(g),
           family[g].parent # NoFamily
    PROVE  family[g].parent \in Chain(x)
<1>1. g \in Families
  BY DEF Chain
<1>2. family[g].parent \in Families
  BY <1>1, ParentIsFamily
<1>3. ASSUME NEW S \in SUBSET Families, ClosedUpwards(S), x \in S \cup {NoFamily}
      PROVE  family[g].parent \in S
  BY <1>3 DEF Chain, ClosedUpwards
<1> QED
  BY <1>2, <1>3 DEF Chain

(* What a walk passes exists and is ranked no lower than where it began.     *)
LEMMA ChainRises ==
    ASSUME FamilyTypeOK, NEW r \in [Families -> Nat], Ranks(r),
           NEW x \in Families, Exists(x), NEW g \in Chain(x)
    PROVE  g \in Families /\ Exists(g) /\ r[x] <= r[g]
<1> DEFINE S == {h \in Families : Exists(h) /\ r[x] <= r[h]}
<1>1. ClosedUpwards(S)
  <2> SUFFICES ASSUME NEW h \in S, family[h].parent # NoFamily
               PROVE  family[h].parent \in S
    BY DEF ClosedUpwards
  <2>1. h \in Families /\ Exists(h) /\ r[x] <= r[h]
    OBVIOUS
  <2>2. family[h].parent \in Families
    BY <2>1, ParentIsFamily
  <2>3. Exists(family[h].parent) /\ r[h] < r[family[h].parent]
    BY <2>1 DEF Ranks
  <2>4. r[x] \in Nat /\ r[h] \in Nat /\ r[family[h].parent] \in Nat
    BY <2>1, <2>2
  <2> QED
    BY <2>1, <2>2, <2>3, <2>4
<1>2. x \in S
  BY r[x] \in Nat
<1>3. S \in SUBSET Families
  OBVIOUS
<1>4. g \in S
  <2> HIDE DEF S
  <2> QED
    BY <1>1, <1>2, <1>3 DEF Chain
<1> QED
  BY <1>4

LEMMA RankedIsForest ==
    ASSUME FamilyTypeOK, Ranked
    PROVE  FamiliesAreAForest
<1>1. PICK r \in [Families -> Nat] : Ranks(r)
  BY DEF Ranked
<1> SUFFICES ASSUME NEW f \in Families, Exists(f)
             PROVE  /\ f \notin Chain(family[f].parent)
                    /\ \A g \in Chain(f) : Exists(g)
  BY DEF FamiliesAreAForest
<1> DEFINE p == family[f].parent
<1>2. \A g \in Chain(f) : Exists(g)
  BY <1>1, ChainRises
<1>3. CASE p = NoFamily
  BY <1>2, <1>3, ChainOfNone
<1>4. CASE p # NoFamily
  <2>1. p \in Families /\ Exists(p) /\ r[f] < r[p]
    BY <1>1, <1>4, ParentIsFamily DEF Ranks
  <2>2. f \in Chain(p) => r[p] <= r[f]
    BY <1>1, <2>1, ChainRises
  <2>3. r[f] \in Nat /\ r[p] \in Nat
    BY <2>1
  <2> QED
    BY <1>2, <2>1, <2>2, <2>3
<1> QED
  BY <1>3, <1>4

(* A family that is put under another, which the walk from there did not     *)
(* refuse, stays where it is; what the walk passed is lifted above it.       *)
LEMMA PuttingUnderKeepsRanked ==
    ASSUME FamilyTypeOK, Ranked, NEW f \in Families, NEW p \in Families \cup {NoFamily},
           MayBeUnder(f, p), NEW new, new # NoFamily, new.parent = p,
           family' = [family EXCEPT ![f] = new]
    PROVE  Ranked'
<1>1. PICK r \in [Families -> Nat] : Ranks(r)
  BY DEF Ranked
<1>2. PICK s \in [Families -> Nat] :
            s = [h \in Families |-> IF h \in Chain(p) THEN r[h] + r[f] + 1 ELSE r[h]]
  <2> DEFINE t == [h \in Families |-> IF h \in Chain(p) THEN r[h] + r[f] + 1 ELSE r[h]]
  <2>1. t \in [Families -> Nat]
    OBVIOUS
  <2> HIDE DEF t
  <2>2. \E u \in [Families -> Nat] : u = t
    BY <2>1
  <2> QED
    BY <2>2 DEF t
<1>3. /\ family'[f] = new
      /\ \A h \in Families \ {f} : family'[h] = family[h]
  BY DEF FamilyTypeOK
<1>4. \A h \in Families : Exists(h) => Exists(h)'
  BY <1>3 DEF Exists
<1>5. ASSUME NEW h \in Families, Exists(h)', family'[h].parent # NoFamily
      PROVE  (family'[family'[h].parent] # NoFamily /\ s[h] < s[family'[h].parent]) \/ h = f
  <2>1. CASE h = f
    BY <2>1
  <2>2. CASE h # f
    <3> DEFINE q == family[h].parent
    <3>1. Exists(h) /\ family'[h].parent = q /\ q # NoFamily
      BY <1>3, <1>5, <2>2 DEF Exists
    <3>2. q \in Families /\ Exists(q) /\ r[h] < r[q]
      BY <1>1, <3>1, ParentIsFamily DEF Ranks
    <3>3. h \in Chain(p) => q \in Chain(p)
      BY <3>1, ChainIsClosed
    <3>4. r[f] \in Nat /\ r[h] \in Nat /\ r[q] \in Nat
      BY <3>2
    <3>5. s[h] < s[q]
      BY <1>2, <3>2, <3>3, <3>4
    <3> QED
      BY <1>4, <3>1, <3>2, <3>5 DEF Exists
  <2> QED
    BY <2>1, <2>2
<1>6. ASSUME p # NoFamily
      PROVE  Exists(p)' /\ s[f] < s[p]
  <2>1. p \in Chain(p) /\ f \notin Chain(p) /\ Exists(p)
    BY <1>6, ChainHasItsStart DEF MayBeUnder
  <2>2. s[f] = r[f] /\ s[p] = r[p] + r[f] + 1 /\ r[f] \in Nat /\ r[p] \in Nat
    BY <1>2, <1>6, <2>1
  <2> QED
    BY <1>4, <1>6, <2>1, <2>2
<1>7. Ranks(s)'
  <2> SUFFICES ASSUME NEW h \in Families, Exists(h)', family'[h].parent # NoFamily
               PROVE  family'[family'[h].parent] # NoFamily /\ s[h] < s[family'[h].parent]
    BY DEF Ranks, Exists
  <2> QED
    BY <1>3, <1>5, <1>6 DEF Exists
<1> QED
  BY <1>7 DEF Ranked

LEMMA StepKeepsRanked ==
    ASSUME FamilyInv, Ranked, [FamilyNext]_familyVars
    PROVE  Ranked'
<1>1. FamilyTypeOK
  BY DEF FamilyInv
<1>2. CASE UNCHANGED family
  BY <1>2 DEF Ranked, Ranks, Exists
<1>3. ASSUME NEW c \in Cards, NEW f \in Families, NEW p \in Families \cup {NoFamily},
             CreateFamily(c, f, p)
      PROVE  Ranked'
  <2> DEFINE new == [rev |-> 0, parent |-> p, archived |-> FALSE]
  <2>1. new \in FamilyRecord /\ new.parent = p
    BY DEF FamilyRecord
  <2>2. new # NoFamily
    BY <2>1, FamilyAssumption
  <2>3. MayBeUnder(f, p) /\ family' = [family EXCEPT ![f] = new]
    BY <1>3 DEF CreateFamily
  <2> QED
    BY <1>1, <2>1, <2>2, <2>3, PuttingUnderKeepsRanked
<1>4. ASSUME NEW c \in Cards, UpdateFamily(c)
      PROVE  Ranked'
  <2> DEFINE f == card[c].fam
             p == card[c].parent
             new == [rev |-> card[c].rev + 1, parent |-> p, archived |-> card[c].archived]
  <2>1. f \in Families /\ card[c] \in CardRecord
    BY <1>4 DEF UpdateFamily, FamilyInv, FamilyTypeOK, CardIsHonest
  <2>2. new \in FamilyRecord /\ new.parent = p /\ p \in Families \cup {NoFamily}
    BY <2>1 DEF CardRecord, FamilyRecord
  <2>3. new # NoFamily
    BY <2>2, FamilyAssumption
  <2>4. MayBeUnder(f, p) /\ family' = [family EXCEPT ![f] = new]
    BY <1>4 DEF UpdateFamily
  <2> QED
    BY <1>1, <2>1, <2>2, <2>3, <2>4, PuttingUnderKeepsRanked, ZenonT(30)
<1>5. ASSUME NEW c \in Cards, SetFamilyArchived(c)
      PROVE  Ranked'
  <2>1. PICK r \in [Families -> Nat] : Ranks(r)
    BY DEF Ranked
  <2>2. /\ FamilyTypeOK'
        /\ \A f \in Families : Exists(f) => family'[f].parent = family[f].parent
    BY <1>5, SetArchivedKeepsFamilyInv DEF FamilyInv
  <2>3. \A f \in Families : Exists(f)' <=> Exists(f)
    <3> DEFINE g == card[c].fam
    <3>1. g \in Families /\ Exists(g)
      BY <1>5 DEF SetFamilyArchived, FamilyInv, CardIsHonest
    <3>2. \A f \in Families \ {g} : family'[f] = family[f]
      BY <1>1, <1>5 DEF SetFamilyArchived, FamilyTypeOK
    <3>3. CardIsHonest(c) /\ card[c].pc = "listed"
      BY <1>5 DEF SetFamilyArchived, FamilyInv
    <3>4. family'[g] # NoFamily
      BY <1>5, <3>1, ArchivingKeepsFamily
    <3> QED
      BY <3>1, <3>2, <3>4 DEF Exists
  <2>4. Ranks(r)'
    BY <1>1, <2>1, <2>2, <2>3, ParentIsFamily DEF Ranks, Exists
  <2> QED
    BY <2>4 DEF Ranked
<1> QED
  BY <1>2, <1>3, <1>4, <1>5
  DEF FamilyNext, CardStep, ListFamily, SaveFamily, RefuseFamily, PutAway, familyVars

(* However many tabs put families under one another at once, from forms of   *)
(* any age, no family becomes its own ancestor and no parent is missing.     *)
THEOREM FamiliesStayAForest == FamilySpec => []FamiliesAreAForest
<1>1. FamilyInit => Ranked
  <2> SUFFICES ASSUME FamilyInit PROVE Ranked
    OBVIOUS
  <2>1. [f \in Families |-> 0] \in [Families -> Nat]
    OBVIOUS
  <2> QED
    BY <2>1 DEF FamilyInit, Ranked, Ranks, Exists
<1>2. FamilyInv /\ Ranked => FamiliesAreAForest
  BY RankedIsForest DEF FamilyInv
<1> QED
  BY <1>1, <1>2, FamilyInvInit, FamilyStepKeepsFamilyInv, StepKeepsRanked, PTL DEF FamilySpec

-----------------------------------------------------------------------------
(* Task sets.  A copy of the suite that a page or the results page holds is  *)
(* of a revision the suite had: if it is the present one the copy has the    *)
(* present content, and if it is that of the row, which archiving counts up  *)
(* alone, the copy is archived when the suite is.                            *)
PageRow == [pc : Stage, base : Suite \cup {None}, draft : Content, sent : Content,
            seen : Set \cup {None}, work : Content \cup {None}]

RosterRow == [pc : {"idle", "set", "version", "commit"}, model : Models \cup {None},
              base : Suite \cup {None}, seen : Set \cup {None}, from : Content]

IsCopy(b) ==
    /\ suite # None /\ b \in Suite
    /\ b.rev <= suite.rev
    /\ b.rev = suite.rev => b.body = suite.body /\ b.ver = suite.ver
    /\ b.rev = suite.row => b.archived = suite.archived

VersionIsOf(b) == b.ver \in DOMAIN versions /\ versions[b.ver] = Projected(b.body)

(* A suite without a Task Set has never been saved, and nothing that needs   *)
(* a Task Set has begun.  A set that was not migrated is aligned.            *)
StoreIsSound ==
    /\ suite \in Suite \cup {None} /\ set \in Set \cup {None} /\ begun \in BOOLEAN
    /\ versions \in [1 .. (IF set = None THEN 0 ELSE set.latest) -> Content]
    /\ suite = None => set = None
    /\ suite # None => suite.rev <= suite.row
    /\ set = None => ~begun /\ (suite # None => suite.ver = 1)
    /\ past = <<>> /\ set # None => suite.ver = set.latest /\ VersionIsOf(suite)

PageIsSound(k) ==
    /\ k.base = None <=> k.pc = "closed"
    /\ k.pc # "closed" => IsCopy(k.base)
    /\ k.pc = "commit" => k.seen # None
    /\ k.pc = "settle" => k.base.rev < suite.rev
    /\ set = None => /\ k.pc \notin {"commit", "settle", "resolve", "start"}
                     /\ k.pc # "closed" => k.base.rev = suite.rev
    /\ past = <<>> => /\ set # None /\ k.pc # "closed" => VersionIsOf(k.base)
                      /\ k.pc = "start" => k.work = Projected(k.base.body)

RosterIsSound ==
    /\ roster \in RosterRow
    /\ roster.pc # "idle" => set # None /\ IsCopy(roster.base) /\ roster.model \in Models
    /\ roster.pc \in {"version", "commit"} => roster.seen # None
    /\ roster.pc = "commit" => /\ roster.seen.latest \in DOMAIN versions
                               /\ roster.from = versions[roster.seen.latest]

PagesAreSound == page \in [Pages -> PageRow] /\ \A p \in Pages : PageIsSound(page[p])

SetsInv == StoreIsSound /\ PagesAreSound /\ RosterIsSound

(* Rows of pages, and what the code writes into them.                        *)
LEMMA ClosedIsSound == Closed \in PageRow /\ Closed.base = None /\ Closed.pc = "closed"
BY DEF Closed, PageRow, Stage, Saving, Content

LEMMA RowAt ==
    ASSUME NEW k \in PageRow, NEW s \in Stage
    PROVE  LET m == [k EXCEPT !.pc = s]
           IN  /\ m \in PageRow /\ m.pc = s /\ m.base = k.base /\ m.seen = k.seen
               /\ m.draft = k.draft /\ m.sent = k.sent /\ m.work = k.work
BY DEF PageRow

LEMMA NoneIsNothing == None \notin Suite /\ None \notin Set
BY TaskSetsAssumption

(* A step after which what was sound still is, that changes the row of one   *)
(* page at most, leaves every page sound.                                    *)
LEMMA PagesFollow ==
    ASSUME PagesAreSound, NEW p \in Pages, NEW k \in PageRow, PageIsSound(k)',
           page' = [page EXCEPT ![p] = k],
           \A m \in PageRow : PageIsSound(m) => PageIsSound(m)'
    PROVE  PagesAreSound'
<1>1. page' \in [Pages -> PageRow]
  BY DEF PagesAreSound
<1>2. ASSUME NEW q \in Pages PROVE PageIsSound(page[q])'
  <2>1. PICK m \in PageRow : m = page'[q]
    BY <1>1
  <2>2. m = k \/ PageIsSound(m)
    BY <2>1 DEF PagesAreSound
  <2>3. PageIsSound(m)'
    BY <2>2
  <2> QED
    BY <2>1, <2>3 DEF PageIsSound
<1> QED
  BY <1>1, <1>2 DEF PagesAreSound

LEMMA PagesRest ==
    ASSUME PagesAreSound, UNCHANGED page,
           \A m \in PageRow : PageIsSound(m) => PageIsSound(m)'
    PROVE  PagesAreSound'
<1>1. ASSUME NEW q \in Pages PROVE PageIsSound(page[q])'
  <2>1. PICK m \in PageRow : m = page[q]
    BY DEF PagesAreSound
  <2>2. PageIsSound(m)'
    BY <2>1 DEF PagesAreSound
  <2> QED
    BY <2>1, <2>2 DEF PageIsSound
<1> QED
  BY <1>1 DEF PagesAreSound

LEMMA SoundnessStays ==
    ASSUME UNCHANGED <<Stored, past>>
    PROVE  \A m \in PageRow : PageIsSound(m) => PageIsSound(m)'
BY DEF Stored, PageIsSound, IsCopy, VersionIsOf

(* A step that changes the row of one page alone, to a sound one.            *)
LEMMA PageAlone ==
    ASSUME SetsInv, NEW p \in Pages, NEW k \in PageRow, PageIsSound(k),
           page' = [page EXCEPT ![p] = k], UNCHANGED <<Stored, roster, past>>,
           begun' \in BOOLEAN, begun' => set # None
    PROVE  SetsInv'
<1>1. StoreIsSound'
  BY DEF SetsInv, StoreIsSound, Stored, VersionIsOf
<1>2. RosterIsSound'
  BY DEF SetsInv, RosterIsSound, Stored, IsCopy
<1>3. PagesAreSound'
  BY PagesFollow, SoundnessStays DEF SetsInv
<1> QED
  BY <1>1, <1>2, <1>3 DEF SetsInv

LEMMA PageFacts ==
    ASSUME SetsInv, NEW p \in Pages
    PROVE  page[p] \in PageRow /\ PageIsSound(page[p])
BY DEF SetsInv, PagesAreSound

(* A page that moves on, or is refused, keeps its copy.                      *)
LEMMA RefusedIsPage ==
    ASSUME SetsInv, NEW p \in Pages, page[p].pc # "closed", Refused(p)
    PROVE  \E k \in PageRow : PageIsSound(k) /\ page' = [page EXCEPT ![p] = k]
<1>1. page[p] \in PageRow /\ PageIsSound(page[p])
  BY PageFacts
<1>2. page[p].base \in Suite /\ page[p].draft \in Content
  BY <1>1 DEF PageIsSound, PageRow, IsCopy
<1> DEFINE k == [Closed EXCEPT !.pc = "idle", !.base = page[p].base, !.draft = page[p].draft]
<1>3. k \in PageRow /\ k.pc = "idle" /\ k.base = page[p].base
  <2>1. "idle" \in Stage
    BY DEF Stage
  <2> QED
    BY <1>2, <2>1, ClosedIsSound DEF PageRow
<1>4. page' = [page EXCEPT ![p] = k]
  BY DEF Refused
<1> HIDE DEF k
<1>5. PageIsSound(k)
  BY <1>1, <1>2, <1>3, NoneIsNothing DEF PageIsSound
<1> QED
  BY <1>3, <1>4, <1>5

LEMMA RefusalKeepsSets ==
    ASSUME SetsInv, NEW p \in Pages, page[p].pc # "closed", Refused(p),
           UNCHANGED <<Stored, roster, past>>, begun' \in BOOLEAN, begun' => set # None
    PROVE  SetsInv'
BY RefusedIsPage, PageAlone

LEMMA GoingIsPage ==
    ASSUME SetsInv, NEW p \in Pages, NEW s \in Stage \ {"closed", "commit", "settle", "start"},
           page[p].pc # "closed", Goes(p, s), s = "resolve" => set # None
    PROVE  \E k \in PageRow : PageIsSound(k) /\ page' = [page EXCEPT ![p] = k]
<1>1. page[p] \in PageRow /\ PageIsSound(page[p])
  BY PageFacts
<1> DEFINE k == [page[p] EXCEPT !.pc = s]
<1>2. k \in PageRow /\ k.pc = s /\ k.base = page[p].base
  BY <1>1, RowAt
<1>3. page' = [page EXCEPT ![p] = k]
  BY DEF Goes
<1> HIDE DEF k
<1>4. PageIsSound(k)
  BY <1>1, <1>2 DEF PageIsSound
<1> QED
  BY <1>2, <1>3, <1>4

LEMMA BegunNeedsSet == SetsInv => begun \in BOOLEAN /\ (begun => set # None)
BY DEF SetsInv, StoreIsSound

-----------------------------------------------------------------------------
(* The steps of a page that store nothing.                                   *)
LEMMA LoadKeepsSets ==
    ASSUME SetsInv, NEW p \in Pages, Load(p)
    PROVE  SetsInv'
<1>1. suite \in Suite /\ UNCHANGED <<Stored, roster, begun, past>>
  BY DEF Load, SetsInv, StoreIsSound
<1> DEFINE k == [Closed EXCEPT !.pc = "idle", !.base = suite, !.draft = suite.body]
<1>2. k \in PageRow /\ k.pc = "idle" /\ k.base = suite
  <2>1. "idle" \in Stage /\ suite.body \in Content
    BY <1>1 DEF Stage, Suite
  <2> QED
    BY <1>1, <2>1, ClosedIsSound DEF PageRow
<1>3. page' = [page EXCEPT ![p] = k]
  BY DEF Load
<1> HIDE DEF k
<1>4. IsCopy(suite)
  <2>1. suite.rev \in Nat /\ suite # None
    BY <1>1, NoneIsNothing DEF Suite
  <2> QED
    BY <1>1, <2>1 DEF IsCopy
<1>5. past = <<>> /\ set # None => VersionIsOf(suite)
  BY DEF SetsInv, StoreIsSound
<1>6. PageIsSound(k)
  BY <1>1, <1>2, <1>4, <1>5, NoneIsNothing DEF PageIsSound
<1> QED
  BY <1>1, <1>2, <1>3, <1>6, BegunNeedsSet, PageAlone

LEMMA LeaveKeepsSets ==
    ASSUME SetsInv, NEW p \in Pages, Leave(p)
    PROVE  SetsInv'
<1>1. page' = [page EXCEPT ![p] = Closed] /\ UNCHANGED <<Stored, roster, begun, past>>
  BY DEF Leave
<1>2. PageIsSound(Closed)
  BY ClosedIsSound DEF PageIsSound
<1> QED
  BY <1>1, <1>2, ClosedIsSound, BegunNeedsSet, PageAlone

LEMMA EditKeepsSets ==
    ASSUME SetsInv, NEW p \in Pages, NEW e \in Tasks \cup Models \cup Marks, Edit(p, e)
    PROVE  SetsInv'
<1>1. page[p] \in PageRow /\ PageIsSound(page[p])
  BY PageFacts
<1> DEFINE d == IF e \in page[p].draft THEN page[p].draft \ {e} ELSE page[p].draft \cup {e}
           k == [page[p] EXCEPT !.draft = d]
<1>2. d \in Content
  BY <1>1 DEF PageRow, Content
<1>3. /\ k \in PageRow /\ k.pc = page[p].pc /\ k.base = page[p].base
      /\ k.seen = page[p].seen /\ k.work = page[p].work
  <2> HIDE DEF d
  <2> QED
    BY <1>1, <1>2 DEF PageRow
<1>4. page' = [page EXCEPT ![p] = k] /\ UNCHANGED <<Stored, roster, begun, past>>
  BY DEF Edit
<1> HIDE DEF k
<1>5. PageIsSound(k)
  BY <1>1, <1>3 DEF PageIsSound
<1> QED
  BY <1>3, <1>4, <1>5, BegunNeedsSet, PageAlone

LEMMA SaveKeepsSets ==
    ASSUME SetsInv, NEW p \in Pages, Save(p)
    PROVE  SetsInv'
<1>1. page[p] \in PageRow /\ PageIsSound(page[p])
  BY PageFacts
<1> DEFINE k == [page[p] EXCEPT !.pc = "read", !.sent = page[p].draft]
<1>2. k \in PageRow /\ k.pc = "read" /\ k.base = page[p].base
  <2>1. "read" \in Stage
    BY DEF Stage
  <2> QED
    BY <1>1, <2>1 DEF PageRow
<1>3. page' = [page EXCEPT ![p] = k] /\ UNCHANGED <<Stored, roster, begun, past>>
  BY DEF Save
<1> HIDE DEF k
<1>4. PageIsSound(k)
  BY <1>1, <1>2 DEF Save, PageIsSound
<1> QED
  BY <1>2, <1>3, <1>4, BegunNeedsSet, PageAlone

LEMMA SaveReadsSuiteKeepsSets ==
    ASSUME SetsInv, NEW p \in Pages, SaveReadsSuite(p)
    PROVE  SetsInv'
<1>1. page[p].pc = "read" /\ UNCHANGED <<Stored, roster, begun, past>>
  BY DEF SaveReadsSuite
<1>2. CASE Refused(p)
  BY <1>1, <1>2, BegunNeedsSet, RefusalKeepsSets
<1>3. CASE Goes(p, "record")
  <2>1. "record" \in Stage \ {"closed", "commit", "settle", "start"}
    BY DEF Stage, Saving
  <2>2. PICK k \in PageRow : PageIsSound(k) /\ page' = [page EXCEPT ![p] = k]
    BY <1>1, <1>3, <2>1, GoingIsPage
  <2> QED
    BY <1>1, <2>2, BegunNeedsSet, PageAlone
<1> QED
  BY <1>2, <1>3 DEF SaveReadsSuite

LEMMA SaveReadsSetKeepsSets ==
    ASSUME SetsInv, NEW p \in Pages, SaveReadsSet(p)
    PROVE  SetsInv'
<1>1. page[p].pc = "record" /\ UNCHANGED <<Stored, roster, begun, past>>
  BY DEF SaveReadsSet
<1>2. CASE set = None
  <2>1. Refused(p)
    BY <1>2 DEF SaveReadsSet
  <2> QED
    BY <1>1, <2>1, BegunNeedsSet, RefusalKeepsSets
<1>3. CASE set # None
  <2>1. page[p] \in PageRow /\ PageIsSound(page[p]) /\ set \in Set
    BY <1>3, PageFacts DEF SetsInv, StoreIsSound
  <2> DEFINE k == [page[p] EXCEPT !.pc = "commit", !.seen = set]
  <2>2. k \in PageRow /\ k.pc = "commit" /\ k.base = page[p].base /\ k.seen = set
    <3>1. "commit" \in Stage
      BY DEF Stage, Saving
    <3> QED
      BY <2>1, <3>1 DEF PageRow
  <2>3. page' = [page EXCEPT ![p] = k]
    BY <1>3 DEF SaveReadsSet
  <2> HIDE DEF k
  <2>4. PageIsSound(k)
    BY <1>1, <1>3, <2>1, <2>2 DEF PageIsSound
  <2> QED
    BY <1>1, <2>2, <2>3, <2>4, BegunNeedsSet, PageAlone
<1> QED
  BY <1>2, <1>3

(* What settles is the suite as it is now, at the revision of the own save,  *)
(* which is the present one only if nobody saved since.                      *)
LEMMA SaveSettlesKeepsSets ==
    ASSUME SetsInv, NEW p \in Pages, SaveSettles(p)
    PROVE  SetsInv'
<1>1. /\ page[p] \in PageRow /\ PageIsSound(page[p])
      /\ page[p].pc = "settle" /\ UNCHANGED <<Stored, roster, begun, past>>
  BY PageFacts DEF SaveSettles
<1> DEFINE b == [suite EXCEPT !.rev = page[p].base.rev + 1]
<1>2. /\ suite \in Suite /\ page[p].base \in Suite /\ set # None
      /\ page[p].base.rev < suite.rev /\ suite.rev <= suite.row
  BY <1>1 DEF SetsInv, StoreIsSound, PageIsSound, IsCopy
<1>3. /\ b \in Suite /\ b.rev = page[p].base.rev + 1 /\ b.ver = suite.ver
      /\ b.body = suite.body /\ b.archived = suite.archived
  <2>1. page[p].base.rev + 1 \in Nat
    BY <1>2 DEF Suite
  <2> QED
    BY <1>2, <2>1 DEF Suite
<1> HIDE DEF b
<1>4. IsCopy(b)
  <2>1. page[p].base.rev \in Nat /\ suite.rev \in Nat /\ suite # None
    BY <1>2, NoneIsNothing DEF Suite
  <2>2. b.rev <= suite.rev
    BY <1>2, <1>3, <2>1
  <2> QED
    BY <1>3, <2>1, <2>2 DEF IsCopy
<1>5. PICK s \in {"idle", "run"} :
            page' = [page EXCEPT ![p] = [Closed EXCEPT !.pc = s, !.base = b, !.draft = b.body]]
  BY DEF SaveSettles, b
<1> DEFINE k == [Closed EXCEPT !.pc = s, !.base = b, !.draft = b.body]
<1>6. k \in PageRow /\ k.pc = s /\ k.base = b
  <2>1. s \in Stage /\ b.body \in Content
    BY <1>3 DEF Stage, Suite
  <2> QED
    BY <1>3, <2>1, ClosedIsSound DEF PageRow
<1>7. page' = [page EXCEPT ![p] = k]
  BY <1>5
<1> HIDE DEF k
<1>8. past = <<>> => VersionIsOf(b)
  BY <1>2, <1>3 DEF SetsInv, StoreIsSound, VersionIsOf
<1>9. PageIsSound(k)
  BY <1>2, <1>3, <1>4, <1>6, <1>8, NoneIsNothing DEF PageIsSound
<1> QED
  BY <1>1, <1>6, <1>7, <1>9, BegunNeedsSet, PageAlone

LEMMA StorageFailsKeepsSets ==
    ASSUME SetsInv, NEW p \in Pages, StorageFails(p)
    PROVE  SetsInv'
<1>1. page[p].pc # "closed" /\ Refused(p) /\ UNCHANGED <<Stored, roster, begun, past>>
  BY DEF StorageFails, Saving
<1> QED
  BY <1>1, BegunNeedsSet, RefusalKeepsSets

LEMMA RunKeepsSets ==
    ASSUME SetsInv, NEW p \in Pages, Run(p)
    PROVE  SetsInv'
<1>1. page[p].pc = "idle" /\ Goes(p, "run") /\ UNCHANGED <<Stored, roster, begun, past>>
  BY DEF Run
<1>2. "run" \in Stage \ {"closed", "commit", "settle", "start"}
  BY DEF Stage
<1>3. PICK k \in PageRow : PageIsSound(k) /\ page' = [page EXCEPT ![p] = k]
  BY <1>1, <1>2, GoingIsPage
<1> QED
  BY <1>1, <1>3, BegunNeedsSet, PageAlone

LEMMA RunReadsSetKeepsSets ==
    ASSUME SetsInv, NEW p \in Pages, RunReadsSet(p)
    PROVE  SetsInv'
<1>1. page[p].pc = "run" /\ UNCHANGED <<Stored, roster, begun, past>>
  BY DEF RunReadsSet
<1>2. PICK s \in {"create", "resolve"} : Goes(p, s) /\ (s = "resolve" => set # None)
  BY DEF RunReadsSet
<1>3. s \in Stage \ {"closed", "commit", "settle", "start"}
  BY DEF Stage
<1>4. PICK k \in PageRow : PageIsSound(k) /\ page' = [page EXCEPT ![p] = k]
  BY <1>1, <1>2, <1>3, GoingIsPage
<1> QED
  BY <1>1, <1>4, BegunNeedsSet, PageAlone

LEMMA RunMaterializesKeepsSets ==
    ASSUME SetsInv, NEW p \in Pages, RunMaterializes(p)
    PROVE  SetsInv'
<1>1. page[p].pc = "resolve" /\ UNCHANGED <<Stored, roster, begun, past>>
  BY DEF RunMaterializes
<1>2. CASE Refused(p)
  BY <1>1, <1>2, BegunNeedsSet, RefusalKeepsSets
<1>3. CASE ~Refused(p)
  <2>1. /\ page[p] \in PageRow /\ PageIsSound(page[p]) /\ page[p].base \in Suite
        /\ page[p].base.ver \in DOMAIN versions /\ set # None
    BY <1>1, <1>3, PageFacts DEF RunMaterializes, PageIsSound, IsCopy
  <2> DEFINE w == versions[page[p].base.ver]
             k == [page[p] EXCEPT !.pc = "start", !.work = w]
  <2>2. w \in Content
    BY <2>1 DEF SetsInv, StoreIsSound
  <2>3. k \in PageRow /\ k.pc = "start" /\ k.base = page[p].base /\ k.work = w
    <3>1. "start" \in Stage
      BY DEF Stage
    <3> HIDE DEF w
    <3> QED
      BY <2>1, <2>2, <3>1 DEF PageRow
  <2>4. page' = [page EXCEPT ![p] = k]
    BY <1>3 DEF RunMaterializes
  <2> HIDE DEF k
  <2>5. PageIsSound(k)
    BY <1>1, <2>1, <2>3 DEF PageIsSound, VersionIsOf
  <2> QED
    BY <1>1, <2>3, <2>4, <2>5, BegunNeedsSet, PageAlone
<1> QED
  BY <1>2, <1>3

LEMMA RunStartsKeepsSets ==
    ASSUME SetsInv, NEW p \in Pages, RunStarts(p)
    PROVE  SetsInv'
<1>1. /\ page[p].pc = "start" /\ Refused(p) /\ UNCHANGED <<Stored, roster, past>>
      /\ begun' \in {begun, TRUE}
  BY DEF RunStarts
<1>2. set # None
  BY <1>1, PageFacts DEF PageIsSound
<1>3. begun' \in BOOLEAN
  BY <1>1 DEF SetsInv, StoreIsSound
<1> QED
  BY <1>1, <1>2, <1>3, RefusalKeepsSets

-----------------------------------------------------------------------------
(* The steps that store something.                                           *)
LEMMA CreateKeepsSets ==
    ASSUME SetsInv, NEW body \in Content, Create(body)
    PROVE  SetsInv'
<1> DEFINE new == [row |-> 1, rev |-> 1, ver |-> 1, body |-> body, archived |-> FALSE]
<1>1. new \in Suite /\ new # None /\ new.rev = 1 /\ new.row = 1 /\ new.ver = 1
  <2>1. new \in Suite
    BY DEF Suite
  <2> HIDE DEF new
  <2>2. new # None
    BY <2>1, NoneIsNothing
  <2> QED
    BY <2>2 DEF new, Suite
<1>2. /\ suite = None /\ suite' = new /\ set = None
      /\ UNCHANGED <<set, versions, page, roster, begun, past>>
  BY DEF Create, SetsInv, StoreIsSound
<1> HIDE DEF new
<1>3. StoreIsSound'
  <2>1. suite'.rev <= suite'.row
    BY <1>1, <1>2
  <2> QED
    BY <1>1, <1>2, <2>1 DEF SetsInv, StoreIsSound
<1>4. RosterIsSound'
  BY <1>2 DEF SetsInv, RosterIsSound
<1>5. \A m \in PageRow : PageIsSound(m) => PageIsSound(m)'
  BY <1>2 DEF PageIsSound, IsCopy
<1>6. PagesAreSound'
  BY <1>2, <1>5, PagesRest DEF SetsInv
<1> QED
  BY <1>3, <1>4, <1>6 DEF SetsInv

LEMMA ArchiveEffect ==
    ASSUME SetsInv, Archive
    PROVE  /\ suite \in Suite /\ suite' \in Suite /\ suite' # None
           /\ suite'.rev = suite.rev /\ suite'.ver = suite.ver /\ suite'.body = suite.body
           /\ suite'.row = suite.row + 1 /\ suite.rev <= suite.row
           /\ UNCHANGED <<set, versions, page, roster, begun, past>>
<1>1. suite \in Suite /\ suite.rev <= suite.row
  BY DEF Archive, SetsInv, StoreIsSound
<1> DEFINE new == [suite EXCEPT !.archived = TRUE, !.row = suite.row + 1]
<1>2. /\ new \in Suite /\ new.rev = suite.rev /\ new.ver = suite.ver
      /\ new.body = suite.body /\ new.row = suite.row + 1
  <2>1. suite.row + 1 \in Nat
    BY <1>1 DEF Suite
  <2> QED
    BY <1>1, <2>1 DEF Suite
<1>3. suite' = new /\ UNCHANGED <<set, versions, page, roster, begun, past>>
  BY DEF Archive
<1> HIDE DEF new
<1> QED
  BY <1>1, <1>2, <1>3, NoneIsNothing

LEMMA ArchiveKeepsSets ==
    ASSUME SetsInv, Archive
    PROVE  SetsInv'
<1>1. /\ suite \in Suite /\ suite' \in Suite /\ suite' # None /\ suite # None
      /\ suite'.rev = suite.rev /\ suite'.ver = suite.ver /\ suite'.body = suite.body
      /\ suite'.row = suite.row + 1 /\ suite.rev <= suite.row
      /\ UNCHANGED <<set, versions, page, roster, begun, past>>
  BY ArchiveEffect DEF Archive
<1>2. suite.rev \in Nat /\ suite.row \in Nat
  BY <1>1 DEF Suite
<1>3. StoreIsSound'
  <2>1. suite'.rev <= suite'.row
    BY <1>1, <1>2
  <2> QED
    BY <1>1, <2>1 DEF SetsInv, StoreIsSound, VersionIsOf
<1>4. \A b : IsCopy(b) => IsCopy(b)'
  <2> SUFFICES ASSUME NEW b, IsCopy(b) PROVE IsCopy(b)'
    OBVIOUS
  <2>1. b \in Suite /\ b.rev \in Nat /\ b.rev <= suite.rev
    BY DEF IsCopy, Suite
  <2>2. b.rev # suite'.row
    BY <1>1, <1>2, <2>1
  <2> QED
    BY <1>1, <2>1, <2>2 DEF IsCopy
<1>5. RosterIsSound'
  BY <1>1, <1>4 DEF SetsInv, RosterIsSound
<1>6. \A m \in PageRow : PageIsSound(m) => PageIsSound(m)'
  BY <1>1, <1>4 DEF PageIsSound, VersionIsOf
<1>7. PagesAreSound'
  BY <1>1, <1>6, PagesRest DEF SetsInv
<1> QED
  BY <1>3, <1>5, <1>7 DEF SetsInv

(* A version that is published from a copy and a Task Set which are current: *)
(* the copy is what is stored, and the version is the next.                  *)
LEMMA PublishEffect ==
    ASSUME StoreIsSound, NEW base, IsCopy(base), NEW seen \in Set, set # None,
           NEW body \in Content, NEW version \in Content,
           Current(base, seen), Publish(base, seen, body, version)
    PROVE  /\ suite \in Suite /\ suite' \in Suite /\ suite' # None
           /\ base.rev = suite.rev /\ suite.row = suite.rev
           /\ base.body = suite.body /\ base.ver = suite.ver /\ base.archived = suite.archived
           /\ suite'.row = suite.rev + 1 /\ suite'.rev = suite.rev + 1
           /\ suite'.ver = set.latest + 1 /\ suite'.body = body
           /\ suite'.archived = suite.archived
           /\ set \in Set /\ set' \in Set /\ set' # None /\ seen.latest = set.latest
           /\ set'.latest = set.latest + 1
           /\ versions' \in [1 .. set'.latest -> Content]
           /\ versions'[set.latest + 1] = version
           /\ \A n \in DOMAIN versions : n \in DOMAIN versions' /\ versions'[n] = versions[n]
<1>1. /\ suite \in Suite /\ base \in Suite /\ set \in Set
      /\ suite.rev <= suite.row /\ base.rev <= suite.rev
  BY DEF StoreIsSound, IsCopy
<1>2. /\ suite.rev \in Nat /\ suite.row \in Nat /\ base.rev \in Nat
      /\ set.latest \in Nat /\ seen.latest \in Nat /\ seen.rev \in Nat /\ set.rev \in Nat
  BY <1>1 DEF Suite, Set
<1>3. /\ suite.row = base.rev /\ set.rev = seen.rev /\ seen.latest = set.latest
      /\ set.latest + 1 \notin DOMAIN versions
  BY <1>2 DEF Current
<1>4. base.rev = suite.rev /\ suite.row = suite.rev
  BY <1>1, <1>2, <1>3
<1>5. base.body = suite.body /\ base.ver = suite.ver /\ base.archived = suite.archived
  BY <1>4 DEF IsCopy
<1> DEFINE new == [row |-> base.rev + 1, rev |-> base.rev + 1, ver |-> seen.latest + 1,
                   body |-> body, archived |-> base.archived]
           put == [rev |-> seen.rev + 1, latest |-> seen.latest + 1]
<1>6. /\ new \in Suite /\ new.row = base.rev + 1 /\ new.rev = base.rev + 1
      /\ new.ver = seen.latest + 1 /\ new.body = body /\ new.archived = base.archived
  <2>1. base.rev + 1 \in Nat /\ seen.latest + 1 \in Nat /\ base.archived \in BOOLEAN
    BY <1>1, <1>2 DEF Suite
  <2> QED
    BY <2>1 DEF Suite
<1>7. put \in Set /\ put.latest = seen.latest + 1
  BY <1>2 DEF Set
<1>8. suite' = new /\ set' = put /\ versions' = With(seen.latest + 1, version)
  BY DEF Publish
<1> HIDE DEF new, put
<1>9. /\ versions' = [k \in DOMAIN versions \cup {set.latest + 1} |->
                         IF k = set.latest + 1 THEN version ELSE versions[k]]
      /\ versions \in [1 .. set.latest -> Content]
  BY <1>3, <1>8 DEF With, StoreIsSound
<1>10. /\ versions' \in [1 .. set.latest + 1 -> Content]
       /\ versions'[set.latest + 1] = version
       /\ \A n \in DOMAIN versions : n \in DOMAIN versions' /\ versions'[n] = versions[n]
  <2>1. DOMAIN versions \cup {set.latest + 1} = 1 .. set.latest + 1
    BY <1>2, <1>9
  <2> QED
    BY <1>3, <1>9, <2>1
<1>11. set'.latest = set.latest + 1 /\ suite' # None /\ set' # None
  BY <1>3, <1>6, <1>7, <1>8, NoneIsNothing
<1> QED
  BY <1>1, <1>3, <1>4, <1>5, <1>6, <1>7, <1>8, <1>10, <1>11

(* Copies and sound pages and additions stay so when a version is published. *)
LEMMA PublishKeepsCopies ==
    ASSUME StoreIsSound, NEW base, IsCopy(base), NEW seen \in Set, set # None,
           NEW body \in Content, NEW version \in Content,
           Current(base, seen), Publish(base, seen, body, version), UNCHANGED past
    PROVE  /\ \A b : IsCopy(b) => IsCopy(b)'
           /\ \A b : VersionIsOf(b) => VersionIsOf(b)'
           /\ \A m \in PageRow : PageIsSound(m) => PageIsSound(m)'
<1>1. /\ suite \in Suite /\ suite' \in Suite /\ suite' # None
      /\ suite'.row = suite.rev + 1 /\ suite'.rev = suite.rev + 1 /\ set' # None
      /\ \A n \in DOMAIN versions : n \in DOMAIN versions' /\ versions'[n] = versions[n]
  BY PublishEffect
<1>2. suite.rev \in Nat
  BY <1>1 DEF Suite
<1>3. ASSUME NEW b, IsCopy(b)
      PROVE  IsCopy(b)' /\ b.rev < suite'.rev /\ b.rev \in Nat
  <2>1. b \in Suite /\ b.rev \in Nat /\ b.rev <= suite.rev
    BY <1>3 DEF IsCopy, Suite
  <2>2. /\ b.rev < suite'.rev /\ b.rev # suite'.rev /\ b.rev # suite'.row
        /\ b.rev <= suite'.rev
    BY <1>1, <1>2, <2>1
  <2> QED
    BY <1>1, <2>1, <2>2 DEF IsCopy
<1>4. ASSUME NEW b, VersionIsOf(b) PROVE VersionIsOf(b)'
  BY <1>1, <1>4 DEF VersionIsOf
<1>5. ASSUME NEW m \in PageRow, PageIsSound(m) PROVE PageIsSound(m)'
  <2>1. CASE m.pc = "closed"
    BY <1>1, <1>5, <2>1 DEF PageIsSound
  <2>2. CASE m.pc # "closed"
    <3>1. IsCopy(m.base) /\ IsCopy(m.base)' /\ m.base.rev < suite'.rev
      BY <1>3, <1>5, <2>2 DEF PageIsSound
    <3>2. past = <<>> => VersionIsOf(m.base)'
      BY <1>4, <1>5, <2>2 DEF PageIsSound
    <3> QED
      BY <1>1, <1>5, <3>1, <3>2 DEF PageIsSound
  <2> QED
    BY <2>1, <2>2
<1> QED
  BY <1>3, <1>4, <1>5

LEMMA PublishKeepsStore ==
    ASSUME StoreIsSound, NEW base, IsCopy(base), NEW seen \in Set, set # None,
           NEW body \in Content, NEW version \in Content,
           Current(base, seen), Publish(base, seen, body, version), UNCHANGED <<past, begun>>,
           past = <<>> => version = Projected(body)
    PROVE  StoreIsSound'
<1>1. /\ suite \in Suite /\ suite' \in Suite /\ suite' # None
      /\ suite'.row = suite.rev + 1 /\ suite'.rev = suite.rev + 1
      /\ suite'.ver = set.latest + 1 /\ suite'.body = body
      /\ set \in Set /\ set' \in Set /\ set' # None
      /\ set'.latest = set.latest + 1
      /\ versions' \in [1 .. set'.latest -> Content]
      /\ versions'[set.latest + 1] = version
  BY PublishEffect
<1>2. suite.rev \in Nat /\ set.latest \in Nat
  BY <1>1 DEF Suite, Set
<1>3. suite'.rev <= suite'.row
  BY <1>1, <1>2
<1>4. suite'.ver = set'.latest /\ suite'.ver \in DOMAIN versions'
  BY <1>1, <1>2
<1>5. past' = <<>> => VersionIsOf(suite)'
  BY <1>1, <1>4 DEF VersionIsOf
<1> QED
  BY <1>1, <1>3, <1>4, <1>5 DEF StoreIsSound

LEMMA ProjectedIsContent ==
    ASSUME NEW b \in Content
    PROVE  Projected(b) \in Content
BY DEF Projected, Content

LEMMA SaveCommitsKeepsSets ==
    ASSUME SetsInv, NEW p \in Pages, SaveCommits(p)
    PROVE  SetsInv'
<1> DEFINE me == page[p]
<1>1. /\ me \in PageRow /\ PageIsSound(me) /\ me.pc = "commit"
      /\ UNCHANGED <<roster, begun, past>>
  BY PageFacts DEF SaveCommits
<1>2. /\ IsCopy(me.base) /\ me.seen \in Set /\ set # None /\ me.sent \in Content
      /\ Projected(me.sent) \in Content
  BY <1>1, ProjectedIsContent DEF PageIsSound, PageRow
<1>3. CASE HasTasks(Projected(me.sent)) /\ Current(me.base, me.seen)
  <2>1. Publish(me.base, me.seen, me.sent, Projected(me.sent)) /\ Goes(p, "settle")
    BY <1>3 DEF SaveCommits
  <2>2. StoreIsSound
    BY DEF SetsInv
  <2>3. StoreIsSound'
    BY <1>1, <1>2, <1>3, <2>1, <2>2, PublishKeepsStore
  <2>4. /\ \A b : IsCopy(b) => IsCopy(b)'
        /\ \A b : VersionIsOf(b) => VersionIsOf(b)'
        /\ \A m \in PageRow : PageIsSound(m) => PageIsSound(m)'
    BY <1>1, <1>2, <1>3, <2>1, <2>2, PublishKeepsCopies
  <2>5. /\ suite \in Suite /\ me.base.rev = suite.rev /\ suite'.rev = suite.rev + 1
        /\ set' # None
        /\ \A n \in DOMAIN versions : n \in DOMAIN versions' /\ versions'[n] = versions[n]
    BY <1>2, <1>3, <2>1, <2>2, PublishEffect
  <2>6. RosterIsSound'
    BY <1>1, <2>4, <2>5 DEF SetsInv, RosterIsSound
  <2>7. PICK k \in PageRow : /\ k.pc = "settle" /\ k.base = me.base
                             /\ page' = [page EXCEPT ![p] = k]
    <3> DEFINE n == [me EXCEPT !.pc = "settle"]
    <3>1. "settle" \in Stage
      BY DEF Stage, Saving
    <3>2. n \in PageRow /\ n.pc = "settle" /\ n.base = me.base
      BY <1>1, <3>1, RowAt
    <3>3. page' = [page EXCEPT ![p] = n]
      BY <2>1 DEF Goes
    <3> HIDE DEF n
    <3> QED
      BY <3>2, <3>3
  <2>8. page' = [page EXCEPT ![p] = k]
    BY <2>7
  <2>9. PageIsSound(k)'
    <3>1. IsCopy(k.base) /\ (past = <<>> => VersionIsOf(k.base))
      BY <1>1, <1>2, <2>7 DEF PageIsSound
    <3>2. IsCopy(k.base)' /\ (past = <<>> => VersionIsOf(k.base)')
      BY <2>4, <3>1
    <3>3. k.base.rev < suite'.rev /\ k.base \in Suite
      BY <1>2, <2>5, <2>7 DEF Suite, IsCopy
    <3> QED
      BY <1>1, <2>5, <2>7, <3>2, <3>3, NoneIsNothing DEF PageIsSound
  <2>10. PagesAreSound'
    BY <2>4, <2>7, <2>8, <2>9, PagesFollow DEF SetsInv
  <2> QED
    BY <2>3, <2>6, <2>10 DEF SetsInv
<1>4. CASE ~(HasTasks(Projected(me.sent)) /\ Current(me.base, me.seen))
  <2>1. Refused(p) /\ UNCHANGED Stored
    BY <1>4 DEF SaveCommits
  <2> QED
    BY <1>1, <2>1, BegunNeedsSet, RefusalKeepsSets DEF Stored
<1> QED
  BY <1>3, <1>4

LEMMA CreatesEffect ==
    ASSUME SetsInv, NEW p \in Pages, RunCreates(p), CreatesTaskSet(page[p].base)
    PROVE  /\ set = None /\ set' \in Set /\ set' # None /\ set'.latest = 1
           /\ suite' = suite /\ suite \in Suite /\ suite.ver = 1
           /\ page[p].base.rev = suite.rev /\ page[p].base.body = suite.body
           /\ page[p].base.ver = suite.ver
           /\ versions' = [n \in {1} |-> Projected(suite.body)]
<1>1. page[p] \in PageRow /\ PageIsSound(page[p]) /\ page[p].pc = "create" /\ set = None
  BY PageFacts DEF RunCreates, CreatesTaskSet
<1>2. IsCopy(page[p].base) /\ page[p].base.rev = suite.rev
  BY <1>1 DEF PageIsSound
<1>3. /\ suite \in Suite /\ page[p].base \in Suite /\ suite # None /\ suite.ver = 1
      /\ page[p].base.body = suite.body /\ page[p].base.ver = suite.ver
  BY <1>1, <1>2 DEF IsCopy, SetsInv, StoreIsSound
<1> DEFINE put == [rev |-> page[p].base.rev, latest |-> 1]
<1>4. put \in Set /\ put.latest = 1
  BY <1>3 DEF Suite, Set
<1>5. set' = put /\ versions' = With(1, Projected(suite.body)) /\ suite' = suite
  BY <1>3 DEF RunCreates
<1> HIDE DEF put
<1>6. DOMAIN versions = {}
  BY <1>1 DEF SetsInv, StoreIsSound
<1>7. versions' = [n \in {1} |-> Projected(suite.body)]
  BY <1>5, <1>6 DEF With
<1> QED
  BY <1>1, <1>2, <1>3, <1>4, <1>5, <1>7, NoneIsNothing

LEMMA RunCreatesKeepsSets ==
    ASSUME SetsInv, NEW p \in Pages, RunCreates(p)
    PROVE  SetsInv'
<1>1. /\ page[p] \in PageRow /\ PageIsSound(page[p]) /\ page[p].pc = "create"
      /\ UNCHANGED <<suite, roster, begun, past>>
  BY PageFacts DEF RunCreates
<1>2. CASE CreatesTaskSet(page[p].base)
  <2>1. /\ set = None /\ set' \in Set /\ set' # None /\ set'.latest = 1
        /\ suite' = suite /\ suite \in Suite /\ suite.ver = 1
        /\ page[p].base.rev = suite.rev /\ page[p].base.body = suite.body
        /\ page[p].base.ver = suite.ver
        /\ versions' = [n \in {1} |-> Projected(suite.body)]
    BY <1>2, CreatesEffect
  <2>2. suite # None /\ Projected(suite.body) \in Content
    BY <2>1, NoneIsNothing, ProjectedIsContent DEF Suite
  <2>3. ASSUME NEW b, b.ver = 1, b.body = suite.body PROVE VersionIsOf(b)'
    BY <2>1, <2>3 DEF VersionIsOf
  <2>4. versions' \in [1 .. set'.latest -> Content]
    BY <2>1, <2>2
  <2>5. StoreIsSound'
    <3>1. VersionIsOf(suite)'
      BY <2>1, <2>3 DEF VersionIsOf
    <3> QED
      BY <1>1, <2>1, <2>2, <2>4, <3>1 DEF SetsInv, StoreIsSound
  <2>6. RosterIsSound'
    BY <1>1, <2>1 DEF SetsInv, RosterIsSound
  <2>7. ASSUME NEW m \in PageRow, PageIsSound(m) PROVE PageIsSound(m)'
    <3>1. CASE m.pc = "closed"
      BY <1>1, <2>1, <2>7, <3>1 DEF PageIsSound
    <3>2. CASE m.pc # "closed"
      <4>1. IsCopy(m.base) /\ m.base.rev = suite.rev
        BY <2>1, <2>7, <3>2 DEF PageIsSound
      <4>2. IsCopy(m.base)' /\ VersionIsOf(m.base)'
        BY <2>1, <2>3, <4>1 DEF IsCopy
      <4> QED
        BY <1>1, <2>1, <2>7, <4>2 DEF PageIsSound
    <3> QED
      BY <3>1, <3>2
  <2>8. PICK k \in PageRow : /\ k.pc = "resolve" /\ k.base = page[p].base
                             /\ page' = [page EXCEPT ![p] = k]
    <3> DEFINE n == [page[p] EXCEPT !.pc = "resolve"]
    <3>1. "resolve" \in Stage
      BY DEF Stage
    <3>2. n \in PageRow /\ n.pc = "resolve" /\ n.base = page[p].base
      BY <1>1, <3>1, RowAt
    <3>3. page' = [page EXCEPT ![p] = n]
      BY <1>2 DEF RunCreates, Goes
    <3> HIDE DEF n
    <3> QED
      BY <3>2, <3>3
  <2>9. page' = [page EXCEPT ![p] = k]
    BY <2>8
  <2>10. PageIsSound(k)'
    <3>1. IsCopy(k.base) /\ k.base # None
      BY <1>1, <2>8, NoneIsNothing DEF PageIsSound, IsCopy
    <3>2. IsCopy(k.base)' /\ VersionIsOf(k.base)'
      BY <2>1, <2>3, <2>8, <3>1 DEF IsCopy
    <3> QED
      BY <1>1, <2>1, <2>8, <3>1, <3>2 DEF PageIsSound
  <2>11. PagesAreSound'
    BY <2>7, <2>8, <2>9, <2>10, PagesFollow DEF SetsInv
  <2> QED
    BY <2>5, <2>6, <2>11 DEF SetsInv
<1>3. CASE ~CreatesTaskSet(page[p].base)
  <2>1. Refused(p) /\ UNCHANGED Stored
    BY <1>3 DEF RunCreates, Stored
  <2> QED
    BY <1>1, <2>1, BegunNeedsSet, RefusalKeepsSets
<1> QED
  BY <1>2, <1>3

-----------------------------------------------------------------------------
(* The results page, which adds a model.                                     *)
LEMMA RosterAlone ==
    ASSUME SetsInv, RosterIsSound', UNCHANGED <<Stored, page, begun, past>>
    PROVE  SetsInv'
<1>1. StoreIsSound'
  BY DEF SetsInv, StoreIsSound, Stored, VersionIsOf
<1>2. PagesAreSound'
  BY SoundnessStays, PagesRest DEF SetsInv
<1> QED
  BY <1>1, <1>2 DEF SetsInv

LEMMA NoRosterIsSound ==
    ASSUME roster' = NoRoster
    PROVE  RosterIsSound'
<1>1. NoRoster \in RosterRow /\ NoRoster.pc = "idle"
  BY DEF NoRoster, RosterRow, Content
<1> QED
  BY <1>1 DEF RosterIsSound

LEMMA SuiteIsCopy ==
    ASSUME StoreIsSound, suite # None
    PROVE  IsCopy(suite)
<1>1. suite \in Suite /\ suite.rev \in Nat
  BY DEF StoreIsSound, Suite
<1> QED
  BY <1>1 DEF IsCopy

LEMMA AddModelKeepsSets ==
    ASSUME SetsInv, NEW m \in Models, AddModel(m)
    PROVE  SetsInv'
<1>1. UNCHANGED <<Stored, page, begun, past>>
  BY DEF AddModel
<1>2. CASE roster' = NoRoster
  BY <1>1, <1>2, NoRosterIsSound, RosterAlone
<1>3. CASE roster' # NoRoster
  <2> DEFINE k == [NoRoster EXCEPT !.pc = "set", !.model = m, !.base = suite]
  <2>1. roster' = k
    BY <1>3 DEF AddModel
  <2>2. set # None /\ suite # None /\ suite \in Suite
    BY DEF AddModel, SetsInv, StoreIsSound
  <2>3. k \in RosterRow /\ k.pc = "set" /\ k.model = m /\ k.base = suite
    BY <2>2 DEF NoRoster, RosterRow, Content
  <2> HIDE DEF k
  <2>4. IsCopy(suite)
    BY <2>2, SuiteIsCopy DEF SetsInv
  <2>5. RosterIsSound'
    BY <1>1, <2>1, <2>2, <2>3, <2>4 DEF RosterIsSound, Stored, IsCopy
  <2> QED
    BY <1>1, <2>5, RosterAlone
<1> QED
  BY <1>2, <1>3

LEMMA RosterReadsSetKeepsSets ==
    ASSUME SetsInv, RosterReadsSet
    PROVE  SetsInv'
<1>1. roster.pc = "set" /\ UNCHANGED <<Stored, page, begun, past>>
  BY DEF RosterReadsSet
<1>2. /\ roster \in RosterRow /\ set # None /\ set \in Set /\ IsCopy(roster.base)
      /\ roster.model \in Models
  BY <1>1 DEF SetsInv, RosterIsSound, StoreIsSound
<1> DEFINE k == [roster EXCEPT !.pc = "version", !.seen = set]
<1>3. /\ k \in RosterRow /\ k.pc = "version" /\ k.base = roster.base
      /\ k.model = roster.model /\ k.seen = set
  BY <1>2 DEF RosterRow
<1>4. roster' = k
  BY DEF RosterReadsSet
<1> HIDE DEF k
<1>5. RosterIsSound'
  BY <1>1, <1>2, <1>3, <1>4 DEF RosterIsSound, Stored, IsCopy
<1> QED
  BY <1>1, <1>5, RosterAlone

LEMMA RosterReadsVersionKeepsSets ==
    ASSUME SetsInv, RosterReadsVersion
    PROVE  SetsInv'
<1>1. roster.pc = "version" /\ UNCHANGED <<Stored, page, begun, past>>
  BY DEF RosterReadsVersion
<1>2. CASE roster' = NoRoster
  BY <1>1, <1>2, NoRosterIsSound, RosterAlone
<1>3. CASE roster' # NoRoster
  <2>1. /\ roster \in RosterRow /\ set # None /\ roster.seen # None /\ IsCopy(roster.base)
        /\ roster.model \in Models
    BY <1>1 DEF SetsInv, RosterIsSound
  <2> DEFINE n == roster.seen.latest
             k == [roster EXCEPT !.pc = "commit", !.from = versions[n]]
  <2>2. n \in DOMAIN versions /\ roster' = k
    BY <1>3 DEF RosterReadsVersion
  <2>3. versions[n] \in Content
    BY <2>2 DEF SetsInv, StoreIsSound
  <2>4. /\ k \in RosterRow /\ k.pc = "commit" /\ k.base = roster.base
        /\ k.model = roster.model /\ k.seen = roster.seen /\ k.from = versions[n]
    BY <2>1, <2>3 DEF RosterRow
  <2> HIDE DEF k
  <2>5. RosterIsSound'
    BY <1>1, <2>1, <2>2, <2>4 DEF RosterIsSound, Stored, IsCopy
  <2> QED
    BY <1>1, <2>5, RosterAlone
<1> QED
  BY <1>2, <1>3

LEMMA RosterFailsKeepsSets ==
    ASSUME SetsInv, RosterFails
    PROVE  SetsInv'
BY NoRosterIsSound, RosterAlone DEF RosterFails

(* What a current addition publishes: the model, in the suite and in the     *)
(* version that was the latest.                                              *)
LEMMA RosterPublishes ==
    ASSUME SetsInv, RosterCommits, Current(roster.base, roster.seen)
    PROVE  /\ roster.model \in Models /\ IsCopy(roster.base) /\ roster.seen \in Set
           /\ set # None
           /\ roster.base.body \cup {roster.model} \in Content
           /\ roster.from \cup {roster.model} \in Content
           /\ Publish(roster.base, roster.seen, roster.base.body \cup {roster.model},
                      roster.from \cup {roster.model})
           /\ UNCHANGED <<page, begun, past>>
<1>1. roster.pc = "commit" /\ UNCHANGED <<page, begun, past>>
  BY DEF RosterCommits
<1>2. /\ roster \in RosterRow /\ set # None /\ IsCopy(roster.base)
      /\ roster.model \in Models /\ roster.seen # None
  BY <1>1 DEF SetsInv, RosterIsSound
<1>3. roster.seen \in Set /\ roster.from \in Content /\ roster.base.body \in Content
  BY <1>2 DEF RosterRow, IsCopy, Suite
<1>4. /\ roster.base.body \cup {roster.model} \in Content
      /\ roster.from \cup {roster.model} \in Content
  BY <1>2, <1>3 DEF Content
<1> QED
  BY <1>1, <1>2, <1>3, <1>4 DEF RosterCommits

LEMMA AddedIsProjected ==
    ASSUME NEW b \in Content, NEW m \in Models
    PROVE  Projected(b) \cup {m} = Projected(b \cup {m})
BY TaskSetsAssumption DEF Projected

LEMMA RosterCommitsAligned ==
    ASSUME SetsInv, RosterCommits, Current(roster.base, roster.seen), Aligned
    PROVE  roster.from \cup {roster.model}
              = Projected(roster.base.body \cup {roster.model})
<1>1. /\ roster.model \in Models /\ IsCopy(roster.base) /\ roster.seen \in Set /\ set # None
      /\ roster.base.body \cup {roster.model} \in Content
      /\ roster.from \cup {roster.model} \in Content
      /\ Publish(roster.base, roster.seen, roster.base.body \cup {roster.model},
                 roster.from \cup {roster.model})
  BY RosterPublishes
<1>2. StoreIsSound
  BY DEF SetsInv
<1>3. roster.base.body = suite.body /\ roster.seen.latest = set.latest /\ suite \in Suite
  BY <1>1, <1>2, PublishEffect
<1>4. roster.from = versions[set.latest]
  BY <1>3 DEF RosterCommits, SetsInv, RosterIsSound
<1>5. roster.from = Projected(suite.body) /\ suite.body \in Content
  BY <1>1, <1>3, <1>4 DEF Aligned, Suite
<1> QED
  BY <1>1, <1>3, <1>5, AddedIsProjected

LEMMA RosterCommitsKeepsSets ==
    ASSUME SetsInv, RosterCommits
    PROVE  SetsInv'
<1>1. roster' = NoRoster /\ UNCHANGED <<page, begun, past>>
  BY DEF RosterCommits
<1>2. RosterIsSound'
  BY <1>1, NoRosterIsSound
<1>3. CASE Current(roster.base, roster.seen)
  <2> DEFINE body == roster.base.body \cup {roster.model}
             version == roster.from \cup {roster.model}
  <2>1. /\ IsCopy(roster.base) /\ roster.seen \in Set /\ set # None
        /\ body \in Content /\ version \in Content
        /\ Publish(roster.base, roster.seen, body, version)
    BY <1>3, RosterPublishes
  <2>2. past = <<>> => version = Projected(body)
    <3>1. past = <<>> => Aligned
      BY <2>1 DEF SetsInv, StoreIsSound, VersionIsOf, Aligned
    <3> QED
      BY <1>3, <3>1, RosterCommitsAligned
  <2> HIDE DEF body, version
  <2>3. StoreIsSound
    BY DEF SetsInv
  <2>4. StoreIsSound'
    BY <1>1, <1>3, <2>1, <2>2, <2>3, PublishKeepsStore
  <2>5. \A m \in PageRow : PageIsSound(m) => PageIsSound(m)'
    BY <1>1, <1>3, <2>1, <2>3, PublishKeepsCopies
  <2>6. PagesAreSound'
    BY <1>1, <2>5, PagesRest DEF SetsInv
  <2> QED
    BY <1>2, <2>4, <2>6 DEF SetsInv
<1>4. CASE ~Current(roster.base, roster.seen)
  BY <1>1, <1>2, <1>4, RosterAlone DEF RosterCommits
<1> QED
  BY <1>3, <1>4

LEMMA SetsStepKeepsSets ==
    ASSUME SetsInv, [SetsNext]_setVars
    PROVE  SetsInv'
<1>1. CASE UNCHANGED setVars
  <2>1. UNCHANGED <<Stored, page, roster, begun, past>>
    BY <1>1 DEF setVars, Stored
  <2>2. RosterIsSound'
    BY <2>1 DEF SetsInv, RosterIsSound, Stored, IsCopy
  <2> QED
    BY <2>1, <2>2, RosterAlone
<1>2. ASSUME NEW p \in Pages, PageStep(p) PROVE SetsInv'
  BY <1>2, LoadKeepsSets, LeaveKeepsSets, EditKeepsSets, SaveKeepsSets,
     SaveReadsSuiteKeepsSets, SaveReadsSetKeepsSets, SaveCommitsKeepsSets,
     SaveSettlesKeepsSets, StorageFailsKeepsSets, RunKeepsSets, RunReadsSetKeepsSets,
     RunCreatesKeepsSets, RunMaterializesKeepsSets, RunStartsKeepsSets
  DEF PageStep
<1>3. ASSUME NEW body \in {{}} \cup {{t} : t \in Tasks}, Create(body) PROVE SetsInv'
  <2>1. body \in Content
    BY DEF Content
  <2> QED
    BY <1>3, <2>1, CreateKeepsSets
<1> QED
  BY <1>1, <1>2, <1>3, ArchiveKeepsSets, AddModelKeepsSets, RosterReadsSetKeepsSets,
     RosterReadsVersionKeepsSets, RosterCommitsKeepsSets, RosterFailsKeepsSets
  DEF SetsNext

-----------------------------------------------------------------------------
(* The migration.  Of n numbers that are the members of a finite set each    *)
(* number from 1 to n is the rank of one.                                    *)
RankIn(S, i) == Cardinality({j \in S : j <= i})

LEMMA EveryRankIsTaken ==
    ASSUME NEW S \in SUBSET Nat, IsFiniteSet(S), NEW n \in 1 .. Cardinality(S)
    PROVE  \E i \in S : RankIn(S, i) = n
<1> DEFINE N == Cardinality(S)
           Below(i) == {j \in S : j <= i}
           rank == [i \in S |-> RankIn(S, i)]
<1>1. N \in Nat
  BY FS_CardinalityType
<1>2. ASSUME NEW i \in S
      PROVE  IsFiniteSet(Below(i)) /\ RankIn(S, i) \in 1 .. N
  <2>1. IsFiniteSet(Below(i)) /\ Cardinality(Below(i)) <= N
    BY FS_Subset
  <2>2. Cardinality(Below(i)) \in Nat
    BY <2>1, FS_CardinalityType
  <2>3. i \in Below(i)
    OBVIOUS
  <2>4. Cardinality(Below(i)) # 0
    BY <2>1, <2>3, FS_EmptySet
  <2> QED
    BY <1>1, <2>1, <2>2, <2>4 DEF RankIn
<1>3. ASSUME NEW i \in S, NEW k \in S, i < k
      PROVE  RankIn(S, i) # RankIn(S, k)
  <2>1. Below(i) \in SUBSET Below(k) /\ k \in Below(k) /\ k \notin Below(i)
    <3>1. i \in Nat /\ k \in Nat
      OBVIOUS
    <3>2. ASSUME NEW j \in S, j <= i PROVE j <= k
      <4>1. j \in Nat
        OBVIOUS
      <4> QED
        BY <1>3, <3>1, <3>2, <4>1
    <3>3. k <= k /\ ~(k <= i)
      BY <1>3, <3>1
    <3> QED
      BY <3>2, <3>3
  <2>2. IsFiniteSet(Below(k))
    BY <1>2
  <2>3. Cardinality(Below(k)) = Cardinality(Below(i)) => Below(k) = Below(i)
    BY <2>1, <2>2, FS_Subset
  <2> QED
    BY <2>1, <2>3 DEF RankIn
<1>4. rank \in Injection(S, 1 .. N)
  <2>1. rank \in [S -> 1 .. N]
    BY <1>2
  <2>2. ASSUME NEW i \in S, NEW k \in S, i # k PROVE rank[i] # rank[k]
    <3>1. i < k \/ k < i
      BY <2>2
    <3> QED
      BY <1>3, <3>1
  <2> QED
    BY <2>1, <2>2 DEF Injection, IsInjective
<1>5. IsFiniteSet(1 .. N) /\ Cardinality(1 .. N) = N
  <2>1. Cardinality(1 .. N) = IF 1 > N THEN 0 ELSE N - 1 + 1
    BY <1>1, FS_Interval, SMTT(30)
  <2> QED
    BY <1>1, <2>1, FS_Interval
<1>6. rank \in Surjection(S, 1 .. N)
  BY <1>4, <1>5, FS_Injection
<1> QED
  BY <1>6 DEF Surjection

LEMMA NumberedIsVersions ==
    ASSUME NEW p \in Seq([ver : Nat, body : Content])
    PROVE  /\ Cardinality(FirstSeen(p)) \in Nat
           /\ Numbered(p) \in [1 .. Cardinality(FirstSeen(p)) -> Content]
           /\ Len(Numbered(p)) = Cardinality(FirstSeen(p))
<1> DEFINE S == FirstSeen(p)
           N == Cardinality(S)
<1>1. S \in SUBSET (1 .. Len(p)) /\ Len(p) \in Nat
  BY DEF FirstSeen
<1>2. IsFiniteSet(S) /\ S \in SUBSET Nat
  <2>1. IsFiniteSet(1 .. Len(p))
    BY <1>1, FS_Interval
  <2> QED
    BY <1>1, <2>1, FS_Subset
<1>3. N \in Nat
  BY <1>2, FS_CardinalityType
<1>4. ASSUME NEW n \in 1 .. N
      PROVE  p[CHOOSE i \in S : Cardinality({j \in S : j <= i}) = n].body \in Content
  <2>1. \E i \in S : Cardinality({j \in S : j <= i}) = n
    BY <1>2, EveryRankIsTaken DEF RankIn
  <2>2. PICK i \in S : i = CHOOSE k \in S : Cardinality({j \in S : j <= k}) = n
    BY <2>1
  <2>3. i \in 1 .. Len(p)
    BY <1>1
  <2>4. p[i] \in [ver : Nat, body : Content]
    BY <2>3, ElementOfSeq
  <2> QED
    BY <2>2, <2>4
<1>5. Numbered(p) \in [1 .. N -> Content]
  BY <1>4 DEF Numbered
<1>6. Numbered(p) \in Seq(Content) /\ Len(Numbered(p)) = N
  BY <1>3, <1>5
<1> QED
  BY <1>3, <1>5, <1>6

LEMMA SetsInvInit == SetsInit => SetsInv
<1> SUFFICES ASSUME SetsInit PROVE SetsInv
  OBVIOUS
<1>1. page = [p \in Pages |-> Closed] /\ roster = NoRoster /\ begun = (Len(past) > 1)
  BY DEF SetsInit
<1>2. PagesAreSound
  <2>1. page \in [Pages -> PageRow]
    BY <1>1, ClosedIsSound
  <2>2. PageIsSound(Closed)
    BY ClosedIsSound DEF PageIsSound
  <2> QED
    BY <1>1, <2>1, <2>2 DEF PagesAreSound
<1>3. RosterIsSound
  <2>1. NoRoster \in RosterRow /\ NoRoster.pc = "idle"
    BY DEF NoRoster, RosterRow, Content
  <2> QED
    BY <1>1, <2>1 DEF RosterIsSound
<1>4. CASE past = <<>>
  <2>1. suite = None /\ set = None /\ versions = <<>>
    BY <1>4 DEF SetsInit
  <2>2. begun = FALSE
    <3>1. Len(past) = 0
      BY <1>4
    <3>2. (Len(past) > 1) = FALSE
      BY <3>1
    <3> QED
      BY <1>1, <3>2
  <2>3. versions \in [1 .. 0 -> Content]
    BY <2>1
  <2>4. StoreIsSound
    BY <2>1, <2>2, <2>3 DEF StoreIsSound
  <2> QED
    BY <1>2, <1>3, <2>4 DEF SetsInv
<1>5. CASE past # <<>>
  <2>1. past \in Seq([ver : Nat, body : Content])
    BY <1>5, TaskSetsAssumption DEF SetsInit
  <2>2. Len(past) \in Nat /\ Len(past) # 0
    BY <1>5, <2>1, EmptySeq
  <2>3. past[Len(past)] \in [ver : Nat, body : Content]
    <3>1. Len(past) \in 1 .. Len(past)
      BY <2>2
    <3> QED
      BY <2>1, <3>1, ElementOfSeq
  <2> DEFINE new == [row |-> 1, rev |-> 1, ver |-> past[Len(past)].ver,
                     body |-> past[Len(past)].body, archived |-> FALSE]
             put == [rev |-> 0, latest |-> Len(Numbered(past))]
  <2>4. new \in Suite /\ new.rev = 1 /\ new.row = 1
    BY <2>3 DEF Suite
  <2>5. put \in Set /\ put.latest = Len(Numbered(past))
    BY <2>1, NumberedIsVersions DEF Set
  <2>6. suite = new /\ set = put /\ versions = Numbered(past)
    BY <1>5 DEF SetsInit
  <2> HIDE DEF new, put
  <2>7. versions \in [1 .. set.latest -> Content]
    BY <2>1, <2>5, <2>6, NumberedIsVersions
  <2>8. suite # None /\ set # None /\ suite.rev <= suite.row
    BY <2>4, <2>5, <2>6, NoneIsNothing
  <2>9. begun \in BOOLEAN
    BY <1>1
  <2>10. StoreIsSound
    BY <1>5, <2>4, <2>5, <2>6, <2>7, <2>8, <2>9 DEF StoreIsSound
  <2> QED
    BY <1>2, <1>3, <2>10 DEF SetsInv
<1> QED
  BY <1>4, <1>5

LEMMA SetsInvariance == SetsSpec => []SetsInv
BY SetsInvInit, SetsStepKeepsSets, PTL DEF SetsSpec

(* Types of a task set, its versions and the pages that show it: the         *)
(* versions are numbered without a gap, for any pages, tasks and models and  *)
(* whatever history was migrated.                                            *)
THEOREM TaskSetTypes == SetsSpec => []SetsTypeOK
<1>1. SetsInv => SetsTypeOK
  <2> SUFFICES ASSUME SetsInv PROVE SetsTypeOK
    OBVIOUS
  <2>1. /\ suite \in Suite \cup {None} /\ set \in Set \cup {None}
        /\ versions \in [1 .. (IF set = None THEN 0 ELSE set.latest) -> Content]
        /\ roster \in RosterRow
    BY DEF SetsInv, StoreIsSound, RosterIsSound
  <2>2. ASSUME NEW p \in Pages
        PROVE  /\ page[p].pc \in Stage /\ page[p].base \in Suite \cup {None}
               /\ (page[p].base = None) = (page[p].pc = "closed")
               /\ page[p].draft \in Content
    <3>1. page[p] \in PageRow /\ PageIsSound(page[p])
      BY PageFacts
    <3> QED
      BY <3>1 DEF PageRow, PageIsSound
  <2>3. roster.model \in Models \cup {None}
    BY <2>1 DEF RosterRow
  <2> QED
    BY <2>1, <2>2, <2>3 DEF SetsTypeOK
<1> QED
  BY <1>1, SetsInvariance, PTL

(* A run of a task set that was made with this version of the program is     *)
(* given the members and models its page showed, whatever others save, add   *)
(* or archive while the run is being prepared.                               *)
THEOREM RunsAreOfWhatIsShown == SetsSpec => []RunsWhatIsShown
<1>1. SetsInv => RunsWhatIsShown
  BY PageFacts DEF RunsWhatIsShown, RunsItsSuite, PageIsSound
<1> QED
  BY <1>1, SetsInvariance, PTL

(* The steps that store a version.                                           *)
PublishesFromPage(p) ==
    SaveCommits(p) /\ HasTasks(Projected(page[p].sent)) /\ Current(page[p].base, page[p].seen)

CreatesFromPage(p) == RunCreates(p) /\ CreatesTaskSet(page[p].base)

PublishesFromRoster == RosterCommits /\ Current(roster.base, roster.seen)

LEMMA OthersStoreNothing ==
    ASSUME SetsInv, [SetsNext]_setVars, ~PublishesFromRoster,
           \A p \in Pages : ~PublishesFromPage(p) /\ ~CreatesFromPage(p)
    PROVE  /\ UNCHANGED <<set, versions>>
           /\ Archive \/ UNCHANGED suite \/ suite = None
<1>1. CASE UNCHANGED setVars
  BY <1>1 DEF setVars
<1>2. ASSUME NEW p \in Pages, PageStep(p) PROVE UNCHANGED Stored
  BY <1>2 DEF PageStep, PublishesFromPage, CreatesFromPage, Load, Leave, Edit, Save,
     SaveReadsSuite, SaveReadsSet, SaveCommits, SaveSettles, StorageFails, Run,
     RunReadsSet, RunCreates, RunMaterializes, RunStarts, Stored
<1>3. RosterCommits => UNCHANGED Stored
  BY DEF RosterCommits, PublishesFromRoster
<1> QED
  BY <1>1, <1>2, <1>3
  DEF SetsNext, Create, Archive, AddModel, RosterReadsSet, RosterReadsVersion,
      RosterFails, Stored

LEMMA PagePublishes ==
    ASSUME SetsInv, NEW p \in Pages, PublishesFromPage(p)
    PROVE  /\ page'[p] # page[p]
           /\ page[p].base.body = suite.body /\ page[p].base.ver = suite.ver
           /\ suite'.archived = suite.archived
           /\ Aligned'
<1> DEFINE me == page[p]
<1>1. me \in PageRow /\ PageIsSound(me) /\ me.pc = "commit"
  BY PageFacts DEF PublishesFromPage, SaveCommits
<1>2. /\ IsCopy(me.base) /\ me.seen \in Set /\ set # None /\ me.sent \in Content
      /\ Projected(me.sent) \in Content
  BY <1>1, ProjectedIsContent DEF PageIsSound, PageRow
<1>3. /\ Publish(me.base, me.seen, me.sent, Projected(me.sent))
      /\ Current(me.base, me.seen) /\ Goes(p, "settle") /\ StoreIsSound
  BY DEF PublishesFromPage, SaveCommits, SetsInv
<1>4. /\ me.base.body = suite.body /\ me.base.ver = suite.ver
      /\ suite'.archived = suite.archived
      /\ suite'.ver = set.latest + 1 /\ suite'.body = me.sent
      /\ set'.latest = set.latest + 1
      /\ versions'[set.latest + 1] = Projected(me.sent)
  BY <1>2, <1>3, PublishEffect
<1>5. Aligned'
  BY <1>4 DEF Aligned
<1>6. page'[p].pc = "settle"
  <2> DEFINE n == [me EXCEPT !.pc = "settle"]
  <2>1. page'[p] = n
    BY <1>3 DEF Goes, SetsInv, PagesAreSound
  <2> QED
    BY <1>1, <2>1 DEF PageRow
<1> QED
  BY <1>1, <1>4, <1>5, <1>6

LEMMA PageCreates ==
    ASSUME SetsInv, NEW p \in Pages, CreatesFromPage(p)
    PROVE  /\ page'[p] # page[p]
           /\ page[p].base.body = suite.body /\ page[p].base.ver = suite.ver
           /\ suite' = suite
           /\ Aligned'
<1>1. /\ set'.latest = 1 /\ suite' = suite /\ suite.ver = 1
      /\ page[p].base.body = suite.body /\ page[p].base.ver = suite.ver
      /\ versions' = [n \in {1} |-> Projected(suite.body)]
  BY CreatesEffect DEF CreatesFromPage
<1>2. Aligned'
  BY <1>1 DEF Aligned, Projected
<1>3. page[p] \in PageRow /\ page[p].pc = "create" /\ Goes(p, "resolve")
  BY PageFacts DEF CreatesFromPage, RunCreates
<1>4. page'[p].pc = "resolve"
  <2> DEFINE n == [page[p] EXCEPT !.pc = "resolve"]
  <2>1. page'[p] = n
    BY <1>3 DEF Goes, SetsInv, PagesAreSound
  <2> QED
    BY <1>3, <2>1 DEF PageRow
<1> QED
  BY <1>1, <1>2, <1>3, <1>4

LEMMA RosterPublishesCurrent ==
    ASSUME SetsInv, PublishesFromRoster
    PROVE  /\ roster' # roster /\ roster.base.body = suite.body
           /\ suite'.archived = suite.archived
           /\ Aligned => Aligned'
<1> DEFINE body == roster.base.body \cup {roster.model}
           version == roster.from \cup {roster.model}
<1>1. /\ IsCopy(roster.base) /\ roster.seen \in Set /\ set # None
      /\ body \in Content /\ version \in Content
      /\ Publish(roster.base, roster.seen, body, version)
      /\ Current(roster.base, roster.seen) /\ StoreIsSound
  BY RosterPublishes DEF PublishesFromRoster, SetsInv
<1>2. Aligned => version = Projected(body)
  BY RosterCommitsAligned DEF PublishesFromRoster
<1> HIDE DEF body, version
<1>3. /\ roster.base.body = suite.body /\ suite'.archived = suite.archived
      /\ suite'.ver = set.latest + 1 /\ suite'.body = body
      /\ set'.latest = set.latest + 1 /\ versions'[set.latest + 1] = version
  BY <1>1, PublishEffect
<1>4. Aligned => Aligned'
  BY <1>2, <1>3 DEF Aligned, Projected
<1>5. roster' # roster
  BY DEF PublishesFromRoster, RosterCommits, NoRoster
<1> QED
  BY <1>3, <1>4, <1>5

(* Whoever publishes a version of a task set, a page that saves or runs it   *)
(* or the results page, holds what is stored at that moment, and brings no   *)
(* archived set back: an action property, for any number of pages.           *)
THEOREM VersionsAreBasedOnCurrent == SetsSpec => BasedOnCurrent
<1>1. SetsInv /\ [SetsNext]_setVars
        => [versions' # versions =>
              /\ suite'.archived = suite.archived
              /\ \/ \E p \in Pages : /\ page'[p] # page[p]
                                     /\ page[p].base.body = suite.body
                                     /\ page[p].base.ver = suite.ver
                 \/ roster' # roster /\ roster.base.body = suite.body]_setVars
  <2> SUFFICES ASSUME SetsInv, [SetsNext]_setVars, versions' # versions
               PROVE  /\ suite'.archived = suite.archived
                      /\ \/ \E p \in Pages : /\ page'[p] # page[p]
                                             /\ page[p].base.body = suite.body
                                             /\ page[p].base.ver = suite.ver
                         \/ roster' # roster /\ roster.base.body = suite.body
    OBVIOUS
  <2>1. \/ PublishesFromRoster
        \/ \E p \in Pages : PublishesFromPage(p) \/ CreatesFromPage(p)
    BY OthersStoreNothing
  <2>2. CASE PublishesFromRoster
    BY <2>2, RosterPublishesCurrent
  <2>3. ASSUME NEW p \in Pages, PublishesFromPage(p)
        PROVE  /\ suite'.archived = suite.archived /\ page'[p] # page[p]
               /\ page[p].base.body = suite.body /\ page[p].base.ver = suite.ver
    BY <2>3, PagePublishes
  <2>4. ASSUME NEW p \in Pages, CreatesFromPage(p)
        PROVE  /\ suite'.archived = suite.archived /\ page'[p] # page[p]
               /\ page[p].base.body = suite.body /\ page[p].base.ver = suite.ver
    BY <2>4, PageCreates
  <2> QED
    BY <2>1, <2>2, <2>3, <2>4
<1> QED
  BY <1>1, SetsInvariance, PTL DEF SetsSpec, BasedOnCurrent

(* Once the row of a suite is the latest version of its Task Set no save,    *)
(* first run, archiving or added model takes the two tables apart.           *)
THEOREM TablesStayAligned == SetsSpec => StaysAligned
<1>1. SetsInv /\ [SetsNext]_setVars => [Aligned => Aligned']_setVars
  <2> SUFFICES ASSUME SetsInv, [SetsNext]_setVars, Aligned
               PROVE  Aligned'
    OBVIOUS
  <2>1. CASE PublishesFromRoster
    BY <2>1, RosterPublishesCurrent
  <2>2. ASSUME NEW p \in Pages, PublishesFromPage(p) \/ CreatesFromPage(p)
        PROVE  Aligned'
    BY <2>2, PagePublishes, PageCreates
  <2>3. CASE /\ ~PublishesFromRoster
             /\ \A p \in Pages : ~PublishesFromPage(p) /\ ~CreatesFromPage(p)
    <3>1. UNCHANGED <<set, versions>>
      BY <2>3, OthersStoreNothing
    <3>2. CASE suite = None
      BY <3>1, <3>2 DEF Aligned, SetsInv, StoreIsSound
    <3>3. CASE UNCHANGED suite
      BY <3>1, <3>3 DEF Aligned, Projected
    <3>4. CASE Archive
      BY <3>1, <3>4, ArchiveEffect DEF Aligned, Projected
    <3> QED
      BY <2>3, <3>2, <3>3, <3>4, OthersStoreNothing
  <2> QED
    BY <2>1, <2>2, <2>3
<1> QED
  BY <1>1, SetsInvariance, PTL DEF SetsSpec, StaysAligned

-----------------------------------------------------------------------------
(* The catalogue as it is run: a behaviour of all is one of each part.       *)
LEMMA CatalogIsItsParts ==
    CatalogSpec => SetsSpec /\ TaskSpec /\ RubricSpec /\ FamilySpec /\ LinkSpec
<1>1. CatalogInit => SetsInit /\ TaskInit /\ RubricInit /\ FamilyInit /\ LinkInit
  BY DEF CatalogInit
<1>2. [CatalogNext]_catalogVars
        => /\ [SetsNext]_setVars /\ [TaskNext]_taskVars /\ [RubricNext]_rubricVars
           /\ [FamilyNext]_familyVars /\ [LinkNext]_linkVars
  BY DEF CatalogNext, InSets, InTask, InRubric, InFamilies, InLinks, catalogVars
<1> QED
  BY <1>1, <1>2, PTL DEF CatalogSpec, SetsSpec, TaskSpec, RubricSpec, FamilySpec, LinkSpec

(* Types of the whole catalogue: task sets, tasks, rubrics, families and     *)
(* assignments, each from the invariant of its part.                         *)
THEOREM CatalogTypes == CatalogSpec => []CatalogTypeOK
<1>1. FamilySpec => []FamilyInv
  BY FamilyInvInit, FamilyStepKeepsFamilyInv, PTL DEF FamilySpec
<1>2. LinkSpec => []LinkInv
  BY LinkInvInit, LinkStepKeepsLinkInv, PTL DEF LinkSpec
<1>3. SetsTypeOK /\ TaskTypeOK /\ RubricInv /\ FamilyInv /\ LinkInv => CatalogTypeOK
  BY DEF CatalogTypeOK, RubricInv, FamilyInv, LinkInv
<1> QED
  BY <1>1, <1>2, <1>3, CatalogIsItsParts, TaskSetTypes, TaskInvariance, RubricInvariance, PTL
=============================================================================
