-------------------------- MODULE PolicyStudyProofs --------------------------
(***************************************************************************)
(* Proofs about PolicyStudy, for any pages, trials, edits, runs and faults. *)
(*                                                                         *)
(* Runs overlap and nothing leases a study, so what a run relies on must   *)
(* be what no other run takes away: its own trials (a trial is only ever   *)
(* written by its run), and the revision of a study in progress, which     *)
(* only the step that ends it moves.  Of the editor, the revision a seal   *)
(* was asked with can be the stored one only if no save has come between.  *)
(***************************************************************************)
EXTENDS PolicyStudy, SequenceTheorems, TLAPS

\* What a run has behind it: the trials before the one it works on are
\* measured, then all of them, and at last its playbook lists them.
Behind(r) ==
    /\ run[r].at = "method" => run[r].k = 1
    /\ run[r].at \in {"create", "seal", "measure"} =>
          \A i \in 1 .. run[r].k - 1 : trial[<<r, i>>] = "measured"
    /\ run[r].at \in {"report", "complete"} =>
          \A i \in 1 .. NTrials : trial[<<r, i>>] = "measured"
    /\ run[r].at = "complete" => \A i \in 1 .. NTrials : <<r, i>> \in books[r]

\* A run whose report the study has is past its writes.
ReportedIsOver ==
    study.report # 0 =>
        /\ study.status \in {"completed", "archived"}
        /\ run[study.report].at \in {"reload", "over"}

\* Who runs, resumes or is about to run a study has a study that was started.
WasStarted ==
    study.status \notin Started =>
        /\ \A r \in StudyRuns : run[r].at = "none" /\ ~run[r].failed
        /\ \A p \in StudyPages :
              /\ ~view[p].open
              /\ \A i \in 1 .. Len(editor[p].queue) : editor[p].queue[i].what # "sealed"

\* A run that has not begun belongs to no page.
Unbegun == \A r \in StudyRuns : run[r].at = "none" => run[r].page = "none"

\* A run about to mark its study failed knows the revision, while there is
\* something to mark.
MarksTheStudy ==
    \A r \in StudyRuns :
        run[r].at = "marking" /\ study.status = "in_progress" => run[r].rev = study.rev

\* A run that is past the mark has made it, or says it could not.
Marked ==
    \A r \in StudyRuns :
        run[r].at \in {"reload", "over"} /\ run[r].failed /\ study.status = "in_progress"
            => run[r].unmarked

StudyInv ==
    /\ StudyTypeOK
    /\ \A r \in StudyRuns : Behind(r)
    /\ ReportRestsOnItsRun
    /\ ReportedIsOver
    /\ WasStarted
    /\ Unbegun
    /\ MarksTheStudy
    /\ Marked

\* The last save under way, if there is one, and the draft as it is stored
\* otherwise, is what the editor shows, while no other page has saved.
LastSaveIsShown(p) ==
    LET q == editor[p].queue IN
    /\ \A i \in 1 .. Len(q) : q[i].what = "save" =>
          \/ \E j \in i + 1 .. Len(q) : q[j].what = "save"
          \/ q[i].def = editor[p].def
    /\ (\A i \in 1 .. Len(q) : q[i].what # "save") /\ editor[p].rev = study.rev =>
          study.def = editor[p].def

\* A seal was asked with a revision no newer than the editor's; when its turn
\* comes and the revision is still the stored one, so is the shown draft.
SealIsOfTheShown(p) ==
    LET q == editor[p].queue IN
    /\ \A i \in 1 .. Len(q) : q[i].what = "seal" =>
          /\ i = 1 \/ (i = 2 /\ q[1].what = "save")
          /\ q[i].rev <= editor[p].rev
    /\ q # <<>> /\ q[1].what = "seal" /\ q[1].rev = study.rev =>
          study.def = editor[p].def

Drafted(p) ==
    study.status = "draft" /\ editor[p].open =>
        /\ editor[p].rev <= study.rev
        /\ ~editor[p].missed => LastSaveIsShown(p) /\ SealIsOfTheShown(p)

DraftInv == StudyInv /\ \A p \in StudyPages : Drafted(p)

-----------------------------------------------------------------------------
(* The queue of an editor.                                                   *)

\* The request in front is served, and the others move up.
LEMMA ServedQueue ==
    ASSUME NEW q \in Seq(Request), q # <<>>
    PROVE  /\ Head(q) = q[1] /\ Head(q) \in Request
           /\ Tail(q) \in Seq(Request) /\ Len(Tail(q)) = Len(q) - 1
           /\ \A i \in 1 .. Len(Tail(q)) : Tail(q)[i] = q[i + 1]
           /\ Len(q) \in Nat \ {0}
<1>1. Len(q) \in Nat \ {0}
    BY EmptySeq
<1>2. Head(q) = q[1]
    OBVIOUS
<1>. QED
    BY <1>1, <1>2, HeadTailProperties

\* Where the question to seal is put in a queue that is not empty.
LEMMA AskedQueue ==
    ASSUME NEW q \in Seq(Request), q # <<>>, NEW ask \in Request
    PROVE  LET a == <<Head(q), ask>> \o Tail(q) IN
           /\ a \in Seq(Request) /\ Len(a) = Len(q) + 1
           /\ a[1] = q[1] /\ a[2] = ask
           /\ \A i \in 3 .. Len(a) : a[i] = q[i - 1]
<1> DEFINE pair == <<Head(q), ask>>
           a == pair \o Tail(q)
<1>1. Tail(q) \in Seq(Request) /\ Len(Tail(q)) = Len(q) - 1 /\ Head(q) = q[1]
      /\ Head(q) \in Request /\ Len(q) \in Nat \ {0}
      /\ \A i \in 1 .. Len(Tail(q)) : Tail(q)[i] = q[i + 1]
    BY ServedQueue
<1>2. pair \in Seq(Request) /\ Len(pair) = 2 /\ pair[1] = q[1] /\ pair[2] = ask
    BY <1>1
<1>3. /\ a \in Seq(Request) /\ Len(a) = 2 + Len(Tail(q))
      /\ \A i \in 1 .. 2 + Len(Tail(q)) :
            a[i] = IF i <= 2 THEN pair[i] ELSE Tail(q)[i - 2]
    <2> HIDE DEF pair
    <2>1. /\ a \in Seq(Request) /\ Len(a) = Len(pair) + Len(Tail(q))
          /\ \A i \in 1 .. Len(pair) + Len(Tail(q)) :
                a[i] = IF i <= Len(pair) THEN pair[i] ELSE Tail(q)[i - Len(pair)]
        BY <1>1, <1>2, ConcatProperties, ZenonT(30)
    <2> HIDE DEF a
    <2>. QED
        BY <2>1, <1>2
<1> HIDE DEF pair, a
<1>4. Len(a) = Len(q) + 1 /\ a[1] = q[1] /\ a[2] = ask
    BY <1>1, <1>2, <1>3
<1>5. \A i \in 3 .. Len(a) : a[i] = q[i - 1]
    BY <1>1, <1>3, <1>4
<1>. QED
    BY <1>3, <1>4, <1>5 DEF a, pair

\* A queue that is empty, or that a request is added to at the end.
LEMMA GrownQueue ==
    ASSUME NEW q \in Seq(Request), NEW x \in Request
    PROVE  /\ Append(q, x) \in Seq(Request) /\ Len(Append(q, x)) = Len(q) + 1
           /\ Append(q, x)[Len(q) + 1] = x
           /\ \A i \in 1 .. Len(q) : Append(q, x)[i] = q[i]
           /\ <<x>> \in Seq(Request) /\ Len(<<x>>) = 1 /\ <<x>>[1] = x
           /\ <<>> \in Seq(Request) /\ Len(<<>>) = 0
    OBVIOUS

-----------------------------------------------------------------------------
(* Type correctness.                                                         *)

StudyRow == [status : Status, rev : Nat, def : 0 .. MaxEdits, report : 0 .. MaxStudyRuns]

\* The updates of a study row that the repository makes.
LEMMA RowUpdates ==
    /\ \A x \in StudyRow, s \in Status : [x EXCEPT !.status = s] \in StudyRow
    /\ \A x \in StudyRow, s \in Status, v \in Nat :
          [x EXCEPT !.status = s, !.rev = v] \in StudyRow
    /\ \A x \in StudyRow, d \in 0 .. MaxEdits, v \in Nat :
          [x EXCEPT !.def = d, !.rev = v] \in StudyRow
    /\ \A x \in StudyRow, s \in Status, v \in Nat, n \in 0 .. MaxStudyRuns :
          [x EXCEPT !.status = s, !.rev = v, !.report = n] \in StudyRow
    BY DEF StudyRow

\* The updates of a run.
LEMMA RunUpdates ==
    /\ \A x \in StudyRun : [x EXCEPT !.shown = FALSE] \in StudyRun
    /\ \A x \in StudyRun, a \in RunStage : [x EXCEPT !.at = a] \in StudyRun
    /\ \A x \in StudyRun, a \in RunStage, f \in BOOLEAN :
          [x EXCEPT !.at = a, !.failed = f] \in StudyRun
    /\ \A x \in StudyRun, a \in RunStage, v \in Nat :
          [x EXCEPT !.at = a, !.rev = v] \in StudyRun
    /\ \A x \in StudyRun, a \in RunStage, u \in BOOLEAN :
          [x EXCEPT !.at = a, !.unmarked = u] \in StudyRun
    /\ \A x \in StudyRun, a \in RunStage, n \in 1 .. NTrials :
          [x EXCEPT !.at = a, !.k = n] \in StudyRun
    /\ \A x \in StudyRun, a \in RunStage, f \in BOOLEAN, u \in BOOLEAN :
          [x EXCEPT !.at = a, !.failed = f, !.unmarked = u] \in StudyRun
    /\ \A x \in StudyRun, a \in RunStage, p \in StudyPages, s \in Status, v \in Nat :
          [x EXCEPT !.at = a, !.page = p, !.shown = TRUE, !.status = s, !.rev = v]
             \in StudyRun
    BY DEF StudyRun

\* The updates of what a page shows.
LEMMA ViewUpdates ==
    /\ \A x \in View, h \in {"idle", "running", "interrupted"} :
          [x EXCEPT !.phase = h] \in View
    /\ \A x \in View, s \in Status, v \in Nat : [x EXCEPT !.status = s, !.rev = v] \in View
    BY DEF View

\* A run that is over.
LEMMA OverTypes ==
    ASSUME run \in [StudyRuns -> StudyRun], NEW r \in StudyRuns, NEW u \in BOOLEAN,
           NoRun \in StudyRun
    PROVE  Over(r, u) \in StudyRun
<1>1. run[r].failed \in BOOLEAN /\ "over" \in RunStage
    BY DEF StudyRun, RunStage
<1>. QED
    BY <1>1, RunUpdates, Zenon DEF Over

\* A run that is started has its place among the runs.
LEMMA StartTypes ==
    ASSUME run \in [StudyRuns -> StudyRun], NEW p \in StudyPages, NEW row,
           row.status \in Status, row.rev \in Nat, StartRun(p, row), NoRun \in StudyRun
    PROVE  run' \in [StudyRuns -> StudyRun]
<1>1. [NoRun EXCEPT !.at = "method", !.page = p, !.shown = TRUE, !.status = row.status,
                    !.rev = row.rev] \in StudyRun
    <2>1. "method" \in RunStage
        BY DEF RunStage
    <2>. QED
        BY <2>1, RunUpdates, StudyAssumption
<1>. QED
    BY <1>1 DEF StartRun

\* The steps of a page.
LEMMA PageTypes ==
    ASSUME StudyTypeOK, NEW p \in StudyPages,
           \/ OpenPage(p) \/ CloseTab(p) \/ Edit(p) \/ Save(p) \/ SaveFails(p)
           \/ PressSeal(p) \/ Seal(p) \/ Delete(p) \/ Sealed(p)
           \/ Resume(p) \/ Interrupt(p) \/ Archive(p)
    PROVE  StudyTypeOK'
<1> USE DEF StudyTypeOK
<1> DEFINE q == editor[p].queue
<1>0. /\ MaxEdits \in Nat /\ MaxStudyRuns \in Nat /\ MaxSlips \in Nat
      /\ NTrials \in Nat \ {0} /\ editor[p] \in Editor /\ view[p] \in View
      /\ q \in Seq(Request)
      /\ "draft" \in Status /\ "deleted" \in Status /\ "in_progress" \in Status
      /\ "archived" \in Status /\ study \in StudyRow /\ study.rev + 1 \in Nat
      /\ study.status \in Status /\ study.rev \in Nat
    BY StudyAssumption DEF Editor, Status, Started, StudyRow
<1>1. ClosedEditor \in Editor /\ ClosedView \in View /\ NoRun \in StudyRun
    BY <1>0, EmptySeq
       DEF ClosedEditor, Editor, ClosedView, View, NoRun, StudyRun, RunStage
<1>2. \A phase \in {"idle", "running", "interrupted"} : Loaded(phase) \in View
    BY DEF Loaded, View
<1>3. \A r \in StudyRuns : Over(r, TRUE) \in StudyRun
    BY <1>1, OverTypes
<1>4. ASSUME q # <<>> PROVE Served(p) \in Editor /\ Head(q) \in Request
    BY <1>0, <1>4, ServedQueue DEF Served, Editor
<1>5. ASSUME OpenPage(p) PROVE StudyTypeOK'
    <2>1. [ClosedEditor EXCEPT !.open = TRUE, !.def = study.def, !.rev = study.rev]
             \in Editor
        BY <1>0, EmptySeq DEF ClosedEditor, Editor
    <2>2. editor' \in [StudyPages -> Editor] /\ view' \in [StudyPages -> View]
        BY <1>1, <1>2, <1>5, <2>1 DEF OpenPage
    <2>3. run' \in [StudyRuns -> StudyRun]
        BY <1>5, RunUpdates DEF OpenPage
    <2>. QED
        BY <1>5, <2>2, <2>3 DEF OpenPage
<1>6. ASSUME CloseTab(p) PROVE StudyTypeOK'
    <2>1. run' \in [StudyRuns -> StudyRun]
        BY <1>3, <1>6 DEF CloseTab
    <2>. QED
        BY <1>1, <1>6, <2>1 DEF CloseTab
<1>7. ASSUME Edit(p) PROVE StudyTypeOK'
    <2>1. [what |-> "save", def |-> edits + 1, rev |-> 0] \in Request
          /\ edits' \in 0 .. MaxEdits
        BY <1>0, <1>7 DEF Edit, Request
    <2>2. Append(q, [what |-> "save", def |-> edits + 1, rev |-> 0]) \in Seq(Request)
        BY <1>0, <2>1, GrownQueue
    <2>3. editor' = [editor EXCEPT ![p] = [editor[p] EXCEPT
             !.def = edits + 1,
             !.queue = Append(q, [what |-> "save", def |-> edits + 1, rev |-> 0])]]
        BY <1>7 DEF Edit
    <2>4. editor' \in [StudyPages -> Editor]
        BY <1>0, <1>7, <2>1, <2>2, <2>3, ZenonT(30) DEF Edit, Editor
    <2>. QED
        BY <1>7, <2>1, <2>4 DEF Edit
<1>8. ASSUME Save(p) PROVE StudyTypeOK'
    <2>1. Served(p) \in Editor /\ Head(q) \in Request
        BY <1>4, <1>8 DEF Save, NextRequest
    <2>2. study' \in [status : Status, rev : Nat, def : 0 .. MaxEdits,
                      report : 0 .. MaxStudyRuns]
        <3>1. Head(q).def \in 0 .. MaxEdits
            BY <2>1 DEF Request
        <3>2. [study EXCEPT !.def = Head(q).def, !.rev = study.rev + 1] \in StudyRow
            BY <1>0, <3>1, RowUpdates
        <3>. QED
            BY <1>0, <1>8, <3>2 DEF Save, StudyRow
    <2>3. [Served(p) EXCEPT !.rev = study.rev + 1] \in Editor
        BY <1>0, <2>1 DEF Editor
    <2>4. editor' \in [StudyPages -> Editor]
        BY <1>8, <2>1, <2>3 DEF Save
    <2>. QED
        BY <1>8, <2>2, <2>4 DEF Save
<1>9. ASSUME SaveFails(p) PROVE StudyTypeOK'
    <2>1. Served(p) \in Editor
        BY <1>4, <1>9 DEF SaveFails, NextRequest
    <2>2. editor' \in [StudyPages -> Editor]
        BY <1>9, <2>1 DEF SaveFails, Editor
    <2>. QED
        BY <1>0, <1>9, <2>2 DEF SaveFails, Slips
<1>10. ASSUME PressSeal(p) PROVE StudyTypeOK'
    <2> DEFINE ask == [what |-> "seal", def |-> 0, rev |-> editor[p].rev]
               grown == IF q = <<>> THEN <<ask>> ELSE <<Head(q), ask>> \o Tail(q)
    <2>1. ask \in Request
        BY <1>0 DEF Request, Editor
    <2> HIDE DEF ask
    <2>2. grown \in Seq(Request)
        BY <1>0, <2>1, AskedQueue, GrownQueue
    <2>3. editor' = [editor EXCEPT ![p].queue = grown]
        BY <1>10 DEF PressSeal, ask
    <2> HIDE DEF grown
    <2>4. editor' \in [StudyPages -> Editor]
        BY <1>0, <2>2, <2>3 DEF Editor
    <2>. QED
        BY <1>10, <2>4 DEF PressSeal
<1>11. ASSUME Seal(p) PROVE StudyTypeOK'
    <2>1. Served(p) \in Editor
        BY <1>4, <1>11 DEF Seal, NextRequest
    <2>2. [what |-> "sealed", def |-> 0, rev |-> 0] \in Request
        BY <1>0 DEF Request
    <2>3. <<[what |-> "sealed", def |-> 0, rev |-> 0]>> \in Seq(Request)
        BY <1>0, <2>2, GrownQueue
    <2>4. editor' \in [StudyPages -> Editor]
        <3>1. [editor[p] EXCEPT !.queue = <<[what |-> "sealed", def |-> 0, rev |-> 0]>>]
                 \in Editor
            BY <1>0, <2>3 DEF Editor
        <3>. QED
            BY <1>11, <2>1, <3>1 DEF Seal
    <2>5. study' \in [status : Status, rev : Nat, def : 0 .. MaxEdits,
                      report : 0 .. MaxStudyRuns]
        BY <1>0, <1>11, RowUpdates, ZenonT(30) DEF Seal, StudyRow
    <2>. QED
        BY <1>11, <2>4, <2>5 DEF Seal
<1>12. ASSUME Delete(p) PROVE StudyTypeOK'
    BY <1>0, <1>1, <1>12 DEF Delete
<1>14. ASSUME Sealed(p) PROVE StudyTypeOK'
    <2>1. run' \in [StudyRuns -> StudyRun]
        BY <1>0, <1>1, <1>14, StartTypes DEF Sealed
    <2>. QED
        BY <1>1, <1>2, <1>14, <2>1 DEF Sealed
<1>15. ASSUME Resume(p) PROVE StudyTypeOK'
    <2>1. run' \in [StudyRuns -> StudyRun]
        BY <1>0, <1>1, <1>15, StartTypes DEF Resume, View
    <2>2. view' \in [StudyPages -> View]
        BY <1>0, <1>15 DEF Resume, View
    <2>. QED
        BY <1>15, <2>1, <2>2 DEF Resume
<1>16. ASSUME Interrupt(p) PROVE StudyTypeOK'
    BY <1>0, <1>16 DEF Interrupt, View
<1>17. ASSUME Archive(p) PROVE StudyTypeOK'
    <2>1. [view[p] EXCEPT !.status = "archived", !.rev = study.rev + 1] \in View
        BY <1>0, ViewUpdates
    <2>2. view' = [view EXCEPT ![p] = [view[p] EXCEPT !.status = "archived",
                                                      !.rev = study.rev + 1]]
        BY <1>17 DEF Archive
    <2>3. view' \in [StudyPages -> View]
        BY <2>1, <2>2
    <2>4. study' \in [status : Status, rev : Nat, def : 0 .. MaxEdits,
                      report : 0 .. MaxStudyRuns]
        BY <1>0, <1>17, RowUpdates DEF Archive, StudyRow
    <2>. QED
        BY <1>17, <2>3, <2>4 DEF Archive
<1>. QED
    BY <1>5, <1>6, <1>7, <1>8, <1>9, <1>10, <1>11, <1>12, <1>14, <1>15, <1>16, <1>17

\* The steps of a run.
LEMMA RunTypes ==
    ASSUME StudyTypeOK, NEW r \in StudyRuns,
           \/ Method(r) \/ CreateTrial(r) \/ SealTrial(r) \/ Measure(r) \/ Report(r)
           \/ Complete(r) \/ ReadFresh(r) \/ MarkFailed(r) \/ Reload(r)
    PROVE  StudyTypeOK'
<1> USE DEF StudyTypeOK
<1>0. /\ MaxStudyRuns \in Nat /\ MaxSlips \in Nat /\ NTrials \in Nat \ {0}
      /\ run[r] \in StudyRun /\ run[r].k \in 1 .. NTrials
      /\ "completed" \in Status /\ "failed" \in Status
      /\ study \in StudyRow /\ study.rev \in Nat /\ study.rev + 1 \in Nat
      /\ r \in 0 .. MaxStudyRuns
    BY StudyAssumption DEF StudyRun, Status, Started, StudyRow, StudyRuns
<1>1. Slips => slips' \in 0 .. MaxSlips
    BY <1>0 DEF Slips
<1>2. ASSUME NEW s \in RunStage, NEW failed \in BOOLEAN, Settles(r, s, failed)
      PROVE  run' \in [StudyRuns -> StudyRun] /\ view' \in [StudyPages -> View]
    <2>1. run' = [run EXCEPT ![r] = [run[r] EXCEPT !.at = s, !.failed = failed]]
        BY <1>2 DEF Settles
    <2>2. run' \in [StudyRuns -> StudyRun]
        BY <1>0, <2>1, RunUpdates
    <2>3. view' \in [StudyPages -> View]
        <3> DEFINE page == run[r].page
        <3>1. \/ view' = view
              \/ view' = [view EXCEPT ![page] = [view[page] EXCEPT !.phase = "idle"]]
            BY <1>2 DEF Settles
        <3> HIDE DEF page
        <3>2. page \in StudyPages => [view[page] EXCEPT !.phase = "idle"] \in View
            BY ViewUpdates
        <3>. QED
            BY <3>1, <3>2
    <2>. QED
        BY <2>2, <2>3
<1>3. Fails(r) => run' \in [StudyRuns -> StudyRun] /\ view' \in [StudyPages -> View]
    BY <1>2 DEF Fails, RunStage
<1>4. ASSUME NEW s \in RunStage, Goes(r, s) PROVE run' \in [StudyRuns -> StudyRun]
    BY <1>0, <1>4 DEF Goes, StudyRun
<1>5. ASSUME NEW s \in {"open", "sealed", "measured"}, StoreTrial(r, s)
      PROVE  trial' \in [Trials -> {"none", "open", "sealed", "measured"}]
    BY <1>0, <1>5 DEF StoreTrial
<1>6. ASSUME Method(r) PROVE StudyTypeOK'
    BY <1>3, <1>4, <1>6 DEF Method, RunStage
<1>7. ASSUME CreateTrial(r) PROVE StudyTypeOK'
    BY <1>1, <1>3, <1>4, <1>5, <1>7 DEF CreateTrial, RunStage
<1>8. ASSUME SealTrial(r) PROVE StudyTypeOK'
    BY <1>1, <1>3, <1>4, <1>5, <1>8 DEF SealTrial, RunStage
<1>9. ASSUME Measure(r) PROVE StudyTypeOK'
    <2>1. AfterTrial(r) \in RunStage
        BY DEF AfterTrial, RunStage
    <2>2. run' \in [StudyRuns -> StudyRun] /\ view' \in [StudyPages -> View]
        <3> DEFINE next == AfterTrial(r)
                   more == IF run[r].k < NTrials THEN run[r].k + 1 ELSE run[r].k
        <3>1. \/ /\ run' = [run EXCEPT ![r] = [run[r] EXCEPT !.at = next, !.k = more]]
                 /\ view' = view
              \/ Fails(r)
            BY <1>0, <1>9 DEF Measure
        <3>2. more \in 1 .. NTrials
            BY <1>0
        <3> HIDE DEF next, more
        <3>3. [run[r] EXCEPT !.at = next, !.k = more] \in StudyRun
            <4>1. next \in RunStage
                BY <2>1 DEF next
            <4>. QED
                BY <1>0, <3>2, <4>1, RunUpdates
        <3>. QED
            BY <1>3, <3>1, <3>3
    <2>3. trial' \in [Trials -> {"none", "open", "sealed", "measured"}]
          /\ slips' \in 0 .. MaxSlips
        BY <1>1, <1>5, <1>9 DEF Measure
    <2>. QED
        BY <1>9, <2>2, <2>3 DEF Measure
<1>10. ASSUME Report(r) PROVE StudyTypeOK'
    <2>1. books' \in [StudyRuns -> SUBSET Trials]
        BY <1>10 DEF Report, Listed
    <2>. QED
        BY <1>1, <1>3, <1>4, <1>10, <2>1 DEF Report, RunStage
<1>11. ASSUME Complete(r) PROVE StudyTypeOK'
    <2>1. study' \in [status : Status, rev : Nat, def : 0 .. MaxEdits,
                      report : 0 .. MaxStudyRuns]
        BY <1>0, <1>11, RowUpdates DEF Complete, StudyRow
    <2>2. run' \in [StudyRuns -> StudyRun] /\ view' \in [StudyPages -> View]
        BY <1>2, <1>3, <1>11 DEF Complete, RunStage
    <2>. QED
        BY <1>1, <1>11, <2>1, <2>2 DEF Complete
<1>12. ASSUME ReadFresh(r) PROVE StudyTypeOK'
    <2>1. AfterFailure \in RunStage
        BY DEF AfterFailure, RunStage
    <2>2. run' \in [StudyRuns -> StudyRun]
        BY <1>0, <1>12, <2>1, SMTT(30) DEF ReadFresh, StudyRun, RunStage
    <2>. QED
        BY <1>1, <1>12, <2>2 DEF ReadFresh
<1>13. ASSUME MarkFailed(r) PROVE StudyTypeOK'
    <2>1. run' \in [StudyRuns -> StudyRun]
        BY <1>0, <1>4, <1>13 DEF MarkFailed, StudyRun, RunStage
    <2>2. study' \in [status : Status, rev : Nat, def : 0 .. MaxEdits,
                      report : 0 .. MaxStudyRuns]
        BY <1>0, <1>13, RowUpdates DEF MarkFailed, StudyRow
    <2>. QED
        BY <1>1, <1>13, <2>1, <2>2 DEF MarkFailed
<1>14. ASSUME Reload(r) PROVE StudyTypeOK'
    <2>1. Over(r, run[r].unmarked) \in StudyRun
        <3>1. NoRun \in StudyRun
            BY <1>0 DEF NoRun, StudyRun, RunStage, Status
        <3>2. run[r].unmarked \in BOOLEAN
            BY <1>0 DEF StudyRun
        <3>. QED
            BY <3>1, <3>2, OverTypes
    <2>2. view' \in [StudyPages -> View]
        BY <1>14 DEF Reload, Loaded, View
    <2>. QED
        BY <1>14, <2>1, <2>2 DEF Reload
<1>. QED
    BY <1>6, <1>7, <1>8, <1>9, <1>10, <1>11, <1>12, <1>13, <1>14

-----------------------------------------------------------------------------
(* What a step of a page does to the study and to its runs.                  *)

\* The study goes on as it was, is started, deleted or archived.
StudyAfterPage ==
    /\ study'.report = study.report
    /\ \/ study'.status = study.status /\ (study.status # "draft" => study'.rev = study.rev)
       \/ study.status = "draft" /\ study'.status \in {"in_progress", "deleted"}
       \/ study.status \in Started /\ study'.status = "archived"

GoesOn(r) == /\ run'[r].at = run[r].at /\ run'[r].k = run[r].k /\ run'[r].rev = run[r].rev
             /\ run'[r].failed = run[r].failed /\ run'[r].unmarked = run[r].unmarked
             /\ run'[r].page = run[r].page
Vanishes(r) == run[r].at # "none" /\ run'[r].at = "over" /\ run'[r].unmarked
Begins(r) == /\ study.status \in Started /\ run[r].at = "none" /\ run'[r].at = "method"
             /\ ~run'[r].failed /\ run'[r].k = 1

PageEffect ==
    /\ UNCHANGED <<trial, books>>
    /\ StudyAfterPage
    /\ \A r \in StudyRuns : GoesOn(r) \/ Vanishes(r) \/ Begins(r)

LEMMA RunsUnchanged == UNCHANGED run => \A r \in StudyRuns : GoesOn(r)
    BY DEF GoesOn

LEMMA StudyUnchanged == UNCHANGED study => StudyAfterPage
    BY DEF StudyAfterPage

LEMMA StartEffect ==
    ASSUME StudyInv, NEW p, NEW row, StartRun(p, row), study.status \in Started
    PROVE  \A r \in StudyRuns : GoesOn(r) \/ Begins(r)
<1>1. PICK r \in StudyRuns : /\ run[r].at = "none"
                            /\ run' = [run EXCEPT ![r] = [NoRun EXCEPT
                                 !.at = "method", !.page = p, !.shown = TRUE,
                                 !.status = row.status, !.rev = row.rev]]
    BY DEF StartRun
<1>2. run \in [StudyRuns -> StudyRun]
    BY DEF StudyInv, StudyTypeOK
<1>3. Begins(r)
    BY <1>1, <1>2 DEF Begins, NoRun
<1>4. \A s \in StudyRuns : s # r => GoesOn(s)
    BY <1>1, <1>2 DEF GoesOn
<1>. QED
    BY <1>3, <1>4

LEMMA PageSteps ==
    ASSUME StudyInv, NEW p \in StudyPages,
           \/ OpenPage(p) \/ CloseTab(p) \/ Edit(p) \/ Save(p) \/ SaveFails(p)
           \/ PressSeal(p) \/ Seal(p) \/ Delete(p) \/ Sealed(p)
           \/ Resume(p) \/ Interrupt(p) \/ Archive(p)
    PROVE  PageEffect
<1>0. /\ study \in StudyRow /\ run \in [StudyRuns -> StudyRun]
      /\ editor[p].queue \in Seq(Request) /\ p # "none"
    BY StudyAssumption DEF StudyInv, StudyTypeOK, StudyRow, Editor
<1>1. ASSUME NextRequest(p, "sealed") PROVE study.status \in Started
    <2>1. 1 \in 1 .. Len(editor[p].queue) /\ editor[p].queue[1].what = "sealed"
        BY <1>0, <1>1, ServedQueue DEF NextRequest
    <2>. QED
        BY <2>1 DEF StudyInv, WasStarted
<1>2. CASE OpenPage(p)
    <2>1. \A r \in StudyRuns : GoesOn(r)
        BY <1>0, <1>2 DEF OpenPage, GoesOn, StudyRun
    <2>. QED
        BY <1>2, <2>1, StudyUnchanged DEF PageEffect, OpenPage
<1>3. CASE CloseTab(p)
    <2>1. \A r \in StudyRuns : GoesOn(r) \/ Vanishes(r)
        <3> SUFFICES ASSUME NEW r \in StudyRuns PROVE GoesOn(r) \/ Vanishes(r)
            OBVIOUS
        <3>1. CASE run[r].page = p
            <4>1. run'[r] = Over(r, TRUE)
                BY <1>3, <3>1 DEF CloseTab
            <4>2. run[r].at # "none"
                BY <1>0, <3>1 DEF StudyInv, Unbegun
            <4>. QED
                BY <4>1, <4>2 DEF Vanishes, Over, NoRun
        <3>2. CASE run[r].page # p
            BY <1>3, <3>2 DEF CloseTab, GoesOn
        <3>. QED
            BY <3>1, <3>2
    <2>. QED
        BY <1>3, <2>1, StudyUnchanged DEF PageEffect, CloseTab
<1>4. CASE Edit(p) \/ SaveFails(p) \/ PressSeal(p) \/ Interrupt(p)
    <2>1. UNCHANGED <<study, run, trial, books>>
        BY <1>4 DEF Edit, SaveFails, PressSeal, Interrupt
    <2>. QED
        BY <2>1, RunsUnchanged, StudyUnchanged DEF PageEffect
<1>5. CASE Save(p) \/ Seal(p) \/ Delete(p) \/ Archive(p)
    <2>1. UNCHANGED <<run, trial, books>>
        BY <1>5 DEF Save, Seal, Delete, Archive
    <2>2. StudyAfterPage
        <3>1. CASE Save(p)
            BY <1>0, <3>1 DEF Save, MaySave, StudyAfterPage, StudyRow
        <3>2. CASE Seal(p)
            BY <1>0, <3>2 DEF Seal, MaySeal, StudyAfterPage, StudyRow
        <3>3. CASE Delete(p)
            BY <1>0, <3>3 DEF Delete, MaySave, StudyAfterPage, StudyRow
        <3>4. CASE Archive(p)
            BY <1>0, <3>4 DEF Archive, StudyAfterPage, StudyRow
        <3>. QED
            BY <1>5, <3>1, <3>2, <3>3, <3>4
    <2>. QED
        BY <2>1, <2>2, RunsUnchanged DEF PageEffect
<1>6. CASE Sealed(p)
    <2>1. \A r \in StudyRuns : GoesOn(r) \/ Begins(r)
        BY <1>1, <1>6, StartEffect DEF Sealed
    <2>. QED
        BY <1>6, <2>1, StudyUnchanged DEF PageEffect, Sealed
<1>7. CASE Resume(p)
    <2>1. study.status \in Started
        BY <1>7 DEF Resume, StudyInv, WasStarted
    <2>2. \A r \in StudyRuns : GoesOn(r) \/ Begins(r)
        BY <1>7, <2>1, StartEffect DEF Resume
    <2>. QED
        BY <1>7, <2>2, StudyUnchanged DEF PageEffect, Resume
<1>. QED
    BY <1>2, <1>3, <1>4, <1>5, <1>6, <1>7

\* Such a step takes nothing from a run that goes on.
LEMMA PageKeepsRuns ==
    ASSUME StudyInv, PageEffect
    PROVE  /\ \A r \in StudyRuns : Behind(r)'
           /\ ReportRestsOnItsRun' /\ ReportedIsOver' /\ Unbegun' /\ MarksTheStudy' /\ Marked'
<1> USE DEF StudyInv, PageEffect, StudyAfterPage
<1>0. /\ study.report # 0 => study.report \in StudyRuns
      /\ study.status \notin Started => \A r \in StudyRuns : run[r].at = "none" /\ ~run[r].failed
      /\ \A r \in StudyRuns : run[r].page = "none" \/ run[r].at # "none"
    BY StudyAssumption DEF StudyTypeOK, StudyRuns, WasStarted, Unbegun
<1>1. \A r \in StudyRuns : Behind(r)'
    BY DEF Behind, GoesOn, Vanishes, Begins
<1>2. ReportRestsOnItsRun'
    BY DEF ReportRestsOnItsRun
<1>3. ReportedIsOver'
    BY <1>0 DEF ReportedIsOver, GoesOn, Vanishes, Begins, Started
<1>4. Unbegun'
    BY <1>0 DEF Unbegun, GoesOn, Vanishes, Begins
<1>5. MarksTheStudy'
    BY <1>0 DEF MarksTheStudy, GoesOn, Vanishes, Begins, Started
<1>6. Marked'
    BY <1>0 DEF Marked, GoesOn, Vanishes, Begins, Started
<1>. QED
    BY <1>1, <1>2, <1>3, <1>4, <1>5, <1>6

\* What is new in the queue of an editor is not a start, unless the study is
\* started.
LEMMA QueueEffect ==
    ASSUME StudyInv, NEW p \in StudyPages,
           \/ OpenPage(p) \/ CloseTab(p) \/ Edit(p) \/ Save(p) \/ SaveFails(p)
           \/ PressSeal(p) \/ Seal(p) \/ Delete(p) \/ Sealed(p)
           \/ Resume(p) \/ Interrupt(p) \/ Archive(p)
    PROVE  /\ \A o \in StudyPages : o # p => editor'[o] = editor[o] /\ view'[o] = view[o]
           /\ \A i \in 1 .. Len(editor'[p].queue) :
                 \/ editor'[p].queue[i].what # "sealed"
                 \/ study'.status \in Started
                 \/ \E j \in 1 .. Len(editor[p].queue) :
                       editor'[p].queue[i] = editor[p].queue[j]
<1> DEFINE q == editor[p].queue
<1>0. /\ study \in StudyRow /\ q \in Seq(Request) /\ editor[p] \in Editor
      /\ editor \in [StudyPages -> Editor] /\ view \in [StudyPages -> View]
      /\ MaxEdits \in Nat /\ Len(q) \in Nat
    BY StudyAssumption DEF StudyInv, StudyTypeOK, StudyRow, Editor
<1>1. \A o \in StudyPages : o # p => editor'[o] = editor[o] /\ view'[o] = view[o]
    BY <1>0 DEF OpenPage, CloseTab, Edit, Save, SaveFails, PressSeal, Seal, Delete, Sealed,
                Resume, Interrupt, Archive
<1> SUFFICES ASSUME NEW i \in 1 .. Len(editor'[p].queue),
                    editor'[p].queue[i].what = "sealed", study'.status \notin Started
             PROVE  \E j \in 1 .. Len(q) : editor'[p].queue[i] = q[j]
    BY <1>1
<1>2. CASE editor'[p].queue = q
    BY <1>2
<1>3. CASE editor'[p].queue = <<>>
    BY <1>3
<1>4. CASE q # <<>> /\ editor'[p].queue = Tail(q)
    BY <1>0, <1>4, ServedQueue
<1>5. CASE Edit(p)
    <2> DEFINE x == [what |-> "save", def |-> edits + 1, rev |-> 0]
    <2>1. editor'[p].queue = Append(q, x)
        BY <1>0, <1>5 DEF Edit, Editor
    <2>2. edits + 1 \in 0 .. MaxEdits
        BY <1>0, <1>5 DEF Edit, StudyInv, StudyTypeOK
    <2>3. x \in Request /\ x.what = "save"
        BY <2>2, <1>0 DEF Request
    <2> HIDE DEF x
    <2>. QED
        BY <1>0, <2>1, <2>3, GrownQueue
<1>6. CASE PressSeal(p)
    <2> DEFINE ask == [what |-> "seal", def |-> 0, rev |-> editor[p].rev]
    <2>1. editor'[p].queue = IF q = <<>> THEN <<ask>> ELSE <<Head(q), ask>> \o Tail(q)
        BY <1>0, <1>6 DEF PressSeal, Editor
    <2>2. ask \in Request /\ ask.what = "seal"
        BY <1>0 DEF Request, Editor
    <2> HIDE DEF ask
    <2>3. CASE q = <<>>
        BY <2>1, <2>2, <2>3, GrownQueue
    <2>4. CASE q # <<>>
        <3> DEFINE a == <<Head(q), ask>> \o Tail(q)
        <3>1. /\ Len(a) = Len(q) + 1 /\ a[1] = q[1] /\ a[2] = ask
              /\ \A n \in 3 .. Len(a) : a[n] = q[n - 1]
            BY <1>0, <2>2, <2>4, AskedQueue
        <3>2. editor'[p].queue = a
            BY <2>1, <2>4
        <3> HIDE DEF a
        <3>3. i = 1 \/ i \in 3 .. Len(a)
            BY <1>0, <2>2, <3>1, <3>2
        <3>4. CASE i = 1
            BY <1>0, <2>4, <3>1, <3>2, <3>4, ServedQueue
        <3>5. CASE i \in 3 .. Len(a)
            BY <1>0, <3>1, <3>2, <3>5
        <3>. QED
            BY <3>3, <3>4, <3>5
    <2>. QED
        BY <2>3, <2>4
<1>7. CASE Save(p) \/ SaveFails(p) \/ Seal(p)
    <2>1. q # <<>>
        BY <1>7 DEF Save, SaveFails, Seal, NextRequest
    <2>2. editor'[p].queue = Tail(q)
        <3>1. Served(p).queue = Tail(q) /\ Served(p) \in Editor
            BY <1>0, <2>1, ServedQueue DEF Served, Editor
        <3>2. CASE Save(p)
            BY <1>0, <3>1, <3>2 DEF Save, Editor
        <3>3. CASE SaveFails(p)
            BY <1>0, <3>1, <3>3 DEF SaveFails, Editor
        <3>4. CASE Seal(p)
            <4>1. ~MaySeal(Head(q).rev)
                BY <1>0, <3>4 DEF Seal, StudyRow, Started
            <4>. QED
                BY <1>0, <3>1, <3>4, <4>1 DEF Seal
        <3>. QED
            BY <1>7, <3>2, <3>3, <3>4
    <2>. QED
        BY <1>4, <2>1, <2>2
<1>8. CASE OpenPage(p) \/ CloseTab(p) \/ Delete(p) \/ Sealed(p)
    <2>1. CASE OpenPage(p)
        <3>1. \/ editor' = [editor EXCEPT ![p] = [ClosedEditor EXCEPT
                    !.open = TRUE, !.def = study.def, !.rev = study.rev]]
              \/ editor' = [editor EXCEPT ![p] = ClosedEditor]
            BY <2>1 DEF OpenPage
        <3>2. /\ ClosedEditor.queue = <<>>
              /\ [ClosedEditor EXCEPT !.open = TRUE, !.def = study.def,
                                      !.rev = study.rev].queue = <<>>
            BY DEF ClosedEditor
        <3>3. editor'[p].queue = <<>>
            BY <1>0, <3>1, <3>2
        <3>. QED
            BY <1>3, <3>3
    <2>2. CASE CloseTab(p) \/ Delete(p) \/ Sealed(p)
        <3>1. editor' = [editor EXCEPT ![p] = ClosedEditor]
            BY <2>2 DEF CloseTab, Delete, Sealed
        <3>. QED
            BY <1>0, <1>3, <3>1 DEF ClosedEditor
    <2>. QED
        BY <1>8, <2>1, <2>2
<1>9. CASE Resume(p) \/ Interrupt(p) \/ Archive(p)
    BY <1>2, <1>9 DEF Resume, Interrupt, Archive
<1>. QED
    BY <1>5, <1>6, <1>7, <1>8, <1>9

\* A page asks to run a study only when it is started.
LEMMA PageKeepsStarted ==
    ASSUME StudyInv, NEW p \in StudyPages,
           \/ OpenPage(p) \/ CloseTab(p) \/ Edit(p) \/ Save(p) \/ SaveFails(p)
           \/ PressSeal(p) \/ Seal(p) \/ Delete(p) \/ Sealed(p)
           \/ Resume(p) \/ Interrupt(p) \/ Archive(p)
    PROVE  WasStarted'
<1> SUFFICES ASSUME study'.status \notin Started PROVE WasStarted'
    BY DEF WasStarted
<1>0. view \in [StudyPages -> View]
    BY DEF StudyInv, StudyTypeOK
<1>1. PageEffect
    BY PageSteps
<1>2. /\ study.status \notin Started
      /\ \A r \in StudyRuns : run[r].at = "none" /\ ~run[r].failed
      /\ \A o \in StudyPages :
            /\ ~view[o].open
            /\ \A i \in 1 .. Len(editor[o].queue) : editor[o].queue[i].what # "sealed"
    <2>1. study.status \notin Started
        BY <1>1 DEF PageEffect, StudyAfterPage, Started
    <2>. QED
        BY <2>1 DEF StudyInv, WasStarted
<1>3. \A r \in StudyRuns : run'[r].at = "none" /\ ~run'[r].failed
    BY <1>1, <1>2 DEF PageEffect, GoesOn, Vanishes, Begins
<1>4. \A o \in StudyPages : \A i \in 1 .. Len(editor'[o].queue) :
         editor'[o].queue[i].what # "sealed"
    BY <1>2, QueueEffect, SMTT(30)
<1>5. ~view'[p].open
    <2>1. ~Sealed(p) /\ ~Resume(p) /\ ~Archive(p)
        <3>1. ~Resume(p) /\ ~Archive(p)
            BY <1>2 DEF Resume, Archive
        <3>2. ~Sealed(p)
            <4>1. editor[p].queue \in Seq(Request)
                BY DEF StudyInv, StudyTypeOK, Editor
            <4>2. ASSUME Sealed(p) PROVE FALSE
                <5>1. editor[p].queue # <<>> /\ Head(editor[p].queue).what = "sealed"
                    BY <4>2 DEF Sealed, NextRequest
                <5>2. Head(editor[p].queue) = editor[p].queue[1]
                      /\ 1 \in 1 .. Len(editor[p].queue)
                    BY <4>1, <5>1, ServedQueue
                <5>. QED
                    BY <1>2, <5>1, <5>2
            <4>. QED
                BY <4>2
        <3>. QED
            BY <3>1, <3>2
    <2>2. CASE OpenPage(p)
        <3>1. study.status = "draft"
            BY <1>2, <2>2 DEF OpenPage, StudyInv, StudyTypeOK, Status
        <3>. QED
            BY <1>0, <2>2, <3>1 DEF OpenPage, ClosedView
    <2>3. CASE CloseTab(p)
        BY <1>0, <2>3 DEF CloseTab, ClosedView
    <2>4. CASE Interrupt(p)
        BY <1>0, <1>2, <2>4 DEF Interrupt, View
    <2>5. CASE UNCHANGED view
        BY <1>2, <2>5
    <2>. QED
        BY <2>1, <2>2, <2>3, <2>4, <2>5 DEF Edit, Save, SaveFails, PressSeal, Seal, Delete
<1>6. \A o \in StudyPages : ~view'[o].open
    BY <1>2, <1>5, QueueEffect
<1>. QED
    BY <1>3, <1>4, <1>6 DEF WasStarted

-----------------------------------------------------------------------------
(* What a step of a run does to the other runs and to its own.               *)

Elsewhere(r) ==
    /\ \A s \in StudyRuns \ {r} :
          /\ run'[s] = run[s] /\ books'[s] = books[s]
          /\ \A i \in 1 .. NTrials : trial'[<<s, i>>] = trial[<<s, i>>]
    /\ editor' = editor

\* The study goes on, or this run is the one that ends it.
StudyAfterRun(r) ==
    \/ UNCHANGED study
    \/ /\ run[r].at = "complete" /\ study.status = "in_progress"
       /\ study'.status = "completed" /\ study'.report = r
       /\ run'[r].at = "reload" /\ ~run'[r].failed /\ UNCHANGED <<trial, books>>
    \/ /\ run[r].at = "marking" /\ study.status = "in_progress"
       /\ study'.status = "failed" /\ study'.report = study.report
       /\ run'[r].at = "reload" /\ UNCHANGED <<trial, books>>

RunAfter(r) ==
    /\ run[r].at # "none" /\ run'[r].at # "none"
    /\ run[r].at \in {"reload", "over"} =>
          /\ run'[r].at = "over" /\ run'[r].failed = run[r].failed
          /\ run'[r].unmarked = run[r].unmarked /\ UNCHANGED <<study, trial, books>>
    /\ run'[r].at = "marking" => run'[r].rev = study'.rev
    /\ run'[r].at \in {"reload", "over"} /\ run'[r].failed /\ study'.status = "in_progress" =>
          run'[r].unmarked

RunEffect(r) == Elsewhere(r) /\ StudyAfterRun(r) /\ RunAfter(r) /\ Behind(r)'

LEMMA RunSteps ==
    ASSUME StudyInv, NEW r \in StudyRuns,
           \/ Method(r) \/ CreateTrial(r) \/ SealTrial(r) \/ Measure(r) \/ Report(r)
           \/ Complete(r) \/ ReadFresh(r) \/ MarkFailed(r) \/ Reload(r)
    PROVE  RunEffect(r)
<1>0. /\ study \in StudyRow /\ run \in [StudyRuns -> StudyRun] /\ run[r] \in StudyRun
      /\ trial \in [Trials -> {"none", "open", "sealed", "measured"}]
      /\ books \in [StudyRuns -> SUBSET Trials]
      /\ run[r].k \in 1 .. NTrials /\ NTrials \in Nat \ {0}
      /\ \A s \in StudyRuns, i \in 1 .. NTrials : <<s, i>> \in Trials
    BY StudyAssumption DEF StudyInv, StudyTypeOK, StudyRow, StudyRun, Trials
<1>1. ASSUME Fails(r), UNCHANGED <<study, trial, books, editor>>,
             run[r].at \notin {"none", "reload", "over"}
      PROVE  RunEffect(r)
    <2>1. run'[r].at = "failing" /\ \A s \in StudyRuns \ {r} : run'[s] = run[s]
        BY <1>0, <1>1 DEF Fails, Settles
    <2>. QED
        BY <1>1, <2>1 DEF RunEffect, Elsewhere, StudyAfterRun, RunAfter, Behind
<1>2. ASSUME NEW s \in {"open", "sealed", "measured"}, StoreTrial(r, s)
      PROVE  /\ trial'[<<r, run[r].k>>] = s
             /\ \A t \in Trials : t # <<r, run[r].k>> => trial'[t] = trial[t]
    BY <1>0, <1>2 DEF StoreTrial
<1>3. CASE Method(r)
    <2>1. CASE Goes(r, "create")
        <3>1. run'[r] = [run[r] EXCEPT !.at = "create"]
              /\ \A s \in StudyRuns \ {r} : run'[s] = run[s]
            BY <1>0, <2>1 DEF Goes
        <3>2. run'[r].at = "create" /\ run'[r].k = 1
            BY <1>0, <1>3, <3>1 DEF StudyRun, Method, StudyInv, Behind
        <3>3. Behind(r)'
            BY <3>2 DEF Behind
        <3>. QED
            BY <1>3, <3>1, <3>2, <3>3 DEF Method, RunEffect, Elsewhere, StudyAfterRun, RunAfter
    <2>. QED
        BY <1>1, <1>3, <2>1 DEF Method
<1>4. CASE CreateTrial(r)
    <2>1. CASE StoreTrial(r, "open") /\ Goes(r, "seal")
        <3>1. run'[r] = [run[r] EXCEPT !.at = "seal"]
              /\ \A s \in StudyRuns \ {r} : run'[s] = run[s]
            BY <1>0, <2>1 DEF Goes
        <3>2. \A t \in Trials : t # <<r, run[r].k>> => trial'[t] = trial[t]
            BY <1>2, <2>1
        <3>3. run'[r].at = "seal" /\ run'[r].k = run[r].k
            BY <1>0, <3>1 DEF StudyRun
        <3>4. Behind(r)'
            BY <1>0, <1>4, <3>2, <3>3 DEF CreateTrial, StudyInv, Behind
        <3>5. Elsewhere(r)
            BY <1>0, <1>4, <3>1, <3>2 DEF CreateTrial, Elsewhere
        <3>. QED
            BY <1>4, <3>3, <3>4, <3>5 DEF CreateTrial, RunEffect, StudyAfterRun, RunAfter
    <2>. QED
        BY <1>1, <1>4, <2>1 DEF CreateTrial
<1>5. CASE SealTrial(r)
    <2>1. CASE StoreTrial(r, "sealed") /\ Goes(r, "measure")
        <3>1. run'[r] = [run[r] EXCEPT !.at = "measure"]
              /\ \A s \in StudyRuns \ {r} : run'[s] = run[s]
            BY <1>0, <2>1 DEF Goes
        <3>2. \A t \in Trials : t # <<r, run[r].k>> => trial'[t] = trial[t]
            BY <1>2, <2>1
        <3>3. run'[r].at = "measure" /\ run'[r].k = run[r].k
            BY <1>0, <3>1 DEF StudyRun
        <3>4. Behind(r)'
            BY <1>0, <1>5, <3>2, <3>3 DEF SealTrial, StudyInv, Behind
        <3>5. Elsewhere(r)
            BY <1>0, <1>5, <3>1, <3>2 DEF SealTrial, Elsewhere
        <3>. QED
            BY <1>5, <3>3, <3>4, <3>5 DEF SealTrial, RunEffect, StudyAfterRun, RunAfter
    <2>. QED
        BY <1>1, <1>5, <2>1 DEF SealTrial
<1>6. CASE Measure(r)
    <2> DEFINE n == IF run[r].k < NTrials THEN run[r].k + 1 ELSE run[r].k
    <2>1. CASE StoreTrial(r, "measured") /\ run' = [run EXCEPT ![r].at = AfterTrial(r), ![r].k = n]
        <3>1. run'[r] = [run[r] EXCEPT !.at = AfterTrial(r), !.k = n]
              /\ \A s \in StudyRuns \ {r} : run'[s] = run[s]
            BY <1>0, <2>1
        <3>2. /\ trial'[<<r, run[r].k>>] = "measured"
              /\ \A t \in Trials : t # <<r, run[r].k>> => trial'[t] = trial[t]
            BY <1>2, <2>1
        <3>3. run'[r].at = AfterTrial(r) /\ run'[r].k = n
            BY <1>0, <3>1 DEF StudyRun
        <3>4. \A i \in 1 .. run[r].k : trial'[<<r, i>>] = "measured"
            BY <1>0, <1>6, <3>2 DEF Measure, StudyInv, Behind
        <3>5. Behind(r)'
            BY <1>0, <3>3, <3>4 DEF Behind, AfterTrial
        <3>6. Elsewhere(r)
            BY <1>0, <1>6, <3>1, <3>2 DEF Measure, Elsewhere
        <3>. QED
            BY <1>6, <3>3, <3>5, <3>6 DEF Measure, AfterTrial, RunEffect, StudyAfterRun, RunAfter
    <2>. QED
        BY <1>1, <1>6, <2>1 DEF Measure
<1>7. CASE Report(r)
    <2>1. CASE books' = [books EXCEPT ![r] = Listed] /\ Goes(r, "complete")
        <3>1. run'[r] = [run[r] EXCEPT !.at = "complete"]
              /\ \A s \in StudyRuns \ {r} : run'[s] = run[s]
            BY <1>0, <2>1 DEF Goes
        <3>2. run'[r].at = "complete" /\ trial' = trial
            BY <1>0, <1>7, <3>1 DEF StudyRun, Report
        <3>3. books'[r] = Listed /\ \A s \in StudyRuns \ {r} : books'[s] = books[s]
            BY <1>0, <2>1
        <3>4. \A i \in 1 .. NTrials : trial[<<r, i>>] = "measured"
            BY <1>7 DEF Report, StudyInv, Behind
        <3>5. \A i \in 1 .. NTrials : <<r, i>> \in Listed
            BY <1>0, <3>4 DEF Listed
        <3>6. Behind(r)'
            BY <3>2, <3>3, <3>4, <3>5 DEF Behind
        <3>7. Elsewhere(r)
            BY <1>7, <3>1, <3>2, <3>3 DEF Report, Elsewhere
        <3>. QED
            BY <1>7, <3>2, <3>6, <3>7 DEF Report, RunEffect, StudyAfterRun, RunAfter
    <2>. QED
        BY <1>1, <1>7, <2>1 DEF Report
<1>8. CASE Complete(r)
    <2>1. CASE Fails(r) /\ UNCHANGED study
        BY <1>1, <1>8, <2>1 DEF Complete
    <2>2. CASE MayComplete(r) /\ Settles(r, "reload", FALSE)
               /\ study' = [study EXCEPT !.status = "completed", !.rev = @ + 1, !.report = r]
        <3>1. run'[r] = [run[r] EXCEPT !.at = "reload", !.failed = FALSE]
              /\ \A s \in StudyRuns \ {r} : run'[s] = run[s]
            BY <1>0, <2>2 DEF Settles
        <3>2. run'[r].at = "reload" /\ run'[r].failed = FALSE
            BY <1>0, <3>1 DEF StudyRun
        <3>3. study'.status = "completed" /\ study'.report = r
            BY <1>0, <2>2 DEF StudyRow
        <3>. QED
            BY <1>8, <2>2, <3>1, <3>2, <3>3
               DEF Complete, MayComplete, RunEffect, Elsewhere, StudyAfterRun, RunAfter, Behind
    <2>. QED
        BY <1>8, <2>1, <2>2 DEF Complete
<1>9. CASE ReadFresh(r)
    <2>1. CASE run' = [run EXCEPT ![r].at = AfterFailure, ![r].rev = study.rev]
        <3>1. run'[r] = [run[r] EXCEPT !.at = AfterFailure, !.rev = study.rev]
              /\ \A s \in StudyRuns \ {r} : run'[s] = run[s]
            BY <1>0, <2>1
        <3>2. run'[r].at = AfterFailure /\ run'[r].rev = study.rev
            BY <1>0, <3>1 DEF StudyRun
        <3>. QED
            BY <1>9, <3>1, <3>2
               DEF ReadFresh, AfterFailure, RunEffect, Elsewhere, StudyAfterRun, RunAfter, Behind
    <2>2. CASE run' = [run EXCEPT ![r].at = "reload", ![r].unmarked = TRUE]
        <3>1. run'[r] = [run[r] EXCEPT !.at = "reload", !.unmarked = TRUE]
              /\ \A s \in StudyRuns \ {r} : run'[s] = run[s]
            BY <1>0, <2>2
        <3>2. run'[r].at = "reload" /\ run'[r].unmarked
            BY <1>0, <3>1 DEF StudyRun
        <3>. QED
            BY <1>9, <3>1, <3>2
               DEF ReadFresh, RunEffect, Elsewhere, StudyAfterRun, RunAfter, Behind
    <2>. QED
        BY <1>9, <2>1, <2>2 DEF ReadFresh
<1>10. CASE MarkFailed(r)
    <2>1. CASE Goes(r, "reload")
               /\ study' = IF MayFailStudy(r)
                           THEN [study EXCEPT !.status = "failed", !.rev = @ + 1] ELSE study
        <3>1. run'[r] = [run[r] EXCEPT !.at = "reload"]
              /\ \A s \in StudyRuns \ {r} : run'[s] = run[s]
            BY <1>0, <2>1 DEF Goes
        <3>2. run'[r].at = "reload"
            BY <1>0, <3>1 DEF StudyRun
        <3>3. CASE MayFailStudy(r)
            <4>1. study'.status = "failed" /\ study'.report = study.report
                BY <1>0, <2>1, <3>3 DEF StudyRow
            <4>. QED
                BY <1>10, <3>1, <3>2, <3>3, <4>1
                   DEF MarkFailed, MayFailStudy, RunEffect, Elsewhere, StudyAfterRun, RunAfter, Behind
        <3>4. CASE ~MayFailStudy(r)
            <4>1. study' = study /\ study.status # "in_progress"
                BY <1>10, <2>1, <3>4 DEF MarkFailed, MayFailStudy, StudyInv, MarksTheStudy
            <4>. QED
                BY <1>10, <3>1, <3>2, <4>1
                   DEF MarkFailed, RunEffect, Elsewhere, StudyAfterRun, RunAfter, Behind
        <3>. QED
            BY <3>3, <3>4
    <2>2. CASE run' = [run EXCEPT ![r].at = "reload", ![r].unmarked = TRUE] /\ UNCHANGED study
        <3>1. run'[r] = [run[r] EXCEPT !.at = "reload", !.unmarked = TRUE]
              /\ \A s \in StudyRuns \ {r} : run'[s] = run[s]
            BY <1>0, <2>2
        <3>2. run'[r].at = "reload" /\ run'[r].unmarked
            BY <1>0, <3>1 DEF StudyRun
        <3>. QED
            BY <1>10, <2>2, <3>1, <3>2
               DEF MarkFailed, RunEffect, Elsewhere, StudyAfterRun, RunAfter, Behind
    <2>. QED
        BY <1>10, <2>1, <2>2 DEF MarkFailed
<1>11. CASE Reload(r)
    <2>1. run'[r] = Over(r, run[r].unmarked) /\ \A s \in StudyRuns \ {r} : run'[s] = run[s]
        BY <1>0, <1>11 DEF Reload
    <2>2. run'[r].at = "over" /\ run'[r].failed = run[r].failed
          /\ run'[r].unmarked = run[r].unmarked
        BY <2>1 DEF Over, NoRun
    <2>. QED
        BY <1>11, <2>1, <2>2
           DEF Reload, RunEffect, Elsewhere, StudyAfterRun, RunAfter, Behind, StudyInv, Marked
<1>. QED
    BY <1>3, <1>4, <1>5, <1>6, <1>7, <1>8, <1>9, <1>10, <1>11

\* What the step of a run leaves of the invariant.
LEMMA RunKeepsRuns ==
    ASSUME StudyInv, NEW r \in StudyRuns, RunEffect(r)
    PROVE  /\ \A s \in StudyRuns : Behind(s)'
           /\ ReportRestsOnItsRun' /\ ReportedIsOver' /\ WasStarted' /\ Unbegun'
           /\ MarksTheStudy' /\ Marked'
<1> USE DEF StudyInv, RunEffect
<1>0. /\ study.report # 0 => study.report \in StudyRuns
      /\ run[r].at # "none" /\ run'[r].at # "none"
      /\ study.status \in Started
      /\ r # 0
    BY StudyAssumption DEF StudyTypeOK, StudyRuns, RunAfter, WasStarted
<1>1. ASSUME NEW s \in StudyRuns PROVE Behind(s)'
    <2>1. CASE s = r
        BY <2>1
    <2>2. CASE s # r
        <3>1. /\ run'[s] = run[s] /\ books'[s] = books[s]
              /\ \A i \in 1 .. NTrials : trial'[<<s, i>>] = trial[<<s, i>>]
            BY <2>2 DEF Elsewhere
        <3>2. run[s].k \in Nat /\ run[s].k <= NTrials /\ NTrials \in Nat
            BY StudyAssumption DEF StudyTypeOK, StudyRun
        <3>. QED
            BY <3>1, <3>2 DEF Behind
    <2>. QED
        BY <2>1, <2>2
<1>2. study'.status \in Started
    BY <1>0 DEF StudyAfterRun, Started
<1>3. ReportedIsOver'
    BY <1>0 DEF ReportedIsOver, Elsewhere, StudyAfterRun, RunAfter
<1>4. ReportRestsOnItsRun'
    <2> SUFFICES ASSUME NEW t \in Trials, study'.report = t[1]
                 PROVE  trial'[t] = "measured" /\ t \in books'[t[1]]
        BY DEF ReportRestsOnItsRun
    <2>0. t[1] \in StudyRuns /\ t[2] \in 1 .. NTrials /\ t = <<t[1], t[2]>> /\ t[1] # 0
        BY StudyAssumption DEF Trials, StudyRuns
    <2>1. CASE study.report = t[1]
        <3>1. trial[t] = "measured" /\ t \in books[t[1]] /\ run[t[1]].at \in {"reload", "over"}
            BY <2>0, <2>1 DEF ReportRestsOnItsRun, ReportedIsOver
        <3>2. CASE t[1] = r
            BY <3>1, <3>2 DEF RunAfter
        <3>3. CASE t[1] # r
            BY <2>0, <3>1, <3>3 DEF Elsewhere
        <3>. QED
            BY <3>2, <3>3
    <2>2. CASE study.report # t[1]
        <3>1. t[1] = r /\ run[r].at = "complete" /\ UNCHANGED <<trial, books>>
            BY <2>2 DEF StudyAfterRun
        <3>2. trial[<<r, t[2]>>] = "measured" /\ <<r, t[2]>> \in books[r]
            BY <2>0, <3>1 DEF Behind
        <3>. QED
            BY <2>0, <3>1, <3>2
    <2>. QED
        BY <2>1, <2>2
<1>5. WasStarted' /\ Unbegun'
    BY <1>0, <1>2 DEF WasStarted, Unbegun, Elsewhere
<1>6. MarksTheStudy'
    BY DEF MarksTheStudy, Elsewhere, StudyAfterRun, RunAfter
<1>7. Marked'
    BY DEF Marked, Elsewhere, StudyAfterRun, RunAfter
<1>. QED
    BY <1>1, <1>3, <1>4, <1>5, <1>6, <1>7

-----------------------------------------------------------------------------
(* The theorems about runs and reports.                                      *)

LEMMA StudyInitInv == StudyInit => StudyInv
<1> SUFFICES ASSUME StudyInit PROVE StudyInv
    OBVIOUS
<1> USE StudyAssumption DEF StudyInit
<1>0. /\ ClosedEditor \in Editor /\ ClosedView \in View /\ NoRun \in StudyRun
      /\ study \in StudyRow
    BY EmptySeq DEF ClosedEditor, Editor, ClosedView, View, NoRun, StudyRun, RunStage, Status,
                    Started, StudyRow
<1>1. StudyTypeOK
    BY <1>0 DEF StudyTypeOK, StudyRow
<1>2. \A r \in StudyRuns : run[r].at = "none" /\ run[r].page = "none" /\ ~run[r].failed
    BY DEF NoRun
<1>3. \A p \in StudyPages : ~view[p].open /\ Len(editor[p].queue) = 0
    BY DEF ClosedView, ClosedEditor
<1>4. study.report = 0 /\ study.status = "draft"
    OBVIOUS
<1>5. ReportRestsOnItsRun
    BY <1>4 DEF ReportRestsOnItsRun, Trials, StudyRuns
<1>. QED
    BY <1>1, <1>2, <1>3, <1>4, <1>5
       DEF StudyInv, Behind, ReportedIsOver, WasStarted, Unbegun, MarksTheStudy, Marked

PageStep(p) == \/ OpenPage(p) \/ CloseTab(p) \/ Edit(p) \/ Save(p) \/ SaveFails(p)
               \/ PressSeal(p) \/ Seal(p) \/ Delete(p) \/ Sealed(p)
               \/ Resume(p) \/ Interrupt(p) \/ Archive(p)
RunStep(r) == \/ Method(r) \/ CreateTrial(r) \/ SealTrial(r) \/ Measure(r) \/ Report(r)
              \/ Complete(r) \/ ReadFresh(r) \/ MarkFailed(r) \/ Reload(r)

LEMMA StudyNextInv == StudyInv /\ [StudyNext]_studyVars => StudyInv'
<1> SUFFICES ASSUME StudyInv, [StudyNext]_studyVars PROVE StudyInv'
    OBVIOUS
<1>1. ASSUME NEW p \in StudyPages, PageStep(p) PROVE StudyInv'
    <2>1. StudyTypeOK'
        BY <1>1, PageTypes DEF PageStep, StudyInv
    <2>2. PageEffect /\ WasStarted'
        BY <1>1, PageSteps, PageKeepsStarted DEF PageStep
    <2>. QED
        BY <2>1, <2>2, PageKeepsRuns DEF StudyInv
<1>2. ASSUME NEW r \in StudyRuns, RunStep(r) PROVE StudyInv'
    <2>1. StudyTypeOK'
        BY <1>2, RunTypes DEF RunStep, StudyInv
    <2>2. RunEffect(r)
        BY <1>2, RunSteps DEF RunStep
    <2>. QED
        BY <2>1, <2>2, RunKeepsRuns DEF StudyInv
<1>3. CASE UNCHANGED studyVars
    BY <1>3 DEF studyVars, StudyInv, StudyTypeOK, Behind, ReportRestsOnItsRun, ReportedIsOver,
                WasStarted, Unbegun, MarksTheStudy, Marked
<1>. QED
    BY <1>1, <1>2, <1>3 DEF StudyNext, PageStep, RunStep

\* The inductive invariant of a study: what a run under way relies on is taken
\* away by no other run and by no page.
THEOREM StudyInvariance == StudySpec => []StudyInv
    BY StudyInitInv, StudyNextInv, PTL DEF StudySpec

\* Type correctness of the records of study, editors, views and runs.
THEOREM StudyTypes == StudySpec => []StudyTypeOK
<1>1. StudyInv => StudyTypeOK
    BY DEF StudyInv
<1>. QED
    BY <1>1, StudyInvariance, PTL

\* A report that a study has (sealStudy) rests on all trials of its own run,
\* each measured and each listed, for any number of runs beside it.
THEOREM ReportsRestOnTheirRuns == StudySpec => []ReportRestsOnItsRun
<1>1. StudyInv => ReportRestsOnItsRun
    BY DEF StudyInv
<1>. QED
    BY <1>1, StudyInvariance, PTL

\* A failed run leaves its study in progress only if failStudy met a fault or
\* the tab was closed (the rejection handler of startRun).
THEOREM FailedRunsEndStudies == StudySpec => []FailedRunEndsStudy
<1>1. StudyInv => FailedRunEndsStudy
    BY DEF StudyInv, Marked, FailedRunEndsStudy
<1>. QED
    BY <1>1, StudyInvariance, PTL

\* A study is decided once: the report of a study is neither withdrawn nor
\* replaced, and a failed study never gets one (sealStudy, failStudy).
THEOREM StudiesAreDecidedOnce == StudySpec => DecidedOnce
<1> DEFINE Decided == /\ study.report # 0 => /\ study'.report = study.report
                                            /\ study'.def = study.def
                                            /\ study'.status \in {"completed", "archived"}
                      /\ study.status = "failed" => study'.report = 0
<1>1. ASSUME StudyInv, StudyNext PROVE Decided
    <2>0. /\ study.report # 0 => study.status \in {"completed", "archived"}
          /\ study \in StudyRow
        BY <1>1 DEF StudyInv, StudyTypeOK, StudyRow, ReportedIsOver
    <2>1. ASSUME NEW p \in StudyPages, PageStep(p) PROVE Decided
        <3>1. StudyAfterPage
            BY <1>1, <2>1, PageSteps DEF PageStep, PageEffect
        <3>2. study.report # 0 => study'.def = study.def
            <4>1. CASE Save(p)
                BY <2>0, <4>1 DEF Save, MaySave
            <4>2. CASE ~Save(p)
                BY <2>0, <2>1, <4>2
                   DEF PageStep, OpenPage, CloseTab, Edit, SaveFails, PressSeal, Seal, Delete,
                       Sealed, Resume, Interrupt, Archive, StudyRow
            <4>. QED
                BY <4>1, <4>2
        <3>3. study.status = "failed" => study.report = 0
            BY <2>0
        <3>. QED
            BY <2>0, <3>1, <3>2, <3>3 DEF StudyAfterPage
    <2>2. ASSUME NEW r \in StudyRuns, RunStep(r) PROVE Decided
        <3>1. StudyAfterRun(r)
            BY <1>1, <2>2, RunSteps DEF RunStep, RunEffect
        <3>. QED
            BY <2>0, <3>1 DEF StudyAfterRun
    <2>. QED
        BY <1>1, <2>1, <2>2 DEF StudyNext, PageStep, RunStep
<1>2. StudyInv /\ [StudyNext]_studyVars => [Decided]_studyVars
    BY <1>1
<1>. QED
    BY <1>2, StudyInvariance, PTL DEF StudySpec, DecidedOnce

-----------------------------------------------------------------------------
(* The draft that is sealed.                                                 *)

\* An editor that nothing was done to, whatever another page has saved.
LEMMA OtherDrafted ==
    ASSUME DraftInv, NEW o \in StudyPages, editor'[o] = editor[o],
           study'.status = "draft" => study.status = "draft",
           study'.status = "draft" => UNCHANGED study \/ study'.rev = study.rev + 1
    PROVE  Drafted(o)'
<1> USE DEF DraftInv
<1> DEFINE q == editor[o].queue
<1> SUFFICES ASSUME study'.status = "draft", editor'[o].open
             PROVE  /\ editor[o].rev <= study'.rev
                    /\ ~editor[o].missed => LastSaveIsShown(o)' /\ SealIsOfTheShown(o)'
    BY DEF Drafted
<1>0. /\ q \in Seq(Request) /\ Len(q) \in Nat /\ study.rev \in Nat /\ editor[o].rev \in Nat
      /\ \A i \in 1 .. Len(q) : q[i] \in Request /\ q[i].rev \in Nat
    <2>1. editor[o] \in Editor /\ study.rev \in Nat
        BY DEF StudyInv, StudyTypeOK
    <2>2. q \in Seq(Request) /\ editor[o].rev \in Nat
        BY <2>1 DEF Editor
    <2>3. \A i \in 1 .. Len(q) : q[i] \in Request
        BY <2>2, ElementOfSeq
    <2>4. \A x \in Request : x.rev \in Nat
        BY DEF Request
    <2>. QED
        BY <2>1, <2>2, <2>3, <2>4
<1>1. /\ editor[o].rev <= study.rev
      /\ ~editor[o].missed => LastSaveIsShown(o) /\ SealIsOfTheShown(o)
    BY DEF Drafted
<1>2. CASE UNCHANGED study
    BY <1>1, <1>2 DEF LastSaveIsShown, SealIsOfTheShown
<1>3. CASE study'.rev = study.rev + 1
    <2>1. editor[o].rev <= study'.rev /\ editor[o].rev # study'.rev
        BY <1>0, <1>1, <1>3
    <2>2. ~editor[o].missed => LastSaveIsShown(o)'
        BY <1>1, <2>1 DEF LastSaveIsShown
    <2>3. ~editor[o].missed => SealIsOfTheShown(o)'
        <3> SUFFICES ASSUME ~editor[o].missed PROVE SealIsOfTheShown(o)'
            OBVIOUS
        <3>1. q # <<>> /\ q[1].what = "seal" => q[1].rev <= editor[o].rev /\ q[1].rev \in Nat
            BY <1>0, <1>1, EmptySeq DEF SealIsOfTheShown
        <3>. QED
            BY <1>0, <1>1, <2>1, <3>1 DEF SealIsOfTheShown
    <2>. QED
        BY <2>1, <2>2, <2>3
<1>. QED
    BY <1>2, <1>3

\* A request is served, and the rest of the queue moves up.
LEMMA ServedDrafted ==
    ASSUME DraftInv, NEW p \in StudyPages, editor[p].open, study.status = "draft",
           editor[p].queue # <<>>,
           editor'[p].queue = Tail(editor[p].queue), editor'[p].def = editor[p].def,
           editor'[p].missed = editor[p].missed, editor'[p].rev \in Nat,
           editor[p].rev <= editor'[p].rev, editor'[p].rev <= study'.rev,
           LET h == editor[p].queue[1] IN
              \/ /\ h.what = "save" /\ study'.def = h.def /\ study'.rev = study.rev + 1
              \/ /\ h.what = "save" /\ editor[p].rev < study.rev
                 /\ editor'[p].rev = editor[p].rev /\ UNCHANGED study
              \/ /\ h.what = "seal" /\ editor'[p].rev = editor[p].rev /\ UNCHANGED study
    PROVE  Drafted(p)'
<1> USE DEF DraftInv
<1> SUFFICES ASSUME ~editor[p].missed PROVE LastSaveIsShown(p)' /\ SealIsOfTheShown(p)'
    BY DEF Drafted
<1> DEFINE q == editor[p].queue
           t == editor'[p].queue
<1>0. /\ q \in Seq(Request) /\ Len(q) \in Nat \ {0} /\ study.rev \in Nat
      /\ editor[p].rev \in Nat
      /\ \A i \in 1 .. Len(q) : q[i].rev \in Nat
      /\ Len(t) = Len(q) - 1 /\ \A i \in 1 .. Len(t) : t[i] = q[i + 1]
      /\ t \in Seq(Request)
    <2>1. editor[p] \in Editor /\ study.rev \in Nat
        BY DEF StudyInv, StudyTypeOK
    <2>2. q \in Seq(Request) /\ editor[p].rev \in Nat
        BY <2>1 DEF Editor
    <2>3. \A i \in 1 .. Len(q) : q[i] \in Request
        BY <2>2, ElementOfSeq
    <2>4. \A x \in Request : x.rev \in Nat
        BY DEF Request
    <2>. QED
        BY <2>1, <2>2, <2>3, <2>4, ServedQueue
<1>1. editor[p].rev <= study.rev /\ LastSaveIsShown(p) /\ SealIsOfTheShown(p)
    BY DEF Drafted
<1> HIDE DEF t
<1>2. \A i \in 1 .. Len(q) : q[i].what = "save" =>
         (\E j \in i + 1 .. Len(q) : q[j].what = "save") \/ q[i].def = editor[p].def
    BY <1>1 DEF LastSaveIsShown
<1>3. \A i \in 1 .. Len(q) : q[i].what = "seal" =>
         (i = 1 \/ (i = 2 /\ q[1].what = "save")) /\ q[i].rev <= editor[p].rev
    BY <1>1 DEF SealIsOfTheShown
<1>4. \A i \in 1 .. Len(t) : t[i].what = "save" =>
         (\E j \in i + 1 .. Len(t) : t[j].what = "save") \/ t[i].def = editor[p].def
    <2> SUFFICES ASSUME NEW i \in 1 .. Len(t), t[i].what = "save", t[i].def # editor[p].def
                 PROVE  \E j \in i + 1 .. Len(t) : t[j].what = "save"
        OBVIOUS
    <2>1. PICK j \in i + 2 .. Len(q) : q[j].what = "save"
        BY <1>0, <1>2
    <2>2. j - 1 \in i + 1 .. Len(t) /\ t[j - 1] = q[j]
        BY <1>0
    <2>. QED
        BY <2>1, <2>2
<1>5. ASSUME \A i \in 1 .. Len(t) : t[i].what # "save", editor'[p].rev = study'.rev
      PROVE  study'.def = editor[p].def
    <2>1. \A i \in 2 .. Len(q) : q[i].what # "save"
        <3> SUFFICES ASSUME NEW i \in 2 .. Len(q) PROVE q[i].what # "save"
            OBVIOUS
        <3>1. i - 1 \in 1 .. Len(t) /\ t[i - 1] = q[i]
            BY <1>0
        <3>. QED
            BY <1>5, <3>1
    <2>2. CASE q[1].what = "save" /\ study'.def = q[1].def
        <3>1. 1 \in 1 .. Len(q) /\ \A j \in 1 + 1 .. Len(q) : q[j].what # "save"
            BY <1>0, <2>1
        <3>2. q[1].def = editor[p].def
            BY <1>2, <2>2, <3>1
        <3>. QED
            BY <2>2, <3>2
    <2>3. CASE q[1].what = "save" /\ editor[p].rev < study.rev
               /\ editor'[p].rev = editor[p].rev /\ UNCHANGED study
        <3>1. study.rev = editor[p].rev
            BY <1>5, <2>3
        <3>2. study.rev \in Nat /\ editor[p].rev < study.rev
            BY <1>0, <2>3
        <3>. QED
            BY <3>1, <3>2
    <2>4. CASE q[1].what = "seal" /\ editor'[p].rev = editor[p].rev /\ UNCHANGED study
        <3>1. \A i \in 1 .. Len(q) : q[i].what # "save"
            BY <1>0, <2>1, <2>4
        <3>. QED
            BY <1>1, <1>5, <2>4, <3>1 DEF LastSaveIsShown
    <2>. QED
        BY <2>2, <2>3, <2>4
<1>6. ASSUME NEW i \in 1 .. Len(t), t[i].what = "seal"
      PROVE  /\ i = 1 /\ t[i].rev <= editor[p].rev /\ t[i].rev \in Nat
             /\ q[1].what = "save"
    BY <1>0, <1>3, <1>6
<1>7. ASSUME t # <<>>, t[1].what = "seal", t[1].rev = study'.rev PROVE FALSE
    <2>1. 1 \in 1 .. Len(t)
        BY <1>0, <1>7, EmptySeq
    <2>2. t[1].rev <= editor[p].rev /\ q[1].what = "save"
        BY <1>6, <1>7, <2>1
    <2>. QED
        BY <1>0, <1>1, <1>7, <2>2
<1>8. LastSaveIsShown(p)'
    BY <1>4, <1>5 DEF LastSaveIsShown, t
<1>9. SealIsOfTheShown(p)'
    <2>1. \A i \in 1 .. Len(t) : t[i].what = "seal" =>
             (i = 1 \/ (i = 2 /\ t[1].what = "save")) /\ t[i].rev <= editor'[p].rev
        BY <1>0, <1>6
    <2>. QED
        BY <1>7, <2>1 DEF SealIsOfTheShown, t
<1>. QED
    BY <1>8, <1>9

\* An edit: the draft that is shown, and its save behind the others.
LEMMA EditDrafted ==
    ASSUME DraftInv, NEW p \in StudyPages, Edit(p), study'.status = "draft"
    PROVE  Drafted(p)'
<1> USE DEF DraftInv
<1> DEFINE q == editor[p].queue
           x == [what |-> "save", def |-> edits + 1, rev |-> 0]
<1>0. /\ q \in Seq(Request) /\ Len(q) \in Nat /\ editor[p] \in Editor
      /\ editor \in [StudyPages -> Editor]
    BY DEF StudyInv, StudyTypeOK, Editor
<1>1. editor'[p] = [editor[p] EXCEPT !.def = edits + 1, !.queue = Append(q, x)]
    BY <1>0 DEF Edit
<1>2. /\ editor'[p].queue = Append(q, x) /\ editor'[p].def = edits + 1
      /\ editor'[p].rev = editor[p].rev /\ editor'[p].missed = editor[p].missed
    BY <1>0, <1>1 DEF Editor
<1>3. x \in Request /\ x.what = "save" /\ x.def = edits + 1
    <2>1. edits + 1 \in 0 .. MaxEdits
        BY StudyAssumption DEF Edit, StudyInv, StudyTypeOK
    <2>. QED
        BY <2>1 DEF Request
<1> DEFINE t == Append(q, x)
<1>4. /\ Len(t) = Len(q) + 1 /\ t[Len(q) + 1] = x
      /\ \A i \in 1 .. Len(q) : t[i] = q[i]
    <2> HIDE DEF x
    <2>. QED
        BY <1>0, <1>3, GrownQueue
<1>5. /\ \A i \in 1 .. Len(q) : q[i].what = "save"
      /\ editor[p].open /\ study' = study
    BY DEF Edit
<1> HIDE DEF t, x
<1>6. \A i \in 1 .. Len(t) : t[i].what = "save"
    BY <1>0, <1>3, <1>4, <1>5
<1>7. \A i \in 1 .. Len(t) :
         (\E j \in i + 1 .. Len(t) : t[j].what = "save") \/ t[i].def = edits + 1
    <2> SUFFICES ASSUME NEW i \in 1 .. Len(t), i # Len(t)
                 PROVE  \E j \in i + 1 .. Len(t) : t[j].what = "save"
        BY <1>0, <1>3, <1>4
    <2>. QED
        BY <1>0, <1>4, <1>6
<1>8. 1 \in 1 .. Len(t) /\ t[1].what = "save"
    BY <1>0, <1>4, <1>6
<1>9. LastSaveIsShown(p)'
    BY <1>2, <1>6, <1>7, <1>8 DEF LastSaveIsShown, t
<1>10. SealIsOfTheShown(p)'
    BY <1>2, <1>6, <1>8 DEF SealIsOfTheShown, t
<1>11. editor[p].rev <= study.rev
    BY <1>5 DEF Drafted
<1>. QED
    BY <1>2, <1>5, <1>9, <1>10, <1>11 DEF Drafted

\* A question to seal: with the revision of now, behind at most one save.
LEMMA PressDrafted ==
    ASSUME DraftInv, NEW p \in StudyPages, PressSeal(p), study'.status = "draft"
    PROVE  Drafted(p)'
<1> USE DEF DraftInv
<1> DEFINE q == editor[p].queue
           ask == [what |-> "seal", def |-> 0, rev |-> editor[p].rev]
           t == IF q = <<>> THEN <<ask>> ELSE <<Head(q), ask>> \o Tail(q)
<1>0. /\ q \in Seq(Request) /\ Len(q) \in Nat /\ editor[p] \in Editor
      /\ editor \in [StudyPages -> Editor]
    BY DEF StudyInv, StudyTypeOK, Editor
<1>1. /\ editor'[p].queue = t /\ editor'[p].def = editor[p].def
      /\ editor'[p].rev = editor[p].rev /\ editor'[p].missed = editor[p].missed
    BY <1>0 DEF PressSeal, Editor
<1>2. /\ ask \in Request /\ ask.what = "seal" /\ ask.rev = editor[p].rev
      /\ editor[p].rev \in Nat
    BY StudyAssumption, <1>0 DEF Request, Editor
<1>3. /\ \A i \in 1 .. Len(q) : q[i].what = "save"
      /\ editor[p].open /\ study' = study
    BY DEF PressSeal
<1> HIDE DEF ask
<1>4. editor[p].rev <= study.rev
    BY <1>3 DEF Drafted
<1> SUFFICES ASSUME ~editor[p].missed PROVE LastSaveIsShown(p)' /\ SealIsOfTheShown(p)'
    BY <1>1, <1>3, <1>4 DEF Drafted
<1>5. LastSaveIsShown(p)
    BY <1>3 DEF Drafted
<1>6. CASE q = <<>>
    <2>1. Len(t) = 1 /\ t[1] = ask
        BY <1>2, <1>6, GrownQueue
    <2>2. editor[p].rev = study.rev => study.def = editor[p].def
        BY <1>5, <1>6, EmptySeq DEF LastSaveIsShown
    <2> HIDE DEF t
    <2>3. \A i \in 1 .. Len(t) : i = 1 /\ t[i].what = "seal" /\ t[i].rev = editor[p].rev
        BY <1>2, <2>1
    <2>. QED
        BY <1>1, <1>2, <1>3, <2>2, <2>3, <2>1 DEF LastSaveIsShown, SealIsOfTheShown
<1>7. CASE q # <<>>
    <2>1. /\ Len(t) = Len(q) + 1 /\ t[1] = q[1] /\ t[2] = ask
          /\ \A i \in 3 .. Len(t) : t[i] = q[i - 1]
          /\ Len(q) \in Nat \ {0}
        BY <1>0, <1>2, <1>7, AskedQueue, ServedQueue
    <2> HIDE DEF t
    <2>2. \A i \in 1 .. Len(t) : i = 2 \/ t[i].what = "save"
        BY <1>0, <1>3, <2>1
    <2>3. \A i \in 1 .. Len(t) : t[i].what = "save" =>
             (\E j \in i + 1 .. Len(t) : t[j].what = "save") \/ t[i].def = editor[p].def
        <3> SUFFICES ASSUME NEW i \in 1 .. Len(t), t[i].what = "save",
                            t[i].def # editor[p].def
                     PROVE  \E j \in i + 1 .. Len(t) : t[j].what = "save"
            OBVIOUS
        <3>1. i # 2
            BY <1>2, <2>1
        <3> DEFINE n == IF i = 1 THEN 1 ELSE i - 1
        <3>2. n \in 1 .. Len(q) /\ t[i] = q[n] /\ q[n].what = "save"
            BY <1>3, <2>1, <3>1
        <3>3. PICK j \in n + 1 .. Len(q) : q[j].what = "save"
            BY <1>5, <3>2 DEF LastSaveIsShown
        <3>4. j + 1 \in i + 1 .. Len(t) /\ j + 1 \in 3 .. Len(t)
            BY <2>1, <3>1, <3>2, <3>3
        <3>5. t[j + 1] = q[j]
            BY <2>1, <3>4
        <3>. QED
            BY <3>3, <3>4, <3>5
    <2>4. 1 \in 1 .. Len(t) /\ t[1].what = "save"
        BY <1>3, <2>1
    <2>5. LastSaveIsShown(p)'
        BY <1>1, <1>3, <2>3, <2>4 DEF LastSaveIsShown
    <2>6. SealIsOfTheShown(p)'
        BY <1>1, <1>2, <1>3, <2>1, <2>2, <2>4 DEF SealIsOfTheShown
    <2>. QED
        BY <2>5, <2>6
<1>. QED
    BY <1>6, <1>7

LEMMA DraftNextInv == DraftInv /\ [StudyNext]_studyVars => DraftInv'
<1> SUFFICES ASSUME DraftInv, [StudyNext]_studyVars, NEW o \in StudyPages PROVE Drafted(o)'
    BY StudyNextInv DEF DraftInv
<1> USE DEF DraftInv
<1>0. /\ study \in StudyRow /\ study.rev \in Nat /\ editor \in [StudyPages -> Editor]
      /\ editor[o] \in Editor /\ editor[o].queue \in Seq(Request) /\ editor[o].rev \in Nat
    <2>1. study \in StudyRow /\ editor \in [StudyPages -> Editor]
        BY DEF StudyInv, StudyTypeOK, StudyRow
    <2>. QED
        BY <2>1 DEF StudyRow, Editor
<1>1. CASE UNCHANGED studyVars
    BY <1>1 DEF studyVars, DraftInv, Drafted, LastSaveIsShown, SealIsOfTheShown
<1>2. ASSUME NEW r \in StudyRuns, RunStep(r) PROVE Drafted(o)'
    <2>1. RunEffect(r)
        BY <1>2, RunSteps DEF RunStep
    <2>2. study.status \in Started
        BY <2>1 DEF RunEffect, RunAfter, StudyInv, WasStarted
    <2>. QED
        BY <2>1, <2>2 DEF RunEffect, StudyAfterRun, Started, Drafted
<1>3. ASSUME NEW p \in StudyPages, PageStep(p) PROVE Drafted(o)'
    <2> SUFFICES ASSUME study'.status = "draft", editor'[o].open PROVE Drafted(o)'
        BY DEF Drafted
    <2>1. study.status = "draft"
        <3>1. PageEffect
            BY <1>3, PageSteps DEF PageStep
        <3>. QED
            BY <3>1 DEF PageEffect, StudyAfterPage
    <2>2. UNCHANGED study \/ (Save(p) /\ study'.rev = study.rev + 1)
        <3>1. CASE Save(p)
            BY <1>0, <3>1 DEF Save, StudyRow
        <3>2. CASE Seal(p)
            <4>1. MaySeal(Head(editor[p].queue).rev) => study'.status = "in_progress"
                BY <1>0, <3>2 DEF Seal, StudyRow
            <4>. QED
                BY <3>2, <4>1 DEF Seal
        <3>3. CASE Delete(p)
            BY <1>0, <3>3 DEF Delete, StudyRow
        <3>4. CASE Archive(p)
            BY <2>1, <3>4 DEF Archive, Started
        <3>. QED
            BY <1>3, <3>1, <3>2, <3>3, <3>4
               DEF PageStep, OpenPage, CloseTab, Edit, SaveFails, PressSeal, Sealed, Resume,
                   Interrupt
    <2>3. CASE o # p
        <3>1. editor'[o] = editor[o]
            BY <1>3, <2>3, QueueEffect DEF PageStep
        <3>. QED
            BY <2>1, <2>2, <3>1, OtherDrafted
    <2>4. CASE o = p /\ editor' = editor /\ UNCHANGED study
        BY <2>1, <2>4, OtherDrafted
    <2>5. CASE o = p /\ OpenPage(p)
        <3>1. editor'[p] = [ClosedEditor EXCEPT !.open = TRUE, !.def = study.def, !.rev = study.rev]
              /\ UNCHANGED study
            BY <1>0, <2>1, <2>5 DEF OpenPage
        <3>2. /\ editor'[p].queue = <<>> /\ editor'[p].def = study.def
              /\ editor'[p].rev = study.rev
            BY <3>1 DEF ClosedEditor
        <3>. QED
            BY <1>0, <2>5, <3>1, <3>2, EmptySeq DEF Drafted, LastSaveIsShown, SealIsOfTheShown
    <2>6. CASE o = p /\ (CloseTab(p) \/ Delete(p) \/ Sealed(p))
        <3>1. editor' = [editor EXCEPT ![p] = ClosedEditor]
            BY <2>6 DEF CloseTab, Delete, Sealed
        <3>. QED
            BY <1>0, <2>6, <3>1 DEF ClosedEditor
    <2>7. CASE o = p /\ Save(p)
        <3>1. /\ editor[p].open /\ editor[p].queue # <<>>
              /\ editor[p].queue[1].what = "save" /\ Head(editor[p].queue) = editor[p].queue[1]
            BY <1>0, <2>7, ServedQueue DEF Save, NextRequest
        <3>2. /\ Served(p).queue = Tail(editor[p].queue) /\ Served(p).def = editor[p].def
              /\ Served(p).missed = editor[p].missed /\ Served(p).rev = editor[p].rev
              /\ Served(p) \in Editor
            BY <1>0, <2>7, <3>1, ServedQueue DEF Served, Editor
        <3>3. editor[p].rev <= study.rev
            BY <2>1, <2>7, <3>1 DEF Drafted
        <3>4. CASE MaySave(p)
            <4>1. /\ study'.def = editor[p].queue[1].def /\ study'.rev = study.rev + 1
                  /\ editor[p].rev = study.rev
                BY <1>0, <2>7, <3>1, <3>4 DEF Save, MaySave, StudyRow
            <4>2. editor'[p] = [Served(p) EXCEPT !.rev = study.rev + 1]
                BY <1>0, <2>7, <3>4 DEF Save
            <4>3. /\ editor'[p].queue = Tail(editor[p].queue) /\ editor'[p].def = editor[p].def
                  /\ editor'[p].missed = editor[p].missed /\ editor'[p].rev = study.rev + 1
                BY <3>2, <4>2 DEF Editor
            <4>. QED
                BY <1>0, <2>1, <2>7, <3>1, <4>1, <4>3, ServedDrafted
        <3>5. CASE ~MaySave(p)
            <4>1. editor[p].rev < study.rev /\ UNCHANGED study
                BY <1>0, <2>1, <2>7, <3>3, <3>5 DEF Save, MaySave
            <4>2. editor'[p] = Served(p)
                BY <1>0, <2>7, <3>5 DEF Save
            <4>. QED
                BY <1>0, <2>1, <2>7, <3>1, <3>2, <3>3, <4>1, <4>2, ServedDrafted
        <3>. QED
            BY <3>4, <3>5
    <2>8. CASE o = p /\ SaveFails(p)
        <3>1. editor[p].open /\ editor[p].queue # <<>> /\ UNCHANGED study
            BY <2>8 DEF SaveFails, NextRequest
        <3>2. editor'[p] = [Served(p) EXCEPT !.missed = TRUE]
            BY <1>0, <2>8 DEF SaveFails
        <3>3. editor'[p].missed /\ editor'[p].rev = editor[p].rev
            BY <1>0, <3>2 DEF Served, Editor
        <3>4. editor[p].rev <= study.rev
            BY <2>1, <2>8, <3>1 DEF Drafted
        <3>. QED
            BY <2>8, <3>1, <3>3, <3>4 DEF Drafted
    <2>9. CASE o = p /\ Seal(p)
        <3>1. /\ editor[p].open /\ editor[p].queue # <<>>
              /\ editor[p].queue[1].what = "seal" /\ Head(editor[p].queue) = editor[p].queue[1]
            BY <1>0, <2>9, ServedQueue DEF Seal, NextRequest
        <3>2. /\ Served(p).queue = Tail(editor[p].queue) /\ Served(p).def = editor[p].def
              /\ Served(p).missed = editor[p].missed /\ Served(p).rev = editor[p].rev
            BY <1>0, <3>1 DEF Served, Editor
        <3>3. ~MaySeal(Head(editor[p].queue).rev)
            <4>1. MaySeal(Head(editor[p].queue).rev) => study'.status = "in_progress"
                BY <1>0, <2>9 DEF Seal, StudyRow
            <4>. QED
                BY <4>1
        <3>4. UNCHANGED study /\ editor'[p] = Served(p)
            BY <1>0, <2>9, <3>3 DEF Seal
        <3>5. editor[p].rev <= study.rev
            BY <2>1, <2>9, <3>1 DEF Drafted
        <3>. QED
            BY <1>0, <2>1, <2>9, <3>1, <3>2, <3>4, <3>5, ServedDrafted
    <2>10. CASE o = p /\ Edit(p)
        BY <2>10, EditDrafted
    <2>11. CASE o = p /\ PressSeal(p)
        BY <2>11, PressDrafted
    <2>12. CASE o = p /\ (Resume(p) \/ Interrupt(p) \/ Archive(p))
        <3>1. editor' = editor
            BY <2>12 DEF Resume, Interrupt, Archive
        <3>2. UNCHANGED study
            BY <2>1, <2>12 DEF Resume, Interrupt, Archive, Started
        <3>. QED
            BY <2>1, <2>2, <2>12, <3>1, <3>2, OtherDrafted
    <2>. QED
        BY <1>3, <2>3, <2>5, <2>6, <2>7, <2>8, <2>9, <2>10, <2>11, <2>12 DEF PageStep
<1>. QED
    BY <1>1, <1>2, <1>3 DEF StudyNext, PageStep, RunStep

\* What startStudy seals is the draft its page shows, unless a save of that page
\* met a storage fault: never one that another page has saved meanwhile.
THEOREM SealsAreOfTheShown == StudySpec => SealedIsShown
<1> DEFINE Shown == \A p \in StudyPages : Seal(p) /\ study'.status # study.status =>
                       study'.def = editor[p].def \/ editor[p].missed
<1>1. StudyInit => DraftInv
    <2> SUFFICES ASSUME StudyInit, NEW p \in StudyPages PROVE Drafted(p)
        BY StudyInitInv DEF DraftInv
    <2>1. ~editor[p].open
        BY DEF StudyInit, ClosedEditor
    <2>. QED
        BY <2>1 DEF Drafted
<1>2. ASSUME DraftInv, NEW p \in StudyPages, Seal(p), study'.status # study.status,
             ~editor[p].missed
      PROVE  study'.def = editor[p].def
    <2>0. study \in StudyRow /\ editor[p].queue \in Seq(Request)
        BY <1>2 DEF DraftInv, StudyInv, StudyTypeOK, StudyRow, Editor
    <2>1. /\ editor[p].open /\ editor[p].queue # <<>>
          /\ editor[p].queue[1].what = "seal" /\ Head(editor[p].queue) = editor[p].queue[1]
        BY <1>2, <2>0, ServedQueue DEF Seal, NextRequest
    <2>2. MaySeal(Head(editor[p].queue).rev)
        BY <1>2 DEF Seal
    <2>3. study'.def = study.def
        BY <1>2, <2>0, <2>2 DEF Seal, StudyRow
    <2>4. SealIsOfTheShown(p)
        BY <1>2, <2>1, <2>2 DEF MaySeal, DraftInv, Drafted
    <2>. QED
        BY <2>1, <2>2, <2>3, <2>4 DEF MaySeal, SealIsOfTheShown
<1>3. DraftInv /\ [StudyNext]_studyVars => [Shown]_studyVars
    BY <1>2
<1>. QED
    BY <1>1, <1>3, DraftNextInv, PTL DEF StudySpec, SealedIsShown
=============================================================================
