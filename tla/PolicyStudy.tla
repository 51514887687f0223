---------------------------- MODULE PolicyStudy ----------------------------
(* A policy study of the Lab: its draft in the editor, the press that seals  *)
(* and starts it, its runs and its report (study-repository.ts,              *)
(* policy-study-adapter.ts, PolicyStudyEditor.tsx, PolicyStudyPage.tsx).  A  *)
(* run works in memory until all its models have answered and then writes    *)
(* its trials one by one.  Nothing leases a study: a second page, or the     *)
(* Resume button, starts a second run beside the first.                      *)
EXTENDS Integers, Sequences

CONSTANTS StudyPages,   \* tabs that may show the study
          NTrials,      \* trials of a run
          MaxEdits,     \* bound: edits of the draft
          MaxStudyRuns, \* bound: runs started
          MaxSlips      \* bound: storage faults

ASSUME StudyAssumption == /\ "none" \notin StudyPages
                          /\ NTrials \in Nat \ {0}
                          /\ {MaxEdits, MaxStudyRuns, MaxSlips} \subseteq Nat

VARIABLES study,   \* the row of the study
          trial,   \* the trials of each run, as stored
          books,   \* per run: the trials its stored playbook rests on
          edits,   \* edits so far; a definition is named by its edit
          editor,  \* per page: the draft as it is shown, and its saves
          view,    \* per page: the study as it is shown once started
          run,     \* per run: how far it is
          slips    \* storage faults so far

studyVars == <<study, trial, books, edits, editor, view, run, slips>>

StudyRuns == 1 .. MaxStudyRuns
Trials    == StudyRuns \X (1 .. NTrials)
Started   == {"in_progress", "completed", "failed", "archived"}
RunStage  == {"none", "method", "create", "seal", "measure", "report", "complete",
              "failing", "marking", "reload", "over"}

ClosedEditor == [open |-> FALSE, def |-> 0, rev |-> 0, queue |-> <<>>, missed |-> FALSE]
ClosedView   == [open |-> FALSE, status |-> "draft", rev |-> 0, phase |-> "idle"]
NoRun        == [at |-> "none", page |-> "none", shown |-> FALSE, status |-> "draft",
                 rev |-> 0, k |-> 1, failed |-> FALSE, unmarked |-> FALSE]

(* createStudy has stored the draft.                                         *)
StudyInit ==
    /\ study = [status |-> "draft", rev |-> 0, def |-> 0, report |-> 0]
    /\ trial = [t \in Trials |-> "none"]
    /\ books = [r \in StudyRuns |-> {}]
    /\ edits = 0
    /\ editor = [p \in StudyPages |-> ClosedEditor]
    /\ view = [p \in StudyPages |-> ClosedView]
    /\ run = [r \in StudyRuns |-> NoRun]
    /\ slips = 0

Slips == slips < MaxSlips /\ slips' = slips + 1

(* What getStudy returns, as the page keeps it.                              *)
Loaded(phase) == [open |-> TRUE, status |-> study.status, rev |-> study.rev,
                  phase |-> phase]

-----------------------------------------------------------------------------
(* The page and the draft.                                                   *)

(* The page is opened, or left and opened again in the same tab: a run under *)
(* way goes on, but this page does not hear of it.  (Requests that outlive   *)
(* their editor are those of another page.)                                  *)
OpenPage(p) ==
    /\ study.status # "deleted"
    /\ editor[p].queue = <<>>
    /\ IF study.status = "draft"
       THEN /\ editor' = [editor EXCEPT ![p] = [ClosedEditor EXCEPT
                 !.open = TRUE, !.def = study.def, !.rev = study.rev]]
            /\ view' = [view EXCEPT ![p] = ClosedView]
       ELSE /\ editor' = [editor EXCEPT ![p] = ClosedEditor]
            /\ view' = [view EXCEPT ![p] = Loaded("idle")]
    /\ run' = [r \in StudyRuns |->
                 IF run[r].page = p THEN [run[r] EXCEPT !.shown = FALSE] ELSE run[r]]
    /\ UNCHANGED <<study, trial, books, edits, slips>>

(* What remains of a run: whether it failed, and left the study unmarked.    *)
Over(r, unmarked) == [NoRun EXCEPT !.at = "over", !.failed = run[r].failed,
                                   !.unmarked = unmarked]

(* The tab is closed, and its runs are gone.                                 *)
CloseTab(p) ==
    /\ editor[p].open \/ view[p].open
    /\ editor' = [editor EXCEPT ![p] = ClosedEditor]
    /\ view' = [view EXCEPT ![p] = ClosedView]
    /\ run' = [r \in StudyRuns |->
                 IF run[r].page = p THEN Over(r, TRUE) ELSE run[r]]
    /\ UNCHANGED <<study, trial, books, edits, slips>>

(* applyChange: shown at once, its save chained after the saves before it.   *)
Edit(p) ==
    /\ editor[p].open /\ edits < MaxEdits
    /\ \A i \in 1 .. Len(editor[p].queue) : editor[p].queue[i].what = "save"
    /\ edits' = edits + 1
    /\ editor' = [editor EXCEPT
         ![p].def = edits + 1,
         ![p].queue = Append(@, [what |-> "save", def |-> edits + 1, rev |-> 0])]
    /\ UNCHANGED <<study, trial, books, view, run, slips>>

NextRequest(p, what) == editor[p].open /\ editor[p].queue # <<>>
                        /\ Head(editor[p].queue).what = what
Served(p) == [editor[p] EXCEPT !.queue = Tail(@)]

(* updateDraftStudy from the revision that the last save returned.           *)
MaySave(p) == study.status = "draft" /\ study.rev = editor[p].rev

Save(p) ==
    /\ NextRequest(p, "save")
    /\ IF MaySave(p)
       THEN /\ study' = [study EXCEPT !.def = Head(editor[p].queue).def, !.rev = @ + 1]
            /\ editor' = [editor EXCEPT ![p] = [Served(p) EXCEPT !.rev = study.rev + 1]]
       ELSE editor' = [editor EXCEPT ![p] = Served(p)] /\ UNCHANGED study
    /\ UNCHANGED <<trial, books, edits, view, run, slips>>

SaveFails(p) ==
    /\ NextRequest(p, "save")
    /\ Slips
    /\ editor' = [editor EXCEPT ![p] = [Served(p) EXCEPT !.missed = TRUE]]
    /\ UNCHANGED <<study, trial, books, edits, view, run>>

(* handleConfirmSeal asks with the revision known by now.  A save that is    *)
(* being written comes before it, one still waiting in the chain after it.   *)
PressSeal(p) ==
    /\ editor[p].open
    /\ LET q == editor[p].queue
           ask == [what |-> "seal", def |-> 0, rev |-> editor[p].rev]
       IN /\ \A i \in 1 .. Len(q) : q[i].what = "save"
          /\ editor' = [editor EXCEPT ![p].queue =
               IF q = <<>> THEN <<ask>> ELSE <<Head(q), ask>> \o Tail(q)]
    /\ UNCHANGED <<study, trial, books, edits, view, run, slips>>

\* Mutant: a draft is sealed without a look at its revision.
MaySealAnyRevision(rev) == study.status = "draft"

(* startStudy; the read and onSealed follow.                                 *)
MaySeal(rev) == study.status = "draft" /\ study.rev = rev

Seal(p) ==
    /\ NextRequest(p, "seal")
    /\ IF MaySeal(Head(editor[p].queue).rev)
       THEN /\ study' = [study EXCEPT !.status = "in_progress", !.rev = @ + 1]
            /\ editor' = [editor EXCEPT ![p].queue =
                 <<[what |-> "sealed", def |-> 0, rev |-> 0]>>]
       ELSE editor' = [editor EXCEPT ![p] = Served(p)] /\ UNCHANGED study
    /\ UNCHANGED <<trial, books, edits, view, run, slips>>

Delete(p) ==
    /\ editor[p].open /\ editor[p].queue = <<>>
    /\ MaySave(p)
    /\ study' = [study EXCEPT !.status = "deleted"]
    /\ editor' = [editor EXCEPT ![p] = ClosedEditor]
    /\ UNCHANGED <<trial, books, edits, view, run, slips>>

(* startRun with the study as the page knows it.                             *)
StartRun(p, row) ==
    \E r \in StudyRuns :
        /\ run[r].at = "none" /\ \A q \in 1 .. r - 1 : run[q].at # "none"
        /\ run' = [run EXCEPT ![r] = [NoRun EXCEPT
             !.at = "method", !.page = p, !.shown = TRUE, !.status = row.status,
             !.rev = row.rev]]

Sealed(p) ==
    /\ NextRequest(p, "sealed")
    /\ StartRun(p, study)
    /\ editor' = [editor EXCEPT ![p] = ClosedEditor]
    /\ view' = [view EXCEPT ![p] = Loaded("running")]
    /\ UNCHANGED <<study, trial, books, edits, slips>>

(* The buttons of a started study.                                           *)
ShowsInterrupted(p) == /\ view[p].phase # "running"
                       /\ view[p].phase = "interrupted" \/ view[p].status = "in_progress"

Resume(p) ==
    /\ view[p].open /\ ShowsInterrupted(p)
    /\ StartRun(p, view[p])
    /\ view' = [view EXCEPT ![p].phase = "running"]
    /\ UNCHANGED <<study, trial, books, edits, editor, slips>>

(* Nothing is stopped by it.                                                 *)
Interrupt(p) ==
    /\ view[p].phase = "running"
    /\ view' = [view EXCEPT ![p].phase = "interrupted"]
    /\ UNCHANGED <<study, trial, books, edits, editor, run, slips>>

Archive(p) ==
    /\ view[p].open /\ view[p].status = "failed"
    /\ study.rev = view[p].rev /\ study.status \in Started \ {"archived"}
    /\ study' = [study EXCEPT !.status = "archived", !.rev = @ + 1]
    /\ view' = [view EXCEPT ![p].status = "archived", ![p].rev = study.rev + 1]
    /\ UNCHANGED <<trial, books, edits, editor, run, slips>>

-----------------------------------------------------------------------------
(* A run: runExplorationStudy, and what startRun does when it has settled.   *)

Goes(r, s) == run' = [run EXCEPT ![r].at = s]

(* The page that started it, if it is still there, says so at once.          *)
Settles(r, s, failed) ==
    /\ run' = [run EXCEPT ![r].at = s, ![r].failed = failed]
    /\ view' = IF run[r].shown THEN [view EXCEPT ![run[r].page].phase = "idle"] ELSE view

Fails(r) == Settles(r, "failing", TRUE)

(* All stages, in memory; a provider or the checks before may fail.  What is *)
(* not in progress is started first, which only a draft would allow.         *)
Method(r) ==
    /\ run[r].at = "method"
    /\ \/ run[r].status = "in_progress" /\ Goes(r, "create") /\ UNCHANGED view
       \/ Fails(r)
    /\ UNCHANGED <<study, trial, books, edits, editor, slips>>

StoreTrial(r, s) == trial' = [trial EXCEPT ![<<r, run[r].k>>] = s]

CreateTrial(r) ==
    /\ run[r].at = "create"
    /\ \/ /\ study.status = "in_progress"
          /\ StoreTrial(r, "open") /\ Goes(r, "seal")
          /\ UNCHANGED <<view, slips>>
       \/ /\ study.status = "in_progress" => Slips
          /\ study.status # "in_progress" => UNCHANGED slips
          /\ Fails(r) /\ UNCHANGED trial
    /\ UNCHANGED <<study, books, edits, editor>>

(* sealTrial looks at the trial only, whatever became of the study.          *)
SealTrial(r) ==
    /\ run[r].at = "seal"
    /\ \/ StoreTrial(r, "sealed") /\ Goes(r, "measure") /\ UNCHANGED <<view, slips>>
       \/ Slips /\ Fails(r) /\ UNCHANGED trial
    /\ UNCHANGED <<study, books, edits, editor>>

\* Mutant: the lineage stops one trial early.
AfterTrialShort(r) == IF run[r].k + 1 < NTrials THEN "create" ELSE "report"

(* appendObservation, and on to the next trial.                              *)
AfterTrial(r) == IF run[r].k < NTrials THEN "create" ELSE "report"

Measure(r) ==
    /\ run[r].at = "measure"
    /\ \/ /\ StoreTrial(r, "measured")
          /\ run' = [run EXCEPT ![r].at = AfterTrial(r),
                                ![r].k = IF @ < NTrials THEN @ + 1 ELSE @]
          /\ UNCHANGED <<view, slips>>
       \/ Slips /\ Fails(r) /\ UNCHANGED trial
    /\ UNCHANGED <<study, books, edits, editor>>

(* listTrials, of whichever run, and createPlaybook.                         *)
Listed == {t \in Trials : trial[t] # "none"}

Report(r) ==
    /\ run[r].at = "report"
    /\ \/ books' = [books EXCEPT ![r] = Listed] /\ Goes(r, "complete")
          /\ UNCHANGED <<view, slips>>
       \/ Slips /\ Fails(r) /\ UNCHANGED books
    /\ UNCHANGED <<study, trial, edits, editor>>

(* sealStudy from the revision the run began with.                           *)
MayComplete(r) == study.status = "in_progress" /\ study.rev = run[r].rev

Complete(r) ==
    /\ run[r].at = "complete"
    /\ \/ /\ MayComplete(r)
          /\ study' = [study EXCEPT !.status = "completed", !.rev = @ + 1, !.report = r]
          /\ Settles(r, "reload", FALSE)
          /\ UNCHANGED slips
       \/ /\ IF MayComplete(r) THEN Slips ELSE UNCHANGED slips
          /\ Fails(r) /\ UNCHANGED study
    /\ UNCHANGED <<trial, books, edits, editor>>

\* Mutant: a rejection is shown and not written.
AfterFailureSilent == "reload"

(* The rejection handler: the study is read, and if it is still in progress  *)
(* marked failed from the revision read.  Best effort.                       *)
AfterFailure == IF study.status = "in_progress" THEN "marking" ELSE "reload"

ReadFresh(r) ==
    /\ run[r].at = "failing"
    /\ \/ /\ run' = [run EXCEPT ![r].at = AfterFailure, ![r].rev = study.rev]
          /\ UNCHANGED slips
       \/ /\ Slips
          /\ run' = [run EXCEPT ![r].at = "reload", ![r].unmarked = TRUE]
    /\ UNCHANGED <<study, trial, books, edits, editor, view>>

MayFailStudy(r) == study.status = "in_progress" /\ study.rev = run[r].rev

MarkFailed(r) ==
    /\ run[r].at = "marking"
    /\ \/ /\ study' = IF MayFailStudy(r)
                      THEN [study EXCEPT !.status = "failed", !.rev = @ + 1] ELSE study
          /\ Goes(r, "reload")
          /\ UNCHANGED slips
       \/ /\ Slips
          /\ run' = [run EXCEPT ![r].at = "reload", ![r].unmarked = TRUE]
          /\ UNCHANGED study
    /\ UNCHANGED <<trial, books, edits, editor, view>>

Reload(r) ==
    /\ run[r].at = "reload"
    /\ run' = [run EXCEPT ![r] = Over(r, run[r].unmarked)]
    /\ view' = IF run[r].shown
               THEN [view EXCEPT ![run[r].page] = Loaded(@.phase)] ELSE view
    /\ UNCHANGED <<study, trial, books, edits, editor, slips>>

StudyNext ==
    \/ \E p \in StudyPages :
          \/ OpenPage(p) \/ CloseTab(p) \/ Edit(p) \/ Save(p) \/ SaveFails(p)
          \/ PressSeal(p) \/ Seal(p) \/ Delete(p) \/ Sealed(p)
          \/ Resume(p) \/ Interrupt(p) \/ Archive(p)
    \/ \E r \in StudyRuns :
          \/ Method(r) \/ CreateTrial(r) \/ SealTrial(r) \/ Measure(r) \/ Report(r)
          \/ Complete(r) \/ ReadFresh(r) \/ MarkFailed(r) \/ Reload(r)

StudySpec == StudyInit /\ [][StudyNext]_studyVars

-----------------------------------------------------------------------------
Status   == Started \cup {"draft", "deleted"}
Request  == [what : {"save", "seal", "sealed"}, def : 0 .. MaxEdits, rev : Nat]
Editor   == [open : BOOLEAN, def : 0 .. MaxEdits, rev : Nat, queue : Seq(Request),
             missed : BOOLEAN]
View     == [open : BOOLEAN, status : Status, rev : Nat,
             phase : {"idle", "running", "interrupted"}]
StudyRun == [at : RunStage, page : StudyPages \cup {"none"}, shown : BOOLEAN,
             status : Status, rev : Nat, k : 1 .. NTrials, failed : BOOLEAN,
             unmarked : BOOLEAN]

(* The records keep their types.                                             *)
StudyTypeOK ==
    /\ study \in [status : Status, rev : Nat, def : 0 .. MaxEdits,
                  report : 0 .. MaxStudyRuns]
    /\ trial \in [Trials -> {"none", "open", "sealed", "measured"}]
    /\ books \in [StudyRuns -> SUBSET Trials]
    /\ edits \in 0 .. MaxEdits
    /\ editor \in [StudyPages -> Editor]
    /\ view \in [StudyPages -> View]
    /\ run \in [StudyRuns -> StudyRun]
    /\ slips \in 0 .. MaxSlips

(* What is sealed is what the page that sealed it showed: not a draft that   *)
(* another page has saved meanwhile, and not one whose last edit is still on *)
(* its way.  It may be an older one only after a save met a storage fault.   *)
SealedIsShown ==
    [][\A p \in StudyPages : Seal(p) /\ study'.status # study.status =>
          study'.def = editor[p].def \/ editor[p].missed]_studyVars

(* A report rests on the whole of its run: every trial of it stored, sealed  *)
(* and measured, and listed, whatever failed or ran beside it, and however   *)
(* the study came to have this report.                                       *)
ReportRestsOnItsRun ==
    \A t \in Trials :
        study.report = t[1] => trial[t] = "measured" /\ t \in books[t[1]]

(* Of overlapping runs at most one decides the study, and for good: a report *)
(* is neither withdrawn nor replaced, nor its definition changed, and a      *)
(* study is not both failed and reported on.                                 *)
DecidedOnce ==
    [][/\ study.report # 0 => /\ study'.report = study.report
                              /\ study'.def = study.def
                              /\ study'.status \in {"completed", "archived"}
       /\ study.status = "failed" => study'.report = 0]_studyVars

(* A run that failed does not leave its study in progress behind, unless the *)
(* mark met a fault of its own or the tab was closed.                        *)
FailedRunEndsStudy ==
    \A r \in StudyRuns :
        run[r].at = "over" /\ run[r].failed /\ study.status = "in_progress" =>
            run[r].unmarked

=============================================================================
