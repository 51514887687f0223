----------------------------- MODULE CompareRun -----------------------------
(***************************************************************************)
(* One Compare run from its creation on: the commands of the controller    *)
(* (run-controller.ts), the executor's pipeline (run-executor.ts,          *)
(* execution-stages.ts), the durable record they write and the state the   *)
(* output pane shows (the reducer of studio-engine.ts).                    *)
(*                                                                         *)
(* A lifecycle event of the executor is two steps: the write, which the    *)
(* repository may refuse or fail, and then, if the execution is still      *)
(* current, what is shown.  Everything else in the system may come between *)
(* them.  Commands do not overlap: ++runEpoch makes every later event of   *)
(* an earlier command fail, so a second command ends the first (Overtaken) *)
(* and is itself refused the lease that the first one still holds.         *)
(*                                                                         *)
(* The lease is seen from the one tab: it is lost at any moment, with the  *)
(* notification (LeaseLost) or before it (LeaseLostUnseen).  RunRecovery   *)
(* has the fences and the sweep in full.                                   *)
(***************************************************************************)
EXTENDS RunRecord

CONSTANT MaxCommands      \* bound: commands after the initial fanout

ASSUME MaxCommandsAssumption == MaxCommands \in Nat

VARIABLES rec,            \* the durable record
          cmd,            \* the command in flight
          task,           \* per candidate: its part of a fanout or retry
          ui,             \* what the reducer holds
          bound,          \* runIdRef still names this run
          commands,       \* commands started after the initial fanout
          upset           \* what has gone wrong so far

vars == <<rec, cmd, task, ui, bound, commands, upset>>

NoIds == [c \in Cands |-> 0]
NoCmd == [kind |-> "none", stage |-> "none", pc |-> "none",
          who |-> {}, ids |-> NoIds, src |-> 0]

\* `who` is the retried candidate, `ids` candidateAttemptIds, `src` the Judge
\* attempt a Fusion is made from.
Cmd == [kind  : {"none", "fanout", "retry", "judge", "fusion"},
        stage : {"none", "judge", "fusion"},
        pc    : {"none", "begin", "cands", "ending", "start", "started",
                 "calling", "done", "failing", "failed"},
        who   : SUBSET Cands, ids : [Cands -> Nat], src : Nat]

\* "ok", "blank" and "bad": a terminal has been written and is not yet shown.
Task == {"idle", "start", "unstarted", "stream", "ok", "blank", "bad"}

Ui == [running : BOOLEAN, aborted : BOOLEAN, insufficient : BOOLEAN,
       cands   : [Cands -> {"pending", "done", "empty", "error"}],
       judge   : StageStatus, fusion : StageStatus]

Upset == {"fault", "refused", "lost", "overtaken"}

CompareTypeOK ==
    /\ rec \in Record
    /\ cmd \in Cmd
    /\ task \in [Cands -> Task]
    /\ ui \in Ui
    /\ bound \in BOOLEAN
    /\ commands \in 0 .. MaxCommands
    /\ upset \subseteq Upset

NoTask == [c \in Cands |-> "idle"]

\* What the pane shows before FANOUT_START; nothing of an earlier run matters.
BlankUi == [running |-> FALSE, aborted |-> FALSE, insufficient |-> FALSE,
            cands |-> [c \in Cands |-> "pending"], judge |-> "idle", fusion |-> "idle"]

\* Pre-call persistence has created the record; the executor is to start.
Init ==
    /\ \E mode \in Mode : rec = FanoutStart(mode)
    /\ cmd = [NoCmd EXCEPT !.kind = "fanout", !.pc = "begin"]
    /\ task = NoTask
    /\ ui = BlankUi
    /\ bound = TRUE
    /\ commands = 0
    /\ upset = {}

-----------------------------------------------------------------------------
(* Writing, and ending a command.                                          *)

\* The repository refuses to let a terminal run be running again.
Refused(new) == rec.status \in Terminal /\ new.status = "running"

\* A recorder call that succeeds; without a run id there is no call.
Commit(new) ==
    /\ bound => ~Refused(new)
    /\ rec' = IF bound THEN new ELSE rec
    /\ UNCHANGED upset

\* A recorder call that throws.
WriteFails(new) ==
    /\ bound
    /\ upset' = upset \cup {IF Refused(new) THEN "refused" ELSE "fault"}
    /\ UNCHANGED rec

UsableShown(u) == {c \in Cands : u.cands[c] = "done"}

\* runFanout reports too few candidates when its pipeline returns.
Reported(u) ==
    IF cmd.kind = "fanout" /\ Cardinality(UsableShown(u)) < 2
    THEN [u EXCEPT !.running = FALSE, !.insufficient = TRUE]
    ELSE u

\* The pipeline returns and the command releases its lease.
EndsShowing(u) ==
    /\ ui' = Reported(u)
    /\ cmd' = NoCmd
    /\ task' = NoTask

LastId(atts) == Cardinality(atts)
NextId(atts) == Cardinality(atts) + 1

-----------------------------------------------------------------------------
(* Candidates.                                                             *)

\* onFanoutStart: FANOUT_START, and every candidate job is started.
FanoutShown ==
    /\ cmd.pc = "begin"
    /\ ui' = [BlankUi EXCEPT !.running = TRUE]
    /\ cmd' = [cmd EXCEPT !.pc = "cands"]
    /\ task' = [c \in Cands |-> "start"]
    /\ UNCHANGED <<rec, bound, commands, upset>>

TaskTo(c, s) == task' = [task EXCEPT ![c] = s]

CandStart(c) ==
    /\ task[c] = "start"
    /\ LET new == CandidateAttemptStart(rec, c, NextId(rec.cands[c].atts))
       IN  \/ Commit(new) /\ TaskTo(c, "stream")
           \/ WriteFails(new) /\ TaskTo(c, "unstarted")
    /\ UNCHANGED <<cmd, ui, bound, commands>>

\* The attempt that could not be started is finished as failed: the record
\* does not know it and stays as it is.
CandUnstarted(c) ==
    /\ task[c] = "unstarted"
    /\ LET id  == NextId(rec.cands[c].atts)
           new == CandidateAttemptTerminal(rec, c, id, "failed", FALSE)
       IN  \/ Commit(new) /\ TaskTo(c, "bad")
           \/ WriteFails(new) /\ TaskTo(c, "idle")
    /\ UNCHANGED <<cmd, ui, bound, commands>>

\* The provider has answered; an output may be blank.
CandSettle(c) ==
    /\ task[c] = "stream"
    /\ \E out \in {"ok", "blank", "bad"} :
          LET status == IF out = "bad" THEN "failed" ELSE "completed"
              id     == LastId(rec.cands[c].atts)
              new    == CandidateAttemptTerminal(rec, c, id, status, out = "ok")
          IN  \/ Commit(new) /\ TaskTo(c, out)
              \/ WriteFails(new) /\ TaskTo(c, "idle")
    /\ UNCHANGED <<cmd, ui, bound, commands>>

\* CANDIDATE_RESULT or CANDIDATE_FAILED, and their RETRY_ forms.
CandShow(c) ==
    /\ task[c] \in {"ok", "blank", "bad"}
    /\ TaskTo(c, "idle")
    /\ IF task[c] = "bad"
       THEN /\ ui' = [ui EXCEPT !.cands[c] = "error", !.running = @ /\ cmd.kind = "fanout"]
            /\ UNCHANGED cmd
       ELSE /\ ui' = [ui EXCEPT !.cands[c] = IF task[c] = "ok" THEN "done" ELSE "empty"]
            /\ cmd' = [cmd EXCEPT !.ids[c] = LastId(rec.cands[c].atts)]
    /\ UNCHANGED <<rec, bound, commands, upset>>

CandsOver == cmd.pc = "cands" /\ task = NoTask

ToStage(stage, src) == cmd' = [cmd EXCEPT !.stage = stage, !.pc = "start", !.src = src]

\* onFanoutTerminal, its write and then FANOUT_END.
FanoutSettle ==
    /\ CandsOver /\ cmd.kind = "fanout"
    /\ \/ /\ Commit(FanoutTerminal(rec))
          /\ cmd' = [cmd EXCEPT !.pc = "ending"]
          /\ UNCHANGED <<task, ui>>
       \/ WriteFails(FanoutTerminal(rec)) /\ EndsShowing(ui)
    /\ UNCHANGED <<bound, commands>>

FanoutEnd ==
    /\ cmd.pc = "ending"
    /\ IF Cardinality(UsableShown(ui)) >= 2
       THEN ToStage("judge", 0) /\ UNCHANGED <<task, ui>>
       ELSE EndsShowing(ui)
    /\ UNCHANGED <<rec, bound, commands, upset>>

\* A candidate retry goes on to the Judge when it has an output and two
\* candidates are usable; otherwise it just returns.
RetrySettled ==
    /\ CandsOver /\ cmd.kind = "retry"
    /\ IF (\A c \in cmd.who : ui.cands[c] \in {"done", "empty"})
             /\ Cardinality(UsableShown(ui)) >= 2
       THEN ToStage("judge", 0) /\ UNCHANGED <<task, ui>>
       ELSE EndsShowing(ui)
    /\ UNCHANGED <<rec, bound, commands, upset>>

-----------------------------------------------------------------------------
(* The Judge and Fusion stages (runJudge, runFusion).                      *)

Attempted(stage) ==
    IF stage = "judge" THEN JudgeStart(rec, NextId(rec.judge.atts), cmd.ids)
    ELSE FusionStart(rec, NextId(rec.fusion.atts), cmd.src, cmd.ids)

Settled(stage, status) ==
    IF stage = "judge" THEN JudgeTerminal(rec, LastId(rec.judge.atts), status)
    ELSE FusionTerminal(rec, LastId(rec.fusion.atts), status)

PcTo(pc) == cmd' = [cmd EXCEPT !.pc = pc]

StageStart ==
    /\ cmd.pc = "start"
    /\ \/ Commit(Attempted(cmd.stage)) /\ PcTo("started") /\ UNCHANGED <<task, ui>>
       \/ WriteFails(Attempted(cmd.stage)) /\ EndsShowing(ui)
    /\ UNCHANGED <<bound, commands>>

\* JUDGE_START and FUSION_START.
StageShown ==
    /\ cmd.pc = "started"
    /\ ui' = IF cmd.stage = "judge"
             THEN [ui EXCEPT !.running = TRUE, !.judge = "running", !.fusion = "idle",
                             !.insufficient = FALSE]
             ELSE [ui EXCEPT !.running = TRUE, !.fusion = "running"]
    /\ PcTo("calling")
    /\ UNCHANGED <<rec, task, bound, commands, upset>>

\* Mutant: the result is shown although its write failed.
StageSettleUnwritten ==
    /\ cmd.pc = "calling"
    /\ LET new == Settled(cmd.stage, "completed")
       IN  \/ (Commit(new) \/ WriteFails(new)) /\ PcTo("done")
           \/ PcTo("failing") /\ UNCHANGED <<rec, upset>>
    /\ UNCHANGED <<task, ui, bound, commands>>

\* The provider answers, fails, times out or says nothing that parses.  A
\* result that cannot be written is a failure of the stage as well.
StageSettle ==
    /\ cmd.pc = "calling"
    /\ LET new == Settled(cmd.stage, "completed")
       IN  \/ Commit(new) /\ PcTo("done")
           \/ WriteFails(new) /\ PcTo("failing")
           \/ PcTo("failing") /\ UNCHANGED <<rec, upset>>
    /\ UNCHANGED <<task, ui, bound, commands>>

StageFail ==
    /\ cmd.pc = "failing"
    /\ LET new == Settled(cmd.stage, "failed")
       IN  \/ Commit(new) /\ PcTo("failed") /\ UNCHANGED <<task, ui>>
           \/ WriteFails(new) /\ EndsShowing(ui)
    /\ UNCHANGED <<bound, commands>>

\* JUDGE_RESULT ends a Rank run; in Fuse mode the Fusion follows.
JudgeShown ==
    /\ cmd.pc = "done" /\ cmd.stage = "judge"
    /\ LET u == [ui EXCEPT !.judge = "done", !.running = @ /\ rec.mode = "fuse"]
       IN  IF rec.mode = "fuse"
           THEN ui' = u /\ ToStage("fusion", LastId(rec.judge.atts)) /\ UNCHANGED task
           ELSE EndsShowing(u)
    /\ UNCHANGED <<rec, bound, commands, upset>>

FusionShown ==
    /\ cmd.pc = "done" /\ cmd.stage = "fusion"
    /\ EndsShowing([ui EXCEPT !.fusion = "done", !.running = FALSE])
    /\ UNCHANGED <<rec, bound, commands, upset>>

\* JUDGE_FAILED and FUSION_FAILED.
StageFailed ==
    /\ cmd.pc = "failed"
    /\ EndsShowing(IF cmd.stage = "judge"
                   THEN [ui EXCEPT !.judge = "error", !.running = FALSE]
                   ELSE [ui EXCEPT !.fusion = "error", !.running = FALSE])
    /\ UNCHANGED <<rec, bound, commands, upset>>

-----------------------------------------------------------------------------
(* Commands on the run shown.  Each acquires the lease, rebinds the record *)
(* to it and reads the accepted attempts before its first stage.           *)

Idle == cmd.kind = "none"

MayCommand == Idle /\ ~ui.running /\ commands < MaxCommands

\* Mutant: a continuation does not read the accepted attempts.
FrozenForgotten == NoIds

Frozen == IF bound THEN AcceptedIds(rec) ELSE NoIds

\* retryCandidate, for any candidate shown: its one gate is `running`.
RetryCandidate(c) ==
    /\ MayCommand
    /\ ui' = [ui EXCEPT !.running = TRUE, !.judge = "idle", !.fusion = "idle",
                        !.insufficient = FALSE, !.cands[c] = "pending"]
    /\ \/ /\ Commit(rec)
          /\ cmd' = [NoCmd EXCEPT !.kind = "retry", !.pc = "cands", !.who = {c}, !.ids = Frozen]
          /\ TaskTo(c, "start")
       \/ WriteFails(rec) /\ UNCHANGED <<cmd, task>>
    /\ commands' = commands + 1
    /\ UNCHANGED bound

RetryJudge ==
    /\ MayCommand
    /\ ~ui.aborted /\ ui.judge = "error" /\ Cardinality(UsableShown(ui)) >= 2
    /\ Commit(rec)
    /\ cmd' = [NoCmd EXCEPT !.kind = "judge", !.stage = "judge", !.pc = "start", !.ids = Frozen]
    /\ commands' = commands + 1
    /\ UNCHANGED <<task, ui, bound>>

\* triggerFusion: Rank to Fuse, and Re-fuse.  It insists on an accepted Judge
\* in the record.
TriggerFusion ==
    /\ MayCommand
    /\ ~ui.aborted /\ ui.judge = "done" /\ Cardinality(UsableShown(ui)) >= 2
    /\ Commit(rec)
    /\ IF bound /\ rec.judge.acc = 0
       THEN ui' = [ui EXCEPT !.fusion = "error"] /\ UNCHANGED cmd
       ELSE /\ cmd' = [NoCmd EXCEPT !.kind = "fusion", !.stage = "fusion", !.pc = "start",
                                    !.ids = Frozen, !.src = IF bound THEN rec.judge.acc ELSE 0]
            /\ UNCHANGED ui
    /\ commands' = commands + 1
    /\ UNCHANGED <<task, bound>>

\* triggerFusion and retryJudge with too few outputs shown say so, and do no
\* more.
TooFewReported ==
    /\ ~ui.running /\ Cardinality(UsableShown(ui)) < 2
    /\ ui' = [ui EXCEPT !.insufficient = TRUE]
    /\ UNCHANGED <<rec, cmd, task, bound, commands, upset>>

\* abortRun, from the button shown while `running`.  markAborted needs the
\* lease of a command in flight; a failure of it is swallowed.
AbortRun ==
    /\ ui.running
    /\ ui' = [ui EXCEPT !.running = FALSE, !.aborted = TRUE,
                        !.cands = [c \in Cands |-> IF ui.cands[c] = "pending" THEN "error"
                                                   ELSE ui.cands[c]],
                        !.judge = IF @ = "running" THEN "idle" ELSE @,
                        !.fusion = IF @ = "running" THEN "idle" ELSE @]
    /\ IF Idle THEN UNCHANGED <<rec, upset>>
       ELSE Commit(Stopped(rec, "aborted")) \/ WriteFails(Stopped(rec, "aborted"))
    /\ cmd' = NoCmd
    /\ task' = NoTask
    /\ UNCHANGED <<bound, commands>>

-----------------------------------------------------------------------------
(* What comes between.                                                     *)

\* A second command while the first has not shown that it runs: the epoch is
\* raised, the first has no further effect, the second is refused the lease.
Overtaken ==
    /\ ~Idle /\ ~ui.running
    /\ upset' = upset \cup {"overtaken"}
    /\ cmd' = NoCmd
    /\ task' = NoTask
    /\ UNCHANGED <<rec, ui, bound, commands>>

\* runFanout forgets the run id before it finds that it may not start, here
\* because another tab, or a command of this one, has the lease.
FanoutBlocked ==
    /\ ~ui.running /\ cmd.kind # "fanout" /\ bound
    /\ bound' = FALSE
    /\ upset' = IF Idle THEN upset ELSE upset \cup {"overtaken"}
    /\ cmd' = NoCmd
    /\ task' = NoTask
    /\ UNCHANGED <<rec, ui, commands>>

\* Another tab takes the lease over and the notification arrives.
LeaseLost ==
    /\ ~Idle
    /\ ui' = [ui EXCEPT !.running = FALSE, !.aborted = TRUE]
    /\ upset' = upset \cup {"lost"}
    /\ cmd' = NoCmd
    /\ task' = NoTask
    /\ UNCHANGED <<rec, bound, commands>>

\* The pipeline's next event fails first, and the command ends by itself.
LeaseLostUnseen ==
    /\ ~Idle
    /\ upset' = upset \cup {"lost"}
    /\ EndsShowing(ui)
    /\ UNCHANGED <<rec, bound, commands>>

\* sweepInterrupted, in another tab or at the next start.
Swept ==
    /\ Idle /\ rec.status = "running"
    /\ rec' = Stopped(rec, "interrupted")
    /\ UNCHANGED <<cmd, task, ui, bound, commands, upset>>

Pipeline ==
    \/ FanoutShown
    \/ \E c \in Cands : CandStart(c) \/ CandUnstarted(c) \/ CandSettle(c) \/ CandShow(c)
    \/ FanoutSettle \/ FanoutEnd \/ RetrySettled
    \/ StageStart \/ StageShown \/ StageSettle \/ StageFail
    \/ JudgeShown \/ FusionShown \/ StageFailed

Command ==
    \/ \E c \in Cands : RetryCandidate(c)
    \/ RetryJudge \/ TriggerFusion \/ TooFewReported \/ AbortRun

Environment == Overtaken \/ FanoutBlocked \/ LeaseLost \/ LeaseLostUnseen \/ Swept

Next == Pipeline \/ Command \/ Environment

Spec == Init /\ [][Next]_vars
-----------------------------------------------------------------------------
\* The accepted Judge evaluated outputs that are still the accepted ones, at
\* least two of them, although candidates are retried and re-accepted later.
JudgedOutputsAreAccepted ==
    \A j \in rec.judge.atts : j.id = rec.judge.acc =>
        /\ \A c \in Cands : j.basis[c] \in {0, rec.cands[c].acc}
        /\ Cardinality({c \in Cands : j.basis[c] # 0}) >= 2

\* Every Fusion, whether in the pipeline or asked for later, was made from the
\* outputs that the completed Judge attempt it names has evaluated.
FusionRestsOnItsJudge ==
    \A f \in rec.fusion.atts : \E j \in rec.judge.atts :
        /\ j.id = f.judgeId
        /\ j.status = "completed"
        /\ j.basis = f.basis

\* Nothing is shown before it is durable, and a fused text shown next to a
\* Judge report was made from that report.
ShownIsDurable ==
    bound =>
        /\ UsableShown(ui) \subseteq UsableCands(rec)
        /\ ui.judge = "done" => rec.judge.acc # 0
        /\ ui.fusion = "done" => /\ rec.fusion.acc # 0
                                 /\ \A f \in rec.fusion.atts :
                                       f.id = rec.fusion.acc => f.judgeId = rec.judge.acc

\* When nothing went wrong, a command leaves the run settled: a verdict, and
\* no attempt that claims to be running, after an abort at any point too.
IdleRunIsSettled ==
    Idle /\ upset = {} =>
        /\ rec.status # "running"
        /\ ~FanoutActive(rec) /\ ~Active(rec.judge.atts) /\ ~Active(rec.fusion.atts)

\* Accepted Judge and Fusion evidence is withdrawn only when an output it is
\* about is replaced: a failed retry, Judge or Fusion never destroys it.
OnlyReplacementWithdrawsEvidence ==
    [][\/ rec.judge.acc # 0 /\ rec'.judge.acc = 0
       \/ rec.fusion.acc # 0 /\ rec'.fusion.acc = 0
       => \E c \in Cands : rec.cands[c].acc \notin {0, rec'.cands[c].acc}]_vars

\* "Terminal: too few candidates survived to rank or fuse (need >=2). Stop the
\* run and record why" (studio-engine.ts): a pane that shows a run as running
\* has a command behind it.
ShownRunningIsRunning == ui.running /\ Idle => upset # {}
=============================================================================
