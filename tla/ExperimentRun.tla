---------------------------- MODULE ExperimentRun ----------------------------
(***************************************************************************)
(* One experiment: the controller of the tab that runs it                  *)
(* (experiment-controller.ts), the unit of work that writes an experiment  *)
(* and a run together (experiment-unit-of-work.ts), updateExperiment of    *)
(* the repository, the startup recovery of another or a later tab, and the *)
(* user's commands.                                                        *)
(*                                                                         *)
(* A database transaction takes effect when it is issued, since those that *)
(* overlap run in the order of their issue; its result is delivered later, *)
(* and what the controller does next, up to its next await, is one step.   *)
(* Whatever else is in flight may run in between: a second loop, an abort, *)
(* a pause, a recovery.                                                    *)
(*                                                                         *)
(* The lease is its fence alone, 0 when free or expired: ExecutionLease    *)
(* has its clock and its owners.                                           *)
(***************************************************************************)
EXTENDS ExperimentEngine

CONSTANTS MaxCommands,    \* bound: start, retries, repairs and extensions
          MaxResumes,     \* bound: resumptions
          MaxFence,       \* bound: acquisitions of the lease
          MaxFaults,      \* bound: storage faults
          MaxRunRev,      \* bound: revision up to which a run is left running
          Patient         \* bound: commands are given one at a time

ASSUME ExperimentAssumption ==
    /\ MaxCommands \in Nat /\ MaxResumes \in Nat /\ MaxFence \in Nat /\ MaxFaults \in Nat
    /\ MaxRunRev \in Nat /\ Patient \in BOOLEAN

Loops == {1, 2}           \* bound: run loops alive at the same time

VARIABLES exp,            \* the experiment row
          runs,           \* the run rows, by run id
          lease,          \* the fence of the live lease
          fence,          \* the highest fence issued
          eng,            \* the tab's engine
          prev,           \* persistedExperimentRevision
          tok,            \* activeLease
          owner,          \* the in-tab ownership registry holds the experiment
          ctrl,           \* the loop whose AbortController is abortController
          loop,           \* the run loops
          cmd,            \* the command in flight
          abt,            \* abortInternal in flight
          pse,            \* requestPause in flight: its write's result, as a set
          rcv,            \* the recovery in flight
          ids,            \* run ids generated
          commands,       \* start, retry and plan commands given
          resumes,        \* resumptions
          rushed,         \* a command was given while something was under way (history)
          faults,         \* storage faults
          odd             \* the oddest thing to have happened: see Hasty, Lost

durable   == <<exp, runs, lease, fence>>
given     == <<commands, resumes, rushed>>
elsewhere == <<cmd, abt, pse, rcv, given, odd>>
vars    == <<exp, runs, lease, fence, eng, prev, tok, owner, ctrl, loop, cmd, abt, pse,
             rcv, ids, commands, resumes, rushed, faults, odd>>

NoEngine == [EngineOf([status |-> "draft", att |-> [t \in Tasks |-> <<>>],
                       sel |-> [t \in Tasks |-> 0]]) EXCEPT !.status = "none"]
Engines  == Engine \cup {NoEngine}

NoExp == [status |-> "none", rev |-> 0, att |-> NoEngine.att, sel |-> NoEngine.sel]

\* A run knows the plan it was made for (RunSource.repair).
Run == [status : RunStatus, rev : Nat, plan : Plan]

\* `res` is the outcome of the write awaited: the new revision, 0 if it was
\* refused or failed.  `load` is a run row read and `pre` the engine to go
\* back to; `sig` and `lossy` say that the execution was told to abort and
\* that a write of it failed.
NoLoop == [pc |-> "off", task |-> 0, at |-> 0, run |-> 0, plan |-> "none", k |-> 0,
           res |-> 0, load |-> {}, pre |-> NoEngine, sig |-> FALSE, lossy |-> FALSE]
NoCmd  == [kind |-> "none", pc |-> "off", k |-> 0, res |-> 0, snap |-> NoExp, pre |-> NoEngine]
NoAbt  == [pc |-> "off", run |-> 0, load |-> {}, res |-> 0]
NoRcv  == [pc |-> "off", k |-> 0, snap |-> NoExp, todo |-> {}, load |-> {}]

Init ==
    /\ exp = NoExp
    /\ runs = [r \in {} |-> 0]
    /\ lease = 0 /\ fence = 0
    /\ eng = NoEngine /\ prev = 0 /\ tok = 0 /\ owner = FALSE /\ ctrl = 0
    /\ loop = [l \in Loops |-> NoLoop]
    /\ cmd = NoCmd /\ abt = NoAbt /\ pse = {} /\ rcv = NoRcv
    /\ ids = 0 /\ commands = 0 /\ resumes = 0 /\ rushed = FALSE /\ faults = 0 /\ odd = "none"

-----------------------------------------------------------------------------
(* Transactions, each with its outcome.                                    *)

Fault == faults < MaxFaults /\ faults' = faults + 1

\* A write that is not possible fails; one that is possible may fail.
Fails(possible) == IF possible THEN Fault ELSE UNCHANGED faults

Record(e, rev) == [status |-> e.status, rev |-> rev, att |-> e.att, sel |-> e.sel]

IsAt(rev) == exp.status # "none" /\ exp.rev = rev

\* Mutant: the row is written whatever its revision.
SyncAnyway(e, rev, res) ==
    \/ exp.status # "none" /\ res = rev + 1 /\ exp' = Record(e, rev + 1) /\ UNCHANGED faults
    \/ res = 0 /\ Fails(exp.status # "none") /\ UNCHANGED exp

\* updateExperiment: the whole record, by compare-and-swap on its revision.
Sync(e, rev, res) ==
    \/ IsAt(rev) /\ res = rev + 1 /\ exp' = Record(e, rev + 1) /\ UNCHANGED faults
    \/ res = 0 /\ Fails(IsAt(rev)) /\ UNCHANGED exp

\* syncExperimentStatus; without an engine it returns what it was given.
SyncEngine(rev, res) ==
    IF eng.status = "none" THEN res = rev /\ UNCHANGED <<exp, faults>> ELSE Sync(eng, rev, res)

MayBeginTx(t, i, k, rev) ==
    /\ lease = k
    /\ IsAt(rev)
    /\ i \in DOMAIN exp.att[t] => exp.att[t][i].run = 0

\* beginExperimentTaskCore: the run is created and linked to its attempt.
BeginTx(t, i, run, plan, k, rev, res) ==
    \/ /\ MayBeginTx(t, i, k, rev)
       /\ res = rev + 1
       /\ exp' = [exp EXCEPT !.rev = rev + 1,
                             !.att[t] = WithAttempt(@, i, NewAttempt(run, "running", "none"))]
       /\ runs' = [r \in DOMAIN runs \cup {run} |->
                      IF r = run THEN [status |-> "running", rev |-> 0, plan |-> plan] ELSE runs[r]]
       /\ UNCHANGED faults
    \/ res = 0 /\ Fails(MayBeginTx(t, i, k, rev)) /\ UNCHANGED <<exp, runs>>

IsReplay(t, i, run, row) ==
    /\ exp.att[t][i].status \in OverStatus
    /\ exp.att[t][i].run = run
    /\ exp.att[t][i].status = row.status /\ runs[run].status = row.status

MayCommitTx(t, i, run, row, k, rev) ==
    /\ lease = k /\ exp.status # "none" /\ i \in DOMAIN exp.att[t]
    /\ IsReplay(t, i, run, row) \/
          (exp.att[t][i].status \notin OverStatus /\ runs[run].rev = row.rev /\ exp.rev = rev)

\* commitExperimentTaskTerminalCore: run and attempt are finalized together;
\* a replay of the same outcome changes nothing.
CommitTx(t, i, run, row, k, rev, cov, plan, res) ==
    \/ /\ MayCommitTx(t, i, run, row, k, rev)
       /\ IF IsReplay(t, i, run, row)
          THEN res = exp.rev /\ UNCHANGED <<exp, runs>>
          ELSE LET atts == [exp.att[t] EXCEPT ![i] = Finalized(@, row.status, cov, plan)]
               IN  /\ res = rev + 1
                   /\ exp' = [exp EXCEPT !.rev = rev + 1, !.att[t] = atts, !.sel[t] = Select(atts)]
                   /\ runs' = [runs EXCEPT ![run].rev = @ + 1]
       /\ UNCHANGED faults
    \/ res = 0 /\ Fails(MayCommitTx(t, i, run, row, k, rev)) /\ UNCHANGED <<exp, runs>>

Rewritten(row, status) == [row EXCEPT !.status = status, !.rev = @ + 1]

\* Mutant: the update has no revision to compare with.
AbortRunAnyway(run, row) ==
    \/ /\ runs' = [runs EXCEPT ![run] = Rewritten(@, "aborted")]
       /\ UNCHANGED faults
    \/ Fails(TRUE) /\ UNCHANGED runs

\* finalizeActiveRunRecord, its update: a run read as running is aborted,
\* unless somebody wrote it since; a failure is swallowed.
AbortRun(run, row) ==
    \/ /\ runs[run].rev = row.rev
       /\ runs' = [runs EXCEPT ![run] = Rewritten(@, "aborted")]
       /\ UNCHANGED faults
    \/ Fails(runs[run].rev = row.rev) /\ UNCHANGED runs

\* releaseExecution, with whatever token the controller holds by now.
Release ==
    /\ lease' = IF lease = tok THEN 0 ELSE lease
    /\ tok' = 0
    /\ owner' = FALSE

-----------------------------------------------------------------------------
(* The run loop.                                                           *)

\* The loop is over and lets go of the experiment if that is over too.
EndLoop(l, e) ==
    /\ eng' = e
    /\ loop' = [loop EXCEPT ![l] = NoLoop]
    /\ IF e.status \in Terminal THEN Release ELSE UNCHANGED <<lease, tok, owner>>
    /\ UNCHANGED <<exp, runs, ids, faults>>

\* The failure path aborts the engine it finds and records that.
AbortAfterFailure(l, e) ==
    IF e.status = "none" THEN EndLoop(l, e)
    ELSE /\ eng' = Aborted(e)
         /\ \E res \in {0, prev + 1} :
               /\ Sync(Aborted(e), prev, res)
               /\ loop' = [loop EXCEPT ![l] = [NoLoop EXCEPT !.pc = "failed", !.res = res]]
         /\ UNCHANGED <<runs, lease, tok, owner, ids>>

\* The run of the active attempt, as a set of at most one.
ActiveRun(e) == IF e.task = 0 THEN {} ELSE {e.att[e.task][e.at].run} \cap DOMAIN runs

\* A task failed: the active run is read, to be finalized first.
Catch(l, e) ==
    IF e.status \in Terminal \cup {"none"} THEN EndLoop(l, e)
    ELSE \/ /\ \E run \in ActiveRun(e) :
                  loop' = [loop EXCEPT ![l] = [NoLoop EXCEPT !.pc = "failing", !.run = run,
                                                             !.load = {runs[run]}]]
            /\ eng' = e
            /\ UNCHANGED <<exp, runs, lease, tok, owner, ids, faults>>
         \/ ActiveRun(e) = {} /\ AbortAfterFailure(l, e)

\* The engine begins the attempt and the unit of work is called.
BeginTask(l, e, p, k, t, i, plan) ==
    IF MayBegin(e, t, i)
    THEN /\ eng' = TaskBegun(e, t, i, ids + 1)
         /\ ids' = ids + 1
         /\ \E res \in {0, p + 1} :
               /\ BeginTx(t, i, ids + 1, plan, k, p, res)
               /\ loop' = [loop EXCEPT ![l] = [NoLoop EXCEPT !.pc = "beginning", !.task = t,
                              !.at = i, !.run = ids + 1, !.plan = plan, !.k = k, !.res = res]]
         /\ UNCHANGED <<lease, tok, owner>>
    ELSE Catch(l, e)

\* The first queued attempt of a task, or a new one.
AttemptToRun(atts) ==
    LET queued == Places(atts, {"queued"})
    IN  IF queued = {} THEN Len(atts) + 1 ELSE CHOOSE i \in queued : \A j \in queued : i <= j

PlanOf(atts, i) == IF i \in DOMAIN atts THEN atts[i].plan ELSE "none"

\* The top of the loop: it ends unless a task is to begin.  A compound task
\* first reads the run it is based on.
NextTask(l, e, p, k) ==
    IF ~Begins(e) THEN EndLoop(l, e)
    ELSE LET t == Head(e.queue)
             i == AttemptToRun(e.att[t])
             plan == PlanOf(e.att[t], i)
         IN  IF plan = "compound"
             THEN /\ eng' = e
                  /\ \E res \in {0, 1} :
                        /\ IF res = 0 THEN Fault ELSE UNCHANGED faults
                        /\ loop' = [loop EXCEPT ![l] = [NoLoop EXCEPT !.pc = "base", !.task = t,
                                       !.at = i, !.plan = plan, !.k = k, !.res = res]]
                  /\ UNCHANGED <<exp, runs, lease, tok, owner, ids>>
             ELSE BeginTask(l, e, p, k, t, i, plan)

\* The base run has been read.  If the experiment was paused or aborted
\* meanwhile, the attempt stays queued.
LoopBase(l) ==
    /\ loop[l].pc = "base"
    /\ LET me == loop[l]
       IN  IF me.res = 0 THEN Catch(l, eng)
           ELSE IF eng.status # "running" \/ eng.pause THEN NextTask(l, eng, prev, me.k)
           ELSE BeginTask(l, eng, prev, me.k, me.task, me.at, me.plan)
    /\ UNCHANGED <<fence, prev, ctrl, elsewhere>>

LoopTo(l, pc, res) == loop' = [loop EXCEPT ![l] = [@ EXCEPT !.pc = pc, !.res = res]]

\* beginTask is through: the status of the experiment is written as well.
LoopBegun(l) ==
    /\ loop[l].pc = "beginning"
    /\ IF loop[l].res = 0
       THEN Catch(l, eng) /\ UNCHANGED prev
       ELSE /\ prev' = loop[l].res
            /\ \E res \in {0, prev', prev' + 1} :
                  SyncEngine(prev', res) /\ LoopTo(l, "begun", res)
            /\ UNCHANGED <<eng, runs, lease, tok, owner, ids>>
    /\ UNCHANGED <<fence, ctrl, elsewhere>>

\* The executor is started under a new AbortController.
LoopExecute(l) ==
    /\ loop[l].pc = "begun"
    /\ IF loop[l].res = 0
       THEN Catch(l, eng) /\ UNCHANGED <<prev, ctrl>>
       ELSE /\ prev' = loop[l].res
            /\ ctrl' = l
            /\ LoopTo(l, "executing", 0)
            /\ UNCHANGED <<exp, runs, lease, eng, tok, owner, ids, faults>>
    /\ UNCHANGED <<fence, elsewhere>>

Executing(l) == loop[l].pc = "executing"

\* The recorder reads the run, to record a stage of it.
RunLoad(l) ==
    /\ Executing(l) /\ loop[l].load = {}
    /\ runs[loop[l].run].status \notin Evidence \cup {"failed"}
    /\ runs[loop[l].run].rev < MaxRunRev
    /\ loop' = [loop EXCEPT ![l].load = {runs[loop[l].run]}]
    /\ UNCHANGED <<durable, eng, prev, tok, owner, ctrl, ids, faults, elsewhere>>

\* What a recorded stage makes of a run's status; an abort or interruption
\* is kept.
RunStatusAfter(s) == IF s = "running" THEN {"running", "failed"} \cup Evidence ELSE {s}

\* The recorder writes it back, without a fence, unless somebody wrote since.
\* The executor swallows a failure and, sooner or later, returns.
RunWrite(l) ==
    /\ \E row \in loop[l].load :
          LET run == loop[l].run
              current == runs[run].rev = row.rev
          IN  \/ /\ current
                 /\ \E s \in RunStatusAfter(row.status) :
                       runs' = [runs EXCEPT ![run] = Rewritten(@, s)]
                 /\ loop' = [loop EXCEPT ![l].load = {}]
                 /\ UNCHANGED faults
              \/ /\ Fails(current)
                 /\ loop' = [loop EXCEPT ![l] = [@ EXCEPT !.load = {}, !.lossy = TRUE]]
                 /\ UNCHANGED runs
    /\ Executing(l)
    /\ UNCHANGED <<exp, lease, fence, eng, prev, tok, owner, ctrl, ids, elsewhere>>

\* The executor returns; the run it leaves behind is read.
LoopExecuted(l) ==
    /\ Executing(l) /\ loop[l].load = {}
    /\ runs[loop[l].run].status # "running" \/ loop[l].lossy \/ loop[l].sig
    /\ ctrl' = 0
    /\ \/ /\ loop' = [loop EXCEPT ![l] = [@ EXCEPT !.pc = "executed", !.load = {runs[loop[l].run]}]]
          /\ UNCHANGED faults
       \/ LoopTo(l, "executed", 0) /\ Fault
    /\ UNCHANGED <<durable, eng, prev, tok, owner, ids, elsewhere>>

\* Mutant: the Judge is counted with the models it scored.
CoverageWithJudge(status) ==
    CASE status = "completed" -> {3} [] status = "partial" -> {2, 3} [] OTHER -> {2}

\* Coverage follows from the Judge report of the run.
CoverageOf(status) ==
    CASE status = "completed" -> {2} [] status = "partial" -> {1, 2} [] OTHER -> {1}

\* commitTaskTerminal: the engine first, then the unit of work.
LoopCommit(l) ==
    /\ loop[l].pc = "executed"
    /\ LET t == loop[l].task
           i == loop[l].at
       IN  IF loop[l].load = {} \/ ~MayCommit(eng, t, i) THEN Catch(l, eng)
           ELSE \E row \in loop[l].load : \E cov \in CoverageOf(row.status) :
                \E res \in 0 .. exp.rev + 1 :
                   /\ CommitTx(t, i, loop[l].run, row, loop[l].k, prev, cov, loop[l].plan, res)
                   /\ eng' = TaskCommitted(eng, t, i, row.status, cov, loop[l].plan)
                   /\ loop' = [loop EXCEPT ![l] = [@ EXCEPT !.pc = "committing", !.res = res,
                                                            !.load = {}, !.pre = eng]]
                   /\ UNCHANGED <<lease, tok, owner, ids>>
    /\ UNCHANGED <<fence, prev, ctrl, elsewhere>>

\* The commit is through, and the status is written; or it failed, and the
\* engine goes back to where it was.
LoopCommitted(l) ==
    /\ loop[l].pc = "committing"
    /\ IF loop[l].res = 0
       THEN Catch(l, loop[l].pre) /\ UNCHANGED prev
       ELSE /\ prev' = loop[l].res
            /\ \E res \in {0, prev', prev' + 1} :
                  SyncEngine(prev', res) /\ LoopTo(l, "committed", res)
            /\ UNCHANGED <<eng, runs, lease, tok, owner, ids>>
    /\ UNCHANGED <<fence, ctrl, elsewhere>>

LoopAdvance(l) ==
    /\ loop[l].pc = "committed"
    /\ IF loop[l].res = 0
       THEN Catch(l, eng) /\ UNCHANGED prev
       ELSE prev' = loop[l].res /\ NextTask(l, eng, prev', loop[l].k)
    /\ UNCHANGED <<fence, ctrl, elsewhere>>

\* The active run was read: it is aborted if it is running.
LoopFailing(l) ==
    /\ loop[l].pc = "failing"
    /\ \E row \in loop[l].load :
          IF row.status = "running"
          THEN AbortRun(loop[l].run, row) /\ LoopTo(l, "finalized", 0)
               /\ UNCHANGED <<exp, lease, eng, tok, owner, ids>>
          ELSE AbortAfterFailure(l, eng)
    /\ UNCHANGED <<fence, prev, ctrl, elsewhere>>

LoopFinalized(l) ==
    /\ loop[l].pc = "finalized"
    /\ AbortAfterFailure(l, eng)
    /\ UNCHANGED <<fence, prev, ctrl, elsewhere>>

LoopFailed(l) ==
    /\ loop[l].pc = "failed"
    /\ prev' = IF loop[l].res = 0 THEN prev ELSE loop[l].res
    /\ EndLoop(l, eng)
    /\ UNCHANGED <<fence, ctrl, elsewhere>>

-----------------------------------------------------------------------------
(* Abort and pause.                                                        *)

\* Something of the experiment is under way besides these loop positions.
Busy(positions) == cmd.pc # "off" \/ \E l \in Loops : loop[l].pc \notin {"off"} \cup positions

\* Nothing of the tab is under way.
Quiet == ~Busy({}) /\ abt = NoAbt /\ pse = {}

Hasty(positions) == odd' = IF Busy(positions) /\ odd = "none" THEN "hasty" ELSE odd

AbortEngine ==
    /\ eng' = Aborted(eng)
    /\ IF eng.status = "none" THEN abt' = NoAbt /\ UNCHANGED <<exp, faults>>
       ELSE \E res \in {0, prev + 1} :
               /\ Sync(Aborted(eng), prev, res)
               /\ abt' = [NoAbt EXCEPT !.pc = "syncing", !.res = res]
    /\ UNCHANGED <<lease, tok, owner>>

\* abortInternal, up to its first await: the execution is told, and the
\* active run is read.
AbortStarts ==
    /\ abt.pc = "off"
    /\ ctrl' = 0
    /\ loop' = [l \in Loops |-> IF l = ctrl THEN [loop[l] EXCEPT !.sig = TRUE] ELSE loop[l]]
    /\ IF eng.status = "none" THEN Release /\ UNCHANGED <<exp, eng, abt, faults>>
       ELSE \/ /\ \E run \in ActiveRun(eng) :
                     abt' = [NoAbt EXCEPT !.pc = "reading", !.run = run, !.load = {runs[run]}]
               /\ UNCHANGED <<exp, eng, lease, tok, owner, faults>>
            \/ ActiveRun(eng) = {} /\ AbortEngine
    /\ UNCHANGED <<runs, fence, prev, cmd, pse, rcv, ids, given>>

\* The buttons are there while the record is running or paused; a new
\* experiment is shown when start is through.
Shown(statuses) == exp.status \in statuses /\ cmd.kind # "start"

UserAborts == Shown({"running", "paused"}) /\ AbortStarts /\ Hasty({})

\* The heartbeat finds the lease gone.
LeaseNoticed ==
    /\ tok # 0 /\ lease # tok /\ cmd.kind \in {"none", "resume"}
    /\ AbortStarts
    /\ UNCHANGED odd

AbortRead ==
    /\ abt.pc = "reading"
    /\ \E row \in abt.load :
          IF row.status = "running"
          THEN /\ AbortRun(abt.run, row)
               /\ abt' = [NoAbt EXCEPT !.pc = "finalized"]
               /\ UNCHANGED <<exp, eng, lease, tok, owner>>
          ELSE AbortEngine /\ UNCHANGED runs
    /\ UNCHANGED <<fence, prev, ctrl, loop, cmd, pse, rcv, ids, given, odd>>

AbortFinalized ==
    /\ abt.pc = "finalized"
    /\ AbortEngine
    /\ UNCHANGED <<runs, fence, prev, ctrl, loop, cmd, pse, rcv, ids, given, odd>>

AbortEnds ==
    /\ abt.pc = "syncing"
    /\ abt' = NoAbt
    /\ prev' = IF abt.res = 0 THEN prev ELSE abt.res
    /\ Release
    /\ UNCHANGED <<exp, runs, fence, eng, ctrl, loop, cmd, pse, rcv, ids, given, faults, odd>>

\* requestPause: written at once when no task is active.
UserPauses ==
    /\ pse = {}
    /\ Shown({"running"}) /\ eng.status # "none"
    /\ eng' = PauseRequested(eng)
    /\ IF eng.task # 0 \/ PauseRequested(eng).status # "paused" THEN UNCHANGED <<exp, pse, faults>>
       ELSE \E res \in {0, prev + 1} : Sync(PauseRequested(eng), prev, res) /\ pse' = {res}
    /\ Hasty({"executing"})
    /\ UNCHANGED <<runs, lease, fence, prev, tok, owner, ctrl, loop, cmd, abt, rcv, ids, given>>

PauseEnds ==
    /\ \E res \in pse : prev' = IF res = 0 THEN prev ELSE res
    /\ pse' = {}
    /\ UNCHANGED <<durable, eng, tok, owner, ctrl, loop, cmd, abt, rcv, ids, given, faults, odd>>

-----------------------------------------------------------------------------
(* Commands: start, retryIncomplete, and a repair or a roster extension.   *)

\* The command reads what it is about before it asks for the lease.
CmdRead(kind) ==
    /\ cmd = NoCmd /\ commands < MaxCommands
    /\ Patient => Quiet
    /\ IF kind = "start" THEN exp.status = "none" ELSE exp.status \in Terminal
    /\ cmd' = [NoCmd EXCEPT !.kind = kind, !.pc = "read", !.snap = exp]
    /\ commands' = commands + 1
    /\ rushed' = (rushed \/ ~Quiet)
    /\ UNCHANGED <<durable, eng, prev, tok, owner, ctrl, loop, abt, pse, rcv, ids, resumes,
                   faults, odd>>

CmdAcquire ==
    /\ cmd.pc = "read"
    /\ IF lease # 0 THEN cmd' = NoCmd /\ UNCHANGED <<lease, fence>>
       ELSE /\ fence < MaxFence
            /\ fence' = fence + 1 /\ lease' = fence + 1
            /\ cmd' = [cmd EXCEPT !.pc = "acquiring", !.k = fence + 1]
    /\ UNCHANGED <<exp, runs, eng, prev, tok, owner, ctrl, loop, abt, pse, rcv, ids, given,
                   faults, odd>>

\* The command goes on with this engine, and its first write is issued.
CmdSync(e, rev) ==
    /\ eng' = e
    /\ prev' = rev
    /\ \E res \in {0, rev + 1} :
          Sync(e, rev, res) /\ cmd' = [cmd EXCEPT !.pc = "syncing", !.res = res]

CmdFails ==
    /\ Release
    /\ eng' = NoEngine
    /\ cmd' = NoCmd
    /\ UNCHANGED prev

\* The lease is there; without the in-tab ownership it is given back.
CmdAcquired ==
    /\ cmd.pc = "acquiring"
    /\ IF owner
       THEN /\ lease' = IF lease = cmd.k THEN 0 ELSE lease
            /\ tok' = 0
            /\ cmd' = NoCmd
            /\ UNCHANGED <<exp, eng, prev, owner, faults>>
       ELSE \/ /\ cmd.kind = "start"
               /\ tok' = cmd.k /\ owner' = TRUE
               /\ \/ exp' = [NoExp EXCEPT !.status = "draft"] /\ UNCHANGED faults
                     /\ cmd' = [cmd EXCEPT !.pc = "creating", !.res = 1]
                  \/ Fault /\ UNCHANGED exp /\ cmd' = [cmd EXCEPT !.pc = "creating", !.res = 0]
               /\ UNCHANGED <<lease, eng, prev>>
            \/ /\ cmd.kind = "plan"
               /\ tok' = cmd.k /\ owner' = TRUE
               /\ cmd' = [cmd EXCEPT !.pc = "planning"]
               /\ UNCHANGED <<exp, lease, eng, prev, faults>>
            \/ /\ cmd.kind = "retry"
               /\ tok' = cmd.k /\ owner' = TRUE
               /\ LET e == EngineOf(cmd.snap)
                  IN  /\ Retried(e) # {}
                      /\ CmdSync(Queued(e, RetryPlans(e)), cmd.snap.rev)
               /\ UNCHANGED lease
            \/ /\ cmd.kind = "retry" /\ Retried(EngineOf(cmd.snap)) = {}
               /\ lease' = IF lease = cmd.k THEN 0 ELSE lease
               /\ tok' = 0
               /\ eng' = NoEngine /\ cmd' = NoCmd
               /\ UNCHANGED <<exp, prev, owner, faults>>
    /\ UNCHANGED <<runs, fence, ctrl, loop, abt, pse, rcv, ids, given, odd>>

CmdCreated ==
    /\ cmd.pc = "creating"
    /\ IF cmd.res = 0 THEN CmdFails /\ UNCHANGED <<exp, faults>>
       ELSE /\ CmdSync(DraftStarted(EngineOf([NoExp EXCEPT !.status = "draft"])), 0)
            /\ UNCHANGED <<lease, tok, owner>>
    /\ UNCHANGED <<runs, fence, ctrl, loop, abt, pse, rcv, ids, given, odd>>

\* repairMissingCells plans one task that has partial evidence selected,
\* addModelAndRun every task, on top of what is selected where it can.
Plans(e) ==
    LET partial == {t \in Tasks : e.sel[t] # 0 /\ e.att[t][e.sel[t]].status = "partial"}
    IN  {[t \in {x} |-> "compound"] : x \in partial}
        \cup {p \in [Tasks -> {"compound", "roster"}] :
                 \A t \in Tasks : p[t] = "compound" => e.sel[t] # 0}

\* The planner has something to queue, or refuses.
CmdPlanned ==
    /\ cmd.pc = "planning"
    /\ \/ /\ \E plans \in Plans(EngineOf(cmd.snap)) :
                CmdSync(Queued(EngineOf(cmd.snap), plans), cmd.snap.rev)
          /\ UNCHANGED <<lease, tok, owner>>
       \/ CmdFails /\ UNCHANGED <<exp, faults>>
    /\ UNCHANGED <<runs, fence, ctrl, loop, abt, pse, rcv, ids, given, odd>>

\* The run loop takes over; or the command failed, and start takes its draft
\* back.
CmdSynced ==
    /\ cmd.pc = "syncing"
    /\ \/ /\ cmd.res = 0
          /\ CmdFails
          /\ exp' = IF cmd.kind = "start" THEN NoExp ELSE exp
          /\ UNCHANGED <<runs, loop, ids, faults>>
       \/ /\ cmd.res # 0
          /\ prev' = cmd.res
          /\ cmd' = NoCmd
          /\ \E l \in Loops : loop[l].pc = "off" /\ NextTask(l, eng, cmd.res, cmd.k)
    /\ UNCHANGED <<fence, ctrl, abt, pse, rcv, given, odd>>

\* resume, on the engine that was paused: the lease is verified first.
CmdResume ==
    /\ cmd = NoCmd /\ resumes < MaxResumes
    /\ Patient => Quiet
    /\ exp.status = "paused" /\ eng.status = "paused"
    /\ cmd' = [NoCmd EXCEPT !.kind = "resume", !.pc = "verifying", !.k = tok,
                            !.res = IF tok # 0 /\ lease = tok THEN 1 ELSE 0]
    /\ resumes' = resumes + 1
    /\ rushed' = (rushed \/ ~Quiet)
    /\ UNCHANGED <<durable, eng, prev, tok, owner, ctrl, loop, abt, pse, rcv, ids, commands,
                   faults, odd>>

\* Mutant: the engine is resumed whatever happened during the verification.
CmdVerifiedOnly ==
    /\ cmd.pc = "verifying"
    /\ tok' = IF cmd.res = 0 THEN tok ELSE cmd.k
    /\ IF cmd.res = 0 THEN cmd' = NoCmd /\ UNCHANGED <<exp, eng, faults>>
       ELSE /\ eng' = Resumed(eng)
            /\ \E res \in {0, prev + 1} :
                  /\ Sync(Resumed(eng), prev, res)
                  /\ cmd' = [cmd EXCEPT !.pc = "resuming", !.res = res, !.pre = eng]
    /\ UNCHANGED <<runs, lease, fence, prev, owner, ctrl, loop, abt, pse, rcv, ids, given, odd>>

CmdVerified ==
    /\ cmd.pc = "verifying"
    /\ tok' = IF cmd.res = 0 THEN tok ELSE cmd.k
    /\ IF cmd.res = 0 \/ eng.status # "paused"
       THEN cmd' = NoCmd /\ UNCHANGED <<exp, eng, faults>>
       ELSE /\ eng' = Resumed(eng)
            /\ \E res \in {0, prev + 1} :
                  /\ Sync(Resumed(eng), prev, res)
                  /\ cmd' = [cmd EXCEPT !.pc = "resuming", !.res = res, !.pre = eng]
    /\ UNCHANGED <<runs, lease, fence, prev, owner, ctrl, loop, abt, pse, rcv, ids, given, odd>>

\* The loop runs again; or the write failed, the engine is paused again, and
\* the record is read to see whether it is still paused too.
CmdResumed ==
    /\ cmd.pc = "resuming"
    /\ \/ /\ cmd.res = 0
          /\ eng' = cmd.pre
          /\ cmd' = [cmd EXCEPT !.pc = "checking", !.res = IF exp.status = "paused" THEN 1 ELSE 0]
          /\ UNCHANGED <<exp, runs, lease, prev, tok, owner, loop, ids, faults>>
       \/ /\ cmd.res # 0
          /\ prev' = cmd.res
          /\ cmd' = NoCmd
          /\ \E l \in Loops : loop[l].pc = "off" /\ NextTask(l, eng, cmd.res, cmd.k)
    /\ UNCHANGED <<fence, ctrl, abt, pse, rcv, given, odd>>

CmdChecked ==
    /\ cmd.pc = "checking"
    /\ IF cmd.res = 1 THEN UNCHANGED <<lease, tok, owner, eng>>
       ELSE /\ owner' = FALSE
            /\ eng' = NoEngine
            /\ IF tok # 0 /\ lease = tok THEN lease' = 0 /\ tok' = 0 ELSE UNCHANGED <<lease, tok>>
    /\ cmd' = NoCmd
    /\ UNCHANGED <<exp, runs, fence, prev, ctrl, loop, abt, pse, rcv, ids, given, faults, odd>>

-----------------------------------------------------------------------------
(* recoverOnStartup, of another tab or of a later session.                 *)

FirstRunning(atts) ==
    LET running == Places(atts, {"running"})
    IN  CHOOSE i \in running : \A j \in running : i <= j

\* The lease was free.  A draft is deleted, and the tasks with a running
\* attempt of a running or paused experiment are visited in order.
RcvStart ==
    /\ rcv.pc = "off"
    /\ exp.status \in {"draft", "running", "paused"}
    /\ lease = 0 /\ fence < MaxFence
    /\ fence' = fence + 1 /\ lease' = fence + 1
    /\ \/ /\ exp.status = "draft" /\ exp' = NoExp
          /\ rcv' = [NoRcv EXCEPT !.pc = "ending", !.k = fence + 1]
       \/ /\ exp.status # "draft"
          /\ rcv' = [NoRcv EXCEPT !.pc = "tasks", !.k = fence + 1, !.snap = exp,
                        !.todo = {t \in Tasks : Places(exp.att[t], {"running"}) # {}}]
          /\ UNCHANGED exp
    /\ UNCHANGED <<runs, eng, prev, tok, owner, ctrl, loop, cmd, abt, pse, ids, given, faults, odd>>

RcvTask == CHOOSE t \in rcv.todo : \A x \in rcv.todo : t <= x

RcvAttempt == rcv.snap.att[RcvTask][FirstRunning(rcv.snap.att[RcvTask])]

RcvRead ==
    /\ rcv.pc = "tasks" /\ rcv.todo # {}
    /\ rcv' = [rcv EXCEPT !.pc = "reading",
                          !.load = {runs[r] : r \in {RcvAttempt.run} \cap DOMAIN runs}]
    /\ UNCHANGED <<durable, eng, prev, tok, owner, ctrl, loop, cmd, abt, pse, ids, given,
                   faults, odd>>

\* The attempt takes this status in the record recovery is going to write.
RcvAttemptBecomes(status) ==
    LET t == RcvTask
        atts == [rcv.snap.att[t] EXCEPT ![FirstRunning(rcv.snap.att[t])].status = status]
    IN  rcv' = [rcv EXCEPT !.pc = "tasks", !.todo = @ \ {t}, !.load = {},
                           !.snap = [@ EXCEPT !.att[t] = atts, !.sel[t] = Select(atts)]]

\* A run that is over is adopted; another is interrupted together with its
\* attempt, and a conflict ends the recovery.
RcvSettle ==
    /\ rcv.pc = "reading"
    /\ LET r == RcvAttempt.run
       IN  \/ /\ rcv.load = {} /\ RcvAttemptBecomes("interrupted")
              /\ UNCHANGED <<runs, faults>>
           \/ \E row \in rcv.load :
                 /\ row.status \in OverStatus /\ RcvAttemptBecomes(row.status)
                 /\ UNCHANGED <<runs, faults>>
           \/ \E row \in rcv.load :
                 /\ row.status = "running" /\ runs[r].rev = row.rev
                 /\ runs' = [runs EXCEPT ![r] = Rewritten(@, "interrupted")]
                 /\ RcvAttemptBecomes("interrupted")
                 /\ UNCHANGED faults
           \/ \E row \in rcv.load :
                 /\ row.status = "running" /\ Fails(runs[r].rev = row.rev)
                 /\ rcv' = [rcv EXCEPT !.pc = "ending"]
                 /\ UNCHANGED runs
    /\ UNCHANGED <<exp, lease, fence, eng, prev, tok, owner, ctrl, loop, cmd, abt, pse, ids,
                   given, odd>>

RcvWrite ==
    /\ rcv.pc = "tasks" /\ rcv.todo = {}
    /\ \E res \in {0, rcv.snap.rev + 1} :
          Sync([rcv.snap EXCEPT !.status = "interrupted"], rcv.snap.rev, res)
    /\ rcv' = [rcv EXCEPT !.pc = "ending"]
    /\ UNCHANGED <<runs, lease, fence, eng, prev, tok, owner, ctrl, loop, cmd, abt, pse, ids,
                   given, odd>>

RcvEnd ==
    /\ rcv.pc = "ending"
    /\ lease' = IF lease = rcv.k THEN 0 ELSE lease
    /\ rcv' = NoRcv
    /\ UNCHANGED <<exp, runs, fence, eng, prev, tok, owner, ctrl, loop, cmd, abt, pse, ids,
                   given, faults, odd>>

-----------------------------------------------------------------------------
\* The lease runs out, the heartbeat of its holder being throttled or dead.
LeaseExpires ==
    /\ lease # 0
    /\ lease' = 0
    /\ odd' = IF lease \in {tok, cmd.k, rcv.k} THEN "lost" ELSE odd
    /\ UNCHANGED <<exp, runs, fence, eng, prev, tok, owner, ctrl, loop, cmd, abt, pse, rcv, ids,
                   given, faults>>

\* The tab is closed or reloaded: all it had in memory is gone.
Close ==
    /\ cmd # NoCmd \/ eng.status # "none"
    /\ odd' = "lost"
    /\ eng' = NoEngine /\ prev' = 0 /\ tok' = 0 /\ owner' = FALSE /\ ctrl' = 0
    /\ loop' = [l \in Loops |-> NoLoop]
    /\ cmd' = NoCmd /\ abt' = NoAbt /\ pse' = {}
    /\ UNCHANGED <<durable, rcv, ids, given, faults>>

LoopStep(l) ==
    \/ LoopBase(l) \/ LoopBegun(l) \/ LoopExecute(l) \/ RunLoad(l) \/ RunWrite(l)
    \/ LoopExecuted(l) \/ LoopCommit(l) \/ LoopCommitted(l) \/ LoopAdvance(l)
    \/ LoopFailing(l) \/ LoopFinalized(l) \/ LoopFailed(l)

CmdStep ==
    \/ CmdAcquire \/ CmdAcquired \/ CmdCreated \/ CmdPlanned \/ CmdSynced
    \/ CmdVerified \/ CmdResumed \/ CmdChecked

User ==
    \/ UserAborts \/ UserPauses \/ CmdResume
    \/ \E kind \in {"start", "retry", "plan"} : CmdRead(kind)

Control == AbortRead \/ AbortFinalized \/ AbortEnds \/ PauseEnds \/ LeaseNoticed

Recovery == RcvStart \/ RcvRead \/ RcvSettle \/ RcvWrite \/ RcvEnd

Next ==
    \/ \E l \in Loops : LoopStep(l)
    \/ CmdStep \/ User \/ Control \/ Recovery
    \/ LeaseExpires \/ Close

Spec == Init /\ [][Next]_vars
-----------------------------------------------------------------------------
LoopPositions ==
    {"off", "base", "beginning", "begun", "executing", "executed", "committing", "committed",
     "failing", "finalized", "failed"}

Idle == Quiet /\ rcv = NoRcv

CmdPositions ==
    {"off", "read", "acquiring", "creating", "planning", "syncing", "verifying", "resuming",
     "checking"}

ExpRow == [status : ExpStatus \cup {"none"}, rev : Nat,
           att : [Tasks -> Seq(Attempt)], sel : [Tasks -> Nat]]

LoopType ==
    [pc : LoopPositions, task : Tasks \cup {0}, at : Nat, run : 0 .. ids, plan : Plan,
     k : 0 .. fence, res : Nat, load : SUBSET Run, pre : Engines, sig : BOOLEAN,
     lossy : BOOLEAN]

CmdType == [kind : {"none", "start", "retry", "plan", "resume"}, pc : CmdPositions,
            k : 0 .. fence, res : Nat, snap : ExpRow, pre : Engines]

AbtType == [pc : {"off", "reading", "finalized", "syncing"}, run : 0 .. ids,
            load : SUBSET Run, res : Nat]

RcvType == [pc : {"off", "tasks", "reading", "ending"}, k : 0 .. fence, snap : ExpRow,
            todo : SUBSET Tasks, load : SUBSET Run]

\* The rows, the engine and all that is in flight are what the code works
\* with; coverage counts models of the roster only.
ExperimentTypeOK ==
    /\ exp \in ExpRow
    /\ ids \in Nat /\ DOMAIN runs \subseteq 1 .. ids
    /\ \A r \in DOMAIN runs : runs[r] \in Run
    /\ fence \in 0 .. MaxFence /\ lease \in {0, fence} /\ tok \in 0 .. fence
    /\ eng \in Engines /\ prev \in Nat
    /\ owner \in BOOLEAN /\ ctrl \in Loops \cup {0} /\ pse \subseteq Nat
    /\ loop \in [Loops -> LoopType]
    /\ cmd \in CmdType /\ abt \in AbtType /\ rcv \in RcvType
    /\ commands \in 0 .. MaxCommands /\ resumes \in 0 .. MaxResumes /\ rushed \in BOOLEAN
    /\ faults \in 0 .. MaxFaults
    /\ odd \in {"none", "hasty", "lost"}

\* Until a command is given while something else is under way, an attempt
\* that is over keeps its status and its run, although the whole record is
\* written again and again from the memory of a tab.  (A commit that fails
\* while an abort is under way takes the engine back behind it.)
OverAttemptsAreFinal ==
    [][~rushed' /\ exp'.status # "none" /\ odd # "lost" /\ faults = 0 =>
          \A t \in Tasks : \A i \in Places(exp.att[t], OverStatus) :
             /\ i \in DOMAIN exp'.att[t]
             /\ exp'.att[t][i].status = exp.att[t][i].status
             /\ exp'.att[t][i].run = exp.att[t][i].run]_vars

\* Until a command is given while something else is under way, evidence
\* accepted for a task is the verdict of the run it links to, and of such
\* evidence the one the policy selects is selected, although attempts,
\* selection and runs are written by different transactions.
EvidenceIsTheRuns ==
    ~rushed => \A t \in Tasks :
        /\ exp.sel[t] = Select(exp.att[t])
        /\ \A i \in DOMAIN exp.att[t] :
              exp.att[t][i].status \in Evidence =>
                  /\ exp.att[t][i].run \in DOMAIN runs
                  /\ runs[exp.att[t][i].run].status = exp.att[t][i].status

\* What is over runs again by the first write of a command only.
StaysOver == exp.status \in Terminal /\ exp'.status \notin Terminal => cmd'.pc = "syncing"

\* An experiment that is over runs again only by a command of the user: no
\* status written late, by a loop, an abort or a pause, brings it back.
OverExperimentStaysOver == [][StaysOver]_vars

\* Until a command is given while something else is under way, every run of
\* the experiment is linked by one attempt, whichever record was written last.
RunsAreLinked ==
    ~rushed => \A r \in DOMAIN runs :
        LET links == UNION {{<<t, i>> : i \in {j \in DOMAIN exp.att[t] : exp.att[t][j].run = r}} :
                               t \in Tasks}
        IN  \E link \in links : links = {link}

\* A tab at rest, whose user interrupted nothing halfway and gave every
\* command at rest, has its experiment over or paused; one that is over is
\* let go of, with nothing unfinished.
IdleIsSettled ==
    Idle /\ ~rushed /\ odd = "none" /\ faults = 0 =>
        /\ exp.status \in Terminal \cup {"paused", "none"}
        /\ exp.status \in Terminal => lease = 0 /\ ~owner
        /\ exp.status \in Terminal => \A t \in Tasks : Places(exp.att[t], Unfinished) = {}

\* An abort wins against the writes that are under way: when the tab is at
\* rest again, its experiment is over.  The code breaks this, since an abort
\* whose write comes second is not written again.
AbortsAreRecorded ==
    Quiet /\ eng.status = "aborted" /\ odd # "lost" /\ faults = 0 => exp.status \in Terminal
=============================================================================
