--------------------------- MODULE ExperimentEngine ---------------------------
(***************************************************************************)
(* The experiment engine, src/src/lib/evaluations/experiment-engine.ts, as *)
(* operators on its state: the record it works on, the queue, the active   *)
(* attempt and the pause flag.  The engine does no I/O; ExperimentRun has  *)
(* the controller that persists what it decides.                           *)
(*                                                                         *)
(* A task's attempts are a sequence and an attempt is named by its place   *)
(* in it, since attempts are only appended; 0 stands for a null attempt or *)
(* run id.  The epochs are left out: every caller passes the current one.  *)
(***************************************************************************)
EXTENDS Naturals, Sequences, FiniteSets

CONSTANT NTasks           \* the tasks of the suite are 1 .. NTasks, in order

ASSUME NTasksAssumption == NTasks \in Nat \ {0}

Tasks == 1 .. NTasks

Evidence   == {"completed", "partial"}
OverStatus == Evidence \cup {"failed", "aborted", "interrupted"}

RunStatus     == OverStatus \cup {"running"}
AttemptStatus == RunStatus \cup {"queued"}

\* `plan` is the repair plan an attempt carries: with a base run whose outputs
\* it reuses ("compound"), or the whole roster anew.  `cov` counts the models
\* its Judge scored, from 1; 0 when there is no coverage metadata.
Plan    == {"none", "compound", "roster"}
Attempt == [status : AttemptStatus, run : Nat, plan : Plan, cov : 0 .. 2]

Terminal  == {"completed", "completed_with_failures", "aborted", "interrupted"}
ExpStatus == Terminal \cup {"draft", "running", "paused"}

Engine == [status : ExpStatus, att : [Tasks -> Seq(Attempt)], sel : [Tasks -> Nat],
           queue : Seq(Tasks), task : 0 .. NTasks, at : Nat, pause : BOOLEAN]

Places(atts, S) == {i \in DOMAIN atts : atts[i].status \in S}

Newest(P) == CHOOSE i \in P : \A j \in P : j <= i

\* selectAttemptId: the newest completed attempt; else the partial one with
\* the highest coverage, the newest of these; else none.
Select(atts) ==
    LET completed == Places(atts, {"completed"})
        partial   == Places(atts, {"partial"})
        best      == {i \in partial : \A j \in partial : atts[j].cov <= atts[i].cov}
    IN  IF completed # {} THEN Newest(completed)
        ELSE IF best # {} THEN Newest(best) ELSE 0

NewAttempt(run, status, plan) == [status |-> status, run |-> run, plan |-> plan, cov |-> 0]

\* Puts attempt i in place, appending it when it is new.
WithAttempt(atts, i, a) == IF i \in DOMAIN atts THEN [atts EXCEPT ![i] = a] ELSE Append(atts, a)

\* createExperimentEngine on a record.
EngineOf(record) ==
    [status |-> record.status, att |-> record.att, sel |-> record.sel,
     queue |-> <<>>, task |-> 0, at |-> 0, pause |-> FALSE]

AllTasks == [t \in Tasks |-> t]

DraftStarted(e) == [e EXCEPT !.status = "running", !.queue = AllTasks]

\* nextAction is begin-task: its head of the queue is next.
Begins(e) == e.status = "running" /\ e.task = 0 /\ ~e.pause /\ e.queue # <<>>

MayBegin(e, t, i) ==
    /\ e.status = "running" /\ e.task = 0
    /\ e.queue # <<>> /\ Head(e.queue) = t
    /\ i \in DOMAIN e.att[t] => e.att[t][i].run = 0 /\ e.att[t][i].status = "queued"

\* Mutant: the run is not linked in the engine, only by the unit of work.
TaskBegunUnlinked(e, t, i, run) ==
    [e EXCEPT !.att[t] = WithAttempt(@, i, NewAttempt(0, "running", "none")),
              !.queue = Tail(@), !.task = t, !.at = i]

\* The attempt is built anew, without the plan it was queued with.
TaskBegun(e, t, i, run) ==
    [e EXCEPT !.att[t] = WithAttempt(@, i, NewAttempt(run, "running", "none")),
              !.queue = Tail(@), !.task = t, !.at = i]

Accepted(atts) == Places(atts, Evidence) # {}

\* Mutant: a pause that was asked for comes before the end of the queue.
SettledPauseFirst(e) ==
    IF e.pause THEN [e EXCEPT !.pause = FALSE, !.status = "paused"]
    ELSE IF e.queue # <<>> THEN e
    ELSE [e EXCEPT !.status = IF \A t \in Tasks : Accepted(e.att[t])
                              THEN "completed" ELSE "completed_with_failures"]

\* settleBoundary: finalize when the queue is empty, else pause if asked to.
Settled(e) ==
    IF e.queue = <<>>
    THEN [e EXCEPT !.pause = FALSE,
                   !.status = IF \A t \in Tasks : Accepted(e.att[t])
                              THEN "completed" ELSE "completed_with_failures"]
    ELSE IF e.pause THEN [e EXCEPT !.pause = FALSE, !.status = "paused"]
    ELSE e

Reselected(e, t) == [e EXCEPT !.sel[t] = Select(e.att[t])]

MayCommit(e, t, i) == e.task = t /\ e.at = i /\ e.att[t][i].status = "running"

\* The run's status becomes the attempt's, mapRunStatusToAttemptStatus.
Finalized(a, status, cov, plan) ==
    [a EXCEPT !.status = status, !.cov = cov, !.plan = IF plan = "none" THEN @ ELSE plan]

TaskCommitted(e, t, i, status, cov, plan) ==
    Settled(Reselected([e EXCEPT !.att[t][i] = Finalized(@, status, cov, plan),
                                 !.task = 0, !.at = 0], t))

PauseRequested(e) ==
    IF e.status # "running" THEN e
    ELSE IF e.task = 0 THEN [e EXCEPT !.pause = FALSE, !.status = "paused"]
    ELSE [e EXCEPT !.pause = TRUE]

Resumed(e) == [e EXCEPT !.status = "running"]

Unfinished == {"queued", "running"}

\* Mutant: all that was not completed is aborted.
StoppedUnlessCompleted(atts) ==
    [i \in DOMAIN atts |-> IF atts[i].status # "completed"
                           THEN [atts[i] EXCEPT !.status = "aborted"] ELSE atts[i]]

Stopped(atts) ==
    [i \in DOMAIN atts |-> IF atts[i].status \in Unfinished
                           THEN [atts[i] EXCEPT !.status = "aborted"] ELSE atts[i]]

\* abort: every attempt that is queued or running ends with the experiment.
Aborted(e) ==
    IF e.status \notin {"running", "paused", "draft"} THEN e
    ELSE LET att == [t \in Tasks |-> Stopped(e.att[t])]
         IN  [e EXCEPT !.status = "aborted", !.att = att,
                       !.sel = [t \in Tasks |-> IF att[t] = e.att[t] THEN @[t] ELSE Select(att[t])],
                       !.queue = <<>>, !.task = 0, !.at = 0, !.pause = FALSE]

\* A task's newest attempt carries a plan that did not come through.
PlanUnfinished(atts) ==
    /\ atts # <<>>
    /\ LET a == atts[Len(atts)]
       IN  a.plan # "none" /\ a.status \in {"failed", "aborted", "interrupted"}

NeedsRetry(atts) == Places(atts, {"completed"}) = {}

Retried(e) == {t \in Tasks : NeedsRetry(e.att[t]) \/ PlanUnfinished(e.att[t])}

\* These tasks, in the order of the suite.
InOrder(S) ==
    CHOOSE q \in [1 .. Cardinality(S) -> S] : \A i, j \in DOMAIN q : i < j => q[i] < q[j]

\* Appends a queued attempt to each of the tasks, with its plan.
Queued(e, plans) ==
    [e EXCEPT !.att = [t \in Tasks |-> IF t \in DOMAIN plans
                                       THEN Append(@[t], NewAttempt(0, "queued", plans[t]))
                                       ELSE @[t]],
              !.queue = InOrder(DOMAIN plans), !.status = "running"]

\* retryIncomplete: a task without a completed attempt starts over, one whose
\* newest plan did not come through runs that plan again.
RetryPlans(e) ==
    [t \in Retried(e) |-> IF NeedsRetry(e.att[t]) THEN "none" ELSE e.att[t][Len(e.att[t])].plan]
=============================================================================
