# RSemble: a verification project

RSemble is a browser application that asks several language models the same question, has a Judge
model compare their answers and, if wanted, a Fusion model merge them.  It has no server of its own:
every tab is a full instance of the program, all tabs share one IndexedDB database, and the calls it
makes to model providers cost money.  What can go wrong is therefore mostly a matter of order: two
tabs over one database, the awaits of one tab interleaving with each other, a tab closed halfway, a
write that fails when the answer is already paid for.

These modules specify that part of the program.  They are written from the TypeScript sources under
`src/src/`; every definition that models code is listed in `PROJECT.json` under `map` with the lines
it stands for.  TLC checks them on small instances, TLAPS proves the theorems for every instance.

1. [The system](#1-the-system)
2. [The modules and how they correspond to the code](#2-the-modules-and-how-they-correspond-to-the-code)
3. [The runs, their bounds, and fairness](#3-the-runs-their-bounds-and-fairness)
4. [The proofs](#4-the-proofs)
5. [Where the code and its documents disagree](#5-where-the-code-and-its-documents-disagree)
6. [What is not modelled](#6-what-is-not-modelled)
7. [The plan](#7-the-plan)

## 1. The system

### Parts that keep shared state

**Execution lease** (`lib/execution-lease.ts`).  Two rows of a meta table: the active lease (owner,
lease id, fence, expiry) and the highest fence ever issued.  Operations: `acquire`, `renew`,
`release`, `verify`, with a token or against the instance's own current lease, and
`acquireForRecovery`, which waits once for a live lease to end.  Paid execution of any kind, in any
tab, happens under the lease.  Hard: an acquisition whose transaction has committed but whose
continuation has not run; callbacks of an earlier controller of the same tab; expiry while a tab is
throttled.  Correct when: at most one live holder, a fence per acquisition, a stale token stays stale,
a late callback touches nothing that is not its own.

**Run repository and recorder** (`persistence/run-repository.ts`, `run-recorder.ts`).  Run rows with a
revision.  A write is a read, a mutation in memory and a transaction that checks the revision and,
for Compare runs, the lease.  Hard: everything between the read and the transaction.  Correct when: a
superseded tab commits nothing, and a run that is over is not made to run again.

**Run record** (`persistence/run-record-builder.ts`, `run-types.ts`).  Candidates with their attempts,
the Judge and the Fusion with theirs, and a status derived anew after every mutation.  Correct when:
accepted evidence is about the outputs that are accepted now, and nothing claims to be running in a
run that is over.

**Compare controller, executor and stages** (`run-controller.ts`, `run-executor.ts`,
`execution-stages.ts`), with the reducer of the output pane (`studio-engine.ts`).  The controller
acquires the lease for a command (run, retry a candidate, retry the Judge, fuse), gives the executor
its lifecycle events, each of which writes the record and then dispatches to the reducer, and releases.
Hard: a write that fails or is refused between the provider's answer and what is shown; aborts and
lease loss at any await; retries long after the stages they build on.

**Startup recovery** (`recoverInterruptedRuns` in the lease module).  A tab that starts acquires the
lease, or waits for it, and marks the running runs of dead owners interrupted.  It shares the lease
instance with the Compare controller of its tab.  Hard: a command that rebinds the very run that
recovery has just read.

**Experiment engine and controller** (`evaluations/experiment-engine.ts`,
`experiment-controller.ts`, `persistence/experiment-unit-of-work.ts`, `evaluation-repository.ts`).  An
experiment runs every task of a suite, one after the other, each as a run of its own.  The engine is a
state machine without I/O; the controller persists what it decides, by three kinds of transaction: the
unit of work (a run and the experiment together, fenced), `updateExperiment` (the whole experiment
row, from memory, unfenced), and writes of the run alone.  Users start, pause, resume, abort, retry,
repair single cells and extend the roster.  Hard: the whole-row write over what another transaction
wrote; the engine going on in memory while its write is refused; recovery by another tab.  Correct
when: no finished attempt and no run is lost, accepted evidence is the verdict of its run, nothing
completed is paid for twice, an experiment that is over stays over.

### Parts of its services

**Pre-call persistence** (`compare/pre-call-persistence.ts`, `runFanout`, the comparison repository).
Before a Compare run calls a model, the run, the instance of its task and its comparison envelope are
stored, each by a transaction of its own; a failure on the way is compensated by aborting the run.
Later a comparison may be bound to a task, and its index rebuilt from the record.  Hard: a fault, a
lost lease or a closed tab between any two of the writes; a second press of Run.  Correct when: what is
paid for is stored first, and a failed start leaves nothing that says running.

**Heartbeat** (`execution-heartbeat.ts`).  Renews the lease from a worker, a timer, and when the page
becomes visible.  Hard: renewals are promises that settle after a stop or a second start.  Correct
when: an error is told to the life of the heartbeat it belongs to, and once, and no two renewals of
one life are under way together.

**Deadlines of a provider call** (`execution-deadline.ts` under the OpenAI-compatible adapter).  A connect clock, an
inactivity clock and an overall clock, wired to the caller's abort signal and to the fetch.  Hard:
timers that run late, listeners taken down one by one.  Correct when: only a call that earned it is
timed out, and an aborted run ends its calls.

**Migrations** (`persistence/migration-registry.ts` and the migrations it runs).  At startup every tab
runs the pending steps under an owner lease: inspect, apply item by item, verify, record.  Hard:
crashes between two items, failed writes, two tabs at once when the lease lapses.  Correct when: the
order of the steps is kept, a completion is true, and everything is migrated in the end.

**Search index** (`search/search-reindex.ts`, `persistence/search-index-repository.ts`).  A derived index, cleared and filled again under a
lease, and repaired hit by hit.  Hard: a rebuild that dies or overlaps another between the clearing
and the filling.  Correct when: it does not stay empty.

**Evidence index** (`evidence/derive-observations.ts`, `persistence/evidence-reindex.ts`,
`evidence-repository.ts`).  Observations derived from the committed runs of experiments by two
mechanisms that share the stores: the queue of a tab, by claims, and a pass at its startup, by a
lease.  Hard: a derivation depends on the run that the task has selected *now*; claims and leases are
lost while a derivation goes on.  Correct when: a complete marker may be believed.

**Policy studies** (`studies/policy/policy-study-adapter.ts`, `study-repository.ts`, the study page and
its editor).  A draft is edited, sealed and run; the run works in memory until its models have
answered, then writes trials one by one, a report, and the completion.  Nothing leases a study.  Hard:
saves chained behind one another while Seal is pressed; two runs of one study side by side; a run that
fails and marks its study from a row it has read before.  Correct when: what is sealed is what was
shown, a report rests on all of its run, and a study is decided once.

**Task sets** (`persistence/evaluation-repository.ts`, `task-set-repository.ts`,
`task-set-migration.ts`, `suite-compat.ts`, the editor and list pages).  A task set is kept twice: the
row of the suite the editor shows, and a Task Set with immutable, numbered versions that runs are made
of.  Pages save it, run it, archive it; the results page adds a model to it; a migration numbered the
versions of older suites.  Hard: each of these is a chain of reads and one transaction, and they touch
different tables.  Correct when: nobody publishes a version from something else than what is stored,
the two records agree, and a run is given what its page showed.

**Tasks, rubrics and families** (`persistence/task-repository.ts`, `evaluation-repository.ts` and
their pages).  A task and a rubric are a record with immutable versions; families form a hierarchy, and
a task is assigned to them, to one as its primary family.  Every write compares the revision of a copy;
the pages differ in whether they pass the copy they loaded or read again just before.  Hard: copies of
any age in several tabs, archive dates written from a copy.  Correct when: a task is a line of
versions, no version is written over, archiving is not undone by accident, families are a forest, and
a task has one primary family.

### Parts that are not modelled

The playbook execution (a second executor), older fusion studies and confirmation studies, lab assets, model rollups and profiles, archives, the codex bridge (a small proxy server),
scoring and ranking, the user interface.  `PROJECT.json` lists each of them under `components` with
its sources and the reason.

### Who calls whom

    startup: migrations ─► background search step;  startup recovery;  evidence pass   (every tab)

    user ──► Compare controller ─► pre-call persistence ──────────────┐
                 │   │                                                │
                 │   └► execution lease ◄── heartbeat, recovery       ▼
                 ├──► executor / stages ──► deadlines ──► providers   IndexedDB ◄── other tabs
                 │         │ events                                   ▲   ▲
                 │         ▼                                          │   │
                 ├──► recorder ──► run repository ────────────────────┘   │
    user ──► experiment controller ──► unit of work, updateExperiment ────┤
                 │ committed runs                                         │
                 └──► derivation queue ──► evidence repository ───────────┤
    user ──► study page ──► policy-study adapter ──► study repository ────┤
    user ──► task set, task, rubric and family pages ──► their repositories ┘

## 2. The modules and how they correspond to the code

| module | models | extends |
|---|---|---|
| `FencedLock` | what the lease promises: one holder, rising fences, no revival | |
| `ExecutionLease` | the lease | |
| `RunRecovery` | Compare controllers and startup recoveries of all tabs over the run rows, at the level of a run's status | `ExecutionLease` |
| `RunRecord` | the record and the builder, as operators | |
| `CompareRun` | one run: executor, stages, controller, pane | `RunRecord` |
| `PreCall` | the start of a run, up to its first call | |
| `ProviderCall` | one call under its clocks | |
| `Heartbeat` | the renewals of a lease | |
| `ExperimentEngine` | the engine, as operators | |
| `ExperimentRun` | one experiment: controller, unit of work, recovery | `ExperimentEngine` |
| `MigrationRegistry` | the startup migrations of all tabs | |
| `SearchIndex` | the search index, its sources and its rebuilds | |
| `EvidenceIndex` | the derivation queue and the startup pass of all tabs | |
| `EvidenceDrains` | what a drain that lost its claim leaves behind (history), fairness of the queues | `EvidenceIndex` |
| `PolicyStudy` | one policy study: editor, pages, runs | |
| `TaskSets` | one task set: pages, addition of a model, workloads of runs | |
| `VersionLog` | what a task promises: a line of versions with a shelf | |
| `TaskRecords` | one task, its row and its versions | |
| `Rubrics` | one rubric and its versions | |
| `TaskFamilies`, `FamilyLinks` | the hierarchy of families; the assignments of a task to them | |
| `MCCompareRun` | symmetry of the candidates | `CompareRun` |
| `MCPaidWork` | a Compare run or a policy study, for one run of TLC | `MCCompareRun`, `PolicyStudy` |
| `MCLeases` | the lease, or the drains of the evidence index, for one run of TLC | `ExecutionLease`, `EvidenceDrains` |
| `MCExperimentAgain` | a bound for commands given at any time | `ExperimentRun` |
| `MCEvidenceIndex` | symmetry of the pages | `EvidenceIndex` |
| `MCServices` | a call, a heartbeat, a start, the migrations or the search index, likewise | those five |
| `MCTaskSets` | the histories of migrated suites | `TaskSets` |
| `MCCatalog` | a task set, a task, a rubric, the families or the assignments, likewise | `MCTaskSets`, those four |
| `RunRecoveryProofs` (and of `ExecutionLease`), `CompareProofs`, `ExperimentProofs` and `ExperimentCalmProofs` (while nothing is lost or fails), `ServicesProofs` (of the five parts of `MCServices`), `EvidenceProofs`, `PolicyStudyProofs`, `CatalogProofs` (of the five parts of `MCCatalog`) | the theorems about the modules their names say | those modules, TLAPS |

Parts that share no state are checked together in one run: a behaviour of `MCLeases`, `MCPaidWork`, `MCServices` or
`MCCatalog` chooses one part and is a behaviour of that part, while the variables of the others stay where they
begin.  Nothing is asked there of two parts at once.

### ExecutionLease

A method's IndexedDB transaction is one step; the continuation of `acquire` in the calling tab is
another (`AcquireReturn`), because between the two nobody holds the token of a live lease.  `tokens[t]`
keeps every token a tab was ever handed, and any of them may be renewed or released at any time: that
is a delayed heartbeat, or the late `finally` of an earlier controller.  `left` is the remaining
lifetime in ticks; the wall clock is assumed not to run backwards.  A method that throws or returns
without writing is no step.  `Lock` is the refinement to `FencedLock`: `held` is the live lease, seen
as owner and fence.

### RunRecovery

Each tab has one Compare controller and one recovery, both on the tab's lease instance.  A controller
acquires, rebinds a run to its fence or creates one, writes any number of times, releases; a recovery
goes through `acquireForRecovery`, `verify`, the listing and, per run, a read and a write.  A write is
two steps: `CtlLoad`/`CtlCommit`, `RecRead`/`RecWrite`.  "ended" stands for four statuses that the sweep
does not tell apart.  The sweep judges the expiry by the clock it read with the row (`checkedAt` in
the code), so `RecRead` gives up an expired lease and `MayInterrupt` checks only that the row of the
lease still matches.

An interruption has three outcomes (`RecWrite`): the row is written, the transaction refuses it, or it fails
although it might have been written.  The sweep catches all of them and goes on.  The history `missed`
keeps the runs of the third kind, which a complete sweep leaves running.  A verification, a listing or a read that
fails ends the sweep (`RecFails`), and the release in its `finally` may fail too.

### RunRecord and CompareRun

`RunRecord` translates the builder mutation by mutation.  `CompareRun` starts where `PreCall` has
created the record.  A lifecycle event of the executor is two steps, the write and what is shown,
and every write has two outcomes, `Commit` and `WriteFails`; the latter covers a storage fault and the
refusal of the repository.  Candidates proceed independently.  Simplifications, each of them sound:

- One run per behaviour.  Commands do not overlap: `++runEpoch` makes every later event of an earlier
  command throw, so a second command first ends the first (`Overtaken`) and is then refused the lease.
- The check before a write (`assertCurrentLease`) is merged with the fenced write: a lease that failed
  the check fails the transaction as well (theorem `NoRevival`).
- `markAborted` is atomic with the abort, since the per-run queue of the recorder lets no later write
  of the run come between them.
- `upset` records what went wrong, and the property that supposes nothing did (`IdleRunIsSettled`)
  says so; `ShownIsDurable` and the evidence properties suppose nothing.
- Blocked commands other than `runFanout` change nothing and are no step.

### ExperimentEngine and ExperimentRun

`ExperimentEngine` translates each transition of the engine to an operator on a record with the same
fields.  An attempt is named by its place in its task's sequence (attempts are only appended), a run
by the number of its generated id.  The epochs are left out: every caller passes the current one, so
the check in `commitTaskTerminal` never fails.  Coverage is 0 (none), 1 (partial) or 2 (full).

In `ExperimentRun` a transaction takes effect when it is issued (IndexedDB runs overlapping
transactions in the order of their creation) and its result is delivered later; controller code
between two awaits is one step, with all it does.  So `LoopCommit` is the part of `commitTaskTerminal`
up to the await of the unit of work, `LoopCommitted` the part up to the await of the status write, and
so on; `res` holds the outcome that has not been seen yet.

- `Loops` are the run loops: two, because a second one may start while the first still drains.
- `abt`, `pse`, `cmd`, `rcv` are an abort, a pause, a command and a recovery in flight.
- The lease is the fence of the live lease, or 0; `tok` is `activeLease`, `owner` the in-tab ownership
  registry.  A release uses the token the controller holds *by then*, as in the code.
- `Shown` is what the buttons of the page allow.
- Recovery (`Rcv...`) is that of another tab, or of a later session after `Close`.
- Deleting the draft of a failed start and the release that follows are one step.
- `rushed` remembers that a command was given while something else was under way, which the page allows:
  Retry is offered as soon as an abort is recorded, when its loop may still be draining.
- `odd` remembers that a user interrupted something halfway (`hasty`), or that a lease was lost or a
  tab closed (`lost`); the properties that need it say so, and section 5 says what happens otherwise.
- A lease that a Compare command of the same tab holds is left out: a release without a token is a
  release of nothing here.  `RunRecovery` has that interplay.

### PreCall

A start is a chain of stages, one transaction each, and every transaction may fail (`trouble` counts
the faults and lost leases a start has met).  `start[r]` is the stage, `holder` the start whose token
is the live lease's, `pressed` the controller's `runEpoch`.  `PressRun` is refused only while the pane
says that a run executes, which it does not say before `Execute`: several starts may be under way, and
all but one are refused the lease.  A start that is not the latest any more ends at `ensureCurrent`
without a trace.  `Settle` stands for all that `CompareRun` has; `Sweep` for `RunRecovery`.  The
comparison index is bound by `Bind` and rewritten by `RebuildReads`/`RebuildWrites`, a read and a
transaction.  Which inputs validate is a free choice.

### ProviderCall and Heartbeat

In `ProviderCall` an abort runs along `wires`, the listeners that are installed at that moment, and the
first reason to reach a signal stays (`Reach`, `AbortAt`).  Clocks count ticks down; a due timer may
run late, never early.  `call` says how the adapter made the call: as a stream, with response headers
marked, with an overall ceiling.  A stream settles only once its pending read has ended, as the
`finally` of the iterator waits for it.  `silent` is a ghost: ticks since the last byte.

In `Heartbeat` a life of the heartbeat is a generation; `renewals` counts those under way per
generation, and any of them may settle at any time.  `told` is a ghost that counts the calls of
`onError`, by the life they are made in and the life whose renewal failed.

### MigrationRegistry and SearchIndex

Each page is a program counter over `execute` and `runStep`.  Of a migration there is its items, each
moved by a transaction of its own, and the marker behind the last one; legacy history has no marker,
and `Verified` is what the code asks instead.  A page that is reloaded or dies gets another owner id
(`GoneTab` is the old one).  `OwnerLapses` may come at any time: nothing renews that lease.
`ResumeMigration` is the button of Data diagnostics.

In `SearchIndex` a document is the revision of its source when it was indexed.  Listing, clearing and
filling are steps of their own, and so are the reading and the repair of a hit that is chosen.

### EvidenceIndex

Runs are numbered by their commits; their rows do not change afterwards.  `Derived(r)` is what the
derivation of a run yields by the selection and the fingerprint of that moment: every cell, or none.
`DeriveWrite` is one cell, model configuration, observation and decision together.  The compare-and-swap
rule of the markers is `Accepts`, at the stored revision.  A claim or a lease may be found stale at any time, whether
its holder is gone or only suspended, so two derivations of one run may be under way.  The pass
overwrites markers, the queue finalizes only what it still holds.

Any page may execute, and announces what it commits to its own queue; every queue drains the jobs of all.  A
drain lists the queued jobs (`List`) and claims one of them in a later transaction (`Claim`), which
passes over those that another page has claimed since.  A drain that finds its claim taken when it
finalizes ends.  `EvidenceDrains` adds a history to that: `left`, the jobs queued at the last such end, as long as no
drain has started since.

### PolicyStudy

A definition is named by the edit that made it.  The editor's saves are a queue, as they are chained in
the code; `PressSeal` asks with the revision known by then and overtakes the saves that have not begun.
All stages of the method are one step, since they write nothing; after it every write of a run is a
step, with a fault (`Slips`) or without.  `Fails` is the rejection that reaches `startRun`, which then
reads the study (`ReadFresh`) and marks it failed from what it has read (`MarkFailed`).  `shown` says
whether the page that started a run still hears of it.  What remains of a run is whether it failed,
and whether it could not mark its study (`unmarked`).

### TaskSets

`suite` has two revisions, that of the row and that of the suite inside it, since archiving counts up
one and not the other.  A body is the set of what a version tells apart: tasks, models, and marks (the
role, stratum or weight set on a member), which `Projected` loses as the code does.  A save is four
steps (`SaveReadsSuite`, `SaveReadsSet`, `SaveCommits`, `SaveSettles`), a run up to four, the addition
of a model three; `StorageFails` may end any of them.  `Current` and `Publish` are the checks and the
writes of the one transaction that the editor and the results page share.  A suite older than Task Sets
begins with the history in `past`, numbered as the migration numbers it.  Which archived or unresolved
member refuses a run is a free choice.  Nothing else writes a Task Set: the other operations of its
repository have no caller outside tests.

### TaskRecords, Rubrics, TaskFamilies and FamilyLinks

In each, a tab holds a copy of what it loaded, however long ago, and a write is one transaction that
compares its revision.  `TaskRecords` keeps the row and the record inside the row apart, because an
append writes the archive date of the caller's copy into one and not into the other; `Log` is the
refinement to `VersionLog`, and `on` in a version what its author was shown.  In `Rubrics` and
`TaskFamilies` the pages read again before they write (`Rereads`, `SaveFamily`), and what they write is
a mixture of what they show and what they have read.  `Chain` is where the walk of `assertParentChainValid`
ends up, the least set of families that is closed under going to the parent (`ClosedUpwards`); as in the
walk, each of them has to exist.
In `FamilyLinks` an assignment is a number; which family it names is abstracted.

## 3. The runs, their bounds, and fairness

| run | property | what it says of the code |
|---|---|---|
| `leases`, lease | `StaleTokenStaysStale` | nothing revives a token |
| | `ImplementsFencedLock` | refinement of `FencedLock` |
| `leases`, drains | `AnnouncedIsIndexed` | liveness: without faults the queues of several executing tabs leave every announced run with its marker, except what a drain that lost its claim leaves queued until another starts |
| `recovery` | `SweepLeavesNoZombie`, `SweepSparesLiveRun` | a sweep that keeps its lease gets every run of a dead owner, except those whose write failed, and no run of the present one |
| | `OnlyLatestFenceCommits` | a superseded tab writes nothing |
| | `RecoveryEnds` | liveness: startup never hangs on another tab |
| `paid_work`, Compare | `JudgedOutputsAreAccepted`, `FusionRestsOnItsJudge` | evidence and what it is about stay together across retries |
| | `ShownIsDurable`, `IdleRunIsSettled`, `OnlyReplacementWithdrawsEvidence` | pane and record agree; commands leave a settled run; failures destroy no evidence |
| `paid_work`, study | `SealedIsShown` | what is sealed is the definition the page showed, or one of its saves met a fault |
| | `ReportRestsOnItsRun` | a report rests on every trial of its run, also when runs overlap |
| | `FailedRunEndsStudy` | a failed run leaves no study in progress, unless its mark met a fault of its own |
| `experiment` | `ExperimentTypeOK`, `OverAttemptsAreFinal`, `RunsAreLinked` | the row written whole from memory loses no attempt and no run |
| | `IdleIsSettled`, `OverExperimentStaysOver` | an experiment that is over has nothing unfinished, no lease, and no late write brings it back |
| `experiment_again` | `EvidenceIsTheRuns` | retries, repairs and extensions after a first pass, with a storage fault: evidence and selection agree with the runs |
| | `OverExperimentStaysOver` | as above, with commands given at any time: two loops over one engine |
| `services`, call | `TimeoutsAreEarned`, `AbortEndsHeardCall` | no healthy call is timed out by a late timer; an abort ends every call that is wired to hear it |
| `services`, heartbeat | `ErrorsAreOfTheirLife` | a life reports at most one error, and no late renewal reports into another life; one renewal per life at a time |
| `services`, start | `PaidIsDurable`, `FailedStartIsAborted` | nothing is paid for before it is stored; a failed start is aborted, unless it met two troubles |
| `services`, migrations | `MigratedInOrder`, `EverythingMigrates` | no completion before its items and its dependencies; all is migrated in the end |
| `services`, search | `EmptyIsRebuilt` | the index does not stay empty |
| all five | `ServicesTypeOK` | types |
| `evidence` | `CompleteIsAccounted` | what a complete marker may be believed to say |
| `catalog`, task set | `BasedOnCurrent` | no save and no added model undoes another, or an archiving |
| | `StaysAligned` | the suite and its Task Set do not come apart |
| | `RunsWhatIsShown` | a run is given what its page showed |
| `catalog`, task | `TaskIsVersionLog` | refinement of `VersionLog`, from copies of any age |
| `catalog`, rubric | `VersionsAreKept` | no append writes over a version |
| `catalog`, families | `FamiliesAreAForest` | two tabs that move families make no cycle |
| `catalog`, assignments | `OnlyThePrimaryEnds` | ending the primary assignment shown ends no other |
| all five | `CatalogTypeOK` | types of the task set, the task, the rubric, the families and the assignments |

The four violation runs, `stuck_running`, `abort_overwritten`, `migration` and `migrated_run`, are the
findings of section 5.  Section 4 names properties that are proved and no longer run.

**Bounds.**  Each is a constant of the module and named in its comment.

- `leases`: of the lease 3 tabs, 4 acquisitions, a lifetime of 2 ticks.  Three tabs give a holder, a stale holder
  and a contender; four acquisitions give a tab an old token, a current one and a pending one with
  another tab's in between.  Of the drains 2 pages and 2 commits, no fault: each page may execute one of
  the two runs or both, so that there are two queues with jobs of their own.  No cells, since what is
  asked is about markers: a derivation is then its claim, its result and its finalization.
- `recovery`: 2 tabs, 2 fences, 1 run, 2 revisions, a lifetime of 2 ticks, so that a renewing holder
  outlasts the wait.  Two revisions make a run that is continued after a sweep or another command wrote
  it.  No symmetry, because of the liveness property.  All the properties are about one run and at most
  two actors; that a sweep goes on to the next run after an interruption that failed is in the
  proofs, which have no such bounds.
- `paid_work`: 3 candidates, 1 command after the fanout.  Three, because two usable outputs must be
  able to remain when one fails or is retried; one command, because retry, Judge retry and Fusion after
  a first pass are where evidence may come apart.  A run of the record is otherwise unbounded: faults,
  refusals and lease loss may happen any number of times.  Of the study: 2 pages, 2 trials, 1 edit, 2
  runs, 1 storage fault.  Two of each give a page that seals what another saved, a trial before and
  after a failure, and two runs side by side; the proofs have no such bounds.  Candidates and pages are
  symmetric, and all properties are safety.
- `experiment`: 2 tasks, 1 start, 1 resumption, 2 fences, no storage fault, `MaxRunRev` 1 (the
  recorder writes a run at most once before its verdict).  Two tasks make a boundary between tasks,
  where pauses take effect; the second fence is for a recovery.
  `Patient = TRUE`: a command is given when everything before it is through, though aborts, pauses and
  recoveries come at any moment.
- `experiment_again`: 1 task, 2 commands, no resumption, 2 fences, 1 storage fault, `Patient = FALSE`.  The second
  command is the retry, repair or extension; `LoopBase` and `CmdPlanned` happen here, `CmdResume` and what
  follows it in the other.  Given while the first command's loop drains, it makes two loops; from then on
  `OverExperimentStaysOver` alone goes on to say something (section 5, *Overlapping loops*), and storage faults, expiries
  and closings come no more (`Bounded`), so as to keep the run small.
- `services`: clocks of 2, 2 and 4 ticks, so that the overall clock outlasts connection and one
  silence; generations up to 5, three lives of a heartbeat; 2 presses of Run and 2 troubles, the least
  at which a compensation fails; 2 tabs, 2 items per migration (a crash falls between them) and 1
  mishap; 2 pages and 1 document with 2 revisions and 2 upsets for the search index: one page dies,
  another is held up.
- `evidence`: 2 pages, 1 cell, 2 commits, 1 crash or fault.  Two commits make a run that is superseded
  while it is derived; stale claims and stale leases are not bounded.  The pages are symmetric; the proofs
  hold for any finite number of cells.
- `catalog`: of the task set 2 pages, 1 task, 1 model, 3 versions, drafts one edit away from what was
  loaded or sent, and four histories (two contents under one number; an edit taken back; a number
  without a run; a model added by the results alone); a page, another page and the results page are all
  that can be between one save's read and its transaction.  2 tabs and 5 writes of a task, 2 tabs and 4
  writes of a rubric, enough to append, archive, restore and append from copies made before each; 3
  families, each written once after it was made, and 2 tabs: the shortest cycles that a check of the
  parent alone would miss; 3 assignments.  Marks only in `migrated_run`.  Pages and cards are
  symmetric, and all properties are safety.
- The violation runs have the least constants at which the disagreement shows.

`CHECK_DEADLOCK FALSE` in all runs but `catalog` and `migrated_run`, where a page can always load
again: elsewhere a tab may be closed, an experiment or a call over, a user gone, and
every bounded model ends.

**Fairness** is stated where something must happen, of what the event loop, the clock or an open page
do by themselves, never of a provider or a storage, and of a user in one place only.

- `RunRecovery!RFairSpec` is fair to the clock, to the steps of a recovery that was started and the continuation
  of an `acquire`: promise reactions, which run eventually in an open tab.  No controller is obliged to
  end a command or to stop its heartbeat; `RecoveryEnds` holds nevertheless.
- `CallFairness`: the clock, timers that are due, promises that are settled.
- `MigFairness`: an open page goes on with its registry, a closed one is opened again, *some* open page
  is reloaded again and again, the lease lapses.  `EverythingMigrates` supposes that in the end a single page
  is in use: two pages reloaded for ever may each find the other in its background phase.
- `SearchFairness`: a rebuild under way goes on, leases expire, and the search page is visited again.  The
  last is a user's doing, and the one exception: an index that was cleared is filled again by nothing else
  (`VisitRebuilds`), so `EmptyIsRebuilt` says that it does not stay empty for those who come back to it.
- `QueueFairness`: an open page goes on with its queue.  Nothing is assumed of the startup pass, which
  a page runs once.  `AnnouncedIsIndexed` speaks of behaviours without crash or fault.
- `MCLeases` and `MCServices` restate the fairness of each part for the part that runs.  `ExecutionLease`,
  `PreCall`, `Heartbeat`, `CompareRun`, `ExperimentRun`, `PolicyStudy` and the parts of `MCCatalog`
  have safety properties only and assume no fairness.

## 4. The proofs

TLAPS checks every proof module, for any set of tabs, pages, runs and cells and for any bounds.
Assumptions, each named in the module that declares the constants: lifetimes and durations are
positive, bounds are numbers, the values that stand for nobody are not tabs, leases or pages; a study
has a trial; the cells of a run are finitely many; so are the candidates of a Compare run, and there is
one (`CandsAssumption`, from the two that `pre-call-persistence.ts` asks for); the marks of a task set are
neither tasks nor models, and the history a migration finds is a sequence of numbered contents in the
order of its numbers (`TaskSetsAssumption`).  No theorem has a hypothesis besides these.

**The lease.**  Neither the uniqueness of fences nor the finality of tokens is inductive: a token could
carry a lease id above all minted ones.  `IndInv` adds

- `MintedWithFence`: as many lease ids were minted as fences were issued;
- `RowIsNewest`: the lease row, if any, is the newest acquisition;
- `TokensAreMinted`: tokens name lease ids and fences that were issued, each the same number.

From it follow `UniqueFences`, `NoRevival` (a step that made a stale token verify would have to write
the row with an old lease id) and `LeaseIsFencedLock`, the refinement, one case per action.
`UnreturnedLeasesAreUntouched` needs `UnreturnedIsNewest` besides: a tab's acquisitions return in the
order they were made, so a lease that has not returned is newer than everything the tab knows.

**Recovery.**  The controllers and recoveries refine the lease (`LeaseStep`), so `IndInv` is inherited.
On top of it `BaseInv` has the types, `CtlInv` (what a controller past its rebind may assume: the run
is bound to its token, or its token is no longer the lease's) and `TodoInv`; `RecInv` says the row a
recovery has in hand was stale when read, and either is still the row stored or will be refused by its
revision.  That gives `LiveRunsAreSpared` and `LatestFenceCommits`.  `NoZombies` needs `SweepInv`
besides: a run that is running, not bound to the sweep's lease and not on the list was written by
somebody whose fence is older, and nobody can have written it since the listing as long as the sweep's
lease verifies; or its interruption failed, and it is in `missed`.

**Compare run.**  What an accepted Judge or Fusion is about is not inductive: what a command goes on
from has to be said first.  `EvidenceInv` says it of the record alone (`RecordInv`: attempts are numbered
in the order they were added, an accepted one is completed), of the command (`Positions`, `TwoAreFrozen`),
and, while the run is bound to its tab, of both: the attempt that an answer belongs to is the last one
added (`TasksAreLast`, `StageRests`), what a command froze at its start is what is accepted
(`FrozenIsAccepted`), and what it will replace it has taken off the pane before (`TakenAway`,
`ShownIsAccepted`).  `JudgedIsAccepted`, `FusionRests` and `ShownDurable` are its consequences, the action
property `OnlyReplacementWithdraws` follows from one step.  `SettledInv` is the same for runs that met
nothing: an attempt says running only while the command's part that awaits its answer is under way
(`AwaitedRun`, `FanoutRuns`); with it a run at rest is settled (`IdleSettled`).

**Experiment.**  Rows are read, awaited and used, in a dozen places, and most of the work is to say what a
copy in hand is worth.  `Grounded` has the types and `Copy`: a run row that was read is the row of today or
has a smaller revision, and a verdict in it stands.  That is all that type correctness needs, for any user
(`ExperimentTypes`).  `EvidenceIsEarned` needs `Trusted` besides, with these parts:

- `AllGood`: not only the row, but the engine, the snapshots of the loops, of the command and of the
  recovery, each of which may be written back, have evidence that is the verdict of its run, the selection
  of the policy, and no run linked twice;
- `Alone`, `Starting`: there is one loop at a time and no command beside it, and a start finds the draft it
  has written unchanged;
- `RcvKnown`: what recovery is about to write has the links of the row it would replace, or an old revision;
- `LoopKnown`: the attempt that a loop works on is linked to the loop's run.

`RunsStayLinked` asks for one more fact about each of these copies, `Remembered`: that every run is linked in
it.  It is not enough to say it of the row, since what is written next comes from the engine, from the engine
a failed commit or a failed resumption goes back to, or from the record that a retry or a repair has read
before it had the lease.  A begin links its run in row and engine in one step; a write replaces the links by
those of a copy that remembers; a recovery's record counts only while it has the row's revision, and then
has the row's links.  `Unstarted` covers the one step that removes a record: an experiment that is not begun
has no runs, and nothing but its start is under way.  That no run is linked twice is `OneEach`, in `AllGood`.

`OverExperimentStaysOver` is about the engine that runs on over a record that another tab's recovery has
ended, or that an abort has ended before a failed commit or resumption put the engine back.  Nothing tells an
engine of the first kind; the compare-and-swap alone must beat it.  The invariant is `Following`:

- `Numbered`: no revision the tab was ever told (`Told`: the one it writes behind, those that pause, abort,
  commands and loops still hold) is above the row's, and a record has revision 0 until it is begun;
- `Outrun`: an engine that is `Late`, that is, unaware that its record is over and not about to be ended or
  dropped (`Restored`), was not told the row's revision, and nothing under way has the lease (`Fenced`).  Each
  half is needed: the status writes go by the revision, begin and commit by the lease too, and a resumption
  reads the revision afresh, but only with the lease;
- `Beaten`: a recovery that may still write has its lease later than any the tab has, so that a tab with the
  lease cannot be ended behind its back; `Tokened`: who holds a lease has its number;
- `Rests`: an engine that does not run has no active task, so nothing commits into it;
- `ReadOver`: what a repair or an extension was planned from was over, and is.

Every write then goes forward (`Forward`), except the first one of a command, which is the step the property
allows.

`OverAttemptsAreFinal` is about a row that is written whole from a memory: what is over in the row must be over
in whatever may replace it.  As the property does, `OverIsFinal` speaks of behaviours in which no write failed
and no lease was lost so far (`Plain`); for these, on top of `Following`, it has `Kept`:

- `InStep`: an engine at work that no loop is about to end holds the lease, has the attempts of the row and is
  told of its revision by exactly one of the tab's writes (`Together`, `Latest`), so that its writes succeed;
- `EngKeeps`: any other engine that was told the row's revision, so that its write would be accepted, keeps
  what is over in the row (`Covers`), also after an abort;
- `PreKeeps`: so does the engine that a commit under way would go back to, since an attempt that is over by
  then was ended by an abort in between, and is running in it;
- `RcvKeeps`: so does the record that recovery writes, which was read under recovery's own lease (`RcvHolds`);
- `Prepared`, `CommandSure`: a command writes what it read, and its writes come through;
- `Stopping`, `DraftEmpty`, `OverRow`: a failure has ended the engine before it writes, a draft has no attempts,
  and the verdict that a loop is about to commit is still that of its run.

A step that loses a lease or meets a fault leaves the row as it is, and what was lost stays lost
(`LosesNothing`), so `Kept` need not survive it.

`IdleIsSettled` is about a tab in which nothing failed, was lost or was interrupted halfway (`Calm`).  That it
comes to rest settled cannot be said of rest alone: `Composed`, on top of `Kept`, says at every point how far
the tab has come.

- `Undisturbed`: no recovery is under way, no pause is being written, and an abort is one whose record is
  written already, with neither a loop nor a command left;
- `Leased`: the tab has the lease while its experiment is running or paused or a loop lives, and gives it back
  when neither is the case and it is at rest (`AtRest`), so that recovery never finds a record of such a tab
  that is a draft, running or paused without a lease;
- `RowTells`: a draft is being created, a running record has a loop or a command that is about to start one, a
  paused one has a paused engine, and one that is over has nothing open;
- `CommandGoes`, `Goes`: at each position, what a command and a loop rely on in the engine, the row and the run;
- `WellKept`: an engine between two tasks has something queued and no pause to take, and each queued attempt has
  not begun and is one attempt of a task in the queue (`Orderly`).  So a queue that runs empty leaves nothing
  queued behind, which is what *over* means to the last commit.

`IdleSettles` follows, since a tab at rest has neither a loop nor a command to explain a record that runs.

`Alone`, `Starting` and `LoopKnown` are false once a command is given while the loop of an aborted experiment drains
(section 5, *Overlapping loops*).  The properties say so themselves: they speak of the states in which
`rushed` is false.  It never turns false again, and as long as it is false every command was given at rest
(`ReadQuietly`, `ResumedQuietly`, `Rushes`, `RushedStays`), so that the invariants need to be kept up to there
only.  `OverExperimentStaysOver` is stated without that condition and proved with it (`OverStaysOver` proves its
action formula `StaysOver` of all steps that leave `rushed` false); the rest of it is checked by
`experiment_again`.

**Start of a run.**  `PreInv` says how much of a start is stored at each stage (`Durable`), that only the
latest start may execute (`Latest`), that a rebuild in memory is of an index that exists
(`RebuildIsOfAnIndex`), and how many troubles it takes to be where (`Troubled`): a failed start whose
run still says running has met two.  `StartsAreDurable` and `FailedStartsAreAborted` are conjuncts and
consequences of it.

**Heartbeat.**  A life that goes on knows the renewal it has under way (`OwnRenewalIsKnown`), no renewal
is of a life that has not begun (`NoneOfTheFuture`), and generations stay within their bound while
running (`RunningIsBounded`).  So a renewal of this life is never begun twice, and the error of an
earlier one finds another generation; and a life that has reported has its flag up and reports nothing more.

**Provider call.**  That a timeout was earned is shown when the timer fires: the inactivity clock has run
for as long as the stream was silent (`InactivityIsSilence`), and a marked call has no connect clock
behind its headers (`ConnectEndsAtHeaders`).  It stays true because the abort is heard at once
(`TimeoutsAreHeard`, from the listeners that are there, `ConnectIsHeard`), after which nothing that
arrives counts.

**Migrations.**  `MigratedInOrder` is not inductive: a page inside a step relies on what it saw before.
`PagesProgress` says it: the steps before are recorded or held against their dependents, the items
before are moved, the marker is written where completion comes next.  All three only grow, so no other
page takes them away; that is the whole of the argument, and why a lapsed lease does no harm to it.

**Evidence index.**  The core is `Accounts`: what a derivation under way has still to write and what is
stored make up its run, unless the run has stopped being the source of its task, and once it has, it
has for good (a selection moves to newer runs, fingerprints rotate forward).  `SourcesOK`, `StoresOK`,
`WorkersOK` and `PagesOK` hold it for markers, derivations and pages.  `CompleteMarkersStay` follows
from the compare-and-swap rule alone.

**Policy study.**  `StudyInv` says of a run how many trials it has behind it, all measured, all listed
once it has its playbook (`Behind`); that a study with a report is completed or archived and its run past its writes
(`ReportedIsOver`); that runs are only of a started study (`WasStarted`); and that a run about to mark its
study failed knows the revision it has while in progress (`MarksTheStudy`, `Marked`).  The steps are
summarized first, a page's by what it does to runs (they go on, vanish or begin), a run's by what it
does to the study (`Elsewhere`, `StudyAfterRun`, `RunAfter`), so that each part of the invariant is
proved from a few cases.  `SealsAreOfTheShown` rests on `DraftInv` besides: an editor knows no newer
revision than the stored one, the last save of its queue is what it shows, and a seal was asked for
with a revision no newer than the editor's, behind at most one save.

**Catalogue.**  What makes a write from an old copy harmless is one fact each: a copy with the
revision of the row is the record that is stored (`CopiesAreHonest` of a task, `ReadAgain` of a rubric,
`CardIsHonest` of a family, `ShownLinksAreKnown` of an assignment), because every write counts the
revision up.  With it a task refines `VersionLog` (`TasksAreVersionLogs`), the record inside the row
never differs from the row, no rubric version is written over, an append leaves a rubric as archived as
it is, a saved form leaves a family so, a task has one primary family, and only that one is ended by
the button that ends it.

That families are a forest (`FamiliesStayAForest`) would need induction along the chain of parents, which the
prover does not reach.  `Ranked` takes its place: there is a numbering of the families in which every
parent exists and has the greater number.  A move that `MayBeUnder` admits lifts the whole chain of the
new parent above the moved family, which is not in it; the chain is closed upwards, so the parents of what is
lifted are lifted as well.

Of a task set, `SetsInv` has a fact about copies again (`IsCopy`: at the revision of the row a copy has its
content, at the row's other revision its archiving), and one about versions: a set that was never migrated
has, under the number of its suite or of any copy of it, the content of that suite (`VersionIsOf`).  From the
first follow `VersionsAreBasedOnCurrent` and `TablesStayAligned`, from the second `RunsAreOfWhatIsShown`.
The migration numbers versions without gaps (`EveryRankIsTaken`), which is what types need.

**Composed runs.**  `ServicesTypes`, `PaidTypes` and `CatalogTypes` are about the compositions that TLC runs: a
step of one part leaves the variables of the others alone, so each invariant holds of its part.

**Proved and not run.**  `OneFencePerAcquisition`, `UnreturnedLeaseIsUntouched`, `DecidedOnce`,
`OnlyOwnEvidence`, `CompleteStays`, `OnePrimary`, `AppendKeepsTheShelf`, `SavingKeepsTheShelf` and the types of a Compare run and a study (`PaidTypeOK`) are
stated in their modules and proved for every instance; TLC agreed before they were proved, and no run
repeats them.

**Only model-checked**: liveness (`RecoveryEnds`, `AbortEndsHeardCall`, `EverythingMigrates`,
`EmptyIsRebuilt`, `AnnouncedIsIndexed`), which is beyond the prover; `OverExperimentStaysOver` after a command that was given while something else
was under way; and the four disagreements of section 5, which are counterexamples.  Every other invariant
and action property of a passing run is proved as it is stated.

## 5. Where the code and its documents disagree

Each of these is a run that TLC must find violated.

1. **`stuck_running`.**  A candidate retry after which fewer than two outputs are usable returns
   without an event: the pane says running, and nothing runs.
2. **`abort_overwritten`.**  The write of an abort that comes second is refused and not repeated: the
   experiment stays running in the database, without owner, until a recovery.
3. **`migration`.**  The import of the legacy history is taken for finished once one entry is there: a
   crash between two entries leaves the others where they are, for good, with the step recorded as complete.
4. **`migrated_run`.**  A run freezes the version with the number of the suite, but the migration has
   numbered the versions anew and left the suite its number: the run may be given another content than
   the page shows, or none.

### Further disagreements

Seen while modelling; unless said otherwise the step is in a model, and no run is spent on them.

Compare runs:

- *Recovery's release.*  A sweep whose lease ran out releases without a token, and deletes the lease
  that a Compare command of its tab has acquired since (`execution-lease.ts:567`).
- *Refused command.*  A second press of Run before the pane says running supersedes the start under
  way, which ends without a word before its first call, its run left running until a sweep
  (`PreCall`).  The later commands of `CompareRun` behave alike (`Overtaken`).
- *Verdict not recorded.*  `runFanout` forgets the run id before it knows that it may start; if it may
  not, retries of the run still shown are paid for, shown, and not recorded (`run-controller.ts:526`).
- *Refused write.*  When a candidate retry replaces an output while a Fusion attempt was left running
  by a fault, the status of a terminal run derives as running, and the repository refuses that write
  (`Refused`; `run-record-builder.ts:736`).
- *Completed without verdict.*  A retry that replaces an output withdraws the Judge's evidence at once;
  until the new Judge is accepted the run still says completed (`run-record-builder.ts:766`).  The code
  keeps it so on purpose.

- *Swallowed faults of the sweep.*  The comment on the sweep's `catch` speaks of a stale revision or a validation
  error that is tried again on the next sweep (`execution-lease.ts:262`).  It catches faults of the
  storage as well, and a tab sweeps once: what failed stays running until a tab starts again (`missed`).

Experiments:

- *Started late.*  An abort during the writes of `beginTask` finds no `AbortController`; the executor
  is started afterwards (`experiment-controller.ts:634`).
- *Plan lost.*  Beginning a task builds its attempt without the repair plan; aborted then, it cannot be
  retried as the repair it was (`experiment-engine.ts:366`).
- *Pause that comes second.*  As `abort_overwritten`, for a pause between two tasks: memory says
  paused, the database running (`experiment-controller.ts:1009`).  The next write of the loop, if there
  is one, repairs it.
- *Restore over an abort.*  `commitTaskTerminal` restores the engine to its snapshot when its write
  fails.  An abort made meanwhile is undone in memory, and the following failure path writes
  attempts that were finished once more.  `OverAttemptsAreFinal` excludes it (no fault, no lost lease).
- *Overlapping loops.*  The page offers Retry as soon as an abort is recorded, when the loop of the aborted
  experiment may still be draining; a retry given then runs two loops over one engine.  With
  `Patient = FALSE`, and the condition `~rushed` taken off them, TLC violates these properties:
  `RunsAreLinked` with two commands (the old loop's commit is refused, its failure path puts the old engine
  back over that of the retry, and the next status write loses the link of the retry's run),
  `EvidenceIsTheRuns` with three, and `IdleIsSettled` with a resumption given while the loop's last status
  write is under way.  In these traces the result of an earlier transaction is delivered after that of a later one,
  which the model allows.  The old loop's `finally` may also release the lease of the new one, since it
  releases the token held by then.  `OverExperimentStaysOver` holds all the same at the bounds of
  `experiment_again`.
- *Swallowed recorder faults.*  A failed write of a stage is swallowed by the executor; the attempt is
  committed with a run that says running, and the queue goes on to the next paid task.
- *Recovery.*  It turns running attempts of an interrupted experiment into interrupted ones and leaves
  queued ones queued; the first conflict on a run ends the recovery of all further experiments.

Provider calls:

- *Unheard abort.*  A request that is not a stream, with no overall ceiling, is cut off from its caller
  when its headers arrive: an abort neither rejects it nor aborts the fetch
  (`execution-deadline.ts:687`).  `AbortEndsHeardCall` says which calls are heard.

Task sets:

- *New sets.*  The list creates, copies and imports a set as a suite alone, and a save refuses a suite
  without a Task Set as modified in another tab (`TaskSetEditor.tsx:409`).  Only a first run creates the
  Task Set, and a blank set has nothing to run: a set made with the New button cannot be filled.
- *Blame after a commit.*  A fault of the read behind a committed save is reported as a failed save, and
  the retry is refused in the name of another tab (`TaskSetEditor.tsx:430`).
- *Marks.*  Role, stratum and weight of a member reach no version and no run, although the documents
  say that weights are retained and roles visible in provenance (`suite-compat.ts:104`; `Projected`).
- *Typed during a save.*  It is replaced by the copy read back after the save (`TaskSetEditor.tsx:435`).
- *Archived set.*  A page opened before a set was archived runs it (`TaskSetEditor.tsx:529`).

Tasks, rubrics and families:

- *Superseded draft.*  The rubric page reads the record again and saves with the revision it finds, so a
  draft of version n is published over the n+1 of another tab without a conflict
  (`RubricDetail.tsx:172`), although the documents promise one.
- *Toggle.*  Its archive button reads the record again too and does the opposite of what it finds,
  whatever it said (`RubricDetail.tsx:246`, `RubricList.tsx:172`).
- *Archived family.*  A task can be assigned to a family archived since it was listed
  (`TaskFamilyAssignment.tsx:80`).

Migrations and indexes:

- *Two tabs at once.*  The registry never renews its lease: after 30 s another tab applies the same
  steps beside the first, though its header denies it (lines 14–15), and the first records completions
  all the same.  `MigratedInOrder` holds nevertheless.
- *Background step.*  It never asks whether the blocking steps it depends on are complete: that knowledge is of
  one call of `execute`, and the phases are two.
- *Search queue.*  The design says that repository commits enqueue a local reindex and that a full
  rebuild is resumable; the queue and the chunked rebuild have no caller outside tests, and the marker
  that an archive import leaves for them is never read.  What a rebuild finds is what is indexed.
- *Marker after a lost lease.*  "A lapsed owner never claims completion" (`evidence-reindex.ts:418`)
  holds up to the last heartbeat: a pass that lost its lease since writes the marker (`PassMark`).
- *Drain that ends.*  A drain that finds its claim taken leaves everything to the successor (`derive-observations.ts:771`:
  "A successor recovered and re-derived this source").  The claim may as well have been taken by a pass
  that wrote a marker over it, or be queued again, and other jobs the drain had listed, its own page's
  among them, stay queued until some page starts a drain (`left`).
- *Verification failed.*  A run that was partly derived and then superseded yields no cells any more,
  so the pass never matches its rows, and its marker says error for good.
- *Extended roster.*  Adding a model rotates the fingerprint of the experiment: runs committed before
  derive no cells, and are marked complete with none.
- *Pass not retried.*  A startup pass that finds the lease held, be it by a page that has just been
  closed, is skipped until the next startup.

Policy studies:

- *Frozen study.*  Sealing a trial loads the study to confirm that it is in progress and never looks at
  its status: a second run writes trials into a study that the first has completed
  (`study-repository.ts:676`).
- *Resume.*  The page says that resuming picks up from the last sealed trial; it runs the whole method
  again and adds a second set of trials.
- *Interrupt.*  It changes what the page shows, and stops nothing.  A page left and visited again shows
  an interrupted study while its run goes on.
- *Listing.*  A report lists every trial of the study, also open and orphaned ones of another run.
- *Shared failure.*  One run's failure marks the study failed under the other, whose completion is
  then refused and whose report stays without a study.
- *Two studies on one page.*  Not modelled: navigating from one study to another without unmounting
  lets the settled run of the first reset the page of the second.
- *Newest playbook.*  Not modelled: one lookup takes the newest playbook of a study, the view its
  `reportRef`.

Not modelled at all:

- *Playbook fusion* (`run-controller.ts:1180`) runs its calls without deadlines and without the checks
  of the epoch that the other commands make.
- *Archive import.*  The resumption it is built for (`resumeImportId`) has no caller: an import that is
  tried again makes a second, remapped copy of what the first attempt had written.

## 6. What is not modelled

Prompts, outputs, scores, usage, cost, names, formatting, logging and notifications; several
experiments or studies at once; which models a repair or an extension asks for, and the rotation of
the roster; seeded candidates of a repair inside the executor; the stages of a policy study, which
write nothing (`Method` is one step that succeeds or fails); successor trials (`createAttempt`), which only
tests ask for; the older fusion studies and confirmation studies; lab assets; facets, relations
and artifacts of tasks; which drafts of a task, a set or a rubric are valid; import, export and deletion of stored data; the move of fusion studies to the
lab and the schema versions of the database; comparison runs as sources of evidence, model rollups and
profiles; the second executor (playbooks); scoring and ranking, which are pure; the codex bridge.
`recoverInterrupted` of the engine is called by tests only.  The pause branch inside `runLoop` cannot
be reached, since `requestPause` has applied it already, and is left out.

The share of the repository that these modules map is small, because most of it is something else:
views, bulk validation and serialization of archives, scripts that drive a browser for manual checks,
and generated or pure data.  Little of that keeps a state that steps of several actors could bring into
disorder; what does is in the plan.

## 7. The plan

Done, in this order: lease, its proofs, recovery, its proofs, run record, Compare run, experiment;
start of a run, heartbeat, deadlines, migrations, search index, evidence index, policy study, and the
proofs of these; task sets, tasks, rubrics and families, and their proofs; the proofs of the Compare run and
of the experiment.

Next, most important first:

1. **CompareController**: overlapping commands of one tab over the lease, the epoch, abort before
   release; composes `ExecutionLease` with `CompareRun`'s commands and `PreCall`.
2. **PlaybookRun**: staged execution on top of the run executor.
3. **ArchiveImport**: phases, remapping, a retry after a crash.
4. **Confirmation studies** on top of `PolicyStudy`.
5. **Scoring**: winner keys and ranking as operators against a definition, over bounded inputs.
6. **Bridge**: upstream end, client disconnect and the error event of the codex bridge.

Runs stay few: where a component gets its own module, its questions are asked in one run, and parts
that share no state are checked together.
