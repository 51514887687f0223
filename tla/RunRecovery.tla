----------------------------- MODULE RunRecovery -----------------------------
(***************************************************************************)
(* Compare runs in the shared database, the controllers that write them    *)
(* under the execution lease, and the startup recovery that interrupts     *)
(* the runs a dead owner left behind.                                      *)
(*                                                                         *)
(* ExecutionLease gives the lease; here each tab has one Compare           *)
(* controller (run-controller.ts, at the level of a run's status) and runs *)
(* recoverInterruptedRuns (execution-lease.ts) once, as the application    *)
(* shell does at startup.  Both use the SAME lease instance of the tab.    *)
(* A write of a run is a read, then a transaction that checks the lease    *)
(* row and the revision (run-recorder.ts, run-repository.ts): two steps.   *)
(*                                                                         *)
(* Only ad-hoc runs are here; the sweep skips those of experiments.        *)
(***************************************************************************)
EXTENDS ExecutionLease, FiniteSets

CONSTANTS Runs,       \* run ids
          MaxRev      \* bound: revision of a run

ASSUME MaxRevAssumption == MaxRev \in Nat

VARIABLES runs,       \* the run rows: a function on the ids created so far
          ctl,        \* per tab: the Compare controller
          rec         \* per tab: the startup recovery

recoveryVars == <<runs, ctl, rec>>
allVars      == <<vars, runs, ctl, rec>>

\* "ended" stands for completed, partial, failed and aborted.
RowStatus == {"running", "ended", "interrupted"}
Exec      == [owner : Tabs, fence : Nat]
Row       == [status : RowStatus, exec : Exec, rev : Nat]

NoToken == [leaseId |-> 0, fence |-> 0]

\* `load` is the row a read-modify-write has read and not yet written back,
\* `run` the run the controller has on screen: sets of at most one element.
Ctl == [pc : {"idle", "acquiring", "rebind", "working", "releasing"},
        k : Token, run : SUBSET Runs, load : SUBSET Row]

\* `k` is the lease the sweep runs under, `todo` the listed runs still to be
\* visited; `missed` is a history: the runs whose interruption did not get
\* through, although nothing but the storage was in its way.
Rec == [pc : {"start", "acquire", "contested", "waiting", "retry", "acquiring",
              "verify", "list", "sweeping", "done"},
        own : Token, wait : Nat, k : Token, todo : SUBSET Runs,
        run : SUBSET Runs, load : SUBSET Row, missed : SUBSET Runs]

RecoveryTypeOK ==
    /\ TypeOK
    /\ DOMAIN runs \subseteq Runs
    /\ \A r \in DOMAIN runs : runs[r] \in Row
    /\ ctl \in [Tabs -> Ctl]
    /\ rec \in [Tabs -> Rec]

IdleCtl == [pc |-> "idle", k |-> NoToken, run |-> {}, load |-> {}]

FreshRec == [pc |-> "start", own |-> NoToken, wait |-> 0, k |-> NoToken,
             todo |-> {}, run |-> {}, load |-> {}, missed |-> {}]

DoneRec == [FreshRec EXCEPT !.pc = "done"]

RInit ==
    /\ Init
    /\ runs = [r \in {} |-> 0]
    /\ ctl = [t \in Tabs |-> IdleCtl]
    /\ rec = [t \in Tabs |-> FreshRec]

\* The token the acquisition transaction of this step mints.
Minted == [leaseId |-> minted + 1, fence |-> NextFence]

WithRun(r, row) == [x \in DOMAIN runs \cup {r} |-> IF x = r THEN row ELSE runs[x]]

-----------------------------------------------------------------------------
(* The Compare controller.                                                 *)

\* A command acquires the lease: for a new run, or to continue the one shown.
CtlAcquire(t) ==
    /\ ctl[t].pc = "idle"
    /\ AcquireTx(t)
    /\ \E shown \in {ctl[t].run, {}} :
           ctl' = [ctl EXCEPT ![t] = [@ EXCEPT !.pc = "acquiring", !.k = Minted, !.run = shown]]
    /\ UNCHANGED <<runs, rec>>

CtlAcquired(t) ==
    /\ ctl[t].pc = "acquiring"
    /\ AcquireReturn(t)
    /\ tokens'[t] = tokens[t] \cup {ctl[t].k}
    /\ ctl' = [ctl EXCEPT ![t].pc = "rebind"]
    /\ UNCHANGED <<runs, rec>>

\* recorder.begin: create with the fence checked in the transaction.
CtlCreate(t) ==
    /\ ctl[t].pc = "rebind" /\ ctl[t].run = {}
    /\ Verifies(t, ctl[t].k)
    /\ \E r \in Runs \ DOMAIN runs :
           /\ runs' = WithRun(r, [status |-> "running", rev |-> 0,
                                  exec |-> [owner |-> t, fence |-> ctl[t].k.fence]])
           /\ ctl' = [ctl EXCEPT ![t] = [@ EXCEPT !.pc = "working", !.run = {r}]]
    /\ UNCHANGED <<vars, rec>>

\* loadAndMutate reads the record.
CtlLoad(t) ==
    /\ ctl[t].pc \in {"rebind", "working"} /\ ctl[t].load = {}
    /\ \E r \in ctl[t].run : ctl' = [ctl EXCEPT ![t].load = {runs[r]}]
    /\ UNCHANGED <<vars, runs, rec>>

\* Mutant: the lease is not checked in the write's transaction.
MayWriteUnfenced(t, k, r, row, s) ==
    runs[r].rev = row.rev /\ (runs[r].status # "running" => s # "running")

\* repo.update with an exact token: the lease row carries it and is live,
\* nobody wrote since the read, and a run that is over does not run again.
MayWrite(t, k, r, row, s) ==
    /\ Verifies(t, k)
    /\ runs[r].rev = row.rev
    /\ runs[r].status # "running" => s # "running"

\* What the builder's mutations make of a status: "interrupted" only yields
\* to an abort, and a partial run can be derived to be running again, which
\* the repository then refuses.
NextStatus(s) == IF s = "interrupted" THEN {s, "ended"} ELSE {"running", "ended"}

\* The first write of a continuation rebinds the run to its own fence; a
\* later one records a stage boundary.
CtlCommit(t) ==
    /\ \E r \in ctl[t].run, row \in ctl[t].load, s \in RowStatus :
           /\ MayWrite(t, ctl[t].k, r, row, s)
           /\ row.rev < MaxRev
           /\ IF ctl[t].pc = "rebind" THEN s = row.status ELSE s \in NextStatus(row.status)
           /\ runs' = WithRun(r, [status |-> s, rev |-> row.rev + 1,
                                  exec |-> IF ctl[t].pc = "rebind"
                                           THEN [owner |-> t, fence |-> ctl[t].k.fence]
                                           ELSE row.exec])
    /\ ctl' = [ctl EXCEPT ![t] = [@ EXCEPT !.pc = "working", !.load = {}]]
    /\ UNCHANGED <<vars, rec>>

\* The command ends: it is through, aborted, or one of its writes failed.
CtlEnd(t) ==
    /\ ctl[t].pc \in {"rebind", "working"}
    /\ ctl' = [ctl EXCEPT ![t] = [@ EXCEPT !.pc = "releasing", !.load = {}]]
    /\ UNCHANGED <<vars, runs, rec>>

\* release(token) in the command's finally block: it deletes the row, finds
\* another's, or its transaction fails and the row is left to run out.
CtlRelease(t) ==
    /\ ctl[t].pc = "releasing"
    /\ \/ Release(t, ctl[t].k)
       \/ UNCHANGED vars
    /\ ctl' = [ctl EXCEPT ![t] = [@ EXCEPT !.pc = "idle", !.k = NoToken]]
    /\ UNCHANGED <<runs, rec>>

\* The heartbeat of a command in flight.
CtlRenew(t) ==
    /\ ctl[t].pc \in {"rebind", "working", "releasing"}
    /\ Renew(t, ctl[t].k)
    /\ UNCHANGED recoveryVars

-----------------------------------------------------------------------------
(* recoverInterruptedRuns.                                                 *)

RecTo(t, pc) == rec' = [rec EXCEPT ![t].pc = pc]

RecStart(t) ==
    /\ rec[t].pc = "start" /\ t \in open
    /\ RecTo(t, IF VerifiesCurrent(t) THEN "verify" ELSE "acquire")
    /\ UNCHANGED <<vars, runs, ctl>>

\* acquireForRecovery: the first attempt, and after the wait the only other.
RecAcquire(t) ==
    /\ rec[t].pc \in {"acquire", "retry"}
    /\ AcquireTx(t)
    /\ rec' = [rec EXCEPT ![t] = [@ EXCEPT !.pc = "acquiring", !.own = Minted]]
    /\ UNCHANGED <<runs, ctl>>

RecContested(t) ==
    /\ rec[t].pc \in {"acquire", "retry"} /\ Live
    /\ rec' = [rec EXCEPT ![t] = IF @.pc = "acquire" THEN [@ EXCEPT !.pc = "contested"]
                                                   ELSE DoneRec]
    /\ UNCHANGED <<vars, runs, ctl>>

\* acquire(), or getCurrent() after a contested attempt, throws for another
\* reason: recovery is deferred, or ends with that error.
RecUnavailable(t) ==
    /\ rec[t].pc \in {"acquire", "contested", "retry"}
    /\ rec' = [rec EXCEPT ![t] = DoneRec]
    /\ UNCHANGED <<vars, runs, ctl>>

WaitDeadline == IF Live THEN lease.left + 1 ELSE TTL

\* getCurrent() after the contested attempt sets the deadline of the wait.
RecWait(t) ==
    /\ rec[t].pc = "contested"
    /\ rec' = [rec EXCEPT ![t] = [@ EXCEPT !.pc = "waiting", !.wait = WaitDeadline]]
    /\ UNCHANGED <<vars, runs, ctl>>

\* Mutant: only a free lease ends the wait.
RecWaitOverWhenFree(t) ==
    /\ rec[t].pc = "waiting"
    /\ ~Live
    /\ rec' = [rec EXCEPT ![t] = [@ EXCEPT !.pc = "retry", !.wait = 0]]
    /\ UNCHANGED <<vars, runs, ctl>>

\* waitForLeaseFree: the lease is seen free, or the deadline has passed.
RecWaitOver(t) ==
    /\ rec[t].pc = "waiting"
    /\ ~Live \/ rec[t].wait = 0
    /\ rec' = [rec EXCEPT ![t] = [@ EXCEPT !.pc = "retry", !.wait = 0]]
    /\ UNCHANGED <<vars, runs, ctl>>

RecAcquired(t) ==
    /\ rec[t].pc = "acquiring"
    /\ AcquireReturn(t)
    /\ tokens'[t] = tokens[t] \cup {rec[t].own}
    /\ RecTo(t, "verify")
    /\ UNCHANGED <<runs, ctl>>

\* The sweep runs under whatever lease the tab holds at this point.
RecVerify(t) ==
    /\ rec[t].pc = "verify"
    /\ rec' = [rec EXCEPT ![t] =
                  IF VerifiesCurrent(t)
                  THEN [@ EXCEPT !.pc = "list",
                                 !.k = [leaseId |-> lease.leaseId, fence |-> lease.fence]]
                  ELSE [@ EXCEPT !.pc = "sweeping"]]
    /\ UNCHANGED <<vars, runs, ctl>>

RunningRuns == {r \in DOMAIN runs : runs[r].status = "running"}

RecList(t) ==
    /\ rec[t].pc = "list"
    /\ rec' = [rec EXCEPT ![t] = [@ EXCEPT !.pc = "sweeping", !.todo = RunningRuns]]
    /\ UNCHANGED <<vars, runs, ctl>>

\* Mutant: a run of this tab is swept whatever fence it was written under.
IsStaleForOthersOnly(t, k, row) == row.exec.owner # t

\* Not written by this owner under the lease the sweep runs under.
IsStale(t, k, row) == ~(row.exec.owner = t /\ row.exec.fence = k.fence)

\* Reads the next listed run and the clock, and keeps the run if it is stale.
\* The expiry of the lease is judged by this clock reading (checkedAt), so a
\* write that will be refused for it is given up here.
RecRead(t) ==
    /\ rec[t].pc = "sweeping" /\ rec[t].load = {}
    /\ \E r \in rec[t].todo :
           LET row == runs[r]
               kept == row.status = "running" /\ IsStale(t, rec[t].k, row) /\ Live
           IN  rec' = [rec EXCEPT ![t] =
                          [@ EXCEPT !.todo = rec[t].todo \ {r},
                                    !.run = IF kept THEN {r} ELSE {},
                                    !.load = IF kept THEN {row} ELSE {}]]
    /\ UNCHANGED <<vars, runs, ctl>>

\* Mutant: the sweep writes without comparing revisions.
MayInterruptWithoutCAS(t, r, row) == Matches(t, rec[t].k)

\* repo.update: the lease row must still carry the token at commit time; it
\* may have run out since the clock was read, as long as nobody took over.
MayInterrupt(t, r, row) ==
    /\ Matches(t, rec[t].k)
    /\ runs[r].rev = row.rev

RecSet(t, missed) ==
    rec' = [rec EXCEPT ![t] = [@ EXCEPT !.run = {}, !.load = {}, !.missed = missed]]

\* The transaction that interrupts the run.  The catch around it swallows
\* every failure, a conflict and a fault of the storage alike, and the sweep
\* goes on to the next run.
RecWrite(t) ==
    /\ \E r \in rec[t].run, row \in rec[t].load :
           \/ /\ MayInterrupt(t, r, row)
              /\ runs' = WithRun(r, [row EXCEPT !.status = "interrupted", !.rev = @ + 1])
              /\ RecSet(t, rec[t].missed)
           \/ /\ ~MayInterrupt(t, r, row)
              /\ RecSet(t, rec[t].missed) /\ UNCHANGED runs
           \/ /\ MayInterrupt(t, r, row)
              /\ RecSet(t, rec[t].missed \cup {r}) /\ UNCHANGED runs
    /\ UNCHANGED <<vars, ctl>>

\* verify(), the list or the read of a run throws: nothing catches it before
\* the finally block, and the rest of the list is not visited.
RecFails(t) ==
    /\ \/ rec[t].pc \in {"verify", "list"}
       \/ rec[t].pc = "sweeping" /\ rec[t].load = {} /\ rec[t].todo # {}
    /\ rec' = [rec EXCEPT ![t] = [@ EXCEPT !.pc = "sweeping", !.k = NoToken, !.todo = {}, !.missed = {}]]
    /\ UNCHANGED <<vars, runs, ctl>>

Swept(t) == rec[t].pc = "sweeping" /\ rec[t].todo = {} /\ rec[t].load = {}

\* The finally block: release() without a token, if recovery had acquired;
\* its transaction may fail too.
RecRelease(t) ==
    /\ Swept(t)
    /\ \/ rec[t].own # NoToken /\ MatchesCurrent(t) /\ ReleaseCurrent(t)
       \/ UNCHANGED vars
    /\ rec' = [rec EXCEPT ![t] = DoneRec]
    /\ UNCHANGED <<runs, ctl>>

-----------------------------------------------------------------------------
RTick ==
    /\ Tick
    /\ rec' = [t \in Tabs |-> [rec[t] EXCEPT !.wait = IF @ = 0 THEN 0 ELSE @ - 1]]
    /\ UNCHANGED <<runs, ctl>>

RClose(t) ==
    /\ Close(t)
    /\ ctl' = [ctl EXCEPT ![t] = IdleCtl]
    /\ rec' = [rec EXCEPT ![t] = DoneRec]
    /\ UNCHANGED runs

CtlStep(t) ==
    \/ CtlAcquire(t) \/ CtlAcquired(t) \/ CtlCreate(t) \/ CtlLoad(t)
    \/ CtlCommit(t) \/ CtlEnd(t) \/ CtlRelease(t) \/ CtlRenew(t)

RecStep(t) ==
    \/ RecStart(t) \/ RecAcquire(t) \/ RecContested(t) \/ RecUnavailable(t) \/ RecWait(t)
    \/ RecWaitOver(t) \/ RecAcquired(t) \/ RecVerify(t) \/ RecList(t)
    \/ RecRead(t) \/ RecWrite(t) \/ RecFails(t) \/ RecRelease(t)

RNext == RTick \/ \E t \in Tabs : CtlStep(t) \/ RecStep(t) \/ RClose(t)

RSpec == RInit /\ [][RNext]_allVars

\* The clock advances and a recovery that was started keeps being scheduled,
\* with the acquire() continuations queued in its tab; nothing obliges a
\* controller to end its command or to stop its heartbeat.
RFairSpec ==
    /\ RSpec
    /\ WF_allVars(RTick)
    /\ \A t \in Tabs : WF_allVars(RecStep(t)) /\ WF_allVars(CtlAcquired(t))
-----------------------------------------------------------------------------
\* The lease row, live or not, is the one a run was last executed under.
OwnsLease(exec) ==
    lease # NoLease /\ lease.owner = exec.owner /\ lease.fence = exec.fence

\* Recovery never interrupts a run that belongs to the current holder of the
\* lease, although it decides on a row read before, and although a command
\* of its own tab may rebind that very run in between.
SweepSparesLiveRun ==
    [][\A r \in DOMAIN runs :
          runs[r].status = "running" /\ runs'[r].status = "interrupted"
             => ~OwnsLease(runs[r].exec)]_allVars

\* A superseded tab commits nothing: every write but an interruption leaves
\* the run under the highest fence ever issued.
OnlyLatestFenceCommits ==
    [][\A r \in DOMAIN runs' :
          \/ r \in DOMAIN runs /\ runs'[r] = runs[r]
          \/ runs'[r].status = "interrupted"
          \/ runs'[r].exec.fence = fence]_allVars

\* When a sweep has come to the end of its list and its lease still holds,
\* every run that claims to be running really is under that lease, or is one
\* whose interruption the storage failed and the sweep's catch swallowed.
\* Conflicts leave nothing behind: who else wrote the run holds the lease.
SweepLeavesNoZombie ==
    \A t \in Tabs : Swept(t) /\ Verifies(t, rec[t].k) =>
        \A r \in RunningRuns \ rec[t].missed :
            runs[r].exec = [owner |-> t, fence |-> rec[t].k.fence]

\* Recovery finishes even when the tab it waits for renews for ever: it gives
\* up after one retry, so startup never hangs on another tab.
RecoveryEnds == \A t \in Tabs : rec[t].pc # "start" ~> rec[t].pc = "done"
=============================================================================
