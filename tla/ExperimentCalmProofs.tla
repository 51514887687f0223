------------------------ MODULE ExperimentCalmProofs ------------------------
(***************************************************************************)
(* Proofs about ExperimentRun as long as no lease is lost, no tab closed   *)
(* and no write fails that is possible, for any suite and commands.        *)
(***************************************************************************)
EXTENDS ExperimentProofs

-----------------------------------------------------------------------------
(* What is over is final: as long as nothing is lost, an engine that may   *)
(* write knows every attempt that is over in the record.                   *)

Active == {"running", "paused"}

\* No lease was lost, no tab closed and no write failed that was possible.
Plain == odd # "lost" /\ faults = 0

\* What is over in a is over in b, with the same status and the same run.
Keeps(a, b) ==
    \A t \in Tasks : \A i \in Places(a[t], OverStatus) :
        i \in DOMAIN b[t] /\ b[t][i].status = a[t][i].status /\ b[t][i].run = a[t][i].run

Ended(a) == [t \in Tasks |-> Stopped(a[t])]

\* The engine keeps what is over when it is aborted and, unless it runs an
\* attempt, as it is.
Covers(e, a) == Keeps(a, Ended(e.att)) /\ (e.task = 0 => Keeps(a, e.att))

\* This loop is about to take its failed commit back.
Undone(x) == x.pc = "committing" /\ x.res = 0

\* A loop is on its way to abort the engine.
Disordered == \E l \in Loops : loop[l].pc \in {"failing", "finalized"} \/ Undone(loop[l])

Prepares(c) == c.pc \in {"read", "acquiring", "creating", "planning"}

\* A command is prepared on the record that it read, which is its own.
Prepared ==
    /\ Prepares(cmd) =>
          /\ eng.status \notin Active /\ abt.pc = "off" /\ pse = {}
          /\ cmd.kind \in {"start", "retry", "plan"} /\ (cmd.kind # "start" => exp = cmd.snap)
    /\ cmd.pc \in {"acquiring", "creating", "planning"} => lease = cmd.k /\ rcv.pc = "off"
    /\ cmd.pc \in {"creating", "planning"} => tok = cmd.k
    /\ cmd.pc = "creating" => cmd.res = 1 /\ exp.status = "draft"

\* Its writes come through, and a resumption finds what it saw, unless the
\* engine was aborted.
CommandSure ==
    /\ cmd.pc # "checking" /\ (cmd.pc \in {"syncing", "resuming"} => cmd.res # 0)
    /\ cmd.pc = "verifying" =>
          \/ eng.status \notin Active
          \/ eng.status = "paused" /\ exp.status = "paused" /\ pse = {}

RcvHolds == rcv.pc # "off" => lease = rcv.k /\ rcv.k # 0 /\ tok # rcv.k /\ cmd.k # rcv.k

\* The revision of the record is with the write that is under way, with a
\* pause that was written, or is the one the tab believes in.
Pending == cmd.pc \in {"syncing", "resuming"} \/ \E l \in Loops : loop[l].pc \in Awaiting

Latest ==
    /\ Pending => prev < exp.rev /\ pse \subseteq {0}
    /\ cmd.pc \in {"syncing", "resuming"} => cmd.res = exp.rev
    /\ \A l \in Loops : loop[l].pc \in Awaiting => loop[l].res = exp.rev
    /\ ~Pending => \/ prev = exp.rev /\ pse \subseteq {0}
                   \/ pse = {exp.rev} /\ eng.status = "paused"

\* An engine at work has the lease, and its attempts are those of the record.
Together ==
    /\ lease = tok /\ tok # 0 /\ rcv.pc = "off"
    /\ exp.status \in Active /\ exp.att = eng.att
    /\ \A l \in Loops : loop[l].pc \in Holding => loop[l].k = tok
    /\ Hands(cmd) => cmd.k = tok
    /\ Latest

InStep == eng.status \in Active /\ ~Disordered => Together

\* A loop that has failed, or an abort that was written, has ended the engine.
Stopping ==
    /\ \A l \in Loops : loop[l].pc = "failed" => eng.status \notin Active
    /\ abt.pc = "syncing" => eng.status \notin Active \/ Disordered

EngKeeps == Told(exp.rev) /\ eng.status # "none" => Covers(eng, exp.att)

\* The engine that a failed commit goes back to keeps what was ended since.
PreKept(e) ==
    /\ e.task # 0 /\ Keeps(Ended(eng.att), Ended(e.att))
    /\ Told(exp.rev) => Keeps(exp.att, Ended(e.att))

PreKeeps == \A l \in Loops : Undone(loop[l]) => PreKept(loop[l].pre)

\* Recovery visits the tasks that have a running attempt.
RcvVisits ==
    /\ rcv.pc = "reading" => rcv.todo # {}
    /\ rcv.pc \in AtTasks => \A t \in rcv.todo : Places(rcv.snap.att[t], {"running"}) # {}

RcvKeeps ==
    /\ RcvVisits
    /\ rcv.pc \in AtTasks /\ rcv.snap.rev = exp.rev => Keeps(exp.att, rcv.snap.att)

DraftEmpty == exp.status \in Unbegun => exp.att = NoExp.att

\* The verdict of a run that is about to be committed stands as it was read.
OverRow ==
    \A l \in Loops : loop[l].pc = "executed" =>
        \A row \in loop[l].load : row.status \in OverStatus => runs[loop[l].run] = row

Kept ==
    /\ Prepared /\ CommandSure /\ RcvHolds /\ InStep /\ Stopping
    /\ EngKeeps /\ PreKeeps /\ RcvKeeps /\ DraftEmpty /\ OverRow

\* Nothing failed or was lost in the step, and its end is well followed.
PlainStep == Following /\ Following' /\ Kept /\ Plain /\ Plain'

\* The step of OverAttemptsAreFinal.
RowKeeps == exp'.status # "none" => Keeps(exp.att, exp'.att)

LEMMA KeepsSame ==
    \A a : Keeps(a, a)
    BY DEF Keeps, Places

LEMMA KeepsAll ==
    ASSUME NEW a, NEW b, NEW c, Keeps(a, b), Keeps(b, c)
    PROVE  Keeps(a, c)
<1>1. ASSUME NEW t \in Tasks, NEW i \in Places(a[t], OverStatus)
      PROVE  i \in DOMAIN c[t] /\ c[t][i].status = a[t][i].status /\ c[t][i].run = a[t][i].run
    <2>1. i \in DOMAIN b[t] /\ b[t][i].status = a[t][i].status /\ b[t][i].run = a[t][i].run
        BY DEF Keeps
    <2>2. i \in Places(b[t], OverStatus)
        BY <2>1 DEF Places
    <2>. QED
        BY <2>1, <2>2 DEF Keeps
<1>. QED
    BY <1>1 DEF Keeps

LEMMA StoppedAt ==
    ASSUME NEW s \in Seq(Attempt)
    PROVE  /\ Stopped(s) \in Seq(Attempt) /\ DOMAIN Stopped(s) = DOMAIN s
           /\ \A i \in DOMAIN s :
                 /\ Stopped(s)[i].run = s[i].run
                 /\ Stopped(s)[i].status = IF s[i].status \in Unfinished THEN "aborted" ELSE s[i].status
<1>1. Stopped(s) \in Seq(Attempt) /\ DOMAIN Stopped(s) = DOMAIN s
    BY StoppedIs
<1>2. ASSUME NEW i \in DOMAIN s
      PROVE  /\ Stopped(s)[i].run = s[i].run
             /\ Stopped(s)[i].status = IF s[i].status \in Unfinished THEN "aborted" ELSE s[i].status
    <2>1. s[i] \in Attempt
        OBVIOUS
    <2>. QED
        BY <2>1 DEF Stopped, Attempt
<1>. QED
    BY <1>1, <1>2

LEMMA OverOrNot ==
    /\ OverStatus \cap Unfinished = {} /\ AttemptStatus = OverStatus \cup Unfinished
    /\ "aborted" \in OverStatus /\ "running" \in Unfinished /\ "queued" \in Unfinished
    BY DEF OverStatus, Unfinished, Evidence, AttemptStatus, RunStatus

\* To end attempts keeps those that are over, and ends all.
LEMMA EndedKeeps ==
    ASSUME NEW a \in [Tasks -> Seq(Attempt)]
    PROVE  /\ Keeps(a, Ended(a)) /\ Ended(a) \in [Tasks -> Seq(Attempt)]
           /\ Ended(Ended(a)) = Ended(a)
<1>1. ASSUME NEW t \in Tasks
      PROVE  /\ Ended(a)[t] = Stopped(a[t]) /\ a[t] \in Seq(Attempt) /\ Stopped(a[t]) \in Seq(Attempt)
             /\ Stopped(Stopped(a[t])) = Stopped(a[t])
    <2>1. Ended(a)[t] = Stopped(a[t]) /\ a[t] \in Seq(Attempt)
        BY DEF Ended
    <2>2. /\ Stopped(a[t]) \in Seq(Attempt) /\ DOMAIN Stopped(a[t]) = DOMAIN a[t]
          /\ \A i \in DOMAIN a[t] : Stopped(a[t])[i].status \notin Unfinished
        BY <2>1, StoppedAt, OverOrNot
    <2>3. Stopped(Stopped(a[t])) = [i \in DOMAIN Stopped(a[t]) |-> Stopped(a[t])[i]]
        BY <2>2 DEF Stopped
    <2>4. Stopped(a[t]) = [i \in DOMAIN Stopped(a[t]) |-> Stopped(a[t])[i]]
        BY <2>2
    <2>. QED
        BY <2>1, <2>2, <2>3, <2>4
<1>2. Ended(a) \in [Tasks -> Seq(Attempt)]
    BY <1>1 DEF Ended
<1>3. Ended(Ended(a)) = Ended(a)
    <2>1. \A t \in Tasks : Stopped(Ended(a)[t]) = Stopped(a[t])
        BY <1>1
    <2>. QED
        BY <2>1 DEF Ended
<1>4. ASSUME NEW t \in Tasks, NEW i \in Places(a[t], OverStatus)
      PROVE  /\ i \in DOMAIN Ended(a)[t] /\ Ended(a)[t][i].status = a[t][i].status
             /\ Ended(a)[t][i].run = a[t][i].run
    <2>1. i \in DOMAIN a[t] /\ a[t][i].status \notin Unfinished
        BY OverOrNot DEF Places
    <2>. QED
        BY <1>1, <2>1, StoppedAt
<1>. QED
    BY <1>2, <1>3, <1>4 DEF Keeps

LEMMA CoversOwn ==
    ASSUME NEW e \in Engines
    PROVE  Covers(e, e.att) /\ Attempts(e)
    BY EngineFields, EndedKeeps, KeepsSame DEF Covers, Attempts

LEMMA CoversNothing ==
    ASSUME NEW e
    PROVE  Covers(e, NoExp.att)
<1>1. \A t \in Tasks : NoExp.att[t] = <<>>
    BY NoRowFields
<1>2. \A t \in Tasks : Places(NoExp.att[t], OverStatus) = {}
    BY <1>1 DEF Places
<1>. QED
    BY <1>2 DEF Covers, Keeps

\* An engine that is aborted ends its attempts, or has none to end.
LEMMA AbortedAtt ==
    ASSUME NEW e \in Engines, e.status # "draft"
    PROVE  Aborted(e).att = IF e.status \in Active THEN Ended(e.att) ELSE e.att
<1>1. CASE e.status \in Active
    <2>1. e \in Engine
        BY <1>1, EngineFields DEF Active
    <2>. QED
        BY <1>1, <2>1 DEF Aborted, Ended, Active, Engine
<1>2. CASE e.status \notin Active
    BY <1>2 DEF Aborted, Active
<1>. QED
    BY <1>1, <1>2

LEMMA AbortedCovers ==
    ASSUME NEW e \in Engines, e.status # "draft", Resting(e), NEW a, Covers(e, a)
    PROVE  Keeps(a, Aborted(e).att) /\ Covers(Aborted(e), a)
<1>1. e.att \in [Tasks -> Seq(Attempt)]
    BY EngineFields DEF Attempts
<1>2. CASE e.status \in Active
    <2>1. Aborted(e).att = Ended(e.att) /\ Ended(Ended(e.att)) = Ended(e.att)
        BY <1>1, <1>2, AbortedAtt, EndedKeeps
    <2>. QED
        BY <2>1 DEF Covers
<1>3. CASE e.status \notin Active
    <2>1. Aborted(e) = e /\ e.task = 0
        BY <1>3 DEF Aborted, Active, Resting
    <2>. QED
        BY <2>1 DEF Covers
<1>. QED
    BY <1>2, <1>3
-----------------------------------------------------------------------------
(* A step in which nothing fails.                                          *)

LEMMA PlainStepIs ==
    ASSUME PlainStep
    PROVE  /\ Grounded /\ Following /\ Trusted /\ Kept /\ exp \in ExpRow /\ exp' \in ExpRow
           /\ exp.rev \in Nat /\ exp'.rev \in Nat /\ prev \in Nat
           /\ eng \in Engines /\ eng' \in Engines /\ eng.status # "draft" /\ eng'.status # "draft"
           /\ Resting(eng) /\ Resting(eng')
           /\ exp.status \in Unbegun <=> exp.rev = 0
           /\ \A v \in Nat : Told(v) => v <= exp.rev
<1>1. Following /\ Following' /\ Kept
    BY DEF PlainStep
<1>2. Grounded' /\ Trusted' /\ Rests'
    BY <1>1 DEF Following, Followed, Remembering
<1>3. exp' \in ExpRow /\ eng' \in Engines
    BY <1>2 DEF Grounded, RowsGrounded, TabGrounded
<1>4. exp'.rev \in Nat
    BY <1>3, RowAttempts
<1>. QED
    BY <1>1, <1>2, <1>3, <1>4, FollowingIs, EngRests, MemoryOf DEF Trusted, Undrafted, Rests, Numbered

LEMMA NothingFails ==
    ASSUME PlainStep
    PROVE  ~Fault /\ \A possible \in BOOLEAN : Fails(possible) => ~possible
<1>1. faults = 0 /\ faults' = 0
    BY DEF PlainStep, Plain
<1>. QED
    BY <1>1 DEF Fault, Fails

\* A write that is possible comes through.
LEMMA SyncSure ==
    ASSUME PlainStep, NEW e \in Engines, e.status # "none", NEW rev \in Nat, NEW res,
           Sync(e, rev, res)
    PROVE  \/ exp.rev # rev /\ res = 0 /\ exp' = exp
           \/ exp.status = "none" /\ res = 0 /\ exp' = exp
           \/ /\ exp.rev = rev /\ exp.status # "none" /\ res = rev + 1 /\ exp'.rev = rev + 1
              /\ exp'.att = e.att /\ exp'.status = e.status
<1>1. IsAt(rev) \in BOOLEAN
    BY DEF IsAt
<1>2. CASE res = 0 /\ Fails(IsAt(rev)) /\ UNCHANGED exp
    <2>1. ~IsAt(rev)
        BY <1>1, <1>2, NothingFails
    <2>. QED
        BY <1>2, <2>1 DEF IsAt
<1>3. CASE IsAt(rev) /\ res = rev + 1 /\ exp' = Record(e, rev + 1) /\ UNCHANGED faults
    BY <1>3 DEF IsAt, Record
<1>. QED
    BY <1>2, <1>3 DEF Sync

\* What is over is kept where an attempt is put that is not over.
LEMMA WithAttemptKeeps ==
    ASSUME NEW a \in [Tasks -> Seq(Attempt)], NEW t \in Tasks, NEW i, NEW x,
           i \in DOMAIN a[t] => a[t][i].status \notin OverStatus
    PROVE  Keeps(a, [a EXCEPT ![t] = WithAttempt(@, i, x)])
<1> DEFINE b == [a EXCEPT ![t] = WithAttempt(@, i, x)]
<1>1. b[t] = WithAttempt(a[t], i, x) /\ \A u \in Tasks : u # t => b[u] = a[u]
    OBVIOUS
<1>2. ASSUME NEW j \in Places(a[t], OverStatus)
      PROVE  j \in DOMAIN b[t] /\ b[t][j] = a[t][j]
    <2>1. j \in DOMAIN a[t] /\ a[t][j].status \in OverStatus /\ a[t] \in Seq(Attempt)
        BY DEF Places
    <2>2. CASE i \in DOMAIN a[t]
        BY <1>1, <2>1, <2>2 DEF WithAttempt
    <2>3. CASE i \notin DOMAIN a[t]
        BY <1>1, <2>1, <2>3 DEF WithAttempt
    <2>. QED
        BY <2>2, <2>3
<1>3. ASSUME NEW u \in Tasks, NEW j \in Places(a[u], OverStatus)
      PROVE  j \in DOMAIN b[u] /\ b[u][j] = a[u][j]
    <2>1. CASE u = t
        BY <1>2, <2>1
    <2>2. CASE u # t
        BY <1>1, <2>2 DEF Places
    <2>. QED
        BY <2>1, <2>2
<1>. QED
    BY <1>3 DEF Keeps

\* The same where such an attempt takes another status.
LEMMA OverKeeps ==
    ASSUME NEW a \in [Tasks -> Seq(Attempt)], NEW t \in Tasks, NEW i,
           i \in DOMAIN a[t] => a[t][i].status \notin OverStatus,
           NEW b, b = [a EXCEPT ![t] = [@ EXCEPT ![i] = b[t][i]]]
    PROVE  Keeps(a, b)
<1>1. ASSUME NEW u \in Tasks, NEW j \in Places(a[u], OverStatus)
      PROVE  j \in DOMAIN b[u] /\ b[u][j] = a[u][j]
    <2>1. j \in DOMAIN a[u] /\ a[u][j].status \in OverStatus /\ a[u] \in Seq(Attempt)
        BY DEF Places
    <2>2. u = t => j # i
        BY <2>1
    <2>. QED
        BY <2>1, <2>2
<1>. QED
    BY <1>1 DEF Keeps
-----------------------------------------------------------------------------
(* The steps of the run loop keep what is over.                            *)

\* A loop goes on, or takes over, with what it was told last.
Looping(l, p) ==
    /\ PlainStep /\ Told(p) /\ prev' = p /\ cmd' = NoCmd /\ UNCHANGED <<abt, pse, rcv>>
    /\ exp.status \notin Unbegun
    /\ \A m \in Loops : m # l => loop[m].pc = "off" /\ loop'[m].pc = "off"

\* What it has in hand, if the engine is at work: the lease, the record and
\* its revision.
Ready(p, k) ==
    eng.status \in Active =>
        /\ lease = tok /\ tok # 0 /\ k = tok /\ rcv.pc = "off" /\ abt.pc # "syncing"
        /\ exp.status \in Active /\ exp.att = eng.att
        /\ \/ p = exp.rev /\ pse \subseteq {0}
           \/ pse = {exp.rev} /\ eng.status = "paused"

StepKeeps == RowKeeps /\ EngKeeps' /\ PreKeeps' /\ InStep' /\ Stopping'

LEMMA LoopingIs ==
    ASSUME NEW l \in Loops, NEW p, Looping(l, p)
    PROVE  /\ exp.rev # 0
           /\ Disordered' <=> loop'[l].pc \in {"failing", "finalized"} \/ Undone(loop'[l])
           /\ \A v : Told(v)' => Told(v) \/ (loop'[l].pc \in Awaiting /\ v = loop'[l].res)
           /\ (Undone(loop'[l]) => PreKept(loop[l].pre)') => PreKeeps'
           /\ Pending' <=> loop'[l].pc \in Awaiting
           /\ cmd'.pc = "off" /\ ~Hands(cmd')
<1>1. exp.rev # 0
    BY PlainStepIs DEF Looping
<1>2. \A m \in Loops : m # l => loop'[m].pc = "off"
    BY DEF Looping
<1>3. cmd'.pc = "off" /\ ~Hands(cmd')
    BY NothingInFlight DEF Looping, Hands
<1>4. Disordered' <=> loop'[l].pc \in {"failing", "finalized"} \/ Undone(loop'[l])
    BY <1>2 DEF Disordered, Undone
<1>5. Pending' <=> loop'[l].pc \in Awaiting
    BY <1>2, <1>3 DEF Pending, Awaiting
<1>6. (Undone(loop'[l]) => PreKept(loop[l].pre)') => PreKeeps'
    BY <1>2 DEF PreKeeps, Undone
<1>7. ASSUME NEW v, Told(v)' PROVE Told(v) \/ (loop'[l].pc \in Awaiting /\ v = loop'[l].res)
    <2>1. \A m \in Loops : loop'[m].pc \in Awaiting => m = l
        BY <1>2 DEF Awaiting
    <2>. QED
        BY <1>3, <1>7, <2>1 DEF Told, Looping
<1>. QED
    BY <1>1, <1>3, <1>4, <1>5, <1>6, <1>7

\* The engine does not work on.
LEMMA RestKeeps ==
    ASSUME NEW l \in Loops, NEW p, Looping(l, p), eng'.status \notin Active \/ Disordered',
           loop'[l].pc = "failed" => eng'.status \notin Active,
           Undone(loop'[l]) => PreKept(loop[l].pre)', RowKeeps, EngKeeps'
    PROVE  StepKeeps
<1>1. \A m \in Loops : loop'[m].pc = "failed" => eng'.status \notin Active
    BY DEF Looping
<1>. QED
    BY <1>1, LoopingIs DEF StepKeeps, InStep, Stopping

LEMMA RowSame ==
    ASSUME exp' = exp
    PROVE  RowKeeps
    BY KeepsSame DEF RowKeeps

\* The engine goes on with the record as it is.
LEMMA GoesOnKeeps ==
    ASSUME NEW l \in Loops, NEW p, Looping(l, p), NEW k, Ready(p, k),
           UNCHANGED <<exp, eng>>, eng.status \in Active => UNCHANGED <<lease, tok>>,
           loop'[l].pc \notin Awaiting \cup {"failing", "finalized"},
           loop'[l].pc \in Holding => loop'[l].k = k
    PROVE  StepKeeps
<1>1. RowKeeps
    BY RowSame
<1>2. EngKeeps'
    BY LoopingIs, PlainStepIs DEF EngKeeps, Looping, Kept
<1>3. ~Undone(loop'[l]) /\ loop'[l].pc # "failed"
    BY DEF Undone, Awaiting
<1>4. CASE eng.status \notin Active
    BY <1>1, <1>2, <1>3, <1>4, RestKeeps
<1>5. CASE eng.status \in Active
    <2>1. /\ lease = tok /\ tok # 0 /\ k = tok /\ rcv.pc = "off" /\ abt.pc # "syncing"
          /\ exp.status \in Active /\ exp.att = eng.att
          /\ \/ p = exp.rev /\ pse \subseteq {0}
             \/ pse = {exp.rev} /\ eng.status = "paused"
        BY <1>5 DEF Ready
    <2>2. ~Disordered' /\ ~Pending' /\ ~Hands(cmd') /\ cmd'.pc = "off"
        BY <1>3, LoopingIs
    <2>3. UNCHANGED <<lease, tok, abt, pse, rcv>> /\ prev' = p
        BY <1>5 DEF Looping
    <2>4. \A m \in Loops : /\ loop'[m].pc \in Holding => loop'[m].k = tok'
                           /\ loop'[m].pc \notin Awaiting /\ loop'[m].pc # "failed"
        BY <1>3, <2>1, <2>3 DEF Looping, Holding, AtWork, Awaiting
    <2>5. Latest'
        BY <2>1, <2>2, <2>3, <2>4 DEF Latest
    <2>6. Together'
        BY <2>1, <2>2, <2>3, <2>4, <2>5 DEF Together
    <2>7. InStep' /\ Stopping'
        BY <2>1, <2>3, <2>4, <2>6 DEF InStep, Stopping
    <2>. QED
        BY <1>1, <1>2, <1>3, <2>7, LoopingIs DEF StepKeeps
<1>. QED
    BY <1>4, <1>5

LEMMA EndLoopKeepsOver ==
    ASSUME NEW l \in Loops, NEW p, Looping(l, p), NEW k, Ready(p, k), EndLoop(l, eng)
    PROVE  StepKeeps
<1>1. UNCHANGED <<exp, eng>> /\ loop' = [loop EXCEPT ![l] = NoLoop]
    BY DEF EndLoop
<1>2. loop'[l].pc = "off"
    BY <1>1, PlainStepIs, LoopMoves, NoLoopIs DEF Looping
<1>3. eng.status \in Active => UNCHANGED <<lease, tok>>
    BY DEF EndLoop, Active, Terminal
<1>. QED
    BY <1>1, <1>2, <1>3, GoesOnKeeps DEF Awaiting, Holding, AtWork

\* If this engine may be written over the record, it keeps what is over.
MayReplace(e) == Told(exp.rev) /\ e.status # "none" => Covers(e, exp.att)

LEMMA AbortAfterFailureKeepsOver ==
    ASSUME NEW l \in Loops, NEW p, Looping(l, p), NEW e \in Engines, e.status # "draft",
           Resting(e), MayReplace(e), AbortAfterFailure(l, e)
    PROVE  StepKeeps
<1>1. CASE e.status = "none"
    <2>1. UNCHANGED exp /\ eng' = e /\ loop' = [loop EXCEPT ![l] = NoLoop]
        BY <1>1 DEF AbortAfterFailure, EndLoop
    <2>2. loop'[l].pc = "off"
        BY <2>1, PlainStepIs, LoopMoves, NoLoopIs DEF Looping
    <2>3. eng'.status \notin Active /\ EngKeeps'
        BY <1>1, <2>1 DEF Active, EngKeeps
    <2>. QED
        BY <2>1, <2>2, <2>3, RowSame, RestKeeps DEF Undone
<1>2. CASE e.status # "none"
    <2>1. PICK res \in {0, prev + 1} :
             /\ Sync(Aborted(e), prev, res)
             /\ loop' = [loop EXCEPT ![l] = FailedLoop(res)]
        BY <1>2 DEF AbortAfterFailure, FailedLoop
    <2>2. eng' = Aborted(e)
        BY <1>2 DEF AbortAfterFailure
    <2>3. /\ Aborted(e) \in Engines /\ Aborted(e).status \notin Active
          /\ Aborted(e).status # "none"
        BY <1>2, AbortedRests DEF Active, Terminal
    <2>4. /\ prev \in Nat /\ ids \in Nat /\ fence \in Nat /\ exp.rev \in Nat /\ exp.rev # 0
          /\ Grounded /\ PlainStep
        BY PlainStepIs, GroundedTypes, LoopingIs DEF Looping
    <2>5. loop'[l] = FailedLoop(res)
        BY <2>1, <2>4, LoopMoves
    <2>6. loop'[l].pc = "failed" /\ loop'[l].res = res
        <3>1. res \in Nat
            BY <2>4
        <3>. QED
            BY <2>4, <2>5, <3>1, FailedLoopIs
    <2>7. \/ res = 0 /\ exp' = exp
          \/ exp.rev = prev /\ exp.status # "none" /\ exp'.att = Aborted(e).att
        BY <2>1, <2>3, <2>4, SyncSure
    <2>8. RowKeeps /\ EngKeeps'
        <3>1. CASE res = 0 /\ exp' = exp
            <4>1. Told(exp.rev)' => Told(exp.rev)
                BY <2>4, <2>6, <3>1, LoopingIs
            <4>2. Told(exp.rev)' => Covers(Aborted(e), exp.att)
                BY <1>2, <4>1, AbortedCovers DEF MayReplace
            <4>. QED
                BY <2>2, <3>1, <4>2, RowSame DEF EngKeeps
        <3>2. CASE exp.rev = prev /\ exp.status # "none" /\ exp'.att = Aborted(e).att
            <4>1. Told(exp.rev)
                BY <3>2 DEF Told
            <4>2. Keeps(exp.att, Aborted(e).att)
                BY <1>2, <4>1, AbortedCovers DEF MayReplace
            <4>3. Covers(Aborted(e), Aborted(e).att)
                BY <2>3, CoversOwn
            <4>. QED
                BY <2>2, <3>2, <4>2, <4>3 DEF RowKeeps, EngKeeps
        <3>. QED
            BY <2>7, <3>1, <3>2
    <2>. QED
        BY <2>2, <2>3, <2>6, <2>8, RestKeeps DEF Undone
<1>. QED
    BY <1>1, <1>2

LEMMA CatchKeepsOver ==
    ASSUME NEW l \in Loops, NEW p, Looping(l, p), NEW e \in Engines, e.status # "draft",
           Resting(e), MayReplace(e), Catch(l, e)
    PROVE  StepKeeps
<1>1. /\ ids \in Nat /\ fence \in Nat /\ Grounded /\ DOMAIN runs \subseteq 1 .. ids
      /\ \A r \in DOMAIN runs : runs[r] \in Run
    BY PlainStepIs, GroundedTypes DEF Looping
<1>2. ASSUME UNCHANGED exp, eng' = e, loop'[l].pc \notin Awaiting PROVE RowKeeps /\ EngKeeps'
    <2>1. Told(exp.rev)' => Told(exp.rev)
        BY <1>2, LoopingIs
    <2>. QED
        BY <1>2, <2>1, RowSame DEF EngKeeps, MayReplace
<1>3. CASE EndLoop(l, e) /\ e.status \in Terminal \cup {"none"}
    <2>1. UNCHANGED exp /\ eng' = e /\ loop' = [loop EXCEPT ![l] = NoLoop]
        BY <1>3 DEF EndLoop
    <2>2. loop'[l].pc = "off"
        BY <1>1, <2>1, LoopMoves, NoLoopIs
    <2>3. eng'.status \notin Active
        BY <1>3, <2>1 DEF Active, Terminal
    <2>. QED
        BY <1>2, <2>1, <2>2, <2>3, RestKeeps DEF Undone, Awaiting
<1>4. CASE ReadsActive(l, e)
    <2>1. PICK run \in ActiveRun(e) :
             loop' = [loop EXCEPT ![l] = FailingLoop(run, {runs[run]})]
        BY <1>4 DEF ReadsActive, FailingLoop
    <2>2. UNCHANGED exp /\ eng' = e
        BY <1>4 DEF ReadsActive
    <2> DEFINE load == {runs[run]}
    <2>3. run \in DOMAIN runs
        BY DEF ActiveRun
    <2>4. run \in 0 .. ids /\ load \in SUBSET Run
        BY <1>1, <2>3
    <2>5. loop'[l] = FailingLoop(run, load)
        BY <1>1, <2>1, LoopMoves
    <2>. HIDE DEF load
    <2>6. loop'[l].pc = "failing"
        BY <1>1, <2>4, <2>5, FailingLoopIs
    <2>7. Disordered'
        BY <2>6, LoopingIs
    <2>. QED
        BY <1>2, <2>2, <2>6, <2>7, RestKeeps DEF Undone, Awaiting
<1>. QED
    BY <1>3, <1>4, CatchIs, AbortAfterFailureKeepsOver

\* A task that may begin begins in the record as it does in the engine.
LEMMA StartsTaskKeepsOver ==
    ASSUME NEW l \in Loops, NEW p \in Nat, Looping(l, p), NEW k \in 0 .. fence, Ready(p, k),
           NEW t \in Tasks, NEW i \in Nat, NEW plan \in Plan, StartsTask(l, eng, p, k, t, i, plan)
    PROVE  StepKeeps
<1>1. PICK res \in {0, p + 1} :
         /\ BeginTx(t, i, ids + 1, plan, k, p, res)
         /\ loop' = [loop EXCEPT ![l] = BeginningLoop(t, i, ids + 1, plan, k, res)]
    BY DEF StartsTask, BeginningLoop
<1>2. /\ MayBegin(eng, t, i) /\ eng' = TaskBegun(eng, t, i, ids + 1) /\ ids' = ids + 1
      /\ UNCHANGED <<lease, tok, owner>>
    BY DEF StartsTask
<1>3. /\ Grounded /\ PlainStep /\ eng \in Engines /\ eng' \in Engines /\ exp \in ExpRow
      /\ ids + 1 \in Nat /\ exp.rev \in Nat
    BY PlainStepIs, RunIds DEF Looping
<1>4. /\ TakesRun(eng, eng', t, i, NewAttempt(ids + 1, "running", "none"))
      /\ eng.status = "running" /\ eng'.status = "running" /\ eng'.task = t
    BY <1>2, <1>3, TaskBegunIs
<1>5. /\ lease = tok /\ tok # 0 /\ k = tok /\ rcv.pc = "off" /\ abt.pc # "syncing"
      /\ exp.status \in Active /\ exp.att = eng.att /\ p = exp.rev /\ pse \subseteq {0}
    BY <1>4 DEF Ready, Active
<1>6. i \in DOMAIN exp.att[t] => exp.att[t][i].run = 0 /\ exp.att[t][i].status = "queued"
    BY <1>2, <1>5 DEF MayBegin
<1>7. MayBeginTx(t, i, k, p) /\ exp.status # "none"
    BY <1>5, <1>6 DEF MayBeginTx, IsAt, Active
<1>8. /\ res = p + 1 /\ exp' = [exp EXCEPT !.rev = p + 1, !.att[t] = WithAttempt(@, i, NewAttempt(ids + 1, "running", "none"))]
    BY <1>1, <1>3, <1>7, NothingFails DEF BeginTx
<1> DEFINE b == WithAttempt(exp.att[t], i, NewAttempt(ids + 1, "running", "none"))
<1>9. /\ exp'.rev = exp.rev + 1 /\ exp'.status = exp.status
      /\ exp'.att = [exp.att EXCEPT ![t] = b]
    <2>1. exp' = [exp EXCEPT !.rev = p + 1, !.att = [@ EXCEPT ![t] = b]]
        BY <1>8
    <2>. HIDE DEF b
    <2>. QED
        BY <1>3, <1>5, <2>1 DEF ExpRow
<1>10. exp'.att = eng'.att
    BY <1>4, <1>5, <1>9 DEF TakesRun
<1>11. RowKeeps
    <2>1. exp.att \in [Tasks -> Seq(Attempt)]
        BY <1>3, RowAttempts DEF Attempts
    <2>2. i \in DOMAIN exp.att[t] => exp.att[t][i].status \notin OverStatus
        BY <1>6, OverOrNot
    <2>3. Keeps(exp.att, [exp.att EXCEPT ![t] = WithAttempt(@, i, NewAttempt(ids + 1, "running", "none"))])
        BY <2>1, <2>2, WithAttemptKeeps
    <2>. QED
        BY <1>9, <2>3 DEF RowKeeps
<1>12. EngKeeps'
    BY <1>3, <1>10, CoversOwn DEF EngKeeps
<1>13. loop'[l] = BeginningLoop(t, i, ids + 1, plan, k, res)
    BY <1>1, <1>3, LoopMoves
<1>14. loop'[l].pc = "beginning" /\ loop'[l].res = exp'.rev /\ loop'[l].k = k
    BY <1>5, <1>8, <1>9, <1>13, BeginningLoopFields
<1>15. ~Disordered' /\ ~Hands(cmd') /\ cmd'.pc = "off" /\ Pending' /\ ~Undone(loop'[l])
    BY <1>14, LoopingIs DEF Undone, Awaiting
<1>16. /\ UNCHANGED <<lease, tok, abt, pse, rcv>> /\ prev' = p
       /\ \A m \in Loops : /\ loop'[m].pc \in Holding => loop'[m].k = tok'
                           /\ loop'[m].pc \in Awaiting => loop'[m].res = exp'.rev
                           /\ loop'[m].pc # "failed"
    BY <1>2, <1>5, <1>14 DEF Looping, Holding, AtWork, Awaiting
<1>17. Latest'
    BY <1>3, <1>5, <1>9, <1>15, <1>16 DEF Latest
<1>18. Together'
    BY <1>5, <1>9, <1>10, <1>15, <1>16, <1>17 DEF Together
<1>. QED
    BY <1>5, <1>11, <1>12, <1>15, <1>16, <1>18, LoopingIs DEF StepKeeps, InStep, Stopping

LEMMA ReadsBaseKeepsOver ==
    ASSUME NEW l \in Loops, NEW p \in Nat, Looping(l, p), NEW k \in 0 .. fence, Ready(p, k),
           NEW t \in Tasks, NEW i \in Nat, ReadsBase(l, eng, k, t, i)
    PROVE  StepKeeps
<1>1. PICK res \in {0, 1} : loop' = [loop EXCEPT ![l] = BaseLoop(t, i, k, res)]
    BY DEF ReadsBase, BaseLoop
<1>2. UNCHANGED <<exp, eng, lease, tok>>
    BY DEF ReadsBase
<1>3. Grounded /\ ids \in Nat /\ fence \in Nat
    BY PlainStepIs, GroundedTypes DEF Looping
<1>4. loop'[l] = BaseLoop(t, i, k, res)
    BY <1>1, <1>3, LoopMoves
<1>5. loop'[l].pc = "base" /\ loop'[l].k = k
    BY <1>3, <1>4, BaseLoopIs
<1>. QED
    BY <1>2, <1>5, GoesOnKeeps DEF Awaiting

LEMMA EngMayReplace ==
    ASSUME PlainStep
    PROVE  MayReplace(eng)
    BY PlainStepIs DEF Kept, EngKeeps, MayReplace

LEMMA NextTaskKeepsOver ==
    ASSUME NEW l \in Loops, NEW p \in Nat, Looping(l, p), NEW k \in 0 .. fence, Ready(p, k),
           NextTask(l, eng, p, k)
    PROVE  StepKeeps
<1>1. PlainStep /\ eng \in Engines /\ eng.status # "draft" /\ Resting(eng) /\ MayReplace(eng)
    BY PlainStepIs, EngMayReplace DEF Looping
<1>2. ASSUME NEW t \in Tasks, NEW i \in Nat, NEW plan \in Plan,
             \/ ReadsBase(l, eng, k, t, i) \/ StartsTask(l, eng, p, k, t, i, plan)
             \/ Catch(l, eng)
      PROVE  StepKeeps
    BY <1>1, <1>2, ReadsBaseKeepsOver, StartsTaskKeepsOver, CatchKeepsOver
<1>. QED
    BY <1>1, <1>2, EndLoopKeepsOver, NextTaskIs

\* What the engine at work writes is what the record says.
LEMMA LoopSyncKeepsOver ==
    ASSUME NEW l \in Loops, NEW p \in Nat, Looping(l, p), Ready(p, loop[l].k),
           eng.status \in Active => p = exp.rev /\ pse \subseteq {0},
           UNCHANGED <<eng, runs, lease, tok>>, NEW res, SyncEngine(p, res),
           NEW pc \in {"begun", "committed"}, LoopTo(l, pc, res)
    PROVE  StepKeeps
<1>1. /\ PlainStep /\ Following /\ eng \in Engines /\ eng.status # "draft" /\ Resting(eng)
      /\ MayReplace(eng) /\ exp.rev \in Nat /\ exp.rev # 0 /\ exp.status # "none"
    BY PlainStepIs, EngMayReplace, LoopingIs DEF Looping, Unbegun
<1>2. loop'[l].pc = pc /\ loop'[l].res = res /\ loop'[l].k = loop[l].k
    BY <1>1, LoopToFields
<1>3. ~Disordered' /\ ~Undone(loop'[l]) /\ loop'[l].pc # "failed" /\ Pending'
    BY <1>2, LoopingIs DEF Undone, Awaiting
<1>4. CASE eng.status = "none"
    <2>1. UNCHANGED exp /\ eng'.status \notin Active /\ eng'.status = "none"
        BY <1>4 DEF SyncEngine, Active
    <2>. QED
        BY <1>3, <2>1, RowSame, RestKeeps DEF EngKeeps
<1>5. CASE eng.status # "none"
    <2>1. \/ exp.rev # p /\ res = 0 /\ exp' = exp
          \/ /\ exp.rev = p /\ res = p + 1 /\ exp'.rev = p + 1
             /\ exp'.att = eng.att /\ exp'.status = eng.status
        BY <1>1, <1>5, SyncSure DEF SyncEngine
    <2>2. CASE exp.rev # p /\ res = 0 /\ exp' = exp
        <3>1. eng'.status \notin Active
            BY <2>2
        <3>2. Told(exp.rev)' => Told(exp.rev)
            BY <1>1, <1>2, <2>2, LoopingIs
        <3>3. EngKeeps'
            BY <1>1, <1>5, <2>2, <3>2 DEF EngKeeps, MayReplace
        <3>. QED
            BY <1>3, <2>2, <3>1, <3>3, RowSame, RestKeeps
    <2>3. CASE /\ exp.rev = p /\ res = p + 1 /\ exp'.rev = p + 1
               /\ exp'.att = eng.att /\ exp'.status = eng.status
        <3>1. EngKeeps'
            BY <1>1, <2>3, CoversOwn DEF EngKeeps
        <3>2. RowKeeps
            <4>1. CASE eng.status \in Active
                BY <2>3, <4>1, KeepsSame DEF Ready, RowKeeps
            <4>2. CASE eng.status \notin Active
                <5>1. eng.task = 0
                    BY <1>1, <4>2 DEF Resting, Active
                <5>2. Covers(eng, exp.att)
                    BY <1>1, <1>5, <2>3 DEF MayReplace, Looping
                <5>. QED
                    BY <2>3, <5>1, <5>2 DEF Covers, RowKeeps
            <4>. QED
                BY <4>1, <4>2
        <3>3. CASE eng.status \notin Active
            BY <1>3, <3>1, <3>2, <3>3, RestKeeps
        <3>4. CASE eng.status \in Active
            <4>1. /\ lease = tok /\ tok # 0 /\ loop[l].k = tok /\ rcv.pc = "off"
                  /\ abt.pc # "syncing" /\ pse \subseteq {0}
                BY <3>4 DEF Ready
            <4>2. /\ UNCHANGED <<lease, tok, abt, pse, rcv>> /\ prev' = p
                  /\ \A m \in Loops : /\ loop'[m].pc \in Holding => loop'[m].k = tok'
                                      /\ loop'[m].pc \in Awaiting => loop'[m].res = exp'.rev
                                      /\ loop'[m].pc # "failed"
                BY <1>2, <2>3, <4>1 DEF Looping, Holding, AtWork, Awaiting
            <4>3. cmd'.pc = "off" /\ ~Hands(cmd')
                BY LoopingIs
            <4>4. Latest'
                BY <1>1, <1>3, <2>3, <4>1, <4>2, <4>3 DEF Latest
            <4>5. Together'
                BY <2>3, <3>4, <4>1, <4>2, <4>3, <4>4 DEF Together
            <4>. QED
                BY <1>3, <3>1, <3>2, <4>1, <4>2, <4>5, LoopingIs DEF StepKeeps, InStep, Stopping
        <3>. QED
            BY <3>3, <3>4
    <2>. QED
        BY <2>1, <2>2, <2>3
<1>. QED
    BY <1>4, <1>5

\* A commit that is refused left the attempt running in the engine.
LEMMA RunningStillEnds ==
    ASSUME NEW a \in [Tasks -> Seq(Attempt)], NEW t \in Tasks, NEW i \in DOMAIN a[t],
           a[t][i].status = "running", NEW cov \in 0 .. 2, NEW plan \in Plan,
           NEW b \in [Tasks -> Seq(Attempt)],
           b = [a EXCEPT ![t] = Over(a[t], i, "running", cov, plan)]
    PROVE  Keeps(Ended(b), Ended(a))
<1>1. Over(a[t], i, "running", cov, plan) = [a[t] EXCEPT ![i] = Finalized(a[t][i], "running", cov, plan)]
    BY DEF Over
<1>2. a[t] \in Seq(Attempt) /\ a[t][i] \in Attempt /\ "running" \in RunStatus
    BY DEF RunStatus
<1>3. /\ Finalized(a[t][i], "running", cov, plan).run = a[t][i].run
      /\ Finalized(a[t][i], "running", cov, plan).status = "running"
    BY <1>2, FinalizedIs
<1>4. ASSUME NEW u \in Tasks
      PROVE  /\ DOMAIN b[u] = DOMAIN a[u]
             /\ \A j \in DOMAIN a[u] : b[u][j].status = a[u][j].status /\ b[u][j].run = a[u][j].run
    <2>1. CASE u = t
        <3>1. b[u] = [a[t] EXCEPT ![i] = Finalized(a[t][i], "running", cov, plan)]
            BY <1>1, <2>1
        <3>2. DOMAIN b[u] = DOMAIN a[u] /\ \A j \in DOMAIN a[u] : j # i => b[u][j] = a[u][j]
            BY <2>1, <3>1
        <3>3. b[u][i] = Finalized(a[t][i], "running", cov, plan)
            BY <2>1, <3>1
        <3>. QED
            BY <1>3, <2>1, <3>2, <3>3
    <2>2. CASE u # t
        BY <2>2
    <2>. QED
        BY <2>1, <2>2
<1>5. ASSUME NEW u \in Tasks, NEW j \in Places(Ended(b)[u], OverStatus)
      PROVE  /\ j \in DOMAIN Ended(a)[u] /\ Ended(a)[u][j].status = Ended(b)[u][j].status
             /\ Ended(a)[u][j].run = Ended(b)[u][j].run
    <2>1. /\ Ended(a)[u] = Stopped(a[u]) /\ Ended(b)[u] = Stopped(b[u])
          /\ a[u] \in Seq(Attempt) /\ b[u] \in Seq(Attempt)
        BY DEF Ended
    <2>2. j \in DOMAIN b[u] /\ j \in DOMAIN a[u]
        BY <1>4, <2>1, StoppedAt DEF Places
    <2>3. b[u][j].status = a[u][j].status /\ b[u][j].run = a[u][j].run
        BY <1>4, <2>2
    <2>. QED
        BY <2>1, <2>2, <2>3, StoppedAt
<1>. QED
    BY <1>5 DEF Keeps

\* A commit is refused only to a run that nobody knows to be over, so that
\* the engine it goes back to keeps what the one that is aborted meanwhile
\* has ended.
LEMMA CommitsKeepsOver ==
    ASSUME NEW l \in Loops, Looping(l, prev), Ready(prev, loop[l].k), loop[l].pc = "executed",
           fence' = fence, NEW row, NEW cov, NEW res, Commits(l, row, cov, res)
    PROVE  StepKeeps
<1> DEFINE t == loop[l].task
           i == loop[l].at
           run == loop[l].run
           plan == loop[l].plan
           k == loop[l].k
<1>0. Grounded /\ Trusted /\ Following /\ Kept /\ PlainStep
    BY PlainStepIs DEF Looping
<1>1. /\ t \in Tasks /\ run \in DOMAIN runs /\ row \in Run /\ plan \in Plan
      /\ loop[l] \in LoopTypeOf(ids, fence)
    BY <1>0, LoopFields DEF AtWork, Begun, Commits
<1>2. cov \in 0 .. 2 /\ row.status \in RunStatus /\ prev \in Nat
    BY <1>0, <1>1, CoverageIs, FollowingIs DEF Commits, Run
<1>3. eng \in Engine /\ eng.status = "running" /\ eng.task # 0 /\ eng.att[t][i].status = "running"
    <2>1. eng.task = t /\ eng.att[t][i].status = "running"
        BY DEF Commits, MayCommit
    <2>2. t # 0
        BY <1>1 DEF Tasks
    <2>3. eng # NoEngine
        BY <2>1, <2>2, NoRowFields
    <2>. QED
        BY <1>0, <2>1, <2>2, <2>3, EngRests, EngineFields DEF Resting
<1>4. /\ CommitTx(t, i, run, row, k, prev, cov, plan, res) /\ UNCHANGED <<ids, lease, tok>>
      /\ row \in loop[l].load
    BY DEF Commits
<1>4a. \/ UNCHANGED <<exp, runs>> /\ res = 0
       \/ /\ UNCHANGED <<exp, runs>> /\ lease = k /\ res = exp.rev
          /\ exp.status # "none" /\ IsReplay(t, i, run, row)
       \/ lease = k /\ CommitWins(t, i, run, row, prev, cov, plan, res)
    <2>1. CommitTx(t, i, run, row, k, prev, cov, plan, res)
        BY <1>4
    <2>2. Grounded /\ t \in Tasks /\ run \in DOMAIN runs /\ row \in Run /\ prev \in Nat
          /\ cov \in 0 .. 2 /\ plan \in Plan /\ Steady
        BY <1>0, <1>1, <1>2, <1>4 DEF Steady
    <2>. HIDE DEF t, i, run, plan, k
    <2>3. CommitEnds(t, i, run, row, k, prev, cov, plan, res)
        BY ONLY <2>1, <2>2, CommitTxIs
    <2>. QED
        BY <2>3 DEF CommitEnds
<1> DEFINE c == TaskCommitted(eng, t, i, row.status, cov, plan)
           atts == Over(eng.att[t], i, row.status, cov, plan)
<1>5. eng' = c
    BY DEF Commits
<1>6. c \in Engine /\ c.att = [eng.att EXCEPT ![t] = atts] /\ c.task = 0
    <2>1. c = TaskCommitted(eng, t, i, row.status, cov, plan)
        OBVIOUS
    <2>2. atts = Over(eng.att[t], i, row.status, cov, plan)
        OBVIOUS
    <2>3. eng \in Engine /\ t \in Tasks /\ plan \in Plan /\ cov \in 0 .. 2 /\ row.status \in RunStatus
        BY <1>1, <1>2, <1>3
    <2>. HIDE DEF c, atts, t, i, plan
    <2>4. /\ c \in Engine /\ c.att = [eng.att EXCEPT ![t] = atts]
          /\ c.sel = [eng.sel EXCEPT ![t] = Select(atts)] /\ c.task = 0
          /\ c.status \in {eng.status, "completed", "completed_with_failures", "paused"}
        BY ONLY <2>1, <2>2, <2>3, TaskCommittedIs
    <2>. QED
        BY <2>4
<1> DEFINE x == [loop[l] EXCEPT !.pc = "committing", !.res = res, !.load = {}, !.pre = eng]
<1>7. loop' = [loop EXCEPT ![l] = x]
    BY DEF Commits
<1>8. loop'[l] = x
    BY <1>0, <1>7, LoopMoves
<1>9. loop'[l].pre = eng /\ loop'[l].pc = "committing" /\ loop'[l].res = res /\ loop'[l].k = k
    <2>1. x.pc = "committing" /\ x.res = res
        BY <1>1 DEF LoopTypeOf
    <2>2. x.pre = eng
        BY <1>1 DEF LoopTypeOf
    <2>3. x.k = k
        BY <1>1 DEF LoopTypeOf
    <2>. QED
        BY <1>8, <2>1, <2>2, <2>3
<1>10. /\ lease = tok /\ tok # 0 /\ k = tok /\ rcv.pc = "off" /\ abt.pc # "syncing"
       /\ exp.status \in Active /\ exp.att = eng.att /\ prev = exp.rev /\ pse \subseteq {0}
    BY <1>3 DEF Ready, Active
<1>11. i \in DOMAIN eng.att[t] /\ eng.att[t] \in Seq(Attempt) /\ eng.att \in [Tasks -> Seq(Attempt)]
    <2>1. LoopKnown(loop[l], eng, exp)
        BY <1>0 DEF Trusted
    <2>2. i \in DOMAIN eng.att[t]
        BY <2>1 DEF LoopKnown, AtWork
    <2>. QED
        BY <1>1, <1>3, <2>2 DEF Engine
<1>12. \A r \in loop[l].load : r.status \in OverStatus => runs[run] = r
    BY <1>0 DEF Kept, OverRow
<1>. HIDE DEF x, c, t, i, run, plan, k, atts
<1>13. exp.att[t][i].status \notin OverStatus /\ exp.rev \in Nat
    BY <1>0, <1>3, <1>10, OverOrNot, FollowingIs
<1>14. Keeps(exp.att, eng'.att)
    <2>1. c.att[t] = [eng.att[t] EXCEPT ![i] = Finalized(eng.att[t][i], row.status, cov, plan)]
        BY <1>1, <1>6, <1>11 DEF atts, Over
    <2>2. c.att[t] = [eng.att[t] EXCEPT ![i] = c.att[t][i]]
        BY <1>11, <2>1
    <2>3. c.att = [eng.att EXCEPT ![t] = c.att[t]]
        BY <1>1, <1>6, <1>11
    <2>4. c.att = [eng.att EXCEPT ![t] = [@ EXCEPT ![i] = c.att[t][i]]]
        BY <2>2, <2>3
    <2> DEFINE b == c.att
    <2>5. b = [eng.att EXCEPT ![t] = [@ EXCEPT ![i] = b[t][i]]] /\ b = eng'.att
        BY <1>5, <2>4
    <2>. HIDE DEF b
    <2> DEFINE a == eng.att
    <2>6. /\ a \in [Tasks -> Seq(Attempt)] /\ t \in Tasks /\ a = exp.att /\ b = eng'.att
          /\ b = [a EXCEPT ![t] = [@ EXCEPT ![i] = b[t][i]]]
        BY <1>1, <1>10, <1>11, <2>5
    <2>7. i \in DOMAIN a[t] => a[t][i].status \notin OverStatus
        BY <1>10, <1>13
    <2>. HIDE DEF a
    <2>8. Keeps(a, b)
        BY ONLY <2>6, <2>7, OverKeeps
    <2>. QED
        BY <2>6, <2>8
<1>15. \/ exp' = exp /\ res = 0 /\ runs[run].rev # row.rev
       \/ exp'.rev = exp.rev + 1 /\ exp'.status = exp.status /\ res = exp'.rev /\ exp'.att = eng'.att
    <2>1. CASE res = 0 /\ Fails(MayCommitTx(t, i, run, row, k, prev)) /\ UNCHANGED <<exp, runs>>
        <3>1. MayCommitTx(t, i, run, row, k, prev) \in BOOLEAN
            BY DEF MayCommitTx, IsReplay
        <3>2. ~MayCommitTx(t, i, run, row, k, prev)
            BY <1>0, <2>1, <3>1, NothingFails
        <3>3. lease = k /\ exp.status # "none" /\ i \in DOMAIN exp.att[t] /\ exp.rev = prev
            BY <1>10, <1>11 DEF Active
        <3>. QED
            BY <1>13, <2>1, <3>2, <3>3 DEF MayCommitTx
    <2>2. CASE res # 0 \/ ~UNCHANGED <<exp, runs>>
        <3>1. ~IsReplay(t, i, run, row)
            BY <1>13 DEF IsReplay
        <3>4. CommitWins(t, i, run, row, prev, cov, plan, res)
            BY <1>4a, <2>2, <3>1
        <3>. QED
            BY <1>5, <1>6, <1>10, <3>4 DEF CommitWins, atts
    <2>3. CASE res = 0 /\ UNCHANGED <<exp, runs>>
        <3>1. ~IsReplay(t, i, run, row)
            BY <1>13 DEF IsReplay
        <3>2. prev + 1 # 0
            BY <1>2
        <3>3. Fails(MayCommitTx(t, i, run, row, k, prev))
            BY <1>4, <2>3, <3>1, <3>2 DEF CommitTx
        <3>. QED
            BY <2>1, <2>3, <3>3
    <2>. QED
        BY <2>2, <2>3
<1>16. CASE exp' = exp /\ res = 0 /\ runs[run].rev # row.rev
    <2>1. row.status = "running"
        BY <1>1, <1>2, <1>4, <1>12, <1>16 DEF RunStatus
    <2>2. Undone(loop'[l]) /\ Disordered'
        BY <1>0, <1>9, <1>16, LoopingIs DEF Undone
    <2>3. RowKeeps
        BY <1>16, RowSame
    <2>4. c.att \in [Tasks -> Seq(Attempt)]
        BY <1>6 DEF Engine
    <2>5. EngKeeps'
        <3>1. Keeps(c.att, Ended(c.att))
            BY <2>4, EndedKeeps
        <3>2. Keeps(exp.att, Ended(c.att))
            BY <1>5, <1>14, <3>1, KeepsAll
        <3>. QED
            BY <1>5, <1>14, <1>16, <3>2 DEF EngKeeps, Covers
    <2>6. PreKept(loop[l].pre)'
        <3>1. c.att = [eng.att EXCEPT ![t] = Over(eng.att[t], i, "running", cov, plan)]
            BY <1>6, <2>1 DEF atts
        <3> DEFINE b == c.att
        <3>2. b = [eng.att EXCEPT ![t] = Over(eng.att[t], i, "running", cov, plan)]
              /\ b \in [Tasks -> Seq(Attempt)]
            BY <2>4, <3>1
        <3>. HIDE DEF b
        <3>3. Keeps(Ended(b), Ended(eng.att))
            BY <1>1, <1>2, <1>3, <1>11, <3>2, RunningStillEnds
        <3>4. Keeps(exp.att, Ended(eng.att))
            BY <1>10, <1>11, EndedKeeps
        <3>5. loop'[l].pre.task # 0
            BY <1>3, <1>9
        <3>6. b = eng'.att
            BY <1>5 DEF b
        <3>. QED
            BY <1>9, <1>16, <3>3, <3>4, <3>5, <3>6 DEF PreKept
    <2>. QED
        BY <1>9, <2>2, <2>3, <2>5, <2>6, RestKeeps
<1>17. CASE exp'.rev = exp.rev + 1 /\ exp'.status = exp.status /\ res = exp'.rev /\ exp'.att = eng'.att
    <2>1. RowKeeps
        BY <1>14, <1>17 DEF RowKeeps
    <2>2. EngKeeps'
        BY <1>0, <1>17, PlainStepIs, CoversOwn DEF EngKeeps
    <2>3. ~Undone(loop'[l]) /\ ~Disordered' /\ Pending' /\ ~Hands(cmd') /\ cmd'.pc = "off"
        BY <1>9, <1>13, <1>17, LoopingIs DEF Undone, Awaiting
    <2>4. /\ UNCHANGED <<lease, tok, abt, pse, rcv>> /\ prev' = prev
          /\ \A m \in Loops : /\ loop'[m].pc \in Holding => loop'[m].k = tok'
                              /\ loop'[m].pc \in Awaiting => loop'[m].res = exp'.rev
                              /\ loop'[m].pc # "failed"
        BY <1>4, <1>9, <1>10, <1>17 DEF Looping, Holding, AtWork, Awaiting
    <2>5. Latest'
        BY <1>10, <1>13, <1>17, <2>3, <2>4 DEF Latest
    <2>6. Together'
        BY <1>10, <1>17, <2>3, <2>4, <2>5 DEF Together
    <2>. QED
        BY <1>10, <2>1, <2>2, <2>3, <2>4, <2>6, LoopingIs DEF StepKeeps, InStep, Stopping
<1>. QED
    BY <1>15, <1>16, <1>17

\* It is the turn of this loop, which is the only one.
Turn(l) ==
    /\ PlainStep /\ cmd = NoCmd /\ UNCHANGED <<cmd, abt, pse, rcv>>
    /\ exp.status \notin Unbegun /\ loop' = [loop EXCEPT ![l] = loop'[l]]
    /\ \A m \in Loops : m # l => loop[m].pc = "off"

LEMMA TurnIs ==
    ASSUME NEW l \in Loops, Turn(l), NEW p, Told(p), prev' = p
    PROVE  Looping(l, p)
<1>1. \A m \in Loops : m # l => loop'[m].pc = "off"
    BY PlainStepIs, LoopMoves DEF Turn
<1>. QED
    BY <1>1 DEF Looping, Turn

LEMMA LoopReady ==
    ASSUME NEW l \in Loops, Turn(l), loop[l].pc \in Holding, ~Undone(loop[l]),
           NEW p, p = IF loop[l].pc \in Awaiting THEN loop[l].res ELSE prev
    PROVE  /\ Ready(p, loop[l].k) /\ Told(p)
           /\ loop[l].pc \in Awaiting /\ eng.status \in Active => p = exp.rev /\ pse \subseteq {0}
<1>1. InStep /\ Stopping
    BY PlainStepIs DEF Turn, Kept
<1>2. ~Disordered
    BY DEF Turn, Disordered, Undone, Holding, AtWork
<1>3. Told(p)
    BY DEF Told
<1>4. cmd.pc = "off" /\ ~Hands(cmd)
    BY NothingInFlight DEF Turn, Hands
<1>5. CASE eng.status \in Active
    <2>1. Together /\ abt.pc # "syncing"
        BY <1>1, <1>2, <1>5 DEF InStep, Stopping
    <2>2. Pending <=> loop[l].pc \in Awaiting
        BY <1>4 DEF Pending, Awaiting, Turn
    <2>3. loop[l].pc \in Awaiting => p = exp.rev /\ pse \subseteq {0}
        BY <2>1, <2>2 DEF Together, Latest
    <2>4. loop[l].pc \notin Awaiting => \/ p = exp.rev /\ pse \subseteq {0}
                                        \/ pse = {exp.rev} /\ eng.status = "paused"
        BY <2>1, <2>2 DEF Together, Latest
    <2>. QED
        BY <1>3, <2>1, <2>3, <2>4 DEF Ready, Together
<1>. QED
    BY <1>3, <1>5 DEF Ready

LEMMA LoopBaseKeepsOver ==
    ASSUME NEW l \in Loops, Turn(l), LoopBase(l)
    PROVE  StepKeeps
<1>1. loop[l].pc = "base" /\ fence' = fence /\ prev' = prev
    BY DEF LoopBase
<1>2. \/ Catch(l, eng)
      \/ NextTask(l, eng, prev, loop[l].k)
      \/ StartsTask(l, eng, prev, loop[l].k, loop[l].task, loop[l].at, loop[l].plan)
    BY BeginTaskIs DEF LoopBase
<1>3. Following /\ eng \in Engines /\ eng.status # "draft" /\ Resting(eng) /\ MayReplace(eng)
    BY PlainStepIs, EngMayReplace DEF Turn
<1>4. loop[l].task \in Tasks /\ loop[l].at \in Nat /\ loop[l].plan \in Plan
         /\ loop[l].k \in 0 .. fence /\ prev \in Nat
    BY <1>1, <1>3, LoopFields, FollowingIs DEF AtWork
<1>5. Told(prev) /\ loop[l].pc \in Holding /\ loop[l].pc \notin Awaiting /\ ~Undone(loop[l])
    BY <1>1 DEF Told, Holding, AtWork, Awaiting, Undone
<1>6. Looping(l, prev) /\ Ready(prev, loop[l].k)
    BY <1>1, <1>5, TurnIs, LoopReady
<1>. QED
    BY <1>2, <1>3, <1>4, <1>6, CatchKeepsOver, NextTaskKeepsOver, StartsTaskKeepsOver

LEMMA LoopWritesKeepsOver ==
    ASSUME NEW l \in Loops, Turn(l), LoopBegun(l) \/ LoopCommitted(l)
    PROVE  StepKeeps
<1>1. loop[l].pc \in {"beginning", "committing"}
    BY DEF LoopBegun, LoopCommitted
<1>2. Following /\ eng \in Engines /\ eng.status # "draft" /\ Resting(eng) /\ MayReplace(eng)
    BY PlainStepIs, EngMayReplace DEF Turn
<1>3. loop[l].pc \in Holding /\ loop[l].pc \in Awaiting /\ loop[l].res \in Nat /\ Told(prev)
    BY <1>1, <1>2, LoopFields, FollowingIs DEF Holding, AtWork, Awaiting, Told
<1>4. CASE Catch(l, eng) /\ prev' = prev
    BY <1>2, <1>3, <1>4, TurnIs, CatchKeepsOver
<1>5. CASE Catch(l, loop[l].pre) /\ prev' = prev /\ Undone(loop[l])
    <2>1. PreKept(loop[l].pre)
        BY <1>5, PlainStepIs DEF Turn, Kept, PreKeeps
    <2>2. MayReplace(loop[l].pre)
        BY <2>1 DEF PreKept, MayReplace, Covers
    <2>3. loop[l].pre \in Engines /\ loop[l].pre.status # "draft" /\ Resting(loop[l].pre)
        BY <1>2, FollowingIs, MemoryOf, EngRests
    <2>. QED
        BY <1>3, <1>5, <2>2, <2>3, TurnIs, CatchKeepsOver
<1>6. ASSUME ~Undone(loop[l]), prev' = loop[l].res, UNCHANGED <<eng, runs, lease, tok>>, NEW res,
             SyncEngine(loop[l].res, res), NEW pc \in {"begun", "committed"}, LoopTo(l, pc, res)
      PROVE  StepKeeps
    <2> DEFINE p == loop[l].res
    <2>1. /\ Ready(p, loop[l].k) /\ Told(p) /\ p \in Nat
          /\ eng.status \in Active => p = exp.rev /\ pse \subseteq {0}
        BY <1>3, <1>6, LoopReady
    <2>2. Looping(l, p)
        BY <1>6, <2>1, TurnIs
    <2>3. SyncEngine(p, res)
        BY <1>6
    <2>. HIDE DEF p
    <2>. QED
        BY <1>6, <2>1, <2>2, <2>3, LoopSyncKeepsOver
<1>7. CASE LoopBegun(l)
    <2>1. ~Undone(loop[l])
        BY <1>7 DEF LoopBegun, Undone
    <2>. QED
        BY <1>4, <1>6, <1>7, <2>1 DEF LoopBegun
<1>8. CASE LoopCommitted(l)
    <2>1. Undone(loop[l]) <=> loop[l].res = 0
        BY <1>8 DEF LoopCommitted, Undone
    <2>. QED
        BY <1>5, <1>6, <1>8, <2>1 DEF LoopCommitted
<1>. QED
    BY <1>7, <1>8

LEMMA LoopAdvanceKeepsOver ==
    ASSUME NEW l \in Loops, Turn(l), LoopAdvance(l)
    PROVE  StepKeeps
<1>1. /\ loop[l].pc = "committed"
      /\ \/ Catch(l, eng) /\ prev' = prev
         \/ prev' = loop[l].res /\ NextTask(l, eng, loop[l].res, loop[l].k)
    BY DEF LoopAdvance
<1>2. Following /\ eng \in Engines /\ eng.status # "draft" /\ Resting(eng) /\ MayReplace(eng)
    BY PlainStepIs, EngMayReplace DEF Turn
<1>3. /\ loop[l].pc \in Holding /\ loop[l].pc \in Awaiting /\ loop[l].res \in Nat
      /\ loop[l].k \in 0 .. fence /\ Told(prev) /\ ~Undone(loop[l])
    BY <1>1, <1>2, LoopFields, FollowingIs DEF Holding, AtWork, Awaiting, Told, Undone
<1>4. Ready(loop[l].res, loop[l].k) /\ Told(loop[l].res)
    BY <1>3, LoopReady
<1>. QED
    BY <1>1, <1>2, <1>3, <1>4, TurnIs, CatchKeepsOver, NextTaskKeepsOver

\* The loop waits, or its executor has its run written.
LEMMA LoopExecutionIs ==
    ASSUME Following, NEW l \in Loops, RunLoad(l) \/ RunWrite(l) \/ LoopExecuted(l)
    PROVE  /\ UNCHANGED <<exp, eng, lease, tok, prev>> /\ loop[l].pc = "executing"
           /\ loop'[l].pc \in {"executing", "executed"} /\ loop'[l].k = loop[l].k
<1>1. /\ UNCHANGED <<exp, eng, lease, tok, prev>> /\ loop[l].pc = "executing"
      /\ loop[l] \in LoopTypeOf(ids, fence)
    BY FollowingIs, LoopFields DEF RunLoad, RunWrite, LoopExecuted, Executing, durable
<1> DEFINE row == {runs[loop[l].run]}
           x == [loop[l] EXCEPT !.load = row]
           y == [loop[l] EXCEPT !.load = {}]
           z == [loop[l] EXCEPT !.load = {}, !.lossy = TRUE]
           v == [loop[l] EXCEPT !.pc = "executed", !.load = row]
           w == [loop[l] EXCEPT !.pc = "executed", !.res = 0]
<1>2. \/ loop' = [loop EXCEPT ![l] = x] \/ loop' = [loop EXCEPT ![l] = y]
      \/ loop' = [loop EXCEPT ![l] = z] \/ loop' = [loop EXCEPT ![l] = v]
      \/ loop' = [loop EXCEPT ![l] = w]
    BY DEF RunLoad, RunWrite, LoopExecuted, LoopTo
<1>3. \A n \in {x, y, z, v, w} : n.pc \in {"executing", "executed"} /\ n.k = loop[l].k
    <2>. HIDE DEF row
    <2>. QED BY <1>1 DEF LoopTypeOf
<1>. HIDE DEF x, y, z, v, w
<1>4. loop'[l] \in {x, y, z, v, w}
    BY <1>2, FollowingIs, LoopMoves
<1>. QED
    BY <1>1, <1>3, <1>4

LEMMA LoopExecutionKeepsOver ==
    ASSUME NEW l \in Loops, Turn(l), LoopExecute(l) \/ RunLoad(l) \/ RunWrite(l) \/ LoopExecuted(l)
    PROVE  StepKeeps
<1>1. Following /\ eng \in Engines /\ eng.status # "draft" /\ Resting(eng) /\ MayReplace(eng)
    BY PlainStepIs, EngMayReplace DEF Turn
<1>2. CASE LoopExecute(l)
    <2>1. loop[l].pc = "begun"
        BY <1>2 DEF LoopExecute
    <2>2. loop[l].pc \in Holding /\ loop[l].pc \in Awaiting /\ Told(prev) /\ ~Undone(loop[l])
        BY <2>1 DEF Holding, AtWork, Awaiting, Told, Undone
    <2>3. Ready(loop[l].res, loop[l].k) /\ Told(loop[l].res)
        BY <2>2, LoopReady
    <2>4. CASE Catch(l, eng) /\ prev' = prev
        BY <1>1, <2>2, <2>4, TurnIs, CatchKeepsOver
    <2>5. CASE /\ prev' = loop[l].res /\ LoopTo(l, "executing", 0)
               /\ UNCHANGED <<exp, eng, lease, tok>>
        <3>1. Looping(l, loop[l].res)
            BY <2>3, <2>5, TurnIs
        <3>2. loop'[l].pc = "executing" /\ loop'[l].k = loop[l].k
            BY <1>1, <2>5, LoopToFields
        <3>. QED
            BY <2>3, <2>5, <3>1, <3>2, GoesOnKeeps DEF Awaiting
    <2>. QED
        BY <1>2, <2>4, <2>5 DEF LoopExecute
<1>3. CASE RunLoad(l) \/ RunWrite(l) \/ LoopExecuted(l)
    <2>1. /\ UNCHANGED <<exp, eng, lease, tok, prev>> /\ loop[l].pc = "executing"
          /\ loop'[l].pc \in {"executing", "executed"} /\ loop'[l].k = loop[l].k
        BY <1>1, <1>3, LoopExecutionIs
    <2>2. /\ loop[l].pc \in Holding /\ loop[l].pc \notin Awaiting /\ ~Undone(loop[l]) /\ Told(prev)
          /\ loop'[l].pc \notin Awaiting \cup {"failing", "finalized"}
        BY <2>1 DEF Holding, AtWork, Awaiting, Told, Undone
    <2>3. Ready(prev, loop[l].k) /\ Looping(l, prev)
        BY <2>1, <2>2, LoopReady, TurnIs
    <2>. QED
        BY <2>1, <2>2, <2>3, GoesOnKeeps
<1>. QED
    BY <1>2, <1>3

LEMMA LoopCommitKeepsOver ==
    ASSUME NEW l \in Loops, Turn(l), LoopCommit(l)
    PROVE  StepKeeps
<1>1. loop[l].pc = "executed" /\ fence' = fence /\ prev' = prev
    BY DEF LoopCommit
<1>2. eng \in Engines /\ eng.status # "draft" /\ Resting(eng) /\ MayReplace(eng)
    BY PlainStepIs, EngMayReplace DEF Turn
<1>3. loop[l].pc \in Holding /\ loop[l].pc \notin Awaiting /\ Told(prev) /\ ~Undone(loop[l])
    BY <1>1 DEF Holding, AtWork, Awaiting, Told, Undone
<1>4. Looping(l, prev) /\ Ready(prev, loop[l].k)
    BY <1>1, <1>3, LoopReady, TurnIs
<1>5. CASE Catch(l, eng)
    BY <1>2, <1>4, <1>5, CatchKeepsOver
<1>6. ASSUME NEW row, NEW cov, NEW res, Commits(l, row, cov, res)
      PROVE  StepKeeps
    BY <1>1, <1>4, <1>6, CommitsKeepsOver
<1>. QED
    BY <1>5, <1>6, LoopCommitIs

LEMMA LoopEndsKeepsOver ==
    ASSUME NEW l \in Loops, Turn(l), LoopFailing(l) \/ LoopFinalized(l) \/ LoopFailed(l)
    PROVE  StepKeeps
<1>1. /\ Following /\ eng \in Engines /\ eng.status # "draft" /\ Resting(eng) /\ MayReplace(eng)
      /\ Told(prev)
    BY PlainStepIs, EngMayReplace DEF Turn, Told
<1>2. CASE AbortAfterFailure(l, eng) /\ prev' = prev
    BY <1>1, <1>2, TurnIs, AbortAfterFailureKeepsOver
<1>3. CASE LoopTo(l, "finalized", 0) /\ UNCHANGED <<exp, eng, prev>>
    <2>1. Looping(l, prev) /\ loop'[l].pc = "finalized"
        BY <1>1, <1>3, TurnIs, LoopToFields
    <2>2. Disordered' /\ ~Undone(loop'[l])
        BY <2>1, LoopingIs DEF Undone
    <2>3. Told(exp.rev)' => Told(exp.rev)
        BY <1>3, <2>1, LoopingIs DEF Awaiting
    <2>4. EngKeeps'
        BY <1>1, <1>3, <2>3 DEF EngKeeps, MayReplace
    <2>. QED
        BY <1>3, <2>1, <2>2, <2>4, RowSame, RestKeeps
<1>4. CASE LoopFailed(l)
    <2>1. /\ loop[l].pc = "failed" /\ EndLoop(l, eng)
          /\ prev' = IF loop[l].res = 0 THEN prev ELSE loop[l].res
        BY <1>4 DEF LoopFailed
    <2>2. Told(prev')
        BY <1>1, <2>1 DEF Told, Awaiting
    <2>3. eng.status \notin Active
        BY <2>1, PlainStepIs DEF Turn, Kept, Stopping
    <2> DEFINE p == prev'
    <2>4. Told(p) /\ prev' = p
        BY <2>2
    <2>. HIDE DEF p
    <2>5. Looping(l, p)
        BY <2>4, TurnIs
    <2>6. Ready(p, 0)
        BY <2>3 DEF Ready
    <2>. QED
        BY <2>1, <2>5, <2>6, EndLoopKeepsOver
<1>. QED
    BY <1>2, <1>3, <1>4 DEF LoopFailing, LoopFinalized

\* No executor returns in the step, and only the lease of the tab is let go.
Leaves(l) == loop'[l].pc # "executed" /\ lease' \in {lease, 0} /\ (lease' = lease \/ lease = tok)

LEMMA ShapesLeave ==
    /\ NoLoop.pc = "off"
    /\ \A res : FailedLoop(res).pc = "failed"
    /\ \A run, load : FailingLoop(run, load).pc = "failing"
    /\ \A t, i, k, res : BaseLoop(t, i, k, res).pc = "base"
    /\ \A t, i, run, plan, k, res : BeginningLoop(t, i, run, plan, k, res).pc = "beginning"
    BY DEF NoLoop, FailedLoop, FailingLoop, BaseLoop, BeginningLoop

LEMMA CatchLeaves ==
    ASSUME Grounded, NEW l \in Loops, NEW e,
           EndLoop(l, e) \/ AbortAfterFailure(l, e) \/ Catch(l, e)
    PROVE  Leaves(l)
<1>1. CASE EndLoop(l, e)
    <2>1. loop' = [loop EXCEPT ![l] = NoLoop]
        BY <1>1 DEF EndLoop
    <2>2. loop'[l] = NoLoop
        BY <2>1, LoopMoves
    <2>3. lease' \in {lease, 0} /\ (lease' = lease \/ lease = tok)
        BY <1>1 DEF EndLoop, Release
    <2>. QED
        BY <2>2, <2>3, ShapesLeave DEF Leaves
<1>2. CASE AbortAfterFailure(l, e) /\ e.status # "none"
    <2>1. PICK res \in {0, prev + 1} : loop' = [loop EXCEPT ![l] = FailedLoop(res)]
        BY <1>2 DEF AbortAfterFailure, FailedLoop
    <2>2. loop'[l] = FailedLoop(res)
        BY <2>1, LoopMoves
    <2>3. lease' = lease
        BY <1>2 DEF AbortAfterFailure
    <2>. QED
        BY <2>2, <2>3, ShapesLeave DEF Leaves
<1>3. AbortAfterFailure(l, e) => EndLoop(l, e) \/ e.status # "none"
    BY DEF AbortAfterFailure
<1>4. CASE ReadsActive(l, e)
    <2>1. PICK run \in ActiveRun(e) : loop' = [loop EXCEPT ![l] = FailingLoop(run, {runs[run]})]
        BY <1>4 DEF ReadsActive, FailingLoop
    <2>2. loop'[l] = FailingLoop(run, {runs[run]})
        BY <2>1, LoopMoves
    <2>3. lease' = lease
        BY <1>4 DEF ReadsActive
    <2>. QED
        BY <2>2, <2>3, ShapesLeave DEF Leaves
<1>. QED
    BY <1>1, <1>2, <1>3, <1>4, CatchIs

LEMMA NextTaskLeaves ==
    ASSUME Grounded, NEW l \in Loops, NEW e \in Engines, NEW p, NEW k, NEW t, NEW i, NEW plan,
           NextTask(l, e, p, k) \/ StartsTask(l, e, p, k, t, i, plan)
    PROVE  Leaves(l)
<1>1. ASSUME NEW u, NEW j, NEW q, StartsTask(l, e, p, k, u, j, q) PROVE Leaves(l)
    <2>1. PICK res \in {0, p + 1} :
             loop' = [loop EXCEPT ![l] = BeginningLoop(u, j, ids + 1, q, k, res)]
        BY <1>1 DEF StartsTask, BeginningLoop
    <2>2. loop'[l] = BeginningLoop(u, j, ids + 1, q, k, res)
        BY <2>1, LoopMoves
    <2>3. lease' = lease
        BY <1>1 DEF StartsTask
    <2>. QED
        BY <2>2, <2>3, ShapesLeave DEF Leaves
<1>2. ASSUME NEW u, NEW j, ReadsBase(l, e, k, u, j) PROVE Leaves(l)
    <2>1. PICK res \in {0, 1} : loop' = [loop EXCEPT ![l] = BaseLoop(u, j, k, res)]
        BY <1>2 DEF ReadsBase, BaseLoop
    <2>2. loop'[l] = BaseLoop(u, j, k, res)
        BY <2>1, LoopMoves
    <2>3. lease' = lease
        BY <1>2 DEF ReadsBase
    <2>. QED
        BY <2>2, <2>3, ShapesLeave DEF Leaves
<1>. QED
    BY <1>1, <1>2, NextTaskIs, CatchLeaves

LEMMA LoopStepLeaves ==
    ASSUME Following, NEW l \in Loops, LoopStep(l), ~LoopExecuted(l)
    PROVE  Leaves(l)
<1>1. Grounded /\ eng \in Engines
    BY FollowingIs, MemoryOf
<1>2. ASSUME NEW pc \in {"begun", "executing", "committed", "finalized"}, NEW res,
             LoopTo(l, pc, res), lease' = lease
      PROVE  Leaves(l)
    BY <1>2, LoopToFields DEF Leaves
<1>3. CASE LoopBase(l)
    BY <1>1, <1>3, BeginTaskIs, CatchLeaves, NextTaskLeaves DEF LoopBase
<1>4. CASE LoopBegun(l) \/ LoopCommitted(l)
    BY <1>1, <1>2, <1>4, CatchLeaves DEF LoopBegun, LoopCommitted
<1>5. CASE LoopExecute(l)
    BY <1>1, <1>2, <1>5, CatchLeaves DEF LoopExecute
<1>6. CASE RunLoad(l) \/ RunWrite(l)
    <2>1. loop[l] \in LoopTypeOf(ids, fence) /\ loop[l].pc = "executing" /\ lease' = lease
        BY <1>1, <1>6, LoopFields DEF RunLoad, RunWrite, Executing, durable
    <2> DEFINE row == {runs[loop[l].run]}
               x == [loop[l] EXCEPT !.load = row]
               y == [loop[l] EXCEPT !.load = {}]
               z == [loop[l] EXCEPT !.load = {}, !.lossy = TRUE]
    <2>2. \/ loop' = [loop EXCEPT ![l] = x] \/ loop' = [loop EXCEPT ![l] = y]
          \/ loop' = [loop EXCEPT ![l] = z]
        BY <1>6 DEF RunLoad, RunWrite
    <2>3. \A n \in {x, y, z} : n.pc = "executing"
        <3>. HIDE DEF row
        <3>. QED BY <2>1 DEF LoopTypeOf
    <2>. HIDE DEF x, y, z
    <2>4. loop'[l] \in {x, y, z}
        BY <1>1, <2>2, LoopMoves
    <2>. QED
        BY <2>1, <2>3, <2>4 DEF Leaves
<1>7. CASE LoopCommit(l)
    <2>1. ASSUME NEW row, NEW cov, NEW res, Commits(l, row, cov, res) PROVE Leaves(l)
        <3> DEFINE x == [loop[l] EXCEPT !.pc = "committing", !.res = res, !.load = {}, !.pre = eng]
        <3>1. loop' = [loop EXCEPT ![l] = x] /\ lease' = lease
            BY <2>1 DEF Commits
        <3>2. loop'[l] = x
            BY <1>1, <3>1, LoopMoves
        <3>3. x.pc = "committing"
            BY <1>1, LoopFields DEF LoopTypeOf
        <3>. QED
            BY <3>1, <3>2, <3>3 DEF Leaves
    <2>. QED
        BY <1>1, <1>7, <2>1, LoopCommitIs, CatchLeaves
<1>8. CASE LoopAdvance(l)
    BY <1>1, <1>8, CatchLeaves, NextTaskLeaves DEF LoopAdvance
<1>9. CASE LoopFailing(l) \/ LoopFinalized(l) \/ LoopFailed(l)
    BY <1>1, <1>2, <1>9, CatchLeaves DEF LoopFailing, LoopFinalized, LoopFailed
<1>. QED
    BY <1>3, <1>4, <1>5, <1>6, <1>7, <1>8, <1>9 DEF LoopStep

\* The record is written behind its revision, if at all.
RowMoves == exp' = exp \/ exp'.rev = exp.rev + 1

LEMMA RowMovesKeeps ==
    ASSUME PlainStep, RowMoves
    PROVE  DraftEmpty' /\ (rcv' = rcv => RcvKeeps')
<1>1. /\ DraftEmpty /\ RcvKeeps /\ RcvKnown(rcv, exp) /\ exp.rev \in Nat
      /\ exp'.status \in Unbegun <=> exp'.rev = 0
    <2>1. Following'
        BY DEF PlainStep
    <2>2. Numbered'
        BY <2>1 DEF Following, Followed
    <2>. QED
        BY <2>2, PlainStepIs DEF Kept, Trusted, Numbered
<1>2. DraftEmpty'
    BY <1>1 DEF DraftEmpty, RowMoves
<1>3. ASSUME rcv' = rcv, rcv.pc \in AtTasks, rcv.snap.rev = exp'.rev
      PROVE  Keeps(exp'.att, rcv.snap.att)
    <2>1. rcv.snap.rev <= exp.rev
        BY <1>1, <1>3 DEF RcvKnown
    <2>2. exp' = exp
        BY <1>1, <1>3, <2>1 DEF RowMoves
    <2>. QED
        BY <1>1, <1>3, <2>2 DEF RcvKeeps
<1>. QED
    BY <1>1, <1>2, <1>3 DEF RcvKeeps, RcvVisits

LEMMA LoopStepKept ==
    ASSUME PlainStep, NEW l \in Loops, LoopStep(l)
    PROVE  Kept' /\ RowKeeps
<1>1. Following /\ Grounded /\ Trusted /\ Kept /\ exp' \in ExpRow /\ exp.rev \in Nat
    BY PlainStepIs
<1>2. /\ loop' = [loop EXCEPT ![l] = loop'[l]] /\ loop[l].pc # "off"
      /\ \A m \in Loops : m # l => loop[m].pc = "off"
      /\ cmd = NoCmd /\ cmd' = cmd
    BY <1>1, LoopStepMoves
<1>3. UNCHANGED <<abt, pse, rcv>>
    BY DEF LoopStep, LoopBase, LoopBegun, LoopExecute, RunLoad, RunWrite, LoopExecuted, LoopCommit,
       LoopCommitted, LoopAdvance, LoopFailing, LoopFinalized, LoopFailed, elsewhere
<1>4. exp.status \notin Unbegun
    BY <1>1, <1>2, FollowingIs, MemoryOf
<1>5. Turn(l)
    BY <1>2, <1>3, <1>4 DEF Turn
<1>6. StepKeeps
    BY <1>5, LoopBaseKeepsOver, LoopWritesKeepsOver, LoopExecutionKeepsOver, LoopCommitKeepsOver,
       LoopAdvanceKeepsOver, LoopEndsKeepsOver DEF LoopStep
<1>7. LoopFollows(l, loop[l].k)
    BY <1>1, <1>2, LoopBaseFollows, LoopBegunFollows, LoopExecuteFollows, LoopExecutionFollows,
       LoopCommitFollows, LoopCommittedFollows, LoopAdvanceFollows, LoopEndsFollows DEF LoopStep
<1>8. RowMoves /\ lease' \in {lease, 0} /\ tok' \in {tok, 0}
    BY <1>4, <1>7 DEF LoopFollows, Forward, Written, RowMoves
<1>9. Prepared' /\ CommandSure'
    BY <1>2, NothingInFlight DEF Prepared, CommandSure, Prepares
<1>10. RcvHolds'
    <2>1. lease' = lease \/ lease = tok
        BY <1>1, LoopStepLeaves DEF Leaves, LoopExecuted, durable
    <2>. QED
        BY <1>1, <1>2, <1>3, <1>8, <2>1 DEF Kept, RcvHolds
<1>11. \A m \in Loops : m # l => loop'[m].pc = "off"
    BY <1>1, <1>2, LoopMoves
<1>12. OverRow'
    <2>1. CASE ~LoopExecuted(l)
        BY <1>1, <1>11, <2>1, LoopStepLeaves DEF OverRow, Leaves
    <2>2. CASE LoopExecuted(l)
        <3>1. runs' = runs /\ loop[l] \in LoopTypeOf(ids, fence) /\ loop[l].load = {}
            BY <1>1, <2>2, LoopFields DEF LoopExecuted, durable
        <3> DEFINE row == runs[loop[l].run]
                   v == [loop[l] EXCEPT !.pc = "executed", !.load = {row}]
                   w == [loop[l] EXCEPT !.pc = "executed", !.res = 0]
        <3>2. loop' = [loop EXCEPT ![l] = v] \/ loop' = [loop EXCEPT ![l] = w]
            BY <2>2 DEF LoopExecuted, LoopTo
        <3>3. row = runs[loop[l].run]
            OBVIOUS
        <3>. HIDE DEF row
        <3>4. v.run = loop[l].run /\ w.run = loop[l].run /\ v.load = {row} /\ w.load = {}
            BY <3>1 DEF LoopTypeOf
        <3>. HIDE DEF v, w
        <3>5. loop'[l] \in {v, w}
            BY <1>1, <3>2, LoopMoves
        <3>6. \A r \in loop'[l].load : runs'[loop'[l].run] = r
            BY <3>1, <3>3, <3>4, <3>5
        <3>. QED
            BY <1>11, <3>6 DEF OverRow
    <2>. QED
        BY <2>1, <2>2
<1>. QED
    BY <1>3, <1>6, <1>8, <1>9, <1>10, <1>12, RowMovesKeeps DEF Kept, StepKeeps
-----------------------------------------------------------------------------
(* Abort and pause keep what is over.                                      *)

\* All of a loop that is kept while something else of the tab takes its step.
SameLoop(x, y) ==
    /\ y.pc = x.pc /\ y.k = x.k /\ y.res = x.res /\ y.pre = x.pre
    /\ y.load = x.load /\ y.run = x.run

VerdictsStand == \A r \in DOMAIN runs : runs[r].status \in OverStatus => runs'[r] = runs[r]

\* A step beside the loops and the command, of the tab or of a recovery.
Beside ==
    /\ PlainStep /\ \A l \in Loops : SameLoop(loop[l], loop'[l])
    /\ VerdictsStand

LEMMA NoLoopMoves ==
    ASSUME UNCHANGED loop
    PROVE  \A l \in Loops : SameLoop(loop[l], loop'[l])
    BY DEF SameLoop

LEMMA VerdictsSame ==
    ASSUME UNCHANGED runs
    PROVE  VerdictsStand
    BY DEF VerdictsStand

LEMMA BesideIs ==
    ASSUME Beside
    PROVE  /\ OverRow'
           /\ \A l \in Loops : /\ Undone(loop'[l]) <=> Undone(loop[l])
                               /\ loop'[l].pre = loop[l].pre /\ loop'[l].pc = loop[l].pc
                               /\ loop'[l].k = loop[l].k /\ loop'[l].res = loop[l].res
           /\ Disordered' <=> Disordered
           /\ cmd' = cmd => (Pending' <=> Pending)
           /\ cmd' = cmd => \A v : Told(v)' => Told(v) \/ v = prev' \/ v \in pse' \/ v = abt'.res
<1>1. \A l \in Loops : /\ loop'[l].pre = loop[l].pre /\ loop'[l].pc = loop[l].pc
                       /\ loop'[l].k = loop[l].k /\ loop'[l].res = loop[l].res
                       /\ loop'[l].load = loop[l].load /\ loop'[l].run = loop[l].run
    BY DEF Beside, SameLoop
<1>2. \A l \in Loops : Undone(loop'[l]) <=> Undone(loop[l])
    BY <1>1 DEF Undone
<1>3. Disordered' <=> Disordered
    BY <1>1, <1>2 DEF Disordered
<1>4. cmd' = cmd => (Pending' <=> Pending)
    BY <1>1 DEF Pending
<1>5. ASSUME cmd' = cmd, NEW v, Told(v)' PROVE Told(v) \/ v = prev' \/ v \in pse' \/ v = abt'.res
    BY <1>1, <1>5 DEF Told
<1>6. OverRow'
    <2>1. ASSUME NEW l \in Loops, loop[l].pc = "executed", NEW row \in loop[l].load,
                 row.status \in OverStatus
          PROVE  runs'[loop[l].run] = row
        <3>1. runs[loop[l].run] = row
            BY <2>1, PlainStepIs DEF Beside, Kept, OverRow
        <3>2. loop[l].run \in DOMAIN runs
            BY <2>1, PlainStepIs, LoopFields DEF Beside, Begun
        <3>. QED
            BY <2>1, <3>1, <3>2 DEF Beside, VerdictsStand
    <2>. QED
        BY <1>1, <2>1 DEF OverRow
<1>. QED
    BY <1>1, <1>2, <1>3, <1>4, <1>5, <1>6

\* Of a draft, or of nothing, everything is kept by any engine.
LEMMA NothingOver ==
    ASSUME PlainStep, exp.rev = 0
    PROVE  \A a : Keeps(exp.att, a)
<1>1. exp.att = NoExp.att
    BY PlainStepIs DEF Kept, DraftEmpty
<1>2. \A t \in Tasks : NoExp.att[t] = <<>>
    BY NoRowFields
<1>3. \A t \in Tasks : Places(exp.att[t], OverStatus) = {}
    BY <1>1, <1>2 DEF Places
<1>. QED
    BY <1>3 DEF Keeps

\* The record and the engine stay, and no news comes of the record.
LEMMA StillKeeps ==
    ASSUME Beside, UNCHANGED <<exp, eng>>, Told(exp.rev)' => Told(exp.rev) \/ exp.rev = 0
    PROVE  RowMoves /\ RowKeeps /\ EngKeeps' /\ PreKeeps'
<1>1. PlainStep /\ EngKeeps /\ PreKeeps /\ RowKeeps /\ RowMoves
    BY PlainStepIs, RowSame DEF Beside, Kept, RowMoves
<1>2. exp.rev = 0 => \A a : Keeps(exp.att, a)
    BY <1>1, NothingOver
<1>3. EngKeeps'
    BY <1>1, <1>2 DEF EngKeeps, Covers
<1>4. ASSUME NEW l \in Loops, Undone(loop'[l]) PROVE PreKept(loop[l].pre)'
    <2>1. Undone(loop[l]) /\ loop'[l].pre = loop[l].pre
        BY <1>4, BesideIs
    <2>2. PreKept(loop[l].pre)
        BY <1>1, <2>1 DEF PreKeeps
    <2>. QED
        BY <1>2, <2>1, <2>2 DEF PreKept
<1>5. PreKeeps'
    BY <1>4 DEF PreKeeps, PreKept
<1>. QED
    BY <1>1, <1>3, <1>5

\* A step of the tab, while no command is being prepared.
TabMoves ==
    /\ Beside /\ ~Prepares(cmd) /\ UNCHANGED <<cmd, rcv>>
    /\ lease' = lease \/ lease = tok
    /\ tok' \in {tok, 0}

LEMMA TabKept ==
    ASSUME TabMoves, RowMoves, RowKeeps, EngKeeps', PreKeeps', InStep', Stopping', CommandSure'
    PROVE  Kept' /\ RowKeeps
<1>1. Prepared'
    BY DEF TabMoves, Prepared, Prepares
<1>2. RcvHolds /\ PlainStep
    BY PlainStepIs DEF TabMoves, Beside, Kept
<1>3. RcvHolds'
    BY <1>2 DEF TabMoves, RcvHolds
<1>4. OverRow' /\ DraftEmpty' /\ RcvKeeps'
    BY <1>2, BesideIs, RowMovesKeeps DEF TabMoves
<1>. QED
    BY <1>1, <1>3, <1>4 DEF Kept

\* Where the engine is at rest, or is about to be ended, it only counts that
\* it stays so.
LEMMA TabRests ==
    ASSUME TabMoves, RowMoves, RowKeeps, EngKeeps', PreKeeps', CommandSure',
           eng'.status \notin Active \/ (eng' = eng /\ Disordered)
    PROVE  Kept' /\ RowKeeps
<1>1. Kept /\ Beside
    BY PlainStepIs DEF TabMoves, Beside
<1>2. InStep'
    BY <1>1, BesideIs DEF InStep
<1>3. Stopping'
    BY <1>1, BesideIs DEF Kept, Stopping
<1>. QED
    BY <1>2, <1>3, TabKept

LEMMA AbortEngineKept ==
    ASSUME TabMoves, AbortEngine, UNCHANGED <<prev, pse>>
    PROVE  Kept' /\ RowKeeps
<1>1. /\ Beside /\ PlainStep /\ eng \in Engines /\ eng.status # "draft" /\ Resting(eng)
      /\ exp.rev \in Nat /\ prev \in Nat /\ PreKeeps /\ CommandSure
    BY PlainStepIs DEF TabMoves, Beside, Kept
<1>2. eng' = Aborted(eng) /\ MayReplace(eng)
    BY <1>1, EngMayReplace DEF AbortEngine
<1>3. eng'.status \notin Active /\ (eng.status # "none" => eng'.status # "none") /\ eng' \in Engines
    BY <1>1, <1>2, AbortedRests, AbortedIs DEF Active, Terminal
<1>4. \/ UNCHANGED exp
      \/ exp.rev = prev /\ exp.status # "none" /\ exp'.rev = exp.rev + 1 /\ exp'.att = eng'.att
         /\ eng.status # "none"
    <2>1. CASE eng.status = "none"
        BY <2>1 DEF AbortEngine
    <2>2. CASE eng.status # "none"
        <3>1. PICK res \in {0, prev + 1} : Sync(Aborted(eng), prev, res)
            BY <2>2 DEF AbortEngine
        <3>. QED
            BY <1>1, <1>2, <1>3, <2>2, <3>1, SyncSure
    <2>. QED
        BY <2>1, <2>2
<1>5. UNCHANGED exp /\ Told(exp.rev)' => Told(exp.rev) \/ exp.rev = 0
    <2>1. eng.status = "none" => abt'.res = 0
        BY NothingInFlight DEF AbortEngine
    <2>2. eng.status # "none" => abt'.res \in {0, prev + 1} /\ (abt'.res = 0 \/ exp' # exp)
        <3>1. ASSUME eng.status # "none"
              PROVE  \E res \in {0, prev + 1} : Sync(Aborted(eng), prev, res) /\ abt'.res = res
            <4>1. PICK res \in {0, prev + 1} :
                     Sync(Aborted(eng), prev, res) /\ abt' = [NoAbt EXCEPT !.pc = "syncing", !.res = res]
                BY <3>1 DEF AbortEngine
            <4>2. abt'.res = res
                BY <4>1 DEF NoAbt
            <4>. QED
                BY <4>1, <4>2
        <3>. QED
            BY <1>1, <1>2, <1>3, <3>1, SyncSure
    <2>3. UNCHANGED exp => abt'.res = 0
        BY <2>1, <2>2
    <2>4. \A v : Told(v)' => Told(v) \/ v = prev' \/ v \in pse' \/ v = abt'.res
        BY <1>1, BesideIs DEF TabMoves
    <2>. QED
        BY <2>3, <2>4 DEF Told
<1>6. RowMoves
    BY <1>4 DEF RowMoves
<1>7. eng.status # "none" /\ Told(exp.rev) => Keeps(exp.att, eng'.att) /\ Covers(eng', exp.att)
    BY <1>1, <1>2, AbortedCovers DEF MayReplace
<1>8. exp.rev = prev => Told(exp.rev)
    BY DEF Told
<1>9. RowKeeps
    <2>1. CASE UNCHANGED exp
        BY <2>1, RowSame
    <2>2. CASE exp.rev = prev /\ exp'.att = eng'.att /\ eng.status # "none"
        BY <1>7, <1>8, <2>2 DEF RowKeeps
    <2>. QED
        BY <1>4, <2>1, <2>2
<1>10. EngKeeps'
    <2>1. CASE UNCHANGED exp
        <3>1. eng.status = "none" => eng' = eng
            BY <1>2 DEF Aborted
        <3>2. exp.rev = 0 => Covers(eng', exp.att)
            BY <1>1, NothingOver DEF Covers
        <3>. QED
            BY <1>5, <1>7, <2>1, <3>1, <3>2 DEF EngKeeps
    <2>2. CASE exp'.att = eng'.att
        BY <1>3, <2>2, CoversOwn DEF EngKeeps
    <2>. QED
        BY <1>4, <2>1, <2>2
<1>11. eng.att \in [Tasks -> Seq(Attempt)] /\ eng'.att \in {eng.att, Ended(eng.att)}
    BY <1>1, <1>2, EngineFields, AbortedAtt DEF Attempts
<1>12. Ended(eng'.att) = Ended(eng.att) /\ Keeps(eng'.att, Ended(eng.att))
    BY <1>11, EndedKeeps, KeepsSame
<1>13. PreKeeps'
    <2>1. ASSUME NEW l \in Loops, Undone(loop'[l]) PROVE PreKept(loop[l].pre)'
        <3>1. Undone(loop[l]) /\ loop'[l].pre = loop[l].pre
            BY <1>1, <2>1, BesideIs
        <3>2. /\ loop[l].pre.task # 0 /\ Keeps(Ended(eng.att), Ended(loop[l].pre.att))
              /\ Told(exp.rev) => Keeps(exp.att, Ended(loop[l].pre.att))
            BY <1>1, <3>1 DEF PreKeeps, PreKept
        <3>3. Told(exp.rev)' => Keeps(exp'.att, Ended(loop[l].pre.att))
            <4>1. CASE UNCHANGED exp
                <5>1. exp.rev = 0 => Keeps(exp.att, Ended(loop[l].pre.att))
                    BY <1>1, NothingOver
                <5>. QED
                    BY <1>5, <3>2, <4>1, <5>1
            <4>2. CASE exp'.att = eng'.att
                BY <1>12, <3>2, <4>2, KeepsAll
            <4>. QED
                BY <1>4, <4>1, <4>2
        <3>. QED
            BY <1>12, <3>1, <3>2, <3>3 DEF PreKept
    <2>. QED
        BY <2>1 DEF PreKeeps, PreKept
<1>14. CommandSure'
    BY <1>1, <1>3 DEF CommandSure, TabMoves
<1>15. InStep' /\ Stopping'
    BY <1>3 DEF InStep, Stopping
<1>. QED
    BY <1>6, <1>9, <1>10, <1>13, <1>14, <1>15, TabKept

\* Nobody aborts or pauses while a command is being prepared.
LEMMA NothingPrepares ==
    ASSUME PlainStep,
           \/ abt.pc # "off" \/ pse # {}
           \/ exp.status \in Active /\ cmd.kind # "start"
           \/ cmd.kind \in {"none", "resume"}
    PROVE  ~Prepares(cmd)
<1>1. Prepared /\ ReadOver
    BY PlainStepIs, FollowingIs DEF Kept
<1>2. ASSUME Prepares(cmd), exp.status \in Active, cmd.kind # "start" PROVE FALSE
    <2>1. cmd.kind \in {"retry", "plan"} /\ cmd.pc # "creating"
        BY <1>1, <1>2 DEF Prepared, Active
    <2>2. Planned(cmd)
        BY <1>2, <2>1 DEF Planned, Prepares
    <2>. QED
        BY <1>1, <1>2, <2>2 DEF ReadOver, Active, Terminal
<1>. QED
    BY <1>1, <1>2 DEF Prepared

LEMMA AbortStartsKept ==
    ASSUME PlainStep, AbortStarts, ~Prepares(cmd)
    PROVE  Kept' /\ RowKeeps
<1>1. /\ UNCHANGED <<prev, pse, cmd, rcv, runs>>
      /\ loop' = [l \in Loops |-> IF l = ctrl THEN [loop[l] EXCEPT !.sig = TRUE] ELSE loop[l]]
    BY DEF AbortStarts
<1>2. \A l \in Loops : loop'[l] \in {loop[l], [loop[l] EXCEPT !.sig = TRUE]}
    BY <1>1
<1>3. ASSUME NEW l \in Loops PROVE SameLoop(loop[l], loop'[l])
    <2>1. loop[l] \in LoopTypeOf(ids, fence)
        BY PlainStepIs, LoopFields
    <2>2. SameLoop(loop[l], [loop[l] EXCEPT !.sig = TRUE])
        BY <2>1 DEF SameLoop, LoopTypeOf
    <2>. QED
        BY <1>2, <2>2 DEF SameLoop
<1>4. Beside
    BY <1>1, <1>3, VerdictsSame DEF Beside
<1>5. CASE AbortEngine
    <2>1. TabMoves
        BY <1>1, <1>4, <1>5 DEF AbortEngine, TabMoves
    <2>. QED
        BY <1>1, <1>5, <2>1, AbortEngineKept
<1>6. CASE eng.status = "none" /\ Release /\ UNCHANGED <<exp, eng, abt>>
    <2>1. TabMoves
        BY <1>1, <1>4, <1>6 DEF Release, TabMoves
    <2>2. Told(exp.rev)' => Told(exp.rev)
        BY <1>1, <1>4, <1>6, BesideIs DEF Told
    <2>3. RowMoves /\ RowKeeps /\ EngKeeps' /\ PreKeeps'
        BY <1>4, <1>6, <2>2, StillKeeps
    <2>4. CommandSure'
        BY <1>1, <1>6, PlainStepIs DEF Kept, CommandSure
    <2>. QED
        BY <1>6, <2>1, <2>3, <2>4, TabRests DEF Active
<1>7. ASSUME NEW run, NEW load, abt' = [NoAbt EXCEPT !.pc = "reading", !.run = run, !.load = load],
             UNCHANGED <<exp, eng, lease, tok>>
      PROVE  Kept' /\ RowKeeps
    <2>1. TabMoves
        BY <1>1, <1>4, <1>7 DEF TabMoves
    <2>2. abt'.res = 0 /\ abt'.pc = "reading"
        BY <1>7 DEF NoAbt
    <2>3. Told(exp.rev)' => Told(exp.rev) \/ exp.rev = 0
        BY <1>1, <1>4, <1>7, <2>2, BesideIs DEF Told
    <2>4. RowMoves /\ RowKeeps /\ EngKeeps' /\ PreKeeps'
        BY <1>4, <1>7, <2>3, StillKeeps
    <2>5. CommandSure' /\ InStep /\ Stopping
        BY <1>1, <1>7, PlainStepIs DEF Kept, CommandSure
    <2>6. \A l \in Loops : /\ loop'[l].pc = loop[l].pc /\ loop'[l].k = loop[l].k
                           /\ loop'[l].res = loop[l].res
        BY <1>4, BesideIs
    <2>7. InStep'
        <3>1. Together => Together'
            BY <1>1, <1>4, <1>7, <2>6, BesideIs DEF Together, Latest
        <3>. QED
            BY <1>4, <1>7, <2>5, <3>1, BesideIs DEF InStep
    <2>8. Stopping'
        BY <1>7, <2>2, <2>5, <2>6 DEF Stopping
    <2>. QED
        BY <2>1, <2>4, <2>5, <2>7, <2>8, TabKept
<1>. QED
    BY <1>5, <1>6, <1>7 DEF AbortStarts

\* A verdict is never overwritten by an abort, which writes behind a run that
\* it has read as running.
LEMMA AbortRunStands ==
    ASSUME Grounded, NEW r \in DOMAIN runs, NEW row \in Run, Copy(row, r, runs),
           row.status = "running", AbortRun(r, row)
    PROVE  VerdictsStand
<1>1. CASE runs' = [runs EXCEPT ![r] = Rewritten(@, "aborted")] /\ runs[r].rev = row.rev
    <2>1. runs[r] = row /\ "running" \notin OverStatus
        BY <1>1, OverOrNot DEF Copy
    <2>2. \A q \in DOMAIN runs : q # r => runs'[q] = runs[q]
        BY <1>1
    <2>. QED
        BY <2>1, <2>2 DEF VerdictsStand
<1>. QED
    BY <1>1, VerdictsSame DEF AbortRun

LEMMA AbortReadKept ==
    ASSUME PlainStep, AbortRead \/ AbortFinalized
    PROVE  Kept' /\ RowKeeps
<1>1. /\ UNCHANGED <<prev, pse, cmd, rcv, loop>> /\ abt.pc \in {"reading", "finalized"}
    BY DEF AbortRead, AbortFinalized
<1>2. ~Prepares(cmd) /\ Grounded /\ Kept
    BY <1>1, NothingPrepares, PlainStepIs
<1>3. CASE AbortEngine /\ UNCHANGED runs
    <2>1. Beside
        BY <1>1, <1>3, NoLoopMoves, VerdictsSame DEF Beside
    <2>2. TabMoves
        BY <1>1, <1>2, <1>3, <2>1 DEF AbortEngine, TabMoves
    <2>. QED
        BY <1>1, <1>3, <2>2, AbortEngineKept
<1>4. ASSUME NEW row \in abt.load, row.status = "running", AbortRun(abt.run, row),
             abt' = [NoAbt EXCEPT !.pc = "finalized"], UNCHANGED <<exp, eng, lease, tok>>
      PROVE  Kept' /\ RowKeeps
    <2>1. VerdictsStand
        <3>1. Copy(row, abt.run, runs) /\ row \in Run
            BY <1>2, <1>4, AbtFields
        <3>2. abt.run \in DOMAIN runs
            BY <3>1 DEF Copy
        <3>. QED
            BY <1>2, <1>4, <3>1, <3>2, AbortRunStands
    <2>2. Beside
        BY <1>1, <2>1, NoLoopMoves DEF Beside
    <2>3. TabMoves
        BY <1>1, <1>2, <1>4, <2>2 DEF TabMoves
    <2>4. abt'.res = 0 /\ abt'.pc = "finalized"
        BY <1>4 DEF NoAbt
    <2>5. Told(exp.rev)' => Told(exp.rev) \/ exp.rev = 0
        BY <1>1, <1>4, <2>2, <2>4, BesideIs DEF Told
    <2>6. RowMoves /\ RowKeeps /\ EngKeeps' /\ PreKeeps'
        BY <1>4, <2>2, <2>5, StillKeeps
    <2>7. CommandSure'
        BY <1>1, <1>2, <1>4 DEF Kept, CommandSure
    <2>8. InStep'
        <3>1. Together => Together'
            BY <1>1, <1>4, <2>2, BesideIs DEF Together, Latest
        <3>. QED
            BY <1>2, <1>4, <2>2, <3>1, BesideIs DEF Kept, InStep
    <2>9. Stopping'
        BY <1>1, <1>2, <1>4, <2>4 DEF Kept, Stopping
    <2>. QED
        BY <2>3, <2>6, <2>7, <2>8, <2>9, TabKept
<1>. QED
    BY <1>3, <1>4 DEF AbortRead, AbortFinalized

LEMMA AbortEndsKept ==
    ASSUME PlainStep, AbortEnds
    PROVE  Kept' /\ RowKeeps
<1>1. /\ UNCHANGED <<exp, eng, runs, pse, cmd, rcv, loop>> /\ abt.pc = "syncing" /\ abt' = NoAbt
      /\ prev' \in {prev, abt.res} /\ Release
    BY DEF AbortEnds
<1>2. ~Prepares(cmd) /\ Kept
    BY <1>1, NothingPrepares, PlainStepIs
<1>3. Beside
    BY <1>1, NoLoopMoves, VerdictsSame DEF Beside
<1>4. TabMoves
    BY <1>1, <1>2, <1>3 DEF TabMoves, Release
<1>5. abt'.res = 0
    BY <1>1 DEF NoAbt
<1>6. Told(exp.rev)' => Told(exp.rev) \/ exp.rev = 0
    BY <1>1, <1>3, <1>5, BesideIs DEF Told
<1>7. RowMoves /\ RowKeeps /\ EngKeeps' /\ PreKeeps'
    BY <1>1, <1>3, <1>6, StillKeeps
<1>8. CommandSure' /\ (eng.status \notin Active \/ Disordered)
    BY <1>1, <1>2 DEF Kept, CommandSure, Stopping
<1>. QED
    BY <1>1, <1>4, <1>7, <1>8, TabRests

LEMMA UserPausesKept ==
    ASSUME PlainStep, UserPauses
    PROVE  Kept' /\ RowKeeps
<1> DEFINE e == PauseRequested(eng)
<1>1. /\ UNCHANGED <<loop, cmd, rcv, prev, abt, lease, tok, runs>> /\ exp.status = "running"
      /\ eng.status # "none" /\ eng' = e /\ pse = {} /\ cmd.kind # "start"
      /\ \/ UNCHANGED <<exp, pse>>
         \/ \E res \in {0, prev + 1} : /\ Sync(e, prev, res) /\ pse' = {res}
                                       /\ eng.task = 0 /\ e.status = "paused"
    BY DEF UserPauses, Shown
<1>2. /\ e \in Engine /\ e.task = eng.task /\ e.att = eng.att
      /\ e.status = eng.status \/ (e.status = "paused" /\ eng.status = "running")
    BY <1>1, PlainStepIs, PauseRequestedIs
<1>. HIDE DEF e
<1>3. /\ Kept /\ eng \in Engines /\ eng' \in Engines /\ exp.rev \in Nat /\ prev \in Nat
      /\ ~Prepares(cmd) /\ exp.rev # 0
    BY <1>1, PlainStepIs, NothingPrepares DEF Active, Unbegun
<1>4. Beside
    BY <1>1, NoLoopMoves, VerdictsSame DEF Beside
<1>5. TabMoves
    BY <1>1, <1>3, <1>4 DEF TabMoves
<1>6. CommandSure'
    BY <1>1, <1>2, <1>3 DEF Kept, CommandSure, Active
<1>7. Stopping'
    BY <1>1, <1>2, <1>3, <1>4, BesideIs DEF Kept, Stopping, Active
<1>8. eng'.status \in Active => eng.status \in Active
    BY <1>1, <1>2 DEF Active
<1>9. Ended(eng'.att) = Ended(eng.att)
    BY <1>1, <1>2
<1>10. ASSUME UNCHANGED exp, Told(exp.rev)' => Told(exp.rev)
       PROVE  RowMoves /\ RowKeeps /\ EngKeeps' /\ PreKeeps'
    <2>1. RowMoves /\ RowKeeps
        BY <1>10, RowSame DEF RowMoves
    <2>2. EngKeeps'
        BY <1>1, <1>2, <1>3, <1>10 DEF Kept, EngKeeps, Covers
    <2>3. ASSUME NEW l \in Loops, Undone(loop[l]) PROVE PreKept(loop[l].pre)'
        <3>1. PreKept(loop[l].pre)
            BY <1>3, <2>3 DEF Kept, PreKeeps
        <3>. QED
            BY <1>1, <1>9, <1>10, <3>1 DEF PreKept
    <2>4. PreKeeps'
        BY <1>1, <2>3 DEF PreKeeps, PreKept
    <2>. QED
        BY <2>1, <2>2, <2>4
<1>11. CASE UNCHANGED <<exp, pse>>
    <2>1. Told(exp.rev)' => Told(exp.rev)
        BY <1>1, <1>4, <1>11, BesideIs DEF Told
    <2>2. RowMoves /\ RowKeeps /\ EngKeeps' /\ PreKeeps'
        BY <1>10, <1>11, <2>1
    <2>3. Together => Together'
        <3>1. Latest => Latest'
            BY <1>1, <1>4, <1>11, BesideIs DEF Latest
        <3>. QED
            BY <1>1, <1>2, <1>4, <1>11, <3>1, BesideIs DEF Together
    <2>4. InStep'
        BY <1>3, <1>4, <1>8, <2>3, BesideIs DEF Kept, InStep
    <2>. QED
        BY <1>5, <1>6, <1>7, <2>2, <2>4, TabKept
<1>12. ASSUME NEW res \in {0, prev + 1}, Sync(e, prev, res), pse' = {res}, eng.task = 0,
              e.status = "paused"
       PROVE  Kept' /\ RowKeeps
    <2>1. PlainStep /\ e \in Engines /\ e.status # "none" /\ exp.status # "none"
        BY <1>1, <1>2, <1>12 DEF Engines
    <2>2. \/ exp.rev # prev /\ res = 0 /\ exp' = exp
          \/ /\ exp.rev = prev /\ res = exp.rev + 1 /\ exp'.rev = exp.rev + 1
             /\ exp'.att = e.att /\ exp'.status = "paused"
        BY <1>3, <1>12, <2>1, SyncSure
    <2>3. CASE exp.rev # prev /\ res = 0 /\ exp' = exp
        <3>1. Told(exp.rev)' => Told(exp.rev)
            BY <1>1, <1>3, <1>4, <1>12, <2>3, BesideIs DEF Told
        <3>2. RowMoves /\ RowKeeps /\ EngKeeps' /\ PreKeeps'
            BY <1>10, <2>3, <3>1
        <3>3. Latest => Latest'
            <4>1. ASSUME Latest PROVE Pending
                BY <1>1, <2>3, <4>1 DEF Latest
            <4>2. pse' = {0}
                BY <1>12, <2>3
            <4>. QED
                BY <1>1, <1>4, <2>3, <4>1, <4>2, BesideIs DEF Latest
        <3>4. Together => Together'
            BY <1>1, <1>2, <1>4, <2>3, <3>3, BesideIs DEF Together
        <3>5. InStep'
            BY <1>3, <1>4, <1>8, <3>4, BesideIs DEF Kept, InStep
        <3>. QED
            BY <1>5, <1>6, <1>7, <3>2, <3>5, TabKept
    <2>4. CASE /\ exp.rev = prev /\ res = exp.rev + 1 /\ exp'.rev = exp.rev + 1
               /\ exp'.att = e.att /\ exp'.status = "paused"
        <3>1. Told(exp.rev)
            BY <2>4 DEF Told
        <3>2. Covers(eng, exp.att)
            BY <1>1, <1>3, <3>1 DEF Kept, EngKeeps
        <3>3. RowMoves /\ RowKeeps
            BY <1>2, <1>12, <2>4, <3>2 DEF RowMoves, RowKeeps, Covers
        <3>4. EngKeeps'
            BY <1>1, <1>3, <2>4, CoversOwn DEF EngKeeps
        <3>5. ASSUME NEW l \in Loops, Undone(loop[l]) PROVE PreKept(loop[l].pre)'
            <4>1. PreKept(loop[l].pre)
                BY <1>3, <3>5 DEF Kept, PreKeeps
            <4>2. Keeps(eng.att, Ended(eng.att))
                BY <1>3, EngineFields, EndedKeeps DEF Attempts
            <4>3. Keeps(exp'.att, Ended(loop[l].pre.att))
                BY <1>2, <2>4, <4>1, <4>2, KeepsAll DEF PreKept
            <4>. QED
                BY <1>1, <1>9, <4>1, <4>3 DEF PreKept
        <3>6. PreKeeps'
            BY <1>1, <3>5 DEF PreKeeps, PreKept
        <3>7. ASSUME Latest PROVE Latest' /\ ~Pending
            <4>1. ~Pending
                BY <1>3, <2>4, <3>7 DEF Latest
            <4>2. ~Pending' /\ cmd'.pc \notin {"syncing", "resuming"}
                  /\ \A l \in Loops : loop'[l].pc \notin Awaiting
                BY <1>1, <1>4, <4>1, BesideIs DEF Pending
            <4>3. pse' = {exp'.rev} /\ eng'.status = "paused"
                BY <1>1, <1>12, <2>4
            <4>. QED
                BY <4>1, <4>2, <4>3 DEF Latest
        <3>8. Together => Together'
            <4>1. exp'.status \in Active /\ exp'.att = eng'.att
                BY <1>1, <2>4 DEF Active
            <4>. QED
                BY <1>1, <1>4, <3>7, <4>1, BesideIs DEF Together
        <3>9. InStep'
            BY <1>3, <1>4, <1>8, <3>8, BesideIs DEF Kept, InStep
        <3>. QED
            BY <1>5, <1>6, <1>7, <3>3, <3>4, <3>6, <3>9, TabKept
    <2>. QED
        BY <2>2, <2>3, <2>4
<1>. QED
    BY <1>1, <1>11, <1>12

LEMMA PauseEndsKept ==
    ASSUME PlainStep, PauseEnds
    PROVE  Kept' /\ RowKeeps
<1>1. PICK res \in pse : prev' = IF res = 0 THEN prev ELSE res
    BY DEF PauseEnds
<1>2. /\ UNCHANGED <<exp, eng, runs, cmd, rcv, loop, abt, lease, tok>> /\ pse' = {} /\ pse # {}
    BY <1>1 DEF PauseEnds, durable
<1>3. ~Prepares(cmd) /\ Kept
    BY <1>2, NothingPrepares, PlainStepIs
<1>4. Beside
    BY <1>2, NoLoopMoves, VerdictsSame DEF Beside
<1>5. TabMoves
    BY <1>2, <1>3, <1>4 DEF TabMoves
<1>6. Told(exp.rev)' => Told(exp.rev)
    BY <1>1, <1>2, <1>4, BesideIs DEF Told
<1>7. RowMoves /\ RowKeeps /\ EngKeeps' /\ PreKeeps'
    BY <1>2, <1>4, <1>6, StillKeeps
<1>8. CommandSure'
    BY <1>2, <1>3 DEF Kept, CommandSure
<1>9. Stopping'
    BY <1>2, <1>3, <1>4, BesideIs DEF Kept, Stopping
<1>10. ASSUME Latest, exp.status \in Active PROVE Latest'
    <2>1. exp.rev # 0
        BY <1>10, PlainStepIs DEF Active, Unbegun
    <2>2. CASE Pending
        <3>1. res = 0
            BY <1>10, <2>2 DEF Latest
        <3>. QED
            BY <1>1, <1>2, <1>4, <1>10, <2>2, <3>1, BesideIs DEF Latest
    <2>3. CASE ~Pending
        <3>1. res = 0 \/ res = exp.rev
            BY <1>10, <2>3 DEF Latest
        <3>2. prev' = exp.rev
            BY <1>1, <1>10, <2>1, <2>3, <3>1 DEF Latest
        <3>. QED
            BY <1>2, <1>4, <1>10, <2>3, <3>2, BesideIs DEF Latest
    <2>. QED
        BY <2>2, <2>3
<1>11. Together => Together'
    BY <1>2, <1>4, <1>10, BesideIs DEF Together
<1>12. InStep'
    BY <1>2, <1>3, <1>4, <1>11, BesideIs DEF Kept, InStep
<1>. QED
    BY <1>5, <1>7, <1>8, <1>9, <1>12, TabKept
-----------------------------------------------------------------------------
(* A command keeps what is over: no loop is alive beside it.               *)

CommandMoves == PlainStep /\ NoLoopAlive /\ UNCHANGED <<loop, abt, pse, rcv>>

LEMMA CommandMovesIs ==
    ASSUME CommandMoves
    PROVE  /\ ~Disordered /\ PreKeeps' /\ OverRow'
           /\ Pending' <=> cmd'.pc \in {"syncing", "resuming"}
           /\ \A v : Told(v)' => \/ v = prev' \/ v \in pse \/ v = abt.res
                                 \/ cmd'.pc \in {"syncing", "resuming"} /\ v = cmd'.res
           /\ (abt.pc = "syncing" => eng'.status \notin Active) => Stopping'
           /\ abt.pc = "syncing" => eng.status \notin Active
           /\ eng.status \in Active => Together
<1>1. /\ \A l \in Loops : loop[l].pc = "off" /\ loop'[l].pc = "off"
      /\ UNCHANGED <<abt, pse>> /\ Kept
    BY PlainStepIs DEF CommandMoves, NoLoopAlive
<1>2. ~Disordered
    BY <1>1 DEF Disordered, Undone
<1>3. PreKeeps' /\ OverRow'
    BY <1>1 DEF PreKeeps, Undone, OverRow
<1>4. Pending' <=> cmd'.pc \in {"syncing", "resuming"}
    BY <1>1 DEF Pending, Awaiting
<1>5. ASSUME NEW v, Told(v)'
      PROVE  \/ v = prev' \/ v \in pse \/ v = abt.res
             \/ cmd'.pc \in {"syncing", "resuming"} /\ v = cmd'.res
    BY <1>1, <1>5 DEF Told, Awaiting
<1>6. (abt.pc = "syncing" => eng'.status \notin Active) => Stopping'
    BY <1>1 DEF Stopping
<1>7. abt.pc = "syncing" => eng.status \notin Active
    BY <1>1, <1>2 DEF Kept, Stopping
<1>8. eng.status \in Active => Together
    BY <1>1, <1>2 DEF Kept, InStep
<1>. QED
    BY <1>2, <1>3, <1>4, <1>5, <1>6, <1>7, <1>8

\* The engine is at rest, and the record is a draft if it changes.
LEMMA CommandRests ==
    ASSUME CommandMoves, prev' = prev, eng' = eng \/ eng'.status = "none", eng'.status \notin Active,
           cmd'.pc \notin {"syncing", "resuming"},
           \/ exp' = exp
           \/ exp.rev = 0 /\ exp'.rev = 0 /\ exp'.att = NoExp.att /\ rcv.pc = "off",
           Prepared', CommandSure', RcvHolds'
    PROVE  Kept' /\ RowKeeps
<1>1. PlainStep /\ EngKeeps /\ UNCHANGED <<rcv, abt, pse>>
    BY PlainStepIs DEF CommandMoves, Kept
<1>2. InStep' /\ Stopping'
    BY CommandMovesIs DEF InStep
<1>3. CASE exp' = exp
    <2>1. RowMoves /\ RowKeeps
        BY <1>3, RowSame DEF RowMoves
    <2>2. DraftEmpty' /\ RcvKeeps'
        BY <1>1, <2>1, RowMovesKeeps
    <2>3. Told(exp.rev)' => Told(exp.rev)
        BY CommandMovesIs DEF Told
    <2>4. EngKeeps'
        BY <1>1, <1>3, <2>3 DEF EngKeeps
    <2>. QED
        BY <1>2, <2>1, <2>2, <2>4, CommandMovesIs DEF Kept
<1>4. CASE exp.rev = 0 /\ exp'.rev = 0 /\ exp'.att = NoExp.att /\ rcv.pc = "off"
    <2>1. RowKeeps
        BY <1>1, <1>4, NothingOver DEF RowKeeps
    <2>2. DraftEmpty' /\ RcvKeeps'
        BY <1>1, <1>4 DEF DraftEmpty, RcvKeeps, RcvVisits, AtTasks
    <2>3. EngKeeps'
        <3>1. \A e : Covers(e, exp'.att)
            BY <1>4, CoversNothing
        <3>. QED
            BY <3>1 DEF EngKeeps
    <2>. QED
        BY <1>2, <2>1, <2>2, <2>3, CommandMovesIs DEF Kept
<1>. QED
    BY <1>3, <1>4

\* The first write of a command comes through.
LEMMA CommandWrites ==
    ASSUME CommandMoves, eng'.status = "running", eng' \in Engine, NEW rev \in Nat, prev' = rev,
           exp.rev = rev, exp.status # "none", Keeps(exp.att, eng'.att), NEW res,
           Sync(eng', rev, res), cmd'.pc \in {"syncing", "resuming"}, cmd'.res = res,
           cmd'.k = tok', lease' = tok', tok' # 0, rcv.pc = "off", pse = {}, abt.pc # "syncing"
    PROVE  Kept' /\ RowKeeps
<1>1. PlainStep /\ UNCHANGED <<rcv, abt, pse, loop>> /\ eng' \in Engines
      /\ \A l \in Loops : loop'[l].pc = "off"
    BY DEF CommandMoves, Engines, NoLoopAlive
<1>2. /\ res = rev + 1 /\ exp'.rev = rev + 1 /\ exp'.att = eng'.att /\ exp'.status = "running"
    BY <1>1, SyncSure
<1>3. RowMoves /\ RowKeeps
    BY <1>2 DEF RowMoves, RowKeeps
<1>4. DraftEmpty' /\ RcvKeeps'
    BY <1>1, <1>3, RowMovesKeeps
<1>5. EngKeeps'
    BY <1>1, <1>2, CoversOwn DEF EngKeeps
<1>6. Prepared' /\ CommandSure' /\ RcvHolds'
    BY <1>1, <1>2 DEF Prepared, Prepares, CommandSure, RcvHolds
<1>7. Stopping'
    BY CommandMovesIs
<1>8. Latest'
    <2>1. prev' < exp'.rev /\ pse' \subseteq {0} /\ cmd'.res = exp'.rev
        BY <1>1, <1>2
    <2>. QED
        BY <1>1, <2>1, CommandMovesIs DEF Latest, Awaiting
<1>9. Together'
    BY <1>1, <1>2, <1>8 DEF Together, Active, Holding, AtWork
<1>10. InStep'
    BY <1>9 DEF InStep
<1>. QED
    BY <1>3, <1>4, <1>5, <1>6, <1>7, <1>10, CommandMovesIs DEF Kept

LEMMA CmdReadKept ==
    ASSUME PlainStep, ~rushed', NEW kind \in {"start", "retry", "plan"}, CmdRead(kind)
    PROVE  Kept' /\ RowKeeps
<1>1. /\ UNCHANGED <<exp, eng, loop, abt, pse, rcv, prev, lease, tok>> /\ Quiet
      /\ cmd' = [NoCmd EXCEPT !.kind = kind, !.pc = "read", !.snap = exp]
      /\ IF kind = "start" THEN exp.status = "none" ELSE exp.status \in Terminal
    BY ReadQuietly DEF CmdRead, durable
<1>2. cmd'.kind = kind /\ cmd'.snap = exp /\ cmd'.pc = "read" /\ cmd'.k = NoCmd.k
    BY <1>1 DEF NoCmd
<1>3. CommandMoves
    BY <1>1, QuietIs DEF CommandMoves
<1>4. eng.status \notin Active
    BY <1>1, <1>3, CommandMovesIs DEF Together, Active, Terminal
<1>5. Prepared'
    BY <1>1, <1>2, <1>4, QuietIs DEF Prepared, Quiet
<1>6. CommandSure' /\ RcvHolds'
    BY <1>1, <1>2, PlainStepIs, NothingInFlight DEF Kept, CommandSure, RcvHolds
<1>. QED
    BY <1>1, <1>2, <1>3, <1>4, <1>5, <1>6, CommandRests

LEMMA CmdAcquireKept ==
    ASSUME PlainStep, CmdAcquire
    PROVE  Kept' /\ RowKeeps
<1>1. /\ UNCHANGED <<exp, eng, loop, abt, pse, rcv, prev, tok>> /\ cmd.pc = "read"
      /\ Prepares(cmd) /\ Kept /\ cmd \in CmdTypeOf(fence)
    BY PlainStepIs, CmdFields DEF CmdAcquire, Prepares
<1>2. CommandMoves /\ eng.status \notin Active
    BY <1>1, PlainStepIs, CmdIs DEF CommandMoves, Kept, Prepared
<1>3. CASE cmd' = NoCmd /\ UNCHANGED lease
    <2>1. cmd'.pc = "off" /\ cmd'.k = 0
        BY <1>3, NothingInFlight
    <2>2. Prepared' /\ CommandSure' /\ RcvHolds'
        BY <1>1, <1>3, <2>1 DEF Prepared, Prepares, CommandSure, Kept, RcvHolds
    <2>. QED
        BY <1>1, <1>2, <2>1, <2>2, CommandRests
<1>4. CASE lease = 0 /\ lease' = fence + 1 /\ cmd' = [cmd EXCEPT !.pc = "acquiring", !.k = fence + 1]
    <2>1. /\ cmd'.pc = "acquiring" /\ cmd'.k = lease' /\ cmd'.kind = cmd.kind
          /\ cmd'.snap = cmd.snap
        BY <1>1, <1>4 DEF CmdTypeOf
    <2>2. rcv.pc = "off"
        BY <1>1, <1>4 DEF Kept, RcvHolds
    <2>3. Prepared' /\ CommandSure' /\ RcvHolds'
        BY <1>1, <2>1, <2>2 DEF Prepared, Prepares, CommandSure, Kept, RcvHolds
    <2>. QED
        BY <1>1, <1>2, <2>1, <2>3, CommandRests
<1>. QED
    BY <1>3, <1>4 DEF CmdAcquire

\* What is queued is put behind what is there.
LEMMA QueuedKeeps ==
    ASSUME NEW x \in ExpRow, NEW plans, DOMAIN plans \subseteq Tasks
    PROVE  Keeps(x.att, Queued(EngineOf(x), plans).att)
<1> DEFINE new(t) == NewAttempt(0, "queued", plans[t])
           b == Queued(EngineOf(x), plans).att
<1>1. x.att \in [Tasks -> Seq(Attempt)]
    BY DEF ExpRow
<1>2. b = [t \in Tasks |-> IF t \in DOMAIN plans THEN Append(x.att[t], new(t)) ELSE x.att[t]]
    BY DEF Queued, EngineOf
<1>. HIDE DEF b, new
<1>3. ASSUME NEW t \in Tasks, NEW i \in Places(x.att[t], OverStatus)
      PROVE  i \in DOMAIN b[t] /\ b[t][i] = x.att[t][i]
    <2>1. i \in DOMAIN x.att[t] /\ x.att[t] \in Seq(Attempt)
        BY <1>1 DEF Places
    <2>2. b[t] = Append(x.att[t], new(t)) \/ b[t] = x.att[t]
        BY <1>2
    <2>3. i \in 1 .. Len(x.att[t])
        BY <2>1
    <2>. QED
        BY <2>1, <2>2, <2>3
<1>. QED
    BY <1>3 DEF Keeps, b

\* The lease of the command is the tab's, and its plan is written behind the
\* record it was made from.
LEMMA CommandQueues ==
    ASSUME CommandMoves, Planned(cmd), cmd.pc \in {"acquiring", "planning"},
           cmd.kind # "start", NEW plans, DOMAIN plans \subseteq Tasks,
           \A t \in DOMAIN plans : plans[t] \in Plan, lease' = lease, tok' = cmd.k,
           CmdSync(Queued(EngineOf(cmd.snap), plans), cmd.snap.rev)
    PROVE  Kept' /\ RowKeeps
<1>1. /\ Kept /\ Following /\ cmd.pc # "off" /\ cmd \in CmdTypeOf(fence) /\ Prepares(cmd)
      /\ exp \in ExpRow
    BY PlainStepIs, CmdFields DEF CommandMoves, Prepares
<1>2. /\ exp = cmd.snap /\ abt.pc = "off" /\ pse = {} /\ lease = cmd.k /\ rcv.pc = "off"
    BY <1>1 DEF Kept, Prepared
<1>3. exp.status \in Terminal /\ cmd.k # 0
    BY <1>1, CmdIs
<1> DEFINE e == Queued(EngineOf(exp), plans)
<1>4. e \in Engine /\ e.status = "running" /\ Keeps(exp.att, e.att)
    BY <1>1, QueuedIs, QueuedKeeps
<1>5. CmdSync(e, exp.rev)
    BY <1>2
<1>. HIDE DEF e
<1>6. PICK res : /\ eng' = e /\ prev' = exp.rev /\ Sync(e, exp.rev, res)
                 /\ cmd' = [cmd EXCEPT !.pc = "syncing", !.res = res]
    BY <1>5 DEF CmdSync
<1>7. cmd'.pc = "syncing" /\ cmd'.res = res /\ cmd'.k = cmd.k
    BY <1>1, <1>6 DEF CmdTypeOf
<1>8. exp.rev \in Nat /\ exp.status # "none"
    BY <1>1, <1>3, FollowingIs DEF Terminal
<1>. QED
    BY <1>2, <1>3, <1>4, <1>6, <1>7, <1>8, CommandWrites

LEMMA CmdAcquiredKept ==
    ASSUME PlainStep, CmdAcquired
    PROVE  Kept' /\ RowKeeps
<1>1. /\ UNCHANGED <<loop, abt, pse, rcv>> /\ cmd.pc = "acquiring"
      /\ Prepares(cmd) /\ Kept /\ cmd \in CmdTypeOf(fence) /\ Following
    BY PlainStepIs, CmdFields DEF CmdAcquired, Prepares
<1>2. /\ CommandMoves /\ cmd.k # 0 /\ (cmd.kind = "start" => exp.rev = 0)
    BY <1>1, PlainStepIs, CmdIs DEF CommandMoves, Preparing
<1>3. /\ eng.status \notin Active /\ lease = cmd.k /\ rcv.pc = "off" /\ abt.pc = "off" /\ pse = {}
      /\ cmd.kind # "start" => exp = cmd.snap
    BY <1>1 DEF Kept, Prepared
<1>4. RcvHolds'
    BY <1>1, <1>3 DEF RcvHolds
<1>5. CASE cmd' = NoCmd /\ UNCHANGED <<exp, prev>> /\ (eng' = eng \/ eng' = NoEngine)
    <2>1. cmd'.pc = "off" /\ eng'.status \notin Active
        BY <1>3, <1>5, NothingInFlight, NoRowFields DEF Active
    <2>2. Prepared' /\ CommandSure' /\ (eng' = eng \/ eng'.status = "none")
        BY <1>5, <2>1, NoRowFields DEF Prepared, Prepares, CommandSure
    <2>. QED
        BY <1>2, <1>4, <1>5, <2>1, <2>2, CommandRests
<1>6. ASSUME cmd.kind = "start", tok' = cmd.k, exp' = [NoExp EXCEPT !.status = "draft"],
             cmd' = [cmd EXCEPT !.pc = "creating", !.res = 1], UNCHANGED <<lease, eng, prev>>
      PROVE  Kept' /\ RowKeeps
    <2>1. /\ cmd'.pc = "creating" /\ cmd'.res = 1 /\ cmd'.kind = "start" /\ cmd'.k = cmd.k
        BY <1>1, <1>6 DEF CmdTypeOf
    <2>2. exp'.rev = 0 /\ exp'.att = NoExp.att /\ exp'.status = "draft"
        BY <1>6, DraftType
    <2>3. Prepared' /\ CommandSure'
        BY <1>1, <1>3, <1>6, <2>1, <2>2 DEF Prepared, Prepares, CommandSure
    <2>. QED
        BY <1>2, <1>3, <1>4, <1>6, <2>1, <2>2, <2>3, CommandRests
<1>7. ASSUME cmd.kind = "plan", tok' = cmd.k, cmd' = [cmd EXCEPT !.pc = "planning"],
             UNCHANGED <<exp, lease, eng, prev>>
      PROVE  Kept' /\ RowKeeps
    <2>1. /\ cmd'.pc = "planning" /\ cmd'.kind = "plan" /\ cmd'.k = cmd.k /\ cmd'.snap = cmd.snap
        BY <1>1, <1>7 DEF CmdTypeOf
    <2>2. Prepared' /\ CommandSure'
        BY <1>1, <1>3, <1>7, <2>1 DEF Prepared, Prepares, CommandSure
    <2>. QED
        BY <1>2, <1>3, <1>4, <1>7, <2>1, <2>2, CommandRests
<1>8. CASE /\ cmd.kind = "retry" /\ tok' = cmd.k /\ UNCHANGED lease
           /\ CmdSync(Queued(EngineOf(cmd.snap), RetryPlans(EngineOf(cmd.snap))), cmd.snap.rev)
    <2>1. Planned(cmd) /\ cmd.snap \in ExpRow
        BY <1>1, <1>8, FollowingIs, CmdFields DEF Planned
    <2> DEFINE plans == RetryPlans(EngineOf(cmd.snap))
    <2>2. DOMAIN plans \subseteq Tasks /\ \A t \in DOMAIN plans : plans[t] \in Plan
        BY <2>1, RetryPlansAre
    <2>3. CmdSync(Queued(EngineOf(cmd.snap), plans), cmd.snap.rev)
        BY <1>8
    <2>. HIDE DEF plans
    <2>. QED
        BY <1>1, <1>2, <1>8, <2>1, <2>2, <2>3, CommandQueues
<1>9. ~Fault
    BY NothingFails
<1>. QED
    BY <1>5, <1>6, <1>7, <1>8, <1>9 DEF CmdAcquired

\* The command ends without an engine.
LEMMA CmdFailsKept ==
    ASSUME CommandMoves, CmdFails, exp' = exp, rcv.pc = "off"
    PROVE  Kept' /\ RowKeeps
<1>1. eng' = NoEngine /\ cmd' = NoCmd /\ prev' = prev /\ UNCHANGED rcv
    BY DEF CmdFails, CommandMoves
<1>2. cmd'.pc = "off" /\ eng'.status = "none"
    BY <1>1, NothingInFlight, NoRowFields
<1>3. Prepared' /\ CommandSure' /\ RcvHolds'
    BY <1>1, <1>2 DEF Prepared, Prepares, CommandSure, RcvHolds
<1>. QED
    BY <1>1, <1>2, <1>3, CommandRests DEF Active

LEMMA CmdCreatedKept ==
    ASSUME PlainStep, CmdCreated
    PROVE  Kept' /\ RowKeeps
<1>1. /\ UNCHANGED <<loop, abt, pse, rcv>> /\ cmd.pc = "creating" /\ cmd.pc # "off"
      /\ Prepares(cmd) /\ Kept /\ cmd \in CmdTypeOf(fence) /\ Following
    BY PlainStepIs, CmdFields DEF CmdCreated, Prepares
<1>2. /\ lease = cmd.k /\ tok = cmd.k /\ rcv.pc = "off" /\ abt.pc = "off" /\ pse = {}
      /\ cmd.res = 1 /\ exp.status = "draft"
    BY <1>1 DEF Kept, Prepared
<1>3. CommandMoves /\ cmd.k # 0 /\ exp.rev = 0
    BY <1>1, <1>2, CmdIs, PlainStepIs DEF CommandMoves, Unbegun
<1> DEFINE e == DraftStarted(EngineOf([NoExp EXCEPT !.status = "draft"]))
<1>4. e \in Engine /\ e.status = "running"
    BY DraftStartedIs
<1>5. CmdSync(e, 0) /\ UNCHANGED <<lease, tok>>
    BY <1>2 DEF CmdCreated
<1>. HIDE DEF e
<1>6. PICK res : /\ eng' = e /\ prev' = 0 /\ Sync(e, 0, res)
                 /\ cmd' = [cmd EXCEPT !.pc = "syncing", !.res = res]
    BY <1>5 DEF CmdSync
<1>7. cmd'.pc = "syncing" /\ cmd'.res = res /\ cmd'.k = cmd.k
    BY <1>1, <1>6 DEF CmdTypeOf
<1>8. Keeps(exp.att, e.att)
    BY <1>3, NothingOver
<1>. QED
    BY <1>2, <1>3, <1>4, <1>5, <1>6, <1>7, <1>8, CommandWrites

LEMMA CmdPlannedKept ==
    ASSUME PlainStep, CmdPlanned
    PROVE  Kept' /\ RowKeeps
<1>1. /\ UNCHANGED <<loop, abt, pse, rcv>> /\ cmd.pc = "planning" /\ cmd.pc # "off"
      /\ Planned(cmd) /\ Prepares(cmd) /\ Kept /\ Following
    BY PlainStepIs DEF CmdPlanned, Prepares, Planned
<1>2. tok = cmd.k /\ rcv.pc = "off"
    BY <1>1 DEF Kept, Prepared
<1>3. CommandMoves
    BY <1>1, CmdIs DEF CommandMoves
<1>4. cmd.kind # "start"
    <2>1. cmd.kind = "start" => exp.status \in Unbegun
        BY <1>1, CmdIs DEF Preparing
    <2>2. exp.status \in Terminal
        BY <1>1, CmdIs
    <2>. QED
        BY <2>1, <2>2 DEF Unbegun, Terminal
<1>5. ASSUME NEW plans \in Plans(EngineOf(cmd.snap)), UNCHANGED <<lease, tok>>,
             CmdSync(Queued(EngineOf(cmd.snap), plans), cmd.snap.rev)
      PROVE  Kept' /\ RowKeeps
    <2>1. DOMAIN plans \subseteq Tasks /\ \A t \in DOMAIN plans : plans[t] \in Plan
        BY PlansAre
    <2>. QED
        BY <1>1, <1>2, <1>3, <1>4, <1>5, <2>1, CommandQueues
<1>. QED
    BY <1>2, <1>3, <1>5, CmdFailsKept DEF CmdPlanned

\* The loop that takes over finds the record of the write that came through.
LEMMA CommandEndsKept ==
    ASSUME PlainStep, fence' = fence, cmd.pc \in {"syncing", "resuming"}, cmd.res # 0,
           cmd' = NoCmd, prev' = cmd.res, UNCHANGED <<abt, pse, rcv>>,
           NEW l \in Loops, NextTask(l, eng, cmd.res, cmd.k)
    PROVE  Kept' /\ RowKeeps
<1>1. /\ NoLoopAlive /\ cmd.res \in Nat /\ cmd.k \in 0 .. fence /\ cmd.k # 0 /\ Hands(cmd)
      /\ exp.status \notin Unbegun /\ \A m \in Loops : loop[m].pc \notin {"failing", "finalized"}
      /\ cmd.k \in Nat /\ Following /\ Grounded /\ Kept /\ exp' \in ExpRow
    BY PlainStepIs, CmdIs, CmdFields DEF Preparing, Hands
<1>2. ~Disordered /\ ~Restored
    BY <1>1 DEF Disordered, Undone, NoLoopAlive, Restored
<1>3. Told(cmd.res)
    BY DEF Told
<1>4. loop' = [loop EXCEPT ![l] = loop'[l]]
    BY <1>1, NextTaskPart, FollowingIs, EngRests DEF LoopPart
<1>5. \A m \in Loops : m # l => loop[m].pc = "off" /\ loop'[m].pc = "off"
    BY <1>1, <1>4, LoopMoves DEF NoLoopAlive
<1>6. Looping(l, cmd.res)
    BY <1>1, <1>3, <1>5 DEF Looping
<1>7. Ready(cmd.res, cmd.k)
    <2>1. ASSUME eng.status \in Active PROVE Together /\ abt.pc # "syncing"
        BY <1>1, <1>2, <2>1 DEF Kept, InStep, Stopping
    <2>2. Together => cmd.res = exp.rev /\ pse \subseteq {0}
        BY DEF Together, Latest, Pending
    <2>. QED
        BY <1>1, <2>1, <2>2 DEF Ready, Together
<1>8. StepKeeps
    BY <1>1, <1>6, <1>7, NextTaskKeepsOver
<1>9. Leaves(l)
    BY <1>1, PlainStepIs, NextTaskLeaves
<1>10. RowMoves
    <2>1. Sure(cmd.res, cmd.k)
        BY <1>1, <1>2, <1>3, FollowingIs DEF Sure, Outrun, Late, Fenced
    <2>2. LoopFollows(l, cmd.k)
        BY <1>1, <2>1, NextTaskFollows
    <2>. QED
        BY <1>1, <2>2 DEF LoopFollows, Forward, Written, RowMoves
<1>11. tok' \in {tok, 0}
    <2>1. Sure(cmd.res, cmd.k)
        BY <1>1, <1>2, <1>3, FollowingIs DEF Sure, Outrun, Late, Fenced
    <2>2. LoopFollows(l, cmd.k)
        BY <1>1, <2>1, NextTaskFollows
    <2>. QED
        BY <2>2 DEF LoopFollows
<1>12. cmd'.pc = "off" /\ cmd'.k = 0
    BY NothingInFlight
<1>13. Prepared' /\ CommandSure'
    BY <1>12 DEF Prepared, CommandSure, Prepares
<1>14. RcvHolds'
    BY <1>1, <1>9, <1>11, <1>12 DEF Kept, RcvHolds, Leaves
<1>15. OverRow'
    BY <1>5, <1>9 DEF OverRow, Leaves
<1>16. DraftEmpty' /\ RcvKeeps'
    BY <1>10, RowMovesKeeps
<1>. QED
    BY <1>8, <1>13, <1>14, <1>15, <1>16 DEF Kept, StepKeeps

LEMMA CmdSyncedKept ==
    ASSUME PlainStep, CmdSynced \/ CmdResumed
    PROVE  Kept' /\ RowKeeps
<1>1. /\ fence' = fence /\ cmd.pc \in {"syncing", "resuming"} /\ UNCHANGED <<abt, pse, rcv>>
    BY DEF CmdSynced, CmdResumed
<1>2. cmd.res # 0
    BY <1>1, PlainStepIs DEF Kept, CommandSure
<1>3. PICK l \in Loops : NextTask(l, eng, cmd.res, cmd.k)
    BY <1>2 DEF CmdSynced, CmdResumed
<1>4. cmd' = NoCmd /\ prev' = cmd.res
    BY <1>2 DEF CmdSynced, CmdResumed
<1>. QED
    BY <1>1, <1>2, <1>3, <1>4, CommandEndsKept

\* The engine, the record and what is known of it stay with the lease.
LEMMA CommandWaits ==
    ASSUME CommandMoves, UNCHANGED <<exp, eng, prev, lease>>,
           eng.status \in Active => tok' = tok /\ (Hands(cmd') => cmd'.k = tok),
           cmd.pc \notin {"syncing", "resuming"}, cmd'.pc \notin {"syncing", "resuming"},
           Prepared', CommandSure', RcvHolds'
    PROVE  Kept' /\ RowKeeps
<1>1. CASE eng.status \notin Active
    BY <1>1, CommandRests
<1>2. CASE eng.status \in Active
    <2>1. PlainStep /\ EngKeeps /\ UNCHANGED <<loop, rcv, abt, pse>> /\ Together
        BY <1>2, PlainStepIs, CommandMovesIs DEF CommandMoves, Kept
    <2>2. RowMoves /\ RowKeeps
        BY RowSame DEF RowMoves
    <2>3. DraftEmpty' /\ RcvKeeps'
        BY <2>1, <2>2, RowMovesKeeps
    <2>4. Told(exp.rev)' => Told(exp.rev)
        BY CommandMovesIs DEF Told
    <2>5. EngKeeps'
        BY <2>1, <2>4 DEF EngKeeps
    <2>6. ~Pending /\ ~Pending'
        BY CommandMovesIs DEF Pending, CommandMoves, NoLoopAlive, Awaiting
    <2>7. Latest'
        BY <2>1, <2>6 DEF Together, Latest
    <2>8. Together'
        BY <1>2, <2>1, <2>7 DEF Together
    <2>9. InStep' /\ Stopping'
        BY <2>8, CommandMovesIs DEF InStep
    <2>. QED
        BY <2>2, <2>3, <2>5, <2>9, CommandMovesIs DEF Kept
<1>. QED
    BY <1>1, <1>2

LEMMA CmdResumeKept ==
    ASSUME PlainStep, ~rushed', CmdResume
    PROVE  Kept' /\ RowKeeps
<1> DEFINE ok == IF tok # 0 /\ lease = tok THEN 1 ELSE 0
<1>1. /\ UNCHANGED <<exp, eng, loop, abt, pse, rcv, prev, tok, lease>> /\ exp.status = "paused"
      /\ cmd' = [NoCmd EXCEPT !.kind = "resume", !.pc = "verifying", !.k = tok, !.res = ok]
      /\ eng.status = "paused" /\ Quiet /\ cmd = NoCmd
    BY ResumedQuietly DEF CmdResume, durable
<1>. HIDE DEF ok
<1>2. cmd'.pc = "verifying" /\ cmd'.k = tok
    BY <1>1 DEF NoCmd
<1>3. CommandMoves /\ cmd.pc = "off"
    BY <1>1, QuietIs, NothingInFlight DEF CommandMoves
<1>4. Prepared' /\ CommandSure'
    BY <1>1, <1>2 DEF Prepared, Prepares, CommandSure, Quiet
<1>5. RcvHolds'
    BY <1>1, <1>2, PlainStepIs DEF Kept, RcvHolds
<1>. QED
    BY <1>1, <1>2, <1>3, <1>4, <1>5, CommandWaits

LEMMA CmdVerifiedKept ==
    ASSUME PlainStep, CmdVerified
    PROVE  Kept' /\ RowKeeps
<1>1. /\ UNCHANGED <<loop, abt, pse, rcv, prev, lease>> /\ cmd.pc = "verifying" /\ cmd.pc # "off"
      /\ tok' = IF cmd.res = 0 THEN tok ELSE cmd.k
    BY DEF CmdVerified
<1>2. /\ Kept /\ cmd \in CmdTypeOf(fence) /\ Following /\ exp.rev \in Nat /\ prev \in Nat
      /\ eng \in Engines
    BY PlainStepIs, CmdFields
<1>3. CommandMoves
    BY <1>1, <1>2, CmdIs DEF CommandMoves
<1>4. RcvHolds /\ (rcv.pc # "off" => tok' # rcv.k)
    BY <1>1, <1>2 DEF Kept, RcvHolds
<1>5. CASE cmd' = NoCmd /\ UNCHANGED <<exp, eng>> /\ (cmd.res = 0 \/ eng.status # "paused")
    <2>1. cmd'.pc = "off" /\ cmd'.k = 0 /\ ~Hands(cmd')
        BY <1>5, NothingInFlight DEF Hands
    <2>2. Prepared' /\ CommandSure'
        BY <2>1 DEF Prepared, Prepares, CommandSure
    <2>3. RcvHolds'
        BY <1>1, <1>4, <2>1 DEF RcvHolds
    <2>4. eng.status \in Active => eng.status = "paused"
        BY <1>1, <1>2 DEF Kept, CommandSure
    <2>5. eng.status \in Active => tok' = tok
        BY <1>1, <1>5, <2>4
    <2>. QED
        BY <1>1, <1>3, <1>5, <2>1, <2>2, <2>3, <2>5, CommandWaits
<1>6. ASSUME cmd.res # 0, eng.status = "paused", eng' = Resumed(eng), NEW res,
             Sync(Resumed(eng), prev, res),
             cmd' = [cmd EXCEPT !.pc = "resuming", !.res = res, !.pre = eng]
      PROVE  Kept' /\ RowKeeps
    <2>1. /\ Resumed(eng) \in Engine /\ Resumed(eng).status = "running"
          /\ Resumed(eng).att = eng.att
        BY <1>2, <1>6, ResumedIs
    <2>2. cmd'.pc = "resuming" /\ cmd'.res = res /\ cmd'.k = cmd.k
        BY <1>2, <1>6 DEF CmdTypeOf
    <2>3. Together /\ abt.pc # "syncing" /\ pse = {}
        BY <1>1, <1>2, <1>3, <1>6, CommandMovesIs DEF Active, Kept, CommandSure
    <2>4. /\ lease = tok /\ tok # 0 /\ rcv.pc = "off" /\ exp.status \in Active
          /\ exp.att = eng.att /\ cmd.k = tok /\ tok' = tok
        BY <1>1, <1>6, <2>3 DEF Together, Hands
    <2>5. prev = exp.rev
        <3>1. ~Pending
            BY <1>1, <1>3 DEF Pending, CommandMoves, NoLoopAlive, Awaiting
        <3>. QED
            BY <2>3, <3>1 DEF Together, Latest
    <2>6. Keeps(exp.att, eng'.att)
        BY <1>6, <2>1, <2>4, KeepsSame
    <2>. QED
        BY <1>1, <1>2, <1>3, <1>6, <2>1, <2>2, <2>3, <2>4, <2>5, <2>6, CommandWrites DEF Active
<1>. QED
    BY <1>5, <1>6 DEF CmdVerified

LEMMA CmdStepKept ==
    ASSUME PlainStep, CmdStep
    PROVE  Kept' /\ RowKeeps
<1>1. ~CmdChecked
    BY PlainStepIs DEF Kept, CommandSure, CmdChecked
<1>. QED
    BY <1>1, CmdAcquireKept, CmdAcquiredKept, CmdCreatedKept, CmdPlannedKept, CmdSyncedKept,
       CmdVerifiedKept DEF CmdStep

LEMMA UserKept ==
    ASSUME PlainStep, ~rushed', User
    PROVE  Kept' /\ RowKeeps
<1>1. CASE UserAborts
    <2>1. exp.status \in Active /\ cmd.kind # "start" /\ AbortStarts
        BY <1>1 DEF UserAborts, Shown, Active
    <2>. QED
        BY <2>1, NothingPrepares, AbortStartsKept
<1>. QED
    BY <1>1, UserPausesKept, CmdResumeKept, CmdReadKept DEF User

LEMMA ControlKept ==
    ASSUME PlainStep, Control
    PROVE  Kept' /\ RowKeeps
<1>1. CASE LeaseNoticed
    <2>1. cmd.kind \in {"none", "resume"} /\ AbortStarts
        BY <1>1 DEF LeaseNoticed
    <2>. QED
        BY <2>1, NothingPrepares, AbortStartsKept
<1>. QED
    BY <1>1, AbortReadKept, AbortEndsKept, PauseEndsKept DEF Control
-----------------------------------------------------------------------------
(* A recovery keeps what is over.                                          *)

\* The row is written behind its revision, keeping what is over, or was a
\* draft and is gone.
RecoveredRow ==
    \/ exp' = exp
    \/ exp'.rev = exp.rev + 1 /\ Keeps(exp.att, exp'.att) /\ exp.status \notin Terminal
    \/ exp.rev = 0 /\ exp' = NoExp /\ exp.status # "none"

\* A step of a recovery, beside an engine that is at rest or about to end.
RecoveryMoves ==
    /\ Beside /\ UNCHANGED <<eng, cmd, abt, pse, prev, tok>>
    /\ eng.status \notin Active \/ Disordered
    /\ cmd.pc \notin {"acquiring", "creating", "planning"}
    /\ RecoveredRow

\* A command that has just been given is not about a row that recovery writes.
LEMMA RecoveryLeavesCommand ==
    ASSUME RecoveryMoves
    PROVE  Prepared' /\ CommandSure'
<1>1. PlainStep /\ UNCHANGED <<eng, cmd, abt, pse>> /\ Kept /\ Following
    BY PlainStepIs DEF RecoveryMoves, Beside
<1>2. Prepares(cmd) /\ cmd.kind # "start" => exp' = exp
    <2> SUFFICES ASSUME Prepares(cmd), cmd.kind # "start", exp' # exp PROVE FALSE
        OBVIOUS
    <2>1. cmd.pc = "read" /\ cmd.kind \in {"retry", "plan"}
        BY <1>1 DEF Kept, Prepared, Prepares, RecoveryMoves
    <2>2. Planned(cmd)
        BY <2>1 DEF Planned
    <2>3. exp.status \in Terminal
        BY <1>1, <2>1, <2>2, CmdIs
    <2>4. exp.rev # 0
        BY <1>1, <2>3, FollowingIs
    <2>. QED
        BY <2>3, <2>4 DEF RecoveryMoves, RecoveredRow
<1>3. Prepared'
    BY <1>1, <1>2 DEF Kept, Prepared, Prepares, RecoveryMoves
<1>4. cmd.pc = "verifying" => eng.status \notin Active
    <2>1. cmd.pc = "verifying" => ~Disordered
        BY <1>1, CmdIs DEF Disordered, Undone, NoLoopAlive
    <2>. QED
        BY <2>1 DEF RecoveryMoves
<1>5. CommandSure'
    BY <1>1, <1>4 DEF Kept, CommandSure
<1>. QED
    BY <1>3, <1>5

LEMMA RecoveryKept ==
    ASSUME RecoveryMoves, RcvHolds', RcvKeeps'
    PROVE  Kept' /\ RowKeeps
<1>1. /\ PlainStep /\ Beside /\ UNCHANGED <<eng, cmd, abt, pse, prev, tok>> /\ Kept /\ Following
      /\ exp.rev \in Nat /\ exp'.rev \in Nat
    BY PlainStepIs DEF RecoveryMoves, Beside
<1>2. InStep' /\ Stopping'
    <2>1. Disordered' <=> Disordered
        BY <1>1, BesideIs
    <2>2. InStep'
        BY <1>1, <2>1 DEF InStep, RecoveryMoves
    <2>3. Stopping'
        BY <1>1, <2>1, BesideIs DEF Kept, Stopping
    <2>. QED
        BY <2>2, <2>3
<1>3. Prepared' /\ CommandSure' /\ OverRow'
    BY <1>1, RecoveryLeavesCommand, BesideIs
<1>4. \A v : Told(v)' => Told(v)
    BY <1>1, BesideIs DEF Told
<1>5. CASE exp' = exp
    <2>1. RowMoves /\ RowKeeps /\ EngKeeps' /\ PreKeeps'
        BY <1>1, <1>4, <1>5, StillKeeps
    <2>2. DraftEmpty'
        BY <1>1, <2>1, RowMovesKeeps
    <2>. QED
        BY <1>2, <1>3, <2>1, <2>2 DEF Kept
<1>6. CASE exp'.rev = exp.rev + 1 /\ Keeps(exp.att, exp'.att)
    <2>1. RowMoves /\ RowKeeps
        BY <1>6 DEF RowMoves, RowKeeps
    <2>2. DraftEmpty'
        BY <1>1, <2>1, RowMovesKeeps
    <2>3. \A v : v = exp'.rev => ~Told(v)
        BY <1>1, <1>6, PlainStepIs
    <2>4. ~Told(exp.rev)'
        BY <1>4, <2>3 DEF Told
    <2>5. EngKeeps'
        BY <2>4 DEF EngKeeps
    <2>6. ASSUME NEW l \in Loops, Undone(loop'[l]) PROVE PreKept(loop[l].pre)'
        <3>1. Undone(loop[l]) /\ loop'[l].pre = loop[l].pre
            BY <1>1, <2>6, BesideIs
        <3>2. PreKept(loop[l].pre)
            BY <1>1, <3>1 DEF Kept, PreKeeps
        <3>. QED
            BY <1>1, <2>4, <3>1, <3>2 DEF PreKept
    <2>7. PreKeeps'
        BY <2>6 DEF PreKeeps, PreKept
    <2>. QED
        BY <1>2, <1>3, <2>1, <2>2, <2>5, <2>7 DEF Kept
<1>7. CASE exp.rev = 0 /\ exp' = NoExp
    <2>1. RowKeeps /\ DraftEmpty'
        BY <1>7, NoRowFields DEF RowKeeps, DraftEmpty
    <2>2. \A e : Covers(e, exp'.att)
        BY <1>7, CoversNothing
    <2>3. EngKeeps'
        BY <2>2 DEF EngKeeps
    <2>4. ASSUME NEW l \in Loops PROVE ~Undone(loop'[l])
        <3>1. exp.status \in Unbegun
            BY <1>1, <1>7, PlainStepIs
        <3>2. loop[l].pc = "off"
            BY <1>1, <3>1, FollowingIs, MemoryOf
        <3>. QED
            BY <1>1, <3>2, BesideIs DEF Undone
    <2>5. PreKeeps'
        BY <2>4 DEF PreKeeps
    <2>. QED
        BY <1>2, <1>3, <2>1, <2>3, <2>5 DEF Kept
<1>. QED
    BY <1>5, <1>6, <1>7 DEF RecoveryMoves, RecoveredRow

LEMMA RcvStartKept ==
    ASSUME PlainStep, RcvStart
    PROVE  Kept' /\ RowKeeps
<1> DEFINE k == fence + 1
           todo == {t \in Tasks : Places(exp.att[t], {"running"}) # {}}
<1>1. /\ UNCHANGED <<eng, cmd, abt, pse, prev, tok, loop, runs>> /\ lease = 0 /\ lease' = k
      /\ exp.status \in {"draft", "running", "paused"}
      /\ \/ exp.status = "draft" /\ exp' = NoExp /\ rcv' = [NoRcv EXCEPT !.pc = "ending", !.k = k]
         \/ /\ exp' = exp
            /\ rcv' = [NoRcv EXCEPT !.pc = "tasks", !.k = k, !.snap = exp, !.todo = todo]
    BY DEF RcvStart
<1>2. /\ fence \in Nat /\ tok \in 0 .. fence /\ cmd.k \in 0 .. fence /\ Kept /\ Following
    BY PlainStepIs, GroundedTypes, CmdFields
<1>3. k # 0 /\ k \notin 0 .. fence
    BY <1>2
<1>4. \A t \in todo : Places(exp.att[t], {"running"}) # {}
    OBVIOUS
<1>. HIDE DEF k, todo
<1>5. /\ rcv'.k = k
      /\ \/ rcv'.pc = "ending"
         \/ rcv'.pc = "tasks" /\ rcv'.snap = exp /\ rcv'.todo = todo /\ exp' = exp
    BY <1>1 DEF NoRcv
<1>6. RcvHolds'
    BY <1>1, <1>2, <1>3, <1>5 DEF RcvHolds
<1>7. RcvKeeps'
    BY <1>4, <1>5, KeepsSame DEF RcvKeeps, RcvVisits, AtTasks
<1>8. eng.status \notin Active \/ Disordered
    BY <1>1, <1>2 DEF Kept, InStep, Together
<1>9. cmd.pc \notin {"acquiring", "creating", "planning"}
    BY <1>1, <1>2, FollowingIs DEF Kept, Prepared, Tokened
<1>10. RecoveredRow
    <2>1. exp.status = "draft" => exp.rev = 0 /\ exp.status # "none"
        BY PlainStepIs DEF Unbegun
    <2>. QED
        BY <1>1, <2>1 DEF RecoveredRow
<1>11. Beside
    BY <1>1, NoLoopMoves, VerdictsSame DEF Beside
<1>. QED
    BY <1>1, <1>6, <1>7, <1>8, <1>9, <1>10, <1>11, RecoveryKept DEF RecoveryMoves

\* While a recovery is under way, the engine is at rest or about to be ended.
LEMMA RecoveryGoesOn ==
    ASSUME Beside, rcv.pc # "off", UNCHANGED <<eng, cmd, abt, pse, prev, tok>>, RecoveredRow
    PROVE  RecoveryMoves
<1>1. Kept
    BY PlainStepIs DEF Beside
<1>2. eng.status \notin Active \/ Disordered
    BY <1>1 DEF Kept, InStep, Together
<1>3. cmd.pc \notin {"acquiring", "creating", "planning"}
    BY <1>1 DEF Kept, Prepared
<1>. QED
    BY <1>2, <1>3 DEF RecoveryMoves

LEMMA RcvTaskIs ==
    ASSUME Grounded, rcv.todo # {}
    PROVE  RcvTask \in rcv.todo /\ RcvTask \in Tasks
<1>1. rcv.todo \in SUBSET Tasks /\ Tasks \subseteq Nat
    BY RcvFields, NTasksAssumption DEF Tasks
<1>2. \E t \in rcv.todo : \A x \in rcv.todo : t <= x
    BY <1>1, LeastOf
<1>. QED
    BY <1>1, <1>2 DEF RcvTask

LEMMA FirstRunningIs ==
    ASSUME NEW s \in Seq(Attempt), Places(s, {"running"}) # {}
    PROVE  FirstRunning(s) \in DOMAIN s /\ s[FirstRunning(s)].status = "running"
<1> DEFINE places == Places(s, {"running"})
<1>1. places \subseteq Nat /\ \A i \in places : i \in DOMAIN s /\ s[i].status = "running"
    BY DEF Places
<1>2. FirstRunning(s) = CHOOSE i \in places : \A j \in places : i <= j
    BY DEF FirstRunning
<1>3. places # {}
    OBVIOUS
<1>. HIDE DEF places
<1>4. \E i \in places : \A j \in places : i <= j
    BY <1>1, <1>3, LeastOf
<1>5. FirstRunning(s) \in places
    BY <1>2, <1>4
<1>. QED
    BY <1>1, <1>5

\* Recovery gives a status to an attempt that has none, and goes on.
LEMMA RcvBecomesKeeps ==
    ASSUME Grounded, RcvKeeps, rcv.pc = "reading", NEW status \in OverStatus, exp' = exp,
           RcvAttemptBecomes(status)
    PROVE  RcvKeeps' /\ rcv'.k = rcv.k
<1> DEFINE t == RcvTask
           x == rcv.snap
           i == FirstRunning(x.att[t])
           a == [x.att[t][i] EXCEPT !.status = status]
           y == RcvSnap(status)
<1>1. x.att \in [Tasks -> Seq(Attempt)] /\ rcv \in RcvTypeOf(fence) /\ rcv.todo \in SUBSET Tasks
    BY RcvFields DEF ExpRow
<1>2. t \in rcv.todo /\ t \in Tasks
    BY RcvTaskIs DEF RcvKeeps, RcvVisits
<1>3. y \in ExpRow /\ y.rev = x.rev /\ rcv' = RcvSettled(rcv, t, y) /\ rcv'.pc = "tasks" /\ rcv'.snap = y
    BY RcvBecomes
<1>4. TakesStatus(x, y, t, i, a)
    BY RcvSnapTakes
<1>5. y.att = [x.att EXCEPT ![t] = [x.att[t] EXCEPT ![i] = a]]
    BY <1>4 DEF TakesStatus
<1>6. Places(x.att[t], {"running"}) # {}
    BY <1>2 DEF RcvKeeps, RcvVisits, AtTasks
<1>. HIDE DEF t, x, y
<1>7. i \in DOMAIN x.att[t] /\ x.att[t][i].status = "running"
    BY <1>1, <1>2, <1>6, FirstRunningIs
<1>. HIDE DEF i, a
<1>8. \A u \in Tasks : \A j \in Places(x.att[u], OverStatus) : u # t \/ j # i
    BY <1>7, OverOrNot DEF Places
<1>9. Keeps(x.att, y.att)
    <2>1. ASSUME NEW u \in Tasks, NEW j \in Places(x.att[u], OverStatus)
          PROVE  j \in DOMAIN y.att[u] /\ y.att[u][j] = x.att[u][j]
        <3>1. j \in DOMAIN x.att[u] /\ (u # t \/ j # i)
            BY <1>8 DEF Places
        <3>2. y.att[u] = IF u = t THEN [x.att[t] EXCEPT ![i] = a] ELSE x.att[u]
            BY <1>1, <1>5
        <3>. QED
            BY <3>1, <3>2
    <2>. QED
        BY <2>1 DEF Keeps
<1>10. rcv'.todo = rcv.todo \ {t} /\ rcv'.k = rcv.k
    BY <1>1, <1>3 DEF RcvSettled, RcvTypeOf
<1>11. \A u \in rcv'.todo : Places(rcv'.snap.att[u], {"running"}) # {}
    <2>1. ASSUME NEW u \in rcv'.todo PROVE Places(y.att[u], {"running"}) # {}
        <3>1. u \in rcv.todo /\ u # t /\ u \in Tasks
            BY <1>1, <1>10
        <3>2. y.att[u] = x.att[u]
            BY <1>1, <1>5, <3>1
        <3>3. Places(x.att[u], {"running"}) # {}
            BY <3>1 DEF RcvKeeps, RcvVisits, AtTasks, x
        <3>. QED
            BY <3>2, <3>3
    <2>. QED
        BY <1>3, <2>1
<1>12. rcv'.snap.rev = exp'.rev => Keeps(exp'.att, rcv'.snap.att)
    <2>1. x.rev = exp.rev => Keeps(exp.att, x.att)
        BY DEF RcvKeeps, AtTasks, x
    <2>. QED
        BY <1>3, <1>9, <2>1, KeepsAll
<1>. QED
    BY <1>3, <1>10, <1>11, <1>12 DEF RcvKeeps, RcvVisits

LEMMA RcvSettleKept ==
    ASSUME PlainStep, RcvSettle
    PROVE  Kept' /\ RowKeeps
<1>1. /\ UNCHANGED <<exp, eng, cmd, abt, pse, prev, tok, loop, lease>> /\ rcv.pc = "reading"
      /\ Kept /\ Grounded /\ rcv \in RcvTypeOf(fence)
    BY PlainStepIs, RcvFields DEF RcvSettle
<1>2. /\ RcvHolds /\ RcvKeeps /\ RecoveredRow
    BY <1>1 DEF Kept, RecoveredRow
<1>3. VerdictsStand
    <2>1. ASSUME NEW row \in rcv.load, row.status = "running", runs[RcvAttempt.run].rev = row.rev,
                 runs' = [runs EXCEPT ![RcvAttempt.run] = Rewritten(@, "interrupted")]
          PROVE  VerdictsStand
        <3> DEFINE r == RcvAttempt.run
        <3>1. Copy(row, r, runs)
            BY <1>1, RcvFields DEF AttemptRead, FirstTask, RcvAttempt, RcvTask
        <3>2. runs[r] = row /\ "running" \notin OverStatus
            BY <2>1, <3>1, OverOrNot DEF Copy
        <3>3. runs' = [runs EXCEPT ![r] = Rewritten(@, "interrupted")]
            BY <2>1
        <3>. HIDE DEF r
        <3>4. \A q \in DOMAIN runs : q # r => runs'[q] = runs[q]
            BY <3>3
        <3>. QED
            BY <2>1, <3>2, <3>4 DEF VerdictsStand
    <2>. QED
        BY <2>1, VerdictsSame DEF RcvSettle
<1>4. Beside
    BY <1>1, <1>3, NoLoopMoves DEF Beside
<1>5. RecoveryMoves
    BY <1>1, <1>2, <1>4, RecoveryGoesOn
<1>6. CASE rcv' = [rcv EXCEPT !.pc = "ending"]
    <2>1. rcv'.pc = "ending" /\ rcv'.k = rcv.k
        BY <1>1, <1>6 DEF RcvTypeOf
    <2>2. RcvHolds' /\ RcvKeeps'
        BY <1>1, <1>2, <2>1 DEF RcvHolds, RcvKeeps, RcvVisits, AtTasks
    <2>. QED
        BY <1>5, <2>2, RecoveryKept
<1>7. ASSUME NEW status \in OverStatus, RcvAttemptBecomes(status)
      PROVE  Kept' /\ RowKeeps
    <2>1. RcvKeeps' /\ rcv'.k = rcv.k
        BY <1>1, <1>2, <1>7, RcvBecomesKeeps
    <2>2. RcvHolds'
        BY <1>1, <1>2, <2>1 DEF RcvHolds
    <2>. QED
        BY <1>5, <2>1, <2>2, RecoveryKept
<1>8. "interrupted" \in OverStatus
    BY DEF OverStatus
<1>. QED
    BY <1>6, <1>7, <1>8 DEF RcvSettle

LEMMA RcvWriteKept ==
    ASSUME PlainStep, RcvWrite
    PROVE  Kept' /\ RowKeeps
<1>1. /\ UNCHANGED <<eng, cmd, abt, pse, prev, tok, loop, lease, runs>> /\ rcv.pc = "tasks"
      /\ Kept /\ Following /\ Grounded /\ rcv \in RcvTypeOf(fence) /\ exp.rev \in Nat
      /\ rcv' = [rcv EXCEPT !.pc = "ending"]
    BY PlainStepIs, RcvFields DEF RcvWrite
<1>2. RcvHolds /\ RcvKeeps /\ Beaten
    BY <1>1, FollowingIs DEF Kept
<1>3. RecoveredRow
    <2>1. PICK res : Sync(RcvRecord, rcv.snap.rev, res)
        BY DEF RcvWrite, RcvRecord
    <2>2. CASE exp' = exp
        BY <2>2 DEF RecoveredRow
    <2>3. CASE exp' = Record(RcvRecord, rcv.snap.rev + 1) /\ exp.rev = rcv.snap.rev
        <3>1. exp'.rev = exp.rev + 1 /\ exp'.att = rcv.snap.att
            BY <1>1, <2>3, RcvRecordIs
        <3>2. Keeps(exp.att, rcv.snap.att)
            BY <1>1, <1>2, <2>3 DEF RcvKeeps, AtTasks
        <3>3. exp.status \notin Terminal
            BY <1>1, <1>2, <2>3 DEF Beaten, AtTasks
        <3>. QED
            BY <3>1, <3>2, <3>3 DEF RecoveredRow
    <2>. QED
        BY <2>1, <2>2, <2>3 DEF Sync, IsAt
<1>4. Beside
    BY <1>1, VerdictsSame, NoLoopMoves DEF Beside
<1>5. RecoveryMoves
    BY <1>1, <1>3, <1>4, RecoveryGoesOn
<1>6. rcv'.pc = "ending" /\ rcv'.k = rcv.k
    BY <1>1 DEF RcvTypeOf
<1>7. RcvHolds' /\ RcvKeeps'
    BY <1>1, <1>2, <1>6 DEF RcvHolds, RcvKeeps, RcvVisits, AtTasks
<1>. QED
    BY <1>5, <1>7, RecoveryKept

LEMMA RecoveryStepKept ==
    ASSUME PlainStep, Recovery
    PROVE  Kept' /\ RowKeeps
<1>1. Kept /\ Grounded /\ rcv \in RcvTypeOf(fence)
    BY PlainStepIs, RcvFields
<1>2. RcvHolds /\ RcvKeeps
    BY <1>1 DEF Kept
<1>3. CASE RcvRead \/ RcvEnd
    <2>1. UNCHANGED <<exp, eng, cmd, abt, pse, prev, tok, loop, runs>> /\ rcv.pc # "off"
        BY <1>3 DEF RcvRead, RcvEnd, durable
    <2>2. RecoveryMoves
        BY <2>1, NoLoopMoves, VerdictsSame, RecoveryGoesOn DEF Beside, RecoveredRow
    <2>3. RcvHolds' /\ RcvKeeps'
        <3>1. CASE RcvRead
            <4>1. /\ rcv.pc = "tasks" /\ rcv.todo # {} /\ lease' = lease
                  /\ rcv'.pc = "reading" /\ rcv'.k = rcv.k /\ rcv'.todo = rcv.todo
                  /\ rcv'.snap = rcv.snap
                BY <1>1, <3>1 DEF RcvRead, RcvTypeOf, durable
            <4>. QED
                BY <1>2, <2>1, <4>1 DEF RcvHolds, RcvKeeps, RcvVisits, AtTasks
        <3>2. CASE RcvEnd
            <4>1. rcv'.pc = "off"
                BY <3>2, NothingInFlight DEF RcvEnd
            <4>. QED
                BY <4>1 DEF RcvHolds, RcvKeeps, RcvVisits, AtTasks
        <3>. QED
            BY <1>3, <3>1, <3>2
    <2>. QED
        BY <2>2, <2>3, RecoveryKept
<1>. QED
    BY <1>3, RcvStartKept, RcvSettleKept, RcvWriteKept DEF Recovery
-----------------------------------------------------------------------------
(* The theorem.                                                            *)

\* A failure is that of the one write of its step.
Strikes == faults' = faults \/ (faults' = faults + 1 /\ exp' = exp)

LEMMA FailureStrikes ==
    ASSUME exp' = exp, NEW possible, Fails(possible) \/ Fault \/ UNCHANGED faults
    PROVE  Strikes
    BY DEF Fails, Fault, Strikes

Hastens == odd' = odd \/ (odd = "none" /\ odd' = "hasty")

LEMMA SyncStrikes ==
    ASSUME NEW e, NEW rev, NEW res, Sync(e, rev, res)
    PROVE  Strikes
    BY FailureStrikes DEF Sync, Strikes

LEMMA AbortAfterFailureStrikes ==
    ASSUME NEW l \in Loops, NEW e, AbortAfterFailure(l, e)
    PROVE  Strikes
    BY SyncStrikes DEF AbortAfterFailure, EndLoop, Strikes

LEMMA CatchStrikes ==
    ASSUME NEW l \in Loops, NEW e, Catch(l, e)
    PROVE  Strikes
    BY AbortAfterFailureStrikes DEF Catch, EndLoop, Strikes

LEMMA BeginTaskStrikes ==
    ASSUME NEW l \in Loops, NEW e, NEW p, NEW k, NEW t, NEW i, NEW plan, BeginTask(l, e, p, k, t, i, plan)
    PROVE  Strikes
<1>1. \A run, res : BeginTx(t, i, run, plan, k, p, res) => Strikes
    BY FailureStrikes DEF BeginTx, Strikes
<1>. QED
    BY <1>1, CatchStrikes DEF BeginTask

LEMMA NextTaskStrikes ==
    ASSUME NEW l \in Loops, NEW e, NEW p, NEW k, NextTask(l, e, p, k)
    PROVE  Strikes
    BY BeginTaskStrikes, FailureStrikes DEF NextTask, EndLoop, Strikes

LEMMA LoopStepStrikes ==
    ASSUME NEW l \in Loops, LoopStep(l)
    PROVE  Strikes /\ odd' = odd
<1>1. odd' = odd
    BY DEF LoopStep, LoopBase, LoopBegun, LoopExecute, RunLoad, RunWrite, LoopExecuted, LoopCommit,
       LoopCommitted, LoopAdvance, LoopFailing, LoopFinalized, LoopFailed, elsewhere
<1>2. CASE LoopBase(l)
    <2>1. \/ Catch(l, eng) \/ NextTask(l, eng, prev, loop[l].k)
          \/ BeginTask(l, eng, prev, loop[l].k, loop[l].task, loop[l].at, loop[l].plan)
        BY <1>2 DEF LoopBase
    <2>. QED
        BY <1>1, <2>1, CatchStrikes, NextTaskStrikes, BeginTaskStrikes
<1>3. CASE LoopBegun(l) \/ LoopCommitted(l)
    <2>1. \A rev, res : SyncEngine(rev, res) => Strikes
        BY SyncStrikes DEF SyncEngine, Strikes
    <2>. QED
        BY <1>1, <1>3, <2>1, CatchStrikes DEF LoopBegun, LoopCommitted
<1>4. CASE LoopExecute(l)
    BY <1>1, <1>4, CatchStrikes DEF LoopExecute, Strikes
<1>5. CASE RunLoad(l) \/ RunWrite(l) \/ LoopExecuted(l)
    BY <1>1, <1>5, FailureStrikes DEF RunLoad, RunWrite, LoopExecuted, durable
<1>6. CASE LoopCommit(l)
    <2>1. \A t, i, run, row, k, rev, cov, plan, res :
              CommitTx(t, i, run, row, k, rev, cov, plan, res) => Strikes
        BY FailureStrikes DEF CommitTx, Strikes
    <2>. QED
        BY <1>1, <1>6, <2>1, CatchStrikes DEF LoopCommit
<1>7. CASE LoopAdvance(l)
    BY <1>1, <1>7, CatchStrikes, NextTaskStrikes DEF LoopAdvance
<1>8. CASE LoopFailing(l) \/ LoopFinalized(l) \/ LoopFailed(l)
    <2>1. \A run, row : AbortRun(run, row) /\ UNCHANGED exp => Strikes
        BY FailureStrikes DEF AbortRun
    <2>. QED
        BY <1>1, <1>8, <2>1, AbortAfterFailureStrikes
        DEF LoopFailing, LoopFinalized, LoopFailed, EndLoop, Strikes
<1>. QED
    BY <1>1, <1>2, <1>3, <1>4, <1>5, <1>6, <1>7, <1>8 DEF LoopStep

LEMMA CmdStepStrikes ==
    ASSUME CmdStep
    PROVE  Strikes /\ odd' = odd
<1>1. odd' = odd
    BY DEF CmdStep, CmdAcquire, CmdAcquired, CmdCreated, CmdPlanned, CmdSynced, CmdVerified,
       CmdResumed, CmdChecked
<1>2. \A e, rev : CmdSync(e, rev) => Strikes
    BY SyncStrikes DEF CmdSync
<1>3. CmdAcquire \/ CmdAcquired \/ CmdCreated \/ CmdPlanned \/ CmdChecked => Strikes
    BY <1>2, FailureStrikes DEF CmdAcquire, CmdAcquired, CmdCreated, CmdPlanned, CmdChecked, Strikes
<1>4. CmdSynced \/ CmdResumed => Strikes
    BY NextTaskStrikes DEF CmdSynced, CmdResumed, Strikes
<1>5. CmdVerified => Strikes
    BY SyncStrikes DEF CmdVerified, Strikes
<1>. QED
    BY <1>1, <1>3, <1>4, <1>5 DEF CmdStep

LEMMA TabStrikes ==
    ASSUME User \/ Control
    PROVE  Strikes /\ Hastens
<1>1. AbortEngine => Strikes
    BY SyncStrikes DEF AbortEngine, Strikes
<1>2. AbortStarts => Strikes
    BY <1>1 DEF AbortStarts, Strikes
<1>3. UserAborts \/ LeaseNoticed => Strikes /\ Hastens
    BY <1>2 DEF UserAborts, LeaseNoticed, Hasty, Hastens
<1>4. UserPauses => Strikes /\ Hastens
    BY SyncStrikes DEF UserPauses, Hasty, Hastens, Strikes
<1>5. AbortRead \/ AbortFinalized => Strikes /\ odd' = odd
    <2>1. \A run, row : AbortRun(run, row) /\ UNCHANGED exp => Strikes
        BY FailureStrikes DEF AbortRun
    <2>. QED
        BY <1>1, <2>1 DEF AbortRead, AbortFinalized
<1>6. CmdResume \/ AbortEnds \/ PauseEnds => Strikes /\ odd' = odd
    BY DEF CmdResume, AbortEnds, PauseEnds, Strikes, durable
<1>7. \A kind : CmdRead(kind) => Strikes /\ odd' = odd
    BY DEF CmdRead, Strikes, durable
<1>. QED
    BY <1>3, <1>4, <1>5, <1>6, <1>7 DEF User, Control, Hastens

LEMMA RecoveryStrikes ==
    ASSUME Recovery
    PROVE  Strikes /\ odd' = odd
<1>1. RcvWrite => Strikes
    BY SyncStrikes DEF RcvWrite
<1>. QED
    BY <1>1, FailureStrikes DEF Recovery, RcvStart, RcvRead, RcvSettle, RcvWrite, RcvEnd, Strikes, durable

\* What is lost stays lost, and in the step that it is the record stays.
LEMMA LosesNothing ==
    ASSUME Grounded, [Next]_vars
    PROVE  (Plain' => Plain) /\ (Plain /\ ~Plain' => exp' = exp)
<1>1. faults \in Nat
    BY GroundedTypes
<1>2. ASSUME Strikes, Hastens PROVE (Plain' => Plain) /\ (Plain /\ ~Plain' => exp' = exp)
    BY <1>1, <1>2 DEF Strikes, Hastens, Plain
<1>3. CASE UNCHANGED vars \/ LeaseExpires \/ Close
    BY <1>3 DEF vars, durable, LeaseExpires, Close, Plain
<1>4. CASE \E l \in Loops : LoopStep(l)
    BY <1>2, <1>4, LoopStepStrikes DEF Hastens
<1>5. CASE CmdStep \/ Recovery
    BY <1>2, <1>5, CmdStepStrikes, RecoveryStrikes DEF Hastens
<1>6. CASE User \/ Control
    BY <1>2, <1>6, TabStrikes
<1>. QED
    BY <1>3, <1>4, <1>5, <1>6 DEF Next

\* The lease of nobody is lost.
LEMMA LeaseExpiresKept ==
    ASSUME PlainStep, LeaseExpires
    PROVE  Kept' /\ RowKeeps
<1>1. /\ UNCHANGED <<exp, eng, cmd, abt, pse, prev, tok, loop, runs, rcv>> /\ Kept /\ lease # 0
    BY PlainStepIs DEF LeaseExpires
<1>2. lease # tok /\ lease # cmd.k /\ lease # rcv.k
    BY DEF LeaseExpires, PlainStep, Plain
<1>3. rcv.pc = "off" /\ RcvHolds'
    BY <1>1, <1>2 DEF Kept, RcvHolds
<1>4. RcvKeeps'
    BY <1>1 DEF Kept, RcvKeeps, RcvVisits
<1>5. eng.status \notin Active \/ Disordered
    BY <1>1, <1>2 DEF Kept, InStep, Together
<1>6. cmd.pc \notin {"acquiring", "creating", "planning"}
    BY <1>1, <1>2 DEF Kept, Prepared
<1>7. RecoveryMoves
    BY <1>1, <1>5, <1>6, NoLoopMoves, VerdictsSame DEF RecoveryMoves, Beside, RecoveredRow
<1>. QED
    BY <1>3, <1>4, <1>7, RecoveryKept

LEMMA NothingHappensKept ==
    ASSUME PlainStep, UNCHANGED vars
    PROVE  Kept' /\ RowKeeps
<1>1. /\ Kept /\ UNCHANGED <<exp, runs, lease, eng, prev, tok, loop, cmd, abt, pse, rcv>>
    BY PlainStepIs DEF vars, durable
<1>2. Beside
    BY <1>1, NoLoopMoves, VerdictsSame DEF Beside
<1>3. /\ Disordered' <=> Disordered
      /\ Pending' <=> Pending
      /\ OverRow' /\ (Told(exp.rev)' => Told(exp.rev))
    BY <1>1, <1>2, BesideIs DEF Told
<1>4. RowMoves /\ RowKeeps /\ EngKeeps' /\ PreKeeps'
    BY <1>1, <1>2, <1>3, StillKeeps
<1>5. DraftEmpty' /\ RcvKeeps'
    BY <1>1, <1>4, RowMovesKeeps
<1>6. Prepared' /\ CommandSure' /\ RcvHolds'
    BY <1>1 DEF Kept, Prepared, Prepares, CommandSure, RcvHolds
<1>7. Together => Together'
    BY <1>1, <1>3 DEF Together, Latest, Hands
<1>8. InStep' /\ Stopping'
    BY <1>1, <1>3, <1>7 DEF Kept, InStep, Stopping
<1>. QED
    BY <1>3, <1>4, <1>5, <1>6, <1>8 DEF Kept

LEMMA NextKept ==
    ASSUME PlainStep, ~rushed', [Next]_vars
    PROVE  Kept' /\ RowKeeps
<1>1. ~Close
    BY DEF Close, PlainStep, Plain
<1>. QED
    BY <1>1, NothingHappensKept, LoopStepKept, CmdStepKept, UserKept, ControlKept, RecoveryStepKept,
       LeaseExpiresKept DEF Next

LEMMA InitKept ==
    ASSUME Init
    PROVE  Kept
<1>1. /\ exp = NoExp /\ lease = 0 /\ eng = NoEngine /\ tok = 0 /\ pse = {} /\ cmd = NoCmd
      /\ abt = NoAbt /\ rcv = NoRcv /\ \A l \in Loops : loop[l] = NoLoop
    BY DEF Init
<1>2. /\ \A l \in Loops : loop[l].pc = "off"
      /\ cmd.pc = "off" /\ abt.pc = "off" /\ rcv.pc = "off" /\ eng.status = "none"
    BY <1>1, NothingInFlight, ShapesLeave, NoRowFields
<1>3. Prepared /\ CommandSure /\ RcvHolds /\ InStep /\ Stopping
    BY <1>2 DEF Prepared, Prepares, CommandSure, RcvHolds, InStep, Stopping, Active
<1>4. EngKeeps /\ PreKeeps /\ RcvKeeps /\ DraftEmpty /\ OverRow
    BY <1>1, <1>2 DEF EngKeeps, PreKeeps, Undone, RcvKeeps, RcvVisits, AtTasks, DraftEmpty, OverRow
<1>. QED
    BY <1>3, <1>4 DEF Kept

\* What is over is kept until a command is given while something is under way.
LEMMA KeepsOn ==
    ASSUME ~rushed', Following, Plain => Kept, [Next]_vars
    PROVE  Following' /\ (Plain' => Kept') /\ (Plain => RowKeeps)
<1>1. Following'
    BY FollowsOn
<1>2. (Plain' => Plain) /\ (Plain /\ ~Plain' => exp' = exp)
    BY FollowingIs, LosesNothing
<1>3. CASE Plain /\ Plain'
    <2>1. PlainStep
        BY <1>1, <1>3 DEF PlainStep
    <2>. QED
        BY <1>1, <2>1, NextKept
<1>4. CASE ~Plain'
    BY <1>1, <1>2, <1>4, RowSame
<1>. QED
    BY <1>1, <1>2, <1>3, <1>4

\* Until a command is given while something else is under way, an attempt
\* that is over keeps its status and its run in the record, as long as
\* nothing is lost or fails.
THEOREM OverIsFinal == Spec => OverAttemptsAreFinal
<1> DEFINE Inv == Grounded /\ (~rushed => Following /\ (Plain => Kept))
<1>1. Init => Inv
    BY InitGrounded, InitTrusted, InitRemembers, InitFollowed, InitKept DEF Following, Remembering
<1>2. Inv /\ [Next]_vars => Inv' /\ (~rushed' /\ Plain => RowKeeps)
    <2> SUFFICES ASSUME Inv, [Next]_vars PROVE Inv' /\ (~rushed' /\ Plain => RowKeeps)
        OBVIOUS
    <2>1. Grounded'
        BY NextGrounded
    <2>2. ASSUME ~rushed' PROVE Following' /\ (Plain' => Kept') /\ (Plain => RowKeeps)
        <3>1. Following /\ (Plain => Kept)
            BY <2>2, RushedStays
        <3>. QED
            BY <2>2, <3>1, KeepsOn
    <2>. QED
        BY <2>1, <2>2
<1>3. Inv /\ [Next]_vars =>
         [~rushed' /\ exp'.status # "none" /\ odd # "lost" /\ faults = 0 =>
             \A t \in Tasks : \A i \in Places(exp.att[t], OverStatus) :
                /\ i \in DOMAIN exp'.att[t]
                /\ exp'.att[t][i].status = exp.att[t][i].status
                /\ exp'.att[t][i].run = exp.att[t][i].run]_vars
    BY <1>2 DEF RowKeeps, Keeps, Plain
<1>. QED
    BY <1>1, <1>2, <1>3, PTL DEF Spec, OverAttemptsAreFinal
-----------------------------------------------------------------------------
(* A tab at rest.  As long as nothing fails, is lost or is interrupted     *)
(* halfway, the tab does one thing at a time, and each part of it tells    *)
(* how far it has come.                                                    *)

\* Nothing failed, was lost, or was interrupted halfway.
Calm == odd = "none" /\ faults = 0

NothingOpen(a) == \A t \in Tasks : Places(a[t], Unfinished) = {}

\* What the engine runs is its active attempt; what is queued has not begun,
\* and is one attempt of a task that is in the queue.
InTurn(atts, t, task, at, queue) ==
    /\ \A i \in Places(atts, {"running"}) : task = t /\ at = i
    /\ \A i, j \in Places(atts, {"queued"}) : i = j
    /\ \A i \in Places(atts, {"queued"}) :
          atts[i].run = 0 /\ \E n \in DOMAIN queue : queue[n] = t

Orderly(e) == \A t \in Tasks : InTurn(e.att[t], t, e.task, e.at, e.queue)

\* An engine at work is running an attempt or has one to run next.
WellKept(e) ==
    /\ e.status \in Active =>
          Orderly(e) /\ (e.task = 0 => e.queue # <<>> /\ ~e.pause)
    /\ e.status \in Terminal => NothingOpen(e.att)

\* The recovery, a pause and an abort have nothing to do beside the tab.
Undisturbed ==
    /\ rcv = NoRcv /\ pse = {}
    /\ abt.pc \in {"off", "syncing"}
    /\ abt.pc = "syncing" => NoLoopAlive /\ cmd.pc = "off" /\ exp.status \in Terminal

AtRest == NoLoopAlive /\ abt.pc = "off" /\ cmd.pc \in {"off", "read", "acquiring"}

\* The tab has the lease as long as it has something to do.
Leased ==
    /\ cmd.pc # "acquiring" => lease = tok
    /\ owner <=> tok # 0
    /\ exp.status \in Active \/ ~NoLoopAlive => tok # 0
    /\ AtRest /\ exp.status \notin Active => tok = 0

\* The record is being worked on when it says so.
RowTells ==
    /\ exp.status = "draft" => cmd.pc = "creating"
    /\ exp.status = "running" => ~NoLoopAlive \/ cmd.pc \in {"syncing", "resuming"}
    /\ exp.status = "paused" => eng.status = "paused"
    /\ exp.status \in Terminal => NothingOpen(exp.att)

CommandGoes ==
    /\ cmd.pc = "verifying" => cmd.res # 0 /\ eng.status = "paused"
    /\ cmd.pc \in {"syncing", "resuming"} =>
          eng.status = "running" /\ eng.task = 0 /\ exp.status = "running"

\* A loop works on the active attempt of its engine, and its record follows.
Goes(x) ==
    /\ x.pc \notin {"failing", "finalized", "failed"}
    /\ x.pc # "off" => ~x.sig /\ ~x.lossy /\ eng.status # "none"
    /\ x.pc \in Awaiting => x.res = exp.rev
    /\ x.pc \in AtWork \cup {"committing"} => exp.status = "running"
    /\ x.pc \in AtWork => eng.status = "running"
    /\ x.pc = "base" =>
          /\ x.res # 0 /\ eng.task = 0 /\ Head(eng.queue) = x.task
          /\ x.at = AttemptToRun(eng.att[x.task])
    /\ x.pc \in AtWork \ {"base"} =>
          eng.task = x.task /\ eng.at = x.at /\ eng.att[x.task][x.at].status = "running"
    /\ x.pc \in {"committing", "committed"} => eng.task = 0
    /\ x.pc = "committed" => exp.status = eng.status
    /\ x.pc \in {"base", "beginning", "begun"} => x.load = {}
    /\ x.pc = "executing" => \A row \in x.load : row = runs[x.run]
    /\ x.pc = "executed" => x.load # {} /\ \A row \in x.load : row.status \in OverStatus

Composed ==
    /\ Undisturbed /\ Leased /\ RowTells /\ CommandGoes /\ WellKept(eng)
    /\ \A l \in Loops : Goes(loop[l])

\* A step of such a tab.
CalmStep == PlainStep /\ Kept' /\ Calm /\ Calm' /\ Composed

LEMMA EndedOpen ==
    ASSUME NEW a \in [Tasks -> Seq(Attempt)]
    PROVE  NothingOpen(Ended(a))
<1> SUFFICES ASSUME NEW t \in Tasks PROVE Places(Ended(a)[t], Unfinished) = {}
    BY DEF NothingOpen
<1>1. Ended(a)[t] = Stopped(a[t]) /\ a[t] \in Seq(Attempt)
    BY DEF Ended
<1>2. \A i \in DOMAIN Stopped(a[t]) : Stopped(a[t])[i].status \notin Unfinished
    BY <1>1, StoppedAt, OverOrNot
<1>. QED
    BY <1>1, <1>2 DEF Places

\* An aborted engine leaves nothing open.
LEMMA AbortedWell ==
    ASSUME NEW e \in Engines, e.status \in Active
    PROVE  /\ Aborted(e).status \in Terminal /\ NothingOpen(Aborted(e).att)
           /\ WellKept(Aborted(e))
<1>1. e.status # "draft" /\ e.status \notin Terminal \cup {"none"}
    BY DEF Active, Terminal
<1>2. Aborted(e).status = "aborted" /\ Aborted(e).att = Ended(e.att)
    BY <1>1, AbortedIs, AbortedAtt
<1>3. e.att \in [Tasks -> Seq(Attempt)]
    BY EngineFields DEF Attempts
<1>. QED
    BY <1>2, <1>3, EndedOpen DEF WellKept, Active, Terminal

LEMMA ResumedWell ==
    ASSUME NEW e \in Engines, WellKept(e), e.status = "paused", Resting(e)
    PROVE  WellKept(Resumed(e)) /\ Resumed(e).status = "running" /\ Resumed(e).task = 0
<1>1. e \in Engine /\ e.task = 0
    BY EngineFields DEF Resting
<1>2. Orderly(e) /\ e.queue # <<>> /\ ~e.pause
    BY <1>1 DEF WellKept, Active
<1>3. /\ Resumed(e).att = e.att /\ Resumed(e).queue = e.queue /\ Resumed(e).task = e.task
      /\ Resumed(e).at = e.at /\ Resumed(e).status = "running" /\ (Resumed(e).pause <=> e.pause)
    BY <1>1 DEF Resumed, Engine
<1>4. Orderly(Resumed(e))
    BY <1>2, <1>3 DEF Orderly
<1>. QED
    BY <1>1, <1>2, <1>3, <1>4 DEF WellKept, Terminal

LEMMA PausedWell ==
    ASSUME NEW e \in Engines, WellKept(e), e.status = "running", e.task # 0
    PROVE  /\ WellKept(PauseRequested(e)) /\ PauseRequested(e).status = "running"
           /\ PauseRequested(e).task = e.task /\ PauseRequested(e).at = e.at
           /\ PauseRequested(e).att = e.att
<1>1. e \in Engine
    BY EngineFields
<1>2. Orderly(e)
    BY DEF WellKept, Active
<1> DEFINE p == PauseRequested(e)
<1>3. /\ p.att = e.att /\ p.queue = e.queue /\ p.task = e.task
      /\ p.at = e.at /\ p.status = "running"
    BY <1>1 DEF PauseRequested, Engine
<1>. HIDE DEF p
<1>4. Orderly(p)
    BY <1>2, <1>3 DEF Orderly
<1>5. WellKept(p)
    BY <1>3, <1>4 DEF WellKept, Terminal
<1>. QED
    BY <1>3, <1>5 DEF p

\* A task that is run takes its queued attempt, or a new one.
LEMMA AttemptToRunIs ==
    ASSUME NEW a \in Seq(Attempt)
    PROVE  IF Places(a, {"queued"}) = {} THEN AttemptToRun(a) = Len(a) + 1
           ELSE AttemptToRun(a) \in Places(a, {"queued"})
<1> DEFINE Q == Places(a, {"queued"})
<1>1. Q \in SUBSET (1 .. Len(a)) /\ Len(a) \in Nat
    BY PlacesOf
<1>2. AttemptToRun(a) = IF Q = {} THEN Len(a) + 1 ELSE CHOOSE i \in Q : \A j \in Q : i <= j
    BY DEF AttemptToRun
<1>. HIDE DEF Q
<1>3. Q \in SUBSET Nat
    BY <1>1
<1>4. Q # {} => \E i \in Q : \A j \in Q : i <= j
    BY <1>3, LeastOf
<1>5. IF Q = {} THEN AttemptToRun(a) = Len(a) + 1 ELSE AttemptToRun(a) \in Q
    BY <1>2, <1>4
<1>. QED
    BY <1>5 DEF Q

Holds(w, s, i, x) ==
    /\ DOMAIN w = DOMAIN s \cup {i} /\ w[i] = x
    /\ \A j \in DOMAIN s : j # i => w[j] = s[j]

LEMMA WithAttemptIs ==
    ASSUME NEW s \in Seq(Attempt), NEW i, NEW x, i \in DOMAIN s \/ i = Len(s) + 1
    PROVE  Holds(WithAttempt(s, i, x), s, i, x)
<1>1. CASE i \in DOMAIN s
    BY <1>1 DEF WithAttempt, Holds
<1>2. CASE i = Len(s) + 1
    <2>1. i \notin DOMAIN s /\ Len(s) \in Nat /\ DOMAIN s = 1 .. Len(s)
        BY <1>2
    <2>2. WithAttempt(s, i, x) = Append(s, x)
        BY <2>1 DEF WithAttempt
    <2>3. DOMAIN Append(s, x) = 1 .. Len(s) + 1 /\ Append(s, x)[Len(s) + 1] = x
        BY <2>1
    <2>4. \A j \in 1 .. Len(s) : Append(s, x)[j] = s[j]
        BY <2>1
    <2>5. DOMAIN s \cup {i} = 1 .. Len(s) + 1
        BY <1>2, <2>1
    <2>. QED
        BY <1>2, <2>1, <2>2, <2>3, <2>4, <2>5 DEF Holds
<1>. QED
    BY <1>1, <1>2

NextTurn(e, t, i) == t = Head(e.queue) /\ i = AttemptToRun(e.att[t])

HasTurn(b, t, i) ==
    WellKept(b) /\ b.status = "running" /\ b.task = t /\ b.at = i /\ b.att[t][i].status = "running"

\* The engine that goes on may begin the first task of its queue, and has it
\* as its active attempt then.
LEMMA BegunWell ==
    ASSUME NEW e \in Engines, WellKept(e), e.status = "running", e.task = 0,
           NEW t, NEW i, NextTurn(e, t, i), NEW run \in Nat
    PROVE  /\ t \in Tasks /\ i \in Nat /\ Begins(e) /\ MayBegin(e, t, i)
           /\ HasTurn(TaskBegun(e, t, i, run), t, i)
<1> DEFINE b == TaskBegun(e, t, i, run)
<1>0. t = Head(e.queue) /\ i = AttemptToRun(e.att[t]) /\ b = TaskBegun(e, t, i, run)
    BY DEF NextTurn
<1>. HIDE DEF b
<1>. USE <1>0
<1> DEFINE s == e.att[t]
           a == NewAttempt(run, "running", "none")
           w == WithAttempt(s, i, a)
<1>1. e \in Engine /\ e.queue \in Seq(Tasks) /\ e.att \in [Tasks -> Seq(Attempt)]
    BY EngineFields DEF Attempts
<1>2. Orderly(e) /\ e.queue # <<>> /\ ~e.pause
    BY DEF WellKept, Active
<1>3. /\ t \in Tasks /\ Tail(e.queue) \in Seq(Tasks) /\ s \in Seq(Attempt)
      /\ \A n \in DOMAIN e.queue : e.queue[n] = t \/ \E m \in DOMAIN Tail(e.queue) : Tail(e.queue)[m] = e.queue[n]
    <2>1. t \in Tasks /\ t = e.queue[1]
        BY <1>1, <1>2
    <2>2. ASSUME NEW n \in DOMAIN e.queue, n # 1
          PROVE  \E m \in DOMAIN Tail(e.queue) : Tail(e.queue)[m] = e.queue[n]
        <3>1. n - 1 \in DOMAIN Tail(e.queue) /\ Tail(e.queue)[n - 1] = e.queue[n]
            BY <1>1, <1>2, <2>2, SMTT(30)
        <3>. QED
            BY <3>1
    <2>3. Tail(e.queue) \in Seq(Tasks) /\ s \in Seq(Attempt)
        BY <1>1, <1>2, <2>1
    <2>. QED
        BY <2>1, <2>2, <2>3
<1>4. \A u \in Tasks : u # 0
    BY DEF Tasks
<1>5. IF Places(s, {"queued"}) = {} THEN i = Len(s) + 1 ELSE i \in Places(s, {"queued"})
    BY <1>3, AttemptToRunIs
<1>6. i \in Nat /\ (i \in DOMAIN s \/ i = Len(s) + 1)
    <2>1. s \in Seq(Attempt)
        BY <1>3
    <2>2. Len(s) \in Nat /\ DOMAIN s \subseteq Nat
        BY <2>1
    <2>3. i \in DOMAIN s \/ i = Len(s) + 1
        BY <1>5 DEF Places
    <2>. QED
        BY <2>2, <2>3
<1>7. i \in DOMAIN s => i \in Places(s, {"queued"})
    <2>1. Len(s) + 1 \notin DOMAIN s
        BY <1>3
    <2>. QED
        BY <1>5, <2>1
<1>8. MayBegin(e, t, i) /\ Begins(e)
    <2>1. \A j \in Places(s, {"queued"}) : s[j].run = 0 /\ s[j].status = "queued"
        BY <1>2, <1>3 DEF Orderly, InTurn, Places
    <2>2. i \in DOMAIN s => s[i].run = 0 /\ s[i].status = "queued"
        BY <1>7, <2>1
    <2>. QED
        BY <1>2, <2>2 DEF MayBegin, Begins
<1>9. /\ b.status = "running" /\ b.task = t /\ b.at = i
      /\ b.att = [e.att EXCEPT ![t] = w] /\ b.queue = Tail(e.queue)
    <2>1. /\ TaskBegun(e, t, i, run).status = "running" /\ TaskBegun(e, t, i, run).task = t
          /\ TaskBegun(e, t, i, run).at = i /\ TakesRun(e, TaskBegun(e, t, i, run), t, i, a)
        BY <1>3, <1>6, <1>8, TaskBegunIs
    <2>2. b.queue = Tail(e.queue)
        BY <1>1 DEF TaskBegun, Engine
    <2>. QED
        BY <1>1, <2>1, <2>2 DEF TakesRun
<1>10. a.status = "running"
    BY DEF NewAttempt
<1>. HIDE DEF a
<1>11. /\ DOMAIN w = DOMAIN s \cup {i} /\ w[i] = a
       /\ \A j \in DOMAIN s : j # i => w[j] = s[j]
    <2>1. s \in Seq(Attempt) /\ (i \in DOMAIN s \/ i = Len(s) + 1)
        BY <1>3, <1>6
    <2>. HIDE DEF s
    <2>2. Holds(WithAttempt(s, i, a), s, i, a)
        BY <2>1, WithAttemptIs
    <2>. QED
        BY <2>2 DEF Holds
<1>12. b.att[t] = w /\ \A u \in Tasks : u # t => b.att[u] = e.att[u]
    BY <1>1, <1>3, <1>9
<1>. HIDE DEF w
<1>13. \A u \in Tasks : Places(e.att[u], {"running"}) = {}
    BY <1>2, <1>4 DEF Orderly, InTurn
<1>14. Places(w, {"running"}) \subseteq {i} /\ Places(w, {"queued"}) = {}
    <2>1. ASSUME NEW j \in DOMAIN w, j # i PROVE w[j].status \notin {"running", "queued"}
        <3>1. j \in DOMAIN s /\ w[j] = s[j]
            BY <1>11, <2>1
        <3>2. s[j].status # "running"
            BY <1>3, <1>13, <3>1 DEF Places
        <3>3. CASE s[j].status = "queued"
            <4>1. j \in Places(s, {"queued"})
                BY <3>1, <3>3 DEF Places
            <4>2. i \in Places(s, {"queued"})
                BY <1>5, <4>1
            <4>3. \A x, y \in Places(s, {"queued"}) : x = y
                BY <1>2, <1>3 DEF Orderly, InTurn
            <4>. QED
                BY <2>1, <4>1, <4>2, <4>3
        <3>. QED
            BY <3>1, <3>2, <3>3
    <2>. QED
        BY <1>10, <1>11, <2>1 DEF Places
<1>15. ASSUME NEW u \in Tasks
       PROVE  InTurn(b.att[u], u, t, i, Tail(e.queue))
    <2>1. CASE u = t
        BY <1>12, <1>14, <2>1 DEF InTurn
    <2>2. CASE u # t
        <3>1. InTurn(e.att[u], u, 0, e.at, e.queue) /\ Places(e.att[u], {"running"}) = {}
            BY <1>2, <1>13 DEF Orderly
        <3>2. (\E n \in DOMAIN e.queue : e.queue[n] = u) =>
                 \E n \in DOMAIN Tail(e.queue) : Tail(e.queue)[n] = u
            BY <1>3, <2>2
        <3>3. InTurn(e.att[u], u, t, i, Tail(e.queue))
            BY <3>1, <3>2 DEF InTurn
        <3>. QED
            BY <1>12, <2>2, <3>3
    <2>. QED
        BY <2>1, <2>2
<1>16. Orderly(b)
    BY <1>9, <1>15 DEF Orderly
<1>17. WellKept(b)
    BY <1>3, <1>4, <1>9, <1>16 DEF WellKept, Terminal
<1>18. HasTurn(b, t, i)
    BY <1>3, <1>9, <1>10, <1>11, <1>12, <1>17 DEF HasTurn
<1>. QED
    BY <1>3, <1>6, <1>8, <1>18

-----------------------------------------------------------------------------
(* What a command queues, and what a committed task leaves to do.          *)

LEMMA InOrderOnto ==
    ASSUME NEW S \in SUBSET Tasks
    PROVE  \A t \in S : \E n \in DOMAIN InOrder(S) : InOrder(S)[n] = t
<1> DEFINE q == InOrder(S)
           c == Cardinality(S)
<1>1. NTasks \in Nat
    BY NTasksAssumption
<1>2. \E f \in [1 .. c -> S] : \A i, j \in DOMAIN f : i < j => f[i] < f[j]
    BY <1>1, InOrderExists DEF Tasks
<1>3. q \in [1 .. c -> S] /\ \A i, j \in DOMAIN q : i < j => q[i] < q[j]
    BY <1>2 DEF InOrder
<1>4. IsFiniteSet(S)
    <2>1. IsFiniteSet(1 .. NTasks)
        BY <1>1, FS_Interval
    <2>. QED
        BY <2>1, FS_Subset DEF Tasks
<1>5. c \in Nat
    BY <1>4, FS_CardinalityType
<1>. HIDE DEF q
<1>6. Cardinality(1 .. c) = c
    <2>. HIDE DEF c
    <2>. QED BY <1>5, FS_Interval
<1>7. q \in Injection(1 .. c, S)
    <2>. HIDE DEF c
    <2>1. \A i \in 1 .. c : q[i] \in Nat
        <3>1. \A t \in Tasks : t \in Nat
            BY <1>1 DEF Tasks
        <3>2. \A i \in 1 .. c : q[i] \in S
            BY <1>3
        <3>. QED
            BY <3>1, <3>2
    <2>2. ASSUME NEW i \in 1 .. c, NEW j \in 1 .. c, q[i] = q[j] PROVE i = j
        <3>1. i \in Nat /\ j \in Nat /\ DOMAIN q = 1 .. c
            BY <1>3, <1>5
        <3>2. ~(i < j) /\ ~(j < i)
            BY <1>3, <2>1, <2>2, <3>1
        <3>. QED
            BY <3>1, <3>2
    <2>. QED
        BY <1>3, <2>2 DEF Injection, IsInjective
<1>8. q \in Surjection(1 .. c, S)
    BY <1>4, <1>6, <1>7, FS_Injection
<1>. QED
    BY <1>3, <1>8 DEF Surjection, q

\* A command that queues plans for an experiment without anything open has
\* the first of them to run next.
LEMMA QueuedWell ==
    ASSUME NEW x \in ExpRow, NothingOpen(x.att), NEW plans, DOMAIN plans \subseteq Tasks,
           DOMAIN plans # {}, \A t \in DOMAIN plans : plans[t] \in Plan,
           NEW q, q = Queued(EngineOf(x), plans)
    PROVE  WellKept(q)
<1> DEFINE new(t) == NewAttempt(0, "queued", plans[t])
<1>1. /\ q.status = "running" /\ q.task = 0 /\ q.at = 0 /\ q.pause = FALSE
      /\ q.queue = InOrder(DOMAIN plans)
      /\ q.att = [t \in Tasks |-> IF t \in DOMAIN plans THEN Append(x.att[t], new(t))
                                  ELSE x.att[t]]
    BY DEF Queued, EngineOf
<1>2. \A t \in DOMAIN plans : new(t) \in Attempt /\ new(t).run = 0 /\ new(t).status = "queued"
    BY DEF NewAttempt, Attempt, AttemptStatus
<1>3. x.att \in [Tasks -> Seq(Attempt)]
    BY DEF ExpRow
<1>. HIDE DEF new
<1>4. \A t \in DOMAIN plans : \E n \in DOMAIN q.queue : q.queue[n] = t
    BY <1>1, InOrderOnto
<1>5. q.queue # <<>>
    <2>1. DOMAIN q.queue # {}
        BY <1>4
    <2>. QED
        BY <2>1
<1>6. ASSUME NEW t \in Tasks PROVE InTurn(q.att[t], t, 0, 0, q.queue)
    <2>1. Places(x.att[t], Unfinished) = {} /\ x.att[t] \in Seq(Attempt)
        BY <1>3 DEF NothingOpen
    <2>2. \A i \in DOMAIN x.att[t] : x.att[t][i].status \notin {"queued", "running"}
        BY <2>1 DEF Places, Unfinished
    <2>3. CASE t \in DOMAIN plans
        <3> DEFINE s == x.att[t]
        <3>1. q.att[t] = Append(s, new(t)) /\ s \in Seq(Attempt) /\ Len(s) \in Nat
            BY <1>1, <2>1, <2>3
        <3>2. /\ DOMAIN q.att[t] = DOMAIN s \cup {Len(s) + 1}
              /\ \A i \in DOMAIN s : q.att[t][i] = s[i]
              /\ q.att[t][Len(s) + 1] = new(t)
            <4>. HIDE DEF s
            <4>. QED BY <3>1
        <3>3. Places(q.att[t], {"queued"}) \subseteq {Len(s) + 1}
            BY <2>2, <3>2 DEF Places
        <3>4. Places(q.att[t], {"running"}) = {}
            BY <1>2, <2>2, <2>3, <3>2 DEF Places
        <3>5. q.att[t][Len(s) + 1].run = 0
            BY <1>2, <2>3, <3>2
        <3>6. \E n \in DOMAIN q.queue : q.queue[n] = t
            BY <1>4, <2>3
        <3>. HIDE DEF s
        <3>. QED
            BY <3>3, <3>4, <3>5, <3>6 DEF InTurn
    <2>4. CASE t \notin DOMAIN plans
        <3>1. q.att[t] = x.att[t]
            BY <1>1, <2>4
        <3>2. Places(q.att[t], {"queued"}) = {} /\ Places(q.att[t], {"running"}) = {}
            BY <2>2, <3>1 DEF Places
        <3>. QED
            BY <3>2 DEF InTurn
    <2>. QED
        BY <2>3, <2>4
<1>7. Orderly(q)
    BY <1>1, <1>6 DEF Orderly
<1>. QED
    BY <1>1, <1>5, <1>7 DEF WellKept, Terminal

LEMMA DraftWell ==
    ASSUME NEW q, q = DraftStarted(EngineOf([NoExp EXCEPT !.status = "draft"]))
    PROVE  WellKept(q)
<1>1. NoExp \in ExpRow /\ NoExp.att = [t \in Tasks |-> <<>>]
    BY NoRowFields
<1>2. /\ q.status = "running" /\ q.task = 0 /\ q.pause = FALSE /\ q.queue = AllTasks
      /\ q.att = [t \in Tasks |-> <<>>]
    BY <1>1 DEF DraftStarted, EngineOf, ExpRow
<1>3. q.queue # <<>>
    <2>1. 1 \in Tasks
        BY NTasksAssumption DEF Tasks
    <2>2. DOMAIN q.queue # {}
        BY <1>2, <2>1 DEF AllTasks
    <2>. QED
        BY <2>2
<1>4. ASSUME NEW t \in Tasks PROVE InTurn(q.att[t], t, q.task, q.at, q.queue)
    <2>1. q.att[t] = <<>>
        BY <1>2
    <2>2. Places(q.att[t], {"queued"}) = {} /\ Places(q.att[t], {"running"}) = {}
        BY <2>1 DEF Places
    <2>. QED
        BY <2>2 DEF InTurn
<1>5. Orderly(q)
    BY <1>4 DEF Orderly
<1>. QED
    BY <1>2, <1>3, <1>5 DEF WellKept, Terminal

\* An engine between two tasks has more to run, or is paused, or is over.
LEMMA SettledIs ==
    ASSUME NEW f \in Engine, NEW c, c = Settled(f)
    PROVE  /\ c.att = f.att /\ c.queue = f.queue /\ c.task = f.task /\ c.at = f.at
           /\ f.queue = <<>> => c.status \in {"completed", "completed_with_failures"}
           /\ f.queue # <<>> => ~c.pause /\ c.status \in {f.status, "paused"}
<1>1. CASE f.queue = <<>>
    BY <1>1 DEF Settled, Engine
<1>2. CASE f.queue # <<>> /\ f.pause
    BY <1>2 DEF Settled, Engine
<1>3. CASE f.queue # <<>> /\ ~f.pause
    BY <1>3 DEF Settled, Engine
<1>. QED
    BY <1>1, <1>2, <1>3


\* Of the attempts of a task, one that was running takes another status.
LEMMA CommittedTurn ==
    ASSUME NEW s \in Seq(Attempt), NEW w, NEW t, NEW u, NEW i, NEW queue,
           InTurn(s, u, t, i, queue), s[i].status = "running", i \in DOMAIN s,
           Holds(w, s, i, w[i]), w[i].status \in OverStatus
    PROVE  InTurn(w, u, 0, 0, queue) /\ Places(w, {"running"}) = {}
<1>1. DOMAIN w = DOMAIN s /\ \A j \in DOMAIN s : j # i => w[j] = s[j]
    BY DEF Holds
<1>2. w[i].status \notin {"queued", "running"}
    BY OverOrNot DEF Unfinished
<1>3. \A j \in DOMAIN s : s[j].status = "running" => j = i
    BY DEF InTurn, Places
<1>4. Places(w, {"running"}) = {}
    BY <1>1, <1>2, <1>3 DEF Places
<1>5. \A j \in Places(w, {"queued"}) : j \in Places(s, {"queued"}) /\ w[j] = s[j]
    BY <1>1, <1>2 DEF Places
<1>. QED
    BY <1>4, <1>5 DEF InTurn

LEMMA CommittedWell ==
    ASSUME NEW e \in Engine, WellKept(e), e.status = "running", NEW t \in Tasks, NEW i,
           e.task = t, e.at = i, i \in DOMAIN e.att[t], e.att[t][i].status = "running",
           NEW status \in OverStatus, NEW cov \in 0 .. 2, NEW plan \in Plan,
           NEW c, c = TaskCommitted(e, t, i, status, cov, plan)
    PROVE  /\ c \in Engine /\ WellKept(c) /\ c.task = 0 /\ c.status \in Active \cup Terminal
           /\ c.status = "running" => c.queue # <<>> /\ ~c.pause
<1> DEFINE atts == Over(e.att[t], i, status, cov, plan)
           att == [e.att EXCEPT ![t] = atts]
           d == [e EXCEPT !.att = att, !.task = 0, !.at = 0]
           f == [d EXCEPT !.sel = [e.sel EXCEPT ![t] = Select(atts)]]
<1>1. status \in RunStatus
    BY DEF RunStatus
<1>2. /\ c \in Engine /\ c.att = att /\ c.task = 0
    <2>1. atts = Over(e.att[t], i, status, cov, plan)
        OBVIOUS
    <2>2. /\ e \in Engine /\ t \in Tasks /\ plan \in Plan /\ cov \in 0 .. 2 /\ status \in RunStatus
          /\ c = TaskCommitted(e, t, i, status, cov, plan)
        BY <1>1
    <2>. HIDE DEF atts
    <2>3. /\ c \in Engine /\ c.att = [e.att EXCEPT ![t] = atts]
          /\ c.sel = [e.sel EXCEPT ![t] = Select(atts)] /\ c.task = 0
          /\ c.status \in {e.status, "completed", "completed_with_failures", "paused"}
        BY ONLY <2>1, <2>2, TaskCommittedIs
    <2>. QED
        BY <2>3
<1>3. e.att \in [Tasks -> Seq(Attempt)] /\ e.att[t] \in Seq(Attempt) /\ e.queue \in Seq(Tasks)
    BY DEF Engine
<1>4. Holds(atts, e.att[t], i, atts[i]) /\ atts[i].status = status
    <2> DEFINE s == e.att[t]
    <2>1. s \in Seq(Attempt) /\ i \in DOMAIN s /\ s[i] \in Attempt
        BY <1>3
    <2>2. atts = [s EXCEPT ![i] = Finalized(s[i], status, cov, plan)]
        BY DEF Over
    <2>3. Finalized(s[i], status, cov, plan).status = status
        BY <1>1, <2>1, FinalizedIs
    <2>. HIDE DEF s, atts
    <2>4. DOMAIN atts = DOMAIN s /\ atts[i] = Finalized(s[i], status, cov, plan)
        BY <2>1, <2>2
    <2>5. \A j \in DOMAIN s : j # i => atts[j] = s[j]
        BY <2>1, <2>2
    <2>6. Holds(atts, s, i, atts[i])
        BY <2>1, <2>4, <2>5 DEF Holds
    <2>. QED
        BY <2>3, <2>4, <2>6 DEF s
<1>5. atts \in Seq(Attempt)
    BY <1>1, <1>3, OverIs
<1>6. f \in Engine /\ f.queue = e.queue /\ f.task = 0 /\ f.at = 0 /\ f.status = e.status
    <2>1. Select(atts) \in Nat
        BY <1>5, SelectType
    <2>2. [e.sel EXCEPT ![t] = Select(atts)] \in [Tasks -> Nat] /\ att \in [Tasks -> Seq(Attempt)]
        BY <1>3, <1>5, <2>1 DEF Engine
    <2>3. 0 \in 0 .. NTasks
        BY NTasksAssumption
    <2>. HIDE DEF att
    <2>. QED BY <2>2, <2>3 DEF Engine
<1>7. c = Settled(f)
    <2>1. [e EXCEPT !.att[t][i] = Finalized(@, status, cov, plan), !.task = 0, !.at = 0] = d
        BY DEF Engine, Over
    <2>2. Reselected(d, t) = f
        <3>1. d.att[t] = atts /\ d.sel = e.sel
            BY <1>3, <1>5 DEF Engine
        <3>. HIDE DEF d
        <3>. QED BY <3>1 DEF Reselected
    <2>. QED
        BY <2>1, <2>2 DEF TaskCommitted
<1>8. /\ c.queue = e.queue /\ c.at = 0
      /\ e.queue = <<>> => c.status \in {"completed", "completed_with_failures"}
      /\ e.queue # <<>> => ~c.pause /\ c.status \in {"running", "paused"}
    <2>. HIDE DEF f
    <2>. QED
        BY <1>6, <1>7, SettledIs
<1>9. Orderly(e)
    BY DEF WellKept, Active
<1>10. \A u \in Tasks : u # 0
    BY DEF Tasks
<1>11. ASSUME NEW u \in Tasks
       PROVE  InTurn(c.att[u], u, 0, 0, e.queue) /\ Places(c.att[u], {"running"}) = {}
    <2>1. InTurn(e.att[u], u, t, i, e.queue)
        BY <1>9 DEF Orderly
    <2>2. CASE u = t
        <3>1. c.att[u] = atts
            BY <1>2, <1>3, <2>2
        <3>2. InTurn(e.att[t], t, t, i, e.queue) /\ atts[i].status \in OverStatus
            BY <1>4, <2>1, <2>2
        <3>. HIDE DEF atts
        <3>3. InTurn(atts, t, 0, 0, e.queue) /\ Places(atts, {"running"}) = {}
            BY <1>3, <1>4, <3>2, CommittedTurn
        <3>. QED
            BY <2>2, <3>1, <3>3
    <2>3. CASE u # t
        <3>1. c.att[u] = e.att[u]
            BY <1>2, <1>3, <2>3
        <3>2. Places(e.att[u], {"running"}) = {}
            BY <2>1, <2>3 DEF InTurn
        <3>. QED
            BY <2>1, <3>1, <3>2 DEF InTurn
    <2>. QED
        BY <2>2, <2>3
<1>12. Orderly(c)
    BY <1>2, <1>8, <1>11 DEF Orderly
<1>13. CASE e.queue = <<>>
    <2>1. ASSUME NEW u \in Tasks PROVE Places(c.att[u], Unfinished) = {}
        <3>1. Places(c.att[u], {"queued"}) = {}
            <4>1. DOMAIN e.queue = {}
                BY <1>13
            <4>. QED
                BY <1>11, <4>1 DEF InTurn
        <3>. QED
            BY <1>11, <3>1 DEF Places, Unfinished
    <2>2. NothingOpen(c.att)
        BY <2>1 DEF NothingOpen
    <2>. QED
        BY <1>2, <1>8, <1>12, <1>13, <2>2 DEF WellKept, Active, Terminal
<1>14. CASE e.queue # <<>>
    BY <1>2, <1>8, <1>12, <1>14 DEF WellKept, Active, Terminal
<1>. QED
    BY <1>13, <1>14

-----------------------------------------------------------------------------
(* The loop of a tab where nothing goes wrong.                             *)

\* This loop goes on, or takes over.
LoopCalm(l) ==
    /\ CalmStep /\ abt.pc = "off" /\ cmd' = NoCmd /\ UNCHANGED <<abt, pse, rcv>>
    /\ \A m \in Loops : m # l => loop[m].pc = "off" /\ loop'[m].pc = "off"

\* The tab has the lease, and keeps it.
HasLease  == lease = tok /\ tok # 0 /\ owner
KeepsLease == HasLease /\ UNCHANGED <<lease, tok, owner>>

LEMMA CalmStepIs ==
    ASSUME CalmStep
    PROVE  /\ PlainStep /\ Kept' /\ Undisturbed /\ Leased /\ RowTells /\ CommandGoes
           /\ WellKept(eng) /\ \A l \in Loops : Goes(loop[l])
           /\ rcv = NoRcv /\ pse = {}
    BY DEF CalmStep, Composed, Undisturbed

LEMMA OffGoes ==
    ASSUME NEW x, x.pc = "off"
    PROVE  Goes(x)
    BY DEF Goes, Awaiting, AtWork

LEMMA LoopWorks ==
    ASSUME NEW l \in Loops, LoopCalm(l), KeepsLease, loop'[l].pc # "off",
           exp'.status # "draft", exp'.status = "paused" => eng'.status = "paused",
           exp'.status \in Terminal => NothingOpen(exp.att)',
           WellKept(eng)', Goes(loop[l])'
    PROVE  Composed'
<1>1. rcv' = NoRcv /\ pse' = {} /\ abt'.pc = "off" /\ cmd'.pc = "off"
    BY CalmStepIs, NothingInFlight DEF LoopCalm
<1>2. ~NoLoopAlive'
    BY DEF NoLoopAlive
<1>3. Undisturbed'
    BY <1>1 DEF Undisturbed
<1>4. Leased'
    BY <1>1, <1>2 DEF Leased, AtRest, KeepsLease, HasLease
<1>5. RowTells' /\ CommandGoes'
    BY <1>1, <1>2 DEF RowTells, CommandGoes
<1>6. ASSUME NEW m \in Loops PROVE Goes(loop[m])'
    <2>1. CASE m = l
        BY <2>1
    <2>2. CASE m # l
        <3>1. loop'[m].pc = "off"
            BY <2>2 DEF LoopCalm
        <3>. QED
            BY <3>1 DEF Goes, Awaiting, AtWork
    <2>. QED
        BY <2>1, <2>2
<1>. QED
    BY <1>3, <1>4, <1>5, <1>6 DEF Composed

LEMMA LoopSettles ==
    ASSUME NEW l \in Loops, LoopCalm(l), HasLease, EndLoop(l, eng),
           eng.status \in Terminal \cup {"paused"}, exp.status = eng.status
    PROVE  Composed'
<1>1. /\ rcv' = NoRcv /\ pse' = {} /\ abt'.pc = "off" /\ cmd'.pc = "off" /\ RowTells
      /\ WellKept(eng) /\ Grounded
    BY CalmStepIs, NothingInFlight, PlainStepIs DEF LoopCalm
<1>2. UNCHANGED <<exp, eng>> /\ loop' = [loop EXCEPT ![l] = NoLoop]
    BY DEF EndLoop
<1>3. \A m \in Loops : loop'[m].pc = "off"
    BY <1>1, <1>2, LoopMoves, NoLoopIs DEF LoopCalm
<1>4. NoLoopAlive' /\ \A m \in Loops : Goes(loop[m])'
    BY <1>3 DEF NoLoopAlive, Goes, Awaiting, AtWork
<1>5. Undisturbed'
    BY <1>1 DEF Undisturbed
<1>6. ASSUME eng.status \in Terminal PROVE Leased'
    <2>1. lease' = 0 /\ tok' = 0 /\ owner' = FALSE /\ exp'.status \notin Active
        BY <1>2, <1>6 DEF EndLoop, Release, HasLease, Active, Terminal
    <2>2. lease' = tok' /\ (owner' <=> tok' # 0)
        BY <2>1
    <2>. QED
        BY <1>4, <2>1, <2>2 DEF Leased
<1>7. ASSUME eng.status = "paused" PROVE Leased'
    <2>1. UNCHANGED <<lease, tok, owner>> /\ exp'.status \in Active
        BY <1>2, <1>7 DEF EndLoop, Active, Terminal
    <2>2. lease' = tok' /\ (owner' <=> tok' # 0) /\ tok' # 0
        BY <2>1 DEF HasLease
    <2>. QED
        BY <2>1, <2>2 DEF Leased
<1>8. Leased'
    BY <1>6, <1>7
<1>9. RowTells'
    <2>1. exp.status \notin {"draft", "running"}
        BY DEF Terminal
    <2>2. exp'.status = exp.status /\ eng'.status = eng.status
        BY <1>2
    <2>3. NothingOpen(exp.att) => NothingOpen(exp.att)'
        BY <1>2 DEF NothingOpen
    <2>4. exp.status \in Terminal => NothingOpen(exp.att)
        BY <1>1 DEF RowTells
    <2>. QED
        BY <2>1, <2>2, <2>3, <2>4 DEF RowTells
<1>10. CommandGoes' /\ WellKept(eng)'
    BY <1>1, <1>2 DEF CommandGoes
<1>. QED
    BY <1>4, <1>5, <1>8, <1>9, <1>10 DEF Composed

LEMMA NewLoopCalm ==
    /\ \A t, i, k, res : LET x == BaseLoop(t, i, k, res)
                         IN  ~x.sig /\ ~x.lossy /\ x.load = {} /\ x.pc = "base" /\ x.task = t
                             /\ x.at = i /\ x.res = res
    /\ \A t, i, run, plan, k, res : LET x == BeginningLoop(t, i, run, plan, k, res)
                                    IN  ~x.sig /\ ~x.lossy /\ x.load = {} /\ x.pc = "beginning"
                                        /\ x.task = t /\ x.at = i /\ x.res = res
    BY DEF BaseLoop, BeginningLoop, NoLoop

\* The engine that goes on begins its task, if it does not read a base first.
LEMMA NextTaskBegins ==
    ASSUME NEW l, NEW e, NEW p, NEW k, NextTask(l, e, p, k), Begins(e), NEW t, t = Head(e.queue),
           NEW i, i = AttemptToRun(e.att[t]), MayBegin(e, t, i)
    PROVE  ReadsBase(l, e, k, t, i) \/ \E plan : StartsTask(l, e, p, k, t, i, plan)
<1> DEFINE plan == PlanOf(e.att[t], i)
<1>1. CASE plan = "compound"
    BY <1>1 DEF NextTask, ReadsBase
<1>2. CASE plan # "compound"
    <2>1. BeginTask(l, e, p, k, t, i, plan)
        BY <1>2 DEF NextTask
    <2>. HIDE DEF plan
    <2>2. StartsTask(l, e, p, k, t, i, plan)
        BY <2>1 DEF BeginTask, StartsTask
    <2>. QED
        BY <2>2
<1>. QED
    BY <1>1, <1>2

\* What the engine may run next it is going to run.
GoingOn(l) ==
    /\ LoopCalm(l) /\ HasLease /\ eng.status = "running" /\ exp.status = "running" /\ eng.task = 0

LEMMA StartsTaskCalm ==
    ASSUME NEW l \in Loops, GoingOn(l), NEW p, NEW k, NEW t, t = Head(eng.queue), NEW i,
           i = AttemptToRun(eng.att[t]), NEW plan, StartsTask(l, eng, p, k, t, i, plan)
    PROVE  Composed'
<1>1. PICK res \in {0, p + 1} :
         /\ BeginTx(t, i, ids + 1, plan, k, p, res)
         /\ loop' = [loop EXCEPT ![l] = BeginningLoop(t, i, ids + 1, plan, k, res)]
    BY DEF StartsTask, BeginningLoop
<1>2. /\ Grounded /\ PlainStep /\ eng \in Engines /\ exp \in ExpRow /\ ids + 1 \in Nat
      /\ WellKept(eng) /\ Kept'
    BY CalmStepIs, PlainStepIs, RunIds DEF LoopCalm, GoingOn
<1>3. eng' = TaskBegun(eng, t, i, ids + 1) /\ UNCHANGED <<lease, tok, owner>>
    BY DEF StartsTask
<1>4. /\ WellKept(eng') /\ eng'.status = "running" /\ eng'.task = t /\ eng'.at = i
      /\ eng'.att[t][i].status = "running"
    <2>1. eng.status = "running" /\ eng.task = 0
        BY DEF GoingOn
    <2>2. NextTurn(eng, t, i)
        BY DEF NextTurn
    <2>3. HasTurn(TaskBegun(eng, t, i, ids + 1), t, i)
        BY <1>2, <2>1, <2>2, BegunWell
    <2>. QED
        BY <1>3, <2>3 DEF HasTurn
<1>5. exp'.status = "running"
    <2>1. \/ exp' = exp
          \/ \E x, y : exp' = [exp EXCEPT !.rev = x, !.att[t] = y]
        BY <1>1 DEF BeginTx
    <2>. QED
        BY <1>2, <2>1 DEF ExpRow, GoingOn
<1>6. loop'[l] = BeginningLoop(t, i, ids + 1, plan, k, res)
    BY <1>1, <1>2, LoopMoves
<1>7. /\ ~loop'[l].sig /\ ~loop'[l].lossy /\ loop'[l].load = {} /\ loop'[l].pc = "beginning"
      /\ loop'[l].task = t /\ loop'[l].at = i
    BY <1>6, NewLoopCalm
<1>8. loop'[l].res = exp'.rev
    <2>1. \A m \in Loops : m # l => loop'[m].pc = "off"
        BY DEF LoopCalm, GoingOn
    <2>2. ~Disordered'
        BY <1>7, <2>1 DEF Disordered, Undone
    <2>3. Latest'
        BY <1>2, <1>4, <2>2 DEF Kept, InStep, Together, Active
    <2>. QED
        BY <1>7, <2>3 DEF Latest, Awaiting
<1>9. Goes(loop[l])'
    BY <1>4, <1>5, <1>7, <1>8 DEF Goes, AtWork, Awaiting
<1>10. KeepsLease /\ LoopCalm(l)
    BY <1>3 DEF KeepsLease, GoingOn
<1>. QED
    BY <1>4, <1>5, <1>7, <1>9, <1>10, LoopWorks DEF Terminal

LEMMA ReadsBaseCalm ==
    ASSUME NEW l \in Loops, GoingOn(l), NEW k, NEW t, t = Head(eng.queue), NEW i,
           i = AttemptToRun(eng.att[t]), ReadsBase(l, eng, k, t, i)
    PROVE  Composed'
<1>1. PICK res \in {0, 1} :
         /\ IF res = 0 THEN Fault ELSE UNCHANGED faults
         /\ loop' = [loop EXCEPT ![l] = BaseLoop(t, i, k, res)]
    BY DEF ReadsBase, BaseLoop
<1>2. Grounded /\ PlainStep /\ WellKept(eng) /\ UNCHANGED <<exp, eng, lease, tok, owner>>
    BY CalmStepIs, PlainStepIs DEF LoopCalm, GoingOn, ReadsBase
<1>3. res # 0
    BY <1>1, <1>2, NothingFails
<1>4. loop'[l] = BaseLoop(t, i, k, res)
    BY <1>1, <1>2, LoopMoves
<1>5. /\ ~loop'[l].sig /\ ~loop'[l].lossy /\ loop'[l].load = {} /\ loop'[l].pc = "base"
      /\ loop'[l].task = t /\ loop'[l].at = i /\ loop'[l].res = res
    BY <1>4, NewLoopCalm
<1>6. Goes(loop[l])'
    BY <1>2, <1>3, <1>5 DEF Goes, AtWork, Awaiting, GoingOn
<1>7. KeepsLease /\ LoopCalm(l) /\ WellKept(eng)' /\ exp'.status = "running"
    BY <1>2 DEF KeepsLease, GoingOn
<1>. QED
    BY <1>5, <1>6, <1>7, LoopWorks DEF Terminal

LEMMA NextTaskCalm ==
    ASSUME NEW l \in Loops, LoopCalm(l), HasLease, NEW p, NEW k, NextTask(l, eng, p, k),
           eng.status = exp.status, eng.status \notin Unbegun, eng.task = 0
    PROVE  Composed'
<1>1. eng \in Engines /\ Resting(eng) /\ WellKept(eng) /\ eng.status \in Terminal \cup {"running", "paused"}
    <2>1. eng \in Engines /\ Resting(eng) /\ WellKept(eng) /\ PlainStep
        BY CalmStepIs, PlainStepIs DEF LoopCalm
    <2>2. eng.status \in ExpStatus
        BY <2>1, EngineFields DEF Unbegun
    <2>. QED
        BY <2>1, <2>2 DEF ExpStatus, Unbegun
<1>2. CASE eng.status # "running"
    <2>1. ~Begins(eng)
        BY <1>2 DEF Begins
    <2>2. EndLoop(l, eng)
        BY <2>1 DEF NextTask
    <2>. QED
        BY <1>1, <1>2, <2>2, LoopSettles
<1>3. CASE eng.status = "running"
    <2> DEFINE t == Head(eng.queue)
               i == AttemptToRun(eng.att[t])
    <2>1. 0 \in Nat
        OBVIOUS
    <2>2. Begins(eng) /\ MayBegin(eng, t, i)
        BY <1>1, <1>3, <2>1, BegunWell DEF NextTurn
    <2>3. ReadsBase(l, eng, k, t, i) \/ \E plan : StartsTask(l, eng, p, k, t, i, plan)
        BY <2>2, NextTaskBegins
    <2>4. GoingOn(l) /\ t = Head(eng.queue) /\ i = AttemptToRun(eng.att[t])
        BY <1>3 DEF GoingOn
    <2>. HIDE DEF t, i
    <2>. QED
        BY <2>3, <2>4, ReadsBaseCalm, StartsTaskCalm
<1>. QED
    BY <1>2, <1>3

-----------------------------------------------------------------------------
(* Each step of the loop of such a tab.                                    *)

\* It is the turn of this loop: it is the only one, and the tab has the lease.
LoopTurn(l) ==
    /\ LoopCalm(l) /\ HasLease /\ loop[l].pc # "off" /\ loop[l] \in LoopTypeOf(ids, fence)
    /\ Goes(loop[l]) /\ Grounded /\ Following

LEMMA LoopTurnIs ==
    ASSUME CalmStep, NEW l \in Loops, LoopStep(l)
    PROVE  LoopTurn(l)
<1>1. /\ PlainStep /\ Undisturbed /\ Leased /\ Goes(loop[l]) /\ Following /\ Grounded /\ Trusted
    BY CalmStepIs, PlainStepIs
<1>2. /\ loop' = [loop EXCEPT ![l] = loop'[l]] /\ loop[l].pc # "off"
      /\ \A m \in Loops : m # l => loop[m].pc = "off"
      /\ cmd = NoCmd /\ cmd' = cmd
    BY <1>1, LoopStepMoves
<1>3. UNCHANGED <<abt, pse, rcv>>
    BY DEF LoopStep, LoopBase, LoopBegun, LoopExecute, RunLoad, RunWrite, LoopExecuted, LoopCommit,
       LoopCommitted, LoopAdvance, LoopFailing, LoopFinalized, LoopFailed, elsewhere
<1>4. ~NoLoopAlive /\ abt.pc = "off"
    BY <1>1, <1>2 DEF NoLoopAlive, Undisturbed
<1>5. \A m \in Loops : m # l => loop'[m].pc = "off"
    BY <1>1, <1>2, LoopMoves
<1>6. LoopCalm(l)
    BY <1>2, <1>3, <1>4, <1>5 DEF LoopCalm
<1>7. HasLease
    BY <1>1, <1>2, <1>4, NothingInFlight DEF Leased, HasLease
<1>8. loop[l] \in LoopTypeOf(ids, fence)
    BY <1>1, LoopFields
<1>. QED
    BY <1>1, <1>2, <1>6, <1>7, <1>8 DEF LoopTurn

\* Its execution is told nothing, and works on the same attempt.
SameWork(x, y) ==
    /\ y.task = x.task /\ y.at = x.at /\ y.run = x.run /\ y.sig = x.sig /\ y.lossy = x.lossy

LEMMA LoopToWork ==
    ASSUME NEW l \in Loops, LoopTurn(l), NEW pc, NEW res, LoopTo(l, pc, res)
    PROVE  /\ loop'[l].pc = pc /\ loop'[l].res = res /\ loop'[l].load = loop[l].load
           /\ SameWork(loop[l], loop'[l])
<1>1. Grounded /\ loop[l] \in LoopTypeOf(ids, fence)
    BY DEF LoopTurn
<1>2. loop'[l] = [loop[l] EXCEPT !.pc = pc, !.res = res]
    BY <1>1, LoopMoves DEF LoopTo
<1>. QED
    BY <1>1, <1>2 DEF SameWork, LoopTypeOf

\* A loop at work stays at work on the same attempt.
LEMMA WorkCalm ==
    ASSUME NEW l \in Loops, LoopTurn(l), loop[l].pc \in AtWork \ {"base"},
           loop'[l].pc \in AtWork \ {"base"}, SameWork(loop[l], loop'[l]),
           UNCHANGED <<eng, lease, tok, owner>>, exp'.status = "running",
           loop'[l].pc \in Awaiting => loop'[l].res = exp'.rev,
           loop'[l].pc \in {"beginning", "begun"} => loop'[l].load = {},
           loop'[l].pc = "executing" => \A row \in loop'[l].load : row = runs'[loop'[l].run],
           loop'[l].pc = "executed" =>
               loop'[l].load # {} /\ \A row \in loop'[l].load : row.status \in OverStatus
    PROVE  Composed'
<1>1. Goes(loop[l]) /\ loop[l].pc # "off"
    BY DEF LoopTurn
<1>2. /\ ~loop[l].sig /\ ~loop[l].lossy /\ eng.status = "running"
      /\ eng.task = loop[l].task /\ eng.at = loop[l].at
      /\ eng.att[loop[l].task][loop[l].at].status = "running"
    BY <1>1 DEF Goes
<1>3. /\ ~loop'[l].sig /\ ~loop'[l].lossy
      /\ loop'[l].task = loop[l].task /\ loop'[l].at = loop[l].at
    BY <1>2 DEF SameWork
<1>4. /\ eng' = eng /\ eng'.task = loop'[l].task /\ eng'.at = loop'[l].at
      /\ eng'.att[loop'[l].task][loop'[l].at].status = "running"
    BY <1>2, <1>3
<1>5. loop'[l].pc \notin {"off", "base", "failing", "finalized", "failed", "committing", "committed"}
    BY DEF AtWork
<1>6. Goes(loop[l])'
    BY <1>2, <1>3, <1>4, <1>5 DEF Goes
<1>7. WellKept(eng)
    BY CalmStepIs DEF LoopTurn, LoopCalm
<1>8. WellKept(eng)'
    BY <1>4, <1>7
<1>9. LoopCalm(l) /\ KeepsLease
    BY DEF LoopTurn, KeepsLease
<1>. QED
    BY <1>5, <1>6, <1>8, <1>9, LoopWorks DEF Terminal

LEMMA LoopBaseCalm ==
    ASSUME NEW l \in Loops, LoopTurn(l), LoopBase(l)
    PROVE  Composed'
<1>1. /\ loop[l].pc = "base" /\ Goes(loop[l]) /\ LoopCalm(l) /\ HasLease
      /\ WellKept(eng) /\ eng \in Engines
    BY CalmStepIs, PlainStepIs DEF LoopBase, LoopTurn, LoopCalm
<1> DEFINE t == loop[l].task
           i == loop[l].at
           plan == loop[l].plan
<1>2. /\ loop[l].res # 0 /\ eng.status = "running" /\ exp.status = "running" /\ eng.task = 0
      /\ t = Head(eng.queue) /\ i = AttemptToRun(eng.att[t])
    BY <1>1 DEF Goes, AtWork
<1>3. ~eng.pause
    BY <1>1, <1>2 DEF WellKept, Active
<1>4. BeginTask(l, eng, prev, loop[l].k, t, i, plan)
    BY <1>2, <1>3 DEF LoopBase
<1>5. GoingOn(l)
    BY <1>1, <1>2 DEF GoingOn
<1>. HIDE DEF t, i, plan
<1>6. MayBegin(eng, t, i)
    <2>1. 0 \in Nat
        OBVIOUS
    <2>. QED
        BY <1>1, <1>2, <2>1, BegunWell DEF NextTurn
<1>7. StartsTask(l, eng, prev, loop[l].k, t, i, plan)
    BY <1>4, <1>6 DEF BeginTask, StartsTask
<1>. QED
    BY <1>2, <1>5, <1>7, StartsTaskCalm

LEMMA LoopBegunCalm ==
    ASSUME NEW l \in Loops, LoopTurn(l), LoopBegun(l)
    PROVE  Composed'
<1>1. /\ loop[l].pc = "beginning" /\ Goes(loop[l]) /\ PlainStep /\ exp.rev \in Nat
      /\ eng \in Engines /\ exp.rev # 0
    <2>1. /\ PlainStep /\ Goes(loop[l]) /\ loop[l].pc = "beginning" /\ exp.status = "running"
        BY CalmStepIs DEF LoopBegun, LoopTurn, LoopCalm, Goes, AtWork
    <2>. QED
        BY <2>1, PlainStepIs DEF Unbegun
<1>2. loop[l].res = exp.rev /\ eng.status = "running" /\ loop[l].load = {} /\ exp.status = "running"
    BY <1>1 DEF Goes, AtWork, Awaiting
<1>3. PICK res : /\ SyncEngine(exp.rev, res) /\ LoopTo(l, "begun", res)
                 /\ UNCHANGED <<eng, runs, lease, tok, owner, ids>>
    BY <1>1, <1>2 DEF LoopBegun
<1>4. Sync(eng, exp.rev, res)
    BY <1>2, <1>3 DEF SyncEngine
<1>5. res = exp'.rev /\ exp'.status = "running"
    BY <1>1, <1>2, <1>4, SyncSure
<1>6. loop'[l].pc = "begun" /\ loop'[l].res = res /\ loop'[l].load = {} /\ SameWork(loop[l], loop'[l])
    BY <1>2, <1>3, LoopToWork
<1>. QED
    BY <1>1, <1>3, <1>5, <1>6, WorkCalm DEF AtWork

LEMMA LoopExecuteCalm ==
    ASSUME NEW l \in Loops, LoopTurn(l), LoopExecute(l)
    PROVE  Composed'
<1>1. /\ loop[l].pc = "begun" /\ Goes(loop[l]) /\ PlainStep
    BY CalmStepIs DEF LoopExecute, LoopTurn, LoopCalm
<1>2. loop[l].res = exp.rev /\ loop[l].load = {} /\ exp.status = "running"
    BY <1>1 DEF Goes, AtWork, Awaiting
<1>3. exp.rev # 0
    BY <1>1, <1>2, PlainStepIs DEF Unbegun
<1>4. LoopTo(l, "executing", 0) /\ UNCHANGED <<exp, runs, lease, eng, tok, owner>>
    BY <1>2, <1>3 DEF LoopExecute
<1>5. loop'[l].pc = "executing" /\ loop'[l].load = {} /\ SameWork(loop[l], loop'[l])
    BY <1>2, <1>4, LoopToWork
<1>. QED
    BY <1>1, <1>2, <1>4, <1>5, WorkCalm DEF AtWork, Awaiting

LEMMA RunLoadCalm ==
    ASSUME NEW l \in Loops, LoopTurn(l), RunLoad(l) \/ RunWrite(l) \/ LoopExecuted(l)
    PROVE  Composed'
<1>1. /\ PlainStep /\ Grounded /\ Goes(loop[l]) /\ loop[l] \in LoopTypeOf(ids, fence)
      /\ loop[l].pc = "executing"
    BY CalmStepIs DEF LoopTurn, LoopCalm, RunLoad, RunWrite, LoopExecuted, Executing
<1>2. /\ UNCHANGED <<exp, eng, lease, tok, owner>> /\ exp.status = "running"
      /\ ~loop[l].sig /\ ~loop[l].lossy /\ \A row \in loop[l].load : row = runs[loop[l].run]
    BY <1>1 DEF RunLoad, RunWrite, LoopExecuted, durable, Goes, AtWork
<1>3. loop[l].run \in DOMAIN runs /\ runs[loop[l].run] \in Run
    BY <1>1, LoopFields, GroundedTypes DEF Begun
<1> DEFINE row == runs[loop[l].run]
           x == [loop[l] EXCEPT !.load = {row}]
           y == [loop[l] EXCEPT !.load = {}]
           v == [loop[l] EXCEPT !.pc = "executed", !.load = {row}]
<1>4. \/ loop' = [loop EXCEPT ![l] = x] /\ runs' = runs
      \/ loop' = [loop EXCEPT ![l] = y]
      \/ loop' = [loop EXCEPT ![l] = v] /\ row.status # "running"
    <2>1. CASE RunLoad(l)
        BY <2>1 DEF RunLoad, durable
    <2>2. CASE RunWrite(l)
        <3>1. PICK r \in loop[l].load :
                 \/ loop' = [loop EXCEPT ![l].load = {}]
                 \/ Fails(runs[loop[l].run].rev = r.rev)
            BY <2>2 DEF RunWrite
        <3>2. runs[loop[l].run].rev = r.rev
            BY <1>2
        <3>3. ~Fails(runs[loop[l].run].rev = r.rev)
            BY <1>1, <3>2, NothingFails
        <3>. QED
            BY <3>1, <3>3
    <2>3. CASE LoopExecuted(l)
        <3>1. ~Fault /\ row.status # "running"
            BY <1>1, <1>2, <2>3, NothingFails DEF LoopExecuted
        <3>. QED
            BY <2>3, <3>1 DEF LoopExecuted
    <2>. QED
        BY <2>1, <2>2, <2>3
<1>5. row.status # "running" => row.status \in OverStatus
    BY <1>3 DEF Run, RunStatus
<1>. HIDE DEF row
<1>6. \A n \in {x, y, v} : SameWork(loop[l], n)
    BY <1>1 DEF SameWork, LoopTypeOf
<1>7. /\ x.pc = "executing" /\ x.load = {row} /\ x.run = loop[l].run
      /\ y.pc = "executing" /\ y.load = {} /\ v.pc = "executed" /\ v.load = {row}
    BY <1>1 DEF LoopTypeOf
<1>. HIDE DEF x, y, v
<1>8. \/ loop'[l] = x /\ runs' = runs
      \/ loop'[l] = y
      \/ loop'[l] = v /\ row.status \in OverStatus
    BY <1>1, <1>4, <1>5, LoopMoves
<1>9. /\ SameWork(loop[l], loop'[l]) /\ loop'[l].pc \in {"executing", "executed"}
      /\ loop'[l].pc = "executing" => \A r \in loop'[l].load : r = runs'[loop'[l].run]
      /\ loop'[l].pc = "executed" =>
            loop'[l].load # {} /\ \A r \in loop'[l].load : r.status \in OverStatus
    BY <1>6, <1>7, <1>8 DEF row
<1>. QED
    BY <1>1, <1>2, <1>9, WorkCalm DEF AtWork, Awaiting

\* A commit comes through, and the engine is the record again.
LEMMA CommitsCalm ==
    ASSUME NEW l \in Loops, LoopTurn(l), loop[l].pc = "executed", prev' = prev,
           NEW row, NEW cov, NEW res, Commits(l, row, cov, res)
    PROVE  Composed'
<1> DEFINE t == loop[l].task
           i == loop[l].at
           run == loop[l].run
           plan == loop[l].plan
           k == loop[l].k
<1>1. /\ PlainStep /\ Grounded /\ Goes(loop[l]) /\ loop[l] \in LoopTypeOf(ids, fence)
      /\ Kept /\ exp \in ExpRow /\ exp.rev \in Nat /\ prev \in Nat /\ WellKept(eng)
      /\ eng \in Engines /\ Trusted /\ Undisturbed
    BY CalmStepIs, PlainStepIs DEF LoopTurn, LoopCalm
<1>2. /\ exp.status = "running" /\ eng.status = "running" /\ eng.task = t /\ eng.at = i
      /\ eng.att[t][i].status = "running" /\ ~loop[l].sig /\ ~loop[l].lossy
      /\ \A r \in loop[l].load : r.status \in OverStatus
    BY <1>1 DEF Goes, AtWork
<1>3. /\ t \in Tasks /\ run \in DOMAIN runs /\ plan \in Plan /\ row \in loop[l].load
      /\ row \in Run /\ row.status \in OverStatus /\ cov \in 0 .. 2
    BY <1>1, <1>2, LoopFields, CoverageIs DEF AtWork, Begun, Commits
<1>4. i \in DOMAIN eng.att[t]
    BY <1>1 DEF Trusted, LoopKnown, AtWork
<1>5. lease = k /\ prev = exp.rev /\ exp.att = eng.att
    <2>1. \A m \in Loops : m # l => loop[m].pc = "off"
        BY DEF LoopTurn, LoopCalm
    <2>2. ~Disordered /\ loop[l].pc \in Holding
        BY <2>1 DEF Disordered, Undone, Holding, AtWork
    <2>3. Together
        BY <1>1, <1>2, <2>2 DEF Kept, InStep, Active
    <2>4. ~Pending
        <3>1. cmd = NoCmd
            BY CalmStepIs, PlainStepIs DEF LoopTurn, LoopCalm, Trusted, Alone, Alive
        <3>. QED
            BY <2>1, <3>1, NothingInFlight DEF Pending, Awaiting
    <2>5. prev = exp.rev
        BY <1>2, <2>3, <2>4, CalmStepIs DEF Together, Latest, LoopTurn, LoopCalm
    <2>. QED
        BY <2>2, <2>3, <2>5 DEF Together
<1>6. runs[run] = row
    BY <1>1, <1>3 DEF Kept, OverRow
<1>7. CommitTx(t, i, run, row, k, prev, cov, plan, res) /\ UNCHANGED <<lease, tok, owner>>
    BY DEF Commits
<1>. HIDE DEF t, i, run, plan, k
<1>8. exp'.status = "running" /\ exp'.rev = res
    <2>1. ~IsReplay(t, i, run, row)
        BY <1>2, <1>5, OverOrNot DEF IsReplay
    <2>2. exp.att[t][i].status \notin OverStatus /\ i \in DOMAIN exp.att[t]
        BY <1>2, <1>4, <1>5, OverOrNot
    <2>3. MayCommitTx(t, i, run, row, k, prev)
        BY <1>2, <1>5, <1>6, <2>2 DEF MayCommitTx
    <2>4. ~Fails(MayCommitTx(t, i, run, row, k, prev))
        BY <1>1, <2>3, NothingFails
    <2> DEFINE atts == [exp.att[t] EXCEPT ![i] = Finalized(@, row.status, cov, plan)]
    <2>5. /\ res = prev + 1
          /\ exp' = [exp EXCEPT !.rev = prev + 1, !.att[t] = atts, !.sel[t] = Select(atts)]
        BY <1>7, <2>1, <2>4 DEF CommitTx
    <2>. HIDE DEF atts
    <2>. QED
        BY <1>1, <1>2, <2>5 DEF ExpRow
<1>9. /\ eng' = TaskCommitted(eng, t, i, row.status, cov, plan)
      /\ eng' \in Engine /\ WellKept(eng') /\ eng'.task = 0 /\ eng'.status \in Active \cup Terminal
    <2>1. eng' = TaskCommitted(eng, t, i, row.status, cov, plan)
        BY DEF Commits, t, i, plan
    <2>2. eng \in Engine
        BY <1>1, <1>2, EngineFields
    <2>. QED
        BY <1>1, <1>2, <1>3, <1>4, <2>1, <2>2, CommittedWell
<1>10. /\ loop'[l].pc = "committing" /\ loop'[l].res = res /\ SameWork(loop[l], loop'[l])
    <2> DEFINE x == [loop[l] EXCEPT !.pc = "committing", !.res = res, !.load = {}, !.pre = eng]
    <2>1. loop'[l] = x
        BY <1>1, LoopMoves DEF Commits
    <2>. QED
        BY <1>1, <2>1 DEF SameWork, LoopTypeOf
<1>11. Goes(loop[l])'
    BY <1>2, <1>8, <1>9, <1>10 DEF Goes, SameWork, AtWork, Awaiting, Active, Terminal
<1>12. LoopCalm(l) /\ KeepsLease
    BY <1>7 DEF LoopTurn, KeepsLease
<1>. QED
    BY <1>8, <1>9, <1>10, <1>11, <1>12, LoopWorks DEF Terminal

LEMMA LoopCommitCalm ==
    ASSUME NEW l \in Loops, LoopTurn(l), LoopCommit(l)
    PROVE  Composed'
<1>1. /\ loop[l].pc = "executed" /\ prev' = prev /\ Goes(loop[l]) /\ eng \in Engines /\ Trusted
      /\ Grounded
    BY CalmStepIs, PlainStepIs DEF LoopCommit, LoopTurn, LoopCalm
<1>2. loop[l].load # {} /\ MayCommit(eng, loop[l].task, loop[l].at)
    <2>1. /\ loop[l].load # {} /\ eng.status = "running" /\ eng.task = loop[l].task
          /\ eng.at = loop[l].at /\ eng.att[loop[l].task][loop[l].at].status = "running"
        BY <1>1 DEF Goes, AtWork
    <2>2. loop[l].at \in DOMAIN eng.att[loop[l].task]
        BY <1>1 DEF Trusted, LoopKnown, AtWork
    <2>. QED
        BY <2>1, <2>2 DEF MayCommit
<1>3. \E row, cov, res : Commits(l, row, cov, res)
    BY <1>2 DEF LoopCommit, Commits
<1>. QED
    BY <1>1, <1>3, CommitsCalm

LEMMA LoopCommittedCalm ==
    ASSUME NEW l \in Loops, LoopTurn(l), LoopCommitted(l)
    PROVE  Composed'
<1>1. /\ loop[l].pc = "committing" /\ Goes(loop[l]) /\ PlainStep /\ exp.rev \in Nat
      /\ eng \in Engines /\ eng.status # "draft" /\ WellKept(eng) /\ loop[l].pc # "off"
    BY CalmStepIs, PlainStepIs DEF LoopCommitted, LoopTurn, LoopCalm
<1>2. /\ loop[l].res = exp.rev /\ exp.status = "running" /\ ~loop[l].sig /\ ~loop[l].lossy
      /\ eng.status # "none" /\ eng.task = 0
    BY <1>1 DEF Goes, Awaiting
<1>3. exp.rev # 0
    BY <1>1, <1>2, PlainStepIs DEF Unbegun
<1>4. PICK res : /\ SyncEngine(exp.rev, res) /\ LoopTo(l, "committed", res)
                 /\ UNCHANGED <<eng, runs, lease, tok, owner, ids>>
    BY <1>2, <1>3 DEF LoopCommitted
<1>5. Sync(eng, exp.rev, res)
    BY <1>2, <1>4 DEF SyncEngine
<1>6. res = exp'.rev /\ exp'.status = eng.status /\ exp'.att = eng.att
    BY <1>1, <1>2, <1>5, SyncSure
<1>7. loop'[l].pc = "committed" /\ loop'[l].res = res /\ SameWork(loop[l], loop'[l])
    BY <1>4, LoopToWork
<1>8. eng' = eng /\ ~loop'[l].sig /\ ~loop'[l].lossy
    BY <1>2, <1>4, <1>7 DEF SameWork
<1>9. Goes(loop[l])'
    BY <1>2, <1>6, <1>7, <1>8 DEF Goes, AtWork, Awaiting
<1>10. eng.status \in Terminal => NothingOpen(eng.att)
    BY <1>1 DEF WellKept
<1>11. exp'.status \in Terminal => NothingOpen(exp.att)'
    BY <1>6, <1>10 DEF NothingOpen
<1>12. WellKept(eng)' /\ KeepsLease /\ LoopCalm(l)
    BY <1>1, <1>4 DEF LoopTurn, KeepsLease
<1>. QED
    BY <1>1, <1>6, <1>7, <1>8, <1>9, <1>11, <1>12, LoopWorks

LEMMA LoopAdvanceCalm ==
    ASSUME NEW l \in Loops, LoopTurn(l), LoopAdvance(l)
    PROVE  Composed'
<1>1. /\ loop[l].pc = "committed" /\ Goes(loop[l]) /\ PlainStep /\ exp.rev \in Nat
      /\ eng.status # "draft" /\ LoopCalm(l) /\ HasLease
    BY CalmStepIs, PlainStepIs DEF LoopAdvance, LoopTurn, LoopCalm
<1>2. /\ loop[l].res = exp.rev /\ eng.status # "none" /\ eng.task = 0 /\ exp.status = eng.status
    BY <1>1 DEF Goes, Awaiting
<1>3. exp.rev # 0
    BY <1>1, <1>2, PlainStepIs DEF Unbegun
<1>4. NextTask(l, eng, prev', loop[l].k)
    BY <1>2, <1>3 DEF LoopAdvance
<1>. QED
    BY <1>1, <1>2, <1>4, NextTaskCalm DEF Unbegun

LEMMA LoopStepCalm ==
    ASSUME CalmStep, NEW l \in Loops, LoopStep(l)
    PROVE  Composed'
<1>1. LoopTurn(l)
    BY LoopTurnIs
<1>2. loop[l].pc \notin {"failing", "finalized", "failed"}
    BY <1>1 DEF LoopTurn, Goes
<1>3. ~LoopFailing(l) /\ ~LoopFinalized(l) /\ ~LoopFailed(l)
    BY <1>2 DEF LoopFailing, LoopFinalized, LoopFailed
<1>. QED
    BY <1>1, <1>3, LoopBaseCalm, LoopBegunCalm, LoopExecuteCalm, RunLoadCalm, LoopCommitCalm,
       LoopCommittedCalm, LoopAdvanceCalm DEF LoopStep

-----------------------------------------------------------------------------
(* The commands of a tab where nothing goes wrong.                         *)

\* The command takes a step, and nothing else is under way.
CmdCalm == CalmStep /\ NoLoopAlive /\ abt.pc = "off" /\ UNCHANGED <<loop, abt, pse, rcv>>

LEMMA CommandCalm ==
    ASSUME CmdCalm, Leased', RowTells', CommandGoes', WellKept(eng)'
    PROVE  Composed'
<1>1. /\ rcv' = NoRcv /\ pse' = {} /\ abt'.pc = "off"
      /\ \A l \in Loops : loop'[l].pc = "off"
    BY CalmStepIs DEF CmdCalm, NoLoopAlive
<1>2. \A l \in Loops : Goes(loop[l])'
    BY <1>1 DEF Goes, Awaiting, AtWork
<1>3. Undisturbed'
    BY <1>1 DEF Undisturbed
<1>. QED
    BY <1>2, <1>3 DEF Composed

LEMMA CmdCalmIs ==
    ASSUME CmdCalm
    PROVE  /\ PlainStep /\ Kept /\ Following /\ Grounded /\ Trusted /\ Leased /\ RowTells
           /\ CommandGoes /\ WellKept(eng) /\ exp \in ExpRow /\ exp.rev \in Nat /\ eng \in Engines
           /\ cmd \in CmdTypeOf(fence) /\ pse = {} /\ NoLoopAlive' /\ abt'.pc = "off"
<1>1. /\ PlainStep /\ Following /\ Grounded /\ Trusted /\ Kept /\ exp \in ExpRow /\ exp.rev \in Nat
      /\ eng \in Engines /\ Leased /\ RowTells /\ CommandGoes /\ WellKept(eng) /\ pse = {}
    BY CalmStepIs, PlainStepIs DEF CmdCalm
<1>2. cmd \in CmdTypeOf(fence)
    BY <1>1, CmdFields
<1>3. NoLoopAlive' /\ abt'.pc = "off"
    BY DEF CmdCalm, NoLoopAlive
<1>. QED
    BY <1>1, <1>2, <1>3

\* A command under way is alone.
LEMMA UnderWay ==
    ASSUME CalmStep, cmd.pc # "off", UNCHANGED <<loop, abt, pse, rcv>>
    PROVE  CmdCalm
<1>1. Trusted /\ Undisturbed
    BY CalmStepIs, PlainStepIs
<1>. QED
    BY <1>1, CommandAlone DEF CmdCalm, Undisturbed

\* The record and its engine are left as they are, and say so.
LEMMA CommandStays ==
    ASSUME CmdCalm, UNCHANGED <<exp, eng>>, Leased', exp.status \in Terminal \cup {"none", "paused"},
           cmd'.pc \notin {"syncing", "resuming", "verifying"}
    PROVE  Composed'
<1>1. RowTells /\ WellKept(eng)
    BY CmdCalmIs
<1>2. NothingOpen(exp.att) => NothingOpen(exp.att)'
    BY DEF NothingOpen
<1>3. RowTells'
    BY <1>1, <1>2 DEF RowTells, Terminal
<1>4. CommandGoes' /\ WellKept(eng)'
    BY <1>1 DEF CommandGoes
<1>. QED
    BY <1>3, <1>4, CommandCalm

\* Nothing is asked of a tab that is at work.
LEMMA AtRestIs ==
    ASSUME CmdCalm, cmd.pc \in {"off", "read", "acquiring"}
    PROVE  /\ exp.status \in Terminal \cup {"none", "paused"}
           /\ exp.status # "paused" => tok = 0 /\ owner = FALSE
<1>1. RowTells /\ Leased /\ exp \in ExpRow /\ Grounded
    BY CmdCalmIs
<1>2. exp.status \notin {"draft", "running"}
    BY <1>1 DEF RowTells, CmdCalm
<1>3. exp.status \in Terminal \cup {"none", "paused"}
    BY <1>1, <1>2 DEF ExpRow, ExpStatus
<1>4. exp.status # "paused" => tok = 0
    BY <1>1, <1>2 DEF Leased, AtRest, Active, CmdCalm
<1>5. owner \in BOOLEAN
    BY <1>1 DEF Grounded, TabGrounded
<1>6. tok = 0 => owner = FALSE
    BY <1>1, <1>5 DEF Leased
<1>. QED
    BY <1>3, <1>4, <1>6

LEMMA CmdReadCalm ==
    ASSUME CalmStep, ~rushed', NEW kind \in {"start", "retry", "plan"}, CmdRead(kind)
    PROVE  Composed'
<1>1. /\ UNCHANGED <<exp, eng, loop, abt, pse, rcv, lease, tok, owner>> /\ cmd = NoCmd /\ Quiet
      /\ cmd' = [NoCmd EXCEPT !.kind = kind, !.pc = "read", !.snap = exp]
    BY ReadQuietly DEF CmdRead, durable
<1>2. cmd'.pc = "read" /\ cmd.pc = "off"
    BY <1>1, NothingInFlight DEF NoCmd
<1>3. CmdCalm
    BY <1>1, QuietIs DEF CmdCalm
<1>4. exp.status \in Terminal \cup {"none", "paused"}
    BY <1>2, <1>3, AtRestIs
<1>5. Leased /\ AtRest
    BY <1>2, <1>3, CmdCalmIs DEF CmdCalm, AtRest
<1>6. Leased'
    BY <1>1, <1>2, <1>3, <1>5 DEF Leased, CmdCalm, NoLoopAlive
<1>. QED
    BY <1>1, <1>2, <1>3, <1>4, <1>6, CommandStays

LEMMA CmdAcquireCalm ==
    ASSUME CalmStep, CmdAcquire
    PROVE  Composed'
<1>1. /\ UNCHANGED <<exp, eng, loop, abt, pse, rcv, tok, owner>> /\ cmd.pc = "read"
    BY DEF CmdAcquire
<1>2. CmdCalm
    BY <1>1, UnderWay
<1>3. /\ exp.status \in Terminal \cup {"none", "paused"} /\ Leased /\ AtRest
      /\ cmd \in CmdTypeOf(fence) /\ NoLoopAlive' /\ abt'.pc = "off"
    BY <1>1, <1>2, AtRestIs, CmdCalmIs DEF CmdCalm, AtRest
<1>4. \/ cmd'.pc = "off" /\ lease' = lease
      \/ cmd'.pc = "acquiring"
    <2>1. CASE cmd' = NoCmd /\ lease' = lease
        BY <2>1, NothingInFlight
    <2>2. CASE cmd' = [cmd EXCEPT !.pc = "acquiring", !.k = fence + 1]
        BY <1>3, <2>2 DEF CmdTypeOf
    <2>. QED
        BY <2>1, <2>2 DEF CmdAcquire
<1>5. Leased'
    <2>1. cmd'.pc # "acquiring" => lease' = tok'
        BY <1>1, <1>3, <1>4 DEF Leased
    <2>2. owner' <=> tok' # 0
        BY <1>1, <1>3 DEF Leased
    <2>3. exp'.status \in Active => tok' # 0
        BY <1>1, <1>3 DEF Leased
    <2>4. exp'.status \notin Active => tok' = 0
        BY <1>1, <1>3 DEF Leased
    <2>. QED
        BY <1>3, <2>1, <2>2, <2>3, <2>4 DEF Leased
<1>6. cmd'.pc \notin {"syncing", "resuming", "verifying"}
    BY <1>4
<1>. QED
    BY <1>1, <1>2, <1>3, <1>5, <1>6, CommandStays

\* The command has the lease, and its experiment runs.
LEMMA CommandRuns ==
    ASSUME CmdCalm, lease' = tok', tok' # 0, owner' = TRUE, NEW e \in Engines, e.status = "running",
           e.task = 0, WellKept(e), NEW rev, rev = exp.rev, exp.status # "none",
           eng' = e, NEW res, Sync(e, rev, res), NEW pc \in {"syncing", "resuming"}, cmd'.pc = pc
    PROVE  Composed'
<1>1. PlainStep /\ exp.rev \in Nat /\ NoLoopAlive'
    BY CmdCalmIs
<1>2. exp'.status = "running"
    BY <1>1, SyncSure
<1>3. Leased'
    <2>1. owner' <=> tok' # 0
        OBVIOUS
    <2>. QED
        BY <1>1, <2>1 DEF Leased, AtRest
<1>4. RowTells'
    BY <1>2 DEF RowTells, Terminal
<1>5. CommandGoes'
    BY <1>2 DEF CommandGoes
<1>6. WellKept(eng)'
    OBVIOUS
<1>. QED
    BY <1>3, <1>4, <1>5, <1>6, CommandCalm

\* The same with the first write of a command.
LEMMA CommandStarts ==
    ASSUME CmdCalm, lease' = tok', tok' # 0, owner' = TRUE, NEW e \in Engines, e.status = "running",
           e.task = 0, WellKept(e), NEW rev, rev = exp.rev, exp.status # "none", CmdSync(e, rev)
    PROVE  Composed'
<1>1. PICK res : /\ eng' = e /\ Sync(e, rev, res)
                 /\ cmd' = [cmd EXCEPT !.pc = "syncing", !.res = res]
    BY DEF CmdSync
<1>2. cmd'.pc = "syncing"
    BY <1>1, CmdCalmIs DEF CmdTypeOf
<1>. QED
    BY <1>1, <1>2, CommandRuns

\* What is queued is queued behind a record that has nothing open.
LEMMA CommandPlans ==
    ASSUME CmdCalm, Planned(cmd), Prepares(cmd), cmd.kind # "start", NEW plans,
           DOMAIN plans \subseteq Tasks, DOMAIN plans # {},
           \A t \in DOMAIN plans : plans[t] \in Plan, lease' = tok', tok' # 0, owner' = TRUE,
           CmdSync(Queued(EngineOf(cmd.snap), plans), cmd.snap.rev)
    PROVE  Composed'
<1>1. /\ Kept /\ Following /\ cmd.pc # "off" /\ exp \in ExpRow /\ RowTells
    BY CmdCalmIs DEF Prepares
<1>2. exp = cmd.snap
    BY <1>1 DEF Kept, Prepared
<1>3. exp.status \in Terminal
    BY <1>1, CmdIs
<1>4. NothingOpen(exp.att) /\ exp.status # "none"
    BY <1>1, <1>3 DEF RowTells, Terminal
<1> DEFINE e == Queued(EngineOf(exp), plans)
           rev == exp.rev
<1>5. e \in Engine /\ e.status = "running" /\ e.task = 0
    BY <1>1, QueuedIs
<1>6. WellKept(e)
    BY <1>1, <1>4, QueuedWell
<1>7. e \in Engines
    BY <1>5 DEF Engines
<1>8. CmdSync(e, rev) /\ rev = exp.rev
    BY <1>2
<1>. HIDE DEF e, rev
<1>. QED
    BY <1>4, <1>5, <1>6, <1>7, <1>8, CommandStarts

LEMMA CmdAcquiredCalm ==
    ASSUME CalmStep, CmdAcquired
    PROVE  Composed'
<1>1. UNCHANGED <<loop, abt, pse, rcv>> /\ cmd.pc = "acquiring" /\ cmd.pc # "off"
    BY DEF CmdAcquired
<1>2. CmdCalm
    BY <1>1, UnderWay
<1>3. /\ Prepares(cmd) /\ Kept /\ cmd \in CmdTypeOf(fence) /\ Following /\ PlainStep /\ WellKept(eng)
      /\ NoLoopAlive' /\ abt'.pc = "off" /\ RowTells
    BY <1>1, <1>2, CmdCalmIs DEF Prepares
<1>4. lease = cmd.k /\ cmd.k # 0 /\ exp.status \in Terminal \cup {"none", "paused"}
    BY <1>1, <1>2, <1>3, CmdIs, AtRestIs DEF Kept, Prepared
<1>5. cmd.kind \in {"retry", "plan"} => exp.status \in Terminal
    BY <1>1, <1>3, CmdIs DEF Planned
<1>6. cmd.kind = "start" => exp.status = "none"
    <2>1. cmd.kind = "start" => exp.status \in Unbegun
        BY <1>1, <1>3, CmdIs DEF Preparing
    <2>. QED
        BY <1>4, <2>1 DEF Unbegun, Terminal
<1>7. exp.status # "paused" /\ cmd.kind \in {"start", "retry", "plan"}
    BY <1>3, <1>5, <1>6 DEF Kept, Prepared, Terminal
<1>8. tok = 0 /\ owner = FALSE
    BY <1>1, <1>2, <1>7, AtRestIs
<1>9. ASSUME cmd.kind = "start", tok' = cmd.k, owner' = TRUE, exp' = [NoExp EXCEPT !.status = "draft"],
             cmd' = [cmd EXCEPT !.pc = "creating", !.res = 1], UNCHANGED <<lease, eng>>
      PROVE  Composed'
    <2>1. exp'.status = "draft" /\ cmd'.pc = "creating"
        BY <1>3, <1>9, DraftType DEF CmdTypeOf
    <2>2. Leased'
        <3>1. owner' <=> tok' # 0
            BY <1>4, <1>9
        <3>. QED
            BY <1>3, <1>4, <1>9, <2>1, <3>1 DEF Leased, AtRest, Active
    <2>3. RowTells' /\ CommandGoes' /\ WellKept(eng)'
        BY <1>3, <1>9, <2>1 DEF RowTells, CommandGoes, Terminal
    <2>. QED
        BY <1>2, <2>2, <2>3, CommandCalm
<1>10. ASSUME cmd.kind = "plan", tok' = cmd.k, owner' = TRUE, cmd' = [cmd EXCEPT !.pc = "planning"],
              UNCHANGED <<exp, lease, eng>>
       PROVE  Composed'
    <2>1. cmd'.pc = "planning"
        BY <1>3, <1>10 DEF CmdTypeOf
    <2>2. Leased'
        <3>1. owner' <=> tok' # 0
            BY <1>4, <1>10
        <3>. QED
            BY <1>3, <1>4, <1>10, <2>1, <3>1 DEF Leased, AtRest
    <2>. QED
        BY <1>2, <1>4, <1>10, <2>1, <2>2, CommandStays
<1>11. ASSUME cmd.kind = "retry", tok' = cmd.k, owner' = TRUE, lease' = lease,
              Retried(EngineOf(cmd.snap)) # {},
              CmdSync(Queued(EngineOf(cmd.snap), RetryPlans(EngineOf(cmd.snap))), cmd.snap.rev)
       PROVE  Composed'
    <2>1. Planned(cmd) /\ cmd.snap \in ExpRow
        BY <1>1, <1>3, <1>11, FollowingIs, CmdFields DEF Planned
    <2> DEFINE plans == RetryPlans(EngineOf(cmd.snap))
    <2>2. DOMAIN plans \subseteq Tasks /\ \A t \in DOMAIN plans : plans[t] \in Plan
        BY <2>1, RetryPlansAre
    <2>3. DOMAIN plans # {}
        BY <1>11 DEF RetryPlans
    <2>4. CmdSync(Queued(EngineOf(cmd.snap), plans), cmd.snap.rev)
        BY <1>11
    <2>5. lease' = tok' /\ tok' # 0
        BY <1>4, <1>11
    <2>. HIDE DEF plans
    <2>. QED
        BY <1>2, <1>3, <1>11, <2>1, <2>2, <2>3, <2>4, <2>5, CommandPlans
<1>12. ASSUME lease' = (IF lease = cmd.k THEN 0 ELSE lease), tok' = 0, eng' = NoEngine, cmd' = NoCmd,
              UNCHANGED <<exp, owner>>
       PROVE  Composed'
    <2>1. cmd'.pc = "off" /\ eng'.status = "none"
        BY <1>12, NothingInFlight, NoRowFields
    <2>2. exp'.status \notin Active
        BY <1>4, <1>7, <1>12 DEF Active, Terminal
    <2>3. Leased'
        <3>1. lease' = 0 /\ (owner' <=> tok' # 0)
            BY <1>4, <1>8, <1>12
        <3>. QED
            BY <1>3, <1>12, <2>2, <3>1 DEF Leased
    <2>4. RowTells'
        <3>1. exp'.status \in Terminal \cup {"none"}
            BY <1>4, <1>7, <1>12
        <3>2. exp'.status \in Terminal => NothingOpen(exp.att)'
            BY <1>3, <1>12 DEF RowTells, NothingOpen
        <3>. QED
            BY <3>1, <3>2 DEF RowTells, Terminal
    <2>5. CommandGoes' /\ WellKept(eng)'
        BY <2>1 DEF CommandGoes, WellKept, Active, Terminal
    <2>. QED
        BY <1>2, <2>3, <2>4, <2>5, CommandCalm
<1>13. ~Fault
    BY <1>3, NothingFails
<1>. QED
    BY <1>8, <1>9, <1>10, <1>11, <1>12, <1>13 DEF CmdAcquired

LEMMA CmdCreatedCalm ==
    ASSUME CalmStep, CmdCreated
    PROVE  Composed'
<1>1. UNCHANGED <<loop, abt, pse, rcv>> /\ cmd.pc = "creating" /\ cmd.pc # "off"
    BY DEF CmdCreated
<1>2. CmdCalm
    BY <1>1, UnderWay
<1>3. Prepares(cmd) /\ Kept /\ Following /\ PlainStep /\ Leased
    BY <1>1, <1>2, CmdCalmIs DEF Prepares
<1>4. /\ tok = cmd.k /\ lease = cmd.k /\ cmd.res = 1 /\ exp.status = "draft" /\ cmd.k # 0
    BY <1>1, <1>3, CmdIs DEF Kept, Prepared
<1>5. exp.rev = 0
    BY <1>3, <1>4, PlainStepIs DEF Unbegun
<1> DEFINE e == DraftStarted(EngineOf([NoExp EXCEPT !.status = "draft"]))
           rev == 0
<1>6. e \in Engine /\ e.status = "running" /\ e.task = 0 /\ WellKept(e)
    BY DraftStartedIs, DraftWell
<1>7. CmdSync(e, rev) /\ UNCHANGED <<lease, tok, owner>> /\ rev = exp.rev
    BY <1>4, <1>5 DEF CmdCreated
<1>8. owner' = TRUE
    <2>1. owner \in BOOLEAN
        BY <1>3, PlainStepIs DEF Grounded, TabGrounded
    <2>. QED
        BY <1>3, <1>4, <1>7, <2>1 DEF Leased
<1>9. e \in Engines
    BY <1>6 DEF Engines
<1>. HIDE DEF e, rev
<1>. QED
    BY <1>2, <1>4, <1>6, <1>7, <1>8, <1>9, CommandStarts

LEMMA CmdPlannedCalm ==
    ASSUME CalmStep, CmdPlanned
    PROVE  Composed'
<1>1. UNCHANGED <<loop, abt, pse, rcv>> /\ cmd.pc = "planning" /\ cmd.pc # "off"
    BY DEF CmdPlanned
<1>2. CmdCalm
    BY <1>1, UnderWay
<1>3. /\ Prepares(cmd) /\ Kept /\ Following /\ PlainStep /\ Leased /\ Planned(cmd) /\ NoLoopAlive'
      /\ RowTells
    BY <1>1, <1>2, CmdCalmIs DEF Prepares, Planned
<1>4. /\ tok = cmd.k /\ lease = cmd.k /\ cmd.k # 0 /\ exp.status \in Terminal
    BY <1>1, <1>3, CmdIs DEF Kept, Prepared
<1>5. cmd.kind # "start"
    <2>1. cmd.kind = "start" => exp.status \in Unbegun
        BY <1>1, <1>3, CmdIs DEF Preparing
    <2>. QED
        BY <1>4, <2>1 DEF Unbegun, Terminal
<1>6. owner = TRUE
    <2>1. owner \in BOOLEAN
        BY <1>3, PlainStepIs DEF Grounded, TabGrounded
    <2>. QED
        BY <1>3, <1>4, <2>1 DEF Leased
<1>7. ASSUME NEW plans \in Plans(EngineOf(cmd.snap)), UNCHANGED <<lease, tok, owner>>,
             CmdSync(Queued(EngineOf(cmd.snap), plans), cmd.snap.rev)
      PROVE  Composed'
    <2>1. DOMAIN plans \subseteq Tasks /\ \A t \in DOMAIN plans : plans[t] \in Plan
        BY PlansAre
    <2>2. DOMAIN plans # {}
        <3>1. Tasks # {}
            BY NTasksAssumption DEF Tasks
        <3>. QED
            BY <3>1 DEF Plans
    <2>. QED
        BY <1>2, <1>3, <1>4, <1>5, <1>6, <1>7, <2>1, <2>2, CommandPlans
<1>8. CASE CmdFails /\ exp' = exp
    <2>1. lease' = 0 /\ tok' = 0 /\ owner' = FALSE /\ eng' = NoEngine /\ cmd' = NoCmd
        BY <1>4, <1>8 DEF CmdFails, Release
    <2>2. cmd'.pc = "off" /\ eng'.status = "none"
        BY <2>1, NothingInFlight, NoRowFields
    <2>3. exp'.status \notin Active /\ exp'.status \in Terminal
        BY <1>4, <1>8 DEF Active, Terminal
    <2>4. Leased'
        <3>1. lease' = tok' /\ (owner' <=> tok' # 0)
            BY <2>1
        <3>. QED
            BY <1>3, <2>1, <2>3, <3>1 DEF Leased
    <2>5. RowTells'
        <3>1. NothingOpen(exp.att)'
            BY <1>3, <1>4, <1>8 DEF RowTells, NothingOpen
        <3>. QED
            BY <2>3, <3>1 DEF RowTells, Terminal
    <2>6. CommandGoes' /\ WellKept(eng)'
        BY <2>2 DEF CommandGoes, WellKept, Active, Terminal
    <2>. QED
        BY <1>2, <2>4, <2>5, <2>6, CommandCalm
<1>. QED
    BY <1>7, <1>8 DEF CmdPlanned

\* The loop takes over from its command.
LEMMA CommandEndsCalm ==
    ASSUME CalmStep, CmdSynced \/ CmdResumed
    PROVE  Composed'
<1>1. UNCHANGED <<abt, pse, rcv>> /\ cmd.pc \in {"syncing", "resuming"} /\ cmd.pc # "off"
    BY DEF CmdSynced, CmdResumed
<1>2. /\ PlainStep /\ Undisturbed /\ Leased /\ CommandGoes /\ Following /\ Grounded /\ Trusted
      /\ Kept
    BY CalmStepIs, PlainStepIs
<1>3. cmd.res # 0 /\ NoLoopAlive /\ abt.pc = "off"
    BY <1>1, <1>2, CmdIs DEF Kept, CommandSure, Undisturbed
<1>4. PICK l \in Loops : NextTask(l, eng, cmd.res, cmd.k)
    BY <1>3 DEF CmdSynced, CmdResumed
<1>5. cmd' = NoCmd /\ fence' = fence
    BY <1>3 DEF CmdSynced, CmdResumed
<1>6. cmd.res \in Nat /\ cmd.k \in 0 .. fence
    BY <1>2, CmdFields
<1>7. loop' = [loop EXCEPT ![l] = loop'[l]]
    BY <1>2, <1>4, <1>5, <1>6, NextTaskPart, FollowingIs, EngRests, PlainStepIs DEF LoopPart
<1>8. \A m \in Loops : m # l => loop[m].pc = "off" /\ loop'[m].pc = "off"
    BY <1>2, <1>3, <1>7, LoopMoves DEF NoLoopAlive
<1>9. LoopCalm(l)
    BY <1>1, <1>3, <1>5, <1>8 DEF LoopCalm
<1>10. /\ eng.status = "running" /\ exp.status = "running" /\ eng.task = 0
    BY <1>1, <1>2 DEF CommandGoes
<1>11. HasLease
    BY <1>1, <1>2, <1>10 DEF Leased, HasLease, Active
<1>. QED
    BY <1>4, <1>9, <1>10, <1>11, NextTaskCalm DEF Unbegun

LEMMA CmdResumeCalm ==
    ASSUME CalmStep, ~rushed', CmdResume
    PROVE  Composed'
<1> DEFINE ok == IF tok # 0 /\ lease = tok THEN 1 ELSE 0
<1>1. /\ UNCHANGED <<exp, eng, loop, abt, pse, rcv, lease, tok, owner>> /\ cmd = NoCmd /\ Quiet
      /\ cmd' = [NoCmd EXCEPT !.kind = "resume", !.pc = "verifying", !.k = tok, !.res = ok]
      /\ exp.status = "paused" /\ eng.status = "paused"
    BY ResumedQuietly DEF CmdResume, durable
<1>2. CmdCalm /\ cmd.pc = "off"
    BY <1>1, QuietIs, NothingInFlight DEF CmdCalm
<1>3. Leased /\ RowTells /\ WellKept(eng) /\ NoLoopAlive'
    BY <1>2, CmdCalmIs
<1>4. lease = tok /\ tok # 0
    BY <1>1, <1>2, <1>3 DEF Leased, Active
<1>5. ok = 1
    BY <1>4
<1>. HIDE DEF ok
<1>6. cmd'.pc = "verifying" /\ cmd'.res = ok
    BY <1>1 DEF NoCmd
<1>7. Leased'
    <2>1. owner' <=> tok' # 0
        BY <1>1, <1>3 DEF Leased
    <2>. QED
        BY <1>1, <1>3, <1>4, <1>6, <2>1 DEF Leased, AtRest
<1>8. RowTells' /\ WellKept(eng)'
    BY <1>1, <1>3 DEF RowTells, Terminal
<1>9. CommandGoes'
    BY <1>1, <1>5, <1>6 DEF CommandGoes
<1>. QED
    BY <1>2, <1>7, <1>8, <1>9, CommandCalm

LEMMA CmdVerifiedCalm ==
    ASSUME CalmStep, CmdVerified
    PROVE  Composed'
<1>1. /\ UNCHANGED <<loop, abt, pse, rcv, lease, owner>> /\ cmd.pc = "verifying" /\ cmd.pc # "off"
    BY DEF CmdVerified
<1>2. CmdCalm
    BY <1>1, UnderWay
<1>3. /\ Kept /\ Following /\ PlainStep /\ Leased /\ CommandGoes /\ WellKept(eng)
      /\ exp.rev \in Nat /\ eng \in Engines /\ cmd \in CmdTypeOf(fence) /\ pse = {}
    BY <1>2, CmdCalmIs
<1>4. cmd.res # 0 /\ eng.status = "paused"
    BY <1>1, <1>3 DEF CommandGoes
<1>5. \A l \in Loops : loop[l].pc = "off"
    BY <1>2 DEF CmdCalm, NoLoopAlive
<1>6. Together
    <2>1. ~Disordered
        BY <1>5 DEF Disordered, Undone
    <2>. QED
        BY <1>3, <1>4, <2>1 DEF Kept, InStep, Active
<1>7. /\ lease = tok /\ tok # 0 /\ cmd.k = tok /\ exp.status \in Active /\ prev = exp.rev
    <2>1. ~Pending
        BY <1>1, <1>5 DEF Pending, Awaiting
    <2>2. Hands(cmd)
        BY <1>1, <1>4 DEF Hands
    <2>. QED
        BY <1>3, <1>6, <2>1, <2>2 DEF Together, Latest
<1>8. PICK res : /\ eng' = Resumed(eng) /\ Sync(Resumed(eng), prev, res) /\ tok' = cmd.k
                 /\ cmd' = [cmd EXCEPT !.pc = "resuming", !.res = res, !.pre = eng]
    BY <1>4 DEF CmdVerified
<1> DEFINE e == Resumed(eng)
           rev == prev
<1>9. Resting(eng)
    BY <1>3, PlainStepIs
<1>10. e \in Engines
    BY <1>3, <1>8, PlainStepIs
<1>11. WellKept(e) /\ e.status = "running" /\ e.task = 0
    BY <1>3, <1>4, <1>9, ResumedWell
<1>12. owner' = TRUE
    <2>1. owner \in BOOLEAN
        BY <1>3, PlainStepIs DEF Grounded, TabGrounded
    <2>. QED
        BY <1>1, <1>3, <1>7, <2>1 DEF Leased
<1>13. lease' = tok' /\ tok' # 0 /\ exp.status # "none" /\ rev = exp.rev /\ eng' = e /\ Sync(e, rev, res)
    BY <1>1, <1>7, <1>8 DEF Active
<1>14. cmd'.pc = "resuming"
    BY <1>3, <1>8 DEF CmdTypeOf
<1>. HIDE DEF e, rev
<1>. QED
    BY <1>2, <1>10, <1>11, <1>12, <1>13, <1>14, CommandRuns

LEMMA CmdStepCalm ==
    ASSUME CalmStep, CmdStep
    PROVE  Composed'
<1>1. ~CmdChecked
    BY CalmStepIs, PlainStepIs DEF CmdChecked, Kept, CommandSure
<1>. QED
    BY <1>1, CmdAcquireCalm, CmdAcquiredCalm, CmdCreatedCalm, CmdPlannedCalm, CommandEndsCalm,
       CmdVerifiedCalm DEF CmdStep

-----------------------------------------------------------------------------
(* Its user, and everything else.                                          *)

\* A tab that works on nothing has an abort or a pause of its experiment
\* written down at once.
LEMMA UserAbortsCalm ==
    ASSUME CalmStep, UserAborts
    PROVE  Composed'
<1>1. /\ PlainStep /\ Kept /\ Grounded /\ Undisturbed /\ Leased /\ RowTells /\ CommandGoes
      /\ eng \in Engines /\ exp.rev \in Nat /\ prev \in Nat /\ Resting(eng) /\ rcv = NoRcv
      /\ pse = {}
    BY CalmStepIs, PlainStepIs
<1>2. /\ AbortStarts /\ exp.status \in Active /\ abt.pc = "off" /\ UNCHANGED <<cmd, rcv, pse, prev>>
    BY DEF UserAborts, Shown, AbortStarts, Active
<1>3. cmd.pc = "off" /\ NoLoopAlive
    <2>1. ~Busy({})
        BY DEF UserAborts, Hasty, CalmStep, Calm
    <2>. QED
        BY <2>1 DEF Busy, NoLoopAlive
<1>4. exp.status = "paused" /\ eng.status = "paused" /\ eng.task = 0
    BY <1>1, <1>2, <1>3 DEF RowTells, Active, Resting
<1>5. AbortEngine
    BY <1>2, <1>4 DEF AbortStarts, ActiveRun
<1> DEFINE e == Aborted(eng)
<1>6. e.status \in Terminal /\ NothingOpen(e.att) /\ WellKept(e)
    BY <1>1, <1>4, AbortedWell DEF Active
<1>7. PICK res : /\ eng' = e /\ Sync(e, prev, res) /\ UNCHANGED <<lease, tok, owner>>
                 /\ abt' = [NoAbt EXCEPT !.pc = "syncing", !.res = res]
    BY <1>4, <1>5 DEF AbortEngine
<1>8. e \in Engines
    BY <1>1, <1>7, PlainStepIs
<1>. HIDE DEF e
<1>9. prev = exp.rev
    <2>1. ~Disordered /\ ~Pending
        BY <1>3 DEF Disordered, Undone, Pending, Awaiting, NoLoopAlive
    <2>2. Together
        BY <1>1, <1>4, <2>1 DEF Kept, InStep, Active
    <2>. QED
        BY <1>1, <2>1, <2>2 DEF Together, Latest
<1>10. exp'.status \in Terminal /\ NothingOpen(exp'.att)
    BY <1>1, <1>4, <1>6, <1>7, <1>8, <1>9, SyncSure DEF Terminal
<1>11. abt'.pc = "syncing" /\ cmd'.pc = "off"
    BY <1>2, <1>3, <1>7 DEF NoAbt
<1>12. \A l \in Loops : loop'[l].pc = "off"
    <2>1. \A l \in Loops : loop'[l] \in {loop[l], [loop[l] EXCEPT !.sig = TRUE]}
        BY <1>2 DEF AbortStarts
    <2>2. \A l \in Loops : [loop[l] EXCEPT !.sig = TRUE].pc = "off"
        BY <1>1, <1>3, LoopFields DEF NoLoopAlive, LoopTypeOf
    <2>. QED
        BY <1>3, <2>1, <2>2 DEF NoLoopAlive
<1>13. Undisturbed'
    BY <1>1, <1>2, <1>10, <1>11, <1>12 DEF Undisturbed, NoLoopAlive
<1>14. Leased'
    <2>1. lease' = tok'
        BY <1>1, <1>3, <1>7 DEF Leased
    <2>2. owner' <=> tok' # 0
        BY <1>1, <1>7 DEF Leased
    <2>3. exp'.status \notin Active /\ NoLoopAlive'
        BY <1>10, <1>12 DEF Active, Terminal, NoLoopAlive
    <2>. QED
        BY <1>11, <2>1, <2>2, <2>3 DEF Leased, AtRest
<1>15. RowTells'
    <2>1. NothingOpen(exp.att)'
        BY <1>10 DEF NothingOpen
    <2>. QED
        BY <1>10, <2>1 DEF RowTells, Terminal
<1>16. CommandGoes'
    BY <1>11 DEF CommandGoes
<1>17. WellKept(eng)'
    BY <1>6, <1>7
<1>18. \A l \in Loops : Goes(loop[l])'
    BY <1>12 DEF Goes, Awaiting, AtWork
<1>. QED
    BY <1>13, <1>14, <1>15, <1>16, <1>17, <1>18 DEF Composed

\* What was aborted is over, and the lease is given back.
LEMMA AbortEndsCalm ==
    ASSUME CalmStep, AbortEnds
    PROVE  Composed'
<1>1. /\ Undisturbed /\ Leased /\ RowTells /\ WellKept(eng) /\ rcv = NoRcv /\ pse = {}
    BY CalmStepIs
<1>2. /\ abt.pc = "syncing" /\ abt' = NoAbt /\ Release /\ UNCHANGED <<exp, eng, loop, cmd, pse, rcv>>
    BY DEF AbortEnds
<1>3. NoLoopAlive /\ cmd.pc = "off" /\ exp.status \in Terminal
    BY <1>1, <1>2 DEF Undisturbed
<1>4. abt'.pc = "off" /\ NoLoopAlive'
    BY <1>2, <1>3, NothingInFlight DEF NoLoopAlive
<1>5. lease' = 0 /\ tok' = 0 /\ owner' = FALSE
    BY <1>1, <1>2, <1>3 DEF Leased, Release
<1>6. Undisturbed'
    BY <1>1, <1>2, <1>4 DEF Undisturbed
<1>7. Leased'
    <2>1. lease' = tok' /\ (owner' <=> tok' # 0) /\ exp'.status \notin Active
        BY <1>2, <1>3, <1>5 DEF Active, Terminal
    <2>. QED
        BY <1>4, <1>5, <2>1 DEF Leased
<1>8. RowTells'
    <2>1. NothingOpen(exp.att)'
        BY <1>1, <1>2, <1>3 DEF RowTells, NothingOpen
    <2>. QED
        BY <1>2, <1>3, <2>1 DEF RowTells, Terminal
<1>9. CommandGoes' /\ WellKept(eng)'
    BY <1>1, <1>2, <1>3 DEF CommandGoes
<1>10. \A l \in Loops : Goes(loop[l])'
    BY <1>4 DEF Goes, Awaiting, AtWork, NoLoopAlive
<1>. QED
    BY <1>6, <1>7, <1>8, <1>9, <1>10 DEF Composed

\* A task is being executed, after which its engine pauses.
LEMMA UserPausesCalm ==
    ASSUME CalmStep, UserPauses
    PROVE  Composed'
<1>1. /\ PlainStep /\ Grounded /\ Trusted /\ Undisturbed /\ Leased /\ RowTells /\ CommandGoes
      /\ WellKept(eng) /\ eng \in Engines /\ \A l \in Loops : Goes(loop[l])
    BY CalmStepIs, PlainStepIs
<1>2. /\ exp.status = "running" /\ eng' = PauseRequested(eng)
      /\ UNCHANGED <<loop, cmd, abt, rcv, lease, tok, owner, runs>>
    BY DEF UserPauses, Shown
<1>3. cmd.pc = "off" /\ \A l \in Loops : loop[l].pc \in {"off", "executing"}
    <2>1. ~Busy({"executing"})
        BY DEF UserPauses, Hasty, CalmStep, Calm
    <2>. QED
        BY <2>1 DEF Busy
<1>4. PICK l \in Loops : loop[l].pc = "executing"
    BY <1>1, <1>2, <1>3 DEF RowTells, NoLoopAlive
<1>5. eng.status = "running" /\ eng.task = loop[l].task
    BY <1>1, <1>4 DEF Goes, AtWork
<1>6. eng.task # 0
    <2>1. loop[l].task \in Tasks
        BY <1>1, <1>4, LoopFields DEF AtWork
    <2>. QED
        BY <1>5, <2>1 DEF Tasks
<1> DEFINE e == PauseRequested(eng)
<1>7. /\ WellKept(e) /\ e.status = "running" /\ e.task = eng.task /\ e.at = eng.at
      /\ e.att = eng.att
    BY <1>1, <1>5, <1>6, PausedWell
<1>8. UNCHANGED <<exp, pse>>
    BY <1>6 DEF UserPauses
<1>9. eng' = e
    BY <1>2
<1>. HIDE DEF e
<1>10. Undisturbed'
    BY <1>1, <1>2, <1>8 DEF Undisturbed, NoLoopAlive
<1>11. Leased'
    <2>1. owner' <=> tok' # 0
        BY <1>1, <1>2 DEF Leased
    <2>2. NoLoopAlive' <=> NoLoopAlive
        BY <1>2 DEF NoLoopAlive
    <2>. QED
        BY <1>1, <1>2, <1>8, <2>1, <2>2 DEF Leased, AtRest
<1>12. RowTells'
    BY <1>2, <1>4, <1>8 DEF RowTells, NoLoopAlive, Terminal
<1>13. CommandGoes' /\ WellKept(eng)'
    BY <1>2, <1>3, <1>7, <1>9 DEF CommandGoes
<1>14. ASSUME NEW m \in Loops PROVE Goes(loop[m])'
    <2>1. loop'[m] = loop[m] /\ loop[m].pc \in {"off", "executing"} /\ Goes(loop[m])
        BY <1>1, <1>2, <1>3
    <2>. QED
        BY <1>2, <1>5, <1>7, <1>8, <1>9, <2>1 DEF Goes, Awaiting, AtWork
<1>. QED
    BY <1>10, <1>11, <1>12, <1>13, <1>14 DEF Composed

\* The lease is that of the tab.
LEMMA LeaseIsHeld ==
    ASSUME CalmStep
    PROVE  lease = tok \/ (cmd.pc = "acquiring" /\ lease = cmd.k /\ lease # 0)
<1>1. Leased /\ Kept /\ Following
    BY CalmStepIs, PlainStepIs
<1>2. cmd.pc = "acquiring" => lease = cmd.k /\ cmd.k # 0
    BY <1>1, CmdIs DEF Kept, Prepared
<1>. QED
    BY <1>1, <1>2 DEF Leased

\* There is nothing to recover, and no lease to lose.
LEMMA RecoveryRests ==
    ASSUME CalmStep
    PROVE  ~Recovery /\ ~LeaseExpires /\ ~Close
<1>1. Leased /\ RowTells /\ Kept /\ Following /\ rcv.pc = "off"
    BY CalmStepIs, PlainStepIs, NothingInFlight
<1>2. ASSUME exp.status \in {"draft", "running", "paused"} PROVE lease # 0
    <2>1. CASE exp.status = "draft"
        <3>1. cmd.pc = "creating"
            BY <1>1, <2>1 DEF RowTells
        <3>. QED
            BY <1>1, <3>1, CmdIs DEF Kept, Prepared
    <2>2. CASE exp.status \in Active
        <3>1. tok # 0
            BY <1>1, <2>2 DEF Leased
        <3>. QED
            BY <3>1, LeaseIsHeld
    <2>. QED
        BY <1>2, <2>1, <2>2 DEF Active
<1>3. ~Recovery
    BY <1>1, <1>2 DEF Recovery, RcvStart, RcvRead, RcvSettle, RcvWrite, RcvEnd
<1>4. ~LeaseExpires
    BY LeaseIsHeld DEF LeaseExpires, CalmStep, Calm
<1>5. ~Close
    BY DEF Close, CalmStep, Calm
<1>. QED
    BY <1>3, <1>4, <1>5

LEMMA ControlCalm ==
    ASSUME CalmStep, Control
    PROVE  Composed'
<1>1. Undisturbed /\ pse = {} /\ Kept
    BY CalmStepIs, PlainStepIs
<1>2. ~AbortRead /\ ~AbortFinalized /\ ~PauseEnds
    BY <1>1 DEF AbortRead, AbortFinalized, PauseEnds, Undisturbed
<1>3. ~LeaseNoticed
    <2>1. cmd.pc = "acquiring" => cmd.kind \in {"start", "retry", "plan"}
        BY <1>1 DEF Kept, Prepared, Prepares
    <2>. QED
        BY <2>1, LeaseIsHeld DEF LeaseNoticed
<1>. QED
    BY <1>2, <1>3, AbortEndsCalm DEF Control

LEMMA NothingHappensCalm ==
    ASSUME CalmStep, UNCHANGED vars
    PROVE  Composed'
<1>1. UNCHANGED <<exp, runs, lease, eng, tok, owner, loop, cmd, abt, pse, rcv>>
    BY DEF vars, durable
<1>2. /\ Undisturbed /\ Leased /\ RowTells /\ CommandGoes /\ WellKept(eng)
      /\ \A l \in Loops : Goes(loop[l])
    BY CalmStepIs
<1>3. (NoLoopAlive' <=> NoLoopAlive) /\ (NothingOpen(exp.att)' <=> NothingOpen(exp.att))
    BY <1>1 DEF NoLoopAlive, NothingOpen
<1>4. Undisturbed'
    BY <1>1, <1>2, <1>3 DEF Undisturbed
<1>5. Leased'
    <2>1. owner' <=> tok' # 0
        BY <1>1, <1>2 DEF Leased
    <2>. QED
        BY <1>1, <1>2, <1>3, <2>1 DEF Leased, AtRest
<1>6. RowTells' /\ CommandGoes' /\ WellKept(eng)'
    BY <1>1, <1>2, <1>3 DEF RowTells, CommandGoes
<1>7. ASSUME NEW l \in Loops PROVE Goes(loop[l])'
    <2>1. Goes(loop[l]) /\ loop'[l] = loop[l]
        BY <1>1, <1>2
    <2>. QED
        BY <1>1, <2>1 DEF Goes
<1>. QED
    BY <1>4, <1>5, <1>6, <1>7 DEF Composed

LEMMA NextCalm ==
    ASSUME CalmStep, ~rushed', [Next]_vars
    PROVE  Composed'
<1>1. CASE User
    BY <1>1, UserAbortsCalm, UserPausesCalm, CmdResumeCalm, CmdReadCalm DEF User
<1>2. CASE \E l \in Loops : LoopStep(l)
    BY <1>2, LoopStepCalm
<1>3. CASE CmdStep \/ Control \/ UNCHANGED vars
    BY <1>3, CmdStepCalm, ControlCalm, NothingHappensCalm
<1>. QED
    BY <1>1, <1>2, <1>3, RecoveryRests DEF Next

\* What has gone wrong once stays so.
LEMMA CalmLasts ==
    ASSUME Grounded, [Next]_vars
    PROVE  Calm' => Calm
<1>1. faults \in Nat
    BY GroundedTypes
<1>2. ASSUME Strikes, Hastens PROVE Calm' => Calm
    BY <1>1, <1>2 DEF Strikes, Hastens, Calm
<1>3. CASE UNCHANGED vars \/ LeaseExpires \/ Close
    BY <1>3 DEF vars, durable, LeaseExpires, Close, Calm
<1>4. CASE \E l \in Loops : LoopStep(l)
    BY <1>2, <1>4, LoopStepStrikes DEF Hastens
<1>5. CASE CmdStep \/ Recovery
    BY <1>2, <1>5, CmdStepStrikes, RecoveryStrikes DEF Hastens
<1>6. CASE User \/ Control
    BY <1>2, <1>6, TabStrikes
<1>. QED
    BY <1>3, <1>4, <1>5, <1>6 DEF Next

LEMMA InitComposed ==
    ASSUME Init
    PROVE  Composed
<1>1. /\ exp = NoExp /\ lease = 0 /\ eng = NoEngine /\ tok = 0 /\ owner = FALSE /\ pse = {}
      /\ cmd = NoCmd /\ abt = NoAbt /\ rcv = NoRcv /\ \A l \in Loops : loop[l] = NoLoop
    BY DEF Init
<1>2. /\ \A l \in Loops : loop[l].pc = "off"
      /\ cmd.pc = "off" /\ abt.pc = "off" /\ eng.status = "none" /\ exp.status = "none"
    BY <1>1, NothingInFlight, ShapesLeave, NoRowFields
<1>3. NoLoopAlive /\ exp.status \notin Active \cup Terminal
    BY <1>2 DEF NoLoopAlive, Active, Terminal
<1>4. Undisturbed
    BY <1>1, <1>2, <1>3 DEF Undisturbed
<1>5. Leased
    <2>1. owner <=> tok # 0
        BY <1>1
    <2>. QED
        BY <1>1, <1>3, <2>1 DEF Leased
<1>6. RowTells /\ CommandGoes
    BY <1>2, <1>3 DEF RowTells, CommandGoes
<1>7. WellKept(eng)
    BY <1>2 DEF WellKept, Active, Terminal
<1>8. \A l \in Loops : Goes(loop[l])
    BY <1>2 DEF Goes, Awaiting, AtWork
<1>. QED
    BY <1>4, <1>5, <1>6, <1>7, <1>8 DEF Composed

\* A tab that rests has nothing left to do.
LEMMA ComposedSettles ==
    ASSUME Following, Calm => Composed
    PROVE  IdleIsSettled
<1> SUFFICES ASSUME Idle, Calm
             PROVE  /\ exp.status \in Terminal \cup {"paused", "none"}
                    /\ exp.status \in Terminal => lease = 0 /\ ~owner
                    /\ exp.status \in Terminal => NothingOpen(exp.att)
    BY DEF IdleIsSettled, Calm, NothingOpen
<1>1. Leased /\ RowTells /\ exp \in ExpRow
    BY FollowingIs DEF Composed
<1>2. NoLoopAlive /\ abt.pc = "off" /\ cmd.pc = "off"
    <2>1. Quiet
        BY DEF Idle
    <2>. QED
        BY <2>1, QuietIs DEF Quiet, Busy
<1>3. exp.status \notin {"draft", "running"}
    BY <1>1, <1>2 DEF RowTells
<1>4. exp.status \in Terminal \cup {"paused", "none"}
    BY <1>1, <1>3 DEF ExpRow, ExpStatus, Terminal
<1>5. ASSUME exp.status \in Terminal PROVE lease = 0 /\ ~owner
    <2>1. exp.status \notin Active
        BY <1>5 DEF Active, Terminal
    <2>2. tok = 0
        BY <1>1, <1>2, <2>1 DEF Leased, AtRest
    <2>. QED
        BY <1>1, <1>2, <2>2 DEF Leased
<1>6. exp.status \in Terminal => NothingOpen(exp.att)
    BY <1>1 DEF RowTells
<1>. QED
    BY <1>4, <1>5, <1>6

\* A tab where nothing failed, was lost, was interrupted halfway or was
\* commanded while it had something to do, and that rests, leaves its
\* experiment over or paused: over, it has given the lease and the ownership
\* back, and no attempt is left queued or running.
THEOREM IdleSettles == Spec => []IdleIsSettled
<1> DEFINE Inv ==
        Grounded /\ (~rushed => Following /\ (Plain => Kept) /\ (Calm => Composed))
<1>1. Init => Inv
    BY InitGrounded, InitTrusted, InitRemembers, InitFollowed, InitKept, InitComposed
    DEF Following, Remembering
<1>2. Inv /\ [Next]_vars => Inv'
    <2> SUFFICES ASSUME Inv, [Next]_vars PROVE Inv'
        OBVIOUS
    <2>1. Grounded'
        BY NextGrounded
    <2>2. ASSUME ~rushed' PROVE Following' /\ (Plain' => Kept') /\ (Calm' => Composed')
        <3>1. Following /\ (Plain => Kept) /\ (Calm => Composed)
            BY <2>2, RushedStays
        <3>2. Following' /\ (Plain' => Kept')
            BY <2>2, <3>1, KeepsOn
        <3>3. (Plain' => Plain) /\ (Calm' => Calm)
            BY <3>1, FollowingIs, LosesNothing, CalmLasts
        <3>4. Plain' => PlainStep
            BY <3>1, <3>2, <3>3 DEF PlainStep
        <3>5. Calm' => Plain'
            BY DEF Calm, Plain
        <3>6. Calm' => CalmStep
            BY <3>1, <3>2, <3>3, <3>4, <3>5 DEF CalmStep
        <3>7. Calm' => Composed'
            BY <2>2, <3>6, NextCalm
        <3>. QED
            BY <3>2, <3>7
    <2>. QED
        BY <2>1, <2>2
<1>3. Inv => IdleIsSettled
    BY ComposedSettles DEF IdleIsSettled
<1>. QED
    BY <1>1, <1>2, <1>3, PTL DEF Spec
=============================================================================
