---------------------------- MODULE EvidenceIndex ----------------------------
(***************************************************************************)
(* The evidence index: observations derived from the committed runs of one *)
(* task of an experiment, by two mechanisms that share the stores.         *)
(*                                                                         *)
(*   - the derivation queue of a page (derive-observations.ts): a commit   *)
(*     enqueues a job, a drain claims it, derives, and finalizes it if the *)
(*     claim still stands;                                                 *)
(*   - the reindex pass a page runs at startup (evidence-reindex.ts),      *)
(*     under a lease of its own, which overwrites whatever marker it finds.*)
(*                                                                         *)
(* Runs are numbered in the order of their commits and their revision does *)
(* not change afterwards.  The derivation of a run reads which run the     *)
(* task has selected NOW: what it yields depends on what was committed     *)
(* since.  Time is abstracted: any claim and any lease may be found to have *)
(* been without a heartbeat for too long, its holder gone or suspended.    *)
(***************************************************************************)
EXTENDS Naturals, FiniteSets

CONSTANTS Pages,        \* browser tabs, each with a queue and a reindex pass
          Cells,        \* the models of a run, one observation each
          Nobody,       \* no owner; also the owner id of a page that is gone
          MaxCommits,   \* bound: committed runs
          MaxTrouble    \* bound: crashes and storage faults, together

ASSUME CellsAssumption == IsFiniteSet(Cells)
ASSUME MaxCommitsAssumption == MaxCommits \in Nat
ASSUME MaxTroubleAssumption == MaxTrouble \in Nat

VARIABLES commits,      \* how many runs are committed
          selected,     \* the run the task has selected, 0 for none
          rotated,      \* runs up to this one carry an older fingerprint
          job,          \* the marker row of each run
          obs,          \* the observations stored under each run
          passLease,    \* the storage lease of the reindex
          page,         \* per page: open, events to enqueue, drains due
          queue,        \* per page: the drain
          listed,       \* per page: the jobs its drain has listed and not tried
          pass,         \* per page: the reindex pass
          work,         \* per page and mechanism: the derivation under way
          trouble       \* crashes and faults so far

sources   == <<commits, selected, rotated>>
drains    == <<queue, listed>>
indexVars == <<sources, job, obs, passLease, page, drains, pass, work, trouble>>

AllRuns == 1..MaxCommits
Owners  == Pages \cup {Nobody}
Counts  == 0..Cardinality(Cells)
Workers == Pages \X {"queue", "pass"}

NoJob   == [status |-> "none", owner |-> Nobody]
Free    == [held |-> FALSE, owner |-> Nobody]
NoPass  == [pc |-> "done", list |-> {}]
NoWork  == [src |-> 0, todo |-> {}, count |-> 0, failed |-> FALSE]
NewPage == [open |-> TRUE, events |-> {}, due |-> 0]

Marker     == [status : {"none", "queued", "running", "complete", "error"},
               owner : Owners]
PageState  == [open : BOOLEAN, events : SUBSET AllRuns, due : Nat]
PassState  == [pc : {"start", "next", "derive", "mark", "done"}, list : SUBSET AllRuns]
Derivation == [src : 0..MaxCommits, todo : SUBSET (Cells \X AllRuns),
               count : Counts, failed : BOOLEAN]

IndexTypeOK ==
    /\ commits \in 0..MaxCommits /\ selected \in 0..commits /\ rotated \in 0..commits
    /\ job \in [AllRuns -> Marker]
    /\ obs \in [AllRuns -> SUBSET (Cells \X AllRuns)]
    /\ passLease \in [held : BOOLEAN, owner : Owners]
    /\ page \in [Pages -> PageState]
    /\ queue \in [Pages -> {"idle", "list", "claim", "derive"}]
    /\ listed \in [Pages -> SUBSET AllRuns]
    /\ pass \in [Pages -> PassState]
    /\ work \in [Workers -> Derivation]
    /\ trouble \in 0..MaxTrouble

IndexInit ==
    /\ commits = 0 /\ selected = 0 /\ rotated = 0
    /\ job = [r \in AllRuns |-> NoJob]
    /\ obs = [r \in AllRuns |-> {}]
    /\ passLease = Free
    /\ page = [p \in Pages |-> NewPage]
    /\ queue = [p \in Pages |-> "idle"]
    /\ listed = [p \in Pages |-> {}]
    /\ pass = [p \in Pages |-> [NoPass EXCEPT !.pc = "start"]]
    /\ work = [w \in Workers |-> NoWork]
    /\ trouble = 0

Fault == trouble < MaxTrouble /\ trouble' = trouble + 1

-----------------------------------------------------------------------------
(* The sources.                                                            *)

\* The terminal commit of the next run, by whichever page executes it: a page
\* announces what it has committed to its own queue.  A run without usable
\* results is neither selected nor announced; of two usable ones the task
\* keeps either.
Commit(p) ==
    /\ page[p].open /\ commits < MaxCommits
    /\ commits' = commits + 1
    /\ \/ UNCHANGED <<selected, page>>
       \/ /\ selected' \in IF selected = 0 THEN {commits'} ELSE {commits', selected}
          /\ page' = [page EXCEPT ![p].events = @ \cup {commits'}]
    /\ UNCHANGED <<rotated, job, obs, passLease, drains, pass, work, trouble>>

\* A model is added to the experiment: its protocol fingerprint changes, and
\* the runs committed so far no longer match it.
AddModel ==
    /\ selected > rotated
    /\ rotated' = commits
    /\ UNCHANGED <<commits, selected, job, obs, passLease, page, drains, pass, work, trouble>>

-----------------------------------------------------------------------------
(* The marker rows: evidence-repository.ts.                                *)

\* applyJobCas at the stored revision.
Accepts(row, status) ==
    /\ ~(row.status = "complete" /\ status # "complete")
    /\ ~(row.status = "running" /\ status = "queued")

\* putIndexJob; an accepted marker carries no claim.
PutJob(r, status) ==
    job' = IF Accepts(job[r], status)
           THEN [job EXCEPT ![r] = [NoJob EXCEPT !.status = status]]
           ELSE job

\* recoverStaleIndexJobs: the claims found stale go back to the queue.
Recover ==
    \E stale \in SUBSET {r \in AllRuns : job[r].status = "running"} :
        job' = [r \in AllRuns |-> IF r \in stale THEN [NoJob EXCEPT !.status = "queued"]
                                                ELSE job[r]]

QueuedJobs == {r \in AllRuns : job[r].status = "queued"}

\* Mutant: the claim is looked for in the state it was claimed from.
HoldsListed(p, r) == job[r].status = "queued" /\ job[r].owner = p

Holds(p, r) == job[r].status = "running" /\ job[r].owner = p

-----------------------------------------------------------------------------
(* deriveObservationsForSource, for the queue and the pass alike.          *)

\* The cells of a derivation of run r, each with the run whose attempt it
\* describes.  The selection is that of the task, the integrity check that of
\* the fingerprint; a candidate id is that of the slot and so the same in
\* every run, but its judge attempt is looked up in r itself.
Derived(r) == IF selected > rotated /\ selected = r THEN Cells \X {r} ELSE {}

\* A derivation starts with its reads, and commutes with a commit up to them.
Begin(w, r) ==
    LET cells == Derived(r) IN
    work' = [work EXCEPT ![w] = [NoWork EXCEPT !.src = r, !.todo = cells,
                                               !.count = Cardinality(cells)]]

\* The model configuration, the observation and the decision of one cell.  A
\* row that is already there is the same row.
DeriveWrite(w) ==
    /\ \E c \in work[w].todo :
           /\ obs' = [obs EXCEPT ![work[w].src] = @ \cup {c}]
           /\ work' = [work EXCEPT ![w].todo = @ \ {c}]
    /\ UNCHANGED <<sources, job, passLease, page, drains, pass, trouble>>

\* Mutant: the fault is swallowed and the result says complete.
FailedSilently(k) == [k EXCEPT !.todo = {}]

\* failed(...)
FailedWork(k) == [k EXCEPT !.todo = {}, !.count = 0, !.failed = TRUE]

\* A storage fault is caught and becomes an error result.
DeriveFails(w) ==
    /\ work[w].src # 0 /\ ~work[w].failed /\ Fault
    /\ w[2] = "pass" => pass[w[1]].pc = "derive"
    /\ work' = [work EXCEPT ![w] = FailedWork(@)]
    /\ UNCHANGED <<sources, job, obs, passLease, page, drains, pass>>

-----------------------------------------------------------------------------
(* The derivation queue of page p.                                         *)

\* persistThenEnqueue; a marker that was written makes a drain due.
Enqueue(p, r) ==
    /\ r \in page[p].events
    /\ PutJob(r, "queued")
    /\ page' = [page EXCEPT ![p].events = @ \ {r},
                            ![p].due = IF Accepts(job[r], "queued") THEN @ + 1 ELSE @]
    /\ UNCHANGED <<sources, obs, passLease, drains, pass, work, trouble>>

\* A failed enqueue is swallowed.
EnqueueFails(p, r) ==
    /\ r \in page[p].events /\ Fault
    /\ page' = [page EXCEPT ![p].events = @ \ {r}]
    /\ UNCHANGED <<sources, job, obs, passLease, drains, pass, work>>

\* A due drain starts: stale claims go back to the queue.
Drain(p) ==
    /\ queue[p] = "idle" /\ page[p].due > 0
    /\ page' = [page EXCEPT ![p].due = @ - 1]
    /\ Recover
    /\ queue' = [queue EXCEPT ![p] = "list"]
    /\ UNCHANGED <<sources, obs, passLease, listed, pass, work, trouble>>

\* processOne: the queued jobs are listed, whichever page announced them.
List(p) ==
    /\ queue[p] = "list"
    /\ queue' = [queue EXCEPT ![p] = "claim"]
    /\ listed' = [listed EXCEPT ![p] = QueuedJobs]
    /\ UNCHANGED <<sources, job, obs, passLease, page, pass, work, trouble>>

\* claimIndexJob of a listed job, in a transaction of its own.  One that is
\* no longer queued is passed over.
Claim(p, r) ==
    /\ queue[p] = "claim" /\ r \in listed[p]
    /\ IF job[r].status = "queued"
       THEN /\ job' = [job EXCEPT ![r] = [NoJob EXCEPT !.status = "running", !.owner = p]]
            /\ queue' = [queue EXCEPT ![p] = "derive"]
            /\ listed' = [listed EXCEPT ![p] = {}]
            /\ Begin(<<p, "queue">>, r)
       ELSE /\ listed' = [listed EXCEPT ![p] = @ \ {r}]
            /\ UNCHANGED <<job, queue, work>>
    /\ UNCHANGED <<sources, obs, passLease, page, pass, trouble>>

\* finalizeIndexJob, and the next round of processOne.  A claim that was lost
\* ends the drain, and the jobs that are queued are left to others.
Finalize(p) ==
    LET k == work[<<p, "queue">>] IN
    /\ queue[p] = "derive" /\ k.todo = {}
    /\ work' = [work EXCEPT ![<<p, "queue">>] = NoWork]
    /\ IF Holds(p, k.src)
       THEN /\ PutJob(k.src, IF k.failed THEN "error" ELSE "complete")
            /\ queue' = [queue EXCEPT ![p] = "list"]
       ELSE /\ queue' = [queue EXCEPT ![p] = "idle"]
            /\ UNCHANGED job
    /\ UNCHANGED <<sources, obs, passLease, page, listed, pass, trouble>>

\* None of the listed jobs is left to try, or the storage fails in the
\* listing, in a claim or in a finalization.
DrainEnds(p) ==
    /\ \/ queue[p] = "claim" /\ listed[p] = {} /\ UNCHANGED trouble
       \/ queue[p] \in {"list", "claim"} /\ Fault
       \/ queue[p] = "derive" /\ work[<<p, "queue">>].todo = {} /\ Fault
    /\ queue' = [queue EXCEPT ![p] = "idle"]
    /\ listed' = [listed EXCEPT ![p] = {}]
    /\ work' = [work EXCEPT ![<<p, "queue">>] = NoWork]
    /\ UNCHANGED <<sources, job, obs, passLease, page, pass>>

-----------------------------------------------------------------------------
(* The reindex pass of page p.                                             *)

LeasedTo(p) == passLease.held /\ passLease.owner = p

PassEnds(p) ==
    /\ pass' = [pass EXCEPT ![p] = NoPass]
    /\ passLease' = IF LeasedTo(p) THEN Free ELSE passLease
    /\ work' = [work EXCEPT ![<<p, "pass">>] = NoWork]

\* tryAcquireLease, then listSources.  A lease that has not expired, whoever
\* holds it, keeps the pass from running, and it is not tried again.
PassAcquire(p) ==
    /\ page[p].open /\ pass[p].pc = "start"
    /\ \/ /\ passLease.held
          /\ pass' = [pass EXCEPT ![p] = NoPass]
          /\ UNCHANGED passLease
       \/ /\ passLease' = [held |-> TRUE, owner |-> p]
          /\ pass' = [pass EXCEPT ![p] = [pc |-> "next", list |-> 1..commits]]
    /\ UNCHANGED <<sources, job, obs, page, drains, work, trouble>>

\* The next source in order: the lease is renewed, which fails once another
\* page has taken it, the marker is read, and the derivation begins unless
\* the marker is complete.
PassNext(p) ==
    /\ pass[p].pc = "next"
    /\ IF pass[p].list = {} \/ ~LeasedTo(p)
       THEN PassEnds(p)
       ELSE \E r \in pass[p].list :
            /\ \A x \in pass[p].list : r <= x
            /\ UNCHANGED passLease
            /\ IF job[r].status = "complete"
               THEN pass' = [pass EXCEPT ![p].list = @ \ {r}] /\ UNCHANGED work
               ELSE /\ pass' = [pass EXCEPT ![p].pc = "derive", ![p].list = @ \ {r}]
                    /\ Begin(<<p, "pass">>, r)
    /\ UNCHANGED <<sources, job, obs, page, drains, trouble>>

\* Marker-after-verify: the rows stored under the source are counted.
Verified(k) == ~k.failed /\ Cardinality(obs[k.src]) = k.count

\* A derivation that failed or does not match its rows leaves an error
\* marker; of the others the pass goes on to write the complete one.
PassVerify(p) ==
    LET k == work[<<p, "pass">>] IN
    /\ pass[p].pc = "derive" /\ k.todo = {}
    /\ IF Verified(k)
       THEN pass' = [pass EXCEPT ![p].pc = "mark"] /\ UNCHANGED <<job, work>>
       ELSE /\ PutJob(k.src, "error")
            /\ pass' = [pass EXCEPT ![p].pc = "next"]
            /\ work' = [work EXCEPT ![<<p, "pass">>] = NoWork]
    /\ UNCHANGED <<sources, obs, passLease, page, drains, trouble>>

\* The complete marker, unless a heartbeat has found the lease lost: a pass
\* that lost it since its last heartbeat writes the marker all the same.
PassMark(p) ==
    LET k == work[<<p, "pass">>] IN
    /\ pass[p].pc = "mark"
    /\ \/ ~LeasedTo(p) /\ PassEnds(p) /\ UNCHANGED job
       \/ /\ PutJob(k.src, "complete")
          /\ pass' = [pass EXCEPT ![p].pc = "next"]
          /\ work' = [work EXCEPT ![<<p, "pass">>] = NoWork]
          /\ UNCHANGED passLease
    /\ UNCHANGED <<sources, obs, page, drains, trouble>>

\* A fault in a write of a marker: the error marker is tried, and may fail
\* as well.  A fault before the derivation ends the pass.
PassFails(p) ==
    LET k == work[<<p, "pass">>] IN
    /\ Fault
    /\ \/ /\ pass[p].pc = "mark" \/ (pass[p].pc = "derive" /\ k.todo = {})
          /\ PutJob(k.src, "error") \/ UNCHANGED job
          /\ pass' = [pass EXCEPT ![p].pc = "next"]
          /\ work' = [work EXCEPT ![<<p, "pass">>] = NoWork]
          /\ UNCHANGED passLease
       \/ pass[p].pc = "next" /\ PassEnds(p) /\ UNCHANGED job
    /\ UNCHANGED <<sources, obs, page, drains>>

-----------------------------------------------------------------------------
(* Pages come and go.  A page that is opened again has a new owner id.     *)

Gone(row, p) == IF row.owner = p THEN [row EXCEPT !.owner = Nobody] ELSE row

PageCrash(p) ==
    /\ page[p].open /\ Fault
    /\ page' = [page EXCEPT ![p] = [NewPage EXCEPT !.open = FALSE]]
    /\ queue' = [queue EXCEPT ![p] = "idle"]
    /\ listed' = [listed EXCEPT ![p] = {}]
    /\ pass' = [pass EXCEPT ![p] = NoPass]
    /\ work' = [w \in Workers |-> IF w[1] = p THEN NoWork ELSE work[w]]
    /\ job' = [r \in AllRuns |-> Gone(job[r], p)]
    /\ passLease' = Gone(passLease, p)
    /\ UNCHANGED <<sources, obs>>

PageOpens(p) ==
    /\ ~page[p].open
    /\ page' = [page EXCEPT ![p].open = TRUE]
    /\ pass' = [pass EXCEPT ![p].pc = "start"]
    /\ UNCHANGED <<sources, job, obs, passLease, drains, work, trouble>>

QueueStep(p) ==
    \/ \E r \in AllRuns : Enqueue(p, r) \/ Claim(p, r)
    \/ Drain(p) \/ List(p) \/ Finalize(p) \/ DrainEnds(p)

IndexNext ==
    \/ AddModel
    \/ \E w \in Workers : DeriveWrite(w) \/ DeriveFails(w)
    \/ \E p \in Pages :
           \/ Commit(p) \/ QueueStep(p)
           \/ \E r \in AllRuns : EnqueueFails(p, r)
           \/ PassAcquire(p) \/ PassNext(p) \/ PassVerify(p)
           \/ PassMark(p) \/ PassFails(p)
           \/ PageCrash(p) \/ PageOpens(p)

IndexSpec == IndexInit /\ [][IndexNext]_indexVars

-----------------------------------------------------------------------------
(* Properties.                                                             *)

\* A complete marker accounts for what is stored.  Either every cell of the
\* run has its observation, or the derivation found the run no longer to be
\* the source of the task: superseded, or of an older fingerprint.  Claims
\* that were lost, faults and overlapping passes never leave a complete
\* marker over missing rows.
CompleteIsAccounted ==
    \A r \in AllRuns :
        job[r].status = "complete" =>
            Cells \X {r} \subseteq obs[r] \/ selected # r \/ r <= rotated

\* The observations stored under a run describe attempts of that run, also
\* when the task had selected another one by the time it was derived.
OnlyOwnEvidence == \A r \in AllRuns : obs[r] \subseteq Cells \X {r}

\* A complete marker stays, whatever duplicate event, late failure or second
\* pass arrives: the source is not derived again at this revision.
CompleteStays ==
    [][\A r \in AllRuns : job[r].status = "complete" => job'[r].status = "complete"]_indexVars
=============================================================================
