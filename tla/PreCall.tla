------------------------------- MODULE PreCall -------------------------------
(* What must be durable before a Compare run calls a model                   *)
(* (pre-call-persistence.ts, runFanout of run-controller.ts), and the        *)
(* comparison index it creates (comparison-repository.ts).  A start is a     *)
(* chain of transactions, each of which may fail; in between the tab may     *)
(* lose its lease or be closed, and the user may press Run again, which      *)
(* supersedes the start under way and is itself refused the lease.           *)
EXTENDS Integers

CONSTANTS MaxStarts,   \* bound: how often Run is pressed
          MaxTrouble   \* bound: faults and lost leases of one start

ASSUME PreCallAssumption == MaxStarts \in Nat /\ MaxTrouble \in Nat

VARIABLES start,     \* per start: how far it is
          canonical, \* per start: bound to a version of a task
          row,       \* per start: status of its run in the database
          instance,  \* per start: its task instance is stored
          index,     \* per start: its comparison index
          paid,      \* the starts whose models were called
          pressed,   \* runEpoch: the latest start, or a number above all
          holder,    \* the start that holds the lease, 0 none, Elsewhere
          trouble,   \* per start: faults and lost leases it met
          rebuild    \* the index that a rebuild has read, in the memory of a page

preVars == <<start, canonical, row, instance, index, paid, pressed, holder,
             trouble, rebuild>>

Starts    == 1 .. MaxStarts
Elsewhere == -1
Stage     == {"none", "lease", "begin", "instance", "read", "envelope",
              "compensate", "execute", "executing", "blocked", "failed", "over"}
RunRow    == {"none", "running", "aborted", "settled", "interrupted"}
NoIndex   == [status |-> "none", bound |-> FALSE, rev |-> 0]
NoRebuild == [of |-> 0, to |-> "none", seen |-> NoIndex]

PreInit ==
    /\ start = [r \in Starts |-> "none"]
    /\ canonical \in [Starts -> BOOLEAN]
    /\ row = [r \in Starts |-> "none"]
    /\ instance = [r \in Starts |-> FALSE]
    /\ index = [r \in Starts |-> NoIndex]
    /\ paid = {}
    /\ pressed = 0
    /\ holder = 0
    /\ trouble = [r \in Starts |-> 0]
    /\ rebuild = NoRebuild

InFlight(r) == start[r] \notin {"none", "blocked", "failed", "over"}
Goes(r, s)  == start' = [start EXCEPT ![r] = s]
MayFail     == \A r \in Starts : trouble[r] < MaxTrouble
Faulted(r)  == MayFail /\ trouble' = [trouble EXCEPT ![r] = @ + 1]

(* The end of a command, releaseSharedLease: only the token that is held.    *)
Ends(r, s) == Goes(r, s) /\ holder' = IF holder = r THEN 0 ELSE holder

-----------------------------------------------------------------------------
(* runFanout: the epoch is raised, then the lease is asked for.  The pane    *)
(* refuses while it shows that a run is executing, and not before.           *)
PressRun(r) ==
    /\ start[r] = "none"
    /\ \A q \in Starts : start[q] # "executing" /\ (q < r => start[q] # "none")
    /\ pressed' = r
    /\ Goes(r, "lease")
    /\ UNCHANGED <<canonical, row, instance, index, paid, holder, trouble, rebuild>>

Acquire(r) ==
    /\ start[r] = "lease"
    /\ IF holder = 0 THEN holder' = r /\ Goes(r, "begin")
                     ELSE Goes(r, "blocked") /\ UNCHANGED holder
    /\ UNCHANGED <<canonical, row, instance, index, paid, pressed, trouble, rebuild>>

(* recorder.begin: the run is created if the lease is live in the same       *)
(* transaction.  When it fails there is nothing to compensate.               *)
AfterBeginNoTask(r) == "read"   \* mutant: the task instance is left out
AfterBegin(r) == IF canonical[r] THEN "instance" ELSE "read"

Begin(r) ==
    /\ start[r] = "begin"
    /\ \/ /\ holder = r
          /\ row' = [row EXCEPT ![r] = "running"]
          /\ Goes(r, AfterBegin(r))
          /\ UNCHANGED <<holder, trouble>>
       \/ /\ IF holder = r THEN Faulted(r) ELSE UNCHANGED trouble
          /\ Ends(r, "failed")
          /\ UNCHANGED row
    /\ UNCHANGED <<canonical, instance, index, paid, pressed, rebuild>>

(* A later step of the chain, and its failure, which leads to compensation.  *)
Fails(r) == Faulted(r) /\ Goes(r, "compensate")

(* getTaskVersion, getOrCreateTaskInstance.                                  *)
Instance(r) ==
    /\ start[r] = "instance"
    /\ \/ /\ instance' = [instance EXCEPT ![r] = TRUE]
          /\ Goes(r, "read")
          /\ UNCHANGED trouble
       \/ Fails(r) /\ UNCHANGED instance
    /\ UNCHANGED <<canonical, row, index, paid, pressed, holder, rebuild>>

(* recorder.getRecord, then createComparisonEnvelope from what was read.     *)
Read(r) ==
    /\ start[r] = "read"
    /\ (Goes(r, "envelope") /\ UNCHANGED trouble) \/ Fails(r)
    /\ UNCHANGED <<canonical, row, instance, index, paid, pressed, holder, rebuild>>

Envelope(r) ==
    /\ start[r] = "envelope"
    /\ \/ /\ index' = [index EXCEPT ![r] = [status |-> "running",
                                            bound |-> canonical[r], rev |-> 0]]
          /\ Goes(r, "execute")
          /\ UNCHANGED trouble
       \/ Fails(r) /\ UNCHANGED index
    /\ UNCHANGED <<canonical, row, instance, paid, pressed, holder, rebuild>>

(* recorder.markAborted under the fence of the start: best effort.           *)
CompensatedNot(r) == row   \* mutant: the run is left as it is
Compensated(r) == [row EXCEPT ![r] = "aborted"]

Compensate(r) ==
    /\ start[r] = "compensate"
    /\ Ends(r, "failed")
    /\ \/ /\ holder = r /\ row[r] = "running"
          /\ row' = Compensated(r)
          /\ UNCHANGED trouble
       \/ /\ IF holder = r THEN Faulted(r) ELSE UNCHANGED trouble
          /\ UNCHANGED row
    /\ UNCHANGED <<canonical, instance, index, paid, pressed, rebuild>>

(* ensureCurrent: the start is still the latest command, under its lease.    *)
IsCurrent(r) == pressed = r /\ holder = r

(* onFanoutStart and the first model calls; a start that is not current any  *)
(* more ends without a word, and without a trace in its run.                 *)
Execute(r) ==
    /\ start[r] = "execute"
    /\ IF IsCurrent(r)
       THEN /\ Goes(r, "executing")
            /\ paid' = paid \cup {r}
            /\ UNCHANGED holder
       ELSE Ends(r, "over") /\ UNCHANGED paid
    /\ UNCHANGED <<canonical, row, instance, index, pressed, trouble, rebuild>>

(* The pipeline ends or is aborted (CompareRun has it in full).              *)
Settle(r) ==
    /\ start[r] = "executing"
    /\ Ends(r, "over")
    /\ row' = IF holder = r /\ row[r] = "running"
              THEN [row EXCEPT ![r] = "settled"] ELSE row
    /\ UNCHANGED <<canonical, instance, index, paid, pressed, trouble, rebuild>>

-----------------------------------------------------------------------------
(* The lease passes to another tab.  With the notification the command in    *)
(* flight is not current any more.                                           *)
LeaseLost(r) ==
    /\ holder = r
    /\ Faulted(r)
    /\ holder' = Elsewhere
    /\ pressed' \in {pressed, 0}
    /\ UNCHANGED <<start, canonical, row, instance, index, paid, rebuild>>

LeaseFreed ==
    /\ holder = Elsewhere \/ (holder \in Starts /\ ~InFlight(holder))
    /\ holder' = 0
    /\ UNCHANGED <<start, canonical, row, instance, index, paid, pressed, trouble,
                   rebuild>>

(* The tab is closed; what was in flight is gone, what was written stays.    *)
TabCloses ==
    /\ \E r \in Starts : InFlight(r)
    /\ MayFail
    /\ start' = [r \in Starts |-> IF InFlight(r) THEN "over" ELSE start[r]]
    /\ trouble' = [r \in Starts |-> IF InFlight(r) THEN trouble[r] + 1 ELSE trouble[r]]
    /\ pressed' = 0
    /\ rebuild' = NoRebuild
    /\ UNCHANGED <<canonical, row, instance, index, paid, holder>>

(* recoverInterruptedRuns at the next opening, under the lease.              *)
Sweep ==
    /\ holder = 0
    /\ \E r \in Starts : row[r] = "running"
    /\ row' = [r \in Starts |-> IF row[r] = "running" THEN "interrupted" ELSE row[r]]
    /\ UNCHANGED <<start, canonical, instance, index, paid, pressed, holder, trouble,
                   rebuild>>

(* The result is promoted: bindComparisonToTask, from the revision shown.    *)
Bind(r) ==
    /\ index[r].status # "none" /\ ~index[r].bound
    /\ index' = [index EXCEPT ![r].bound = TRUE, ![r].rev = @ + 1]
    /\ UNCHANGED <<start, canonical, row, instance, paid, pressed, holder, trouble,
                   rebuild>>

(* rebuildComparisonIndex: the record and the index are read, and when they  *)
(* have drifted apart the index is written again, if nobody else wrote it.   *)
RebuildReads(r) ==
    /\ rebuild = NoRebuild
    /\ index[r].status \notin {"none", row[r]}
    /\ rebuild' = [of |-> r, to |-> row[r], seen |-> index[r]]
    /\ UNCHANGED <<start, canonical, row, instance, index, paid, pressed, holder,
                   trouble>>

Unchanged == index[rebuild.of].rev = rebuild.seen.rev

RebuildWrites ==
    /\ rebuild # NoRebuild
    /\ index' = IF Unchanged
                THEN [index EXCEPT ![rebuild.of] =
                        [rebuild.seen EXCEPT !.status = rebuild.to, !.rev = @ + 1]]
                ELSE index
    /\ rebuild' = NoRebuild
    /\ UNCHANGED <<start, canonical, row, instance, paid, pressed, holder, trouble>>

PreNext ==
    \/ \E r \in Starts :
          \/ PressRun(r) \/ Acquire(r) \/ Begin(r) \/ Instance(r) \/ Read(r)
          \/ Envelope(r) \/ Compensate(r) \/ Execute(r) \/ Settle(r)
          \/ LeaseLost(r) \/ Bind(r) \/ RebuildReads(r)
    \/ LeaseFreed \/ TabCloses \/ Sweep \/ RebuildWrites

PreSpec == PreInit /\ [][PreNext]_preVars

-----------------------------------------------------------------------------
PreTypeOK ==
    /\ start \in [Starts -> Stage]
    /\ canonical \in [Starts -> BOOLEAN]
    /\ row \in [Starts -> RunRow]
    /\ instance \in [Starts -> BOOLEAN]
    /\ index \in [Starts -> [status : RunRow, bound : BOOLEAN, rev : Nat]]
    /\ paid \subseteq Starts
    /\ pressed \in 0 .. MaxStarts
    /\ holder \in {Elsewhere} \cup (0 .. MaxStarts)
    /\ trouble \in [Starts -> 0 .. MaxTrouble]
    /\ rebuild \in [of : 0 .. MaxStarts, to : RunRow, seen : [status : RunRow,
                     bound : BOOLEAN, rev : Nat]]

(* No model is paid for before everything that names the answer is durable:  *)
(* the run, its comparison index and, for a task, the instance of its input. *)
(* And no two starts call models at the same time, however often Run was     *)
(* pressed and whoever had the lease in between.                             *)
PaidIsDurable ==
    /\ \A r \in paid : /\ row[r] # "none"
                       /\ index[r].status # "none"
                       /\ canonical[r] => instance[r]
    /\ \A q, r \in Starts :
          start[q] = "executing" /\ start[r] = "executing" => q = r

(* A start that failed on the way leaves no running run behind, unless the   *)
(* compensation met a second fault or had lost the lease.                    *)
FailedStartIsAborted ==
    \A r \in Starts :
        start[r] = "failed" /\ row[r] = "running" => trouble[r] > 1

=============================================================================
