------------------------------ MODULE RunRecord ------------------------------
(***************************************************************************)
(* The durable record of a Compare run and the builder that mutates it,    *)
(* src/src/lib/persistence/run-record-builder.ts, as operators from record *)
(* to record.                                                              *)
(*                                                                         *)
(* Attempt ids are positive numbers; 0 stands for a null accepted pointer. *)
(* finishedAt is non-null exactly when an attempt is no longer "running".  *)
(* A Judge report is stored and cleared together with the Judge's accepted *)
(* pointer, so the pointer stands for both.  Prompts, outputs, scores,     *)
(* usage and time stamps are left out (`usable` says whether an output is  *)
(* non-blank), and so is the execution fence: RunRecovery has it.          *)
(***************************************************************************)
EXTENDS Naturals, FiniteSets

CONSTANT Cands            \* the enabled candidate slots of the run

\* A run is not created with fewer than two (pre-call-persistence.ts); that
\* there is one is all that is relied on.
ASSUME CandsAssumption == IsFiniteSet(Cands) /\ Cands # {}

AcceptedTerminal == {"completed", "partial", "failed"}
Terminal         == AcceptedTerminal \cup {"aborted", "interrupted"}
RunStatus        == Terminal \cup {"running"}
AttemptStatus    == {"running", "completed", "failed", "aborted", "interrupted"}
StageStatus      == {"idle", "running", "done", "error"}
Mode             == {"rank", "fuse"}

CandAttempt   == [id : Nat, status : AttemptStatus, usable : BOOLEAN]
JudgeAttempt  == [id : Nat, status : AttemptStatus, basis : [Cands -> Nat]]
FusionAttempt == [id : Nat, status : AttemptStatus, judgeId : Nat, basis : [Cands -> Nat]]

Record ==
    [status : RunStatus, mode : Mode,
     cands  : [Cands -> [acc : Nat, atts : SUBSET CandAttempt]],
     judge  : [status : StageStatus, acc : Nat, atts : SUBSET JudgeAttempt],
     fusion : [status : StageStatus, acc : Nat, atts : SUBSET FusionAttempt]]

-----------------------------------------------------------------------------
(* Status derivation (deriveStatus).                                       *)

Active(atts) == \E a \in atts : a.status = "running"

FanoutActive(r) == \E c \in Cands : Active(r.cands[c].atts)

UsableCand(r, c) ==
    \E a \in r.cands[c].atts : a.id = r.cands[c].acc /\ a.usable

UsableCands(r) == {c \in Cands : UsableCand(r, c)}

FanoutSettled(r) ==
    /\ Cands # {}
    /\ \A c \in Cands : r.cands[c].atts # {} /\ ~Active(r.cands[c].atts)

\* An accepted terminal status is kept while a later stage is in flight.
KeptStatus(r) == IF r.status \in AcceptedTerminal THEN r.status ELSE "running"

\* What an accepted Judge yields, given the state of Fusion.
JudgedStatus(r) ==
    IF r.mode = "fuse" /\ r.fusion.acc = 0
    THEN IF Active(r.fusion.atts) THEN "running" ELSE "partial"
    ELSE IF UsableCands(r) = Cands THEN "completed" ELSE "partial"

DerivedStatus(r) ==
    CASE r.status \in {"aborted", "interrupted"} -> r.status
      [] OTHER ->
           IF FanoutActive(r) \/ r.judge.status = "running" \/ r.fusion.status = "running"
           THEN KeptStatus(r)
           ELSE IF r.judge.acc # 0 THEN JudgedStatus(r)
           ELSE IF r.judge.status = "error" THEN "failed"
           ELSE IF Cardinality(UsableCands(r)) < 2 /\ FanoutSettled(r) THEN "failed"
           ELSE KeptStatus(r)

Restated(r) == [r EXCEPT !.status = DerivedStatus(r)]

-----------------------------------------------------------------------------
(* The builder's mutations.                                                *)

\* applyFanoutStart: a fresh running record.
FanoutStart(mode) ==
    [status |-> "running", mode |-> mode,
     cands  |-> [c \in Cands |-> [acc |-> 0, atts |-> {}]],
     judge  |-> [status |-> "idle", acc |-> 0, atts |-> {}],
     fusion |-> [status |-> "idle", acc |-> 0, atts |-> {}]]

CandidateAttemptStart(r, c, id) ==
    Restated([r EXCEPT !.cands[c].atts =
                  @ \cup {[id |-> id, status |-> "running", usable |-> FALSE]}])

\* Accepted Judge and Fusion evidence is withdrawn; their attempts stay.
EvidenceCleared(r) ==
    [r EXCEPT !.judge.acc = 0, !.judge.status = "idle",
              !.fusion.acc = 0, !.fusion.status = "idle"]

HasAttempt(atts, id) == \E a \in atts : a.id = id

WithStatus(atts, id, status) ==
    {IF a.id = id THEN [a EXCEPT !.status = status] ELSE a : a \in atts}

\* Mutant: the evidence about the replaced output stays accepted.
CandidateAttemptTerminalKeepsEvidence(r, c, id, status, usable) ==
    LET settled == [r EXCEPT !.cands[c].atts =
                        {IF a.id = id THEN [a EXCEPT !.status = status, !.usable = usable]
                         ELSE a : a \in @}]
    IN  IF ~HasAttempt(r.cands[c].atts, id) THEN r
        ELSE Restated(IF status = "completed" THEN [settled EXCEPT !.cands[c].acc = id]
                      ELSE settled)

\* A completed attempt becomes the accepted one; when it replaces another,
\* what the Judge and Fusion said of the old output is withdrawn.
CandidateAttemptTerminal(r, c, id, status, usable) ==
    LET settled == [r EXCEPT !.cands[c].atts =
                        {IF a.id = id THEN [a EXCEPT !.status = status, !.usable = usable]
                         ELSE a : a \in @}]
        accepted == [settled EXCEPT !.cands[c].acc = id]
        replaces == r.cands[c].acc \notin {0, id}
    IN  IF ~HasAttempt(r.cands[c].atts, id) THEN r
        ELSE IF status # "completed" THEN Restated(settled)
        ELSE Restated(IF replaces THEN EvidenceCleared(accepted) ELSE accepted)

FanoutTerminal(r) == Restated(r)

JudgeStart(r, id, basis) ==
    Restated([r EXCEPT !.judge.status = "running",
                       !.judge.atts = @ \cup {[id |-> id, status |-> "running", basis |-> basis]}])

\* The accepted pointer moves only on success; an aborted attempt leaves the
\* stage status as it was.
JudgeTerminal(r, id, status) ==
    LET settled == [r EXCEPT !.judge.atts = WithStatus(@, id, status)]
    IN  IF ~HasAttempt(r.judge.atts, id) THEN r
        ELSE Restated(
            CASE status = "completed" ->
                     [settled EXCEPT !.judge.acc = id, !.judge.status = "done"]
              [] status = "failed" -> [settled EXCEPT !.judge.status = "error"]
              [] OTHER -> settled)

FusionStart(r, id, judgeId, basis) ==
    Restated([r EXCEPT !.fusion.status = "running",
                       !.fusion.atts = @ \cup {[id |-> id, status |-> "running",
                                                judgeId |-> judgeId, basis |-> basis]}])

\* Mutant: a failed Fusion withdraws the accepted one.
FusionTerminalDropsPrior(r, id, status) ==
    LET settled == [r EXCEPT !.fusion.atts = WithStatus(@, id, status)]
    IN  IF ~HasAttempt(r.fusion.atts, id) THEN r
        ELSE Restated(
            IF status = "completed"
            THEN [settled EXCEPT !.fusion.acc = id, !.fusion.status = "done"]
            ELSE [settled EXCEPT !.fusion.acc = 0, !.fusion.status = "error"])

FusionTerminal(r, id, status) ==
    LET settled == [r EXCEPT !.fusion.atts = WithStatus(@, id, status)]
    IN  IF ~HasAttempt(r.fusion.atts, id) THEN r
        ELSE Restated(
            CASE status = "completed" ->
                     [settled EXCEPT !.fusion.acc = id, !.fusion.status = "done"]
              [] status = "failed" -> [settled EXCEPT !.fusion.status = "error"]
              [] OTHER -> settled)

\* Every attempt still running takes the given status.
Finalized(atts, status) ==
    {IF a.status = "running" THEN [a EXCEPT !.status = status] ELSE a : a \in atts}

\* Mutant: a Fusion attempt in flight is forgotten.
StoppedWithoutFusion(r, status) ==
    [r EXCEPT !.status = status,
              !.cands = [c \in Cands |->
                            [acc |-> r.cands[c].acc,
                             atts |-> Finalized(r.cands[c].atts, status)]],
              !.judge.atts = Finalized(@, status)]

\* Mutant: the stages take the status of the run, which is none of theirs.
StoppedStagesToo(r, status) ==
    [r EXCEPT !.status = status,
              !.judge.status = status, !.judge.atts = Finalized(@, status),
              !.fusion.status = status, !.fusion.atts = Finalized(@, status)]

\* applyAborted and applyInterrupted: the stage statuses are left as they are.
Stopped(r, status) ==
    [r EXCEPT !.status = status,
              !.cands = [c \in Cands |->
                            [acc |-> r.cands[c].acc,
                             atts |-> Finalized(r.cands[c].atts, status)]],
              !.judge.atts = Finalized(@, status),
              !.fusion.atts = Finalized(@, status)]

\* acceptedAttemptIdsByCandidate: what a continuation tells the Judge about.
AcceptedIds(r) == [c \in Cands |-> r.cands[c].acc]
=============================================================================
