---------------------------- MODULE CompareProofs ----------------------------
(***************************************************************************)
(* Proofs about CompareRun, for any candidates and any number of commands. *)
(*                                                                         *)
(* What the record says of outputs, of the Judge's report about them and   *)
(* of the Fusion made from both rests on three things that no single step  *)
(* shows: attempts are numbered in the order they were added, so that the  *)
(* last of a set is the one a stage has begun and has not finished; what a *)
(* command froze at its start is still what is accepted, since candidates  *)
(* only settle before its stages begin; and what the pane shows next to a  *)
(* report belongs to it, since a command that replaces an output or asks   *)
(* for another report takes the shown one away first.                      *)
(***************************************************************************)
EXTENDS MCPaidWork, PolicyStudyProofs, FiniteSetTheorems, TLAPS

-----------------------------------------------------------------------------
(* The inductive invariant.                                                *)

\* Attempts are numbered without gaps or doubles, and one that is accepted has
\* been completed.
Numbered(atts) ==
    /\ IsFiniteSet(atts)
    /\ \A a \in atts : a.id \in 1 .. Cardinality(atts)
    /\ \A a, b \in atts : a.id = b.id => a = b

AcceptedIn(acc, atts) ==
    /\ acc \in 0 .. Cardinality(atts)
    /\ \A a \in atts : a.id = acc => a.status = "completed"

\* JudgedOutputsAreAccepted and FusionRestsOnItsJudge, of any record.
JudgedIn(r) ==
    \A j \in r.judge.atts : j.id = r.judge.acc =>
        /\ \A c \in Cands : j.basis[c] \in {0, r.cands[c].acc}
        /\ Cardinality({c \in Cands : j.basis[c] # 0}) >= 2

RestsIn(r) ==
    \A f \in r.fusion.atts : \E j \in r.judge.atts :
        j.id = f.judgeId /\ j.status = "completed" /\ j.basis = f.basis

RecordIsNumbered(r) ==
    /\ \A c \in Cands :
          /\ Numbered(r.cands[c].atts) /\ AcceptedIn(r.cands[c].acc, r.cands[c].atts)
    /\ Numbered(r.judge.atts) /\ AcceptedIn(r.judge.acc, r.judge.atts)
    /\ Numbered(r.fusion.atts) /\ r.fusion.acc \in 0 .. Cardinality(r.fusion.atts)

RecordInv(r) == r \in Record /\ RecordIsNumbered(r) /\ JudgedIn(r) /\ RestsIn(r)

\* The attempt that was added last, while it runs.
LastRuns(atts) ==
    \E a \in atts : a.id = LastId(atts) /\ a.status = "running"

\* The stage has written its start and not yet its end.
InStage(stage) == cmd.stage = stage /\ cmd.pc \in {"started", "calling", "failing"}

\* The positions of a command; outside the candidates' part no task is left.
Positions ==
    /\ cmd.kind = "none" <=> cmd.pc = "none"
    /\ cmd.pc \in {"none", "begin", "cands", "ending"} => cmd.stage = "none"
    /\ cmd.pc \in {"start", "started", "calling", "done", "failing", "failed"} =>
          cmd.stage # "none"
    /\ cmd.pc \in {"begin", "ending"} => cmd.kind = "fanout"
    /\ cmd.pc = "cands" => cmd.kind \in {"fanout", "retry"}
    /\ cmd.kind = "fanout" => bound
    /\ cmd.kind = "fusion" => cmd.stage = "fusion"
    /\ cmd.pc # "cands" => task = NoTask

\* An answer is awaited from the attempt that was added last, and an output
\* about to be shown is the accepted one.
TasksAreLast ==
    \A c \in Cands :
        /\ task[c] = "stream" => LastRuns(rec.cands[c].atts)
        /\ task[c] \in {"ok", "blank"} =>
              rec.cands[c].acc = LastId(rec.cands[c].atts) /\ rec.cands[c].acc # 0
        /\ task[c] = "ok" => UsableCand(rec, c)

\* What a command froze is what is accepted, but for an output about to be
\* shown.
FrozenIsAccepted ==
    ~Idle => \A c \in Cands : task[c] \notin {"ok", "blank"} => cmd.ids[c] = rec.cands[c].acc

\* The evidence that a command is working on, and that it goes on from.
StageRests ==
    /\ InStage("judge") =>
          \E j \in rec.judge.atts :
              j.id = LastId(rec.judge.atts) /\ j.status = "running" /\ j.basis = cmd.ids
    /\ InStage("fusion") => LastRuns(rec.fusion.atts)
    /\ (cmd.stage = "judge" /\ cmd.pc = "done") \/ cmd.stage = "fusion" =>
          \E j \in rec.judge.atts :
              /\ j.id = rec.judge.acc /\ j.status = "completed" /\ j.basis = cmd.ids
              /\ cmd.stage = "judge" => j.id = LastId(rec.judge.atts)
              /\ cmd.stage = "fusion" => j.id = cmd.src
    /\ cmd.stage = "fusion" /\ cmd.pc \notin {"start", "failed"} =>
          \E f \in rec.fusion.atts :
              /\ f.id = LastId(rec.fusion.atts) /\ f.judgeId = cmd.src
              /\ cmd.pc = "done" => f.id = rec.fusion.acc

\* A Judge is asked about two outputs at least.
TwoAreFrozen ==
    cmd.stage # "none" => Cardinality({c \in Cands : cmd.ids[c] # 0}) >= 2

\* What the pane shows of an output, of the report and of the Fusion is what
\* is accepted, and the report is about all that is.
ShownIsAccepted ==
    /\ UsableShown(ui) \subseteq UsableCands(rec)
    /\ ui.judge = "done" =>
          \E j \in rec.judge.atts :
              j.id = rec.judge.acc /\ j.status = "completed" /\ j.basis = AcceptedIds(rec)
    /\ ui.fusion = "done" =>
          /\ rec.fusion.acc # 0
          /\ \A f \in rec.fusion.atts : f.id = rec.fusion.acc => f.judgeId = rec.judge.acc

\* What a command is going to replace, it has taken away before.
TakenAway ==
    /\ \A c \in Cands : task[c] # "idle" => ui.cands[c] = "pending"
    /\ ~Idle /\ cmd.stage # "fusion" => ui.judge # "done"
    /\ cmd.pc \in {"begin", "cands"} => ui.fusion # "done"
    /\ cmd.stage = "judge" /\ cmd.pc \in {"calling", "done", "failing"} => ui.fusion # "done"

BoundInv ==
    bound =>
        /\ TasksAreLast
        /\ FrozenIsAccepted
        /\ StageRests
        /\ TwoAreFrozen
        /\ ShownIsAccepted
        /\ TakenAway

EvidenceInv ==
    /\ CompareTypeOK
    /\ RecordInv(rec)
    /\ Positions
    /\ BoundInv

-----------------------------------------------------------------------------
(* The same for a run with which nothing has gone wrong.                   *)

OnlyLastRuns(atts) == \A a \in atts : a.status = "running" => a.id = LastId(atts)

\* An attempt claims to be running only while its part of a command awaits it.
AwaitedRun ==
    /\ \A c \in Cands :
          /\ OnlyLastRuns(rec.cands[c].atts)
          /\ Active(rec.cands[c].atts) => task[c] = "stream"
    /\ OnlyLastRuns(rec.judge.atts) /\ (Active(rec.judge.atts) => InStage("judge"))
    /\ OnlyLastRuns(rec.fusion.atts) /\ (Active(rec.fusion.atts) => InStage("fusion"))

\* Only the fanout has the run running, and not for longer than to its Judge;
\* by then every candidate has its attempt, and a usable output is shown.
FanoutRuns ==
    rec.status = "running" =>
        /\ cmd.kind = "fanout" /\ cmd.stage # "fusion"
        /\ cmd.stage = "judge" => cmd.pc \in {"start", "started", "calling", "failing"}
        /\ rec.judge.acc = 0 /\ rec.judge.status # "error"
        /\ rec.judge.status = "running" => InStage("judge")
        /\ rec.fusion.acc = 0 /\ rec.fusion.status = "idle" /\ rec.fusion.atts = {}
        /\ cmd.pc \in {"begin", "cands", "ending"} => rec.judge.status = "idle"
        /\ cmd.pc = "begin" => \A c \in Cands : rec.cands[c].atts = {}
        /\ cmd.pc # "begin" => \A c \in Cands : task[c] # "start" => rec.cands[c].atts # {}
        /\ cmd.pc \in {"cands", "ending"} =>
              \A c \in Cands : UsableCand(rec, c) => task[c] = "ok" \/ ui.cands[c] = "done"
        /\ cmd.pc = "ending" => Cardinality(UsableCands(rec)) >= 2

Calm == AwaitedRun /\ FanoutRuns

Quiet(r) ==
    /\ r.status # "running"
    /\ ~FanoutActive(r) /\ ~Active(r.judge.atts) /\ ~Active(r.fusion.atts)

SettledInv ==
    /\ upset = {} /\ bound => Calm
    /\ upset = {} /\ ~bound => Quiet(rec)

-----------------------------------------------------------------------------
(* Sets of attempts.                                                       *)

\* Attempts that are rewritten one by one keep their numbers.
LEMMA Renumbered ==
    ASSUME NEW A, Numbered(A), NEW B,
           \A b \in B : \E a \in A : a.id = b.id,
           \A a \in A : \E b \in B : a.id = b.id,
           \A b1, b2 \in B : b1.id = b2.id => b1 = b2
    PROVE  Numbered(B) /\ Cardinality(B) = Cardinality(A)
<1> DEFINE f == [a \in A |-> CHOOSE b \in B : a.id = b.id]
<1>1. \A a \in A : f[a] \in B /\ f[a].id = a.id
    OBVIOUS
<1>2. f \in Bijection(A, B)
    <2>1. f \in [A -> B]
        BY <1>1
    <2>2. \A a1, a2 \in A : f[a1] = f[a2] => a1 = a2
        BY <1>1 DEF Numbered
    <2>3. \A b \in B : \E a \in A : f[a] = b
        BY <1>1
    <2> HIDE DEF f
    <2>. QED
        BY <2>1, <2>2, <2>3 DEF Bijection, Injection, Surjection, IsInjective
<1>3. IsFiniteSet(A) /\ ExistsBijection(A, B)
    BY <1>2 DEF Numbered, ExistsBijection
<1>4. IsFiniteSet(B) /\ Cardinality(B) = Cardinality(A)
    BY <1>3, FS_Bijection
<1>. QED
    BY <1>4 DEF Numbered

LEMMA NoAttempts == Numbered({}) /\ Cardinality({}) = 0
    BY FS_EmptySet DEF Numbered

LEMMA Counted == ASSUME NEW A, Numbered(A) PROVE Cardinality(A) \in Nat
    BY FS_CardinalityType DEF Numbered

\* The attempt that is added is the last one.
LEMMA AddedIsLast ==
    ASSUME NEW A, Numbered(A), NEW x, x.id = Cardinality(A) + 1
    PROVE  /\ Numbered(A \cup {x})
           /\ Cardinality(A \cup {x}) = Cardinality(A) + 1
           /\ \A a \in A : a.id # x.id
<1>1. Cardinality(A) \in Nat
    BY Counted
<1>2. \A a \in A : a.id \in 1 .. Cardinality(A) /\ a.id # x.id
    BY <1>1 DEF Numbered
<1>3. IsFiniteSet(A \cup {x}) /\ Cardinality(A \cup {x}) = Cardinality(A) + 1
    BY <1>2, FS_AddElement DEF Numbered
<1>. QED
    BY <1>1, <1>2, <1>3 DEF Numbered

\* A stage's attempt takes the status of its end, the others stay.
LEMMA StatusGiven ==
    ASSUME NEW T \in {JudgeAttempt, FusionAttempt}, NEW A \in SUBSET T, Numbered(A),
           NEW id, NEW s \in AttemptStatus
    PROVE  LET B == WithStatus(A, id, s)
           IN  /\ B \in SUBSET T /\ Numbered(B) /\ Cardinality(B) = Cardinality(A)
               /\ \A b \in B : b.id = id => /\ b.status = s
                                            /\ \E a \in A : a.id = id
                                                            /\ b = [a EXCEPT !.status = s]
               /\ \A b \in B : b.id # id => b \in A
               /\ \A a \in A : a.id # id => a \in B
               /\ \A a \in A : a.id = id => [a EXCEPT !.status = s] \in B
<1> DEFINE g(a) == IF a.id = id THEN [a EXCEPT !.status = s] ELSE a
           B == {g(a) : a \in A}
<1>1. \A a \in A : g(a) \in T /\ g(a).id = a.id
    <2>1. CASE T = JudgeAttempt
        BY <2>1 DEF JudgeAttempt
    <2>2. CASE T = FusionAttempt
        BY <2>2 DEF FusionAttempt
    <2>. QED
        BY <2>1, <2>2
<1>2. \A a \in A : a.id = id => g(a) = [a EXCEPT !.status = s] /\ g(a).status = s
    BY DEF JudgeAttempt, FusionAttempt
<1>3. \A a \in A : a.id # id => g(a) = a
    OBVIOUS
<1>4. B = WithStatus(A, id, s)
    BY DEF WithStatus
<1> HIDE DEF g
<1>5. Numbered(B) /\ Cardinality(B) = Cardinality(A)
    <2>1. \A b \in B : \E a \in A : a.id = b.id
        BY <1>1
    <2>2. \A a \in A : \E b \in B : a.id = b.id
        BY <1>1
    <2>3. \A b1, b2 \in B : b1.id = b2.id => b1 = b2
        BY <1>1 DEF Numbered
    <2> HIDE DEF B
    <2>. QED
        BY <2>1, <2>2, <2>3, Renumbered
<1>. QED
    BY <1>1, <1>2, <1>3, <1>4, <1>5, ZenonT(30)

\* The same of a candidate's attempt, whose output is judged usable or not.
OutputGiven(A, id, s, u) ==
    {IF a.id = id THEN [a EXCEPT !.status = s, !.usable = u] ELSE a : a \in A}

LEMMA OutputIsGiven ==
    ASSUME NEW A \in SUBSET CandAttempt, Numbered(A), NEW id, NEW s \in AttemptStatus,
           NEW u \in BOOLEAN
    PROVE  LET B == OutputGiven(A, id, s, u)
           IN  /\ B \in SUBSET CandAttempt /\ Numbered(B) /\ Cardinality(B) = Cardinality(A)
               /\ \A b \in B : b.id = id => b.status = s /\ b.usable = u
               /\ \A b \in B : b.id # id => b \in A
               /\ \A a \in A : a.id # id => a \in B
               /\ \A a \in A : a.id = id => \E b \in B : b.id = id
<1> DEFINE g(a) == IF a.id = id THEN [a EXCEPT !.status = s, !.usable = u] ELSE a
           B == {g(a) : a \in A}
<1>1. \A a \in A : g(a) \in CandAttempt /\ g(a).id = a.id
    BY DEF CandAttempt
<1>2. \A a \in A : a.id = id => g(a).status = s /\ g(a).usable = u
    BY DEF CandAttempt
<1>3. \A a \in A : a.id # id => g(a) = a
    OBVIOUS
<1>4. B = OutputGiven(A, id, s, u)
    BY DEF OutputGiven
<1> HIDE DEF g
<1>5. Numbered(B) /\ Cardinality(B) = Cardinality(A)
    <2>1. \A b \in B : \E a \in A : a.id = b.id
        BY <1>1
    <2>2. \A a \in A : \E b \in B : a.id = b.id
        BY <1>1
    <2>3. \A b1, b2 \in B : b1.id = b2.id => b1 = b2
        BY <1>1 DEF Numbered
    <2> HIDE DEF B
    <2>. QED
        BY <2>1, <2>2, <2>3, Renumbered
<1>. QED
    BY <1>1, <1>2, <1>3, <1>4, <1>5

\* When a run is stopped no attempt goes on, and what was over is as it was.
LEMMA FinalizedAll ==
    ASSUME NEW T \in {CandAttempt, JudgeAttempt, FusionAttempt}, NEW A \in SUBSET T,
           Numbered(A), NEW s \in {"aborted", "interrupted"}
    PROVE  LET B == Finalized(A, s)
           IN  /\ B \in SUBSET T /\ Numbered(B) /\ Cardinality(B) = Cardinality(A)
               /\ ~Active(B)
               /\ \A b \in B : b \in A \/ \E a \in A : a.status = "running"
                                                       /\ b = [a EXCEPT !.status = s]
               /\ \A a \in A : a.status # "running" => a \in B
               /\ \A a \in A : a.status = "running" => [a EXCEPT !.status = s] \in B
<1> DEFINE g(a) == IF a.status = "running" THEN [a EXCEPT !.status = s] ELSE a
           B == {g(a) : a \in A}
<1>1. \A a \in A : g(a) \in T /\ g(a).id = a.id /\ g(a).status # "running"
    <2>1. CASE T = JudgeAttempt
        BY <2>1 DEF JudgeAttempt, AttemptStatus
    <2>2. CASE T = FusionAttempt
        BY <2>2 DEF FusionAttempt, AttemptStatus
    <2>3. CASE T = CandAttempt
        BY <2>3 DEF CandAttempt, AttemptStatus
    <2>. QED
        BY <2>1, <2>2, <2>3
<1>2. \A a \in A : a.status = "running" => g(a) = [a EXCEPT !.status = s]
    OBVIOUS
<1>3. \A a \in A : a.status # "running" => g(a) = a
    OBVIOUS
<1>4. B = Finalized(A, s)
    BY DEF Finalized
<1> HIDE DEF g
<1>5. Numbered(B) /\ Cardinality(B) = Cardinality(A)
    <2>1. \A b \in B : \E a \in A : a.id = b.id
        BY <1>1
    <2>2. \A a \in A : \E b \in B : a.id = b.id
        BY <1>1
    <2>3. \A b1, b2 \in B : b1.id = b2.id => b1 = b2
        BY <1>1 DEF Numbered
    <2> HIDE DEF B
    <2>. QED
        BY <2>1, <2>2, <2>3, Renumbered
<1>. QED
    BY <1>1, <1>2, <1>3, <1>4, <1>5 DEF Active
-----------------------------------------------------------------------------
(* The builder: what each of its mutations leaves in the record.           *)

LEMMA DerivedType == ASSUME NEW r, r.status \in RunStatus PROVE DerivedStatus(r) \in RunStatus
    BY DEF DerivedStatus, KeptStatus, JudgedStatus, RunStatus, Terminal, AcceptedTerminal

\* The verdict is written over the old one, and nothing else is.
LEMMA Restates ==
    ASSUME NEW r \in Record
    PROVE  LET new == Restated(r)
           IN  /\ new \in Record
               /\ new.mode = r.mode /\ new.cands = r.cands
               /\ new.judge = r.judge /\ new.fusion = r.fusion
               /\ new.status = DerivedStatus([new EXCEPT !.status = r.status])
<1>1. DerivedStatus(r) \in RunStatus
    BY DerivedType DEF Record
<1>2. Restated(r) = [r EXCEPT !.status = DerivedStatus(r)]
    BY DEF Restated
<1>3. [Restated(r) EXCEPT !.status = r.status] = r
    BY <1>2 DEF Record
<1>. QED
    BY <1>1, <1>2, <1>3 DEF Record

CandOutputs == [acc : Nat, atts : SUBSET CandAttempt]

LEMMA WithOutputs ==
    ASSUME NEW r \in Record, NEW c \in Cands, NEW y \in CandOutputs
    PROVE  LET cands == [r.cands EXCEPT ![c] = y]
               m == [r EXCEPT !.cands = cands]
           IN  /\ m \in Record /\ m.mode = r.mode /\ m.judge = r.judge
               /\ m.fusion = r.fusion /\ m.status = r.status /\ m.cands = cands
<1>1. r.cands \in [Cands -> CandOutputs]
    BY DEF Record, CandOutputs
<1>2. [r.cands EXCEPT ![c] = y] \in [Cands -> CandOutputs]
    BY <1>1
<1>. QED
    BY <1>2 DEF Record, CandOutputs

LEMMA OutputsOf == \A r \in Record, c \in Cands : r.cands[c] \in CandOutputs
    BY DEF Record, CandOutputs

LEMMA CandidateStarts ==
    ASSUME NEW r \in Record, NEW c \in Cands, NEW id \in Nat
    PROVE  LET x   == [id |-> id, status |-> "running", usable |-> FALSE]
               new == CandidateAttemptStart(r, c, id)
           IN  /\ new \in Record
               /\ new.mode = r.mode /\ new.judge = r.judge /\ new.fusion = r.fusion
               /\ new.cands = [r.cands EXCEPT ![c] = [acc  |-> r.cands[c].acc,
                                                      atts |-> r.cands[c].atts \cup {x}]]
               /\ new.status = DerivedStatus([new EXCEPT !.status = r.status])
<1> DEFINE x == [id |-> id, status |-> "running", usable |-> FALSE]
           m == [r EXCEPT !.cands[c].atts = @ \cup {x}]
           y == [acc |-> r.cands[c].acc, atts |-> r.cands[c].atts \cup {x}]
<1>1. x \in CandAttempt
    BY DEF CandAttempt, AttemptStatus
<1> HIDE DEF x
<1>2. /\ m \in Record /\ m.mode = r.mode /\ m.judge = r.judge /\ m.fusion = r.fusion
      /\ m.status = r.status
      /\ m.cands = [r.cands EXCEPT ![c] = [acc  |-> r.cands[c].acc,
                                           atts |-> r.cands[c].atts \cup {x}]]
    <2>1. r.cands[c] \in CandOutputs
        BY OutputsOf
    <2>2. y \in CandOutputs /\ y = [r.cands[c] EXCEPT !.atts = @ \cup {x}]
        BY <1>1, <2>1 DEF CandOutputs
    <2>3. m = [r EXCEPT !.cands = [r.cands EXCEPT ![c] = y]]
        BY <2>2
    <2> HIDE DEF m
    <2>4. QED
        BY <2>2, <2>3, WithOutputs
<1>3. CandidateAttemptStart(r, c, id) = Restated(m)
    BY DEF CandidateAttemptStart, x
<1> HIDE DEF m, x
<1>4. /\ Restated(m) \in Record /\ Restated(m).mode = r.mode
      /\ Restated(m).judge = r.judge /\ Restated(m).fusion = r.fusion
      /\ Restated(m).cands = m.cands
      /\ Restated(m).status = DerivedStatus([Restated(m) EXCEPT !.status = r.status])
    BY <1>2, Restates
<1>. QED
    BY <1>2, <1>3, <1>4 DEF x

\* A completed output is accepted, and takes the evidence about another with
\* it.
Replaces(r, c, id, s) == s = "completed" /\ r.cands[c].acc \notin {0, id}

Withdrawn(stage) == [stage EXCEPT !.acc = 0, !.status = "idle"]

LEMMA CandidateSettles ==
    ASSUME NEW r \in Record, RecordIsNumbered(r), NEW c \in Cands, NEW id \in Nat,
           NEW s \in {"completed", "failed"}, NEW u \in BOOLEAN,
           HasAttempt(r.cands[c].atts, id)
    PROVE  LET new == CandidateAttemptTerminal(r, c, id, s, u)
           IN  /\ new \in Record /\ new.mode = r.mode
               /\ new.judge = IF Replaces(r, c, id, s) THEN Withdrawn(r.judge) ELSE r.judge
               /\ new.fusion = IF Replaces(r, c, id, s) THEN Withdrawn(r.fusion) ELSE r.fusion
               /\ new.cands = [r.cands EXCEPT ![c] =
                                  [acc  |-> IF s = "completed" THEN id ELSE r.cands[c].acc,
                                   atts |-> OutputGiven(r.cands[c].atts, id, s, u)]]
               /\ new.status = DerivedStatus([new EXCEPT !.status = r.status])
<1> DEFINE settled == [r EXCEPT !.cands[c].atts =
                          {IF a.id = id THEN [a EXCEPT !.status = s, !.usable = u]
                           ELSE a : a \in @}]
           accepted == [settled EXCEPT !.cands[c].acc = id]
           m == IF s # "completed" THEN settled
                ELSE IF Replaces(r, c, id, s) THEN EvidenceCleared(accepted) ELSE accepted
           B == OutputGiven(r.cands[c].atts, id, s, u)
<1>1. r.cands[c].atts \in SUBSET CandAttempt /\ Numbered(r.cands[c].atts)
      /\ s \in AttemptStatus
    BY DEF Record, RecordIsNumbered, AttemptStatus
<1>2. B \in SUBSET CandAttempt
    BY <1>1, OutputIsGiven
<1>3. [acc |-> r.cands[c].acc, atts |-> B] \in CandOutputs
      /\ [acc |-> id, atts |-> B] \in CandOutputs /\ r.cands[c] \in CandOutputs
    BY <1>2, OutputsOf DEF CandOutputs
<1>4. /\ settled \in Record /\ settled.mode = r.mode /\ settled.judge = r.judge
      /\ settled.fusion = r.fusion /\ settled.status = r.status
      /\ settled.cands = [r.cands EXCEPT ![c] = [acc |-> r.cands[c].acc, atts |-> B]]
    <2>1. [r.cands[c] EXCEPT !.atts = B] = [acc |-> r.cands[c].acc, atts |-> B]
        BY <1>3 DEF CandOutputs
    <2>2. settled = [r EXCEPT !.cands =
                        [r.cands EXCEPT ![c] = [acc |-> r.cands[c].acc, atts |-> B]]]
        BY <2>1 DEF OutputGiven
    <2> HIDE DEF B, settled
    <2>. QED
        BY <1>3, <2>2, WithOutputs
<1>5. /\ accepted \in Record /\ accepted.mode = r.mode /\ accepted.judge = r.judge
      /\ accepted.fusion = r.fusion /\ accepted.status = r.status
      /\ accepted.cands = [r.cands EXCEPT ![c] = [acc |-> id, atts |-> B]]
    <2> HIDE DEF B, settled
    <2>1. settled.cands[c] = [acc |-> r.cands[c].acc, atts |-> B] /\ c \in DOMAIN r.cands
        BY <1>4 DEF Record
    <2>2. [settled.cands[c] EXCEPT !.acc = id] = [acc |-> id, atts |-> B]
        BY <2>1
    <2>3. [settled.cands EXCEPT ![c] = [acc |-> id, atts |-> B]]
             = [r.cands EXCEPT ![c] = [acc |-> id, atts |-> B]]
        BY <1>4 DEF Record
    <2>4. accepted = [settled EXCEPT !.cands = [settled.cands EXCEPT ![c] =
                                                  [acc |-> id, atts |-> B]]]
        BY <2>2
    <2> HIDE DEF accepted
    <2>. QED
        BY <1>3, <1>4, <2>3, <2>4, WithOutputs
<1>6. LET e == EvidenceCleared(accepted)
      IN  /\ e \in Record /\ e.mode = r.mode /\ e.judge = Withdrawn(r.judge)
          /\ e.fusion = Withdrawn(r.fusion) /\ e.status = r.status
          /\ e.cands = accepted.cands
    BY <1>5 DEF EvidenceCleared, Withdrawn, Record, StageStatus
<1>7. CandidateAttemptTerminal(r, c, id, s, u) = Restated(m)
    <2>1. CASE s # "completed"
        <3>1. CandidateAttemptTerminal(r, c, id, s, u) = Restated(settled)
            BY <2>1 DEF CandidateAttemptTerminal
        <3>. QED
            BY <2>1, <3>1
    <2>2. CASE s = "completed" /\ Replaces(r, c, id, s)
        <3>1. CandidateAttemptTerminal(r, c, id, s, u) = Restated(EvidenceCleared(accepted))
            BY <2>2 DEF CandidateAttemptTerminal, Replaces
        <3>. QED
            BY <2>2, <3>1
    <2>3. CASE s = "completed" /\ ~Replaces(r, c, id, s)
        <3>1. CandidateAttemptTerminal(r, c, id, s, u) = Restated(accepted)
            BY <2>3 DEF CandidateAttemptTerminal, Replaces
        <3>. QED
            BY <2>3, <3>1
    <2>. QED
        BY <2>1, <2>2, <2>3
<1> HIDE DEF B, settled, accepted
<1>8. /\ m \in Record /\ m.mode = r.mode /\ m.status = r.status
      /\ m.judge = IF Replaces(r, c, id, s) THEN Withdrawn(r.judge) ELSE r.judge
      /\ m.fusion = IF Replaces(r, c, id, s) THEN Withdrawn(r.fusion) ELSE r.fusion
      /\ m.cands = [r.cands EXCEPT ![c] =
                       [acc |-> IF s = "completed" THEN id ELSE r.cands[c].acc, atts |-> B]]
    BY <1>4, <1>5, <1>6 DEF Replaces
<1> HIDE DEF m
<1>9. /\ Restated(m) \in Record /\ Restated(m).mode = m.mode /\ Restated(m).cands = m.cands
      /\ Restated(m).judge = m.judge /\ Restated(m).fusion = m.fusion
      /\ Restated(m).status = DerivedStatus([Restated(m) EXCEPT !.status = r.status])
    BY <1>8, Restates
<1>. QED
    BY <1>7, <1>8, <1>9 DEF B

LEMMA CandidateUnknown ==
    ASSUME NEW r, NEW c, NEW id, NEW s, NEW u, ~HasAttempt(r.cands[c].atts, id)
    PROVE  CandidateAttemptTerminal(r, c, id, s, u) = r
    BY DEF CandidateAttemptTerminal
\* The stages, each with the shape of its attempts.
LEMMA JudgeStarts ==
    ASSUME NEW r \in Record, NEW id \in Nat, NEW basis \in [Cands -> Nat]
    PROVE  LET x   == [id |-> id, status |-> "running", basis |-> basis]
               new == JudgeStart(r, id, basis)
           IN  /\ new \in Record
               /\ new.mode = r.mode /\ new.cands = r.cands /\ new.fusion = r.fusion
               /\ new.judge = [status |-> "running", acc |-> r.judge.acc,
                               atts |-> r.judge.atts \cup {x}]
               /\ new.status = DerivedStatus([new EXCEPT !.status = r.status])
<1> DEFINE x == [id |-> id, status |-> "running", basis |-> basis]
           A == r.judge.atts \cup {x}
           y == [status |-> "running", acc |-> r.judge.acc, atts |-> A]
           m == [r EXCEPT !.judge.status = "running", !.judge.atts = @ \cup {x}]
<1>1. A \in SUBSET JudgeAttempt /\ r.judge.acc \in Nat /\ "running" \in StageStatus
    BY DEF Record, JudgeAttempt, AttemptStatus, StageStatus
<1>2. JudgeStart(r, id, basis) = Restated(m)
    BY DEF JudgeStart
<1> HIDE DEF x
<1>3. /\ m \in Record /\ m.mode = r.mode /\ m.cands = r.cands /\ m.judge = y
      /\ m.fusion = r.fusion /\ m.status = r.status
    BY <1>1 DEF Record
<1> HIDE DEF m
<1>4. /\ Restated(m) \in Record /\ Restated(m).mode = m.mode /\ Restated(m).cands = m.cands
      /\ Restated(m).judge = m.judge /\ Restated(m).fusion = m.fusion
      /\ Restated(m).status = DerivedStatus([Restated(m) EXCEPT !.status = r.status])
    BY <1>3, Restates
<1>. QED
    BY <1>2, <1>3, <1>4 DEF x

LEMMA FusionStarts ==
    ASSUME NEW r \in Record, NEW id \in Nat, NEW src \in Nat, NEW basis \in [Cands -> Nat]
    PROVE  LET x   == [id |-> id, status |-> "running", judgeId |-> src, basis |-> basis]
               new == FusionStart(r, id, src, basis)
           IN  /\ new \in Record
               /\ new.mode = r.mode /\ new.cands = r.cands /\ new.judge = r.judge
               /\ new.fusion = [status |-> "running", acc |-> r.fusion.acc,
                                atts |-> r.fusion.atts \cup {x}]
               /\ new.status = DerivedStatus([new EXCEPT !.status = r.status])
<1> DEFINE x == [id |-> id, status |-> "running", judgeId |-> src, basis |-> basis]
           A == r.fusion.atts \cup {x}
           y == [status |-> "running", acc |-> r.fusion.acc, atts |-> A]
           m == [r EXCEPT !.fusion.status = "running", !.fusion.atts = @ \cup {x}]
<1>1. A \in SUBSET FusionAttempt /\ r.fusion.acc \in Nat /\ "running" \in StageStatus
    BY DEF Record, FusionAttempt, AttemptStatus, StageStatus
<1>2. FusionStart(r, id, src, basis) = Restated(m)
    BY DEF FusionStart
<1> HIDE DEF x
<1>3. /\ m \in Record /\ m.mode = r.mode /\ m.cands = r.cands /\ m.fusion = y
      /\ m.judge = r.judge /\ m.status = r.status
    BY <1>1 DEF Record
<1> HIDE DEF m
<1>4. /\ Restated(m) \in Record /\ Restated(m).mode = m.mode /\ Restated(m).cands = m.cands
      /\ Restated(m).judge = m.judge /\ Restated(m).fusion = m.fusion
      /\ Restated(m).status = DerivedStatus([Restated(m) EXCEPT !.status = r.status])
    BY <1>3, Restates
<1>. QED
    BY <1>2, <1>3, <1>4 DEF x

\* What an attempt that ended leaves of its stage.
Ended(stage, id, s) ==
    [status |-> IF s = "completed" THEN "done" ELSE "error",
     acc    |-> IF s = "completed" THEN id ELSE stage.acc,
     atts   |-> WithStatus(stage.atts, id, s)]

LEMMA JudgeEnds ==
    ASSUME NEW r \in Record, RecordIsNumbered(r), NEW id \in Nat,
           NEW s \in {"completed", "failed"}, HasAttempt(r.judge.atts, id)
    PROVE  LET new == JudgeTerminal(r, id, s)
           IN  /\ new \in Record
               /\ new.mode = r.mode /\ new.cands = r.cands /\ new.fusion = r.fusion
               /\ new.judge = Ended(r.judge, id, s)
               /\ new.status = DerivedStatus([new EXCEPT !.status = r.status])
<1> DEFINE A == WithStatus(r.judge.atts, id, s)
           y == Ended(r.judge, id, s)
           settled == [r EXCEPT !.judge.atts = A]
           m == IF s = "completed"
                THEN [settled EXCEPT !.judge.acc = id, !.judge.status = "done"]
                ELSE [settled EXCEPT !.judge.status = "error"]
<1>1. /\ r.judge.atts \in SUBSET JudgeAttempt /\ Numbered(r.judge.atts) /\ r.judge.acc \in Nat
      /\ s \in AttemptStatus /\ "done" \in StageStatus /\ "error" \in StageStatus
    BY DEF Record, RecordIsNumbered, AttemptStatus, StageStatus
<1>2. A \in SUBSET JudgeAttempt
    BY <1>1, StatusGiven
<1>3. JudgeTerminal(r, id, s) = Restated(m)
    BY DEF JudgeTerminal
<1>4. /\ m \in Record /\ m.mode = r.mode /\ m.cands = r.cands /\ m.judge = y
      /\ m.fusion = r.fusion /\ m.status = r.status
    <2> HIDE DEF A
    <2>1. CASE s = "completed"
        BY <1>1, <1>2, <2>1 DEF Ended, Record, A
    <2>2. CASE s = "failed"
        BY <1>1, <1>2, <2>2 DEF Ended, Record, A
    <2>. QED
        BY <2>1, <2>2
<1> HIDE DEF m
<1>5. /\ Restated(m) \in Record /\ Restated(m).mode = m.mode /\ Restated(m).cands = m.cands
      /\ Restated(m).judge = m.judge /\ Restated(m).fusion = m.fusion
      /\ Restated(m).status = DerivedStatus([Restated(m) EXCEPT !.status = r.status])
    BY <1>4, Restates
<1>. QED
    BY <1>3, <1>4, <1>5

LEMMA FusionEnds ==
    ASSUME NEW r \in Record, RecordIsNumbered(r), NEW id \in Nat,
           NEW s \in {"completed", "failed"}, HasAttempt(r.fusion.atts, id)
    PROVE  LET new == FusionTerminal(r, id, s)
           IN  /\ new \in Record
               /\ new.mode = r.mode /\ new.cands = r.cands /\ new.judge = r.judge
               /\ new.fusion = Ended(r.fusion, id, s)
               /\ new.status = DerivedStatus([new EXCEPT !.status = r.status])
<1> DEFINE A == WithStatus(r.fusion.atts, id, s)
           y == Ended(r.fusion, id, s)
           settled == [r EXCEPT !.fusion.atts = A]
           m == IF s = "completed"
                THEN [settled EXCEPT !.fusion.acc = id, !.fusion.status = "done"]
                ELSE [settled EXCEPT !.fusion.status = "error"]
<1>1. /\ r.fusion.atts \in SUBSET FusionAttempt /\ Numbered(r.fusion.atts)
      /\ r.fusion.acc \in Nat
      /\ s \in AttemptStatus /\ "done" \in StageStatus /\ "error" \in StageStatus
    BY DEF Record, RecordIsNumbered, AttemptStatus, StageStatus
<1>2. A \in SUBSET FusionAttempt
    BY <1>1, StatusGiven
<1>3. FusionTerminal(r, id, s) = Restated(m)
    BY DEF FusionTerminal
<1>4. /\ m \in Record /\ m.mode = r.mode /\ m.cands = r.cands /\ m.fusion = y
      /\ m.judge = r.judge /\ m.status = r.status
    <2> HIDE DEF A
    <2>1. CASE s = "completed"
        BY <1>1, <1>2, <2>1 DEF Ended, Record, A
    <2>2. CASE s = "failed"
        BY <1>1, <1>2, <2>2 DEF Ended, Record, A
    <2>. QED
        BY <2>1, <2>2
<1> HIDE DEF m
<1>5. /\ Restated(m) \in Record /\ Restated(m).mode = m.mode /\ Restated(m).cands = m.cands
      /\ Restated(m).judge = m.judge /\ Restated(m).fusion = m.fusion
      /\ Restated(m).status = DerivedStatus([Restated(m) EXCEPT !.status = r.status])
    BY <1>4, Restates
<1>. QED
    BY <1>3, <1>4, <1>5

LEMMA Stops ==
    ASSUME NEW r \in Record, RecordIsNumbered(r), NEW s \in {"aborted", "interrupted"}
    PROVE  LET new == Stopped(r, s)
           IN  /\ new \in Record /\ new.mode = r.mode /\ new.status = s
               /\ new.cands = [c \in Cands |-> [acc  |-> r.cands[c].acc,
                                                atts |-> Finalized(r.cands[c].atts, s)]]
               /\ new.judge = [r.judge EXCEPT !.atts = Finalized(r.judge.atts, s)]
               /\ new.fusion = [r.fusion EXCEPT !.atts = Finalized(r.fusion.atts, s)]
<1>1. /\ r.judge.atts \in SUBSET JudgeAttempt /\ Numbered(r.judge.atts)
      /\ r.fusion.atts \in SUBSET FusionAttempt /\ Numbered(r.fusion.atts)
      /\ \A c \in Cands : /\ r.cands[c].atts \in SUBSET CandAttempt
                          /\ r.cands[c].acc \in Nat /\ Numbered(r.cands[c].atts)
    BY DEF Record, RecordIsNumbered
<1>2. /\ Finalized(r.judge.atts, s) \in SUBSET JudgeAttempt
      /\ Finalized(r.fusion.atts, s) \in SUBSET FusionAttempt
    BY <1>1, FinalizedAll
<1>3. \A c \in Cands : Finalized(r.cands[c].atts, s) \in SUBSET CandAttempt
    BY <1>1, FinalizedAll
<1>4. [c \in Cands |-> [acc  |-> r.cands[c].acc, atts |-> Finalized(r.cands[c].atts, s)]]
         \in [Cands -> CandOutputs]
    BY <1>1, <1>3 DEF CandOutputs
<1>. QED
    BY <1>2, <1>4 DEF Stopped, Record, CandOutputs, RunStatus, Terminal
-----------------------------------------------------------------------------
(* The evidence in a record is kept by each mutation, in the state in      *)
(* which CompareRun makes it.                                              *)

LEMMA Known ==
    ASSUME NEW r, RecordInv(r)
    PROVE  /\ \A c \in Cands :
                 /\ r.cands[c].atts \in SUBSET CandAttempt /\ r.cands[c].acc \in Nat
                 /\ Numbered(r.cands[c].atts) /\ LastId(r.cands[c].atts) \in Nat
                 /\ NextId(r.cands[c].atts) \in Nat
                 /\ AcceptedIn(r.cands[c].acc, r.cands[c].atts)
           /\ r.judge.atts \in SUBSET JudgeAttempt /\ r.judge.acc \in Nat
           /\ Numbered(r.judge.atts) /\ LastId(r.judge.atts) \in Nat
           /\ NextId(r.judge.atts) \in Nat /\ AcceptedIn(r.judge.acc, r.judge.atts)
           /\ r.fusion.atts \in SUBSET FusionAttempt /\ r.fusion.acc \in Nat
           /\ Numbered(r.fusion.atts) /\ LastId(r.fusion.atts) \in Nat
           /\ NextId(r.fusion.atts) \in Nat /\ r.fusion.acc \in 0 .. Cardinality(r.fusion.atts)
<1>1. \A c \in Cands : /\ r.cands[c].atts \in SUBSET CandAttempt /\ r.cands[c].acc \in Nat
                       /\ Numbered(r.cands[c].atts)
                       /\ AcceptedIn(r.cands[c].acc, r.cands[c].atts)
    BY DEF RecordInv, Record, RecordIsNumbered
<1>2. /\ r.judge.atts \in SUBSET JudgeAttempt /\ r.judge.acc \in Nat
      /\ Numbered(r.judge.atts) /\ AcceptedIn(r.judge.acc, r.judge.atts)
      /\ r.fusion.atts \in SUBSET FusionAttempt /\ r.fusion.acc \in Nat
      /\ Numbered(r.fusion.atts) /\ r.fusion.acc \in 0 .. Cardinality(r.fusion.atts)
    BY DEF RecordInv, Record, RecordIsNumbered
<1>. QED
    BY <1>1, <1>2, Counted DEF LastId, NextId

\* Outputs and verdicts on them depend on nothing but the candidates.
LEMMA SameOutputs ==
    ASSUME NEW r, NEW new, new.cands = r.cands
    PROVE  /\ UsableCands(new) = UsableCands(r) /\ AcceptedIds(new) = AcceptedIds(r)
           /\ \A c \in Cands : UsableCand(new, c) = UsableCand(r, c)
           /\ FanoutActive(new) = FanoutActive(r)
    BY DEF UsableCands, UsableCand, AcceptedIds, FanoutActive

\* What the record `new` has of `r` when an attempt of `c` has begun.
OutputBegun(r, new, c) ==
    /\ RecordInv(new) /\ LastRuns(new.cands[c].atts)
    /\ new.judge = r.judge /\ new.fusion = r.fusion /\ new.mode = r.mode
    /\ \A d \in Cands \ {c} : new.cands[d] = r.cands[d]
    /\ AcceptedIds(new) = AcceptedIds(r)
    /\ \A a \in new.cands[c].atts : a \in r.cands[c].atts \/ a.id = LastId(new.cands[c].atts)
    /\ \A d \in Cands : new.cands[d].acc = r.cands[d].acc
    /\ \A d \in Cands : UsableCand(new, d) <=> UsableCand(r, d)
    /\ new.status = DerivedStatus([new EXCEPT !.status = r.status])

LEMMA StartedCandidate ==
    ASSUME NEW r, RecordInv(r), NEW c \in Cands
    PROVE  OutputBegun(r, CandidateAttemptStart(r, c, NextId(r.cands[c].atts)), c)
<1> DEFINE id  == NextId(r.cands[c].atts)
           x   == [id |-> id, status |-> "running", usable |-> FALSE]
           new == CandidateAttemptStart(r, c, id)
           A   == r.cands[c].atts
<1>1. /\ A \in SUBSET CandAttempt /\ r.cands[c].acc \in Nat
      /\ Numbered(A) /\ AcceptedIn(r.cands[c].acc, A) /\ id \in Nat /\ r \in Record
      /\ id = Cardinality(A) + 1 /\ Cardinality(A) \in Nat
    BY Known, Counted DEF RecordInv, NextId
<1>2. /\ new \in Record
      /\ new.mode = r.mode /\ new.judge = r.judge /\ new.fusion = r.fusion
      /\ new.cands = [r.cands EXCEPT ![c] = [acc  |-> r.cands[c].acc,
                                             atts |-> r.cands[c].atts \cup {x}]]
      /\ new.status = DerivedStatus([new EXCEPT !.status = r.status])
    BY <1>1, CandidateStarts
<1> HIDE DEF new
<1>3. /\ Numbered(A \cup {x}) /\ Cardinality(A \cup {x}) = Cardinality(A) + 1
      /\ \A a \in A : a.id # x.id
    BY <1>1, AddedIsLast
<1>4. DOMAIN r.cands = Cands
    BY <1>1 DEF Record
<1>5. /\ new.cands[c].acc = r.cands[c].acc /\ new.cands[c].atts = A \cup {x}
      /\ \A d \in Cands \ {c} : new.cands[d] = r.cands[d]
      /\ \A d \in Cands : new.cands[d].acc = r.cands[d].acc
    BY <1>2, <1>4
<1>6. AcceptedIn(r.cands[c].acc, A \cup {x})
    BY <1>1, <1>3 DEF AcceptedIn
<1>7. RecordIsNumbered(new)
    BY <1>2, <1>3, <1>5, <1>6 DEF RecordInv, RecordIsNumbered
<1>8. JudgedIn(new) /\ RestsIn(new)
    BY <1>2, <1>5 DEF RecordInv, JudgedIn, RestsIn
<1>9. UsableCand(new, c) <=> UsableCand(r, c)
    BY <1>1, <1>3, <1>5 DEF UsableCand, AcceptedIn
<1>10. \A d \in Cands : UsableCand(new, d) <=> UsableCand(r, d)
    BY <1>5, <1>9 DEF UsableCand
<1>11. LastRuns(new.cands[c].atts)
    <2>1. x \in A \cup {x} /\ x.status = "running" /\ x.id = Cardinality(A \cup {x})
        BY <1>1, <1>3
    <2>. QED
        BY <1>5, <2>1 DEF LastRuns, LastId
<1>12. AcceptedIds(new) = AcceptedIds(r)
    BY <1>5 DEF AcceptedIds
<1>13. \A a \in new.cands[c].atts : a \in A \/ a.id = LastId(new.cands[c].atts)
    BY <1>1, <1>3, <1>5 DEF LastId
<1>. QED
    BY <1>2, <1>5, <1>7, <1>8, <1>10, <1>11, <1>12, <1>13 DEF RecordInv, OutputBegun, new

\* What the record `new` has of `r` when the last attempt of `c` has ended.
OutputSettled(r, new, c, s, u) ==
    LET id == LastId(r.cands[c].atts)
    IN  /\ RecordInv(new) /\ new.mode = r.mode
        /\ new.judge = IF Replaces(r, c, id, s) THEN Withdrawn(r.judge) ELSE r.judge
        /\ new.fusion = IF Replaces(r, c, id, s) THEN Withdrawn(r.fusion) ELSE r.fusion
        /\ \A d \in Cands \ {c} : new.cands[d] = r.cands[d]
        /\ LastId(new.cands[c].atts) = id /\ id # 0 /\ id # r.cands[c].acc
        /\ \A a \in new.cands[c].atts :
              IF a.id = id THEN a.status = s ELSE a \in r.cands[c].atts
        /\ s = "completed" => new.cands[c].acc = id /\ (UsableCand(new, c) <=> u = TRUE)
        /\ s = "failed" => /\ new.cands[c].acc = r.cands[c].acc
                           /\ UsableCand(new, c) <=> UsableCand(r, c)
        /\ \A d \in Cands \ {c} : UsableCand(new, d) <=> UsableCand(r, d)
        /\ new.status = DerivedStatus([new EXCEPT !.status = r.status])

LEMMA SettledCandidate ==
    ASSUME NEW r, RecordInv(r), NEW c \in Cands, LastRuns(r.cands[c].atts),
           NEW s \in {"completed", "failed"}, NEW u \in BOOLEAN
    PROVE  OutputSettled(r, CandidateAttemptTerminal(r, c, LastId(r.cands[c].atts), s, u), c, s, u)
<1> DEFINE A   == r.cands[c].atts
           id  == LastId(A)
           new == CandidateAttemptTerminal(r, c, id, s, u)
           B   == OutputGiven(A, id, s, u)
           acc == IF s = "completed" THEN id ELSE r.cands[c].acc
<1>1. /\ A \in SUBSET CandAttempt /\ r.cands[c].acc \in Nat
      /\ Numbered(A) /\ AcceptedIn(r.cands[c].acc, A) /\ id \in Nat /\ r \in Record
      /\ id = Cardinality(A) /\ s \in AttemptStatus /\ RecordIsNumbered(r)
    BY Known DEF RecordInv, LastId, AttemptStatus
<1>2. PICK last \in A : last.id = id /\ last.status = "running"
    BY DEF LastRuns
<1>3. HasAttempt(A, id) /\ id # 0 /\ id # r.cands[c].acc
    BY <1>1, <1>2 DEF HasAttempt, Numbered, AcceptedIn
<1>4. /\ new \in Record /\ new.mode = r.mode
      /\ new.judge = IF Replaces(r, c, id, s) THEN Withdrawn(r.judge) ELSE r.judge
      /\ new.fusion = IF Replaces(r, c, id, s) THEN Withdrawn(r.fusion) ELSE r.fusion
      /\ new.cands = [r.cands EXCEPT ![c] = [acc |-> acc, atts |-> B]]
      /\ new.status = DerivedStatus([new EXCEPT !.status = r.status])
    BY <1>1, <1>3, CandidateSettles
<1> HIDE DEF new
<1>5. /\ B \in SUBSET CandAttempt /\ Numbered(B) /\ Cardinality(B) = Cardinality(A)
      /\ \A b \in B : b.id = id => b.status = s /\ b.usable = u
      /\ \A b \in B : b.id # id => b \in A
      /\ \A a \in A : a.id # id => a \in B
      /\ \E b \in B : b.id = id
    BY <1>1, <1>2, OutputIsGiven
<1> HIDE DEF B
<1>6. DOMAIN r.cands = Cands
    BY <1>1 DEF Record
<1>7. /\ new.cands[c].acc = acc /\ new.cands[c].atts = B
      /\ \A d \in Cands \ {c} : new.cands[d] = r.cands[d]
    BY <1>4, <1>6
<1>8. AcceptedIn(acc, B)
    BY <1>1, <1>3, <1>5 DEF AcceptedIn
<1>9. RecordIsNumbered(new)
    <2>1. \A d \in Cands : /\ Numbered(new.cands[d].atts)
                           /\ AcceptedIn(new.cands[d].acc, new.cands[d].atts)
        BY <1>1, <1>5, <1>7, <1>8 DEF RecordIsNumbered
    <2>2. /\ new.judge.atts = r.judge.atts /\ new.judge.acc \in {0, r.judge.acc}
          /\ new.fusion.atts = r.fusion.atts /\ new.fusion.acc \in {0, r.fusion.acc}
        BY <1>1, <1>4 DEF Withdrawn, Record
    <2>3. /\ Numbered(r.judge.atts) /\ AcceptedIn(r.judge.acc, r.judge.atts)
          /\ Numbered(r.fusion.atts) /\ r.fusion.acc \in 0 .. Cardinality(r.fusion.atts)
          /\ Cardinality(r.judge.atts) \in Nat /\ Cardinality(r.fusion.atts) \in Nat
        BY <1>1, Counted DEF RecordIsNumbered
    <2>4. AcceptedIn(0, r.judge.atts)
        BY <2>3 DEF AcceptedIn, Numbered
    <2>5. AcceptedIn(new.judge.acc, new.judge.atts)
        BY <2>2, <2>3, <2>4
    <2>. QED
        BY <2>1, <2>2, <2>3, <2>5 DEF RecordIsNumbered
<1>10. JudgedIn(new)
    <2>1. CASE Replaces(r, c, id, s)
        <3>1. new.judge.acc = 0 /\ new.judge.atts = r.judge.atts
            BY <1>1, <1>4, <2>1 DEF Withdrawn, Record
        <3>2. \A j \in r.judge.atts : j.id # 0
            BY <1>1, Counted DEF RecordIsNumbered, Numbered
        <3>. QED
            BY <3>1, <3>2 DEF JudgedIn
    <2>2. CASE ~Replaces(r, c, id, s)
        <3>1. new.judge = r.judge
            BY <1>4, <2>2
        <3>2. \A d \in Cands : new.cands[d].acc = r.cands[d].acc \/ r.cands[d].acc = 0
            BY <1>3, <1>7, <2>2 DEF Replaces
        <3>. QED
            BY <3>1, <3>2 DEF JudgedIn, RecordInv
    <2>. QED
        BY <2>1, <2>2
<1>11. RestsIn(new)
    <2>1. new.judge.atts = r.judge.atts /\ new.fusion.atts = r.fusion.atts
        BY <1>1, <1>4 DEF Withdrawn, Record
    <2>. QED
        BY <2>1 DEF RestsIn, RecordInv
<1>12. s = "completed" => (UsableCand(new, c) <=> u = TRUE)
    BY <1>5, <1>7 DEF UsableCand
<1>13. s = "failed" => (UsableCand(new, c) <=> UsableCand(r, c))
    BY <1>3, <1>5, <1>7 DEF UsableCand
<1>14. \A d \in Cands \ {c} : UsableCand(new, d) <=> UsableCand(r, d)
    BY <1>7 DEF UsableCand
<1>15. LastId(new.cands[c].atts) = id
    BY <1>1, <1>5, <1>7 DEF LastId
<1>16. \A a \in new.cands[c].atts : IF a.id = id THEN a.status = s ELSE a \in A
    BY <1>5, <1>7
<1>. QED
    BY <1>3, <1>4, <1>7, <1>9, <1>10, <1>11, <1>12, <1>13, <1>14, <1>15, <1>16
       DEF RecordInv, OutputSettled, new, B
\* What `new` has of `r` when a Judge attempt on `basis` has begun.
JudgeBegun(r, new, basis) ==
    /\ RecordInv(new) /\ new.mode = r.mode /\ new.cands = r.cands
    /\ new.fusion = r.fusion /\ new.judge.acc = r.judge.acc
    /\ new.judge.status = "running"
    /\ \A j \in r.judge.atts : j \in new.judge.atts
    /\ \E j \in new.judge.atts : j.id = LastId(new.judge.atts)
                                 /\ j.status = "running" /\ j.basis = basis
    /\ \A j \in new.judge.atts : j \in r.judge.atts \/ j.id = LastId(new.judge.atts)
    /\ new.status = DerivedStatus([new EXCEPT !.status = r.status])

\* A Judge about what is accepted, and two of it at least.
LEMMA StartedJudge ==
    ASSUME NEW r, RecordInv(r), NEW basis \in [Cands -> Nat]
    PROVE  JudgeBegun(r, JudgeStart(r, NextId(r.judge.atts), basis), basis)
<1> DEFINE A   == r.judge.atts
           id  == NextId(A)
           x   == [id |-> id, status |-> "running", basis |-> basis]
           new == JudgeStart(r, id, basis)
<1>1. /\ A \in SUBSET JudgeAttempt /\ r.judge.acc \in Nat /\ Numbered(A)
      /\ AcceptedIn(r.judge.acc, A) /\ id \in Nat /\ r \in Record
      /\ id = Cardinality(A) + 1 /\ Cardinality(A) \in Nat
    BY Known, Counted DEF RecordInv, NextId
<1>2. /\ new \in Record
      /\ new.mode = r.mode /\ new.cands = r.cands /\ new.fusion = r.fusion
      /\ new.judge = [status |-> "running", acc |-> r.judge.acc, atts |-> A \cup {x}]
      /\ new.status = DerivedStatus([new EXCEPT !.status = r.status])
    BY <1>1, JudgeStarts
<1> HIDE DEF new
<1>3. /\ Numbered(A \cup {x}) /\ Cardinality(A \cup {x}) = Cardinality(A) + 1
      /\ \A a \in A : a.id # x.id
    BY <1>1, AddedIsLast
<1>4. x \in A \cup {x} /\ x.status = "running" /\ x.basis = basis
      /\ x.id = LastId(A \cup {x}) /\ x.id # r.judge.acc
    BY <1>1, <1>3 DEF LastId, AcceptedIn
<1>5. new.judge.acc = r.judge.acc /\ new.judge.atts = A \cup {x}
      /\ new.judge.status = "running"
    BY <1>2
<1> HIDE DEF x
<1>6. AcceptedIn(r.judge.acc, A \cup {x})
    BY <1>1, <1>3, <1>4 DEF AcceptedIn
<1>7. RecordIsNumbered(new)
    BY <1>2, <1>3, <1>5, <1>6 DEF RecordInv, RecordIsNumbered
<1>8. JudgedIn(new)
    BY <1>2, <1>4, <1>5 DEF RecordInv, JudgedIn
<1>9. RestsIn(new)
    BY <1>2, <1>5 DEF RecordInv, RestsIn
<1>10. \E j \in new.judge.atts : j.id = LastId(new.judge.atts)
                                 /\ j.status = "running" /\ j.basis = basis
    BY <1>4, <1>5
<1>11. \A j \in new.judge.atts : j \in r.judge.atts \/ j.id = LastId(new.judge.atts)
    BY <1>4, <1>5
<1>. QED
    BY <1>2, <1>5, <1>7, <1>8, <1>9, <1>10, <1>11 DEF RecordInv, JudgeBegun, new

\* The basis of an attempt is accepted as it is, and has two outputs.
Founded(r, basis) ==
    /\ \A c \in Cands : basis[c] \in {0, r.cands[c].acc}
    /\ Cardinality({c \in Cands : basis[c] # 0}) >= 2

\* The same when it has ended.
JudgeEnded(r, new, basis, s) ==
    LET id == LastId(r.judge.atts)
    IN  /\ RecordInv(new) /\ new.mode = r.mode /\ new.cands = r.cands
        /\ new.fusion = r.fusion
        /\ LastId(new.judge.atts) = id /\ id # 0 /\ id # r.judge.acc
        /\ new.judge.acc = IF s = "completed" THEN id ELSE r.judge.acc
        /\ new.judge.status = IF s = "completed" THEN "done" ELSE "error"
        /\ \A a \in new.judge.atts : IF a.id = id THEN a.status = s ELSE a \in r.judge.atts
        /\ \E j \in new.judge.atts : j.id = id /\ j.status = s /\ j.basis = basis
        /\ \A j \in r.judge.atts : j.id # id => j \in new.judge.atts
        /\ new.status = DerivedStatus([new EXCEPT !.status = r.status])

LEMMA EndedJudge ==
    ASSUME NEW r, RecordInv(r), NEW basis, Founded(r, basis),
           NEW s \in {"completed", "failed"},
           \E j \in r.judge.atts :
              j.id = LastId(r.judge.atts) /\ j.status = "running" /\ j.basis = basis
    PROVE  JudgeEnded(r, JudgeTerminal(r, LastId(r.judge.atts), s), basis, s)
<1> DEFINE A   == r.judge.atts
           id  == LastId(A)
           new == JudgeTerminal(r, id, s)
           B   == WithStatus(A, id, s)
           acc == IF s = "completed" THEN id ELSE r.judge.acc
<1>1. /\ A \in SUBSET JudgeAttempt /\ r.judge.acc \in Nat /\ Numbered(A)
      /\ AcceptedIn(r.judge.acc, A) /\ id \in Nat /\ r \in Record
      /\ id = Cardinality(A) /\ s \in AttemptStatus /\ RecordIsNumbered(r)
    BY Known DEF RecordInv, LastId, AttemptStatus
<1>2. PICK last \in A : last.id = id /\ last.status = "running" /\ last.basis = basis
    OBVIOUS
<1>3. HasAttempt(A, id) /\ id # 0 /\ id # r.judge.acc
    BY <1>1, <1>2 DEF HasAttempt, Numbered, AcceptedIn
<1>4. /\ new \in Record /\ new.mode = r.mode /\ new.cands = r.cands /\ new.fusion = r.fusion
      /\ new.judge = Ended(r.judge, id, s)
      /\ new.status = DerivedStatus([new EXCEPT !.status = r.status])
    BY <1>1, <1>3, JudgeEnds
<1>5. /\ new.judge.acc = acc /\ new.judge.atts = B
      /\ new.judge.status = IF s = "completed" THEN "done" ELSE "error"
    BY <1>4 DEF Ended
<1> HIDE DEF new
<1>6. /\ B \in SUBSET JudgeAttempt /\ Numbered(B) /\ Cardinality(B) = Cardinality(A)
      /\ \A b \in B : b.id = id => /\ b.status = s
                                   /\ \E a \in A : a.id = id /\ b = [a EXCEPT !.status = s]
      /\ \A b \in B : b.id # id => b \in A
      /\ \A a \in A : a.id # id => a \in B
      /\ \A a \in A : a.id = id => [a EXCEPT !.status = s] \in B
    BY <1>1, StatusGiven
<1> HIDE DEF B
<1>7. \A b \in B : b.id = id => b.status = s /\ b.basis = basis
    <2> SUFFICES ASSUME NEW b \in B, b.id = id PROVE b.status = s /\ b.basis = basis
        OBVIOUS
    <2>1. PICK a \in A : a.id = id /\ b = [a EXCEPT !.status = s]
        BY <1>6
    <2>2. a = last
        BY <1>1, <1>2, <2>1 DEF Numbered
    <2>3. b.basis = a.basis
        BY <1>1, <2>1 DEF JudgeAttempt
    <2>. QED
        BY <1>2, <1>6, <2>2, <2>3
<1>8. \E j \in B : j.id = id
    BY <1>1, <1>2, <1>6 DEF JudgeAttempt
<1>9. AcceptedIn(acc, B)
    BY <1>1, <1>3, <1>6, <1>7 DEF AcceptedIn
<1>10. RecordIsNumbered(new)
    BY <1>1, <1>4, <1>5, <1>6, <1>9 DEF RecordIsNumbered
<1>11. JudgedIn(new)
    <2> SUFFICES ASSUME NEW j \in B, j.id = acc PROVE Founded(r, j.basis)
        BY <1>4, <1>5 DEF JudgedIn, Founded
    <2>1. CASE j.id = id
        BY <1>7, <2>1
    <2>2. CASE j.id # id
        <3>1. j \in A /\ j.id = r.judge.acc
            BY <1>6, <2>2
        <3>. QED
            BY <3>1 DEF RecordInv, JudgedIn, Founded
    <2>. QED
        BY <2>1, <2>2
<1>12. RestsIn(new)
    <2> SUFFICES ASSUME NEW f \in r.fusion.atts
                 PROVE  \E j \in B : /\ j.id = f.judgeId /\ j.status = "completed"
                                     /\ j.basis = f.basis
        BY <1>4, <1>5 DEF RestsIn
    <2>1. PICK j \in A : j.id = f.judgeId /\ j.status = "completed" /\ j.basis = f.basis
        BY DEF RecordInv, RestsIn
    <2>2. j.id # id
        BY <1>1, <1>2, <2>1 DEF Numbered
    <2>. QED
        BY <1>6, <2>1, <2>2
<1>. QED
    BY <1>1, <1>3, <1>4, <1>5, <1>6, <1>7, <1>8, <1>10, <1>11, <1>12
       DEF RecordInv, JudgeEnded, new, B, LastId

\* What `new` has of `r` when a Fusion of the report `src` has begun.
FusionBegun(r, new, src) ==
    /\ RecordInv(new) /\ new.mode = r.mode /\ new.cands = r.cands
    /\ new.judge = r.judge /\ new.fusion.acc = r.fusion.acc
    /\ new.fusion.status = "running"
    /\ \E f \in new.fusion.atts : f.id = LastId(new.fusion.atts)
                                  /\ f.status = "running" /\ f.judgeId = src
    /\ \A f \in new.fusion.atts :
          f \in r.fusion.atts
          \/ (f.id = LastId(new.fusion.atts) /\ f.id # r.fusion.acc)
    /\ new.status = DerivedStatus([new EXCEPT !.status = r.status])

\* A Fusion of the completed Judge attempt `src`.
LEMMA StartedFusion ==
    ASSUME NEW r, RecordInv(r), NEW src \in Nat, NEW basis \in [Cands -> Nat],
           \E j \in r.judge.atts : j.id = src /\ j.status = "completed" /\ j.basis = basis
    PROVE  FusionBegun(r, FusionStart(r, NextId(r.fusion.atts), src, basis), src)
<1> DEFINE A   == r.fusion.atts
           id  == NextId(A)
           x   == [id |-> id, status |-> "running", judgeId |-> src, basis |-> basis]
           new == FusionStart(r, id, src, basis)
<1>1. /\ A \in SUBSET FusionAttempt /\ r.fusion.acc \in Nat /\ Numbered(A)
      /\ r.fusion.acc \in 0 .. Cardinality(A) /\ id \in Nat /\ r \in Record
      /\ id = Cardinality(A) + 1 /\ Cardinality(A) \in Nat
    BY Known, Counted DEF RecordInv, NextId
<1>2. /\ new \in Record
      /\ new.mode = r.mode /\ new.cands = r.cands /\ new.judge = r.judge
      /\ new.fusion = [status |-> "running", acc |-> r.fusion.acc, atts |-> A \cup {x}]
      /\ new.status = DerivedStatus([new EXCEPT !.status = r.status])
    <2>1. r \in Record /\ id \in Nat
        BY <1>1
    <2> HIDE DEF id
    <2>. QED
        BY <2>1, FusionStarts, SMTT(30)
<1> HIDE DEF new
<1>3. /\ Numbered(A \cup {x}) /\ Cardinality(A \cup {x}) = Cardinality(A) + 1
      /\ \A a \in A : a.id # x.id
    BY <1>1, AddedIsLast
<1>4. x \in A \cup {x} /\ x.status = "running" /\ x.basis = basis /\ x.judgeId = src
      /\ x.id = LastId(A \cup {x}) /\ x.id # r.fusion.acc
    BY <1>1, <1>3 DEF LastId
<1>5. new.fusion.acc = r.fusion.acc /\ new.fusion.atts = A \cup {x}
      /\ new.fusion.status = "running"
    BY <1>2
<1> HIDE DEF x
<1>6. r.fusion.acc \in 0 .. Cardinality(A \cup {x})
    BY <1>1, <1>3
<1>7. RecordIsNumbered(new)
    BY <1>2, <1>3, <1>5, <1>6 DEF RecordInv, RecordIsNumbered
<1>8. JudgedIn(new)
    BY <1>2 DEF RecordInv, JudgedIn
<1>9. RestsIn(new)
    BY <1>2, <1>4, <1>5 DEF RecordInv, RestsIn
<1>10. \E f \in new.fusion.atts : f.id = LastId(new.fusion.atts)
                                  /\ f.status = "running" /\ f.judgeId = src
    BY <1>4, <1>5
<1>11. \A f \in new.fusion.atts :
          f \in r.fusion.atts \/ (f.id = LastId(new.fusion.atts) /\ f.id # r.fusion.acc)
    BY <1>4, <1>5
<1>. QED
    BY <1>2, <1>5, <1>7, <1>8, <1>9, <1>10, <1>11 DEF RecordInv, FusionBegun, new

\* The same when it has ended.
FusionEnded(r, new, src, s) ==
    LET id == LastId(r.fusion.atts)
    IN  /\ RecordInv(new) /\ new.mode = r.mode /\ new.cands = r.cands
        /\ new.judge = r.judge
        /\ LastId(new.fusion.atts) = id /\ id # 0
        /\ new.fusion.acc = IF s = "completed" THEN id ELSE r.fusion.acc
        /\ new.fusion.status = IF s = "completed" THEN "done" ELSE "error"
        /\ \A a \in new.fusion.atts : IF a.id = id THEN a.status = s ELSE a \in r.fusion.atts
        /\ \E f \in new.fusion.atts : f.id = id
        /\ \A f \in new.fusion.atts : f.id = id => f.judgeId = src
        /\ \A f \in new.fusion.atts : \E g \in r.fusion.atts :
              g.id = f.id /\ g.judgeId = f.judgeId
        /\ new.status = DerivedStatus([new EXCEPT !.status = r.status])

LEMMA EndedFusion ==
    ASSUME NEW r, RecordInv(r), NEW src, NEW s \in {"completed", "failed"},
           LastRuns(r.fusion.atts),
           \E f \in r.fusion.atts : f.id = LastId(r.fusion.atts) /\ f.judgeId = src
    PROVE  FusionEnded(r, FusionTerminal(r, LastId(r.fusion.atts), s), src, s)
<1> DEFINE A   == r.fusion.atts
           id  == LastId(A)
           new == FusionTerminal(r, id, s)
           B   == WithStatus(A, id, s)
           acc == IF s = "completed" THEN id ELSE r.fusion.acc
<1>1. /\ A \in SUBSET FusionAttempt /\ r.fusion.acc \in Nat /\ Numbered(A)
      /\ r.fusion.acc \in 0 .. Cardinality(A) /\ id \in Nat /\ r \in Record
      /\ id = Cardinality(A) /\ s \in AttemptStatus /\ RecordIsNumbered(r)
    BY Known DEF RecordInv, LastId, AttemptStatus
<1>2. PICK last \in A : last.id = id /\ last.judgeId = src
    OBVIOUS
<1>3. HasAttempt(A, id) /\ id # 0
    BY <1>1, <1>2 DEF HasAttempt, Numbered
<1>4. /\ new \in Record /\ new.mode = r.mode /\ new.cands = r.cands /\ new.judge = r.judge
      /\ new.fusion = Ended(r.fusion, id, s)
      /\ new.status = DerivedStatus([new EXCEPT !.status = r.status])
    BY <1>1, <1>3, FusionEnds
<1>5. /\ new.fusion.acc = acc /\ new.fusion.atts = B
      /\ new.fusion.status = IF s = "completed" THEN "done" ELSE "error"
    BY <1>4 DEF Ended
<1> HIDE DEF new
<1>6. /\ B \in SUBSET FusionAttempt /\ Numbered(B) /\ Cardinality(B) = Cardinality(A)
      /\ \A b \in B : b.id = id => /\ b.status = s
                                   /\ \E a \in A : a.id = id /\ b = [a EXCEPT !.status = s]
      /\ \A b \in B : b.id # id => b \in A
      /\ \A a \in A : a.id = id => [a EXCEPT !.status = s] \in B
    BY <1>1, StatusGiven
<1> HIDE DEF B
<1>7. \A b \in B : \E a \in A : a.id = b.id /\ a.judgeId = b.judgeId /\ a.basis = b.basis
    <2> SUFFICES ASSUME NEW b \in B, b.id = id
                 PROVE  \E a \in A : a.id = b.id /\ a.judgeId = b.judgeId /\ a.basis = b.basis
        BY <1>6
    <2>1. PICK a \in A : a.id = id /\ b = [a EXCEPT !.status = s]
        BY <1>6
    <2>2. b.judgeId = a.judgeId /\ b.basis = a.basis
        BY <1>1, <2>1 DEF FusionAttempt
    <2>. QED
        BY <2>1, <2>2
<1>8. \A b \in B : b.id = id => b.judgeId = src
    BY <1>1, <1>2, <1>7 DEF Numbered
<1>9. \E b \in B : b.id = id
    BY <1>1, <1>2, <1>6 DEF FusionAttempt
<1>10. RecordIsNumbered(new)
    BY <1>1, <1>3, <1>4, <1>5, <1>6 DEF RecordIsNumbered
<1>11. JudgedIn(new)
    BY <1>4 DEF RecordInv, JudgedIn
<1>12. RestsIn(new)
    BY <1>4, <1>5, <1>7 DEF RecordInv, RestsIn
<1>. QED
    BY <1>1, <1>3, <1>4, <1>5, <1>6, <1>7, <1>8, <1>9, <1>10, <1>11, <1>12
       DEF RecordInv, FusionEnded, new, B, LastId

\* What `new` has of `r` when the run is stopped.
RunStopped(r, new, s) ==
    /\ RecordInv(new) /\ new.mode = r.mode /\ new.status = s
    /\ \A c \in Cands : new.cands[c].acc = r.cands[c].acc
    /\ new.judge.acc = r.judge.acc /\ new.fusion.acc = r.fusion.acc
    /\ AcceptedIds(new) = AcceptedIds(r)
    /\ \A c \in Cands : UsableCand(new, c) <=> UsableCand(r, c)
    /\ \A j \in r.judge.atts : j.status # "running" => j \in new.judge.atts
    /\ \A f \in new.fusion.atts : \E g \in r.fusion.atts :
          g.id = f.id /\ g.judgeId = f.judgeId
    /\ ~FanoutActive(new) /\ ~Active(new.judge.atts) /\ ~Active(new.fusion.atts)

\* A run that is stopped, by an abort or by a sweep.
LEMMA StoppedRun ==
    ASSUME NEW r, RecordInv(r), NEW s \in {"aborted", "interrupted"}
    PROVE  RunStopped(r, Stopped(r, s), s)
<1> DEFINE new == Stopped(r, s)
           C(c) == Finalized(r.cands[c].atts, s)
           J    == Finalized(r.judge.atts, s)
           F    == Finalized(r.fusion.atts, s)
<1>1. /\ \A c \in Cands : /\ r.cands[c].atts \in SUBSET CandAttempt
                          /\ Numbered(r.cands[c].atts)
                          /\ AcceptedIn(r.cands[c].acc, r.cands[c].atts)
      /\ r.judge.atts \in SUBSET JudgeAttempt /\ Numbered(r.judge.atts)
      /\ AcceptedIn(r.judge.acc, r.judge.atts)
      /\ r.fusion.atts \in SUBSET FusionAttempt /\ Numbered(r.fusion.atts)
      /\ r.fusion.acc \in 0 .. Cardinality(r.fusion.atts)
      /\ r \in Record /\ RecordIsNumbered(r)
    BY Known DEF RecordInv
<1>2. /\ new \in Record /\ new.mode = r.mode /\ new.status = s
      /\ \A c \in Cands : new.cands[c].acc = r.cands[c].acc /\ new.cands[c].atts = C(c)
      /\ new.judge.acc = r.judge.acc /\ new.judge.atts = J
      /\ new.fusion.acc = r.fusion.acc /\ new.fusion.atts = F
    <2>1. /\ new \in Record /\ new.mode = r.mode /\ new.status = s
          /\ new.cands = [c \in Cands |-> [acc |-> r.cands[c].acc, atts |-> C(c)]]
          /\ new.judge = [r.judge EXCEPT !.atts = J]
          /\ new.fusion = [r.fusion EXCEPT !.atts = F]
        BY <1>1, Stops
    <2> HIDE DEF new, C, J, F
    <2>. QED
        BY <1>1, <2>1 DEF Record
<1> HIDE DEF new
<1>3. \A c \in Cands :
         /\ Numbered(C(c)) /\ Cardinality(C(c)) = Cardinality(r.cands[c].atts) /\ ~Active(C(c))
         /\ \A b \in C(c) : b \in r.cands[c].atts
                            \/ \E a \in r.cands[c].atts : a.status = "running"
                                                          /\ b = [a EXCEPT !.status = s]
         /\ \A a \in r.cands[c].atts : a.status # "running" => a \in C(c)
    BY <1>1, FinalizedAll
<1>4. /\ Numbered(J) /\ Cardinality(J) = Cardinality(r.judge.atts) /\ ~Active(J)
      /\ \A b \in J : b \in r.judge.atts
                      \/ \E a \in r.judge.atts : a.status = "running"
                                                 /\ b = [a EXCEPT !.status = s]
      /\ \A a \in r.judge.atts : a.status # "running" => a \in J
    BY <1>1, FinalizedAll
<1>5. /\ Numbered(F) /\ Cardinality(F) = Cardinality(r.fusion.atts) /\ ~Active(F)
      /\ \A b \in F : b \in r.fusion.atts
                      \/ \E a \in r.fusion.atts : a.status = "running"
                                                  /\ b = [a EXCEPT !.status = s]
    BY <1>1, FinalizedAll
<1> HIDE DEF C, J, F
\* An attempt that was running was not accepted.
<1>6. \A c \in Cands : \A b \in C(c) : b.id = r.cands[c].acc => b \in r.cands[c].atts
    BY <1>1, <1>3 DEF AcceptedIn, CandAttempt
<1>7. \A b \in J : b.id = r.judge.acc => b \in r.judge.atts
    BY <1>1, <1>4 DEF AcceptedIn, JudgeAttempt
<1>8. \A b \in F : \E g \in r.fusion.atts :
         g.id = b.id /\ g.judgeId = b.judgeId /\ g.basis = b.basis
    <2> SUFFICES ASSUME NEW b \in F, NEW a \in r.fusion.atts, b = [a EXCEPT !.status = s]
                 PROVE  a.id = b.id /\ a.judgeId = b.judgeId /\ a.basis = b.basis
        BY <1>5
    <2>. QED
        BY <1>1 DEF FusionAttempt
<1>9. RecordIsNumbered(new)
    <2>1. \A c \in Cands : AcceptedIn(r.cands[c].acc, C(c))
        BY <1>1, <1>3, <1>6 DEF AcceptedIn
    <2>2. AcceptedIn(r.judge.acc, J)
        BY <1>1, <1>4, <1>7 DEF AcceptedIn
    <2>. QED
        BY <1>1, <1>2, <1>3, <1>4, <1>5, <2>1, <2>2 DEF RecordIsNumbered
<1>10. JudgedIn(new)
    <2>1. \A j \in J : j.id = r.judge.acc => Founded(r, j.basis)
        BY <1>7 DEF RecordInv, JudgedIn, Founded
    <2>. QED
        BY <1>2, <2>1 DEF JudgedIn, Founded
<1>11. RestsIn(new)
    <2>1. \A f \in F : \E j \in r.judge.atts :
             j.id = f.judgeId /\ j.status = "completed" /\ j.basis = f.basis
        BY <1>8 DEF RecordInv, RestsIn
    <2>. QED
        BY <1>2, <1>4, <2>1 DEF RestsIn
<1>12. \A c \in Cands : UsableCand(new, c) <=> UsableCand(r, c)
    BY <1>1, <1>2, <1>3, <1>6 DEF UsableCand, AcceptedIn
<1>13. AcceptedIds(new) = AcceptedIds(r)
    BY <1>2 DEF AcceptedIds
<1>14. ~FanoutActive(new) /\ ~Active(new.judge.atts) /\ ~Active(new.fusion.atts)
    BY <1>2, <1>3, <1>4, <1>5 DEF FanoutActive
<1>. QED
    BY <1>2, <1>4, <1>8, <1>9, <1>10, <1>11, <1>12, <1>13, <1>14 DEF RecordInv, RunStopped, new
-----------------------------------------------------------------------------
(* The pipeline and the commands: every step keeps EvidenceInv.            *)

LEMMA RestatedRun == ASSUME NEW r, RecordInv(r) PROVE RecordInv(Restated(r))
<1>1. LET new == Restated(r)
      IN  /\ new \in Record /\ new.cands = r.cands
          /\ new.judge = r.judge /\ new.fusion = r.fusion
    BY Restates DEF RecordInv
<1>. QED
    BY <1>1 DEF RecordInv, RecordIsNumbered, JudgedIn, RestsIn

\* Positions of commands, and what has them.
Pc == {"none", "begin", "cands", "ending", "start", "started", "calling", "done",
       "failing", "failed"}

LEMMA CmdTypes ==
    NoCmd \in Cmd /\ NoTask \in [Cands -> Task] /\ BlankUi \in Ui
<1>1. NoCmd \in Cmd
    BY DEF NoCmd, Cmd, NoIds
<1>2. NoTask \in [Cands -> Task] /\ BlankUi \in Ui
    BY DEF NoTask, Task, BlankUi, Ui, StageStatus
<1>. QED
    BY <1>1, <1>2

LEMMA CmdMoves ==
    ASSUME NEW x \in Cmd, NEW p \in Pc
    PROVE  LET y == [x EXCEPT !.pc = p]
           IN  /\ y \in Cmd /\ y.pc = p /\ y.kind = x.kind /\ y.stage = x.stage
               /\ y.ids = x.ids /\ y.src = x.src
    BY DEF Cmd, Pc

\* When the command is over, only what is shown is left to be kept.
LEMMA OverKeeps ==
    ASSUME EvidenceInv, CompareTypeOK', RecordInv(rec'), cmd' = NoCmd, task' = NoTask,
           bound' => ShownIsAccepted'
    PROVE  EvidenceInv'
<1>1. /\ cmd'.kind = "none" /\ cmd'.pc = "none" /\ cmd'.stage = "none"
      /\ \A c \in Cands : task'[c] = "idle"
    BY DEF NoCmd, NoTask
<1>2. Positions'
    BY <1>1 DEF Positions
<1>3. TasksAreLast' /\ FrozenIsAccepted' /\ StageRests' /\ TwoAreFrozen' /\ TakenAway'
    BY <1>1 DEF TasksAreLast, FrozenIsAccepted, Idle, StageRests, InStage, TwoAreFrozen,
                TakenAway
<1>. QED
    BY <1>2, <1>3 DEF EvidenceInv, BoundInv

\* What is shown may only lose something when the record is as it was.
ShowsNoMore(u, v) ==
    /\ UsableShown(u) \subseteq UsableShown(v)
    /\ u.judge = "done" => v.judge = "done"
    /\ u.fusion = "done" => v.fusion = "done"

LEMMA ShownStays ==
    ASSUME EvidenceInv, rec' = rec, bound' => bound, ShowsNoMore(ui', ui)
    PROVE  bound' => ShownIsAccepted'
<1>1. UsableShown(ui)' = UsableShown(ui')
    BY DEF UsableShown
<1>. QED
    BY <1>1 DEF EvidenceInv, BoundInv, ShownIsAccepted, ShowsNoMore, UsableCands, UsableCand,
                AcceptedIds

\* An outcome of runFanout that is reported changes nothing that matters.
LEMMA ReportTypes ==
    ASSUME NEW u \in Ui PROVE Reported(u) \in Ui /\ ShowsNoMore(Reported(u), u)
    BY DEF Reported, ShowsNoMore, UsableShown, Ui

LEMMA EndsKeeps ==
    ASSUME EvidenceInv, rec' = rec, bound' = bound, commands' = commands,
           upset' \subseteq Upset, EndsShowing(ui)
    PROVE  EvidenceInv'
<1>1. ui' \in Ui /\ ShowsNoMore(ui', ui) /\ cmd' = NoCmd /\ task' = NoTask
    BY ReportTypes DEF EndsShowing, EvidenceInv, CompareTypeOK
<1>2. CompareTypeOK'
    BY <1>1, CmdTypes DEF EvidenceInv, CompareTypeOK
<1>3. bound' => ShownIsAccepted'
    BY <1>1, ShownStays
<1>. QED
    BY <1>1, <1>2, <1>3, OverKeeps DEF EvidenceInv

LEMMA FailedWrite ==
    ASSUME EvidenceInv, NEW new, WriteFails(new)
    PROVE  rec' = rec /\ upset' \subseteq Upset /\ bound
    BY DEF WriteFails, EvidenceInv, CompareTypeOK, Upset

LEMMA FanoutShownKeeps == ASSUME EvidenceInv, FanoutShown PROVE EvidenceInv'
<1>1. /\ cmd.kind = "fanout" /\ cmd.stage = "none" /\ bound /\ cmd \in Cmd
      /\ task = NoTask /\ rec' = rec
    BY DEF FanoutShown, EvidenceInv, Positions, CompareTypeOK
<1>2. /\ cmd'.kind = "fanout" /\ cmd'.stage = "none" /\ cmd'.pc = "cands"
      /\ cmd'.ids = cmd.ids /\ cmd' \in Cmd
      /\ \A c \in Cands : task'[c] = "start"
      /\ ui' \in Ui /\ ui'.judge = "idle" /\ ui'.fusion = "idle"
      /\ \A c \in Cands : ui'.cands[c] = "pending"
    <2>1. cmd' = [cmd EXCEPT !.pc = "cands"] /\ "cands" \in Pc
        BY DEF FanoutShown, Pc
    <2>2. /\ \A c \in Cands : task'[c] = "start"
          /\ ui' \in Ui /\ ui'.judge = "idle" /\ ui'.fusion = "idle"
          /\ \A c \in Cands : ui'.cands[c] = "pending"
        BY DEF FanoutShown, BlankUi, Ui, StageStatus
    <2>3. /\ cmd'.kind = cmd.kind /\ cmd'.stage = cmd.stage /\ cmd'.pc = "cands"
          /\ cmd'.ids = cmd.ids /\ cmd' \in Cmd
        BY <1>1, <2>1, CmdMoves
    <2>. QED
        BY <1>1, <2>2, <2>3
<1>3. CompareTypeOK'
    BY <1>1, <1>2 DEF FanoutShown, EvidenceInv, CompareTypeOK, Task
<1>4. Positions'
    BY <1>1, <1>2 DEF FanoutShown, Positions
<1>5. FrozenIsAccepted'
    <2>1. \A c \in Cands : cmd.ids[c] = rec.cands[c].acc
        BY <1>1 DEF FanoutShown, EvidenceInv, BoundInv, FrozenIsAccepted, Idle, NoTask
    <2>. QED
        BY <1>1, <1>2, <2>1 DEF FrozenIsAccepted
<1>6. TasksAreLast' /\ StageRests' /\ TwoAreFrozen' /\ ShownIsAccepted' /\ TakenAway'
    BY <1>2 DEF TasksAreLast, StageRests, InStage, TwoAreFrozen, ShownIsAccepted, TakenAway,
                UsableShown
<1>. QED
    BY <1>1, <1>3, <1>4, <1>5, <1>6 DEF EvidenceInv, BoundInv
\* A candidate's part of a command is under way.
LEMMA AtCands ==
    ASSUME EvidenceInv, NEW c \in Cands, task[c] # "idle"
    PROVE  /\ cmd.pc = "cands" /\ cmd.stage = "none" /\ ~Idle /\ cmd.kind \in {"fanout", "retry"}
           /\ cmd \in Cmd /\ ui \in Ui /\ task \in [Cands -> Task]
           /\ bound => ui.judge # "done" /\ ui.fusion # "done" /\ ui.cands[c] = "pending"
<1>1. cmd.pc = "cands"
    BY DEF EvidenceInv, Positions, NoTask
<1>2. cmd.stage = "none" /\ ~Idle /\ cmd.kind \in {"fanout", "retry"}
    BY <1>1 DEF EvidenceInv, Positions, Idle
<1>. QED
    BY <1>1, <1>2 DEF EvidenceInv, CompareTypeOK, BoundInv, TakenAway

LEMMA TaskGoes ==
    ASSUME EvidenceInv, NEW c \in Cands, NEW s \in Task, TaskTo(c, s)
    PROVE  /\ task' \in [Cands -> Task] /\ task'[c] = s
           /\ \A d \in Cands \ {c} : task'[d] = task[d]
    BY DEF TaskTo, EvidenceInv, CompareTypeOK

\* Where only a task moves on, to a state in which it promises nothing.
LEMMA TaskKeeps ==
    ASSUME EvidenceInv, NEW c \in Cands, task[c] \in {"start", "unstarted", "stream"},
           NEW s \in {"idle", "unstarted", "bad"}, TaskTo(c, s), rec' = rec,
           upset' \subseteq Upset, UNCHANGED <<cmd, ui, bound, commands>>
    PROVE  EvidenceInv'
<1>1. cmd.pc = "cands" /\ cmd.stage = "none" /\ (bound => ui.cands[c] = "pending")
    BY AtCands
<1>2. /\ task' \in [Cands -> Task] /\ task'[c] = s
      /\ \A d \in Cands \ {c} : task'[d] = task[d]
    BY TaskGoes DEF Task
<1>3. CompareTypeOK'
    BY <1>2 DEF EvidenceInv, CompareTypeOK
<1>4. RecordInv(rec')
    BY DEF EvidenceInv
<1>5. Positions'
    BY <1>1 DEF EvidenceInv, Positions
<1>6. ASSUME bound' PROVE BoundInv'
    <2>1. BoundInv /\ bound /\ TasksAreLast /\ FrozenIsAccepted /\ StageRests /\ TwoAreFrozen
          /\ ShownIsAccepted /\ TakenAway
        BY <1>6 DEF EvidenceInv, BoundInv
    <2>2. TasksAreLast'
        BY <1>2, <2>1 DEF TasksAreLast, UsableCand
    <2>3. FrozenIsAccepted'
        BY <1>2, <2>1 DEF FrozenIsAccepted, Idle
    <2>4. StageRests' /\ TwoAreFrozen'
        BY <2>1 DEF StageRests, TwoAreFrozen, InStage
    <2>5. ShownIsAccepted'
        BY <2>1 DEF ShownIsAccepted, UsableShown, UsableCands, UsableCand, AcceptedIds
    <2>6. TakenAway'
        BY <1>1, <1>2, <2>1 DEF TakenAway, Idle
    <2>. QED
        BY <2>2, <2>3, <2>4, <2>5, <2>6 DEF BoundInv
<1>. QED
    BY <1>3, <1>4, <1>5, <1>6 DEF EvidenceInv, BoundInv

LEMMA CandStartKeeps == ASSUME EvidenceInv, NEW c \in Cands, CandStart(c) PROVE EvidenceInv'
<1> DEFINE new == CandidateAttemptStart(rec, c, NextId(rec.cands[c].atts))
<1>1. task[c] = "start" /\ UNCHANGED <<cmd, ui, bound, commands>>
    BY DEF CandStart
<1>2. /\ cmd.pc = "cands" /\ cmd.stage = "none" /\ ~Idle
      /\ bound => ui.judge # "done" /\ ui.fusion # "done" /\ ui.cands[c] = "pending"
    BY <1>1, AtCands
<1>3. CASE WriteFails(new) /\ TaskTo(c, "unstarted")
    BY <1>1, <1>3, FailedWrite, TaskKeeps
<1>4. CASE Commit(new) /\ TaskTo(c, "stream")
    <2>1. /\ task' \in [Cands -> Task] /\ task'[c] = "stream"
          /\ \A d \in Cands \ {c} : task'[d] = task[d]
        BY <1>4, TaskGoes DEF Task
    <2>2. upset' = upset /\ rec' = IF bound THEN new ELSE rec
        BY <1>4 DEF Commit
    <2>3. RecordInv(new) /\ new \in Record
        BY StartedCandidate DEF EvidenceInv, RecordInv, OutputBegun
    <2>4. RecordInv(rec') /\ rec' \in Record
        BY <2>2, <2>3 DEF EvidenceInv, RecordInv
    <2>5. CompareTypeOK'
        BY <1>1, <2>1, <2>2, <2>4 DEF EvidenceInv, CompareTypeOK
    <2>6. Positions'
        BY <1>1, <1>2 DEF EvidenceInv, Positions
    <2>7. ASSUME bound' PROVE BoundInv'
        <3>1. bound /\ TasksAreLast /\ FrozenIsAccepted /\ ShownIsAccepted /\ TakenAway
            BY <1>1, <2>7 DEF EvidenceInv, BoundInv
        <3>2. rec' = new
            BY <2>2, <3>1
        <3> HIDE DEF new
        <3>3. /\ LastRuns(rec'.cands[c].atts)
              /\ rec'.judge = rec.judge /\ rec'.fusion = rec.fusion
              /\ \A d \in Cands \ {c} : rec'.cands[d] = rec.cands[d]
              /\ AcceptedIds(rec') = AcceptedIds(rec)
              /\ \A d \in Cands : rec'.cands[d].acc = rec.cands[d].acc
              /\ \A d \in Cands : UsableCand(rec', d) <=> UsableCand(rec, d)
            BY <3>2, StartedCandidate DEF EvidenceInv, OutputBegun, new
        <3>4. \A d \in Cands : UsableCand(rec, d)' <=> UsableCand(rec', d)
            BY DEF UsableCand
        <3>5. TasksAreLast'
            BY <2>1, <3>1, <3>3, <3>4 DEF TasksAreLast, LastRuns, LastId
        <3>6. FrozenIsAccepted'
            BY <1>1, <1>2, <2>1, <3>1, <3>3 DEF FrozenIsAccepted
        <3>7. StageRests' /\ TwoAreFrozen'
            BY <1>1, <1>2 DEF StageRests, TwoAreFrozen, InStage
        <3>8. ShownIsAccepted'
            BY <1>1, <1>2, <3>1, <3>3, <3>4 DEF ShownIsAccepted, UsableShown, UsableCands
        <3>9. TakenAway'
            BY <1>1, <1>2, <2>1, <3>1 DEF TakenAway, Idle
        <3>. QED
            BY <3>5, <3>6, <3>7, <3>8, <3>9 DEF BoundInv
    <2>. QED
        BY <2>4, <2>5, <2>6, <2>7 DEF EvidenceInv, BoundInv
<1>. QED
    BY <1>3, <1>4 DEF CandStart

\* The builder does not find the attempt that was not written.
LEMMA NextIsUnknown ==
    ASSUME NEW r, RecordInv(r), NEW c \in Cands
    PROVE  ~HasAttempt(r.cands[c].atts, NextId(r.cands[c].atts))
    BY Known, Counted DEF HasAttempt, NextId, Numbered

LEMMA CandUnstartedKeeps ==
    ASSUME EvidenceInv, NEW c \in Cands, CandUnstarted(c) PROVE EvidenceInv'
<1> DEFINE id  == NextId(rec.cands[c].atts)
           new == CandidateAttemptTerminal(rec, c, id, "failed", FALSE)
<1>1. task[c] = "unstarted" /\ UNCHANGED <<cmd, ui, bound, commands>>
    BY DEF CandUnstarted
<1>2. new = rec
    BY NextIsUnknown, CandidateUnknown DEF EvidenceInv
<1> HIDE DEF new
<1>3. CASE Commit(new) /\ TaskTo(c, "bad")
    <2>1. rec' = rec /\ upset' \subseteq Upset
        BY <1>2, <1>3 DEF Commit, EvidenceInv, CompareTypeOK
    <2>. QED
        BY <1>1, <1>3, <2>1, TaskKeeps
<1>4. CASE WriteFails(new) /\ TaskTo(c, "idle")
    BY <1>1, <1>4, FailedWrite, TaskKeeps
<1>. QED
    BY <1>3, <1>4 DEF CandUnstarted, new
LEMMA CandSettleKeeps == ASSUME EvidenceInv, NEW c \in Cands, CandSettle(c) PROVE EvidenceInv'
<1>1. task[c] = "stream" /\ UNCHANGED <<cmd, ui, bound, commands>>
    BY DEF CandSettle
<1>2. PICK out \in {"ok", "blank", "bad"} :
         LET status == IF out = "bad" THEN "failed" ELSE "completed"
             id     == LastId(rec.cands[c].atts)
             new    == CandidateAttemptTerminal(rec, c, id, status, out = "ok")
         IN  \/ Commit(new) /\ TaskTo(c, out)
             \/ WriteFails(new) /\ TaskTo(c, "idle")
    BY DEF CandSettle
<1> DEFINE s   == IF out = "bad" THEN "failed" ELSE "completed"
           u   == out = "ok"
           id  == LastId(rec.cands[c].atts)
           new == CandidateAttemptTerminal(rec, c, id, s, u)
<1>3. /\ cmd.pc = "cands" /\ cmd.stage = "none" /\ ~Idle
      /\ bound => ui.judge # "done" /\ ui.fusion # "done" /\ ui.cands[c] = "pending"
    BY <1>1, AtCands
<1>4. CASE WriteFails(new) /\ TaskTo(c, "idle")
    <2>1. rec' = rec /\ upset' \subseteq Upset
        BY <1>4, FailedWrite
    <2> HIDE DEF new
    <2>. QED
        BY <1>1, <1>4, <2>1, TaskKeeps
<1>5. CASE Commit(new) /\ TaskTo(c, out)
    <2>1. /\ task' \in [Cands -> Task] /\ task'[c] = out
          /\ \A d \in Cands \ {c} : task'[d] = task[d]
        BY <1>5, TaskGoes DEF Task
    <2>2. upset' = upset /\ rec' = IF bound THEN new ELSE rec
        BY <1>5 DEF Commit
    <2> HIDE DEF new
    <2>3. ASSUME bound
          PROVE  /\ RecordInv(new)
                 /\ new.cands[c].acc # 0 \/ out = "bad"
                 /\ out # "bad" => new.cands[c].acc = LastId(new.cands[c].atts)
                 /\ out = "ok" => UsableCand(new, c)
                 /\ out = "blank" => ~UsableCand(new, c)
                 /\ out = "bad" => new.cands[c].acc = rec.cands[c].acc
                 /\ \A d \in Cands \ {c} : new.cands[d] = rec.cands[d]
                 /\ \A d \in Cands \ {c} : UsableCand(new, d) <=> UsableCand(rec, d)
        <3>1. LastRuns(rec.cands[c].atts) /\ RecordInv(rec)
            BY <1>1, <2>3 DEF EvidenceInv, BoundInv, TasksAreLast
        <3>2. s \in {"completed", "failed"} /\ u \in BOOLEAN
            OBVIOUS
        <3> HIDE DEF s, u
        <3>3. OutputSettled(rec, new, c, s, u)
            BY <3>1, <3>2, SettledCandidate DEF new
        <3>. QED
            BY <3>3 DEF OutputSettled, s, u
    <2>4. RecordInv(rec') /\ rec' \in Record
        BY <2>2, <2>3 DEF EvidenceInv, RecordInv
    <2>5. CompareTypeOK'
        BY <1>1, <2>1, <2>2, <2>4 DEF EvidenceInv, CompareTypeOK
    <2>6. Positions'
        BY <1>1, <1>3 DEF EvidenceInv, Positions
    <2>7. ASSUME bound' PROVE BoundInv'
        <3>1. bound /\ TasksAreLast /\ FrozenIsAccepted /\ ShownIsAccepted /\ TakenAway
            BY <1>1, <2>7 DEF EvidenceInv, BoundInv
        <3>2. rec' = new
            BY <2>2, <3>1
        <3>3. \A d \in Cands : UsableCand(rec, d)' <=> UsableCand(new, d)
            BY <3>2 DEF UsableCand
        <3>4. TasksAreLast'
            BY <2>1, <2>3, <3>1, <3>2, <3>3 DEF TasksAreLast, LastRuns, LastId
        <3>5. FrozenIsAccepted'
            BY <1>1, <1>3, <2>1, <2>3, <3>1, <3>2 DEF FrozenIsAccepted
        <3>6. StageRests' /\ TwoAreFrozen'
            BY <1>1, <1>3 DEF StageRests, TwoAreFrozen, InStage
        <3>7. ShownIsAccepted'
            BY <1>1, <1>3, <2>3, <3>1, <3>3 DEF ShownIsAccepted, UsableShown, UsableCands
        <3>8. TakenAway'
            BY <1>1, <1>3, <2>1, <3>1 DEF TakenAway, Idle
        <3>. QED
            BY <3>4, <3>5, <3>6, <3>7, <3>8 DEF BoundInv
    <2>. QED
        BY <2>4, <2>5, <2>6, <2>7 DEF EvidenceInv, BoundInv
<1>. QED
    BY <1>2, <1>4, <1>5 DEF new

LEMMA CandShowKeeps == ASSUME EvidenceInv, NEW c \in Cands, CandShow(c) PROVE EvidenceInv'
<1>1. /\ task[c] \in {"ok", "blank", "bad"} /\ TaskTo(c, "idle")
      /\ UNCHANGED <<rec, bound, commands, upset>>
    BY DEF CandShow
<1>2. /\ cmd.pc = "cands" /\ cmd.stage = "none" /\ ~Idle /\ cmd.kind \in {"fanout", "retry"}
      /\ cmd \in Cmd /\ ui \in Ui
      /\ bound => ui.judge # "done" /\ ui.fusion # "done" /\ ui.cands[c] = "pending"
    BY <1>1, AtCands
<1>3. /\ task' \in [Cands -> Task] /\ task'[c] = "idle"
      /\ \A d \in Cands \ {c} : task'[d] = task[d]
    BY <1>1, TaskGoes DEF Task
<1>4. /\ ui' \in Ui /\ ui'.judge = ui.judge /\ ui'.fusion = ui.fusion
      /\ ui'.cands[c] = "done" => task[c] = "ok"
      /\ \A d \in Cands \ {c} : ui'.cands[d] = ui.cands[d]
    <2> DEFINE b == ui.running /\ cmd.kind = "fanout"
    <2>1. b \in BOOLEAN
        OBVIOUS
    <2>2. ui' = IF task[c] = "bad"
                THEN [ui EXCEPT !.cands[c] = "error", !.running = b]
                ELSE [ui EXCEPT !.cands[c] = IF task[c] = "ok" THEN "done" ELSE "empty"]
        BY DEF CandShow
    <2> HIDE DEF b
    <2>3. CASE task[c] = "bad"
        BY <1>2, <2>1, <2>2, <2>3 DEF Ui
    <2>4. CASE task[c] # "bad"
        BY <1>2, <2>2, <2>4 DEF Ui
    <2>. QED
        BY <2>3, <2>4
<1>5. /\ cmd' \in Cmd /\ cmd'.pc = "cands" /\ cmd'.stage = "none" /\ cmd'.kind = cmd.kind
      /\ \A d \in Cands \ {c} : cmd'.ids[d] = cmd.ids[d]
      /\ task[c] = "bad" => cmd'.ids[c] = cmd.ids[c]
      /\ task[c] # "bad" => cmd'.ids[c] = LastId(rec.cands[c].atts)
    <2>1. LastId(rec.cands[c].atts) \in Nat
        BY Known DEF EvidenceInv
    <2>2. CASE task[c] = "bad"
        BY <1>2, <2>2 DEF CandShow
    <2>3. CASE task[c] # "bad"
        <3>1. cmd' = [cmd EXCEPT !.ids[c] = LastId(rec.cands[c].atts)]
            BY <2>3 DEF CandShow
        <3>. QED
            BY <1>2, <2>1, <2>3, <3>1 DEF Cmd
    <2>. QED
        BY <2>2, <2>3
<1>6. CompareTypeOK'
    BY <1>1, <1>3, <1>4, <1>5 DEF EvidenceInv, CompareTypeOK
<1>7. Positions'
    BY <1>1, <1>2, <1>5 DEF EvidenceInv, Positions
<1>8. ASSUME bound' PROVE BoundInv'
    <2>1. bound /\ TasksAreLast /\ FrozenIsAccepted /\ ShownIsAccepted /\ TakenAway
        BY <1>1, <1>8 DEF EvidenceInv, BoundInv
    <2>2. \A d \in Cands : UsableCand(rec, d)' <=> UsableCand(rec, d)
        BY <1>1 DEF UsableCand
    <2>3. TasksAreLast'
        BY <1>1, <1>3, <2>1, <2>2 DEF TasksAreLast
    <2>4. FrozenIsAccepted'
        BY <1>1, <1>2, <1>3, <1>5, <2>1 DEF FrozenIsAccepted, TasksAreLast
    <2>5. StageRests' /\ TwoAreFrozen'
        BY <1>5 DEF StageRests, TwoAreFrozen, InStage
    <2>6. ShownIsAccepted'
        BY <1>1, <1>2, <1>4, <2>1, <2>2 DEF ShownIsAccepted, TasksAreLast, UsableShown, UsableCands
    <2>7. TakenAway'
        BY <1>2, <1>3, <1>4, <1>5, <2>1 DEF TakenAway, Idle
    <2>. QED
        BY <2>3, <2>4, <2>5, <2>6, <2>7 DEF BoundInv
<1>. QED
    BY <1>1, <1>6, <1>7, <1>8 DEF EvidenceInv, BoundInv
LEMMA FanoutSettleKeeps == ASSUME EvidenceInv, FanoutSettle PROVE EvidenceInv'
<1>1. /\ cmd.pc = "cands" /\ task = NoTask /\ cmd.kind = "fanout" /\ cmd.stage = "none"
      /\ bound /\ cmd \in Cmd /\ UNCHANGED <<bound, commands>>
    BY DEF FanoutSettle, CandsOver, EvidenceInv, Positions, CompareTypeOK
<1>2. CASE WriteFails(FanoutTerminal(rec)) /\ EndsShowing(ui)
    BY <1>1, <1>2, FailedWrite, EndsKeeps
<1>3. CASE /\ Commit(FanoutTerminal(rec)) /\ cmd' = [cmd EXCEPT !.pc = "ending"]
           /\ UNCHANGED <<task, ui>>
    <2>1. rec' = Restated(rec) /\ upset' = upset
        BY <1>1, <1>3 DEF Commit, FanoutTerminal
    <2>2. RecordInv(rec') /\ rec' \in Record
        BY <2>1, RestatedRun DEF EvidenceInv, RecordInv
    <2>3. rec'.cands = rec.cands /\ rec'.judge = rec.judge /\ rec'.fusion = rec.fusion
        BY <2>1, Restates DEF EvidenceInv, RecordInv
    <2>4. /\ cmd' \in Cmd /\ cmd'.pc = "ending" /\ cmd'.stage = "none"
          /\ cmd'.kind = "fanout" /\ cmd'.ids = cmd.ids
        BY <1>1, <1>3, CmdMoves DEF Pc
    <2>5. CompareTypeOK'
        BY <1>1, <1>3, <2>1, <2>2, <2>4 DEF EvidenceInv, CompareTypeOK
    <2>6. Positions'
        BY <1>1, <1>3, <2>4 DEF Positions
    <2>7. FrozenIsAccepted /\ ShownIsAccepted /\ TakenAway /\ \A c \in Cands : task[c] = "idle"
        BY <1>1 DEF EvidenceInv, BoundInv, NoTask
    <2>8. FrozenIsAccepted' /\ TakenAway'
        BY <1>1, <1>3, <2>3, <2>4, <2>7 DEF FrozenIsAccepted, TakenAway, Idle
    <2>9. TasksAreLast' /\ StageRests' /\ TwoAreFrozen'
        BY <1>3, <2>4, <2>7 DEF TasksAreLast, StageRests, TwoAreFrozen, InStage
    <2>10. ShownIsAccepted'
        BY <1>3, <2>3, <2>7, SMTT(30) DEF ShownIsAccepted, UsableShown, UsableCands, UsableCand, AcceptedIds
    <2>. QED
        BY <2>2, <2>5, <2>6, <2>8, <2>9, <2>10 DEF EvidenceInv, BoundInv
<1>. QED
    BY <1>2, <1>3 DEF FanoutSettle

\* Outputs shown as usable are accepted ones.
LEMMA TwoAccepted ==
    ASSUME EvidenceInv, bound, Cardinality(UsableShown(ui)) >= 2
    PROVE  Cardinality({c \in Cands : rec.cands[c].acc # 0}) >= 2
<1>1. UsableShown(ui) \subseteq {c \in Cands : rec.cands[c].acc # 0}
    <2> SUFFICES ASSUME NEW c \in UsableShown(ui) PROVE c \in Cands /\ rec.cands[c].acc # 0
        OBVIOUS
    <2>1. c \in Cands /\ UsableCand(rec, c)
        BY DEF EvidenceInv, BoundInv, ShownIsAccepted, UsableCands
    <2>. QED
        BY <2>1, Known, Counted DEF EvidenceInv, UsableCand, Numbered
<1>2. IsFiniteSet({c \in Cands : rec.cands[c].acc # 0}) /\ IsFiniteSet(UsableShown(ui))
    BY CandsAssumption, FS_Subset DEF UsableShown
<1>. QED
    BY <1>1, <1>2, FS_Subset, FS_CardinalityType

\* The candidates are settled, and the command goes on to its Judge.
LEMMA GoesToJudge ==
    ASSUME EvidenceInv, CandsOver \/ cmd.pc = "ending", Cardinality(UsableShown(ui)) >= 2,
           ToStage("judge", 0), UNCHANGED <<rec, task, ui, bound, commands, upset>>
    PROVE  EvidenceInv'
<1>1. /\ cmd.stage = "none" /\ cmd.kind # "none" /\ task = NoTask /\ cmd \in Cmd
      /\ \A c \in Cands : task[c] = "idle"
    BY DEF CandsOver, EvidenceInv, Positions, CompareTypeOK, NoTask
<1>2. /\ cmd' \in Cmd /\ cmd'.pc = "start" /\ cmd'.stage = "judge"
      /\ cmd'.kind = cmd.kind /\ cmd'.ids = cmd.ids
    BY <1>1 DEF ToStage, Cmd
<1>3. CompareTypeOK'
    BY <1>2 DEF EvidenceInv, CompareTypeOK
<1>4. RecordInv(rec') /\ Positions'
    <2>1. cmd.kind # "fusion"
        BY <1>1 DEF EvidenceInv, Positions
    <2>. QED
        BY <1>1, <1>2, <2>1 DEF EvidenceInv, Positions
<1>5. ASSUME bound' PROVE BoundInv'
    <2>1. bound /\ FrozenIsAccepted /\ ShownIsAccepted /\ TakenAway
        BY <1>5 DEF EvidenceInv, BoundInv
    <2>2. \A c \in Cands : cmd.ids[c] = rec.cands[c].acc
        BY <1>1, <2>1 DEF FrozenIsAccepted, Idle
    <2>3. FrozenIsAccepted' /\ TasksAreLast' /\ StageRests'
        BY <1>1, <1>2, <2>2 DEF FrozenIsAccepted, TasksAreLast, StageRests, InStage
    <2>4. TwoAreFrozen'
        <3>1. {c \in Cands : cmd'.ids[c] # 0} = {c \in Cands : rec.cands[c].acc # 0}
            BY <1>2, <2>2
        <3>. QED
            BY <2>1, <3>1, TwoAccepted DEF TwoAreFrozen
    <2>5. ShownIsAccepted'
        BY <2>1 DEF ShownIsAccepted, UsableShown, UsableCands, UsableCand, AcceptedIds
    <2>6. TakenAway'
        BY <1>1, <1>2, <2>1 DEF TakenAway, Idle
    <2>. QED
        BY <2>3, <2>4, <2>5, <2>6 DEF BoundInv
<1>. QED
    BY <1>3, <1>4, <1>5 DEF EvidenceInv, BoundInv

LEMMA UpsetKept == ASSUME EvidenceInv, upset' = upset PROVE upset' \subseteq Upset
    BY DEF EvidenceInv, CompareTypeOK

LEMMA FanoutEndKeeps == ASSUME EvidenceInv, FanoutEnd PROVE EvidenceInv'
    BY GoesToJudge, EndsKeeps, UpsetKept DEF FanoutEnd

LEMMA RetrySettledKeeps == ASSUME EvidenceInv, RetrySettled PROVE EvidenceInv'
    BY GoesToJudge, EndsKeeps, UpsetKept DEF RetrySettled
-----------------------------------------------------------------------------
(* The stages.                                                             *)

StagePc == {"start", "started", "calling", "done", "failing", "failed"}

\* A command in one of its stages, and what it may rely on.
LEMMA AtStage ==
    ASSUME EvidenceInv, cmd.pc \in StagePc
    PROVE  /\ cmd.stage \in {"judge", "fusion"} /\ cmd.kind # "none" /\ ~Idle
           /\ task = NoTask /\ (\A c \in Cands : task[c] = "idle") /\ cmd \in Cmd /\ ui \in Ui
           /\ cmd.kind = "fusion" => cmd.stage = "fusion"
           /\ cmd.kind = "fanout" => bound
           /\ bound => /\ \A c \in Cands : cmd.ids[c] = rec.cands[c].acc
                       /\ Founded(rec, cmd.ids)
                       /\ cmd.ids = AcceptedIds(rec)
                       /\ cmd.stage = "judge" => ui.judge # "done"
                       /\ StageRests /\ TwoAreFrozen /\ ShownIsAccepted /\ TakenAway
<1>1. cmd.stage \in {"judge", "fusion"} /\ cmd.kind # "none" /\ ~Idle /\ task = NoTask
      /\ cmd \in Cmd /\ ui \in Ui
    BY DEF StagePc, EvidenceInv, Positions, CompareTypeOK, Cmd, Idle
<1>2. /\ cmd.kind = "fusion" => cmd.stage = "fusion"
      /\ cmd.kind = "fanout" => bound
      /\ \A c \in Cands : task[c] = "idle"
    BY <1>1 DEF EvidenceInv, Positions, NoTask
<1>3. ASSUME bound
      PROVE  /\ StageRests /\ TwoAreFrozen /\ ShownIsAccepted /\ TakenAway
             /\ \A c \in Cands : cmd.ids[c] = rec.cands[c].acc
             /\ cmd.stage = "judge" => ui.judge # "done"
    BY <1>1, <1>2, <1>3 DEF EvidenceInv, BoundInv, FrozenIsAccepted, TakenAway
<1>4. ASSUME bound PROVE Founded(rec, cmd.ids)
    BY <1>1, <1>3, <1>4 DEF Founded, TwoAreFrozen
<1>5. ASSUME bound PROVE cmd.ids = AcceptedIds(rec)
    BY <1>1, <1>3, <1>5 DEF AcceptedIds, Cmd
<1>. QED
    BY <1>1, <1>2, <1>3, <1>4, <1>5

\* A step of a stage that stays in it, or goes on from it: what is left to be
\* shown of it.
LEMMA StageKeeps ==
    ASSUME EvidenceInv, cmd.pc \in StagePc, cmd' \in Cmd, cmd'.pc \in StagePc,
           cmd'.stage \in {cmd.stage, "fusion"}, cmd'.kind = cmd.kind, cmd'.ids = cmd.ids,
           RecordInv(rec'), rec'.cands = rec.cands, ui' \in Ui, upset' \subseteq Upset,
           UNCHANGED <<task, bound, commands>>,
           bound => StageRests' /\ ShownIsAccepted' /\ TakenAway'
    PROVE  EvidenceInv'
<1>1. cmd.stage # "none" /\ cmd.kind # "none" /\ (\A c \in Cands : task[c] = "idle")
      /\ task = NoTask /\ (cmd.kind = "fusion" => cmd.stage = "fusion")
      /\ (cmd.kind = "fanout" => bound)
    BY AtStage
<1>2. CompareTypeOK'
    BY DEF EvidenceInv, CompareTypeOK, RecordInv
<1>3. Positions'
    BY <1>1 DEF Positions, StagePc
<1>4. ASSUME bound PROVE TasksAreLast' /\ FrozenIsAccepted' /\ TwoAreFrozen'
    <2>1. (\A c \in Cands : cmd.ids[c] = rec.cands[c].acc) /\ TwoAreFrozen
        BY <1>4, AtStage
    <2>. QED
        BY <1>1, <2>1 DEF TasksAreLast, FrozenIsAccepted, TwoAreFrozen
<1>. QED
    BY <1>2, <1>3, <1>4 DEF EvidenceInv, BoundInv

LEMMA PcMoves ==
    ASSUME EvidenceInv, cmd.pc \in StagePc, NEW p \in StagePc, PcTo(p)
    PROVE  /\ cmd' \in Cmd /\ cmd'.pc = p /\ cmd'.kind = cmd.kind /\ cmd'.stage = cmd.stage
           /\ cmd'.ids = cmd.ids /\ cmd'.src = cmd.src
<1>1. cmd \in Cmd /\ p \in Pc
    BY AtStage DEF Pc, StagePc
<1>. QED
    BY <1>1, CmdMoves DEF PcTo

LEMMA StageStartKeeps == ASSUME EvidenceInv, StageStart PROVE EvidenceInv'
<1> DEFINE new == Attempted(cmd.stage)
<1>1. cmd.pc = "start" /\ cmd.pc \in StagePc /\ UNCHANGED <<bound, commands>>
    BY DEF StageStart, StagePc
<1>2. CASE WriteFails(new) /\ EndsShowing(ui)
    BY <1>1, <1>2, FailedWrite, EndsKeeps
<1>3. CASE Commit(new) /\ PcTo("started") /\ UNCHANGED <<task, ui>>
    <2>1. /\ cmd' \in Cmd /\ cmd'.pc = "started" /\ cmd'.pc \in StagePc /\ cmd'.kind = cmd.kind
          /\ cmd'.stage = cmd.stage /\ cmd'.ids = cmd.ids /\ cmd'.src = cmd.src
        BY <1>1, <1>3, PcMoves DEF StagePc
    <2>2. upset' \subseteq Upset /\ rec' = IF bound THEN new ELSE rec
        BY <1>3 DEF Commit, EvidenceInv, CompareTypeOK
    <2>3. ui' \in Ui /\ ui' = ui
        BY <1>3 DEF EvidenceInv, CompareTypeOK
    <2> HIDE DEF new
    <2>4. CASE ~bound
        <3>1. RecordInv(rec') /\ rec'.cands = rec.cands
            BY <2>2, <2>4 DEF EvidenceInv
        <3>. QED
            BY <1>1, <1>3, <2>1, <2>2, <2>3, <2>4, <3>1, StageKeeps
    <2>5. CASE bound /\ cmd.stage = "judge"
        <3>1. new = JudgeStart(rec, NextId(rec.judge.atts), cmd.ids)
              /\ cmd.ids \in [Cands -> Nat] /\ RecordInv(rec)
            BY <1>1, <2>5, AtStage DEF new, Attempted, Cmd, EvidenceInv
        <3>2. /\ RecordInv(new) /\ new.cands = rec.cands
              /\ new.fusion = rec.fusion /\ new.judge.acc = rec.judge.acc
              /\ \E j \in new.judge.atts : /\ j.id = LastId(new.judge.atts)
                                           /\ j.status = "running" /\ j.basis = cmd.ids
            <4>1. JudgeBegun(rec, new, cmd.ids)
                BY <3>1, StartedJudge
            <4>. QED
                BY <4>1 DEF JudgeBegun
        <3>3. rec' = new
            BY <2>2, <2>5
        <3>4. StageRests'
            BY <2>1, <2>5, <3>2, <3>3 DEF StageRests, InStage
        <3>5. ShownIsAccepted /\ TakenAway /\ ui.judge # "done"
            BY <1>1, <2>5, AtStage
        <3>6. ShownIsAccepted'
            BY <2>3, <3>2, <3>3, <3>5
               DEF ShownIsAccepted, UsableShown, UsableCands, UsableCand
        <3>7. TakenAway'
            BY <1>3, <2>1, <2>5, <3>5 DEF TakenAway, Idle
        <3>. QED
            BY <1>1, <1>3, <2>1, <2>2, <2>3, <3>2, <3>3, <3>4, <3>6, <3>7, StageKeeps
    <2>6. CASE bound /\ cmd.stage = "fusion"
        <3>1. StageRests /\ ShownIsAccepted /\ TakenAway
            BY <1>1, <2>6, AtStage
        <3>2. \E j \in rec.judge.atts : /\ j.id = rec.judge.acc /\ j.status = "completed"
                                        /\ j.basis = cmd.ids /\ j.id = cmd.src
            BY <2>6, <3>1 DEF StageRests
        <3>3. /\ new = FusionStart(rec, NextId(rec.fusion.atts), cmd.src, cmd.ids)
              /\ cmd.ids \in [Cands -> Nat] /\ cmd.src \in Nat /\ RecordInv(rec)
            BY <1>1, <2>6, AtStage DEF new, Attempted, Cmd, EvidenceInv
        <3>4. /\ RecordInv(new) /\ new.cands = rec.cands
              /\ new.judge = rec.judge /\ new.fusion.acc = rec.fusion.acc
              /\ \E f \in new.fusion.atts : /\ f.id = LastId(new.fusion.atts)
                                            /\ f.status = "running" /\ f.judgeId = cmd.src
              /\ \A f \in new.fusion.atts :
                    f \in rec.fusion.atts
                    \/ (f.id = LastId(new.fusion.atts) /\ f.id # rec.fusion.acc)
            <4>1. FusionBegun(rec, new, cmd.src)
                BY <3>2, <3>3, StartedFusion
            <4>. QED
                BY <4>1 DEF FusionBegun
        <3>5. rec' = new
            BY <2>2, <2>6
        <3>6. StageRests'
            BY <2>1, <2>6, <3>2, <3>4, <3>5 DEF StageRests, InStage, LastRuns
        <3>7. ShownIsAccepted'
            <4>1. UsableShown(ui)' \subseteq UsableCands(rec)'
                BY <2>3, <3>1, <3>4, <3>5
                   DEF ShownIsAccepted, UsableShown, UsableCands, UsableCand
            <4>2. AcceptedIds(rec)' = AcceptedIds(rec) /\ rec'.judge = rec.judge
                BY <3>4, <3>5 DEF AcceptedIds
            <4>3. ui'.fusion = "done" => \A f \in new.fusion.atts :
                     f.id = rec.fusion.acc => f.judgeId = rec.judge.acc
                BY <2>3, <3>1, <3>4 DEF ShownIsAccepted
            <4>. QED
                BY <2>3, <3>1, <3>4, <3>5, <4>1, <4>2, <4>3 DEF ShownIsAccepted
        <3>8. TakenAway'
            BY <1>3, <2>1, <2>6, <3>1 DEF TakenAway, Idle
        <3>. QED
            BY <1>1, <1>3, <2>1, <2>2, <2>3, <3>4, <3>5, <3>6, <3>7, <3>8, StageKeeps
    <2>. QED
        BY <1>1, <2>4, <2>5, <2>6, AtStage
<1>. QED
    BY <1>2, <1>3 DEF StageStart, new

LEMMA StageShownKeeps == ASSUME EvidenceInv, StageShown PROVE EvidenceInv'
<1>1. cmd.pc = "started" /\ cmd.pc \in StagePc /\ "calling" \in StagePc
      /\ UNCHANGED <<rec, task, bound, commands, upset>>
    BY DEF StageShown, StagePc
<1>2. cmd.stage \in {"judge", "fusion"} /\ ui \in Ui /\ \A c \in Cands : task[c] = "idle"
    BY <1>1, AtStage
<1>3. /\ cmd' \in Cmd /\ cmd'.pc = "calling" /\ cmd'.kind = cmd.kind
      /\ cmd'.stage = cmd.stage /\ cmd'.ids = cmd.ids /\ cmd'.src = cmd.src
    BY <1>1, PcMoves DEF StageShown
<1>4. /\ ui' \in Ui /\ ShowsNoMore(ui', ui)
      /\ cmd.stage = "judge" => ui'.judge # "done" /\ ui'.fusion # "done"
    <2>1. CASE cmd.stage = "judge"
        BY <1>2, <2>1 DEF StageShown, Ui, StageStatus, ShowsNoMore, UsableShown
    <2>2. CASE cmd.stage = "fusion"
        BY <1>2, <2>2 DEF StageShown, Ui, StageStatus, ShowsNoMore, UsableShown
    <2>. QED
        BY <1>2, <2>1, <2>2
<1>5. RecordInv(rec') /\ rec'.cands = rec.cands /\ upset' \subseteq Upset
    BY <1>1 DEF EvidenceInv, CompareTypeOK
<1>6. bound' => ShownIsAccepted'
    BY <1>1, <1>4, ShownStays
<1>7. ASSUME bound PROVE StageRests' /\ TakenAway'
    <2>1. StageRests /\ TakenAway
        BY <1>1, <1>7, AtStage
    <2>2. StageRests'
        BY <1>1, <1>2, <1>3, <2>1 DEF StageRests, InStage, LastRuns
    <2>3. TakenAway'
        BY <1>1, <1>2, <1>3, <1>4, <2>1 DEF TakenAway, Idle
    <2>. QED
        BY <2>2, <2>3
<1>. QED
    BY <1>1, <1>3, <1>4, <1>5, <1>6, <1>7, StageKeeps
\* What a stage writes at its end, in either way.
LEMMA SettledStage ==
    ASSUME EvidenceInv, bound, cmd.pc \in {"calling", "failing"},
           NEW s \in {"completed", "failed"}
    PROVE  /\ cmd.stage = "judge" => JudgeEnded(rec, Settled("judge", s), cmd.ids, s)
           /\ cmd.stage = "fusion" => FusionEnded(rec, Settled("fusion", s), cmd.src, s)
<1>1. /\ cmd.stage \in {"judge", "fusion"} /\ StageRests /\ Founded(rec, cmd.ids)
      /\ RecordInv(rec)
    BY AtStage DEF StagePc, EvidenceInv
<1>2. CASE cmd.stage = "judge"
    <2>1. \E j \in rec.judge.atts : /\ j.id = LastId(rec.judge.atts)
                                    /\ j.status = "running" /\ j.basis = cmd.ids
        BY <1>1, <1>2 DEF StageRests, InStage
    <2>2. Settled("judge", s) = JudgeTerminal(rec, LastId(rec.judge.atts), s)
        BY DEF Settled
    <2>. QED
        BY <1>1, <1>2, <2>1, <2>2, EndedJudge
<1>3. CASE cmd.stage = "fusion"
    <2>1. /\ LastRuns(rec.fusion.atts)
          /\ \E f \in rec.fusion.atts : f.id = LastId(rec.fusion.atts) /\ f.judgeId = cmd.src
        BY <1>1, <1>3 DEF StageRests, InStage
    <2>2. Settled("fusion", s) = FusionTerminal(rec, LastId(rec.fusion.atts), s)
        BY DEF Settled
    <2>. QED
        BY <1>1, <1>3, <2>1, <2>2, EndedFusion
<1>. QED
    BY <1>1, <1>2, <1>3

\* A stage that ends, with its result or its failure written.
LEMMA StageEnds ==
    ASSUME EvidenceInv, cmd.pc \in {"calling", "failing"}, NEW s \in {"completed", "failed"},
           Commit(Settled(cmd.stage, s)), PcTo(IF s = "completed" THEN "done" ELSE "failed"),
           cmd.pc = "calling" \/ s = "failed",
           UNCHANGED <<task, ui, bound, commands>>
    PROVE  EvidenceInv'
<1> DEFINE new == Settled(cmd.stage, s)
           p   == IF s = "completed" THEN "done" ELSE "failed"
<1>1. cmd.pc \in StagePc /\ p \in StagePc
    BY DEF StagePc
<1>2. /\ cmd' \in Cmd /\ cmd'.pc = p /\ cmd'.kind = cmd.kind
      /\ cmd'.stage = cmd.stage /\ cmd'.ids = cmd.ids /\ cmd'.src = cmd.src
    BY <1>1, PcMoves
<1>3. upset' \subseteq Upset /\ (rec' = IF bound THEN new ELSE rec) /\ ui' \in Ui
    BY DEF Commit, EvidenceInv, CompareTypeOK
<1>4. /\ cmd.stage \in {"judge", "fusion"} /\ \A c \in Cands : task[c] = "idle"
      /\ RecordInv(rec)
    BY <1>1, AtStage DEF EvidenceInv
<1>5. CASE ~bound
    <2>1. RecordInv(rec') /\ rec'.cands = rec.cands
        BY <1>3, <1>4, <1>5
    <2>. QED
        BY <1>1, <1>2, <1>3, <1>5, <2>1, StageKeeps
<1>6. ASSUME bound PROVE /\ StageRests /\ ShownIsAccepted /\ TakenAway /\ rec' = new
                         /\ cmd.stage = "judge" => ui.judge # "done" /\ ui.fusion # "done"
    <2>1. StageRests /\ ShownIsAccepted /\ TakenAway
          /\ (cmd.stage = "judge" => ui.judge # "done")
        BY <1>1, <1>6, AtStage
    <2>. QED
        BY <1>3, <1>6, <2>1 DEF TakenAway
<1>7. CASE bound /\ cmd.stage = "judge"
    <2>1. JudgeEnded(rec, new, cmd.ids, s)
        BY <1>7, SettledStage
    <2> HIDE DEF new
    <2>2. /\ RecordInv(new) /\ new.cands = rec.cands
          /\ LastId(new.judge.atts) = LastId(rec.judge.atts)
          /\ s = "completed" => new.judge.acc = LastId(rec.judge.atts)
          /\ \E j \in new.judge.atts : /\ j.id = LastId(rec.judge.atts) /\ j.status = s
                                       /\ j.basis = cmd.ids
        BY <2>1 DEF JudgeEnded
    <2>3. StageRests'
        BY <1>2, <1>6, <1>7, <2>2 DEF StageRests, InStage
    <2>4. ShownIsAccepted' /\ TakenAway'
        BY <1>2, <1>4, <1>6, <1>7, <2>2
           DEF ShownIsAccepted, UsableShown, UsableCands, UsableCand, TakenAway, Idle
    <2>. QED
        BY <1>1, <1>2, <1>3, <1>6, <1>7, <2>2, <2>3, <2>4, StageKeeps
<1>8. CASE bound /\ cmd.stage = "fusion"
    <2>1. FusionEnded(rec, new, cmd.src, s)
        BY <1>8, SettledStage
    <2> HIDE DEF new
    <2> DEFINE id == LastId(rec.fusion.atts)
    <2>2. /\ RecordInv(new) /\ new.cands = rec.cands /\ new.judge = rec.judge
          /\ LastId(new.fusion.atts) = id /\ id # 0
          /\ new.fusion.acc = IF s = "completed" THEN id ELSE rec.fusion.acc
          /\ \E f \in new.fusion.atts : f.id = id
          /\ \A f \in new.fusion.atts : f.id = id => f.judgeId = cmd.src
          /\ \A f \in new.fusion.atts : \E g \in rec.fusion.atts :
                g.id = f.id /\ g.judgeId = f.judgeId
        BY <2>1 DEF FusionEnded
    <2> HIDE DEF id
    <2>3. \E j \in rec.judge.atts : /\ j.id = rec.judge.acc /\ j.status = "completed"
                                    /\ j.basis = cmd.ids /\ j.id = cmd.src
        BY <1>6, <1>8 DEF StageRests
    <2>4. StageRests'
        <3>1. ~InStage("judge")' /\ ~InStage("fusion")'
            BY <1>2 DEF InStage
        <3>2. rec'.judge = rec.judge /\ rec'.fusion = new.fusion
            BY <1>6, <1>8, <2>2
        <3>3. \E j \in rec'.judge.atts : /\ j.id = rec'.judge.acc /\ j.status = "completed"
                                         /\ j.basis = cmd'.ids /\ j.id = cmd'.src
            BY <1>2, <2>3, <3>2
        <3>4. s = "completed" => \E f \in rec'.fusion.atts :
                 /\ f.id = LastId(rec'.fusion.atts) /\ f.judgeId = cmd'.src
                 /\ f.id = rec'.fusion.acc
            BY <1>2, <2>2, <3>2
        <3>. QED
            BY <1>2, <1>8, <3>1, <3>3, <3>4 DEF StageRests
    <2>5. ShownIsAccepted'
        <3>1. UsableShown(ui)' \subseteq UsableCands(rec)'
            BY <1>6, <1>8, <2>2 DEF ShownIsAccepted, UsableShown, UsableCands, UsableCand
        <3>2. AcceptedIds(rec)' = AcceptedIds(rec) /\ rec'.judge = rec.judge
            BY <1>6, <1>8, <2>2 DEF AcceptedIds
        <3>3. ui.fusion = "done" =>
                 /\ new.fusion.acc # 0
                 /\ \A f \in new.fusion.atts : f.id = new.fusion.acc => f.judgeId = rec.judge.acc
            <4>1. CASE s = "completed"
                BY <2>2, <2>3, <4>1
            <4>2. CASE s = "failed"
                BY <1>6, <1>8, <2>2, <4>2 DEF ShownIsAccepted
            <4>. QED
                BY <4>1, <4>2
        <3>. QED
            BY <1>6, <1>8, <3>1, <3>2, <3>3 DEF ShownIsAccepted
    <2>6. TakenAway'
        BY <1>2, <1>4, <1>6, <1>8 DEF TakenAway, Idle
    <2>. QED
        BY <1>1, <1>2, <1>3, <1>6, <1>8, <2>2, <2>4, <2>5, <2>6, StageKeeps
<1>. QED
    BY <1>4, <1>5, <1>7, <1>8

\* A stage that has failed to write its result, or to get one.
LEMMA StageGoesFailing ==
    ASSUME EvidenceInv, cmd.pc = "calling", PcTo("failing"), rec' = rec, upset' \subseteq Upset,
           UNCHANGED <<task, ui, bound, commands>>
    PROVE  EvidenceInv'
<1>1. cmd.pc \in StagePc /\ "failing" \in StagePc
    BY DEF StagePc
<1>2. /\ cmd' \in Cmd /\ cmd'.pc = "failing" /\ cmd'.kind = cmd.kind
      /\ cmd'.stage = cmd.stage /\ cmd'.ids = cmd.ids /\ cmd'.src = cmd.src
    BY <1>1, PcMoves
<1>3. RecordInv(rec') /\ rec'.cands = rec.cands /\ ui' \in Ui
    BY DEF EvidenceInv, CompareTypeOK
<1>4. bound' => ShownIsAccepted'
    BY ShownStays DEF ShowsNoMore
<1>5. ASSUME bound PROVE StageRests' /\ TakenAway'
    <2>1. StageRests /\ TakenAway /\ \A c \in Cands : task[c] = "idle"
        BY <1>1, <1>5, AtStage
    <2>. QED
        BY <1>2, <2>1 DEF StageRests, InStage, LastRuns, TakenAway, Idle
<1>. QED
    BY <1>1, <1>2, <1>3, <1>4, <1>5, StageKeeps

LEMMA StageSettleKeeps == ASSUME EvidenceInv, StageSettle PROVE EvidenceInv'
<1> DEFINE new == Settled(cmd.stage, "completed")
<1>1. cmd.pc = "calling" /\ UNCHANGED <<task, ui, bound, commands>>
    BY DEF StageSettle
<1>2. CASE Commit(new) /\ PcTo("done")
    BY <1>1, <1>2, StageEnds
<1>3. CASE WriteFails(new) /\ PcTo("failing")
    BY <1>1, <1>3, FailedWrite, StageGoesFailing
<1>4. CASE PcTo("failing") /\ UNCHANGED <<rec, upset>>
    BY <1>1, <1>4, UpsetKept, StageGoesFailing
<1>. QED
    BY <1>2, <1>3, <1>4 DEF StageSettle

LEMMA StageFailKeeps == ASSUME EvidenceInv, StageFail PROVE EvidenceInv'
<1> DEFINE new == Settled(cmd.stage, "failed")
<1>1. cmd.pc = "failing" /\ UNCHANGED <<bound, commands>>
    BY DEF StageFail
<1>2. CASE Commit(new) /\ PcTo("failed") /\ UNCHANGED <<task, ui>>
    BY <1>1, <1>2, StageEnds
<1>3. CASE WriteFails(new) /\ EndsShowing(ui)
    BY <1>1, <1>3, FailedWrite, EndsKeeps
<1>. QED
    BY <1>2, <1>3 DEF StageFail
\* The report of the command is the accepted one, and about what is accepted.
LEMMA JudgeShownKeeps == ASSUME EvidenceInv, JudgeShown PROVE EvidenceInv'
<1> DEFINE b == ui.running /\ rec.mode = "fuse"
           u == [ui EXCEPT !.judge = "done", !.running = b]
<1>1. /\ cmd.pc = "done" /\ cmd.pc \in StagePc /\ cmd.stage = "judge"
      /\ UNCHANGED <<rec, bound, commands, upset>>
    BY DEF JudgeShown, StagePc
<1>2. /\ task = NoTask /\ cmd \in Cmd /\ ui \in Ui /\ \A c \in Cands : task[c] = "idle"
    BY <1>1, AtStage
<1>3. /\ u \in Ui /\ UsableShown(u) = UsableShown(ui) /\ u.fusion = ui.fusion
      /\ u.cands = ui.cands
    <2>1. b \in BOOLEAN
        OBVIOUS
    <2> HIDE DEF b
    <2>. QED
        BY <1>2, <2>1 DEF Ui, StageStatus, UsableShown
<1>4. \/ rec.mode = "fuse" /\ ui' = u /\ ToStage("fusion", LastId(rec.judge.atts))
         /\ UNCHANGED task
      \/ rec.mode # "fuse" /\ EndsShowing(u)
    BY DEF JudgeShown
<1>5. ASSUME bound
      PROVE  /\ ShownIsAccepted /\ TakenAway /\ ui.fusion # "done"
             /\ \E j \in rec.judge.atts :
                   /\ j.id = rec.judge.acc /\ j.status = "completed" /\ j.basis = cmd.ids
                   /\ j.id = LastId(rec.judge.atts)
             /\ cmd.ids = AcceptedIds(rec)
    <2>1. StageRests /\ ShownIsAccepted /\ TakenAway /\ cmd.ids = AcceptedIds(rec)
        BY <1>1, <1>5, AtStage
    <2>. QED
        BY <1>1, <2>1 DEF StageRests, TakenAway
<1> HIDE DEF u
<1>6. ASSUME bound, ui'.cands = ui.cands, ui'.fusion = ui.fusion PROVE ShownIsAccepted'
    <2>1. UsableShown(ui)' \subseteq UsableCands(rec)'
        BY <1>1, <1>5, <1>6 DEF ShownIsAccepted, UsableShown, UsableCands, UsableCand
    <2>2. AcceptedIds(rec)' = AcceptedIds(rec)
        BY <1>1
    <2>. QED
        BY <1>1, <1>5, <1>6, <2>1, <2>2 DEF ShownIsAccepted
<1>7. CASE rec.mode # "fuse" /\ EndsShowing(u)
    <2>1. /\ ui' \in Ui /\ cmd' = NoCmd /\ task' = NoTask
          /\ ui'.cands = ui.cands /\ ui'.fusion = ui.fusion
        <3>1. ui' = Reported(u)
            BY <1>7 DEF EndsShowing
        <3>2. Reported(u).cands = u.cands /\ Reported(u).fusion = u.fusion
            BY <1>3 DEF Reported, Ui
        <3>. QED
            BY <1>3, <1>7, <3>1, <3>2, ReportTypes DEF EndsShowing
    <2>2. CompareTypeOK'
        BY <1>1, <2>1, CmdTypes DEF EvidenceInv, CompareTypeOK
    <2>3. RecordInv(rec')
        BY <1>1 DEF EvidenceInv
    <2>4. bound' => ShownIsAccepted'
        BY <1>1, <1>6, <2>1
    <2>. QED
        BY <2>1, <2>2, <2>3, <2>4, OverKeeps
<1>8. CASE ui' = u /\ ToStage("fusion", LastId(rec.judge.atts)) /\ UNCHANGED task
    <2>1. LastId(rec.judge.atts) \in Nat
        BY Known DEF EvidenceInv
    <2>2. /\ cmd' \in Cmd /\ cmd'.pc = "start" /\ cmd'.pc \in StagePc /\ cmd'.stage = "fusion"
          /\ cmd'.kind = cmd.kind /\ cmd'.ids = cmd.ids /\ cmd'.src = LastId(rec.judge.atts)
        BY <1>2, <1>8, <2>1 DEF ToStage, Cmd, StagePc
    <2>3. ui' \in Ui /\ ui'.cands = ui.cands /\ ui'.fusion = ui.fusion /\ upset' \subseteq Upset
          /\ RecordInv(rec') /\ rec'.cands = rec.cands
        BY <1>1, <1>3, <1>8 DEF EvidenceInv, CompareTypeOK
    <2>4. ASSUME bound PROVE StageRests' /\ TakenAway'
        <3>1. StageRests'
            BY <1>1, <1>5, <2>2, <2>4 DEF StageRests, InStage
        <3>2. TakenAway'
            BY <1>2, <1>8, <2>2 DEF TakenAway
        <3>. QED
            BY <3>1, <3>2
    <2>. QED
        BY <1>1, <1>6, <1>8, <2>2, <2>3, <2>4, StageKeeps
<1>. QED
    BY <1>4, <1>7, <1>8

\* The pane takes over the outcome of the last stage.
LEMMA LastIsShown ==
    ASSUME EvidenceInv, cmd.pc \in StagePc, NEW u \in Ui, u.cands = ui.cands, EndsShowing(u),
           UNCHANGED <<rec, bound, commands, upset>>,
           bound => /\ u.judge = "done" => ui.judge = "done"
                    /\ u.fusion = "done" =>
                          /\ rec.fusion.acc # 0
                          /\ \A f \in rec.fusion.atts :
                                f.id = rec.fusion.acc => f.judgeId = rec.judge.acc
    PROVE  EvidenceInv'
<1>1. /\ ui' \in Ui /\ ui'.cands = ui.cands /\ ui'.judge = u.judge /\ ui'.fusion = u.fusion
      /\ cmd' = NoCmd /\ task' = NoTask
    <2>1. /\ Reported(u).cands = u.cands /\ Reported(u).judge = u.judge
          /\ Reported(u).fusion = u.fusion
        BY DEF Reported, Ui
    <2>. QED
        BY <2>1, ReportTypes DEF EndsShowing
<1>2. CompareTypeOK'
    BY <1>1, CmdTypes DEF EvidenceInv, CompareTypeOK
<1>3. RecordInv(rec')
    BY DEF EvidenceInv
<1>4. ASSUME bound PROVE ShownIsAccepted'
    <2>1. ShownIsAccepted
        BY <1>4, AtStage
    <2>2. UsableShown(ui)' \subseteq UsableCands(rec)'
        BY <1>1, <2>1 DEF ShownIsAccepted, UsableShown, UsableCands, UsableCand
    <2>3. AcceptedIds(rec)' = AcceptedIds(rec)
        OBVIOUS
    <2>. QED
        BY <1>1, <1>4, <2>1, <2>2, <2>3 DEF ShownIsAccepted
<1>. QED
    BY <1>1, <1>2, <1>3, <1>4, OverKeeps

LEMMA FusionShownKeeps == ASSUME EvidenceInv, FusionShown PROVE EvidenceInv'
<1> DEFINE u == [ui EXCEPT !.fusion = "done", !.running = FALSE]
<1>1. /\ cmd.pc = "done" /\ cmd.pc \in StagePc /\ cmd.stage = "fusion" /\ EndsShowing(u)
      /\ UNCHANGED <<rec, bound, commands, upset>>
    BY DEF FusionShown, StagePc
<1>2. u \in Ui /\ u.cands = ui.cands /\ u.judge = ui.judge
    BY <1>1, AtStage DEF Ui, StageStatus
<1>3. ASSUME bound
      PROVE  /\ rec.fusion.acc # 0
             /\ \A f \in rec.fusion.atts : f.id = rec.fusion.acc => f.judgeId = rec.judge.acc
    <2>1. StageRests
        BY <1>1, <1>3, AtStage
    <2>2. PICK g \in rec.fusion.atts : g.judgeId = cmd.src /\ g.id = rec.fusion.acc
        BY <1>1, <2>1 DEF StageRests
    <2>3. cmd.src = rec.judge.acc
        BY <1>1, <2>1 DEF StageRests
    <2>4. Numbered(rec.fusion.atts) /\ Cardinality(rec.fusion.atts) \in Nat
        BY Known, Counted DEF EvidenceInv
    <2>. QED
        BY <2>2, <2>3, <2>4 DEF Numbered
<1> HIDE DEF u
<1>. QED
    BY <1>1, <1>2, <1>3, LastIsShown

LEMMA StageFailedKeeps == ASSUME EvidenceInv, StageFailed PROVE EvidenceInv'
<1> DEFINE u == IF cmd.stage = "judge" THEN [ui EXCEPT !.judge = "error", !.running = FALSE]
                ELSE [ui EXCEPT !.fusion = "error", !.running = FALSE]
<1>1. /\ cmd.pc = "failed" /\ cmd.pc \in StagePc /\ EndsShowing(u)
      /\ UNCHANGED <<rec, bound, commands, upset>>
    BY DEF StageFailed, StagePc
<1>2. /\ u \in Ui /\ u.cands = ui.cands /\ (u.judge = "done" => ui.judge = "done")
      /\ u.fusion = "done" => ui.fusion = "done"
    <2>1. ui \in Ui
        BY <1>1, AtStage
    <2>2. CASE cmd.stage = "judge"
        BY <2>1, <2>2 DEF Ui, StageStatus
    <2>3. CASE cmd.stage # "judge"
        BY <2>1, <2>3 DEF Ui, StageStatus
    <2>. QED
        BY <2>2, <2>3
<1> HIDE DEF u
<1>3. bound => ShownIsAccepted
    BY <1>1, AtStage
<1>. QED
    BY <1>1, <1>2, <1>3, LastIsShown DEF ShownIsAccepted
-----------------------------------------------------------------------------
(* Commands, and what comes between.                                       *)

\* Between commands only what is shown is to be kept.
LEMMA IdleKeeps ==
    ASSUME EvidenceInv, Idle, UNCHANGED <<cmd, task>>, CompareTypeOK', RecordInv(rec'),
           bound' => ShownIsAccepted'
    PROVE  EvidenceInv'
<1>1. /\ cmd.kind = "none" /\ cmd.pc = "none" /\ cmd.stage = "none"
      /\ task = NoTask /\ \A c \in Cands : task[c] = "idle"
    BY DEF EvidenceInv, Positions, Idle, NoTask
<1>2. Positions'
    BY <1>1 DEF Positions
<1>3. TasksAreLast' /\ FrozenIsAccepted' /\ StageRests' /\ TwoAreFrozen' /\ TakenAway'
    BY <1>1 DEF TasksAreLast, FrozenIsAccepted, Idle, StageRests, InStage, TwoAreFrozen,
                TakenAway
<1>. QED
    BY <1>2, <1>3 DEF EvidenceInv, BoundInv

\* A command begins, for one of the candidates or with one of the stages.
LEMMA CommandBegins ==
    ASSUME EvidenceInv, MayCommand, Commit(rec), commands' = commands + 1, bound' = bound,
           ui' \in Ui, ShowsNoMore(ui', ui), cmd' \in Cmd, task' \in [Cands -> Task],
           cmd'.ids = Frozen,
           \/ /\ cmd'.kind = "retry" /\ cmd'.pc = "cands" /\ cmd'.stage = "none"
              /\ \A c \in Cands : task'[c] = "idle"
                                  \/ (task'[c] = "start" /\ ui'.cands[c] = "pending")
              /\ ui'.judge = "idle" /\ ui'.fusion = "idle"
           \/ /\ cmd'.kind = "judge" /\ cmd'.pc = "start" /\ cmd'.stage = "judge"
              /\ task' = task /\ ui'.judge # "done"
              /\ Cardinality(UsableShown(ui)) >= 2
           \/ /\ cmd'.kind = "fusion" /\ cmd'.pc = "start" /\ cmd'.stage = "fusion"
              /\ task' = task /\ Cardinality(UsableShown(ui)) >= 2
              /\ bound => ui.judge = "done" /\ cmd'.src = rec.judge.acc
    PROVE  EvidenceInv'
<1>1. task = NoTask /\ (\A c \in Cands : task[c] = "idle") /\ rec' = rec /\ upset' = upset
    BY DEF EvidenceInv, Positions, MayCommand, Idle, NoTask, Commit
<1>2. CompareTypeOK'
    BY <1>1, MaxCommandsAssumption DEF EvidenceInv, CompareTypeOK, MayCommand
<1>3. RecordInv(rec')
    BY <1>1 DEF EvidenceInv
<1>4. Positions'
    BY <1>1 DEF Positions
<1>5. ASSUME bound PROVE BoundInv'
    <2>1. ShownIsAccepted /\ ShownIsAccepted'
        BY <1>1, <1>5, ShownStays DEF EvidenceInv, BoundInv
    <2>2. \A c \in Cands : cmd'.ids[c] = rec.cands[c].acc
        BY <1>5 DEF Frozen, AcceptedIds
    <2>3. TasksAreLast' /\ FrozenIsAccepted'
        BY <1>1, <2>2 DEF TasksAreLast, FrozenIsAccepted
    <2>4. StageRests'
        <3>1. ~InStage("judge")' /\ ~InStage("fusion")'
            BY DEF InStage
        <3>2. cmd'.stage = "fusion" =>
                 \E j \in rec.judge.atts :
                    /\ j.id = rec.judge.acc /\ j.status = "completed" /\ j.basis = cmd'.ids
                    /\ j.id = cmd'.src
            BY <1>5, <2>1 DEF ShownIsAccepted, Frozen
        <3>. QED
            BY <1>1, <3>1, <3>2 DEF StageRests
    <2>5. TwoAreFrozen'
        <3>1. {c \in Cands : cmd'.ids[c] # 0} = {c \in Cands : rec.cands[c].acc # 0}
            BY <2>2
        <3>. QED
            BY <1>5, <3>1, TwoAccepted DEF TwoAreFrozen
    <2>6. TakenAway'
        BY <1>1 DEF TakenAway
    <2>. QED
        BY <2>1, <2>3, <2>4, <2>5, <2>6 DEF BoundInv
<1>. QED
    BY <1>2, <1>3, <1>4, <1>5 DEF EvidenceInv, BoundInv

\* A command that is refused the run has at most taken away what is shown.
LEMMA CommandRefused ==
    ASSUME EvidenceInv, MayCommand, rec' = rec, commands' = commands + 1, bound' = bound,
           upset' \subseteq Upset, ui' \in Ui, ShowsNoMore(ui', ui), UNCHANGED <<cmd, task>>
    PROVE  EvidenceInv'
<1>1. CompareTypeOK'
    BY MaxCommandsAssumption DEF EvidenceInv, CompareTypeOK, MayCommand
<1>2. RecordInv(rec') /\ (bound' => ShownIsAccepted')
    BY ShownStays DEF EvidenceInv
<1>. QED
    BY <1>1, <1>2, IdleKeeps DEF MayCommand

\* What a command has of the run that it is given on.
LEMMA CommandTypes ==
    ASSUME EvidenceInv
    PROVE  Frozen \in [Cands -> Nat] /\ rec.judge.acc \in Nat /\ NoCmd \in Cmd
           /\ ui \in Ui /\ task \in [Cands -> Task]
    BY CmdTypes, Known DEF EvidenceInv, CompareTypeOK, Frozen, AcceptedIds, NoIds

LEMMA RetryCandidateKeeps ==
    ASSUME EvidenceInv, NEW c \in Cands, RetryCandidate(c) PROVE EvidenceInv'
<1>1. MayCommand /\ commands' = commands + 1 /\ bound' = bound
    BY DEF RetryCandidate
<1>2. /\ ui' \in Ui /\ ui'.judge = "idle" /\ ui'.fusion = "idle" /\ ui'.cands[c] = "pending"
      /\ ShowsNoMore(ui', ui)
    BY CommandTypes DEF RetryCandidate, Ui, StageStatus, ShowsNoMore, UsableShown
<1>3. CASE WriteFails(rec) /\ UNCHANGED <<cmd, task>>
    BY <1>1, <1>2, <1>3, FailedWrite, CommandRefused
<1>4. CASE /\ Commit(rec)
           /\ cmd' = [NoCmd EXCEPT !.kind = "retry", !.pc = "cands", !.who = {c}, !.ids = Frozen]
           /\ TaskTo(c, "start")
    <2>1. /\ cmd' \in Cmd /\ cmd'.kind = "retry" /\ cmd'.pc = "cands" /\ cmd'.stage = "none"
          /\ cmd'.ids = Frozen
        BY <1>4, CommandTypes DEF NoCmd, Cmd
    <2>2. task' \in [Cands -> Task] /\ \A d \in Cands : task'[d] = "idle"
                                         \/ (task'[d] = "start" /\ ui'.cands[d] = "pending")
        <3>1. task = NoTask
            BY <1>1 DEF EvidenceInv, Positions, MayCommand, Idle
        <3>2. task'[c] = "start" /\ task' \in [Cands -> Task]
              /\ \A d \in Cands \ {c} : task'[d] = task[d]
            BY <1>4, TaskGoes DEF Task
        <3>. QED
            BY <1>2, <3>1, <3>2 DEF NoTask
    <2>. QED
        BY <1>1, <1>2, <1>4, <2>1, <2>2, CommandBegins
<1>. QED
    BY <1>3, <1>4 DEF RetryCandidate

LEMMA RetryJudgeKeeps == ASSUME EvidenceInv, RetryJudge PROVE EvidenceInv'
<1>1. /\ MayCommand /\ commands' = commands + 1 /\ bound' = bound /\ Commit(rec)
      /\ ui.judge = "error" /\ Cardinality(UsableShown(ui)) >= 2 /\ UNCHANGED <<task, ui>>
      /\ cmd' = [NoCmd EXCEPT !.kind = "judge", !.stage = "judge", !.pc = "start",
                              !.ids = Frozen]
    BY DEF RetryJudge
<1>2. /\ cmd' \in Cmd /\ cmd'.kind = "judge" /\ cmd'.pc = "start" /\ cmd'.stage = "judge"
      /\ cmd'.ids = Frozen
    BY <1>1, CommandTypes DEF NoCmd, Cmd
<1>3. /\ ui' \in Ui /\ ShowsNoMore(ui', ui) /\ task' \in [Cands -> Task] /\ ui'.judge # "done"
    BY <1>1, CommandTypes DEF ShowsNoMore
<1>. QED
    BY <1>1, <1>2, <1>3, CommandBegins

LEMMA TriggerFusionKeeps == ASSUME EvidenceInv, TriggerFusion PROVE EvidenceInv'
<1>1. /\ MayCommand /\ commands' = commands + 1 /\ bound' = bound /\ Commit(rec)
      /\ ui.judge = "done" /\ Cardinality(UsableShown(ui)) >= 2 /\ UNCHANGED task
    BY DEF TriggerFusion
<1>2. CASE ui' = [ui EXCEPT !.fusion = "error"] /\ UNCHANGED cmd
    <2>1. ui' \in Ui /\ ShowsNoMore(ui', ui)
        BY <1>2, CommandTypes DEF Ui, StageStatus, ShowsNoMore, UsableShown
    <2>2. rec' = rec /\ upset' \subseteq Upset
        BY <1>1, UpsetKept DEF Commit
    <2>. QED
        BY <1>1, <1>2, <2>1, <2>2, CommandRefused
<1>3. CASE /\ cmd' = [NoCmd EXCEPT !.kind = "fusion", !.stage = "fusion", !.pc = "start",
                                   !.ids = Frozen, !.src = IF bound THEN rec.judge.acc ELSE 0]
           /\ UNCHANGED ui
    <2>1. /\ cmd' \in Cmd /\ cmd'.kind = "fusion" /\ cmd'.pc = "start"
          /\ cmd'.stage = "fusion" /\ cmd'.ids = Frozen
          /\ bound => cmd'.src = rec.judge.acc
        BY <1>3, CommandTypes DEF NoCmd, Cmd
    <2>2. ui' \in Ui /\ ShowsNoMore(ui', ui) /\ task' \in [Cands -> Task]
        BY <1>1, <1>3, CommandTypes DEF ShowsNoMore
    <2>. QED
        BY <1>1, <2>1, <2>2, CommandBegins
<1>. QED
    BY <1>2, <1>3 DEF TriggerFusion

LEMMA TooFewReportedKeeps == ASSUME EvidenceInv, TooFewReported PROVE EvidenceInv'
<1>1. /\ ui' \in Ui /\ ui'.cands = ui.cands /\ ui'.judge = ui.judge /\ ui'.fusion = ui.fusion
      /\ UNCHANGED <<rec, cmd, task, bound, commands, upset>>
    BY CommandTypes DEF TooFewReported, Ui
<1>2. CompareTypeOK' /\ RecordInv(rec') /\ Positions'
    BY <1>1 DEF EvidenceInv, CompareTypeOK, Positions
<1>3. ASSUME bound' PROVE BoundInv'
    <2>1. /\ TasksAreLast /\ FrozenIsAccepted /\ StageRests /\ TwoAreFrozen /\ TakenAway
        BY <1>1, <1>3 DEF EvidenceInv, BoundInv
    <2>2. TasksAreLast' /\ FrozenIsAccepted' /\ StageRests' /\ TwoAreFrozen'
        BY <1>1, <2>1 DEF TasksAreLast, FrozenIsAccepted, StageRests, TwoAreFrozen, InStage,
                          Idle, UsableCand
    <2>3. TakenAway'
        BY <1>1, <2>1 DEF TakenAway, Idle
    <2>4. ShownIsAccepted'
        BY <1>1, <1>3, ShownStays DEF ShowsNoMore, UsableShown
    <2>. QED
        BY <2>2, <2>3, <2>4 DEF BoundInv
<1>. QED
    BY <1>2, <1>3 DEF EvidenceInv, BoundInv

\* A run that is stopped keeps what was accepted of it.
LEMMA StoppedIsShown ==
    ASSUME EvidenceInv, NEW s \in {"aborted", "interrupted"}, rec' = Stopped(rec, s),
           bound' = bound, ShowsNoMore(ui', ui)
    PROVE  RecordInv(rec') /\ rec' \in Record /\ (bound' => ShownIsAccepted')
<1>1. RunStopped(rec, rec', s)
    BY StoppedRun DEF EvidenceInv
<1>2. RecordInv(rec') /\ rec' \in Record
    BY <1>1 DEF RunStopped, RecordInv
<1>3. ASSUME bound PROVE ShownIsAccepted'
    <2>1. ShownIsAccepted
        BY <1>3 DEF EvidenceInv, BoundInv
    <2>2. UsableShown(ui)' = UsableShown(ui') /\ UsableCands(rec)' = UsableCands(rec)
          /\ AcceptedIds(rec)' = AcceptedIds(rec)
        BY <1>1 DEF RunStopped, UsableShown, UsableCands, UsableCand, AcceptedIds
    <2>3. UsableShown(ui)' \subseteq UsableCands(rec)'
        BY <2>1, <2>2 DEF ShownIsAccepted, ShowsNoMore
    <2>4. ui'.judge = "done" =>
             \E j \in rec'.judge.atts :
                j.id = rec'.judge.acc /\ j.status = "completed" /\ j.basis = AcceptedIds(rec)
        BY <1>1, <2>1 DEF RunStopped, ShownIsAccepted, ShowsNoMore
    <2>5. ui'.fusion = "done" =>
             /\ rec'.fusion.acc # 0
             /\ \A f \in rec'.fusion.atts :
                   f.id = rec'.fusion.acc => f.judgeId = rec'.judge.acc
        BY <1>1, <2>1 DEF RunStopped, ShownIsAccepted, ShowsNoMore
    <2>. QED
        BY <2>2, <2>3, <2>4, <2>5 DEF ShownIsAccepted
<1>. QED
    BY <1>2, <1>3

LEMMA AbortRunKeeps == ASSUME EvidenceInv, AbortRun PROVE EvidenceInv'
<1>1. cmd' = NoCmd /\ task' = NoTask /\ UNCHANGED <<bound, commands>>
    BY DEF AbortRun
<1>2. ui' \in Ui /\ ShowsNoMore(ui', ui)
    BY CommandTypes DEF AbortRun, Ui, StageStatus, ShowsNoMore, UsableShown
<1>3. \/ rec' = rec /\ upset' \subseteq Upset
      \/ rec' = Stopped(rec, "aborted") /\ upset' \subseteq Upset
    BY FailedWrite, UpsetKept DEF AbortRun, Commit
<1>4. RecordInv(rec') /\ rec' \in Record /\ (bound' => ShownIsAccepted')
    <2>1. CASE rec' = rec
        BY <1>1, <1>2, <2>1, ShownStays DEF EvidenceInv, RecordInv
    <2>2. CASE rec' = Stopped(rec, "aborted")
        BY <1>1, <1>2, <2>2, StoppedIsShown
    <2>. QED
        BY <1>3, <2>1, <2>2
<1>5. CompareTypeOK'
    BY <1>1, <1>2, <1>3, <1>4, CmdTypes DEF EvidenceInv, CompareTypeOK
<1>. QED
    BY <1>1, <1>4, <1>5, OverKeeps

LEMMA EnvironmentKeeps == ASSUME EvidenceInv, Environment PROVE EvidenceInv'
<1>1. CASE Overtaken \/ FanoutBlocked \/ LeaseLost
    <2> cmd' = NoCmd /\ task' = NoTask /\ rec' = rec /\ commands' = commands
        BY <1>1 DEF Overtaken, FanoutBlocked, LeaseLost
    <2>1. bound' \in BOOLEAN /\ (bound' => bound)
        <3>1. CASE bound' = bound
            BY <3>1 DEF EvidenceInv, CompareTypeOK
        <3>2. CASE bound' = FALSE
            BY <3>2
        <3>. QED
            BY <1>1, <3>1, <3>2 DEF Overtaken, FanoutBlocked, LeaseLost
    <2>2. ui' \in Ui /\ ShowsNoMore(ui', ui)
        <3>1. ui' = ui \/ ui' = [ui EXCEPT !.running = FALSE, !.aborted = TRUE]
            BY <1>1 DEF Overtaken, FanoutBlocked, LeaseLost
        <3>. QED
            BY <3>1, CommandTypes DEF Ui, ShowsNoMore, UsableShown
    <2>3. upset' \subseteq Upset
        BY <1>1 DEF Overtaken, FanoutBlocked, LeaseLost, EvidenceInv, CompareTypeOK, Upset
    <2>4. CompareTypeOK' /\ RecordInv(rec')
        BY <2>1, <2>2, <2>3, CmdTypes DEF EvidenceInv, CompareTypeOK
    <2>5. bound' => ShownIsAccepted'
        BY <2>1, <2>2, ShownStays
    <2>. QED
        BY <2>1, <2>4, <2>5, OverKeeps
<1>2. CASE LeaseLostUnseen
    BY <1>2, EndsKeeps DEF LeaseLostUnseen, EvidenceInv, CompareTypeOK, Upset
<1>3. CASE Swept
    <2>1. /\ Idle /\ rec' = Stopped(rec, "interrupted")
          /\ UNCHANGED <<cmd, task, ui, bound, commands, upset>>
        BY <1>3 DEF Swept
    <2>2. RecordInv(rec') /\ rec' \in Record /\ (bound' => ShownIsAccepted')
        BY <2>1, StoppedIsShown DEF ShowsNoMore
    <2>3. CompareTypeOK'
        BY <2>1, <2>2 DEF EvidenceInv, CompareTypeOK
    <2>. QED
        BY <2>1, <2>2, <2>3, IdleKeeps
<1>. QED
    BY <1>1, <1>2, <1>3 DEF Environment
-----------------------------------------------------------------------------
(* The theorems about the evidence.                                        *)

LEMMA EvidenceInit == Init => EvidenceInv
<1> SUFFICES ASSUME Init PROVE EvidenceInv
    OBVIOUS
<1>1. PICK mode \in Mode : rec = FanoutStart(mode)
    BY DEF Init
<1>2. /\ rec \in Record /\ rec.judge = [status |-> "idle", acc |-> 0, atts |-> {}]
      /\ rec.fusion = [status |-> "idle", acc |-> 0, atts |-> {}]
      /\ \A c \in Cands : rec.cands[c] = [acc |-> 0, atts |-> {}]
    BY <1>1 DEF FanoutStart, Record, RunStatus, StageStatus
<1>3. RecordInv(rec)
    BY <1>2, NoAttempts DEF RecordInv, RecordIsNumbered, JudgedIn, RestsIn, AcceptedIn
<1>4. /\ cmd \in Cmd /\ cmd.kind = "fanout" /\ cmd.pc = "begin" /\ cmd.stage = "none"
      /\ cmd.ids = NoIds
    BY CmdTypes DEF Init, NoCmd, Cmd
<1>5. /\ ui \in Ui /\ ui.judge = "idle" /\ ui.fusion = "idle"
      /\ \A c \in Cands : ui.cands[c] = "pending"
    BY CmdTypes DEF Init, BlankUi
<1>6. /\ task = NoTask /\ task \in [Cands -> Task] /\ (\A c \in Cands : task[c] = "idle")
      /\ bound = TRUE /\ commands = 0 /\ upset = {}
    BY CmdTypes DEF Init, NoTask
<1>7. CompareTypeOK
    BY <1>2, <1>4, <1>5, <1>6, MaxCommandsAssumption DEF CompareTypeOK
<1>8. Positions
    BY <1>4, <1>6 DEF Positions
<1>9. TasksAreLast /\ StageRests /\ TwoAreFrozen
    BY <1>4, <1>6 DEF TasksAreLast, StageRests, InStage, TwoAreFrozen
<1>10. FrozenIsAccepted
    BY <1>2, <1>4 DEF FrozenIsAccepted, NoIds
<1>11. ShownIsAccepted /\ TakenAway
    BY <1>4, <1>5, <1>6 DEF ShownIsAccepted, TakenAway, UsableShown
<1>. QED
    BY <1>3, <1>7, <1>8, <1>9, <1>10, <1>11 DEF EvidenceInv, BoundInv

LEMMA EvidenceNext == EvidenceInv /\ [Next]_vars => EvidenceInv'
<1> SUFFICES ASSUME EvidenceInv, [Next]_vars PROVE EvidenceInv'
    OBVIOUS
<1>1. CASE UNCHANGED vars
    BY <1>1 DEF vars, EvidenceInv, CompareTypeOK, Positions, BoundInv, TasksAreLast,
                FrozenIsAccepted, Idle, StageRests, InStage, LastRuns, TwoAreFrozen,
                ShownIsAccepted, UsableShown, UsableCands, UsableCand, AcceptedIds, TakenAway
<1>2. CASE Pipeline
    BY <1>2, FanoutShownKeeps, CandStartKeeps, CandUnstartedKeeps, CandSettleKeeps,
       CandShowKeeps, FanoutSettleKeeps, FanoutEndKeeps, RetrySettledKeeps, StageStartKeeps,
       StageShownKeeps, StageSettleKeeps, StageFailKeeps, JudgeShownKeeps, FusionShownKeeps,
       StageFailedKeeps DEF Pipeline
<1>3. CASE Command
    BY <1>3, RetryCandidateKeeps, RetryJudgeKeeps, TriggerFusionKeeps, TooFewReportedKeeps,
       AbortRunKeeps DEF Command
<1>4. CASE Environment
    BY <1>4, EnvironmentKeeps
<1>. QED
    BY <1>1, <1>2, <1>3, <1>4 DEF Next

\* What the record, the pane and the command in flight have to do with one
\* another holds throughout.
THEOREM EvidenceHolds == Spec => []EvidenceInv
<1>. QED
    BY EvidenceInit, EvidenceNext, PTL DEF Spec

\* The record is a record, the command is at a position of the executor, and
\* the pane shows what a pane can.
THEOREM CompareTypes == Spec => []CompareTypeOK
<1>1. EvidenceInv => CompareTypeOK
    BY DEF EvidenceInv
<1>. QED
    BY <1>1, EvidenceHolds, PTL

\* The accepted Judge evaluated two or more outputs, and each is still the
\* accepted one of its candidate (run-record-builder.ts).
THEOREM JudgedIsAccepted == Spec => []JudgedOutputsAreAccepted
<1>1. EvidenceInv => JudgedOutputsAreAccepted
    BY DEF EvidenceInv, RecordInv, JudgedIn, JudgedOutputsAreAccepted
<1>. QED
    BY <1>1, EvidenceHolds, PTL

\* Every Fusion names a completed Judge attempt, and was made from the outputs
\* that it evaluated (run-executor.ts, run-controller.ts).
THEOREM FusionRests == Spec => []FusionRestsOnItsJudge
<1>1. EvidenceInv => FusionRestsOnItsJudge
    BY DEF EvidenceInv, RecordInv, RestsIn, FusionRestsOnItsJudge
<1>. QED
    BY <1>1, EvidenceHolds, PTL

\* What the pane shows of a run that it still names is in the record, and the
\* fused text it shows was made from the report it shows (studio-engine.ts).
THEOREM ShownDurable == Spec => []ShownIsDurable
<1>1. EvidenceInv => ShownIsDurable
    <2> SUFFICES ASSUME EvidenceInv, bound PROVE ShownIsDurable
        BY DEF ShownIsDurable
    <2>1. ShownIsAccepted /\ Numbered(rec.judge.atts) /\ Cardinality(rec.judge.atts) \in Nat
        BY Known, Counted DEF EvidenceInv, BoundInv
    <2>. QED
        BY <2>1 DEF ShownIsAccepted, ShownIsDurable, Numbered
<1>. QED
    BY <1>1, EvidenceHolds, PTL
-----------------------------------------------------------------------------
(* A run with which nothing has gone wrong.                                *)

\* A verdict stands, unless a Fusion without a stage claims to be running; and
\* one is reached with a report, without a Judge, or without two outputs.
LEMMA Verdict ==
    ASSUME NEW r, NEW new \in Record, r.status \in RunStatus,
           new.status = DerivedStatus([new EXCEPT !.status = r.status])
    PROVE  /\ r.status # "running" /\ (~Active(new.fusion.atts) \/ new.fusion.status = "running")
              => new.status # "running"
           /\ /\ ~FanoutActive(new) /\ ~Active(new.fusion.atts)
              /\ new.judge.status # "running" /\ new.fusion.status # "running"
              /\ \/ new.judge.acc # 0
                 \/ new.judge.status = "error"
                 \/ FanoutSettled(new) /\ Cardinality(UsableCands(new)) < 2
              => new.status # "running"
<1> DEFINE m == [new EXCEPT !.status = r.status]
<1>1. /\ m.status = r.status /\ m.mode = new.mode /\ m.cands = new.cands
      /\ m.judge = new.judge /\ m.fusion = new.fusion
    BY DEF Record
<1> HIDE DEF m
<1>2. UsableCands(m) = UsableCands(new) /\ FanoutActive(m) = FanoutActive(new)
      /\ FanoutSettled(m) = FanoutSettled(new)
    BY <1>1, SameOutputs DEF FanoutSettled
<1>3. JudgedStatus(m) = "running" => Active(new.fusion.atts)
    BY <1>1 DEF JudgedStatus
<1>4. KeptStatus(m) = "running" => r.status \notin AcceptedTerminal
    BY <1>1 DEF KeptStatus, AcceptedTerminal
<1>5. new.status = DerivedStatus(m)
    BY DEF m
<1>6. ASSUME r.status # "running", ~Active(new.fusion.atts) \/ new.fusion.status = "running"
      PROVE  new.status # "running"
    <2>1. CASE r.status \in {"aborted", "interrupted"}
        BY <1>1, <1>5, <2>1 DEF DerivedStatus
    <2>2. CASE r.status \in AcceptedTerminal
        <3>1. KeptStatus(m) # "running" /\ r.status \notin {"aborted", "interrupted"}
            BY <1>4, <2>2 DEF AcceptedTerminal
        <3>. QED
            BY <1>1, <1>3, <1>5, <1>6, <3>1 DEF DerivedStatus
    <2>. QED
        BY <1>6, <2>1, <2>2 DEF RunStatus, Terminal
<1>7. ASSUME ~FanoutActive(new), ~Active(new.fusion.atts),
             new.judge.status # "running", new.fusion.status # "running",
             \/ new.judge.acc # 0
             \/ new.judge.status = "error"
             \/ FanoutSettled(new) /\ Cardinality(UsableCands(new)) < 2
      PROVE  new.status # "running"
    BY <1>1, <1>2, <1>3, <1>5, <1>7 DEF DerivedStatus
<1>. QED
    BY <1>6, <1>7

\* What a command has in hand when none of its attempts is awaited.
LEMMA NoneAwaited ==
    ASSUME AwaitedRun, \A c \in Cands : task[c] # "stream", ~InStage("judge"),
           ~InStage("fusion")
    PROVE  ~FanoutActive(rec) /\ ~Active(rec.judge.atts) /\ ~Active(rec.fusion.atts)
    BY DEF AwaitedRun, FanoutActive

\* A run at rest that is left alone stays so, whatever the next command is.
LEMMA RestsOn == ASSUME Quiet(rec), rec' = rec PROVE Calm' /\ Quiet(rec)'
<1>1. Quiet(rec)'
    BY DEF Quiet, FanoutActive, Active
<1>2. AwaitedRun'
    BY <1>1 DEF Quiet, AwaitedRun, OnlyLastRuns, FanoutActive, Active
<1>3. FanoutRuns'
    BY <1>1 DEF Quiet, FanoutRuns
<1>. QED
    BY <1>1, <1>2, <1>3 DEF Calm

\* Between commands, after its Judge and in any command but the fanout, a run
\* with no attempt in hand is at rest.
LEMMA AtRest ==
    ASSUME EvidenceInv, Calm, \A c \in Cands : task[c] # "stream", ~InStage("judge"),
           ~InStage("fusion"),
           cmd.kind # "fanout" \/ cmd.stage = "fusion"
           \/ (cmd.stage = "judge" /\ cmd.pc \in {"done", "failed"})
    PROVE  Quiet(rec)
<1>1. rec.status # "running"
    BY DEF Calm, FanoutRuns
<1>. QED
    BY <1>1, NoneAwaited DEF Calm, Quiet

LEMMA IdleIsQuiet ==
    ASSUME EvidenceInv, SettledInv, Idle, upset = {} PROVE Quiet(rec)
<1>1. CASE bound
    <2>1. /\ cmd.kind # "fanout" /\ ~InStage("judge") /\ ~InStage("fusion")
          /\ \A c \in Cands : task[c] # "stream"
        BY DEF EvidenceInv, Positions, Idle, InStage, NoTask
    <2>. QED
        BY <1>1, <2>1, AtRest DEF SettledInv
<1>2. CASE ~bound
    BY <1>2 DEF SettledInv
<1>. QED
    BY <1>1, <1>2

\* Without a fault, only a success of a write goes on.
LEMMA FaultUpsets == ASSUME NEW new, WriteFails(new) PROVE upset' # {}
    BY DEF WriteFails

LEMMA FanoutShownCalm ==
    ASSUME EvidenceInv, Calm, FanoutShown PROVE Calm'
<1>1. /\ cmd.pc = "begin" /\ cmd.kind = "fanout" /\ cmd.stage = "none" /\ rec' = rec
      /\ cmd \in Cmd /\ \A c \in Cands : task[c] = "idle"
    BY DEF FanoutShown, EvidenceInv, Positions, CompareTypeOK, NoTask
<1>2. /\ cmd'.kind = "fanout" /\ cmd'.pc = "cands" /\ cmd'.stage = "none"
      /\ \A c \in Cands : task'[c] = "start"
    BY <1>1 DEF FanoutShown, Cmd
<1>3. ~FanoutActive(rec) /\ ~Active(rec.judge.atts) /\ ~Active(rec.fusion.atts)
    BY <1>1, NoneAwaited DEF Calm, InStage
<1>4. AwaitedRun'
    BY <1>1, <1>3 DEF AwaitedRun, OnlyLastRuns, FanoutActive, Active
<1>5. FanoutRuns'
    <2> SUFFICES ASSUME rec.status = "running" PROVE FanoutRuns'
        BY <1>1 DEF FanoutRuns
    <2>1. /\ rec.judge.acc = 0 /\ rec.judge.status = "idle" /\ rec.fusion.acc = 0
          /\ rec.fusion.status = "idle" /\ rec.fusion.atts = {}
          /\ \A c \in Cands : rec.cands[c].atts = {}
        BY <1>1 DEF Calm, FanoutRuns
    <2>2. \A c \in Cands : ~UsableCand(rec, c)'
        BY <1>1, <2>1 DEF UsableCand
    <2>. QED
        BY <1>1, <1>2, <2>1, <2>2 DEF FanoutRuns
<1>. QED
    BY <1>4, <1>5 DEF Calm

\* A candidate's part that moves on, when its attempt is not or no longer
\* awaited and the record is as it was.
LEMMA TaskCalm ==
    ASSUME EvidenceInv, Calm, NEW c \in Cands, task[c] \in {"unstarted", "ok", "blank", "bad"},
           NEW s \in Task \ {"start", "stream"}, TaskTo(c, s), rec' = rec,
           cmd'.kind = cmd.kind, cmd'.pc = cmd.pc, cmd'.stage = cmd.stage,
           \A d \in Cands \ {c} : ui'.cands[d] = ui.cands[d],
           UsableCand(rec, c) /\ rec.status = "running" => ui'.cands[c] = "done"
    PROVE  Calm'
<1>1. /\ cmd.pc = "cands" /\ cmd.stage = "none"
      /\ task'[c] = s /\ \A d \in Cands \ {c} : task'[d] = task[d]
    BY AtCands, TaskGoes
<1>2. \A d \in Cands : UsableCand(rec, d)' <=> UsableCand(rec, d)
    BY DEF UsableCand
<1>3. AwaitedRun'
    BY <1>1 DEF Calm, AwaitedRun, InStage
<1>4. FanoutRuns'
    <2> SUFFICES ASSUME rec.status = "running" PROVE FanoutRuns'
        BY DEF FanoutRuns
    <2>1. \A d \in Cands : UsableCand(rec, d)' => task'[d] = "ok" \/ ui'.cands[d] = "done"
        BY <1>1, <1>2 DEF Calm, FanoutRuns
    <2>2. \A d \in Cands : task'[d] # "start" => rec.cands[d].atts # {}
        BY <1>1 DEF Calm, FanoutRuns
    <2>. QED
        BY <1>1, <2>1, <2>2 DEF Calm, FanoutRuns
<1>. QED
    BY <1>3, <1>4 DEF Calm

LEMMA CandStartCalm ==
    ASSUME EvidenceInv, Calm, bound, NEW c \in Cands, CandStart(c), upset' = {} PROVE Calm'
<1> DEFINE new == CandidateAttemptStart(rec, c, NextId(rec.cands[c].atts))
<1>1. task[c] = "start" /\ UNCHANGED <<cmd, ui, bound, commands>>
    BY DEF CandStart
<1>2. cmd.pc = "cands" /\ cmd.stage = "none"
    BY <1>1, AtCands
<1>3. rec' = new /\ TaskTo(c, "stream")
    BY FaultUpsets DEF CandStart, Commit
<1> HIDE DEF new
<1>4. OutputBegun(rec, new, c)
    BY StartedCandidate DEF EvidenceInv, new
<1>5. task'[c] = "stream" /\ \A d \in Cands \ {c} : task'[d] = task[d]
    BY <1>3, TaskGoes DEF Task
<1>6. /\ new.judge = rec.judge /\ new.fusion = rec.fusion /\ new \in Record
      /\ \A d \in Cands \ {c} : new.cands[d] = rec.cands[d]
      /\ \A a \in new.cands[c].atts : a \in rec.cands[c].atts \/ a.id = LastId(new.cands[c].atts)
      /\ new.cands[c].atts # {}
      /\ \A d \in Cands : UsableCand(new, d) <=> UsableCand(rec, d)
      /\ new.status = DerivedStatus([new EXCEPT !.status = rec.status])
    BY <1>4 DEF OutputBegun, RecordInv, LastRuns
<1>7. AwaitedRun'
    <2>1. ~Active(rec.cands[c].atts)
        BY <1>1 DEF Calm, AwaitedRun
    <2>2. OnlyLastRuns(new.cands[c].atts)
        BY <1>6, <2>1 DEF OnlyLastRuns, Active
    <2>. QED
        BY <1>1, <1>2, <1>3, <1>5, <1>6, <2>2 DEF Calm, AwaitedRun, InStage
<1>8. FanoutRuns'
    <2>1. rec.status # "running" => new.status # "running"
        <3>1. ~Active(new.fusion.atts)
            BY <1>2, <1>6 DEF Calm, AwaitedRun, InStage
        <3>2. rec.status \in RunStatus
            BY DEF EvidenceInv, CompareTypeOK, Record
        <3>. QED
            BY <1>6, <3>1, <3>2, Verdict
    <2> SUFFICES ASSUME rec.status = "running" PROVE FanoutRuns'
        BY <1>3, <2>1 DEF FanoutRuns
    <2>2. \A d \in Cands : UsableCand(rec, d)' <=> UsableCand(new, d)
        BY <1>3 DEF UsableCand
    <2>3. \A d \in Cands : UsableCand(rec, d)' => task'[d] = "ok" \/ ui'.cands[d] = "done"
        BY <1>1, <1>2, <1>5, <1>6, <2>2 DEF Calm, FanoutRuns
    <2>4. \A d \in Cands : task'[d] # "start" => new.cands[d].atts # {}
        BY <1>2, <1>5, <1>6 DEF Calm, FanoutRuns
    <2>. QED
        BY <1>1, <1>2, <1>3, <1>6, <2>3, <2>4 DEF Calm, FanoutRuns
<1>. QED
    BY <1>7, <1>8 DEF Calm
LEMMA CandUnstartedCalm ==
    ASSUME EvidenceInv, Calm, bound, NEW c \in Cands, CandUnstarted(c), upset' = {}
    PROVE  Calm'
<1> DEFINE new == CandidateAttemptTerminal(rec, c, NextId(rec.cands[c].atts), "failed", FALSE)
<1>1. task[c] = "unstarted" /\ UNCHANGED <<cmd, ui, bound, commands>>
    BY DEF CandUnstarted
<1>2. new = rec
    BY NextIsUnknown, CandidateUnknown DEF EvidenceInv
<1>3. rec' = rec /\ TaskTo(c, "bad")
    BY <1>2, FaultUpsets DEF CandUnstarted, Commit
<1>4. UsableCand(rec, c) /\ rec.status = "running" => ui.cands[c] = "done"
    BY <1>1, AtCands DEF Calm, FanoutRuns
<1>. QED
    BY <1>1, <1>3, <1>4, TaskCalm DEF Task

LEMMA CandShowCalm ==
    ASSUME EvidenceInv, Calm, bound, NEW c \in Cands, CandShow(c) PROVE Calm'
<1>1. /\ task[c] \in {"ok", "blank", "bad"} /\ TaskTo(c, "idle") /\ rec' = rec
      /\ cmd.pc = "cands" /\ ui \in Ui /\ cmd \in Cmd
    BY AtCands DEF CandShow
<1>2. cmd'.kind = cmd.kind /\ cmd'.pc = cmd.pc /\ cmd'.stage = cmd.stage
    <2>1. CASE task[c] = "bad"
        BY <2>1 DEF CandShow
    <2>2. CASE task[c] # "bad"
        <3>1. cmd' = [cmd EXCEPT !.ids[c] = LastId(rec.cands[c].atts)]
            BY <2>2 DEF CandShow
        <3>. QED
            BY <1>1, <3>1 DEF Cmd
    <2>. QED
        BY <2>1, <2>2
<1>3. /\ \A d \in Cands \ {c} : ui'.cands[d] = ui.cands[d]
      /\ task[c] = "ok" => ui'.cands[c] = "done"
    <2> DEFINE b == ui.running /\ cmd.kind = "fanout"
    <2>1. ui' = IF task[c] = "bad"
                THEN [ui EXCEPT !.cands[c] = "error", !.running = b]
                ELSE [ui EXCEPT !.cands[c] = IF task[c] = "ok" THEN "done" ELSE "empty"]
        BY DEF CandShow
    <2> HIDE DEF b
    <2>. QED
        BY <1>1, <2>1 DEF Ui
<1>4. UsableCand(rec, c) /\ rec.status = "running" => task[c] = "ok"
    BY <1>1, AtCands DEF Calm, FanoutRuns
<1>. QED
    BY <1>1, <1>2, <1>3, <1>4, TaskCalm DEF Task

LEMMA CandSettleCalm ==
    ASSUME EvidenceInv, Calm, bound, NEW c \in Cands, CandSettle(c), upset' = {} PROVE Calm'
<1>1. task[c] = "stream" /\ UNCHANGED <<cmd, ui, bound, commands>>
    BY DEF CandSettle
<1>2. cmd.pc = "cands" /\ cmd.stage = "none" /\ ui.cands[c] = "pending"
    BY <1>1, AtCands
<1>3. PICK out \in {"ok", "blank", "bad"} :
         /\ rec' = CandidateAttemptTerminal(rec, c, LastId(rec.cands[c].atts),
                                            IF out = "bad" THEN "failed" ELSE "completed",
                                            out = "ok")
         /\ TaskTo(c, out)
    BY FaultUpsets DEF CandSettle, Commit
<1> DEFINE s   == IF out = "bad" THEN "failed" ELSE "completed"
           u   == out = "ok"
           id  == LastId(rec.cands[c].atts)
           new == CandidateAttemptTerminal(rec, c, id, s, u)
<1>4. OutputSettled(rec, new, c, s, u)
    <2>1. LastRuns(rec.cands[c].atts) /\ RecordInv(rec)
        BY <1>1 DEF EvidenceInv, BoundInv, TasksAreLast
    <2>2. s \in {"completed", "failed"} /\ u \in BOOLEAN
        OBVIOUS
    <2> HIDE DEF s, u
    <2>. QED
        BY <2>1, <2>2, SettledCandidate
<1>5. rec' = new
    BY <1>3
<1> HIDE DEF new
<1>6. task'[c] = out /\ \A d \in Cands \ {c} : task'[d] = task[d]
    BY <1>3, TaskGoes DEF Task
<1>7. /\ new \in Record /\ LastId(new.cands[c].atts) = id /\ id # 0
      /\ \A d \in Cands \ {c} : new.cands[d] = rec.cands[d]
      /\ \A a \in new.cands[c].atts : IF a.id = id THEN a.status = s ELSE a \in rec.cands[c].atts
      /\ out = "ok" \/ (out = "blank" /\ ~UsableCand(new, c))
         \/ (out = "bad" /\ (UsableCand(new, c) <=> UsableCand(rec, c)))
      /\ \A d \in Cands \ {c} : UsableCand(new, d) <=> UsableCand(rec, d)
      /\ new.judge = IF Replaces(rec, c, id, s) THEN Withdrawn(rec.judge) ELSE rec.judge
      /\ new.fusion = IF Replaces(rec, c, id, s) THEN Withdrawn(rec.fusion) ELSE rec.fusion
      /\ new.status = DerivedStatus([new EXCEPT !.status = rec.status])
    BY <1>4 DEF OutputSettled, RecordInv
<1>8. /\ new.judge.atts = rec.judge.atts /\ new.fusion.atts = rec.fusion.atts
      /\ new.judge.acc \in {0, rec.judge.acc} /\ new.fusion.acc \in {0, rec.fusion.acc}
      /\ new.judge.status \in {"idle", rec.judge.status}
      /\ new.fusion.status \in {"idle", rec.fusion.status}
    BY <1>7 DEF Withdrawn, EvidenceInv, CompareTypeOK, Record
<1>9. new.cands[c].atts # {}
    BY <1>7, NoAttempts DEF LastId
<1>10. AwaitedRun'
    <2>1. \A a \in new.cands[c].atts : a.status # "running"
        BY <1>1, <1>7 DEF Calm, AwaitedRun, OnlyLastRuns
    <2>2. OnlyLastRuns(new.cands[c].atts) /\ ~Active(new.cands[c].atts)
        BY <2>1 DEF OnlyLastRuns, Active
    <2>. QED
        BY <1>1, <1>2, <1>5, <1>6, <1>7, <1>8, <2>2 DEF Calm, AwaitedRun, InStage
<1>11. FanoutRuns'
    <2>1. rec.status # "running" => new.status # "running"
        <3>1. ~Active(new.fusion.atts)
            BY <1>2, <1>8 DEF Calm, AwaitedRun, InStage
        <3>2. rec.status \in RunStatus
            BY DEF EvidenceInv, CompareTypeOK, Record
        <3>. QED
            BY <1>7, <3>1, <3>2, Verdict
    <2> SUFFICES ASSUME rec.status = "running" PROVE FanoutRuns'
        BY <1>5, <2>1 DEF FanoutRuns
    <2>2. \A d \in Cands : UsableCand(rec, d)' <=> UsableCand(new, d)
        BY <1>5 DEF UsableCand
    <2>3. ~UsableCand(rec, c)
        BY <1>1, <1>2 DEF Calm, FanoutRuns
    <2>4. \A d \in Cands : UsableCand(rec, d)' => task'[d] = "ok" \/ ui'.cands[d] = "done"
        BY <1>1, <1>2, <1>6, <1>7, <2>2, <2>3 DEF Calm, FanoutRuns
    <2>5. \A d \in Cands : task'[d] # "start" => new.cands[d].atts # {}
        BY <1>2, <1>6, <1>7, <1>9 DEF Calm, FanoutRuns
    <2>6. /\ new.judge.acc = 0 /\ new.judge.status = "idle" /\ new.fusion.acc = 0
          /\ new.fusion.status = "idle" /\ new.fusion.atts = {} /\ cmd.kind = "fanout"
        BY <1>2, <1>8 DEF Calm, FanoutRuns
    <2>. QED
        BY <1>1, <1>2, <1>5, <2>4, <2>5, <2>6 DEF FanoutRuns
<1>. QED
    BY <1>10, <1>11 DEF Calm

LEMMA FanoutSettleCalm ==
    ASSUME EvidenceInv, Calm, bound, FanoutSettle, upset' = {} PROVE Calm'
<1>1. /\ cmd.pc = "cands" /\ cmd.stage = "none" /\ cmd.kind = "fanout" /\ cmd \in Cmd
      /\ \A c \in Cands : task[c] = "idle"
    BY DEF FanoutSettle, CandsOver, EvidenceInv, Positions, CompareTypeOK, NoTask
<1>2. rec' = Restated(rec) /\ cmd' = [cmd EXCEPT !.pc = "ending"] /\ UNCHANGED <<task, ui>>
    BY FaultUpsets DEF FanoutSettle, Commit, FanoutTerminal
<1>3. /\ rec' \in Record /\ rec'.cands = rec.cands /\ rec'.judge = rec.judge
      /\ rec'.fusion = rec.fusion /\ rec'.status = DerivedStatus([rec' EXCEPT !.status = rec.status])
    BY <1>2, Restates DEF EvidenceInv, CompareTypeOK
<1>4. cmd'.pc = "ending" /\ cmd'.stage = "none" /\ cmd'.kind = "fanout"
    BY <1>1, <1>2 DEF Cmd
<1>5. ~FanoutActive(rec) /\ ~Active(rec.judge.atts) /\ ~Active(rec.fusion.atts)
    BY <1>1, NoneAwaited DEF Calm, InStage
<1>6. AwaitedRun'
    BY <1>3, <1>5 DEF AwaitedRun, OnlyLastRuns, FanoutActive, Active
<1>7. FanoutRuns'
    <2>1. rec.status \in RunStatus
        BY DEF EvidenceInv, CompareTypeOK, Record
    <2>2. rec.status # "running" => rec'.status # "running"
        BY <1>3, <1>5, <2>1, Verdict
    <2> SUFFICES ASSUME rec.status = "running", rec'.status = "running" PROVE FanoutRuns'
        BY <2>2 DEF FanoutRuns
    <2>3. /\ rec.judge.acc = 0 /\ rec.judge.status = "idle" /\ rec.fusion.acc = 0
          /\ rec.fusion.status = "idle" /\ rec.fusion.atts = {}
          /\ \A c \in Cands : rec.cands[c].atts # {}
          /\ \A c \in Cands : UsableCand(rec, c) => ui.cands[c] = "done"
        BY <1>1 DEF Calm, FanoutRuns
    <2>4. Cardinality(UsableCands(rec')) >= 2
        <3>1. UsableCands(rec') = UsableCands(rec) /\ FanoutActive(rec') = FanoutActive(rec)
            BY <1>3, SameOutputs
        <3>2. FanoutSettled(rec')
            BY <1>3, <1>5, <2>3, CandsAssumption DEF FanoutSettled, FanoutActive
        <3>3. ~(Cardinality(UsableCands(rec')) < 2)
            BY <1>3, <1>5, <2>1, <2>3, <3>1, <3>2, Verdict
        <3>4. Cardinality(UsableCands(rec')) \in Nat
            BY <3>1, CandsAssumption, FS_Subset, FS_CardinalityType DEF UsableCands
        <3>. QED
            BY <3>3, <3>4
    <2>5. UsableCands(rec)' = UsableCands(rec') /\ \A c \in Cands : UsableCand(rec, c)' <=> UsableCand(rec, c)
        BY <1>3 DEF UsableCands, UsableCand
    <2>. QED
        BY <1>2, <1>3, <1>4, <2>3, <2>4, <2>5 DEF FanoutRuns
<1>. QED
    BY <1>6, <1>7 DEF Calm

LEMMA FanoutEndCalm ==
    ASSUME EvidenceInv, Calm, bound, FanoutEnd PROVE Calm'
<1>1. /\ cmd.pc = "ending" /\ cmd.kind = "fanout" /\ cmd.stage = "none" /\ cmd \in Cmd
      /\ task = NoTask /\ (\A c \in Cands : task[c] = "idle") /\ rec' = rec
    BY DEF FanoutEnd, EvidenceInv, Positions, CompareTypeOK, NoTask
<1>2. ~FanoutActive(rec) /\ ~Active(rec.judge.atts) /\ ~Active(rec.fusion.atts)
    BY <1>1, NoneAwaited DEF Calm, InStage
<1>3. AwaitedRun'
    BY <1>1, <1>2 DEF AwaitedRun, OnlyLastRuns, FanoutActive, Active
<1>4. FanoutRuns'
    <2> SUFFICES ASSUME rec.status = "running" PROVE FanoutRuns'
        BY <1>1 DEF FanoutRuns
    <2>1. /\ rec.judge.acc = 0 /\ rec.judge.status = "idle" /\ rec.fusion.acc = 0
          /\ rec.fusion.status = "idle" /\ rec.fusion.atts = {}
          /\ \A c \in Cands : rec.cands[c].atts # {}
          /\ \A c \in Cands : UsableCand(rec, c) => ui.cands[c] = "done"
          /\ Cardinality(UsableCands(rec)) >= 2
        BY <1>1 DEF Calm, FanoutRuns
    <2>2. Cardinality(UsableShown(ui)) >= 2
        <3>1. UsableCands(rec) \subseteq UsableShown(ui)
            BY <2>1 DEF UsableCands, UsableShown
        <3>2. IsFiniteSet(UsableShown(ui))
            BY CandsAssumption, FS_Subset DEF UsableShown
        <3>3. IsFiniteSet(UsableCands(rec)) /\ Cardinality(UsableCands(rec)) \in Nat
              /\ Cardinality(UsableShown(ui)) \in Nat
              /\ Cardinality(UsableCands(rec)) <= Cardinality(UsableShown(ui))
            BY <3>1, <3>2, FS_Subset, FS_CardinalityType
        <3>. QED
            BY <2>1, <3>3
    <2>3. cmd' = [cmd EXCEPT !.stage = "judge", !.pc = "start", !.src = 0] /\ task' = task
        BY <2>2 DEF FanoutEnd, ToStage
    <2>4. cmd'.kind = "fanout" /\ cmd'.stage = "judge" /\ cmd'.pc = "start"
        BY <1>1, <2>3 DEF Cmd
    <2>. QED
        BY <1>1, <2>1, <2>3, <2>4 DEF FanoutRuns
<1>. QED
    BY <1>3, <1>4 DEF Calm
\* A stage that begins: the fanout's first Judge, or a stage of a later command.
LEMMA StageStartCalm ==
    ASSUME EvidenceInv, Calm, bound, StageStart, upset' = {} PROVE Calm'
<1> DEFINE new == Attempted(cmd.stage)
<1>1. cmd.pc = "start" /\ cmd.pc \in StagePc /\ UNCHANGED bound
    BY DEF StageStart, StagePc
<1>2. rec' = new /\ PcTo("started") /\ UNCHANGED <<task, ui>>
    BY FaultUpsets DEF StageStart, Commit
<1>3. /\ cmd'.pc = "started" /\ cmd'.kind = cmd.kind /\ cmd'.stage = cmd.stage
    BY <1>1, <1>2, PcMoves DEF StagePc
<1>4. /\ cmd.stage \in {"judge", "fusion"} /\ (\A c \in Cands : task[c] = "idle")
      /\ cmd.ids \in [Cands -> Nat] /\ cmd.src \in Nat /\ RecordInv(rec) /\ StageRests
      /\ rec.status \in RunStatus
    BY <1>1, AtStage DEF EvidenceInv, Cmd, CompareTypeOK, Record
<1>5. ~FanoutActive(rec) /\ ~Active(rec.judge.atts) /\ ~Active(rec.fusion.atts)
    BY <1>1, <1>4, NoneAwaited DEF Calm, InStage
<1>6. CASE cmd.stage = "judge"
    <2>1. JudgeBegun(rec, new, cmd.ids)
        BY <1>4, <1>6, StartedJudge DEF Attempted
    <2> HIDE DEF new
    <2>2. /\ new \in Record /\ new.cands = rec.cands /\ new.fusion = rec.fusion
          /\ new.judge.acc = rec.judge.acc /\ new.judge.status = "running"
          /\ \A j \in new.judge.atts : j \in rec.judge.atts \/ j.id = LastId(new.judge.atts)
          /\ new.status = DerivedStatus([new EXCEPT !.status = rec.status])
        BY <2>1 DEF JudgeBegun, RecordInv
    <2>3. AwaitedRun'
        <3>1. OnlyLastRuns(new.judge.atts)
            BY <1>5, <2>2 DEF OnlyLastRuns, Active
        <3>2. \A c \in Cands : OnlyLastRuns(rec.cands[c].atts) /\ ~Active(rec.cands[c].atts)
            BY <1>5 DEF OnlyLastRuns, FanoutActive, Active
        <3>3. OnlyLastRuns(rec.fusion.atts)
            BY <1>5 DEF OnlyLastRuns, Active
        <3>. QED
            BY <1>2, <1>3, <1>5, <1>6, <2>2, <3>1, <3>2, <3>3 DEF AwaitedRun, InStage
    <2>4. FanoutRuns'
        <3>1. rec.status # "running" => new.status # "running"
            BY <1>4, <1>5, <2>2, Verdict
        <3> SUFFICES ASSUME rec.status = "running" PROVE FanoutRuns'
            BY <1>2, <3>1 DEF FanoutRuns
        <3>. QED
            BY <1>1, <1>2, <1>3, <1>6, <2>2 DEF Calm, FanoutRuns, InStage
    <2>. QED
        BY <2>3, <2>4 DEF Calm
<1>7. CASE cmd.stage = "fusion"
    <2>1. \E j \in rec.judge.atts : j.id = cmd.src /\ j.status = "completed" /\ j.basis = cmd.ids
        BY <1>4, <1>7 DEF StageRests
    <2>2. new = FusionStart(rec, NextId(rec.fusion.atts), cmd.src, cmd.ids)
        BY <1>7 DEF Attempted
    <2>3. FusionBegun(rec, new, cmd.src)
        BY <1>4, <2>1, <2>2, StartedFusion
    <2> HIDE DEF new
    <2>4. /\ new \in Record /\ new.cands = rec.cands /\ new.judge = rec.judge
          /\ new.fusion.status = "running"
          /\ \A f \in new.fusion.atts : f \in rec.fusion.atts \/ f.id = LastId(new.fusion.atts)
          /\ new.status = DerivedStatus([new EXCEPT !.status = rec.status])
        BY <2>3 DEF FusionBegun, RecordInv
    <2>5. AwaitedRun'
        <3>1. OnlyLastRuns(new.fusion.atts)
            BY <1>5, <2>4 DEF OnlyLastRuns, Active
        <3>2. \A c \in Cands : OnlyLastRuns(rec.cands[c].atts) /\ ~Active(rec.cands[c].atts)
            BY <1>5 DEF OnlyLastRuns, FanoutActive, Active
        <3>3. OnlyLastRuns(rec.judge.atts)
            BY <1>5 DEF OnlyLastRuns, Active
        <3>. QED
            BY <1>2, <1>3, <1>5, <1>7, <2>4, <3>1, <3>2, <3>3 DEF AwaitedRun, InStage
    <2>6. rec.status # "running"
        BY <1>7 DEF Calm, FanoutRuns
    <2>7. new.status # "running"
        BY <1>4, <2>4, <2>6, Verdict
    <2>. QED
        BY <1>2, <2>5, <2>7 DEF Calm, FanoutRuns
<1>. QED
    BY <1>4, <1>6, <1>7

\* A stage that goes on without a write.
LEMMA StageStaysCalm ==
    ASSUME EvidenceInv, Calm, bound, cmd.pc \in {"started", "calling"},
           NEW p \in {"calling", "failing"}, PcTo(p), rec' = rec, task' = task
    PROVE  Calm'
<1>1. cmd.pc \in StagePc /\ p \in StagePc
    BY DEF StagePc
<1>2. cmd'.pc = p /\ cmd'.kind = cmd.kind /\ cmd'.stage = cmd.stage
    BY <1>1, PcMoves
<1>3. InStage("judge")' = InStage("judge") /\ InStage("fusion")' = InStage("fusion")
    BY <1>2 DEF InStage
<1>4. AwaitedRun'
    BY <1>2, <1>3 DEF Calm, AwaitedRun
<1>5. FanoutRuns'
    BY <1>1, <1>2, <1>3 DEF Calm, FanoutRuns, StagePc
<1>. QED
    BY <1>4, <1>5 DEF Calm

\* A stage that ends with a write leaves a verdict, and nothing in hand.
LEMMA StageEndsCalm ==
    ASSUME EvidenceInv, Calm, bound, cmd.pc \in {"calling", "failing"},
           NEW s \in {"completed", "failed"}, rec' = Settled(cmd.stage, s)
    PROVE  Quiet(rec)'
<1> DEFINE new == Settled(cmd.stage, s)
<1>1. /\ cmd.pc \in StagePc /\ cmd.stage \in {"judge", "fusion"} /\ RecordInv(rec)
      /\ (\A c \in Cands : task[c] = "idle") /\ rec.status \in RunStatus
    BY AtStage DEF StagePc, EvidenceInv, CompareTypeOK, Record
<1>2. ~FanoutActive(rec)
    BY <1>1 DEF Calm, AwaitedRun, FanoutActive
<1>3. CASE cmd.stage = "judge"
    <2>1. JudgeEnded(rec, new, cmd.ids, s)
        BY <1>3, SettledStage
    <2> DEFINE id == LastId(rec.judge.atts)
    <2> HIDE DEF new
    <2>2. /\ new \in Record /\ new.cands = rec.cands /\ new.fusion = rec.fusion /\ id # 0
          /\ s = "completed" => new.judge.acc = id /\ new.judge.status = "done"
          /\ s = "failed" => new.judge.status = "error"
          /\ \A a \in new.judge.atts : IF a.id = id THEN a.status = s ELSE a \in rec.judge.atts
          /\ new.status = DerivedStatus([new EXCEPT !.status = rec.status])
        BY <2>1 DEF JudgeEnded, RecordInv
    <2> HIDE DEF id
    <2>3. ~FanoutActive(new)
        BY <1>2, <2>2, SameOutputs
    <2>4. ~Active(new.judge.atts)
        BY <2>2 DEF Calm, AwaitedRun, OnlyLastRuns, Active, id
    <2>5. ~Active(new.fusion.atts)
        BY <1>3, <2>2 DEF Calm, AwaitedRun, InStage
    <2>6. rec.status # "running" => new.status # "running"
        BY <1>1, <2>2, <2>5, Verdict
    <2>7. rec.status = "running" => new.status # "running"
        <3>1. rec.status = "running" => new.fusion.status # "running"
            BY <2>2 DEF Calm, FanoutRuns
        <3>. QED
            BY <1>1, <2>2, <2>3, <2>5, <3>1, Verdict
    <2>8. FanoutActive(rec)' <=> FanoutActive(new)
        BY DEF FanoutActive, new
    <2>. QED
        BY <2>3, <2>4, <2>5, <2>6, <2>7, <2>8 DEF Quiet, new
<1>4. CASE cmd.stage = "fusion"
    <2>1. FusionEnded(rec, new, cmd.src, s)
        BY <1>4, SettledStage
    <2> DEFINE id == LastId(rec.fusion.atts)
    <2> HIDE DEF new
    <2>2. /\ new \in Record /\ new.cands = rec.cands /\ new.judge = rec.judge
          /\ \A a \in new.fusion.atts : IF a.id = id THEN a.status = s ELSE a \in rec.fusion.atts
          /\ new.status = DerivedStatus([new EXCEPT !.status = rec.status])
        BY <2>1 DEF FusionEnded, RecordInv
    <2> HIDE DEF id
    <2>3. ~FanoutActive(new)
        BY <1>2, <2>2, SameOutputs
    <2>4. ~Active(new.fusion.atts)
        BY <2>2 DEF Calm, AwaitedRun, OnlyLastRuns, Active, id
    <2>5. ~Active(new.judge.atts)
        BY <1>4, <2>2 DEF Calm, AwaitedRun, InStage
    <2>6. rec.status # "running"
        BY <1>4 DEF Calm, FanoutRuns
    <2>7. new.status # "running"
        BY <1>1, <2>2, <2>4, <2>6, Verdict
    <2>8. FanoutActive(rec)' <=> FanoutActive(new)
        BY DEF FanoutActive, new
    <2>. QED
        BY <2>3, <2>4, <2>5, <2>7, <2>8 DEF Quiet, new
<1>. QED
    BY <1>1, <1>3, <1>4

\* A run at rest is calm, wherever its command is.
LEMMA QuietIsCalm == ASSUME Quiet(rec)' PROVE Calm'
    BY DEF Quiet, Calm, AwaitedRun, OnlyLastRuns, FanoutRuns, FanoutActive, Active

\* The pipeline of a run that the controller still names.
LEMMA PipelineCalm ==
    ASSUME EvidenceInv, Calm, bound, Pipeline, upset' = {} PROVE Calm'
<1>1. CASE FanoutShown
    BY <1>1, FanoutShownCalm
<1>2. CASE \E c \in Cands : CandStart(c) \/ CandUnstarted(c) \/ CandSettle(c) \/ CandShow(c)
    BY <1>2, CandStartCalm, CandUnstartedCalm, CandSettleCalm, CandShowCalm
<1>3. CASE FanoutSettle \/ FanoutEnd
    BY <1>3, FanoutSettleCalm, FanoutEndCalm
<1>4. CASE RetrySettled
    <2>1. /\ cmd.kind = "retry" /\ cmd.pc = "cands" /\ task = NoTask /\ rec' = rec
        BY <1>4 DEF RetrySettled, CandsOver
    <2>2. /\ \A c \in Cands : task[c] # "stream"
          /\ ~InStage("judge") /\ ~InStage("fusion")
        BY <2>1 DEF NoTask, InStage
    <2>. QED
        BY <2>1, <2>2, AtRest, RestsOn
<1>5. CASE StageStart
    BY <1>5, StageStartCalm
<1>6. CASE StageShown
    BY <1>6, StageStaysCalm DEF StageShown
<1>7. CASE StageSettle
    <2>1. cmd.pc = "calling" /\ task' = task
        BY <1>7 DEF StageSettle
    <2>2. CASE Commit(Settled(cmd.stage, "completed"))
        BY <2>1, <2>2, StageEndsCalm, QuietIsCalm DEF Commit
    <2>3. CASE PcTo("failing") /\ rec' = rec
        BY <2>1, <2>3, StageStaysCalm
    <2>. QED
        BY <1>7, <2>2, <2>3, FaultUpsets DEF StageSettle
<1>8. CASE StageFail
    <2>1. cmd.pc = "failing" /\ rec' = Settled(cmd.stage, "failed")
        BY <1>8, FaultUpsets DEF StageFail, Commit
    <2>. QED
        BY <2>1, StageEndsCalm, QuietIsCalm
<1>9. CASE JudgeShown \/ FusionShown \/ StageFailed
    <2>1. /\ cmd.pc \in {"done", "failed"} /\ cmd.pc \in StagePc /\ rec' = rec
        BY <1>9 DEF JudgeShown, FusionShown, StageFailed, StagePc
    <2>2. /\ \A c \in Cands : task[c] # "stream"
          /\ ~InStage("judge") /\ ~InStage("fusion") /\ cmd.stage \in {"judge", "fusion"}
        BY <2>1, AtStage DEF InStage
    <2>. QED
        BY <2>1, <2>2, AtRest, RestsOn
<1>. QED
    BY <1>1, <1>2, <1>3, <1>4, <1>5, <1>6, <1>7, <1>8, <1>9 DEF Pipeline
\* Without a run id nothing is written.
LEMMA PipelineUnbound == ASSUME Pipeline, ~bound PROVE rec' = rec
<1>1. \A new : Commit(new) \/ WriteFails(new) => rec' = rec
    BY DEF Commit, WriteFails
<1>. QED
    BY <1>1 DEF Pipeline, FanoutShown, CandStart, CandUnstarted, CandSettle, CandShow,
                FanoutSettle, FanoutEnd, RetrySettled, StageStart, StageShown, StageSettle,
                StageFail, JudgeShown, FusionShown, StageFailed

LEMMA PipelineBound == ASSUME Pipeline PROVE bound' = bound /\ upset \subseteq upset'
<1>1. \A new : Commit(new) \/ WriteFails(new) => upset \subseteq upset'
    BY DEF Commit, WriteFails
<1>2. upset' = upset => upset \subseteq upset'
    OBVIOUS
<1>3. bound' = bound
    BY DEF Pipeline, FanoutShown, CandStart, CandUnstarted, CandSettle, CandShow,
           FanoutSettle, FanoutEnd, RetrySettled, StageStart, StageShown, StageSettle,
           StageFail, JudgeShown, FusionShown, StageFailed
<1>. QED
    BY <1>1, <1>2, <1>3
       DEF Pipeline, FanoutShown, CandStart, CandUnstarted, CandSettle, CandShow,
           FanoutSettle, FanoutEnd, RetrySettled, StageStart, StageShown, StageSettle,
           StageFail, JudgeShown, FusionShown, StageFailed

LEMMA PipelineSettles == ASSUME EvidenceInv, SettledInv, Pipeline PROVE SettledInv'
<1> SUFFICES ASSUME upset' = {} PROVE (bound' => Calm') /\ (~bound' => Quiet(rec)')
    BY DEF SettledInv
<1>1. upset = {} /\ bound' = bound
    BY PipelineBound
<1>2. CASE bound
    BY <1>1, <1>2, PipelineCalm DEF SettledInv
<1>3. CASE ~bound
    BY <1>1, <1>3, PipelineUnbound, RestsOn DEF SettledInv
<1>. QED
    BY <1>2, <1>3

\* What leaves the record of an idle run alone, a new command too.
LEMMA QuietSettles ==
    ASSUME EvidenceInv, SettledInv, Idle, rec' = rec, upset \subseteq upset'
    PROVE  SettledInv'
<1> SUFFICES ASSUME upset' = {} PROVE Calm' /\ Quiet(rec)'
    BY DEF SettledInv
<1>. QED
    BY IdleIsQuiet, RestsOn

LEMMA CommandSettles == ASSUME EvidenceInv, SettledInv, Command PROVE SettledInv'
<1>1. Commit(rec) \/ WriteFails(rec) => rec' = rec /\ upset \subseteq upset'
    BY DEF Commit, WriteFails
<1>2. CASE (\E c \in Cands : RetryCandidate(c)) \/ RetryJudge \/ TriggerFusion
    <2>1. Idle /\ (Commit(rec) \/ WriteFails(rec))
        BY <1>2 DEF RetryCandidate, RetryJudge, TriggerFusion, MayCommand
    <2>. QED
        BY <1>1, <2>1, QuietSettles
<1>3. CASE TooFewReported
    <2>1. /\ ui'.cands = ui.cands /\ UNCHANGED <<rec, cmd, task, bound, commands, upset>>
        BY <1>3, CommandTypes DEF TooFewReported, Ui
    <2>2. Calm => Calm'
        BY <2>1 DEF Calm, AwaitedRun, FanoutRuns, OnlyLastRuns, Active, InStage, UsableCand,
                    UsableCands, LastId
    <2>3. Quiet(rec) => Quiet(rec)'
        BY <2>1 DEF Quiet, FanoutActive, Active
    <2>. QED
        BY <2>1, <2>2, <2>3 DEF SettledInv
<1>4. CASE AbortRun
    <2> SUFFICES ASSUME upset' = {} PROVE Calm' /\ Quiet(rec)'
        BY DEF SettledInv
    <2>1. CASE Idle
        BY <1>4, <2>1, QuietSettles, IdleIsQuiet, RestsOn DEF AbortRun
    <2>2. CASE ~Idle
        <3>1. Commit(Stopped(rec, "aborted"))
            BY <1>4, <2>2, FaultUpsets DEF AbortRun
        <3>2. CASE bound
            <4>1. RunStopped(rec, Stopped(rec, "aborted"), "aborted")
                BY StoppedRun DEF EvidenceInv
            <4>2. rec' = Stopped(rec, "aborted")
                BY <3>1, <3>2 DEF Commit
            <4>3. Quiet(rec)'
                BY <4>1, <4>2 DEF RunStopped, Quiet, FanoutActive
            <4>. QED
                BY <4>3, QuietIsCalm
        <3>3. CASE ~bound
            BY <3>1, <3>3, RestsOn DEF Commit, SettledInv
        <3>. QED
            BY <3>2, <3>3
    <2>. QED
        BY <2>1, <2>2
<1>. QED
    BY <1>2, <1>3, <1>4 DEF Command

LEMMA EnvironmentSettles == ASSUME EvidenceInv, SettledInv, Environment PROVE SettledInv'
<1>1. CASE Overtaken \/ LeaseLost \/ LeaseLostUnseen
    BY <1>1 DEF Overtaken, LeaseLost, LeaseLostUnseen, SettledInv
<1>2. CASE FanoutBlocked
    <2>1. CASE Idle
        BY <1>2, <2>1, QuietSettles DEF FanoutBlocked
    <2>2. CASE ~Idle
        BY <1>2, <2>2 DEF FanoutBlocked, SettledInv
    <2>. QED
        BY <2>1, <2>2
<1>3. CASE Swept
    <2>1. upset # {} /\ upset' = upset
        BY <1>3, IdleIsQuiet DEF Swept, Quiet
    <2>. QED
        BY <2>1 DEF SettledInv
<1>. QED
    BY <1>1, <1>2, <1>3 DEF Environment

LEMMA SettledInit == Init => SettledInv
<1> SUFFICES ASSUME Init PROVE SettledInv
    OBVIOUS
<1>1. PICK mode \in Mode : rec = FanoutStart(mode)
    BY DEF Init
<1>2. /\ rec.judge = [status |-> "idle", acc |-> 0, atts |-> {}]
      /\ rec.fusion = [status |-> "idle", acc |-> 0, atts |-> {}]
      /\ \A c \in Cands : rec.cands[c] = [acc |-> 0, atts |-> {}]
    BY <1>1 DEF FanoutStart
<1>3. /\ cmd.kind = "fanout" /\ cmd.pc = "begin" /\ cmd.stage = "none" /\ bound
    BY DEF Init, NoCmd
<1>4. AwaitedRun
    BY <1>2 DEF AwaitedRun, OnlyLastRuns, Active
<1>5. FanoutRuns
    BY <1>2, <1>3 DEF FanoutRuns, UsableCand
<1>. QED
    BY <1>3, <1>4, <1>5 DEF SettledInv, Calm

LEMMA SettledNext == EvidenceInv /\ SettledInv /\ [Next]_vars => SettledInv'
<1>1. ASSUME EvidenceInv, SettledInv, UNCHANGED vars PROVE SettledInv'
    BY <1>1 DEF vars, SettledInv, Calm, AwaitedRun, FanoutRuns, OnlyLastRuns, Active, InStage,
                UsableCand, UsableCands, LastId, Quiet, FanoutActive
<1>. QED
    BY <1>1, PipelineSettles, CommandSettles, EnvironmentSettles DEF Next

\* When nothing went wrong, a command leaves the run with a verdict and without
\* an attempt that claims to be running, however it was ended
\* (run-record-builder.ts, deriveStatus and the terminal writes).
THEOREM IdleSettled == Spec => []IdleRunIsSettled
<1>1. EvidenceInv /\ SettledInv => IdleRunIsSettled
    BY IdleIsQuiet DEF Quiet, IdleRunIsSettled
<1>2. Spec => []SettledInv
    BY EvidenceHolds, SettledInit, SettledNext, PTL DEF Spec
<1>. QED
    BY <1>1, <1>2, EvidenceHolds, PTL

\* Only a step that replaces an accepted output withdraws a report or a Fusion
\* (run-record-builder.ts, applyCandidateAttemptTerminal).
LEMMA WithdrawnWhenReplaced ==
    ASSUME EvidenceInv, Next,
           \/ rec.judge.acc # 0 /\ rec'.judge.acc = 0
           \/ rec.fusion.acc # 0 /\ rec'.fusion.acc = 0
    PROVE  \E c \in Cands : rec.cands[c].acc \notin {0, rec'.cands[c].acc}
<1> DEFINE Kept(new) == \/ new = rec
                        \/ new.judge.acc = rec.judge.acc /\ new.fusion.acc = rec.fusion.acc
<1>1. ~Kept(rec')
    OBVIOUS
<1>2. RecordInv(rec)
    BY DEF EvidenceInv
<1>3. \A new : Commit(new) \/ WriteFails(new) => rec' = rec \/ rec' = new
    BY DEF Commit, WriteFails
<1>4. ~Commit(rec) /\ ~WriteFails(rec) /\ rec' # rec
    BY <1>1, <1>3
<1>5. \A s \in {"aborted", "interrupted"} : rec' # Stopped(rec, s)
    BY <1>1, <1>2, StoppedRun DEF RunStopped
<1>6. ~Command
    BY <1>3, <1>4, <1>5 DEF Command, RetryCandidate, RetryJudge, TriggerFusion, TooFewReported,
                            AbortRun
<1>7. ~Environment
    BY <1>4, <1>5 DEF Environment, Overtaken, FanoutBlocked, LeaseLost, LeaseLostUnseen, Swept
<1>8. \A c \in Cands : ~CandStart(c) /\ ~CandUnstarted(c) /\ ~CandShow(c)
    <2> SUFFICES ASSUME NEW c \in Cands PROVE ~CandStart(c) /\ ~CandUnstarted(c) /\ ~CandShow(c)
        OBVIOUS
    <2>1. rec' # CandidateAttemptStart(rec, c, NextId(rec.cands[c].atts))
        <3> DEFINE new == CandidateAttemptStart(rec, c, NextId(rec.cands[c].atts))
        <3>1. OutputBegun(rec, new, c)
            BY <1>2, StartedCandidate
        <3> HIDE DEF new
        <3>2. Kept(new)
            BY <3>1 DEF OutputBegun
        <3>. QED
            BY <1>1, <3>2 DEF new
    <2>2. CandidateAttemptTerminal(rec, c, NextId(rec.cands[c].atts), "failed", FALSE) = rec
        BY <1>2, NextIsUnknown, CandidateUnknown
    <2>. QED
        BY <1>3, <1>4, <2>1, <2>2 DEF CandStart, CandUnstarted, CandShow
<1>9. ~FanoutShown /\ ~FanoutSettle /\ ~FanoutEnd /\ ~RetrySettled
    <2>1. rec' # FanoutTerminal(rec)
        BY <1>1, <1>2, Restates DEF FanoutTerminal, RecordInv
    <2>. QED
        BY <1>3, <1>4, <2>1 DEF FanoutShown, FanoutSettle, FanoutEnd, RetrySettled
<1>10. ~StageShown /\ ~JudgeShown /\ ~FusionShown /\ ~StageFailed
    BY <1>4 DEF StageShown, JudgeShown, FusionShown, StageFailed
<1>11. ~StageStart
    <2> SUFFICES ASSUME StageStart PROVE FALSE
        OBVIOUS
    <2>1. rec' = Attempted(cmd.stage) /\ bound /\ cmd.pc = "start" /\ cmd.pc \in StagePc
        BY <1>3, <1>4 DEF StageStart, Commit, WriteFails, StagePc
    <2>2. cmd.stage \in {"judge", "fusion"} /\ StageRests /\ cmd.ids \in [Cands -> Nat]
          /\ cmd.src \in Nat
        BY <2>1, AtStage DEF Cmd
    <2>3. CASE cmd.stage = "judge"
        <3>1. JudgeBegun(rec, Attempted(cmd.stage), cmd.ids)
            BY <1>2, <2>2, <2>3, StartedJudge DEF Attempted
        <3>. QED
            BY <1>1, <2>1, <3>1 DEF JudgeBegun
    <2>4. CASE cmd.stage = "fusion"
        <3>1. \E j \in rec.judge.atts :
                 j.id = cmd.src /\ j.status = "completed" /\ j.basis = cmd.ids
            BY <2>2, <2>4 DEF StageRests
        <3>2. Attempted(cmd.stage) = FusionStart(rec, NextId(rec.fusion.atts), cmd.src, cmd.ids)
            BY <2>4 DEF Attempted
        <3>3. FusionBegun(rec, Attempted(cmd.stage), cmd.src)
            BY <1>2, <2>2, <3>1, <3>2, StartedFusion
        <3>. QED
            BY <1>1, <2>1, <3>3 DEF FusionBegun
    <2>. QED
        BY <2>2, <2>3, <2>4
<1>12. ~StageSettle /\ ~StageFail
    <2> SUFFICES ASSUME StageSettle \/ StageFail PROVE FALSE
        OBVIOUS
    <2>1. PICK s \in {"completed", "failed"} : rec' = Settled(cmd.stage, s)
        BY <1>3, <1>4 DEF StageSettle, StageFail
    <2>2. cmd.pc \in {"calling", "failing"} /\ cmd.pc \in StagePc /\ bound
        BY <1>4 DEF StageSettle, StageFail, Commit, WriteFails, StagePc
    <2>3. CASE cmd.stage = "judge"
        BY <1>1, <2>1, <2>2, <2>3, SettledStage DEF JudgeEnded
    <2>4. CASE cmd.stage = "fusion"
        BY <1>1, <2>1, <2>2, <2>4, SettledStage DEF FusionEnded
    <2>. QED
        BY <2>2, <2>3, <2>4, AtStage
<1>13. PICK c \in Cands : CandSettle(c)
    BY <1>6, <1>7, <1>8, <1>9, <1>10, <1>11, <1>12 DEF Next, Pipeline
<1>14. PICK s \in {"completed", "failed"}, u \in BOOLEAN :
          OutputSettled(rec, rec', c, s, u)
    <2>1. task[c] = "stream" /\ bound
        BY <1>4, <1>13 DEF CandSettle, Commit, WriteFails
    <2>2. PICK out \in {"ok", "blank", "bad"} :
             rec' = CandidateAttemptTerminal(rec, c, LastId(rec.cands[c].atts),
                                             IF out = "bad" THEN "failed" ELSE "completed",
                                             out = "ok")
        BY <1>3, <1>4, <1>13 DEF CandSettle
    <2> DEFINE s == IF out = "bad" THEN "failed" ELSE "completed"
               u == out = "ok"
    <2>3. LastRuns(rec.cands[c].atts) /\ s \in {"completed", "failed"} /\ u \in BOOLEAN
        BY <2>1 DEF EvidenceInv, BoundInv, TasksAreLast
    <2>4. rec' = CandidateAttemptTerminal(rec, c, LastId(rec.cands[c].atts), s, u)
        BY <2>2
    <2> HIDE DEF s, u
    <2>5. OutputSettled(rec, rec', c, s, u)
        BY <1>2, <2>3, <2>4, SettledCandidate
    <2>. QED
        BY <2>3, <2>5
<1>15. Replaces(rec, c, LastId(rec.cands[c].atts), s)
    BY <1>1, <1>14 DEF OutputSettled
<1>. QED
    BY <1>14, <1>15 DEF Replaces, OutputSettled

\* An accepted Judge report or Fusion is withdrawn only in the step that accepts
\* another output for a candidate, or none (run-record-builder.ts).
THEOREM OnlyReplacementWithdraws == Spec => OnlyReplacementWithdrawsEvidence
<1>1. EvidenceInv /\ [Next]_vars =>
         [\/ rec.judge.acc # 0 /\ rec'.judge.acc = 0
          \/ rec.fusion.acc # 0 /\ rec'.fusion.acc = 0
          => \E c \in Cands : rec.cands[c].acc \notin {0, rec'.cands[c].acc}]_vars
    BY WithdrawnWhenReplaced
<1>. QED
    BY <1>1, EvidenceHolds, PTL DEF Spec, OnlyReplacementWithdrawsEvidence

-----------------------------------------------------------------------------
\* A Compare run and a policy study, of which a behaviour shows one: it is a
\* behaviour of each of them.
LEMMA PaidIsItsParts == PaidSpec => Spec /\ StudySpec
<1>1. PaidInit => Init /\ StudyInit
    BY DEF PaidInit
<1>2. [InCompare \/ InStudy]_paidVars => [Next]_vars /\ [StudyNext]_studyVars
    BY DEF InCompare, InStudy, paidVars
<1>. QED
    BY <1>1, <1>2, PTL DEF PaidSpec, Spec, StudySpec

\* What is paid for by calls of models, runs and studies, stays in its types.
THEOREM PaidTypes == PaidSpec => []PaidTypeOK
<1>1. CompareTypeOK /\ StudyTypeOK => PaidTypeOK
    BY DEF PaidTypeOK
<1>. QED
    BY <1>1, PaidIsItsParts, CompareTypes, StudyTypes, PTL
=============================================================================
