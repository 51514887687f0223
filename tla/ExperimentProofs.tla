-------------------------- MODULE ExperimentProofs --------------------------
(***************************************************************************)
(* Proofs about ExperimentRun, for any suite, commands and faults.         *)
(***************************************************************************)
EXTENDS ExperimentRun, FiniteSetTheorems, WellFoundedInduction, TLAPS

-----------------------------------------------------------------------------
(* Sequences, and the least and the greatest of a set of places.           *)

LEMMA SeqExcept ==
    ASSUME NEW S, NEW s \in Seq(S), NEW i, NEW v, i \in DOMAIN s => v \in S
    PROVE  [s EXCEPT ![i] = v] \in Seq(S) /\ DOMAIN [s EXCEPT ![i] = v] = DOMAIN s
<1> DEFINE r == [s EXCEPT ![i] = v]
<1>1. s \in [1 .. Len(s) -> S] /\ Len(s) \in Nat
    OBVIOUS
<1>2. r \in [1 .. Len(s) -> S] /\ DOMAIN r = DOMAIN s
    BY <1>1
<1>. HIDE DEF r
<1>3. r \in Seq(S)
    BY <1>1, <1>2
<1>. QED
    BY <1>2, <1>3 DEF r

LEMMA SeqOfFunction ==
    ASSUME NEW S, NEW n \in Nat, NEW s \in [1 .. n -> S]
    PROVE  s \in Seq(S) /\ Len(s) = n
<1>1. s \in Seq(S)
    OBVIOUS
<1>. QED
    BY <1>1

LEMMA LeastOf ==
    ASSUME NEW P \in SUBSET Nat, P # {}
    PROVE  \E i \in P : \A j \in P : i <= j
<1>1. PICK i \in P : \A j \in P : ~(<<j, i>> \in OpToRel(<, Nat))
    BY WFMin, NatLessThanWellFounded, Zenon
<1>2. \A j \in P : ~(j < i)
    BY <1>1 DEF OpToRel
<1>. QED
    BY <1>2

LEMMA GreatestOf ==
    ASSUME NEW n \in Nat, NEW P \in SUBSET (1 .. n), P # {}
    PROVE  \E i \in P : \A j \in P : j <= i
<1> DEFINE Q == {m \in Nat : n - m \in P}
<1>1. Q # {} /\ Q \in SUBSET Nat
    <2>1. PICK i \in P : TRUE
        OBVIOUS
    <2>2. n - i \in Nat /\ n - (n - i) = i
        OBVIOUS
    <2>. QED
        BY <2>1, <2>2
<1>2. PICK m \in Q : \A k \in Q : m <= k
    BY <1>1, LeastOf
<1>3. \A j \in P : j <= n - m
    <2>1. TAKE j \in P
    <2>2. n - j \in Nat /\ n - (n - j) = j
        OBVIOUS
    <2>3. n - j \in Q
        BY <2>2
    <2>. QED
        BY <1>2, <2>3
<1>. QED
    BY <1>2, <1>3

LEMMA NewestOf ==
    ASSUME NEW n \in Nat, NEW P \in SUBSET (1 .. n), P # {}
    PROVE  Newest(P) \in P
    BY GreatestOf DEF Newest

LEMMA PlacesOf ==
    ASSUME NEW a \in Seq(Attempt), NEW S
    PROVE  Places(a, S) \in SUBSET (1 .. Len(a)) /\ Len(a) \in Nat
    BY DEF Places

\* A selection is a place or none.
LEMMA SelectType ==
    ASSUME NEW a \in Seq(Attempt)
    PROVE  Select(a) \in Nat
<1> DEFINE C == Places(a, {"completed"})
           P == Places(a, {"partial"})
           B == {i \in P : \A j \in P : a[j].cov <= a[i].cov}
<1>1. C \in SUBSET (1 .. Len(a)) /\ P \in SUBSET (1 .. Len(a)) /\ Len(a) \in Nat
    BY PlacesOf
<1>2. B \in SUBSET (1 .. Len(a))
    BY <1>1
<1>3. Select(a) = IF C # {} THEN Newest(C) ELSE IF B # {} THEN Newest(B) ELSE 0
    BY DEF Select
<1>. HIDE DEF C, B
<1>4. C # {} => Newest(C) \in C
    BY <1>1, NewestOf
<1>5. B # {} => Newest(B) \in B
    BY <1>1, <1>2, NewestOf
<1>6. C \subseteq Nat /\ B \subseteq Nat
    BY <1>1, <1>2
<1>7. CASE C # {}
    BY <1>3, <1>4, <1>6, <1>7
<1>8. CASE C = {} /\ B # {}
    BY <1>3, <1>5, <1>6, <1>8
<1>9. CASE C = {} /\ B = {}
    BY <1>3, <1>9
<1>. QED
    BY <1>7, <1>8, <1>9

\* The selection is about the accepted evidence alone.
SameEvidence(a, b) ==
    \A i \in Nat :
        \/ i \in DOMAIN a /\ a[i].status \in Evidence
        \/ i \in DOMAIN b /\ b[i].status \in Evidence
        => i \in DOMAIN a /\ i \in DOMAIN b /\ a[i] = b[i]

LEMMA SelectSame ==
    ASSUME NEW a \in Seq(Attempt), NEW b \in Seq(Attempt), SameEvidence(a, b)
    PROVE  Select(a) = Select(b)
<1>1. \A S \in {{"completed"}, {"partial"}} :
          /\ Places(a, S) = Places(b, S)
          /\ \A i \in Places(a, S) : a[i] = b[i]
    <2> SUFFICES ASSUME NEW S \in {{"completed"}, {"partial"}}
                 PROVE  /\ Places(a, S) = Places(b, S)
                        /\ \A i \in Places(a, S) : a[i] = b[i]
        OBVIOUS
    <2>1. S \subseteq Evidence /\ DOMAIN a \subseteq Nat /\ DOMAIN b \subseteq Nat
        BY DEF Evidence
    <2>2. \A i \in DOMAIN a : a[i].status \in S => i \in DOMAIN b /\ a[i] = b[i]
        BY <2>1 DEF SameEvidence
    <2>3. \A i \in DOMAIN b : b[i].status \in S => i \in DOMAIN a /\ a[i] = b[i]
        BY <2>1 DEF SameEvidence
    <2>. QED
        BY <2>2, <2>3 DEF Places
<1> DEFINE C == Places(a, {"completed"})
           P == Places(a, {"partial"})
           Best(x, Q) == {i \in Q : \A j \in Q : x[j].cov <= x[i].cov}
<1>2. Places(b, {"completed"}) = C /\ Places(b, {"partial"}) = P
    BY <1>1
<1>3. Best(a, P) = Best(b, P)
    BY <1>1
<1>. HIDE DEF C, P
<1>4. Select(a) = IF C # {} THEN Newest(C)
                  ELSE IF Best(a, P) # {} THEN Newest(Best(a, P)) ELSE 0
    BY DEF Select, C, P
<1>5. Select(b) = IF C # {} THEN Newest(C)
                  ELSE IF Best(b, P) # {} THEN Newest(Best(b, P)) ELSE 0
    BY <1>2 DEF Select
<1>. HIDE DEF Best
<1>. QED
    BY <1>3, <1>4, <1>5

LEMMA AttemptToRunType ==
    ASSUME NEW a \in Seq(Attempt)
    PROVE  /\ AttemptToRun(a) \in DOMAIN a \cup {Len(a) + 1}
           /\ AttemptToRun(a) \in Nat \ {0}
<1> DEFINE Q == Places(a, {"queued"})
<1>1. Q \in SUBSET (1 .. Len(a)) /\ Len(a) \in Nat /\ DOMAIN a = 1 .. Len(a)
    BY PlacesOf
<1>2. AttemptToRun(a) = IF Q = {} THEN Len(a) + 1 ELSE CHOOSE i \in Q : \A j \in Q : i <= j
    BY DEF AttemptToRun
<1>. HIDE DEF Q
<1>3. Q \in SUBSET Nat
    BY <1>1
<1>4. Q # {} => \E i \in Q : \A j \in Q : i <= j
    BY <1>3, LeastOf
<1>5. Q # {} => AttemptToRun(a) \in Q
    BY <1>2, <1>4
<1>6. Q = {} => AttemptToRun(a) = Len(a) + 1
    BY <1>2
<1>7. CASE Q = {}
    BY <1>1, <1>6, <1>7
<1>8. CASE Q # {}
    <2> DEFINE x == AttemptToRun(a)
    <2>. HIDE DEF x
    <2>1. x \in 1 .. Len(a)
        BY <1>1, <1>5, <1>8 DEF x
    <2>2. x \in DOMAIN a /\ x \in Nat \ {0}
        BY <1>1, <2>1
    <2>. QED
        BY <2>2 DEF x
<1>. QED
    BY <1>7, <1>8

-----------------------------------------------------------------------------
(* Rows that were read before they are used.                               *)

\* A row that was read is the row of today, or that has moved on; a verdict
\* stands.
Copy(row, r, rows) ==
    /\ r \in DOMAIN rows
    /\ row.rev <= rows[r].rev
    /\ row.rev = rows[r].rev => row = rows[r]
    /\ row.status \in OverStatus => rows[r].status = row.status

\* The attempt that was being run in the row that is being recovered.
FirstTask(todo) == CHOOSE t \in todo : \A x \in todo : t <= x

AttemptRead(r) == r.snap.att[FirstTask(r.todo)][FirstRunning(r.snap.att[FirstTask(r.todo)])]

LoopTypeOf(n, f) ==
    [pc : LoopPositions, task : Tasks \cup {0}, at : Nat, run : 0 .. n, plan : Plan,
     k : 0 .. f, res : Nat, load : SUBSET Run, pre : Engines, sig : BOOLEAN,
     lossy : BOOLEAN]

CmdTypeOf(f) == [kind : {"none", "start", "retry", "plan", "resume"}, pc : CmdPositions,
                 k : 0 .. f, res : Nat, snap : ExpRow, pre : Engines]

AbtTypeOf(n) == [pc : {"off", "reading", "finalized", "syncing"}, run : 0 .. n,
                 load : SUBSET Run, res : Nat]

RcvTypeOf(f) == [pc : {"off", "tasks", "reading", "ending"}, k : 0 .. f, snap : ExpRow,
                 todo : SUBSET Tasks, load : SUBSET Run]

AtWork == {"base", "beginning", "begun", "executing", "executed"}

\* The attempt of this loop is begun, and not yet handed to the commit.
Begun(x) == x.pc \in {"begun", "executing", "executed"} \/ (x.pc = "beginning" /\ x.res # 0)

HasBegun(l) == Begun(loop[l])

LoopGrounded(x, n, f, rows) ==
    /\ x \in LoopTypeOf(n, f)
    /\ \A row \in x.load : Copy(row, x.run, rows)
    /\ x.pc \in AtWork => x.task \in Tasks
    /\ Begun(x) => x.run \in DOMAIN rows

AbtGrounded(a, n, rows) == a \in AbtTypeOf(n) /\ \A row \in a.load : Copy(row, a.run, rows)

RcvGrounded(r, f, rows) ==
    /\ r \in RcvTypeOf(f)
    /\ r.pc = "reading" => \A row \in r.load : Copy(row, AttemptRead(r).run, rows)

RowsGrounded(x, rows, n) ==
    /\ x \in ExpRow /\ n \in Nat /\ DOMAIN rows \subseteq 1 .. n
    /\ \A r \in DOMAIN rows : rows[r] \in Run

LeaseGrounded == fence \in 0 .. MaxFence /\ lease \in {0, fence} /\ tok \in 0 .. fence

TabGrounded == /\ eng \in Engines /\ prev \in Nat /\ owner \in BOOLEAN
               /\ ctrl \in Loops \cup {0} /\ pse \subseteq Nat

Counted == /\ commands \in 0 .. MaxCommands /\ resumes \in 0 .. MaxResumes
           /\ faults \in 0 .. MaxFaults /\ odd \in {"none", "hasty", "lost"}

LoopsGrounded == /\ loop = [l \in Loops |-> loop[l]]
                 /\ \A l \in Loops : LoopGrounded(loop[l], ids, fence, runs)

Grounded ==
    /\ RowsGrounded(exp, runs, ids) /\ LeaseGrounded /\ TabGrounded /\ LoopsGrounded
    /\ AbtGrounded(abt, ids, runs) /\ cmd \in CmdTypeOf(fence)
    /\ RcvGrounded(rcv, fence, runs) /\ Counted
-----------------------------------------------------------------------------
(* Accepted evidence.                                                      *)

Knows(a, b) ==
    \A t \in Tasks : \A i \in DOMAIN b[t] :
        i \in DOMAIN a[t] /\ (b[t][i].run # 0 => a[t][i].run = b[t][i].run)

SameLinks(a, b) ==
    \A t \in Tasks : DOMAIN a[t] = DOMAIN b[t] /\ \A i \in DOMAIN a[t] : a[t][i].run = b[t][i].run

\* The selection is that of the policy, accepted evidence is the verdict of
\* its run, and no run is linked twice.
Sound(x, rows) ==
    \A t \in Tasks :
        /\ x.sel[t] = Select(x.att[t])
        /\ \A i \in DOMAIN x.att[t] :
              x.att[t][i].status \in Evidence =>
                  /\ x.att[t][i].run \in DOMAIN rows
                  /\ rows[x.att[t][i].run].status = x.att[t][i].status

OneEach(a) ==
    \A t, u \in Tasks : \A i \in DOMAIN a[t], j \in DOMAIN a[u] :
        a[t][i].run # 0 /\ a[t][i].run = a[u][j].run => t = u /\ i = j

Issued(a, n) == \A t \in Tasks : \A i \in DOMAIN a[t] : a[t][i].run <= n

Good(x, rows, n) == Sound(x, rows) /\ OneEach(x.att) /\ Issued(x.att, n)

\* The row, the engine and every copy that may be written back.
AllGood ==
    /\ Good(exp, runs, ids) /\ Good(eng, runs, ids)
    /\ Good(cmd.snap, runs, ids) /\ Good(cmd.pre, runs, ids) /\ Good(rcv.snap, runs, ids)
    /\ \A l \in Loops : Good(loop[l].pre, runs, ids)

Unbegun == {"none", "draft"}

\* No engine is that of a draft.
Undrafted ==
    /\ eng.status # "draft" /\ cmd.pre.status # "draft"
    /\ \A l \in Loops : loop[l].pre.status # "draft"

Alive(l) == loop[l].pc # "off"

\* One loop at a time, and no command beside it.
Alone ==
    /\ \A l, m \in Loops : Alive(l) /\ Alive(m) => l = m
    /\ \A l \in Loops : Alive(l) => cmd = NoCmd

\* A start that has written no more than its draft finds it unchanged.
Preparing(c) == c.kind = "start" /\ (c.pc \in {"read", "acquiring", "creating", "planning"}
                                     \/ (c.pc = "syncing" /\ c.res = 0))
Starting == Preparing(cmd) => exp.status \in Unbegun /\ abt.pc = "off"

AtTasks == {"tasks", "reading"}

\* The record that recovery is going to write has the links of the row it
\* would replace.
RcvKnown(r, x) ==
    /\ x.status \in Unbegun => r.pc \notin AtTasks
    /\ r.pc \in AtTasks => /\ r.snap.rev <= x.rev
                           /\ r.snap.rev = x.rev => SameLinks(r.snap.att, x.att)

\* The attempt that a loop runs is linked to its run, in the engine and, if
\* it is there, in the row.
LoopKnown(x, e, y) ==
    /\ x.pc \in AtWork => x.at \in DOMAIN e.att[x.task]
    /\ x.pc \in AtWork \ {"base"} => e.att[x.task][x.at].run = x.run
    /\ Begun(x) /\ x.at \in DOMAIN y.att[x.task] => y.att[x.task][x.at].run = x.run

Trusted ==
    /\ AllGood /\ Undrafted /\ Alone /\ Starting /\ RcvKnown(rcv, exp)
    /\ \A l \in Loops : LoopKnown(loop[l], eng, exp)
-----------------------------------------------------------------------------
(* Records whose attempts change.                                          *)

Attempts(x) == x.att \in [Tasks -> Seq(Attempt)] /\ x.sel \in [Tasks -> Nat]

\* Runs only grow, are only written with a new revision, and keep a verdict.
Grows(old, new) ==
    \A r \in DOMAIN old :
        /\ r \in DOMAIN new
        /\ old[r].rev <= new[r].rev
        /\ old[r].rev = new[r].rev => new[r] = old[r]
        /\ old[r].status \in OverStatus => new[r].status = old[r].status

LEMMA CopyStays ==
    ASSUME NEW row \in Run, NEW r, NEW old, NEW new, Grows(old, new), Copy(row, r, old),
           old[r] \in Run, new[r] \in Run
    PROVE  Copy(row, r, new)
<1>1. row.rev \in Nat /\ old[r].rev \in Nat /\ new[r].rev \in Nat
    BY DEF Run
<1>2. r \in DOMAIN old /\ row.rev <= old[r].rev
    BY DEF Copy
<1>3. r \in DOMAIN new /\ old[r].rev <= new[r].rev
    BY <1>2 DEF Grows
<1>4. row.rev = new[r].rev => row.rev = old[r].rev /\ old[r].rev = new[r].rev
    BY <1>1, <1>2, <1>3
<1>5. row.rev = new[r].rev => row = new[r]
    BY <1>2, <1>4 DEF Copy, Grows
<1>6. row.status \in OverStatus => new[r].status = row.status
    BY <1>2 DEF Copy, Grows
<1>. QED
    BY <1>1, <1>2, <1>3, <1>5, <1>6 DEF Copy

LEMMA GoodStays ==
    ASSUME NEW x, NEW old, NEW new, NEW n \in Nat, NEW m \in Nat, n <= m,
           Attempts(x), Grows(old, new), Good(x, old, n)
    PROVE  Good(x, new, m)
<1>1. Evidence \subseteq OverStatus
    BY DEF OverStatus
<1>2. \A t \in Tasks : \A i \in DOMAIN x.att[t] : x.att[t][i] \in Attempt
    BY DEF Attempts
<1>3. Sound(x, new)
    BY <1>1 DEF Good, Sound, Grows
<1>4. Issued(x.att, m)
    BY <1>2 DEF Good, Issued, Attempt
<1>. QED
    BY <1>3, <1>4 DEF Good

\* The same attempts in the same places, save for what is no evidence.
LEMMA GoodFollows ==
    ASSUME NEW x, NEW y, NEW rows, NEW n, Attempts(x), Attempts(y), Good(x, rows, n),
           SameLinks(y.att, x.att),
           \A t \in Tasks : SameEvidence(y.att[t], x.att[t])
                            /\ y.sel[t] \in {x.sel[t], Select(y.att[t])}
    PROVE  Good(y, rows, n)
<1>1. \A t \in Tasks : y.att[t] \in Seq(Attempt) /\ x.att[t] \in Seq(Attempt)
    BY DEF Attempts
<1>2. \A t \in Tasks : Select(y.att[t]) = Select(x.att[t])
    BY <1>1, SelectSame
<1>3. \A t \in Tasks : \A i \in DOMAIN y.att[t] :
          /\ i \in Nat /\ i \in DOMAIN x.att[t] /\ y.att[t][i].run = x.att[t][i].run
          /\ y.att[t][i].status \in Evidence => y.att[t][i] = x.att[t][i]
    BY <1>1 DEF SameLinks, SameEvidence
<1>4. Sound(y, rows)
    BY <1>2, <1>3 DEF Good, Sound
<1>5. OneEach(y.att)
    BY <1>3 DEF Good, OneEach
<1>6. Issued(y.att, n)
    BY <1>3 DEF Good, Issued
<1>. QED
    BY <1>4, <1>5, <1>6 DEF Good

\* In y, the attempt at place i of task t has become a; in the second, it has
\* been put there.
TakesStatus(x, y, t, i, a) ==
    LET atts == [x.att[t] EXCEPT ![i] = a]
    IN  y.att = [x.att EXCEPT ![t] = atts] /\ y.sel = [x.sel EXCEPT ![t] = Select(atts)]

TakesRun(x, y, t, i, a) ==
    y.att = [x.att EXCEPT ![t] = WithAttempt(@, i, a)] /\ y.sel = x.sel

\* One attempt takes a status, which if it is accepted is that of its run.
LEMMA GoodUpdated ==
    ASSUME NEW x, NEW y, NEW rows, NEW n, NEW t, NEW i, NEW a, Attempts(x),
           TakesStatus(x, y, t, i, a),
           t \in Tasks /\ i \in DOMAIN x.att[t] =>
              /\ a \in Attempt /\ a.run = x.att[t][i].run
              /\ a.status \in Evidence => a.run \in DOMAIN rows /\ rows[a.run].status = a.status,
           Good(x, rows, n)
    PROVE  Attempts(y) /\ SameLinks(y.att, x.att) /\ Good(y, rows, n)
<1> DEFINE atts == [x.att[t] EXCEPT ![i] = a]
<1>0. y.att = [x.att EXCEPT ![t] = atts] /\ y.sel = [x.sel EXCEPT ![t] = Select(atts)]
    BY DEF TakesStatus
<1>1. \A u \in Tasks : x.att[u] \in Seq(Attempt)
    BY DEF Attempts
<1>2. t \in Tasks => atts \in Seq(Attempt) /\ DOMAIN atts = DOMAIN x.att[t]
    BY <1>1, SeqExcept
<1>3. t \in Tasks => Select(atts) \in Nat
    BY <1>2, SelectType
<1>4. Attempts(y)
    BY <1>0, <1>2, <1>3 DEF Attempts
<1>5. \A u \in Tasks : y.att[u] = IF u = t THEN atts ELSE x.att[u]
    BY <1>0 DEF Attempts
<1>6. \A u \in Tasks : \A j \in DOMAIN y.att[u] :
          /\ j \in DOMAIN x.att[u]
          /\ y.att[u][j] = IF u = t /\ j = i THEN a ELSE x.att[u][j]
    BY <1>1, <1>2, <1>5
<1>7. SameLinks(y.att, x.att)
    BY <1>2, <1>5, <1>6 DEF SameLinks
<1>8. \A u \in Tasks : y.sel[u] = Select(y.att[u])
    BY <1>0, <1>5 DEF Attempts, Good, Sound
<1>9. Sound(y, rows)
    BY <1>6, <1>8 DEF Good, Sound
<1>10. OneEach(y.att) /\ Issued(y.att, n)
    BY <1>6 DEF Good, OneEach, Issued
<1>. QED
    BY <1>4, <1>7, <1>9, <1>10 DEF Good

\* It is there, if its place is one of the attempts or the next.
Placed(x, y, t, i, a) ==
    t \in Tasks =>
        /\ i \in DOMAIN y.att[t] => y.att[t][i] = a
        /\ i \in DOMAIN x.att[t] \cup {Len(x.att[t]) + 1} => i \in DOMAIN y.att[t]

\* A new attempt, or one without a run, is linked to a new run.
LEMMA GoodBegun ==
    ASSUME NEW x, NEW y, NEW rows, NEW n \in Nat, NEW t, NEW i, NEW a, Attempts(x),
           a \in Attempt, a.run = n + 1, a.status = "running",
           TakesRun(x, y, t, i, a),
           t \in Tasks /\ i \in DOMAIN x.att[t] => x.att[t][i].run = 0,
           DOMAIN rows \subseteq 1 .. n, Good(x, rows, n)
    PROVE  Attempts(y) /\ Good(y, rows, n + 1) /\ Placed(x, y, t, i, a)
<1> DEFINE b == WithAttempt(x.att[t], i, a)
           here == IF i \in DOMAIN x.att[t] THEN i ELSE Len(x.att[t]) + 1
<1>1. \A u \in Tasks : x.att[u] \in Seq(Attempt)
    BY DEF Attempts
<1>2. t \in Tasks => /\ b \in Seq(Attempt)
                     /\ DOMAIN b = DOMAIN x.att[t] \cup {here}
                     /\ \A j \in DOMAIN b : b[j] = IF j = here THEN a ELSE x.att[t][j]
    <2> SUFFICES ASSUME t \in Tasks
                 PROVE  /\ b \in Seq(Attempt)
                        /\ DOMAIN b = DOMAIN x.att[t] \cup {here}
                        /\ \A j \in DOMAIN b : b[j] = IF j = here THEN a ELSE x.att[t][j]
        OBVIOUS
    <2> DEFINE s == x.att[t]
    <2>1. s \in Seq(Attempt)
        BY <1>1
    <2>. HIDE DEF s
    <2>2. CASE i \in DOMAIN s
        <3>1. b = [s EXCEPT ![i] = a]
            BY <2>2 DEF WithAttempt, s
        <3>2. b \in Seq(Attempt) /\ DOMAIN b = DOMAIN s
            BY <2>1, <3>1, SeqExcept
        <3>3. \A j \in DOMAIN s : b[j] = IF j = i THEN a ELSE s[j]
            BY <2>1, <3>1
        <3>. QED
            BY <2>2, <3>2, <3>3 DEF s
    <2>3. CASE i \notin DOMAIN s
        <3>1. b = Append(s, a)
            BY <2>3 DEF WithAttempt, s
        <3>2. /\ b \in Seq(Attempt) /\ DOMAIN b = DOMAIN s \cup {Len(s) + 1}
              /\ \A j \in DOMAIN b : b[j] = IF j = Len(s) + 1 THEN a ELSE s[j]
            BY <2>1, <3>1
        <3>. QED
            BY <2>3, <3>2 DEF s
    <2>. QED
        BY <2>2, <2>3
<1>3. Attempts(y) /\ y.sel = x.sel /\ \A u \in Tasks : y.att[u] = IF u = t THEN b ELSE x.att[u]
    BY <1>2 DEF Attempts, TakesRun
<1>13. Placed(x, y, t, i, a)
    <2>1. t \in Tasks => y.att[t] = b
        BY <1>3
    <2>. HIDE DEF b
    <2>. QED
        BY <1>2, <2>1 DEF Placed
<1>4. \A u \in Tasks : \A j \in DOMAIN y.att[u] :
          \/ u = t /\ j = here /\ y.att[u][j] = a
          \/ j \in DOMAIN x.att[u] /\ y.att[u][j] = x.att[u][j]
    <2>. HIDE DEF b, here
    <2>. QED BY <1>2, <1>3
<1>5. \A u \in Tasks : \A j \in DOMAIN x.att[u] :
          x.att[u][j].run \in Nat /\ x.att[u][j].run <= n
    <2>1. \A u \in Tasks : \A j \in DOMAIN x.att[u] : x.att[u][j] \in Attempt
        BY <1>1
    <2>. QED
        BY <2>1 DEF Good, Issued, Attempt
<1>6. t \in Tasks /\ i \in DOMAIN x.att[t] => x.att[t][i].status \notin Evidence
    BY DEF Good, Sound
<1>7. a.status \notin Evidence
    BY DEF Evidence
<1>8. \A u \in Tasks : SameEvidence(y.att[u], x.att[u])
    <2>1. \A u \in Tasks : u # t => SameEvidence(y.att[u], x.att[u])
        BY <1>1, <1>3 DEF SameEvidence
    <2>2. t \in Tasks => SameEvidence(b, x.att[t])
        <3> SUFFICES ASSUME t \in Tasks PROVE SameEvidence(b, x.att[t])
            OBVIOUS
        <3>1. here \in DOMAIN x.att[t] => here = i
            BY <1>1
        <3>. HIDE DEF b, here
        <3>. QED BY <1>2, <1>6, <1>7, <3>1 DEF SameEvidence
    <2>. QED
        BY <1>3, <2>1, <2>2
<1>9. \A u \in Tasks : Select(y.att[u]) = Select(x.att[u])
    BY <1>1, <1>3, <1>8, SelectSame DEF Attempts
<1>. HIDE DEF b, here
<1>10. Sound(y, rows)
    BY <1>3, <1>4, <1>7, <1>9 DEF Good, Sound
<1>11. OneEach(y.att)
    BY <1>4, <1>5 DEF Good, OneEach
<1>12. Issued(y.att, n + 1)
    BY <1>4, <1>5 DEF Good, Issued
<1>. QED
    BY <1>3, <1>10, <1>11, <1>12, <1>13 DEF Good

-----------------------------------------------------------------------------
(* The operators of the engine.                                            *)

LEMMA EngineFields ==
    ASSUME NEW e \in Engines
    PROVE  /\ Attempts(e) /\ e.status \in ExpStatus \cup {"none"}
           /\ e.queue \in Seq(Tasks) /\ e.task \in 0 .. NTasks /\ e.at \in Nat
           /\ e.pause \in BOOLEAN
           /\ e.status # "none" => e \in Engine
           /\ e.status = "none" => e = NoEngine
<1>1. NTasks \in Nat
    BY NTasksAssumption
<1>2. CASE e \in Engine
    BY <1>2 DEF Engine, Attempts, ExpStatus, Terminal
<1>3. CASE e = NoEngine
    <2>1. /\ e.status = "none" /\ e.att = [t \in Tasks |-> <<>>]
          /\ e.sel = [t \in Tasks |-> 0] /\ e.queue = <<>> /\ e.task = 0 /\ e.at = 0
          /\ e.pause = FALSE
        BY <1>3 DEF NoEngine, EngineOf
    <2>2. [t \in Tasks |-> <<>>] \in [Tasks -> Seq(Attempt)]
        OBVIOUS
    <2>3. [t \in Tasks |-> 0] \in [Tasks -> Nat]
        OBVIOUS
    <2>4. Attempts(e)
        BY <2>1, <2>2, <2>3 DEF Attempts
    <2>5. 0 \in 0 .. NTasks /\ <<>> \in Seq(Tasks)
        BY <1>1
    <2>6. e.queue \in Seq(Tasks)
        BY <2>1, <2>5
    <2>7. e.task \in 0 .. NTasks /\ e.at \in Nat
        BY <2>1, <2>5
    <2>8. e.pause \in BOOLEAN
        BY <2>1
    <2>. QED
        BY <1>3, <2>1, <2>4, <2>6, <2>7, <2>8
<1>. QED
    BY <1>2, <1>3 DEF Engines

LEMMA NoRowFields ==
    /\ NoExp.status = "none" /\ NoExp.rev = 0 /\ NoExp.att = [t \in Tasks |-> <<>>]
    /\ NoExp.sel = [t \in Tasks |-> 0] /\ NoExp \in ExpRow
    /\ NoEngine.status = "none" /\ NoEngine.att = [t \in Tasks |-> <<>>]
    /\ NoEngine.sel = [t \in Tasks |-> 0] /\ NoEngine \in Engines
    /\ NoEngine.task = 0
<1>1. /\ NoEngine.status = "none" /\ NoEngine.att = [t \in Tasks |-> <<>>]
      /\ NoEngine.sel = [t \in Tasks |-> 0] /\ NoEngine \in Engines /\ NoEngine.task = 0
    BY DEF NoEngine, EngineOf, Engines
<1>2. [t \in Tasks |-> <<>>] \in [Tasks -> Seq(Attempt)]
    OBVIOUS
<1>3. [t \in Tasks |-> 0] \in [Tasks -> Nat]
    OBVIOUS
<1>4. /\ NoExp.status = "none" /\ NoExp.rev = 0 /\ NoExp.att = [t \in Tasks |-> <<>>]
      /\ NoExp.sel = [t \in Tasks |-> 0]
    BY <1>1 DEF NoExp
<1>5. NoExp \in ExpRow
    BY <1>1, <1>2, <1>3 DEF NoExp, ExpRow
<1>. QED
    BY <1>1, <1>4, <1>5

LEMMA NothingIsGood ==
    ASSUME NEW x, x.att = [t \in Tasks |-> <<>>], x.sel = [t \in Tasks |-> 0], NEW rows, NEW n
    PROVE  Good(x, rows, n)
<1>1. \A t \in Tasks : x.att[t] = <<>> /\ x.sel[t] = 0
    OBVIOUS
<1>2. Select(<<>>) = 0
    <2>1. \A S : Places(<<>>, S) = {}
        BY DEF Places
    <2>. QED
        BY <2>1 DEF Select
<1>. QED
    BY <1>1, <1>2 DEF Good, Sound, OneEach, Issued

LEMMA StoppedIs ==
    ASSUME NEW a \in Seq(Attempt)
    PROVE  /\ Stopped(a) \in Seq(Attempt) /\ DOMAIN Stopped(a) = DOMAIN a
           /\ \A i \in DOMAIN a : Stopped(a)[i].run = a[i].run
           /\ SameEvidence(Stopped(a), a)
<1> DEFINE s == Stopped(a)
<1>1. s = [i \in 1 .. Len(a) |-> IF a[i].status \in Unfinished
                                 THEN [a[i] EXCEPT !.status = "aborted"] ELSE a[i]]
    BY DEF Stopped
<1>2. \A i \in 1 .. Len(a) : a[i] \in Attempt
    OBVIOUS
<1>3. \A i \in 1 .. Len(a) : /\ s[i] \in Attempt /\ s[i].run = a[i].run
                             /\ a[i].status \in Unfinished => s[i].status = "aborted"
                             /\ a[i].status \notin Unfinished => s[i] = a[i]
    <2>. HIDE DEF s
    <2>. QED BY <1>1, <1>2 DEF Attempt, AttemptStatus, RunStatus, OverStatus
<1>4. s \in [1 .. Len(a) -> Attempt] /\ Len(a) \in Nat
    <2>. HIDE DEF s
    <2>. QED BY <1>1, <1>3
<1>5. s \in Seq(Attempt) /\ DOMAIN s = DOMAIN a
    <2>. HIDE DEF s
    <2>. QED BY <1>4, SeqOfFunction
<1>6. SameEvidence(s, a)
    <2>. HIDE DEF s
    <2>. QED BY <1>3, <1>5 DEF SameEvidence, Evidence, Unfinished
<1>. QED
    BY <1>3, <1>5, <1>6

LEMMA AbortedIs ==
    ASSUME NEW e \in Engines
    PROVE  /\ Aborted(e) \in Engines /\ SameLinks(Aborted(e).att, e.att)
           /\ Aborted(e).status \notin {"running", "paused"}
           /\ e.status \in Terminal \cup {"none"} => Aborted(e) = e
           /\ e.status \notin Terminal \cup {"none"} =>
                 Aborted(e).status = "aborted" /\ Aborted(e).task = 0
           /\ \A rows, n : Good(e, rows, n) => Good(Aborted(e), rows, n)
<1>1. Attempts(e) /\ e.status \in ExpStatus \cup {"none"}
    BY EngineFields
<1>2. CASE e.status \in Terminal \cup {"none"}
    <2>1. e.status \notin {"running", "paused", "draft"}
        BY <1>2 DEF Terminal
    <2>2. Aborted(e) = e
        BY <2>1 DEF Aborted
    <2>. QED
        BY <1>2, <2>1, <2>2 DEF SameLinks
<1>3. CASE e.status \notin Terminal \cup {"none"}
    <2>1. e.status \in {"running", "paused", "draft"} /\ e \in Engine
        BY <1>1, <1>3, EngineFields DEF ExpStatus
    <2> DEFINE a == [t \in Tasks |-> Stopped(e.att[t])]
               s == [t \in Tasks |-> IF a[t] = e.att[t] THEN e.sel[t] ELSE Select(a[t])]
    <2>2. Aborted(e) = [e EXCEPT !.status = "aborted", !.att = a, !.sel = s, !.queue = <<>>,
                                 !.task = 0, !.at = 0, !.pause = FALSE]
        BY <2>1 DEF Aborted
    <2>3. \A t \in Tasks : /\ a[t] \in Seq(Attempt) /\ DOMAIN a[t] = DOMAIN e.att[t]
                           /\ \A i \in DOMAIN a[t] : a[t][i].run = e.att[t][i].run
                           /\ SameEvidence(a[t], e.att[t])
        BY <1>1, StoppedIs DEF Attempts
    <2>. HIDE DEF a
    <2>4. a \in [Tasks -> Seq(Attempt)]
        BY <2>3 DEF a
    <2>5. \A t \in Tasks : s[t] \in Nat /\ s[t] \in {e.sel[t], Select(a[t])}
        BY <1>1, <2>3, SelectType DEF Attempts
    <2>6. s \in [Tasks -> Nat]
        BY <2>5
    <2>. HIDE DEF s
    <2>7. /\ Aborted(e).att = a /\ Aborted(e).sel = s /\ Aborted(e).status = "aborted"
          /\ Aborted(e).task = 0
        BY <2>1, <2>2 DEF Engine
    <2>8. 0 \in 0 .. NTasks /\ <<>> \in Seq(Tasks) /\ "aborted" \in ExpStatus
        BY NTasksAssumption DEF ExpStatus, Terminal
    <2> DEFINE q == <<>>
               no == FALSE
    <2>13. q \in Seq(Tasks) /\ no \in BOOLEAN
        BY <2>8
    <2>14. Aborted(e) = [status |-> "aborted", att |-> a, sel |-> s, queue |-> q, task |-> 0,
                         at |-> 0, pause |-> no]
        BY <2>1, <2>2 DEF Engine
    <2>. HIDE DEF q, no
    <2>9. Aborted(e) \in Engine
        BY <2>4, <2>6, <2>8, <2>13, <2>14 DEF Engine
    <2>10. SameLinks(a, e.att)
        BY <2>3 DEF SameLinks
    <2>11. Attempts(Aborted(e))
        BY <2>4, <2>6, <2>7 DEF Attempts
    <2>12. ASSUME NEW rows, NEW n, Good(e, rows, n) PROVE Good(Aborted(e), rows, n)
        BY <1>1, <2>3, <2>5, <2>7, <2>10, <2>11, <2>12, GoodFollows
    <2>. QED
        BY <1>3, <2>7, <2>9, <2>10, <2>12 DEF Engines
<1>. QED
    BY <1>2, <1>3

LEMMA PauseRequestedIs ==
    ASSUME NEW e \in Engines, e.status # "none"
    PROVE  /\ PauseRequested(e) \in Engine
           /\ PauseRequested(e).att = e.att /\ PauseRequested(e).sel = e.sel
           /\ PauseRequested(e).task = e.task /\ PauseRequested(e).at = e.at
           /\ \/ PauseRequested(e).status = e.status
              \/ PauseRequested(e).status = "paused" /\ e.status = "running" /\ e.task = 0
<1>1. e \in Engine
    BY EngineFields
<1>. QED
    BY <1>1 DEF PauseRequested, Engine, ExpStatus

LEMMA ResumedIs ==
    ASSUME NEW e \in Engines, e.status # "none"
    PROVE  /\ Resumed(e) \in Engine /\ Resumed(e).att = e.att /\ Resumed(e).sel = e.sel
           /\ Resumed(e).status = "running" /\ Resumed(e).task = e.task /\ Resumed(e).at = e.at
<1>1. e \in Engine
    BY EngineFields
<1>. QED
    BY <1>1 DEF Resumed, Engine, ExpStatus

LEMMA TaskBegunIs ==
    ASSUME NEW e \in Engines, NEW t \in Tasks, NEW i \in Nat, NEW run \in Nat,
           MayBegin(e, t, i)
    PROVE  /\ TaskBegun(e, t, i, run) \in Engine
           /\ TakesRun(e, TaskBegun(e, t, i, run), t, i, NewAttempt(run, "running", "none"))
           /\ TaskBegun(e, t, i, run).status = "running" /\ e.status = "running"
           /\ TaskBegun(e, t, i, run).task = t /\ TaskBegun(e, t, i, run).at = i
<1>1. e \in Engine /\ e.status = "running" /\ e.queue # <<>>
    BY EngineFields DEF MayBegin
<1> DEFINE a == NewAttempt(run, "running", "none")
           b == WithAttempt(e.att[t], i, a)
<1>2. a \in Attempt
    BY DEF NewAttempt, Attempt, AttemptStatus, RunStatus, Plan
<1>3. b \in Seq(Attempt)
    <2>1. e.att[t] \in Seq(Attempt)
        BY <1>1 DEF Engine
    <2>2. i \in DOMAIN e.att[t] => [e.att[t] EXCEPT ![i] = a] \in Seq(Attempt)
        BY <1>2, <2>1, SeqExcept
    <2>3. Append(e.att[t], a) \in Seq(Attempt)
        BY <1>2, <2>1
    <2>. QED
        BY <2>2, <2>3 DEF WithAttempt
<1>4. Tail(e.queue) \in Seq(Tasks)
    BY <1>1 DEF Engine
<1>5. TaskBegun(e, t, i, run) =
        [e EXCEPT !.att = [e.att EXCEPT ![t] = b], !.queue = Tail(e.queue), !.task = t, !.at = i]
    BY <1>1 DEF TaskBegun, Engine
<1>. HIDE DEF b
<1>6. [e.att EXCEPT ![t] = b] \in [Tasks -> Seq(Attempt)]
    BY <1>1, <1>3 DEF Engine
<1>7. t \in 0 .. NTasks
    BY NTasksAssumption DEF Tasks
<1>8. TaskBegun(e, t, i, run) \in Engine
    BY <1>1, <1>4, <1>5, <1>6, <1>7 DEF Engine
<1>. QED
    BY <1>1, <1>5, <1>8 DEF Engine, b, TakesRun

LEMMA FinalizedIs ==
    ASSUME NEW a \in Attempt, NEW status \in RunStatus, NEW cov \in 0 .. 2, NEW plan \in Plan
    PROVE  /\ Finalized(a, status, cov, plan) \in Attempt
           /\ Finalized(a, status, cov, plan).run = a.run
           /\ Finalized(a, status, cov, plan).status = status
    BY DEF Finalized, Attempt, AttemptStatus

\* The attempts of a task whose attempt i is finalized.
Over(atts, i, status, cov, plan) == [atts EXCEPT ![i] = Finalized(@, status, cov, plan)]

LEMMA OverIs ==
    ASSUME NEW s \in Seq(Attempt), NEW i, NEW status \in RunStatus, NEW cov \in 0 .. 2,
           NEW plan \in Plan
    PROVE  Over(s, i, status, cov, plan) \in Seq(Attempt)
<1> DEFINE a == Finalized(s[i], status, cov, plan)
<1>1. i \in DOMAIN s => a \in Attempt
    <2>1. i \in DOMAIN s => s[i] \in Attempt
        OBVIOUS
    <2>. QED
        BY <2>1, FinalizedIs
<1>2. Over(s, i, status, cov, plan) = [s EXCEPT ![i] = a]
    BY DEF Over
<1>. HIDE DEF a
<1>. QED
    BY <1>1, <1>2, SeqExcept

LEMMA TaskCommittedIs ==
    ASSUME NEW e \in Engine, NEW t \in Tasks, NEW i, NEW status \in RunStatus,
           NEW cov \in 0 .. 2, NEW plan \in Plan, NEW c, c = TaskCommitted(e, t, i, status, cov, plan),
           NEW atts, atts = Over(e.att[t], i, status, cov, plan)
    PROVE  /\ c \in Engine /\ c.att = [e.att EXCEPT ![t] = atts]
           /\ c.sel = [e.sel EXCEPT ![t] = Select(atts)] /\ c.task = 0
           /\ c.status \in {e.status, "completed", "completed_with_failures", "paused"}
<1> DEFINE att == [e.att EXCEPT ![t] = atts]
           d == [e EXCEPT !.att = att, !.task = 0, !.at = 0]
           f == [d EXCEPT !.sel = [e.sel EXCEPT ![t] = Select(atts)]]
<1>2. atts \in Seq(Attempt)
    <2>1. e.att[t] \in Seq(Attempt)
        BY DEF Engine
    <2>. QED
        BY <2>1, OverIs
<1>3. Select(atts) \in Nat
    BY <1>2, SelectType
<1>4. att \in [Tasks -> Seq(Attempt)] /\ att[t] = atts
    BY <1>2 DEF Engine
<1>5. c = Settled(f)
    <2>1. [e EXCEPT !.att[t][i] = Finalized(@, status, cov, plan), !.task = 0, !.at = 0] = d
        BY DEF Engine, Over
    <2>2. Reselected(d, t) = f
        <3>1. d.att[t] = atts /\ d.sel = e.sel
            BY <1>4 DEF Engine
        <3>. HIDE DEF d
        <3>. QED BY <3>1 DEF Reselected
    <2>. QED
        BY <2>1, <2>2 DEF TaskCommitted
<1>6. [e.sel EXCEPT ![t] = Select(atts)] \in [Tasks -> Nat]
    BY <1>3 DEF Engine
<1>7. f \in Engine /\ f.att = att /\ f.sel = [e.sel EXCEPT ![t] = Select(atts)] /\ f.task = 0
          /\ f.status = e.status
    <2>1. NTasks \in Nat
        BY NTasksAssumption
    <2>2. 0 \in 0 .. NTasks
        BY <2>1
    <2>. HIDE DEF att
    <2>. QED BY <1>4, <1>6, <2>2 DEF Engine
<1>. HIDE DEF f, att
<1>8. /\ Settled(f) \in Engine /\ Settled(f).att = f.att /\ Settled(f).sel = f.sel
      /\ Settled(f).task = f.task
      /\ Settled(f).status \in {f.status, "completed", "completed_with_failures", "paused"}
    BY <1>7 DEF Settled, Engine, ExpStatus, Terminal
<1>. QED
    BY <1>5, <1>7, <1>8 DEF att

\* Some tasks can be put in order.
LEMMA InOrderExists ==
    \A n \in Nat : \A S \in SUBSET (1 .. n) :
        \E q \in [1 .. Cardinality(S) -> S] : \A i, j \in DOMAIN q : i < j => q[i] < q[j]
<1> DEFINE Ordered(S) ==
        \E q \in [1 .. Cardinality(S) -> S] : \A i, j \in DOMAIN q : i < j => q[i] < q[j]
           T == {n \in Nat : \E S \in SUBSET (1 .. n) : ~Ordered(S)}
<1>1. SUFFICES ASSUME T # {} PROVE FALSE
    OBVIOUS
<1>2. PICK n \in T : \A m \in T : n <= m
    <2>1. T \in SUBSET Nat
        OBVIOUS
    <2>. HIDE DEF T
    <2>. QED BY <1>1, <2>1, LeastOf
<1>3. n \in Nat /\ \E S \in SUBSET (1 .. n) : ~Ordered(S)
    OBVIOUS
<1>4. PICK S \in SUBSET (1 .. n) : ~Ordered(S)
    BY <1>3
<1>5. \A R \in SUBSET (1 .. n - 1) : n # 0 => Ordered(R)
    <2> SUFFICES ASSUME NEW R \in SUBSET (1 .. n - 1), n # 0, ~Ordered(R) PROVE FALSE
        OBVIOUS
    <2>1. n - 1 \in Nat
        BY <1>3
    <2>2. n - 1 \in T
        BY <2>1
    <2>. HIDE DEF T
    <2>3. n <= n - 1
        BY <1>2, <2>2
    <2>. QED
        BY <1>3, <2>3
<1>. HIDE DEF T
<1>6. IsFiniteSet(S)
    BY <1>3, FS_Interval, FS_Subset
<1>7. CASE S = {}
    <2>1. Cardinality(S) = 0
        BY <1>7, FS_EmptySet
    <2>2. <<>> \in [1 .. Cardinality(S) -> S] /\ DOMAIN <<>> = {}
        BY <1>7, <2>1
    <2>3. Ordered(S)
        BY <2>2
    <2>. QED
        BY <1>4, <2>3
<1>8. CASE n \notin S /\ S # {}
    <2>1. \A s \in S : s \in 1 .. n /\ s # n
        BY <1>8
    <2>2. \A s \in 1 .. n : s # n => s \in 1 .. n - 1 /\ n # 0
        BY <1>3
    <2>3. S \in SUBSET (1 .. n - 1) /\ n # 0
        BY <1>8, <2>1, <2>2
    <2>. QED
        BY <1>4, <1>5, <2>3
<1>9. CASE n \in S
    <2> DEFINE R == S \ {n}
               c == Cardinality(R)
    <2>1. R \in SUBSET (1 .. n - 1) /\ n # 0
        BY <1>3, <1>9
    <2>2. PICK q \in [1 .. c -> R] : \A i, j \in DOMAIN q : i < j => q[i] < q[j]
        BY <1>5, <2>1
    <2>3. IsFiniteSet(R) /\ c \in Nat /\ Cardinality(S) = c + 1
        BY <1>6, <1>9, FS_RemoveElement, FS_Subset, FS_CardinalityType
    <2>. HIDE DEF c
    <2> DEFINE p == [i \in 1 .. c + 1 |-> IF i <= c THEN q[i] ELSE n]
    <2>4. \A i \in 1 .. c : q[i] \in S /\ q[i] < n /\ q[i] \in Nat
        <3>1. \A i \in 1 .. c : q[i] \in R
            BY <2>2
        <3>2. \A s \in R : s \in 1 .. n - 1 /\ s \in S
            BY <2>1
        <3>3. \A s \in 1 .. n - 1 : s < n /\ s \in Nat
            BY <1>3
        <3>. QED
            BY <3>1, <3>2, <3>3
    <2>5. \A i \in 1 .. c + 1 : p[i] \in S
        BY <1>9, <2>3, <2>4
    <2>6. p \in [1 .. c + 1 -> S] /\ DOMAIN p = 1 .. c + 1
        BY <2>5
    <2>7. \A i, j \in 1 .. c + 1 : i < j => p[i] < p[j]
        <3> SUFFICES ASSUME NEW i \in 1 .. c + 1, NEW j \in 1 .. c + 1, i < j
                     PROVE  p[i] < p[j]
            OBVIOUS
        <3>1. i \in 1 .. c /\ p[i] = q[i]
            BY <2>3
        <3>2. CASE j = c + 1
            <4>1. p[j] = n
                BY <2>3, <3>2
            <4>. QED
                BY <2>4, <3>1, <4>1
        <3>3. CASE j # c + 1
            <4>1. j \in 1 .. c /\ p[j] = q[j]
                BY <2>3, <3>3
            <4>2. q[i] < q[j]
                BY <2>2, <3>1, <4>1
            <4>. QED
                BY <3>1, <4>1, <4>2
        <3>. QED
            BY <3>2, <3>3
    <2>. HIDE DEF p
    <2>8. \A i, j \in DOMAIN p : i < j => p[i] < p[j]
        BY <2>6, <2>7
    <2>9. Ordered(S)
        BY <2>3, <2>6, <2>8
    <2>. QED
        BY <1>4, <2>9
<1>. QED
    BY <1>7, <1>8, <1>9

LEMMA InOrderType ==
    ASSUME NEW S \in SUBSET Tasks
    PROVE  InOrder(S) \in Seq(Tasks)
<1>1. NTasks \in Nat
    BY NTasksAssumption
<1>2. \E q \in [1 .. Cardinality(S) -> S] : \A i, j \in DOMAIN q : i < j => q[i] < q[j]
    BY <1>1, InOrderExists DEF Tasks
<1>3. InOrder(S) \in [1 .. Cardinality(S) -> S]
    BY <1>2 DEF InOrder
<1>4. Cardinality(S) \in Nat
    <2>1. IsFiniteSet(1 .. NTasks)
        BY <1>1, FS_Interval
    <2>2. IsFiniteSet(S)
        BY <2>1, FS_Subset DEF Tasks
    <2>. QED
        BY <2>2, FS_CardinalityType
<1>5. InOrder(S) \in [1 .. Cardinality(S) -> Tasks]
    BY <1>3
<1>. QED
    BY <1>4, <1>5, SeqOfFunction

LEMMA EngineOfIs ==
    ASSUME NEW x \in ExpRow
    PROVE  /\ EngineOf(x).att = x.att /\ EngineOf(x).sel = x.sel
           /\ EngineOf(x).task = 0 /\ Attempts(x) /\ EngineOf(x).queue = <<>>
    BY DEF EngineOf, ExpRow, Attempts

\* The tasks that are queued take up a new attempt without a run.
LEMMA QueuedIs ==
    ASSUME NEW x \in ExpRow, NEW plans, DOMAIN plans \subseteq Tasks,
           \A t \in DOMAIN plans : plans[t] \in Plan, NEW q, q = Queued(EngineOf(x), plans)
    PROVE  /\ q \in Engine /\ q.status = "running" /\ q.task = 0
           /\ Knows(q.att, x.att)
           /\ \A rows, n : n \in Nat /\ Good(x, rows, n) => Good(q, rows, n)
<1> DEFINE new(t) == NewAttempt(0, "queued", plans[t])
           att == [t \in Tasks |-> IF t \in DOMAIN plans THEN Append(x.att[t], new(t))
                                   ELSE x.att[t]]
<1>1. /\ q.att = att /\ q.sel = x.sel /\ q.status = "running" /\ q.task = 0
      /\ q = [status |-> "running", att |-> att, sel |-> x.sel, queue |-> InOrder(DOMAIN plans),
              task |-> 0, at |-> 0, pause |-> FALSE]
    BY DEF Queued, EngineOf
<1>2. \A t \in DOMAIN plans : new(t) \in Attempt /\ new(t).run = 0 /\ new(t).status = "queued"
    BY DEF NewAttempt, Attempt, AttemptStatus
<1>3. x.att \in [Tasks -> Seq(Attempt)] /\ x.sel \in [Tasks -> Nat]
    BY DEF ExpRow
<1>. HIDE DEF new
<1>4. \A t \in Tasks : t \in DOMAIN plans =>
          /\ att[t] \in Seq(Attempt) /\ DOMAIN att[t] = DOMAIN x.att[t] \cup {Len(x.att[t]) + 1}
          /\ \A i \in DOMAIN x.att[t] : att[t][i] = x.att[t][i]
          /\ att[t][Len(x.att[t]) + 1] = new(t) /\ Len(x.att[t]) + 1 \notin DOMAIN x.att[t]
    <2> SUFFICES ASSUME NEW t \in Tasks, t \in DOMAIN plans
                 PROVE  /\ att[t] \in Seq(Attempt)
                        /\ DOMAIN att[t] = DOMAIN x.att[t] \cup {Len(x.att[t]) + 1}
                        /\ \A i \in DOMAIN x.att[t] : att[t][i] = x.att[t][i]
                        /\ att[t][Len(x.att[t]) + 1] = new(t)
                        /\ Len(x.att[t]) + 1 \notin DOMAIN x.att[t]
        OBVIOUS
    <2>1. att[t] = Append(x.att[t], new(t)) /\ x.att[t] \in Seq(Attempt) /\ new(t) \in Attempt
        BY <1>2, <1>3
    <2>. HIDE DEF att
    <2>. QED BY <2>1
<1>5. \A t \in Tasks : t \notin DOMAIN plans => att[t] = x.att[t]
    OBVIOUS
<1>6. att \in [Tasks -> Seq(Attempt)]
    BY <1>3, <1>4, <1>5
<1>7. InOrder(DOMAIN plans) \in Seq(Tasks)
    BY InOrderType
<1>. HIDE DEF att
<1>8. q \in Engine
    <2>1. 0 \in 0 .. NTasks /\ "running" \in ExpStatus
        BY NTasksAssumption DEF ExpStatus
    <2> DEFINE no == FALSE
    <2>2. no \in BOOLEAN
        OBVIOUS
    <2>3. q = [status |-> "running", att |-> att, sel |-> x.sel, queue |-> InOrder(DOMAIN plans),
               task |-> 0, at |-> 0, pause |-> no]
        BY <1>1
    <2>. HIDE DEF no
    <2>. QED BY <1>3, <1>6, <1>7, <2>1, <2>2, <2>3 DEF Engine
<1>9. Knows(att, x.att)
    BY <1>4, <1>5 DEF Knows
<1>10. ASSUME NEW rows, NEW n, n \in Nat, Good(x, rows, n) PROVE Good(q, rows, n)
    <2>1. \A t \in Tasks : SameEvidence(att[t], x.att[t])
        <3>1. ASSUME NEW t \in Tasks, t \in DOMAIN plans PROVE SameEvidence(att[t], x.att[t])
            BY <1>2, <1>4, <3>1 DEF SameEvidence, Evidence
        <3>2. ASSUME NEW t \in Tasks, t \notin DOMAIN plans PROVE SameEvidence(att[t], x.att[t])
            BY <1>5, <3>2 DEF SameEvidence
        <3>. QED
            BY <3>1, <3>2
    <2>2. \A t \in Tasks : Select(att[t]) = Select(x.att[t])
        BY <1>3, <1>6, <2>1, SelectSame
    <2>3. \A t \in Tasks : \A i \in DOMAIN att[t] :
              \/ i \in DOMAIN x.att[t] /\ att[t][i] = x.att[t][i]
              \/ att[t][i].run = 0 /\ att[t][i].status \notin Evidence
        BY <1>2, <1>4, <1>5 DEF Evidence
    <2>4. Sound(q, rows)
        BY <1>1, <1>10, <2>2, <2>3 DEF Good, Sound
    <2>5. OneEach(att)
        BY <1>10, <2>3 DEF Good, OneEach
    <2>6. Issued(att, n)
        BY <1>10, <2>3 DEF Good, Issued
    <2>. QED
        BY <1>1, <2>4, <2>5, <2>6 DEF Good
<1>. QED
    BY <1>1, <1>8, <1>9, <1>10

LEMMA DraftStartedIs ==
    ASSUME NEW q, q = DraftStarted(EngineOf([NoExp EXCEPT !.status = "draft"]))
    PROVE  /\ q \in Engine /\ q.status = "running" /\ q.task = 0
           /\ q.att = NoExp.att /\ q.sel = NoExp.sel
<1> DEFINE no == FALSE
<1>1. NoExp \in ExpRow /\ [NoExp EXCEPT !.status = "draft"] \in ExpRow
    BY NoRowFields DEF ExpRow, ExpStatus
<1>2. /\ [NoExp EXCEPT !.status = "draft"].att = NoExp.att
      /\ [NoExp EXCEPT !.status = "draft"].sel = NoExp.sel
    BY <1>1 DEF ExpRow
<1> DEFINE att == NoExp.att
           sel == NoExp.sel
           all == AllTasks
<1>3. q = [status |-> "running", att |-> att, sel |-> sel, queue |-> all,
           task |-> 0, at |-> 0, pause |-> no]
    BY <1>2 DEF DraftStarted, EngineOf
<1>4. att \in [Tasks -> Seq(Attempt)] /\ sel \in [Tasks -> Nat]
    BY <1>1 DEF ExpRow
<1>5. all \in Seq(Tasks)
    <2>1. NTasks \in Nat /\ AllTasks \in [1 .. NTasks -> Tasks]
        BY NTasksAssumption DEF AllTasks, Tasks
    <2>. QED
        BY <2>1, SeqOfFunction
<1>6. 0 \in 0 .. NTasks /\ "running" \in ExpStatus
    BY NTasksAssumption DEF ExpStatus
<1>8. no \in BOOLEAN
    OBVIOUS
<1>. HIDE DEF no, att, sel, all
<1>7. q \in Engine
    BY ONLY <1>3, <1>4, <1>5, <1>6, <1>8 DEF Engine
<1>. QED
    BY <1>3, <1>7 DEF att, sel

-----------------------------------------------------------------------------
(* Every step keeps the rows, the tab and the copies in what they are.     *)

\* What a step does to the rows, and nothing else, takes them further.
Later ==
    /\ RowsGrounded(exp', runs', ids') /\ LeaseGrounded'
    /\ Grows(runs, runs') /\ ids <= ids' /\ fence <= fence'

LEMMA GrowsSame ==
    ASSUME NEW rows, \A r \in DOMAIN rows : rows[r] \in Run
    PROVE  Grows(rows, rows)
    BY DEF Grows, Run

LEMMA CopyOfNow ==
    ASSUME NEW rows, NEW r \in DOMAIN rows, rows[r] \in Run
    PROVE  Copy(rows[r], r, rows)
    BY DEF Copy, Run

LEMMA LoopStays ==
    ASSUME NEW x, NEW n \in Nat, NEW f \in Nat, NEW rows, NEW m \in Nat, NEW g \in Nat, NEW new,
           n <= m, f <= g, Grows(rows, new), \A r \in DOMAIN rows : rows[r] \in Run,
           \A r \in DOMAIN new : new[r] \in Run, LoopGrounded(x, n, f, rows)
    PROVE  LoopGrounded(x, m, g, new)
<1>1. 0 .. n \subseteq 0 .. m /\ 0 .. f \subseteq 0 .. g
    OBVIOUS
<1>2. x \in LoopTypeOf(m, g)
    BY <1>1 DEF LoopGrounded, LoopTypeOf
<1>3. \A row \in x.load : row \in Run
    BY <1>2 DEF LoopTypeOf
<1>4. \A row \in x.load : Copy(row, x.run, new)
    <2> SUFFICES ASSUME NEW row \in x.load PROVE Copy(row, x.run, new)
        OBVIOUS
    <2>1. Copy(row, x.run, rows) /\ row \in Run
        BY <1>3 DEF LoopGrounded
    <2>2. x.run \in DOMAIN rows /\ x.run \in DOMAIN new
        BY <2>1 DEF Copy, Grows
    <2>. QED
        BY <2>1, <2>2, CopyStays
<1>5. DOMAIN rows \subseteq DOMAIN new
    BY DEF Grows
<1>. QED
    BY <1>2, <1>4, <1>5 DEF LoopGrounded

LEMMA AbtStays ==
    ASSUME NEW a, NEW n \in Nat, NEW rows, NEW m \in Nat, NEW new,
           n <= m, Grows(rows, new), \A r \in DOMAIN rows : rows[r] \in Run,
           \A r \in DOMAIN new : new[r] \in Run, AbtGrounded(a, n, rows)
    PROVE  AbtGrounded(a, m, new)
<1>1. 0 .. n \subseteq 0 .. m
    OBVIOUS
<1>2. a \in AbtTypeOf(m)
    BY <1>1 DEF AbtGrounded, AbtTypeOf
<1>3. \A row \in a.load : row \in Run
    BY <1>2 DEF AbtTypeOf
<1>4. \A row \in a.load : Copy(row, a.run, new)
    <2> SUFFICES ASSUME NEW row \in a.load PROVE Copy(row, a.run, new)
        OBVIOUS
    <2>1. Copy(row, a.run, rows) /\ row \in Run
        BY <1>3 DEF AbtGrounded
    <2>2. a.run \in DOMAIN rows /\ a.run \in DOMAIN new
        BY <2>1 DEF Copy, Grows
    <2>. QED
        BY <2>1, <2>2, CopyStays
<1>. QED
    BY <1>2, <1>4 DEF AbtGrounded

LEMMA RcvStays ==
    ASSUME NEW a, NEW f \in Nat, NEW rows, NEW g \in Nat, NEW new,
           f <= g, Grows(rows, new), \A r \in DOMAIN rows : rows[r] \in Run,
           \A r \in DOMAIN new : new[r] \in Run, RcvGrounded(a, f, rows)
    PROVE  RcvGrounded(a, g, new)
<1>1. 0 .. f \subseteq 0 .. g
    OBVIOUS
<1>2. a \in RcvTypeOf(g)
    BY <1>1 DEF RcvGrounded, RcvTypeOf
<1>3. \A row \in a.load : row \in Run
    BY <1>2 DEF RcvTypeOf
<1>4. a.pc = "reading" => \A row \in a.load : Copy(row, AttemptRead(a).run, new)
    <2> SUFFICES ASSUME a.pc = "reading", NEW row \in a.load
                 PROVE  Copy(row, AttemptRead(a).run, new)
        OBVIOUS
    <2> DEFINE r == AttemptRead(a).run
    <2>1. Copy(row, r, rows) /\ row \in Run
        BY <1>3 DEF RcvGrounded
    <2>. HIDE DEF r
    <2>2. r \in DOMAIN rows /\ r \in DOMAIN new
        BY <2>1 DEF Copy, Grows
    <2>3. Copy(row, r, new)
        BY <2>1, <2>2, CopyStays
    <2>. QED
        BY <2>3 DEF r
<1>. QED
    BY <1>2, <1>4 DEF RcvGrounded

LEMMA GroundedTypes ==
    ASSUME Grounded
    PROVE  /\ exp \in ExpRow /\ ids \in Nat /\ DOMAIN runs \subseteq 1 .. ids
           /\ \A r \in DOMAIN runs : runs[r] \in Run
           /\ fence \in Nat /\ fence <= MaxFence /\ MaxFence \in Nat
           /\ lease \in {0, fence} /\ tok \in 0 .. fence
           /\ eng \in Engines /\ prev \in Nat /\ owner \in BOOLEAN /\ ctrl \in Loops \cup {0}
           /\ pse \subseteq Nat /\ faults \in 0 .. MaxFaults /\ MaxFaults \in Nat
           /\ loop = [l \in Loops |-> loop[l]]
           /\ \A l \in Loops : LoopGrounded(loop[l], ids, fence, runs)
           /\ AbtGrounded(abt, ids, runs) /\ cmd \in CmdTypeOf(fence)
           /\ RcvGrounded(rcv, fence, runs)
    BY ExperimentAssumption
    DEF Grounded, RowsGrounded, LeaseGrounded, TabGrounded, LoopsGrounded, Counted

LEMMA AllStay ==
    ASSUME Grounded, Later
    PROVE  /\ \A l \in Loops : LoopGrounded(loop[l], ids', fence', runs')
           /\ AbtGrounded(abt, ids', runs') /\ cmd \in CmdTypeOf(fence')
           /\ RcvGrounded(rcv, fence', runs')
<1>1. /\ ids \in Nat /\ fence \in Nat /\ \A r \in DOMAIN runs : runs[r] \in Run
      /\ cmd \in CmdTypeOf(fence) /\ RcvGrounded(rcv, fence, runs) /\ AbtGrounded(abt, ids, runs)
      /\ \A l \in Loops : LoopGrounded(loop[l], ids, fence, runs)
    BY GroundedTypes
<1>2. /\ ids' \in Nat /\ fence' \in Nat /\ \A r \in DOMAIN runs' : runs'[r] \in Run
      /\ ids <= ids' /\ fence <= fence' /\ Grows(runs, runs')
    BY ExperimentAssumption DEF Later, RowsGrounded, LeaseGrounded
<1>3. \A l \in Loops : LoopGrounded(loop[l], ids', fence', runs')
    BY <1>1, <1>2, LoopStays
<1>4. AbtGrounded(abt, ids', runs')
    BY <1>1, <1>2, AbtStays
<1>5. RcvGrounded(rcv, fence', runs')
    BY <1>1, <1>2, RcvStays
<1>6. 0 .. fence \subseteq 0 .. fence'
    BY <1>1, <1>2
<1>7. cmd \in CmdTypeOf(fence')
    BY <1>1, <1>6 DEF CmdTypeOf
<1>. QED
    BY <1>3, <1>4, <1>5, <1>7

LEMMA GroundedNext ==
    ASSUME Grounded, Later, TabGrounded', Counted', loop' = [l \in Loops |-> loop'[l]],
           \A l \in Loops : \/ loop'[l] = loop[l]
                            \/ LoopGrounded(loop'[l], ids', fence', runs'),
           abt' = abt \/ AbtGrounded(abt', ids', runs'),
           cmd' = cmd \/ cmd' \in CmdTypeOf(fence'),
           rcv' = rcv \/ RcvGrounded(rcv', fence', runs')
    PROVE  Grounded' /\ Later
<1>1. /\ \A l \in Loops : LoopGrounded(loop[l], ids', fence', runs')
      /\ AbtGrounded(abt, ids', runs') /\ cmd \in CmdTypeOf(fence')
      /\ RcvGrounded(rcv, fence', runs')
    BY AllStay
<1>2. \A l \in Loops : LoopGrounded(loop'[l], ids', fence', runs')
    BY <1>1
<1>3. AbtGrounded(abt', ids', runs') /\ cmd' \in CmdTypeOf(fence')
      /\ RcvGrounded(rcv', fence', runs')
    BY <1>1
<1>4. LoopsGrounded'
    BY <1>2 DEF LoopsGrounded
<1>. QED
    BY <1>3, <1>4 DEF Grounded, Later

\* A fault is counted, up to the bound.
LEMMA FailsIs ==
    ASSUME Grounded, NEW possible, Fails(possible) \/ Fault \/ UNCHANGED faults
    PROVE  faults' \in 0 .. MaxFaults
<1>1. faults \in 0 .. MaxFaults /\ MaxFaults \in Nat
    BY GroundedTypes
<1>2. faults' = faults \/ (faults < MaxFaults /\ faults' = faults + 1)
    BY DEF Fails, Fault
<1>. QED
    BY <1>1, <1>2

LEMMA NothingWritten ==
    ASSUME Grounded, UNCHANGED <<exp, runs, ids, fence>>, lease' \in {0, lease}, tok' \in 0 .. fence
    PROVE  Later
<1>1. Grows(runs, runs)
    BY GroundedTypes, GrowsSame
<1>. QED
    BY <1>1, GroundedTypes DEF Later, RowsGrounded, LeaseGrounded

LEMMA RecordIs ==
    ASSUME NEW e \in Engines, NEW rev \in Nat, e.status # "none"
    PROVE  /\ Record(e, rev) \in ExpRow /\ Record(e, rev).att = e.att /\ Record(e, rev).sel = e.sel
           /\ Record(e, rev).rev = rev /\ Record(e, rev).status = e.status
    BY EngineFields DEF Record, ExpRow, Attempts

\* A write of the engine into the row wins or leaves everything as it is.
LEMMA SyncIs ==
    ASSUME Grounded, NEW e \in Engines, e.status # "none", NEW rev \in Nat, NEW res,
           Sync(e, rev, res)
    PROVE  /\ faults' \in 0 .. MaxFaults /\ res \in Nat /\ exp' \in ExpRow
           /\ \/ exp' = exp /\ res = 0
              \/ /\ exp.rev = rev /\ exp.status # "none" /\ res = rev + 1
                 /\ exp'.rev = rev + 1 /\ exp'.att = e.att /\ exp'.sel = e.sel
                 /\ exp'.status = e.status
<1>1. exp \in ExpRow
    BY GroundedTypes
<1>2. CASE IsAt(rev) /\ res = rev + 1 /\ exp' = Record(e, rev + 1) /\ UNCHANGED faults
    <2>1. faults' \in 0 .. MaxFaults
        BY <1>2, FailsIs
    <2>. QED
        BY <1>2, <2>1, RecordIs DEF IsAt
<1>3. CASE res = 0 /\ Fails(IsAt(rev)) /\ UNCHANGED exp
    <2>1. faults' \in 0 .. MaxFaults
        BY <1>3, FailsIs
    <2>. QED
        BY <1>1, <1>3, <2>1
<1>. QED
    BY <1>2, <1>3 DEF Sync

LEMMA SyncLater ==
    ASSUME Grounded, exp' \in ExpRow, UNCHANGED <<runs, ids, fence>>, lease' \in {0, lease},
           tok' \in 0 .. fence
    PROVE  Later
<1>1. Grows(runs, runs)
    BY GroundedTypes, GrowsSame
<1>. QED
    BY <1>1, GroundedTypes DEF Later, RowsGrounded, LeaseGrounded
-----------------------------------------------------------------------------
(* The parts the run loop is made of.                                      *)

Fresh(pc, task, at, run, plan, k, res, load) ==
    [pc |-> pc, task |-> task, at |-> at, run |-> run, plan |-> plan, k |-> k, res |-> res,
     load |-> load, pre |-> NoEngine, sig |-> FALSE, lossy |-> FALSE]

LEMMA FreshIs ==
    ASSUME NEW pc \in LoopPositions, NEW task \in Tasks \cup {0}, NEW at \in Nat, NEW n \in Nat,
           NEW run \in 0 .. n, NEW plan \in Plan, NEW f \in Nat, NEW k \in 0 .. f, NEW res \in Nat,
           NEW load \in SUBSET Run
    PROVE  Fresh(pc, task, at, run, plan, k, res, load) \in LoopTypeOf(n, f)
<1> DEFINE no == FALSE
           pre == NoEngine
<1>1. Fresh(pc, task, at, run, plan, k, res, load) =
        [pc |-> pc, task |-> task, at |-> at, run |-> run, plan |-> plan, k |-> k, res |-> res,
         load |-> load, pre |-> pre, sig |-> no, lossy |-> no]
    BY DEF Fresh
<1>2. no \in BOOLEAN
    OBVIOUS
<1>3. pre \in Engines
    BY NoRowFields
<1>. HIDE DEF no, pre
<1>. QED
    BY <1>1, <1>2, <1>3 DEF LoopTypeOf

LEMMA NoLoopIs ==
    /\ NoLoop.pc = "off" /\ NoLoop.load = {} /\ NoLoop.res = 0 /\ NoLoop.pre = NoEngine
    /\ \A n, f \in Nat : \A rows : LoopGrounded(NoLoop, n, f, rows)
<1>1. NoLoop = Fresh("off", 0, 0, 0, "none", 0, 0, {})
    BY DEF NoLoop, Fresh
<1>2. /\ NoLoop.pc = "off" /\ NoLoop.load = {} /\ NoLoop.res = 0 /\ NoLoop.pre = NoEngine
    BY DEF NoLoop
<1>3. ASSUME NEW n \in Nat, NEW f \in Nat PROVE NoLoop \in LoopTypeOf(n, f)
    <2>1. "off" \in LoopPositions /\ "none" \in Plan /\ 0 \in 0 .. n /\ 0 \in 0 .. f
        BY DEF LoopPositions, Plan
    <2>. QED
        BY <1>1, <2>1, FreshIs
<1>. QED
    BY <1>2, <1>3 DEF LoopGrounded, AtWork, Begun

\* How a loop starts an attempt, and how it comes to read or to fail.
FailedLoop(res) == [NoLoop EXCEPT !.pc = "failed", !.res = res]

FailingLoop(run, load) == [NoLoop EXCEPT !.pc = "failing", !.run = run, !.load = load]

BeginningLoop(t, i, run, plan, k, res) ==
    [NoLoop EXCEPT !.pc = "beginning", !.task = t, !.at = i, !.run = run,
                   !.plan = plan, !.k = k, !.res = res]

BaseLoop(t, i, k, res) ==
    [NoLoop EXCEPT !.pc = "base", !.task = t, !.at = i, !.plan = "compound", !.k = k, !.res = res]

LEMMA FailedLoopIs ==
    ASSUME NEW n \in Nat, NEW f \in Nat, NEW res \in Nat, NEW x, x = FailedLoop(res)
    PROVE  x \in LoopTypeOf(n, f) /\ x.pc = "failed" /\ x.res = res /\ x.load = {}
           /\ x.pre = NoEngine
<1>1. NoLoop \in LoopTypeOf(n, f) /\ NoLoop.load = {} /\ NoLoop.pre = NoEngine
    BY NoLoopIs DEF LoopGrounded
<1>2. "failed" \in LoopPositions
    BY DEF LoopPositions
<1>. QED
    BY <1>1, <1>2 DEF LoopTypeOf, FailedLoop

LEMMA FailingLoopIs ==
    ASSUME NEW n \in Nat, NEW f \in Nat, NEW run \in 0 .. n, NEW load \in SUBSET Run,
           NEW x, x = FailingLoop(run, load)
    PROVE  x \in LoopTypeOf(n, f) /\ x.pc = "failing" /\ x.run = run /\ x.load = load
           /\ x.pre = NoEngine /\ x.res = 0
<1>1. NoLoop \in LoopTypeOf(n, f) /\ NoLoop.res = 0 /\ NoLoop.pre = NoEngine
    BY NoLoopIs DEF LoopGrounded
<1>2. "failing" \in LoopPositions
    BY DEF LoopPositions
<1>. QED
    BY <1>1, <1>2 DEF LoopTypeOf, FailingLoop

LEMMA BeginningLoopFields ==
    ASSUME NEW t, NEW i, NEW run, NEW plan, NEW k, NEW res,
           NEW x, x = BeginningLoop(t, i, run, plan, k, res)
    PROVE  /\ x.pc = "beginning" /\ x.task = t /\ x.at = i /\ x.run = run /\ x.k = k
           /\ x.res = res /\ x.load = {} /\ x.pre = NoEngine
<1>1. NoLoop \in LoopTypeOf(0, 0) /\ NoLoop.load = {} /\ NoLoop.pre = NoEngine
    BY NoLoopIs DEF LoopGrounded
<1>. QED
    BY <1>1 DEF LoopTypeOf, BeginningLoop

LEMMA BeginningLoopType ==
    ASSUME NEW t \in Tasks, NEW i \in Nat, NEW n \in Nat, NEW run \in 0 .. n, NEW plan \in Plan,
           NEW f \in Nat, NEW k \in 0 .. f, NEW res \in Nat
    PROVE  BeginningLoop(t, i, run, plan, k, res) \in LoopTypeOf(n, f)
<1>1. NoLoop \in LoopTypeOf(n, f)
    BY NoLoopIs DEF LoopGrounded
<1>2. "beginning" \in LoopPositions
    BY DEF LoopPositions
<1>. QED
    BY <1>1, <1>2 DEF LoopTypeOf, BeginningLoop

LEMMA BaseLoopIs ==
    ASSUME NEW n \in Nat, NEW f \in Nat, NEW t \in Tasks, NEW i \in Nat, NEW k \in 0 .. f,
           NEW res \in {0, 1}, NEW x, x = BaseLoop(t, i, k, res)
    PROVE  /\ x \in LoopTypeOf(n, f) /\ x.pc = "base" /\ x.task = t /\ x.at = i
           /\ x.k = k /\ x.res = res /\ x.load = {} /\ x.pre = NoEngine
<1>1. NoLoop \in LoopTypeOf(n, f) /\ NoLoop.load = {} /\ NoLoop.pre = NoEngine
    BY NoLoopIs DEF LoopGrounded
<1>2. "base" \in LoopPositions /\ "compound" \in Plan /\ res \in Nat
    BY DEF LoopPositions, Plan
<1>. QED
    BY <1>1, <1>2 DEF LoopTypeOf, BaseLoop

\* The step of a loop on the rows, the engine and itself.
LoopPart(l) ==
    /\ Later /\ eng' \in Engines /\ owner' \in BOOLEAN /\ faults' \in 0 .. MaxFaults
    /\ loop' = [loop EXCEPT ![l] = loop'[l]]
    /\ LoopGrounded(loop'[l], ids', fence', runs')

LEMMA LoopMoves ==
    ASSUME Grounded, NEW l \in Loops, NEW x, loop' = [loop EXCEPT ![l] = x]
    PROVE  /\ loop'[l] = x /\ loop' = [loop EXCEPT ![l] = loop'[l]]
           /\ loop' = [m \in Loops |-> loop'[m]]
           /\ \A m \in Loops : m # l => loop'[m] = loop[m]
<1>1. loop = [m \in Loops |-> loop[m]]
    BY GroundedTypes
<1>. QED
    BY <1>1

LEMMA EndLoopPart ==
    ASSUME Grounded, UNCHANGED fence, NEW l \in Loops, NEW e \in Engines, EndLoop(l, e)
    PROVE  LoopPart(l)
<1>1. /\ eng' = e /\ loop' = [loop EXCEPT ![l] = NoLoop] /\ UNCHANGED <<exp, runs, ids, faults>>
      /\ lease' \in {0, lease} /\ tok' \in {0, tok} /\ owner' \in {FALSE, owner}
    BY DEF EndLoop, Release
<1>2. Later
    BY <1>1, NothingWritten, GroundedTypes
<1>3. loop'[l] = NoLoop /\ loop' = [loop EXCEPT ![l] = loop'[l]]
    BY <1>1, LoopMoves
<1>4. LoopGrounded(loop'[l], ids', fence', runs')
    BY <1>1, <1>3, NoLoopIs, GroundedTypes
<1>5. faults' \in 0 .. MaxFaults
    BY <1>1, FailsIs
<1>6. owner' \in BOOLEAN
    BY <1>1, GroundedTypes
<1>. QED
    BY <1>1, <1>2, <1>3, <1>4, <1>5, <1>6 DEF LoopPart

LEMMA AbortAfterFailurePart ==
    ASSUME Grounded, UNCHANGED fence, NEW l \in Loops, NEW e \in Engines, AbortAfterFailure(l, e)
    PROVE  LoopPart(l)
<1>1. CASE e.status = "none"
    BY <1>1, EndLoopPart DEF AbortAfterFailure
<1>2. CASE e.status # "none"
    <2>1. PICK res \in {0, prev + 1} :
             /\ Sync(Aborted(e), prev, res)
             /\ loop' = [loop EXCEPT ![l] = [NoLoop EXCEPT !.pc = "failed", !.res = res]]
        BY <1>2 DEF AbortAfterFailure
    <2>2. eng' = Aborted(e) /\ UNCHANGED <<runs, lease, tok, owner, ids>>
        BY <1>2 DEF AbortAfterFailure
    <2>3. Aborted(e) \in Engines /\ Aborted(e).status # "none"
        BY <1>2, AbortedIs, EngineFields
    <2>4. faults' \in 0 .. MaxFaults /\ res \in Nat /\ exp' \in ExpRow
        BY <2>1, <2>3, SyncIs, GroundedTypes
    <2>5. Later
        BY <2>2, <2>4, SyncLater, GroundedTypes
    <2>6. loop' = [loop EXCEPT ![l] = FailedLoop(res)]
        BY <2>1 DEF FailedLoop
    <2>7. loop'[l] = FailedLoop(res) /\ loop' = [loop EXCEPT ![l] = loop'[l]]
        BY <2>6, LoopMoves
    <2>8. LoopGrounded(loop'[l], ids', fence', runs')
        <3>1. ids \in Nat /\ fence \in Nat /\ ids' = ids /\ fence' = fence
            BY <2>2, GroundedTypes
        <3>3. loop'[l] \in LoopTypeOf(ids', fence')
            BY <2>4, <2>7, <3>1, FailedLoopIs
        <3>4. loop'[l].pc = "failed" /\ loop'[l].load = {}
            BY <2>4, <2>7, <3>1, FailedLoopIs
        <3>. QED
            BY <3>3, <3>4 DEF LoopGrounded, AtWork, Begun
    <2>9. owner' \in BOOLEAN
        BY <2>2, GroundedTypes
    <2>. QED
        BY <2>2, <2>3, <2>4, <2>5, <2>7, <2>8, <2>9 DEF LoopPart
<1>. QED
    BY <1>1, <1>2

\* The failure path reads the active run.
ReadsActive(l, e) ==
    /\ \E run \in ActiveRun(e) :
          loop' = [loop EXCEPT ![l] = [NoLoop EXCEPT !.pc = "failing", !.run = run,
                                                     !.load = {runs[run]}]]
    /\ eng' = e
    /\ UNCHANGED <<exp, runs, lease, tok, owner, ids, faults>>

LEMMA ReadsActivePart ==
    ASSUME Grounded, UNCHANGED fence, NEW l \in Loops, NEW e \in Engines, ReadsActive(l, e)
    PROVE  LoopPart(l)
<1>1. PICK run \in ActiveRun(e) :
         loop' = [loop EXCEPT ![l] = [NoLoop EXCEPT !.pc = "failing", !.run = run,
                                                    !.load = {runs[run]}]]
    BY DEF ReadsActive
<1>2. eng' = e /\ UNCHANGED <<exp, runs, lease, tok, owner, ids, faults>>
    BY DEF ReadsActive
<1>3. run \in DOMAIN runs
    BY DEF ActiveRun
<1>4. runs[run] \in Run /\ run \in 1 .. ids /\ ids \in Nat /\ fence \in Nat
    BY <1>3, GroundedTypes
<1>5. loop' = [loop EXCEPT ![l] = FailingLoop(run, {runs[run]})]
    BY <1>1 DEF FailingLoop
<1>6. loop'[l] = FailingLoop(run, {runs[run]}) /\ loop' = [loop EXCEPT ![l] = loop'[l]]
    BY <1>5, LoopMoves
<1>7. LoopGrounded(loop'[l], ids', fence', runs')
    <2>1. run \in 0 .. ids /\ {runs[run]} \in SUBSET Run
        BY <1>4
    <2>3. /\ loop'[l] \in LoopTypeOf(ids, fence) /\ loop'[l].pc = "failing"
          /\ loop'[l].load = {runs[run]} /\ loop'[l].run = run
        <3> DEFINE load == {runs[run]}
        <3>1. load \in SUBSET Run /\ loop'[l] = FailingLoop(run, load)
            BY <1>6, <2>1
        <3>. HIDE DEF load
        <3>2. /\ loop'[l] \in LoopTypeOf(ids, fence) /\ loop'[l].pc = "failing"
              /\ loop'[l].load = load /\ loop'[l].run = run
            BY <1>4, <2>1, <3>1, FailingLoopIs
        <3>. QED
            BY <3>2 DEF load
    <2>2. loop'[l] \in LoopTypeOf(ids', fence')
        BY <1>2, <2>3
    <2>4. Copy(runs[run], run, runs')
        BY <1>2, <1>3, <1>4, CopyOfNow
    <2>. QED
        BY <2>2, <2>3, <2>4 DEF LoopGrounded, AtWork, Begun
<1>8. Later
    BY <1>2, NothingWritten, GroundedTypes
<1>9. faults' \in 0 .. MaxFaults /\ owner' \in BOOLEAN
    BY <1>2, GroundedTypes
<1>. QED
    BY <1>2, <1>6, <1>7, <1>8, <1>9 DEF LoopPart

LEMMA CatchIs ==
    ASSUME NEW l, NEW e, Catch(l, e)
    PROVE  \/ EndLoop(l, e) /\ e.status \in Terminal \cup {"none"}
           \/ e.status \notin Terminal \cup {"none"} /\ ReadsActive(l, e)
           \/ /\ e.status \notin Terminal \cup {"none"} /\ ActiveRun(e) = {}
              /\ AbortAfterFailure(l, e)
    BY DEF Catch, ReadsActive

LEMMA CatchPart ==
    ASSUME Grounded, UNCHANGED fence, NEW l \in Loops, NEW e \in Engines, Catch(l, e)
    PROVE  LoopPart(l)
    BY CatchIs, EndLoopPart, ReadsActivePart, AbortAfterFailurePart

LEMMA WithAttemptType ==
    ASSUME NEW a \in Seq(Attempt), NEW i, NEW x \in Attempt
    PROVE  WithAttempt(a, i, x) \in Seq(Attempt)
<1>1. i \in DOMAIN a => [a EXCEPT ![i] = x] \in Seq(Attempt)
    BY SeqExcept
<1>2. Append(a, x) \in Seq(Attempt)
    OBVIOUS
<1>. QED
    BY <1>1, <1>2 DEF WithAttempt

\* What the unit of work makes of the rows when a task begins.
BeginWins(t, i, run, plan, rev, res) ==
    /\ exp.rev = rev /\ exp.status # "none" /\ res = rev + 1
    /\ i \in DOMAIN exp.att[t] => exp.att[t][i].run = 0
    /\ exp'.rev = rev + 1 /\ exp'.status = exp.status /\ exp'.sel = exp.sel
    /\ exp'.att = [exp.att EXCEPT ![t] = WithAttempt(@, i, NewAttempt(run, "running", "none"))]
    /\ DOMAIN runs' = DOMAIN runs \cup {run}
    /\ runs'[run] = [status |-> "running", rev |-> 0, plan |-> plan]
    /\ \A r \in DOMAIN runs : r # run => runs'[r] = runs[r]

LEMMA BeginTxIs ==
    ASSUME Grounded, NEW t \in Tasks, NEW i \in Nat, NEW plan \in Plan, NEW k, NEW rev \in Nat,
           NEW res, BeginTx(t, i, ids + 1, plan, k, rev, res), ids' = ids + 1, UNCHANGED fence,
           UNCHANGED <<lease, tok>>
    PROVE  /\ Later /\ faults' \in 0 .. MaxFaults /\ res \in Nat
           /\ \/ UNCHANGED <<exp, runs>> /\ res = 0
              \/ lease = k /\ BeginWins(t, i, ids + 1, plan, rev, res)
<1>1. /\ exp \in ExpRow /\ ids \in Nat /\ DOMAIN runs \subseteq 1 .. ids
      /\ \A r \in DOMAIN runs : runs[r] \in Run
    BY GroundedTypes
<1>2. CASE res = 0 /\ Fails(MayBeginTx(t, i, k, rev)) /\ UNCHANGED <<exp, runs>>
    <2>1. faults' \in 0 .. MaxFaults
        BY <1>2, FailsIs
    <2>2. Grows(runs, runs')
        BY <1>1, <1>2, GrowsSame
    <2>3. 1 .. ids \subseteq 1 .. ids + 1
        BY <1>1
    <2>4. RowsGrounded(exp', runs', ids')
        BY <1>1, <1>2, <2>3 DEF RowsGrounded
    <2>5. LeaseGrounded' /\ ids <= ids' /\ fence <= fence'
        BY <1>1, GroundedTypes DEF LeaseGrounded
    <2>. QED
        BY <1>2, <2>1, <2>2, <2>4, <2>5 DEF Later
<1>3. CASE /\ MayBeginTx(t, i, k, rev)
           /\ res = rev + 1
           /\ exp' = [exp EXCEPT !.rev = rev + 1,
                        !.att[t] = WithAttempt(@, i, NewAttempt(ids + 1, "running", "none"))]
           /\ runs' = [r \in DOMAIN runs \cup {ids + 1} |->
                          IF r = ids + 1 THEN [status |-> "running", rev |-> 0, plan |-> plan]
                          ELSE runs[r]]
           /\ UNCHANGED faults
    <2> DEFINE a == NewAttempt(ids + 1, "running", "none")
               b == WithAttempt(exp.att[t], i, a)
               att == [exp.att EXCEPT ![t] = b]
    <2>1. a \in Attempt
        BY <1>1 DEF NewAttempt, Attempt, AttemptStatus, RunStatus, Plan
    <2>2. b \in Seq(Attempt)
        BY <1>1, <2>1, WithAttemptType DEF ExpRow
    <2>3. exp' = [exp EXCEPT !.rev = rev + 1, !.att = att]
        BY <1>1, <1>3 DEF ExpRow
    <2>. HIDE DEF b
    <2>4. att \in [Tasks -> Seq(Attempt)]
        BY <1>1, <2>2 DEF ExpRow
    <2>. HIDE DEF att
    <2>5. exp' \in ExpRow /\ exp'.att = att /\ exp'.rev = rev + 1 /\ exp'.status = exp.status
             /\ exp'.sel = exp.sel
        <3>1. rev + 1 \in Nat
            OBVIOUS
        <3>2. exp' = [status |-> exp.status, rev |-> rev + 1, att |-> att, sel |-> exp.sel]
            BY <1>1, <2>3 DEF ExpRow
        <3>3. exp.status \in ExpStatus \cup {"none"} /\ exp.sel \in [Tasks -> Nat]
            BY <1>1 DEF ExpRow
        <3>. QED
            BY ONLY <2>4, <3>1, <3>2, <3>3 DEF ExpRow
    <2>6. /\ DOMAIN runs' = DOMAIN runs \cup {ids + 1}
          /\ runs'[ids + 1] = [status |-> "running", rev |-> 0, plan |-> plan]
          /\ \A r \in DOMAIN runs : r # ids + 1 => runs'[r] = runs[r]
        BY <1>3
    <2>7. \A r \in DOMAIN runs : r # ids + 1
        BY <1>1
    <2>8. \A r \in DOMAIN runs' : runs'[r] \in Run
        BY <1>1, <2>6 DEF Run, RunStatus
    <2>9. DOMAIN runs' \subseteq 1 .. ids + 1
        BY <1>1, <2>6
    <2>10. Grows(runs, runs')
        BY <1>1, <2>6, <2>7 DEF Grows, Run
    <2>11. RowsGrounded(exp', runs', ids')
        BY <1>1, <2>5, <2>8, <2>9 DEF RowsGrounded
    <2>12. LeaseGrounded' /\ ids <= ids' /\ fence <= fence'
        BY <1>1, GroundedTypes DEF LeaseGrounded
    <2>13. faults' \in 0 .. MaxFaults
        BY <1>3, FailsIs
    <2>14. Later
        BY <2>10, <2>11, <2>12 DEF Later
    <2>15. lease = k /\ BeginWins(t, i, ids + 1, plan, rev, res)
        BY <1>3, <2>5, <2>6 DEF BeginWins, MayBeginTx, IsAt, att, b
    <2>. QED
        BY <1>3, <2>13, <2>14, <2>15
<1>. QED
    BY <1>2, <1>3 DEF BeginTx

\* A task begins in the engine, and in the rows or not.
StartsTask(l, e, p, k, t, i, plan) ==
    /\ MayBegin(e, t, i)
    /\ eng' = TaskBegun(e, t, i, ids + 1)
    /\ ids' = ids + 1
    /\ \E res \in {0, p + 1} :
          /\ BeginTx(t, i, ids + 1, plan, k, p, res)
          /\ loop' = [loop EXCEPT ![l] = [NoLoop EXCEPT !.pc = "beginning", !.task = t,
                         !.at = i, !.run = ids + 1, !.plan = plan, !.k = k, !.res = res]]
    /\ UNCHANGED <<lease, tok, owner>>

LEMMA BeginTaskIs ==
    ASSUME NEW l, NEW e, NEW p, NEW k, NEW t, NEW i, NEW plan, BeginTask(l, e, p, k, t, i, plan)
    PROVE  StartsTask(l, e, p, k, t, i, plan) \/ Catch(l, e)
    BY DEF BeginTask, StartsTask

LEMMA StartsTaskPart ==
    ASSUME Grounded, UNCHANGED fence, NEW l \in Loops, NEW e \in Engines, NEW p \in Nat,
           NEW k \in 0 .. fence, NEW t \in Tasks, NEW i \in Nat, NEW plan \in Plan,
           StartsTask(l, e, p, k, t, i, plan)
    PROVE  LoopPart(l)
<1>1. PICK res \in {0, p + 1} :
         /\ BeginTx(t, i, ids + 1, plan, k, p, res)
         /\ loop' = [loop EXCEPT ![l] = [NoLoop EXCEPT !.pc = "beginning", !.task = t,
                        !.at = i, !.run = ids + 1, !.plan = plan, !.k = k, !.res = res]]
    BY DEF StartsTask
<1>2. /\ MayBegin(e, t, i) /\ eng' = TaskBegun(e, t, i, ids + 1) /\ ids' = ids + 1
      /\ UNCHANGED <<lease, tok, owner>>
    BY DEF StartsTask
<1>3. ids \in Nat /\ fence \in Nat
    BY GroundedTypes
<1>4. eng' \in Engines
    <2>1. ids + 1 \in Nat
        BY <1>3
    <2>. QED
        BY <1>2, <2>1, TaskBegunIs DEF Engines
<1>5. /\ Later /\ faults' \in 0 .. MaxFaults /\ res \in Nat
      /\ \/ UNCHANGED <<exp, runs>> /\ res = 0
         \/ lease = k /\ BeginWins(t, i, ids + 1, plan, p, res)
    BY <1>1, <1>2, BeginTxIs
<1> DEFINE x == BeginningLoop(t, i, ids + 1, plan, k, res)
<1>6. loop' = [loop EXCEPT ![l] = x]
    BY <1>1 DEF BeginningLoop
<1>7. loop'[l] = x /\ loop' = [loop EXCEPT ![l] = loop'[l]]
    BY <1>6, LoopMoves
<1>8. /\ x \in LoopTypeOf(ids + 1, fence) /\ x.pc = "beginning" /\ x.load = {} /\ x.task = t
      /\ x.run = ids + 1 /\ x.res = res
    <2> DEFINE n == ids + 1
    <2>1. n \in Nat /\ n \in 0 .. n
        BY <1>3
    <2>. HIDE DEF n
    <2>3. t \in Tasks /\ i \in Nat /\ plan \in Plan /\ k \in 0 .. fence /\ fence \in Nat
             /\ res \in Nat
        BY <1>3, <1>5
    <2>2. BeginningLoop(t, i, n, plan, k, res) \in LoopTypeOf(n, fence)
        BY ONLY <2>1, <2>3, BeginningLoopType
    <2>4. x.pc = "beginning" /\ x.load = {} /\ x.task = t /\ x.run = ids + 1 /\ x.res = res
        BY BeginningLoopFields
    <2>. QED
        BY <2>2, <2>4 DEF n
<1>. HIDE DEF x
<1>10. res # 0 => ids + 1 \in DOMAIN runs'
    BY <1>5 DEF BeginWins
<1>11. LoopGrounded(x, ids', fence', runs')
    BY <1>2, <1>8, <1>10 DEF LoopGrounded, Begun
<1>12. owner' \in BOOLEAN
    BY <1>2, GroundedTypes
<1>. QED
    BY <1>4, <1>5, <1>7, <1>11, <1>12 DEF LoopPart

LEMMA BeginTaskPart ==
    ASSUME Grounded, UNCHANGED fence, NEW l \in Loops, NEW e \in Engines, NEW p \in Nat,
           NEW k \in 0 .. fence, NEW t \in Tasks, NEW i \in Nat, NEW plan \in Plan,
           BeginTask(l, e, p, k, t, i, plan)
    PROVE  LoopPart(l)
    BY BeginTaskIs, StartsTaskPart, CatchPart

\* A compound task reads the run it is based on, or fails to.
ReadsBase(l, e, k, t, i) ==
    /\ eng' = e
    /\ \E res \in {0, 1} :
          /\ IF res = 0 THEN Fault ELSE UNCHANGED faults
          /\ loop' = [loop EXCEPT ![l] = [NoLoop EXCEPT !.pc = "base", !.task = t,
                         !.at = i, !.plan = "compound", !.k = k, !.res = res]]
    /\ UNCHANGED <<exp, runs, lease, tok, owner, ids>>

LEMMA ReadsBasePart ==
    ASSUME Grounded, UNCHANGED fence, NEW l \in Loops, NEW e \in Engines, NEW k \in 0 .. fence,
           NEW t \in Tasks, NEW i \in Nat, ReadsBase(l, e, k, t, i)
    PROVE  LoopPart(l)
<1>1. PICK res \in {0, 1} :
          /\ IF res = 0 THEN Fault ELSE UNCHANGED faults
          /\ loop' = [loop EXCEPT ![l] = [NoLoop EXCEPT !.pc = "base", !.task = t,
                         !.at = i, !.plan = "compound", !.k = k, !.res = res]]
    BY DEF ReadsBase
<1>2. eng' = e /\ UNCHANGED <<exp, runs, lease, tok, owner, ids>>
    BY DEF ReadsBase
<1>3. ids \in Nat /\ fence \in Nat
    BY GroundedTypes
<1> DEFINE x == BaseLoop(t, i, k, res)
<1>4. loop' = [loop EXCEPT ![l] = x]
    BY <1>1 DEF BaseLoop
<1>5. loop'[l] = x /\ loop' = [loop EXCEPT ![l] = loop'[l]]
    BY <1>4, LoopMoves
<1>6. x \in LoopTypeOf(ids, fence) /\ x.pc = "base" /\ x.load = {} /\ x.task = t
    BY <1>3, BaseLoopIs
<1>. HIDE DEF x
<1>8. LoopGrounded(x, ids', fence', runs')
    BY <1>2, <1>6 DEF LoopGrounded, Begun
<1>9. faults' \in 0 .. MaxFaults
    BY <1>1, FailsIs
<1>10. Later
    BY <1>2, NothingWritten, GroundedTypes
<1>11. owner' \in BOOLEAN
    BY <1>2, GroundedTypes
<1>. QED
    BY <1>2, <1>5, <1>8, <1>9, <1>10, <1>11 DEF LoopPart

\* The next task of an engine, with the attempt it takes up.
LEMMA NextTaskIs ==
    ASSUME NEW l, NEW e \in Engines, NEW p, NEW k, NextTask(l, e, p, k)
    PROVE  \/ ~Begins(e) /\ EndLoop(l, e)
           \/ \E t \in Tasks : \E i \in Nat : \E plan \in Plan :
                 /\ e \in Engine /\ e.status = "running" /\ e.task = 0 /\ ~e.pause
                 /\ i \in DOMAIN e.att[t] \/ i = Len(e.att[t]) + 1
                 /\ \/ plan = "compound" /\ i \in DOMAIN e.att[t] /\ ReadsBase(l, e, k, t, i)
                    \/ StartsTask(l, e, p, k, t, i, plan)
                    \/ Catch(l, e)
<1>1. CASE ~Begins(e)
    BY <1>1 DEF NextTask
<1>2. CASE Begins(e)
    <2> DEFINE t == Head(e.queue)
               i == AttemptToRun(e.att[t])
               plan == PlanOf(e.att[t], i)
    <2>1. e.status = "running" /\ e.task = 0 /\ ~e.pause /\ e.queue # <<>> /\ e \in Engine
        BY <1>2, EngineFields DEF Begins
    <2>2. t \in Tasks
        BY <2>1 DEF Engine
    <2>3. e.att[t] \in Seq(Attempt)
        BY <2>1, <2>2 DEF Engine
    <2>4. /\ IF plan = "compound" THEN ReadsBase(l, e, k, t, i)
             ELSE BeginTask(l, e, p, k, t, i, plan)
        BY <1>2 DEF NextTask, ReadsBase
    <2>. HIDE DEF t
    <2>5. i \in Nat /\ (i \in DOMAIN e.att[t] \/ i = Len(e.att[t]) + 1)
        BY <2>3, AttemptToRunType
    <2>6. plan \in Plan /\ (plan = "compound" => i \in DOMAIN e.att[t])
        <3> DEFINE a == e.att[t]
        <3>1. a \in Seq(Attempt)
            BY <2>3
        <3>. HIDE DEF a, i
        <3>2. i \in DOMAIN a => a[i].plan \in Plan
            <4>1. i \in DOMAIN a => a[i] \in Attempt
                BY <3>1
            <4>. QED
                BY <4>1 DEF Attempt
        <3>. QED
            BY <3>2 DEF PlanOf, Plan, a
    <2>7. plan # "compound" => StartsTask(l, e, p, k, t, i, plan) \/ Catch(l, e)
        BY <2>4, BeginTaskIs
    <2>. HIDE DEF i, plan
    <2>. QED
        BY <2>1, <2>2, <2>4, <2>5, <2>6, <2>7
<1>. QED
    BY <1>1, <1>2

LEMMA NextTaskPart ==
    ASSUME Grounded, UNCHANGED fence, NEW l \in Loops, NEW e \in Engines, NEW p \in Nat,
           NEW k \in 0 .. fence, NextTask(l, e, p, k)
    PROVE  LoopPart(l)
<1>1. CASE EndLoop(l, e)
    BY <1>1, EndLoopPart
<1>2. ASSUME NEW t \in Tasks, NEW i \in Nat, NEW plan \in Plan,
             \/ ReadsBase(l, e, k, t, i)
             \/ StartsTask(l, e, p, k, t, i, plan)
             \/ Catch(l, e)
      PROVE  LoopPart(l)
    BY <1>2, ReadsBasePart, StartsTaskPart, CatchPart
<1>. QED
    BY <1>1, <1>2, NextTaskIs
-----------------------------------------------------------------------------
(* The steps of the run loop.                                              *)

LEMMA NothingInFlight ==
    /\ \A f \in Nat : NoCmd \in CmdTypeOf(f)
    /\ \A n \in Nat : \A rows : AbtGrounded(NoAbt, n, rows)
    /\ \A f \in Nat : \A rows : RcvGrounded(NoRcv, f, rows)
    /\ NoCmd.pc = "off" /\ NoCmd.kind = "none" /\ NoCmd.snap = NoExp /\ NoCmd.pre = NoEngine
    /\ NoCmd.res = 0 /\ NoCmd.k = 0
    /\ NoAbt.pc = "off" /\ NoAbt.load = {} /\ NoAbt.res = 0
    /\ NoRcv.pc = "off" /\ NoRcv.snap = NoExp /\ NoRcv.load = {}
<1>1. NoCmd.pc = "off" /\ NoCmd.kind = "none" /\ NoCmd.snap = NoExp /\ NoCmd.pre = NoEngine
      /\ NoCmd.res = 0 /\ NoCmd.k = 0
    BY DEF NoCmd
<1>2. \A f \in Nat : NoCmd \in CmdTypeOf(f)
    BY NoRowFields DEF NoCmd, CmdTypeOf, CmdPositions
<1>3. NoAbt.pc = "off" /\ NoAbt.load = {} /\ NoAbt.res = 0
    BY DEF NoAbt
<1>4. \A n \in Nat : NoAbt \in AbtTypeOf(n)
    BY DEF NoAbt, AbtTypeOf
<1>5. NoRcv.pc = "off" /\ NoRcv.snap = NoExp /\ NoRcv.load = {}
    BY DEF NoRcv
<1>6. \A f \in Nat : NoRcv \in RcvTypeOf(f)
    BY NoRowFields DEF NoRcv, RcvTypeOf
<1>7. \A n \in Nat : \A rows : AbtGrounded(NoAbt, n, rows)
    BY <1>3, <1>4 DEF AbtGrounded
<1>8. \A f \in Nat : \A rows : RcvGrounded(NoRcv, f, rows)
    BY <1>5, <1>6 DEF RcvGrounded
<1>. QED
    BY <1>1, <1>2, <1>3, <1>5, <1>7, <1>8

LEMMA LoopGoesOn ==
    ASSUME Grounded, NEW l \in Loops, LoopPart(l), UNCHANGED fence, prev' \in Nat,
           ctrl' \in Loops \cup {0}, cmd' \in {cmd, NoCmd},
           UNCHANGED <<abt, pse, rcv, commands, resumes, odd>>
    PROVE  Grounded' /\ Later
<1>1. /\ Later /\ eng' \in Engines /\ owner' \in BOOLEAN /\ faults' \in 0 .. MaxFaults
      /\ loop' = [loop EXCEPT ![l] = loop'[l]] /\ LoopGrounded(loop'[l], ids', fence', runs')
    BY DEF LoopPart
<1>2. TabGrounded'
    BY <1>1 DEF Grounded, TabGrounded
<1>3. Counted'
    BY <1>1 DEF Grounded, Counted
<1>4. loop' = [m \in Loops |-> loop'[m]] /\ \A m \in Loops : m # l => loop'[m] = loop[m]
    BY <1>1, LoopMoves
<1>5. fence' \in Nat
    BY GroundedTypes
<1>6. cmd' = cmd \/ cmd' \in CmdTypeOf(fence')
    BY <1>5, NothingInFlight
<1>7. \A m \in Loops : loop'[m] = loop[m] \/ LoopGrounded(loop'[m], ids', fence', runs')
    BY <1>1, <1>4
<1>. QED
    BY <1>1, <1>2, <1>3, <1>4, <1>6, <1>7, GroundedNext

LEMMA LoopToGrounded ==
    ASSUME NEW n \in Nat, NEW f \in Nat, NEW rows, NEW x, LoopGrounded(x, n, f, rows),
           NEW pc \in LoopPositions, NEW res \in Nat, NEW y,
           y = [x EXCEPT !.pc = pc, !.res = res],
           pc \in AtWork => x.pc \in AtWork, Begun(y) => Begun(x)
    PROVE  LoopGrounded(y, n, f, rows)
<1>1. y \in LoopTypeOf(n, f) /\ y.pc = pc /\ y.load = x.load /\ y.run = x.run /\ y.task = x.task
    BY DEF LoopGrounded, LoopTypeOf
<1>. QED
    BY <1>1 DEF LoopGrounded

\* The outcome of syncExperimentStatus is the revision stored, or nothing.
LEMMA SyncEngineIs ==
    ASSUME Grounded, NEW rev \in Nat, NEW res, SyncEngine(rev, res)
    PROVE  /\ faults' \in 0 .. MaxFaults /\ res \in Nat /\ exp' \in ExpRow
           /\ \/ exp' = exp /\ res = 0
              \/ exp' = exp /\ eng.status = "none" /\ res = rev
              \/ /\ exp.rev = rev /\ exp.status # "none" /\ res = rev + 1
                 /\ exp'.rev = rev + 1 /\ exp'.att = eng.att /\ exp'.sel = eng.sel
                 /\ exp'.status = eng.status /\ eng.status # "none"
<1>1. exp \in ExpRow /\ eng \in Engines
    BY GroundedTypes
<1>2. CASE eng.status = "none"
    <2>1. res = rev /\ UNCHANGED <<exp, faults>>
        BY <1>2 DEF SyncEngine
    <2>. QED
        BY <1>1, <1>2, <2>1, GroundedTypes
<1>3. CASE eng.status # "none"
    <2>1. Sync(eng, rev, res)
        BY <1>3 DEF SyncEngine
    <2>2. /\ faults' \in 0 .. MaxFaults /\ res \in Nat /\ exp' \in ExpRow
          /\ \/ exp' = exp /\ res = 0
             \/ /\ exp.rev = rev /\ exp.status # "none" /\ res = rev + 1
                /\ exp'.rev = rev + 1 /\ exp'.att = eng.att /\ exp'.sel = eng.sel
                /\ exp'.status = eng.status
        BY <1>1, <1>3, <2>1, SyncIs
    <2>. QED
        BY <1>3, <2>2
<1>. QED
    BY <1>2, <1>3

LEMMA LoopFields ==
    ASSUME Grounded, NEW l \in Loops
    PROVE  /\ loop[l] \in LoopTypeOf(ids, fence)
           /\ loop[l].pc \in LoopPositions /\ loop[l].task \in Tasks \cup {0}
           /\ loop[l].at \in Nat /\ loop[l].run \in 0 .. ids /\ loop[l].plan \in Plan
           /\ loop[l].k \in 0 .. fence /\ loop[l].res \in Nat /\ loop[l].load \in SUBSET Run
           /\ loop[l].pre \in Engines
           /\ loop[l].pc \in AtWork => loop[l].task \in Tasks
           /\ Begun(loop[l]) => loop[l].run \in DOMAIN runs
           /\ \A row \in loop[l].load : Copy(row, loop[l].run, runs)
<1>1. LoopGrounded(loop[l], ids, fence, runs)
    BY GroundedTypes
<1>. QED
    BY <1>1 DEF LoopGrounded, LoopTypeOf

\* The loop writes the status of the experiment and waits at its next place.
LEMMA LoopSyncPart ==
    ASSUME Grounded, UNCHANGED <<fence, eng, runs, lease, tok, owner, ids>>, NEW l \in Loops,
           NEW rev \in Nat, NEW res, SyncEngine(rev, res), NEW pc, LoopTo(l, pc, res),
           \/ pc = "begun" /\ loop[l].pc = "beginning" /\ loop[l].res # 0
           \/ pc = "committed" /\ loop[l].pc = "committing"
    PROVE  LoopPart(l)
<1>1. faults' \in 0 .. MaxFaults /\ res \in Nat /\ exp' \in ExpRow
    BY SyncEngineIs
<1>2. Later
    BY <1>1, SyncLater, GroundedTypes
<1> DEFINE x == [loop[l] EXCEPT !.pc = pc, !.res = res]
<1>3. loop' = [loop EXCEPT ![l] = x]
    BY DEF LoopTo
<1>4. loop'[l] = x /\ loop' = [loop EXCEPT ![l] = loop'[l]]
    BY <1>3, LoopMoves
<1>5. LoopGrounded(loop[l], ids', fence', runs') /\ ids' \in Nat /\ fence' \in Nat
    BY <1>2, AllStay, GroundedTypes
<1>6. pc \in LoopPositions /\ (pc \in AtWork => loop[l].pc \in AtWork)
    BY DEF LoopPositions, AtWork
<1>7. x.pc = pc
    BY LoopFields DEF LoopTypeOf
<1>8. Begun(x) => Begun(loop[l])
    BY <1>7 DEF Begun
<1>. HIDE DEF x
<1>9. x = [loop[l] EXCEPT !.pc = pc, !.res = res]
    BY DEF x
<1>10. LoopGrounded(x, ids', fence', runs')
    BY <1>1, <1>5, <1>6, <1>8, <1>9, LoopToGrounded
<1>. QED
    BY <1>1, <1>2, <1>4, <1>10, GroundedTypes DEF LoopPart

LEMMA LoopBaseGrounded ==
    ASSUME Grounded, NEW l \in Loops, LoopBase(l)
    PROVE  Grounded' /\ Later
<1>1. loop[l].pc = "base" /\ UNCHANGED <<fence, prev, ctrl, cmd, abt, pse, rcv, commands, resumes, odd>>
    BY DEF LoopBase, elsewhere, given
<1>2. \/ Catch(l, eng)
      \/ NextTask(l, eng, prev, loop[l].k)
      \/ BeginTask(l, eng, prev, loop[l].k, loop[l].task, loop[l].at, loop[l].plan)
    BY DEF LoopBase
<1>3. loop[l].task \in Tasks /\ loop[l].at \in Nat /\ loop[l].plan \in Plan
         /\ loop[l].k \in 0 .. fence /\ eng \in Engines /\ prev \in Nat
    BY <1>1, LoopFields, GroundedTypes DEF AtWork
<1>4. LoopPart(l)
    BY <1>1, <1>2, <1>3, CatchPart, NextTaskPart, BeginTaskPart
<1>. QED
    BY <1>1, <1>4, LoopGoesOn, GroundedTypes

LEMMA LoopBegunGrounded ==
    ASSUME Grounded, NEW l \in Loops, LoopBegun(l)
    PROVE  Grounded' /\ Later
<1>1. /\ loop[l].pc = "beginning"
      /\ UNCHANGED <<fence, ctrl, cmd, abt, pse, rcv, commands, resumes, odd>>
    BY DEF LoopBegun, elsewhere, given
<1>2. CASE loop[l].res = 0
    <2>1. Catch(l, eng) /\ prev' = prev
        BY <1>2 DEF LoopBegun
    <2>2. LoopPart(l)
        BY <1>1, <2>1, CatchPart, GroundedTypes
    <2>. QED
        BY <1>1, <2>1, <2>2, LoopGoesOn, GroundedTypes
<1>3. CASE loop[l].res # 0
    <2>1. /\ prev' = loop[l].res /\ UNCHANGED <<eng, runs, lease, tok, owner, ids>>
          /\ \E res \in {0, prev', prev' + 1} : SyncEngine(prev', res) /\ LoopTo(l, "begun", res)
        BY <1>3 DEF LoopBegun
    <2>2. prev' \in Nat
        BY <2>1, LoopFields
    <2>3. LoopPart(l)
        BY <1>1, <1>3, <2>1, <2>2, LoopSyncPart
    <2>. QED
        BY <1>1, <2>2, <2>3, LoopGoesOn, GroundedTypes
<1>. QED
    BY <1>2, <1>3

LEMMA LoopExecuteGrounded ==
    ASSUME Grounded, NEW l \in Loops, LoopExecute(l)
    PROVE  Grounded' /\ Later
<1>1. loop[l].pc = "begun" /\ UNCHANGED <<fence, cmd, abt, pse, rcv, commands, resumes, odd>>
    BY DEF LoopExecute, elsewhere, given
<1>2. CASE loop[l].res = 0
    <2>1. Catch(l, eng) /\ prev' = prev /\ ctrl' = ctrl
        BY <1>2 DEF LoopExecute
    <2>2. LoopPart(l)
        BY <1>1, <2>1, CatchPart, GroundedTypes
    <2>. QED
        BY <1>1, <2>1, <2>2, LoopGoesOn, GroundedTypes
<1>3. CASE loop[l].res # 0
    <2>1. /\ prev' = loop[l].res /\ ctrl' = l /\ LoopTo(l, "executing", 0)
          /\ UNCHANGED <<exp, runs, lease, eng, tok, owner, ids, faults>>
        BY <1>3 DEF LoopExecute
    <2> DEFINE x == [loop[l] EXCEPT !.pc = "executing", !.res = 0]
    <2>2. loop' = [loop EXCEPT ![l] = x]
        BY <2>1 DEF LoopTo
    <2>3. loop'[l] = x /\ loop' = [loop EXCEPT ![l] = loop'[l]]
        BY <2>2, LoopMoves
    <2>4. Later
        BY <1>1, <2>1, NothingWritten, GroundedTypes
    <2>5. "executing" \in LoopPositions /\ loop[l].pc \in AtWork /\ Begun(loop[l])
        BY <1>1 DEF LoopPositions, AtWork, Begun
    <2>6. LoopGrounded(x, ids, fence, runs)
        BY <2>5, LoopToGrounded, GroundedTypes
    <2>. HIDE DEF x
    <2>7. LoopPart(l)
        BY <1>1, <2>1, <2>3, <2>4, <2>6, GroundedTypes DEF LoopPart
    <2>8. prev' \in Nat
        BY <2>1, LoopFields
    <2>. QED
        BY <1>1, <2>1, <2>7, <2>8, LoopGoesOn
<1>. QED
    BY <1>2, <1>3

\* The loop holds a row that it has just read, or none.
LEMMA LoopLoadGrounded ==
    ASSUME NEW n \in Nat, NEW f \in Nat, NEW rows, NEW x, LoopGrounded(x, n, f, rows),
           \A r \in DOMAIN rows : rows[r] \in Run, Begun(x),
           NEW load \in {{}, {rows[x.run]}}, NEW y \in {[x EXCEPT !.load = load],
                         [x EXCEPT !.load = load, !.lossy = TRUE],
                         [x EXCEPT !.pc = "executed", !.load = load]}, x.pc = "executing"
    PROVE  LoopGrounded(y, n, f, rows)
<1>1. x.run \in DOMAIN rows /\ x.task \in Tasks /\ rows[x.run] \in Run
    BY DEF LoopGrounded, AtWork
<1>2. Copy(rows[x.run], x.run, rows)
    BY <1>1, CopyOfNow
<1>3. load \in SUBSET Run
    BY <1>1
<1>4. "executed" \in LoopPositions /\ x \in LoopTypeOf(n, f)
    BY DEF LoopPositions, LoopGrounded
<1> DEFINE yes == TRUE
<1>5. yes \in BOOLEAN
    OBVIOUS
<1>6. y \in {[x EXCEPT !.load = load], [x EXCEPT !.load = load, !.lossy = yes],
             [x EXCEPT !.pc = "executed", !.load = load]}
    OBVIOUS
<1>. HIDE DEF yes
<1>7. y \in LoopTypeOf(n, f)
    BY <1>3, <1>4, <1>5, <1>6 DEF LoopTypeOf
<1>8. y.load = load /\ y.run = x.run /\ y.task = x.task
    BY <1>4, <1>6 DEF LoopTypeOf
<1>. QED
    BY <1>1, <1>2, <1>7, <1>8 DEF LoopGrounded

LEMMA RunLoadGrounded ==
    ASSUME Grounded, NEW l \in Loops, RunLoad(l)
    PROVE  Grounded' /\ Later
<1>1. /\ loop[l].pc = "executing"
      /\ loop' = [loop EXCEPT ![l].load = {runs[loop[l].run]}]
      /\ UNCHANGED <<exp, runs, lease, fence, eng, prev, tok, owner, ctrl, ids, faults, cmd, abt,
                     pse, rcv, commands, resumes, odd>>
    BY DEF RunLoad, Executing, durable, elsewhere, given
<1> DEFINE load == {runs[loop[l].run]}
           x == [loop[l] EXCEPT !.load = load]
<1>2. loop' = [loop EXCEPT ![l] = x]
    BY <1>1
<1>3. loop'[l] = x /\ loop' = [loop EXCEPT ![l] = loop'[l]]
    BY <1>2, LoopMoves
<1>4. Begun(loop[l])
    BY <1>1 DEF Begun
<1>5. LoopGrounded(x, ids, fence, runs)
    BY <1>1, <1>4, LoopLoadGrounded, GroundedTypes
<1>6. Later
    BY <1>1, NothingWritten, GroundedTypes
<1>. HIDE DEF x
<1>7. LoopPart(l)
    BY <1>1, <1>3, <1>5, <1>6, GroundedTypes DEF LoopPart
<1>. QED
    BY <1>1, <1>7, LoopGoesOn, GroundedTypes

\* A row with another status and the next revision.
LEMMA RewrittenIs ==
    ASSUME NEW q \in Run, NEW s \in RunStatus
    PROVE  /\ Rewritten(q, s) \in Run /\ Rewritten(q, s).rev = q.rev + 1
           /\ Rewritten(q, s).status = s
<1> DEFINE n == q.rev + 1
           x == Rewritten(q, s)
<1>1. n \in Nat
    BY DEF Run
<1>2. x = [q EXCEPT !.status = s, !.rev = n]
    BY DEF Run, Rewritten
<1>. HIDE DEF n, x
<1>3. x \in Run /\ x.rev = n /\ x.status = s
    BY <1>1, <1>2 DEF Run
<1>. QED
    BY <1>3 DEF n, x

\* One row is written with the next revision, keeping a verdict.
LEMMA RunWritten ==
    ASSUME Grounded, NEW r, NEW x \in Run,
           r \in DOMAIN runs => x.rev = runs[r].rev + 1
                                /\ (runs[r].status \in OverStatus => x.status = runs[r].status),
           runs' = [runs EXCEPT ![r] = x], UNCHANGED <<exp, ids, fence, lease, tok>>
    PROVE  Later
<1>1. \A q \in DOMAIN runs : runs[q] \in Run
    BY GroundedTypes
<1>2. DOMAIN runs' = DOMAIN runs
         /\ \A q \in DOMAIN runs : runs'[q] = IF q = r THEN x ELSE runs[q]
    OBVIOUS
<1>3. Grows(runs, runs')
    BY <1>1, <1>2 DEF Grows, Run
<1>4. RowsGrounded(exp', runs', ids')
    BY <1>1, <1>2, GroundedTypes DEF RowsGrounded
<1>. QED
    BY <1>3, <1>4, GroundedTypes DEF Later, LeaseGrounded

LEMMA RunWriteGrounded ==
    ASSUME Grounded, NEW l \in Loops, RunWrite(l)
    PROVE  Grounded' /\ Later
<1>1. /\ loop[l].pc = "executing"
      /\ UNCHANGED <<exp, lease, fence, eng, prev, tok, owner, ctrl, ids, cmd, abt,
                     pse, rcv, commands, resumes, odd>>
    BY DEF RunWrite, Executing, elsewhere, given
<1> DEFINE run == loop[l].run
           kept == [loop[l] EXCEPT !.load = {}]
           lost == [loop[l] EXCEPT !.load = {}, !.lossy = TRUE]
<1>2. PICK row \in loop[l].load :
         \/ /\ runs[run].rev = row.rev
            /\ \E s \in RunStatusAfter(row.status) :
                  runs' = [runs EXCEPT ![run] = Rewritten(@, s)]
            /\ loop' = [loop EXCEPT ![l] = kept]
            /\ UNCHANGED faults
         \/ /\ Fails(runs[run].rev = row.rev)
            /\ loop' = [loop EXCEPT ![l] = lost]
            /\ UNCHANGED runs
    BY DEF RunWrite
<1>3. /\ run \in DOMAIN runs /\ row \in Run /\ Copy(row, run, runs) /\ runs[run] \in Run
      /\ \A r \in DOMAIN runs : runs[r] \in Run
    BY <1>1, LoopFields, GroundedTypes DEF Begun
<1>4. loop' = [loop EXCEPT ![l] = kept] \/ loop' = [loop EXCEPT ![l] = lost]
    BY <1>2
<1>5. loop'[l] \in {kept, lost} /\ loop' = [loop EXCEPT ![l] = loop'[l]]
    BY <1>4, LoopMoves
<1>6. Later
    <2>1. CASE UNCHANGED runs
        BY <1>1, <2>1, NothingWritten, GroundedTypes
    <2>2. ASSUME runs[run].rev = row.rev, NEW s \in RunStatusAfter(row.status),
                 runs' = [runs EXCEPT ![run] = Rewritten(@, s)]
          PROVE  Later
        <3>1. row = runs[run]
            BY <1>3, <2>2 DEF Copy
        <3>2. s \in RunStatus /\ (row.status \in OverStatus => s = row.status)
            BY <1>3 DEF RunStatusAfter, RunStatus, OverStatus, Evidence, Run
        <3> DEFINE x == Rewritten(runs[run], s)
        <3>3. x \in Run /\ x.rev = runs[run].rev + 1 /\ x.status = s
            BY <1>3, <3>2, RewrittenIs
        <3>4. runs' = [runs EXCEPT ![run] = x]
            BY <2>2
        <3>. HIDE DEF x, run
        <3>. QED
            BY <1>1, <3>1, <3>2, <3>3, <3>4, RunWritten
    <2>. QED
        BY <1>2, <2>1, <2>2
<1>7. LoopGrounded(loop[l], ids', fence', runs') /\ ids' \in Nat /\ fence' \in Nat
         /\ \A r \in DOMAIN runs' : runs'[r] \in Run
    BY <1>1, <1>6, AllStay, GroundedTypes DEF Later, RowsGrounded
<1>8. LoopGrounded(loop'[l], ids', fence', runs')
    <2>1. Begun(loop[l])
        BY <1>1 DEF Begun
    <2>2. LoopGrounded(kept, ids', fence', runs') /\ LoopGrounded(lost, ids', fence', runs')
        BY <1>1, <1>7, <2>1, LoopLoadGrounded
    <2>. QED
        BY <1>5, <2>2
<1>9. faults' \in 0 .. MaxFaults
    BY <1>2, FailsIs
<1>10. LoopPart(l)
    BY <1>1, <1>5, <1>6, <1>8, <1>9, GroundedTypes DEF LoopPart
<1>. QED
    BY <1>1, <1>10, LoopGoesOn, GroundedTypes

LEMMA LoopExecutedGrounded ==
    ASSUME Grounded, NEW l \in Loops, LoopExecuted(l)
    PROVE  Grounded' /\ Later
<1>1. /\ loop[l].pc = "executing" /\ loop[l].load = {} /\ ctrl' = 0
      /\ UNCHANGED <<exp, runs, lease, fence, eng, prev, tok, owner, ids, cmd, abt,
                     pse, rcv, commands, resumes, odd>>
    BY DEF LoopExecuted, Executing, durable, elsewhere, given
<1>2. Later
    BY <1>1, NothingWritten, GroundedTypes
<1>3. CASE loop' = [loop EXCEPT ![l] = [@ EXCEPT !.pc = "executed", !.load = {runs[loop[l].run]}]]
           /\ UNCHANGED faults
    <2> DEFINE load == {runs[loop[l].run]}
               x == [loop[l] EXCEPT !.pc = "executed", !.load = load]
    <2>1. loop' = [loop EXCEPT ![l] = x]
        BY <1>3
    <2>2. loop'[l] = x /\ loop' = [loop EXCEPT ![l] = loop'[l]]
        BY <2>1, LoopMoves
    <2>3. Begun(loop[l])
        BY <1>1 DEF Begun
    <2>4. LoopGrounded(x, ids, fence, runs)
        BY <1>1, <2>3, LoopLoadGrounded, GroundedTypes
    <2>. HIDE DEF x
    <2>5. LoopPart(l)
        BY <1>1, <1>2, <1>3, <2>2, <2>4, GroundedTypes DEF LoopPart
    <2>. QED
        BY <1>1, <2>5, LoopGoesOn, GroundedTypes
<1>4. CASE LoopTo(l, "executed", 0) /\ Fault
    <2> DEFINE x == [loop[l] EXCEPT !.pc = "executed", !.res = 0]
    <2>1. loop' = [loop EXCEPT ![l] = x]
        BY <1>4 DEF LoopTo
    <2>2. loop'[l] = x /\ loop' = [loop EXCEPT ![l] = loop'[l]]
        BY <2>1, LoopMoves
    <2>3. "executed" \in LoopPositions /\ loop[l].pc \in AtWork /\ Begun(loop[l])
        BY <1>1 DEF LoopPositions, AtWork, Begun
    <2>4. LoopGrounded(x, ids, fence, runs)
        BY <2>3, LoopToGrounded, GroundedTypes
    <2>. HIDE DEF x
    <2>5. faults' \in 0 .. MaxFaults
        BY <1>4, FailsIs
    <2>6. LoopPart(l)
        BY <1>1, <1>2, <2>2, <2>4, <2>5, GroundedTypes DEF LoopPart
    <2>. QED
        BY <1>1, <2>6, LoopGoesOn, GroundedTypes
<1>. QED
    BY <1>3, <1>4 DEF LoopExecuted
\* What the unit of work makes of the rows when a task is over.
CommitWins(t, i, run, row, rev, cov, plan, res) ==
    LET atts == Over(exp.att[t], i, row.status, cov, plan)
    IN  /\ exp.rev = rev /\ exp.status # "none" /\ res = rev + 1
        /\ i \in DOMAIN exp.att[t] /\ exp.att[t][i].status \notin OverStatus
        /\ runs[run].rev = row.rev
        /\ exp'.rev = rev + 1 /\ exp'.status = exp.status
        /\ exp'.att = [exp.att EXCEPT ![t] = atts]
        /\ exp'.sel = [exp.sel EXCEPT ![t] = Select(atts)]
        /\ DOMAIN runs' = DOMAIN runs
        /\ \A r \in DOMAIN runs : runs'[r].status = runs[r].status

\* What a commit leaves behind, whichever of its three ways it went.
CommitEnds(t, i, run, row, k, rev, cov, plan, res) ==
    \/ UNCHANGED <<exp, runs>> /\ res = 0
    \/ /\ UNCHANGED <<exp, runs>> /\ lease = k /\ res = exp.rev
       /\ exp.status # "none" /\ IsReplay(t, i, run, row)
    \/ lease = k /\ CommitWins(t, i, run, row, rev, cov, plan, res)

Steady == UNCHANGED <<ids, fence, lease, tok>>

LEMMA CommitTxIs ==
    ASSUME Grounded, NEW t \in Tasks, NEW i, NEW run \in DOMAIN runs, NEW row \in Run,
           NEW k, NEW rev \in Nat, NEW cov \in 0 .. 2, NEW plan \in Plan, NEW res,
           CommitTx(t, i, run, row, k, rev, cov, plan, res), Steady
    PROVE  /\ Later /\ faults' \in 0 .. MaxFaults /\ res \in Nat
           /\ CommitEnds(t, i, run, row, k, rev, cov, plan, res)
<1>0. UNCHANGED <<ids, fence, lease, tok>>
    BY DEF Steady
<1>1. /\ exp \in ExpRow /\ ids \in Nat /\ DOMAIN runs \subseteq 1 .. ids
      /\ \A r \in DOMAIN runs : runs[r] \in Run
    BY GroundedTypes
<1>2. CASE res = 0 /\ Fails(MayCommitTx(t, i, run, row, k, rev)) /\ UNCHANGED <<exp, runs>>
    <2>1. faults' \in 0 .. MaxFaults
        BY <1>2, FailsIs
    <2>2. Later
        BY <1>0, <1>2, NothingWritten, GroundedTypes
    <2>. QED
        BY <1>2, <2>1, <2>2 DEF CommitEnds
<1>3. CASE /\ MayCommitTx(t, i, run, row, k, rev) /\ IsReplay(t, i, run, row)
           /\ res = exp.rev /\ UNCHANGED <<exp, runs, faults>>
    <2>1. faults' \in 0 .. MaxFaults
        BY <1>3, FailsIs
    <2>2. Later
        BY <1>0, <1>3, NothingWritten, GroundedTypes
    <2>3. res \in Nat
        BY <1>1, <1>3 DEF ExpRow
    <2>4. lease = k /\ exp.status # "none"
        BY <1>3 DEF MayCommitTx
    <2>. QED
        BY <1>3, <2>1, <2>2, <2>3, <2>4 DEF CommitEnds
<1> DEFINE atts == Over(exp.att[t], i, row.status, cov, plan)
<1>4. CASE /\ MayCommitTx(t, i, run, row, k, rev) /\ ~IsReplay(t, i, run, row)
           /\ res = rev + 1
           /\ exp' = [exp EXCEPT !.rev = rev + 1, !.att[t] = atts, !.sel[t] = Select(atts)]
           /\ runs' = [runs EXCEPT ![run].rev = @ + 1]
           /\ UNCHANGED faults
    <2>1. /\ lease = k /\ exp.status # "none" /\ i \in DOMAIN exp.att[t]
          /\ exp.att[t][i].status \notin OverStatus /\ runs[run].rev = row.rev /\ exp.rev = rev
        BY <1>4 DEF MayCommitTx
    <2>2. exp.att[t] \in Seq(Attempt)
        BY <1>1 DEF ExpRow
    <2>4. atts \in Seq(Attempt)
        <3>1. row.status \in RunStatus
            BY DEF Run
        <3>. QED
            BY <2>2, <3>1, OverIs
    <2>5. Select(atts) \in Nat
        BY <2>4, SelectType
    <2>. HIDE DEF atts
    <2> DEFINE att == [exp.att EXCEPT ![t] = atts]
               sel == [exp.sel EXCEPT ![t] = Select(atts)]
    <2>6. exp' = [exp EXCEPT !.rev = rev + 1, !.att = att, !.sel = sel]
        BY <1>1, <1>4 DEF ExpRow
    <2>7. att \in [Tasks -> Seq(Attempt)] /\ sel \in [Tasks -> Nat]
        BY <1>1, <2>4, <2>5 DEF ExpRow
    <2>. HIDE DEF att, sel
    <2>8. /\ exp' \in ExpRow /\ exp'.att = att /\ exp'.sel = sel /\ exp'.rev = rev + 1
          /\ exp'.status = exp.status
        <3>1. rev + 1 \in Nat
            OBVIOUS
        <3>2. exp' = [status |-> exp.status, rev |-> rev + 1, att |-> att, sel |-> sel]
            BY <1>1, <2>6 DEF ExpRow
        <3>3. exp.status \in ExpStatus \cup {"none"}
            BY <1>1 DEF ExpRow
        <3>. QED
            BY ONLY <2>7, <3>1, <3>2, <3>3 DEF ExpRow
    <2> DEFINE x == [runs[run] EXCEPT !.rev = @ + 1]
    <2>9. x \in Run /\ x.rev = runs[run].rev + 1 /\ x.status = runs[run].status
        BY <1>1 DEF Run
    <2>10. runs' = [runs EXCEPT ![run] = x]
        BY <1>4
    <2>. HIDE DEF x
    <2>11. /\ DOMAIN runs' = DOMAIN runs
           /\ \A r \in DOMAIN runs : runs'[r] = IF r = run THEN x ELSE runs[r]
        BY <2>10
    <2>12. \A r \in DOMAIN runs : runs'[r].status = runs[r].status
        BY <2>9, <2>11
    <2>13. Grows(runs, runs')
        BY <1>1, <2>9, <2>11 DEF Grows, Run
    <2>14. RowsGrounded(exp', runs', ids')
        BY <1>0, <1>1, <2>8, <2>9, <2>11 DEF RowsGrounded
    <2>15. Later
        BY <1>0, <2>13, <2>14, GroundedTypes DEF Later, LeaseGrounded
    <2>16. faults' \in 0 .. MaxFaults
        BY <1>4, FailsIs
    <2>17. CommitWins(t, i, run, row, rev, cov, plan, res)
        BY <1>4, <2>1, <2>8, <2>11, <2>12 DEF CommitWins, atts, att, sel
    <2>. QED
        BY <1>4, <2>1, <2>15, <2>16, <2>17 DEF CommitEnds
<1>. QED
    BY <1>2, <1>3, <1>4 DEF CommitTx, Over

LEMMA CoverageIs ==
    ASSUME NEW status, NEW cov \in CoverageOf(status)
    PROVE  cov \in 0 .. 2
    BY DEF CoverageOf

\* The attempt is finalized in the engine and, if the commit comes through,
\* in the rows.
Commits(l, row, cov, res) ==
    /\ row \in loop[l].load /\ cov \in CoverageOf(row.status)
    /\ MayCommit(eng, loop[l].task, loop[l].at)
    /\ CommitTx(loop[l].task, loop[l].at, loop[l].run, row, loop[l].k, prev, cov, loop[l].plan, res)
    /\ eng' = TaskCommitted(eng, loop[l].task, loop[l].at, row.status, cov, loop[l].plan)
    /\ loop' = [loop EXCEPT ![l] = [@ EXCEPT !.pc = "committing", !.res = res,
                                             !.load = {}, !.pre = eng]]
    /\ UNCHANGED <<lease, tok, owner, ids>>

LEMMA LoopCommitIs ==
    ASSUME NEW l, LoopCommit(l)
    PROVE  Catch(l, eng) \/ \E row, cov, res : Commits(l, row, cov, res)
    BY DEF LoopCommit, Commits

LEMMA TaskCommittedType ==
    ASSUME NEW e \in Engine, NEW t \in Tasks, NEW i, NEW status \in RunStatus,
           NEW cov \in 0 .. 2, NEW plan \in Plan
    PROVE  TaskCommitted(e, t, i, status, cov, plan) \in Engines
    BY TaskCommittedIs DEF Engines

LEMMA CommitsPart ==
    ASSUME Grounded, UNCHANGED fence, NEW l \in Loops, loop[l].pc = "executed",
           NEW row, NEW cov, NEW res, Commits(l, row, cov, res)
    PROVE  LoopPart(l)
<1> DEFINE t == loop[l].task
           i == loop[l].at
           run == loop[l].run
           plan == loop[l].plan
           k == loop[l].k
<1>1. t \in Tasks /\ run \in DOMAIN runs /\ row \in Run /\ plan \in Plan
         /\ loop[l] \in LoopTypeOf(ids, fence)
    BY LoopFields DEF AtWork, Begun, Commits
<1>2. cov \in 0 .. 2 /\ row.status \in RunStatus
    BY <1>1, CoverageIs DEF Commits, Run
<1>3. eng \in Engine
    <2>1. eng.task = t
        BY DEF Commits, MayCommit
    <2>2. t # 0
        BY <1>1 DEF Tasks
    <2>3. eng # NoEngine
        BY <2>1, <2>2, NoRowFields
    <2>. QED
        BY <2>3, GroundedTypes DEF Engines
<1>4. eng' \in Engines
    BY <1>1, <1>2, <1>3, TaskCommittedType DEF Commits
<1>5. Later /\ faults' \in 0 .. MaxFaults /\ res \in Nat
    <2>1. prev \in Nat
        BY GroundedTypes
    <2>2. CommitTx(t, i, run, row, k, prev, cov, plan, res) /\ UNCHANGED <<ids, lease, tok>>
        BY DEF Commits
    <2>3. Steady
        BY <2>2 DEF Steady
    <2>. HIDE DEF t, i, run, plan, k
    <2>. QED
        BY <1>1, <1>2, <2>1, <2>2, <2>3, CommitTxIs
<1> DEFINE x == [loop[l] EXCEPT !.pc = "committing", !.res = res, !.load = {}, !.pre = eng]
<1>6. loop' = [loop EXCEPT ![l] = x]
    BY DEF Commits
<1>7. loop'[l] = x /\ loop' = [loop EXCEPT ![l] = loop'[l]]
    BY <1>6, LoopMoves
<1>8. LoopGrounded(loop[l], ids', fence', runs')
    BY <1>5, AllStay
<1>9. "committing" \in LoopPositions /\ {} \in SUBSET Run /\ eng \in Engines
    BY GroundedTypes DEF LoopPositions
<1>10. loop[l] \in LoopTypeOf(ids', fence')
    BY <1>8 DEF LoopGrounded
<1>11. x \in LoopTypeOf(ids', fence')
    BY <1>5, <1>9, <1>10 DEF LoopTypeOf
<1>12. x.pc = "committing" /\ x.load = {}
    BY <1>1 DEF LoopTypeOf
<1>. HIDE DEF x
<1>13. LoopGrounded(x, ids', fence', runs')
    BY <1>11, <1>12 DEF LoopGrounded, AtWork, Begun
<1>14. owner' \in BOOLEAN
    BY GroundedTypes DEF Commits
<1>. QED
    BY <1>4, <1>5, <1>7, <1>13, <1>14 DEF LoopPart

LEMMA LoopCommitGrounded ==
    ASSUME Grounded, NEW l \in Loops, LoopCommit(l)
    PROVE  Grounded' /\ Later
<1>1. /\ loop[l].pc = "executed"
      /\ UNCHANGED <<fence, prev, ctrl, cmd, abt, pse, rcv, commands, resumes, odd>>
    BY DEF LoopCommit, elsewhere, given
<1>2. LoopPart(l)
    BY <1>1, LoopCommitIs, CatchPart, CommitsPart, GroundedTypes
<1>. QED
    BY <1>1, <1>2, LoopGoesOn, GroundedTypes

LEMMA LoopCommittedGrounded ==
    ASSUME Grounded, NEW l \in Loops, LoopCommitted(l)
    PROVE  Grounded' /\ Later
<1>1. /\ loop[l].pc = "committing"
      /\ UNCHANGED <<fence, ctrl, cmd, abt, pse, rcv, commands, resumes, odd>>
    BY DEF LoopCommitted, elsewhere, given
<1>2. CASE loop[l].res = 0
    <2>1. Catch(l, loop[l].pre) /\ prev' = prev
        BY <1>2 DEF LoopCommitted
    <2>2. LoopPart(l)
        BY <1>1, <2>1, CatchPart, LoopFields
    <2>. QED
        BY <1>1, <2>1, <2>2, LoopGoesOn, GroundedTypes
<1>3. CASE loop[l].res # 0
    <2>1. /\ prev' = loop[l].res /\ UNCHANGED <<eng, runs, lease, tok, owner, ids>>
          /\ \E res \in {0, prev', prev' + 1} : SyncEngine(prev', res) /\ LoopTo(l, "committed", res)
        BY <1>3 DEF LoopCommitted
    <2>2. prev' \in Nat
        BY <2>1, LoopFields
    <2>3. LoopPart(l)
        BY <1>1, <2>1, <2>2, LoopSyncPart
    <2>. QED
        BY <1>1, <2>2, <2>3, LoopGoesOn, GroundedTypes
<1>. QED
    BY <1>2, <1>3

LEMMA LoopAdvanceGrounded ==
    ASSUME Grounded, NEW l \in Loops, LoopAdvance(l)
    PROVE  Grounded' /\ Later
<1>1. UNCHANGED <<fence, ctrl, cmd, abt, pse, rcv, commands, resumes, odd>>
    BY DEF LoopAdvance, elsewhere, given
<1>2. CASE Catch(l, eng) /\ UNCHANGED prev
    <2>1. LoopPart(l)
        BY <1>1, <1>2, CatchPart, GroundedTypes
    <2>. QED
        BY <1>1, <1>2, <2>1, LoopGoesOn, GroundedTypes
<1>3. CASE prev' = loop[l].res /\ NextTask(l, eng, prev', loop[l].k)
    <2>1. prev' \in Nat /\ loop[l].k \in 0 .. fence /\ eng \in Engines
        BY <1>3, LoopFields, GroundedTypes
    <2>2. LoopPart(l)
        BY <1>1, <1>3, <2>1, NextTaskPart
    <2>. QED
        BY <1>1, <2>1, <2>2, LoopGoesOn, GroundedTypes
<1>. QED
    BY <1>2, <1>3 DEF LoopAdvance

\* A run that was read as running is aborted, unless it was written since.
LEMMA AbortRunIs ==
    ASSUME Grounded, NEW r \in DOMAIN runs, NEW row \in Run, Copy(row, r, runs),
           row.status = "running", AbortRun(r, row), UNCHANGED <<exp, ids, fence, lease, tok>>
    PROVE  Later /\ faults' \in 0 .. MaxFaults
<1>1. CASE /\ runs[r].rev = row.rev
           /\ runs' = [runs EXCEPT ![r] = Rewritten(@, "aborted")] /\ UNCHANGED faults
    <2>1. row = runs[r] /\ runs[r] \in Run
        BY <1>1, GroundedTypes DEF Copy
    <2>2. "aborted" \in RunStatus /\ "running" \notin OverStatus
        BY DEF RunStatus, OverStatus, Evidence
    <2> DEFINE x == Rewritten(runs[r], "aborted")
    <2>3. x \in Run /\ x.rev = runs[r].rev + 1
        BY <2>1, <2>2, RewrittenIs
    <2>4. runs' = [runs EXCEPT ![r] = x]
        BY <1>1
    <2>. HIDE DEF x
    <2>5. Later
        BY <2>1, <2>2, <2>3, <2>4, RunWritten
    <2>6. faults' \in 0 .. MaxFaults
        BY <1>1, FailsIs
    <2>. QED
        BY <2>5, <2>6
<1>2. CASE Fails(runs[r].rev = row.rev) /\ UNCHANGED runs
    <2>1. Later
        BY <1>2, NothingWritten, GroundedTypes
    <2>2. faults' \in 0 .. MaxFaults
        BY <1>2, FailsIs
    <2>. QED
        BY <2>1, <2>2
<1>. QED
    BY <1>1, <1>2 DEF AbortRun

LEMMA LoopFailingGrounded ==
    ASSUME Grounded, NEW l \in Loops, LoopFailing(l)
    PROVE  Grounded' /\ Later
<1>1. /\ loop[l].pc = "failing"
      /\ UNCHANGED <<fence, prev, ctrl, cmd, abt, pse, rcv, commands, resumes, odd>>
    BY DEF LoopFailing, elsewhere, given
<1>2. PICK row \in loop[l].load :
         IF row.status = "running"
         THEN AbortRun(loop[l].run, row) /\ LoopTo(l, "finalized", 0)
              /\ UNCHANGED <<exp, lease, eng, tok, owner, ids>>
         ELSE AbortAfterFailure(l, eng)
    BY DEF LoopFailing
<1>3. CASE AbortAfterFailure(l, eng)
    <2>1. LoopPart(l)
        BY <1>1, <1>3, AbortAfterFailurePart, GroundedTypes
    <2>. QED
        BY <1>1, <2>1, LoopGoesOn, GroundedTypes
<1>4. CASE /\ row.status = "running" /\ AbortRun(loop[l].run, row) /\ LoopTo(l, "finalized", 0)
           /\ UNCHANGED <<exp, lease, eng, tok, owner, ids>>
    <2>1. row \in Run /\ Copy(row, loop[l].run, runs) /\ loop[l].run \in DOMAIN runs
        BY LoopFields DEF Copy
    <2>2. Later /\ faults' \in 0 .. MaxFaults
        BY <1>1, <1>4, <2>1, AbortRunIs
    <2> DEFINE x == [loop[l] EXCEPT !.pc = "finalized", !.res = 0]
    <2>3. loop' = [loop EXCEPT ![l] = x]
        BY <1>4 DEF LoopTo
    <2>4. loop'[l] = x /\ loop' = [loop EXCEPT ![l] = loop'[l]]
        BY <2>3, LoopMoves
    <2>5. "finalized" \in LoopPositions /\ "finalized" \notin AtWork
        BY DEF LoopPositions, AtWork
    <2>6. x.pc = "finalized"
        BY LoopFields DEF LoopTypeOf
    <2>7. ~Begun(x)
        BY <2>6 DEF Begun
    <2>8. LoopGrounded(loop[l], ids', fence', runs') /\ ids' \in Nat /\ fence' \in Nat
        BY <1>1, <1>4, <2>2, AllStay, GroundedTypes
    <2>9. LoopGrounded(x, ids', fence', runs')
        BY <2>5, <2>7, <2>8, LoopToGrounded
    <2>. HIDE DEF x
    <2>10. LoopPart(l)
        BY <1>1, <1>4, <2>2, <2>4, <2>9, GroundedTypes DEF LoopPart
    <2>. QED
        BY <1>1, <2>10, LoopGoesOn, GroundedTypes
<1>. QED
    BY <1>2, <1>3, <1>4

LEMMA LoopFinalizedGrounded ==
    ASSUME Grounded, NEW l \in Loops, LoopFinalized(l)
    PROVE  Grounded' /\ Later
<1>1. /\ AbortAfterFailure(l, eng)
      /\ UNCHANGED <<fence, prev, ctrl, cmd, abt, pse, rcv, commands, resumes, odd>>
    BY DEF LoopFinalized, elsewhere, given
<1>2. LoopPart(l)
    BY <1>1, AbortAfterFailurePart, GroundedTypes
<1>. QED
    BY <1>1, <1>2, LoopGoesOn, GroundedTypes

LEMMA LoopFailedGrounded ==
    ASSUME Grounded, NEW l \in Loops, LoopFailed(l)
    PROVE  Grounded' /\ Later
<1>1. /\ EndLoop(l, eng) /\ prev' \in {prev, loop[l].res}
      /\ UNCHANGED <<fence, ctrl, cmd, abt, pse, rcv, commands, resumes, odd>>
    BY DEF LoopFailed, elsewhere, given
<1>2. LoopPart(l)
    BY <1>1, EndLoopPart, GroundedTypes
<1>3. prev' \in Nat
    BY <1>1, LoopFields, GroundedTypes
<1>. QED
    BY <1>1, <1>2, <1>3, LoopGoesOn, GroundedTypes

LEMMA LoopStepGrounded ==
    ASSUME Grounded, NEW l \in Loops, LoopStep(l)
    PROVE  Grounded' /\ Later
    BY LoopBaseGrounded, LoopBegunGrounded, LoopExecuteGrounded, RunLoadGrounded,
       RunWriteGrounded, LoopExecutedGrounded, LoopCommitGrounded, LoopCommittedGrounded,
       LoopAdvanceGrounded, LoopFailingGrounded, LoopFinalizedGrounded, LoopFailedGrounded
    DEF LoopStep
-----------------------------------------------------------------------------
(* Abort, pause and the commands.                                          *)

LEMMA Onward ==
    ASSUME Grounded, Later, eng' \in Engines, prev' \in Nat, owner' \in BOOLEAN,
           ctrl' \in Loops \cup {0}, pse' \subseteq Nat, faults' \in 0 .. MaxFaults,
           commands' \in 0 .. MaxCommands, resumes' \in 0 .. MaxResumes,
           odd' \in {"none", "hasty", "lost"},
           loop' = loop \/ (/\ loop' = [l \in Loops |-> loop'[l]]
                            /\ \A l \in Loops : LoopGrounded(loop'[l], ids', fence', runs')),
           abt' = abt \/ AbtGrounded(abt', ids', runs'),
           cmd' = cmd \/ cmd' \in CmdTypeOf(fence'),
           rcv' = rcv \/ RcvGrounded(rcv', fence', runs')
    PROVE  Grounded' /\ Later
<1>1. TabGrounded' /\ Counted'
    BY DEF TabGrounded, Counted
<1>2. loop' = [l \in Loops |-> loop'[l]]
    <2>1. CASE loop' = loop
        BY <2>1, GroundedTypes
    <2>. QED
        BY <2>1
<1>. QED
    BY <1>1, <1>2, GroundedNext

LEMMA CounterTypes ==
    ASSUME Grounded
    PROVE  /\ commands \in 0 .. MaxCommands /\ resumes \in 0 .. MaxResumes
           /\ MaxCommands \in Nat /\ MaxResumes \in Nat
           /\ odd \in {"none", "hasty", "lost"} /\ faults \in 0 .. MaxFaults
    BY ExperimentAssumption DEF Grounded, Counted

LEMMA AbtFields ==
    ASSUME Grounded
    PROVE  /\ abt \in AbtTypeOf(ids) /\ abt.run \in 0 .. ids /\ abt.res \in Nat
           /\ abt.load \in SUBSET Run /\ \A row \in abt.load : Copy(row, abt.run, runs)
    BY GroundedTypes DEF AbtGrounded, AbtTypeOf

SyncingAbt(res) == [NoAbt EXCEPT !.pc = "syncing", !.res = res]

ReadingAbt(run, load) == [NoAbt EXCEPT !.pc = "reading", !.run = run, !.load = load]

FinalizedAbt == [NoAbt EXCEPT !.pc = "finalized"]

LEMMA AbtIs ==
    /\ \A res \in Nat : /\ SyncingAbt(res).pc = "syncing" /\ SyncingAbt(res).res = res
                        /\ \A n \in Nat : \A rows : AbtGrounded(SyncingAbt(res), n, rows)
    /\ FinalizedAbt.pc = "finalized" /\ FinalizedAbt.res = 0
    /\ \A n \in Nat : \A rows : AbtGrounded(FinalizedAbt, n, rows)
<1>1. \A n \in Nat : NoAbt \in AbtTypeOf(n) /\ NoAbt.load = {} /\ NoAbt.res = 0
    BY NothingInFlight DEF AbtGrounded
<1>2. ASSUME NEW res \in Nat, NEW n \in Nat
      PROVE  /\ SyncingAbt(res).pc = "syncing" /\ SyncingAbt(res).res = res
             /\ SyncingAbt(res).load = {} /\ SyncingAbt(res) \in AbtTypeOf(n)
    BY <1>1 DEF SyncingAbt, AbtTypeOf
<1>3. ASSUME NEW n \in Nat
      PROVE  /\ FinalizedAbt.pc = "finalized" /\ FinalizedAbt.res = 0
             /\ FinalizedAbt.load = {} /\ FinalizedAbt \in AbtTypeOf(n)
    BY <1>1 DEF FinalizedAbt, AbtTypeOf
<1>. QED
    BY <1>2, <1>3 DEF AbtGrounded

LEMMA ReadingAbtIs ==
    ASSUME NEW rows, NEW n \in Nat, NEW r \in DOMAIN rows, DOMAIN rows \subseteq 1 .. n,
           rows[r] \in Run
    PROVE  /\ AbtGrounded(ReadingAbt(r, {rows[r]}), n, rows)
           /\ ReadingAbt(r, {rows[r]}).pc = "reading" /\ ReadingAbt(r, {rows[r]}).res = 0
<1> DEFINE load == {rows[r]}
           x == ReadingAbt(r, load)
<1>1. NoAbt \in AbtTypeOf(n) /\ NoAbt.res = 0
    BY NothingInFlight DEF AbtGrounded
<1>2. load \in SUBSET Run /\ r \in 0 .. n /\ \A row \in load : Copy(row, r, rows)
    BY CopyOfNow
<1>. HIDE DEF load
<1>3. x \in AbtTypeOf(n) /\ x.load = load /\ x.run = r /\ x.pc = "reading" /\ x.res = 0
    BY <1>1, <1>2 DEF AbtTypeOf, ReadingAbt
<1>. HIDE DEF x
<1>4. AbtGrounded(x, n, rows)
    BY <1>2, <1>3 DEF AbtGrounded
<1>. QED
    BY <1>3, <1>4 DEF x, load

LEMMA AbortEngineIs ==
    ASSUME Grounded, AbortEngine, UNCHANGED <<runs, ids, fence>>
    PROVE  /\ Later /\ faults' \in 0 .. MaxFaults /\ eng' \in Engines
           /\ AbtGrounded(abt', ids', runs') /\ UNCHANGED <<lease, tok, owner>>
<1>1. eng' = Aborted(eng) /\ UNCHANGED <<lease, tok, owner>> /\ eng \in Engines /\ ids \in Nat
         /\ prev \in Nat
    BY GroundedTypes DEF AbortEngine
<1>2. eng' \in Engines
    BY <1>1, AbortedIs
<1>3. CASE eng.status = "none"
    <2>1. abt' = NoAbt /\ UNCHANGED <<exp, faults>>
        BY <1>3 DEF AbortEngine
    <2>2. Later
        BY <1>1, <2>1, NothingWritten, GroundedTypes
    <2>3. AbtGrounded(abt', ids', runs')
        BY <1>1, <2>1, NothingInFlight
    <2>. QED
        BY <1>1, <1>2, <2>1, <2>2, <2>3, GroundedTypes
<1>4. CASE eng.status # "none"
    <2>1. PICK res \in {0, prev + 1} :
             Sync(Aborted(eng), prev, res) /\ abt' = SyncingAbt(res)
        BY <1>4 DEF AbortEngine, SyncingAbt
    <2>2. Aborted(eng) \in Engines /\ Aborted(eng).status # "none"
        BY <1>1, <1>4, AbortedIs, EngineFields
    <2>3. faults' \in 0 .. MaxFaults /\ res \in Nat /\ exp' \in ExpRow
        BY <1>1, <2>1, <2>2, SyncIs
    <2>4. Later
        BY <1>1, <2>3, SyncLater, GroundedTypes
    <2>5. AbtGrounded(abt', ids', runs')
        BY <1>1, <2>1, <2>3, AbtIs
    <2>. QED
        BY <1>1, <1>2, <2>3, <2>4, <2>5
<1>. QED
    BY <1>3, <1>4

LEMMA ReleaseIs ==
    ASSUME Grounded, Release
    PROVE  lease' \in {0, lease} /\ tok' = 0 /\ tok' \in 0 .. fence /\ owner' \in BOOLEAN
<1>1. fence \in Nat /\ 0 \in 0 .. fence
    BY GroundedTypes
<1>2. tok' = 0 /\ owner' = FALSE /\ lease' = IF lease = tok THEN 0 ELSE lease
    BY DEF Release
<1>3. lease' \in {0, lease}
    BY <1>2
<1>4. owner' \in BOOLEAN
    BY <1>2
<1>5. tok' \in 0 .. fence
    BY <1>1, <1>2
<1>. QED
    BY <1>2, <1>3, <1>4, <1>5

\* The execution is told to abort.
LEMMA ToldToAbort ==
    ASSUME NEW n, NEW f, NEW rows, NEW x, LoopGrounded(x, n, f, rows)
    PROVE  LoopGrounded([x EXCEPT !.sig = TRUE], n, f, rows)
<1> DEFINE yes == TRUE
           y == [x EXCEPT !.sig = yes]
<1>1. yes \in BOOLEAN
    OBVIOUS
<1>. HIDE DEF yes
<1>2. /\ y \in LoopTypeOf(n, f) /\ y.pc = x.pc /\ y.load = x.load /\ y.run = x.run
      /\ y.task = x.task /\ y.res = x.res
    BY <1>1 DEF LoopGrounded, LoopTypeOf
<1>. HIDE DEF y
<1>3. LoopGrounded(y, n, f, rows)
    BY <1>2 DEF LoopGrounded, Begun
<1>. QED
    BY <1>3 DEF y, yes

LEMMA AbortStartsGrounded ==
    ASSUME Grounded, AbortStarts, ids' = ids, odd' \in {"none", "hasty", "lost"}
    PROVE  Grounded' /\ Later
<1>1. /\ ctrl' = 0 /\ UNCHANGED <<runs, fence, prev, cmd, pse, rcv, commands, resumes>>
      /\ loop' = [l \in Loops |-> IF l = ctrl THEN [loop[l] EXCEPT !.sig = TRUE] ELSE loop[l]]
    BY DEF AbortStarts, given
<1>2. loop' = [l \in Loops |-> loop'[l]]
         /\ \A l \in Loops : loop'[l] \in {loop[l], [loop[l] EXCEPT !.sig = TRUE]}
    BY <1>1
<1>3. \A l \in Loops : LoopGrounded(loop'[l], ids', fence', runs')
    <2> SUFFICES ASSUME NEW l \in Loops PROVE LoopGrounded(loop'[l], ids, fence, runs)
        BY <1>1
    <2>1. LoopGrounded(loop[l], ids, fence, runs)
        BY GroundedTypes
    <2>2. LoopGrounded([loop[l] EXCEPT !.sig = TRUE], ids, fence, runs)
        BY <2>1, ToldToAbort
    <2>. QED
        BY <1>2, <2>1, <2>2
<1>4. \/ Release /\ UNCHANGED <<exp, eng, abt, faults>>
      \/ /\ \E run \in ActiveRun(eng) : abt' = ReadingAbt(run, {runs[run]})
         /\ UNCHANGED <<exp, eng, lease, tok, owner, faults>>
      \/ AbortEngine
    BY DEF AbortStarts, ReadingAbt
<1>5. /\ Later /\ faults' \in 0 .. MaxFaults /\ eng' \in Engines /\ owner' \in BOOLEAN
      /\ abt' = abt \/ AbtGrounded(abt', ids', runs')
    <2>1. CASE Release /\ UNCHANGED <<exp, eng, abt, faults>>
        <3>1. Later
            BY <1>1, <2>1, ReleaseIs, NothingWritten
        <3>. QED
            BY <2>1, <3>1, ReleaseIs, GroundedTypes
    <2>2. ASSUME NEW run \in ActiveRun(eng), abt' = ReadingAbt(run, {runs[run]}),
                 UNCHANGED <<exp, eng, lease, tok, owner, faults>>
          PROVE  /\ Later /\ faults' \in 0 .. MaxFaults /\ eng' \in Engines /\ owner' \in BOOLEAN
                 /\ abt' = abt \/ AbtGrounded(abt', ids', runs')
        <3>1. run \in DOMAIN runs
            BY DEF ActiveRun
        <3>2. AbtGrounded(ReadingAbt(run, {runs[run]}), ids, runs)
            BY <3>1, ReadingAbtIs, GroundedTypes
        <3>3. Later
            BY <1>1, <2>2, NothingWritten, GroundedTypes
        <3>. QED
            BY <1>1, <2>2, <3>2, <3>3, GroundedTypes
    <2>3. CASE AbortEngine
        BY <1>1, <2>3, AbortEngineIs, GroundedTypes
    <2>. QED
        BY <1>4, <2>1, <2>2, <2>3
<1>. QED
    BY <1>1, <1>2, <1>3, <1>5, Onward, CounterTypes, GroundedTypes

LEMMA AbortReadGrounded ==
    ASSUME Grounded, AbortRead
    PROVE  Grounded' /\ Later
<1>1. UNCHANGED <<fence, prev, ctrl, loop, cmd, pse, rcv, ids, commands, resumes, odd>>
    BY DEF AbortRead, given
<1>2. PICK row \in abt.load :
         IF row.status = "running"
         THEN /\ AbortRun(abt.run, row) /\ abt' = FinalizedAbt
              /\ UNCHANGED <<exp, eng, lease, tok, owner>>
         ELSE AbortEngine /\ UNCHANGED runs
    BY DEF AbortRead, FinalizedAbt
<1>3. CASE /\ row.status = "running" /\ AbortRun(abt.run, row) /\ abt' = FinalizedAbt
           /\ UNCHANGED <<exp, eng, lease, tok, owner>>
    <2>1. row \in Run /\ Copy(row, abt.run, runs) /\ abt.run \in DOMAIN runs
        BY AbtFields DEF Copy
    <2>2. Later /\ faults' \in 0 .. MaxFaults
        BY <1>1, <1>3, <2>1, AbortRunIs
    <2>3. AbtGrounded(abt', ids', runs')
        BY <1>1, <1>3, AbtIs, GroundedTypes
    <2>. QED
        BY <1>1, <1>3, <2>2, <2>3, Onward, CounterTypes, GroundedTypes
<1>4. CASE AbortEngine /\ UNCHANGED runs
    <2>1. /\ Later /\ faults' \in 0 .. MaxFaults /\ eng' \in Engines
          /\ AbtGrounded(abt', ids', runs') /\ UNCHANGED owner
        BY <1>1, <1>4, AbortEngineIs
    <2>. QED
        BY <1>1, <2>1, Onward, CounterTypes, GroundedTypes
<1>. QED
    BY <1>2, <1>3, <1>4

LEMMA AbortFinalizedGrounded ==
    ASSUME Grounded, AbortFinalized
    PROVE  Grounded' /\ Later
<1>1. UNCHANGED <<runs, fence, prev, ctrl, loop, cmd, pse, rcv, ids, commands, resumes, odd>>
         /\ AbortEngine
    BY DEF AbortFinalized, given
<1>2. /\ Later /\ faults' \in 0 .. MaxFaults /\ eng' \in Engines
      /\ AbtGrounded(abt', ids', runs') /\ UNCHANGED owner
    BY <1>1, AbortEngineIs
<1>. QED
    BY <1>1, <1>2, Onward, CounterTypes, GroundedTypes

LEMMA AbortEndsGrounded ==
    ASSUME Grounded, AbortEnds
    PROVE  Grounded' /\ Later
<1>1. /\ UNCHANGED <<exp, runs, fence, eng, ctrl, loop, cmd, pse, rcv, ids, commands, resumes,
                     faults, odd>>
      /\ abt' = NoAbt /\ prev' \in {prev, abt.res} /\ Release
    BY DEF AbortEnds, given
<1>2. Later
    BY <1>1, ReleaseIs, NothingWritten
<1>3. AbtGrounded(abt', ids', runs')
    BY <1>1, NothingInFlight, GroundedTypes
<1>4. prev' \in Nat
    BY <1>1, AbtFields, GroundedTypes
<1>. QED
    BY <1>1, <1>2, <1>3, <1>4, ReleaseIs, Onward, CounterTypes, GroundedTypes

LEMMA HastyIs ==
    ASSUME Grounded, NEW positions, Hasty(positions)
    PROVE  odd' \in {"none", "hasty", "lost"}
    BY CounterTypes DEF Hasty

LEMMA UserPausesGrounded ==
    ASSUME Grounded, UserPauses
    PROVE  Grounded' /\ Later
<1>1. /\ UNCHANGED <<runs, lease, fence, prev, tok, owner, ctrl, loop, cmd, abt, rcv, ids,
                     commands, resumes>>
      /\ eng.status # "none" /\ eng' = PauseRequested(eng)
      /\ \/ UNCHANGED <<exp, pse, faults>>
         \/ \E res \in {0, prev + 1} : Sync(PauseRequested(eng), prev, res) /\ pse' = {res}
    BY DEF UserPauses, given
<1>2. odd' \in {"none", "hasty", "lost"}
    BY HastyIs DEF UserPauses
<1>3. PauseRequested(eng) \in Engine /\ eng' \in Engines /\ PauseRequested(eng).status # "none"
    BY <1>1, PauseRequestedIs, GroundedTypes DEF Engines
<1>4. CASE UNCHANGED <<exp, pse, faults>>
    <2>1. Later
        BY <1>1, <1>4, NothingWritten, GroundedTypes
    <2>. QED
        BY <1>1, <1>2, <1>3, <1>4, <2>1, Onward, CounterTypes, GroundedTypes
<1>5. CASE \E res \in {0, prev + 1} : Sync(PauseRequested(eng), prev, res) /\ pse' = {res}
    <2>1. PICK res \in {0, prev + 1} : Sync(PauseRequested(eng), prev, res) /\ pse' = {res}
        BY <1>5
    <2>2. faults' \in 0 .. MaxFaults /\ res \in Nat /\ exp' \in ExpRow
        BY <1>3, <2>1, SyncIs, GroundedTypes DEF Engines
    <2>3. Later
        BY <1>1, <2>2, SyncLater, GroundedTypes
    <2>4. pse' \subseteq Nat
        BY <2>1, <2>2
    <2>. QED
        BY <1>1, <1>2, <1>3, <2>2, <2>3, <2>4, Onward, CounterTypes, GroundedTypes
<1>. QED
    BY <1>1, <1>4, <1>5

LEMMA PauseEndsGrounded ==
    ASSUME Grounded, PauseEnds
    PROVE  Grounded' /\ Later
<1>1. /\ UNCHANGED <<exp, runs, lease, fence, eng, tok, owner, ctrl, loop, cmd, abt, rcv, ids,
                     commands, resumes, faults, odd>>
      /\ pse' = {} /\ \E res \in pse : prev' \in {prev, res}
    BY DEF PauseEnds, durable, given
<1>2. Later
    BY <1>1, NothingWritten, GroundedTypes
<1>3. prev' \in Nat /\ pse' \subseteq Nat
    BY <1>1, GroundedTypes
<1>. QED
    BY <1>1, <1>2, <1>3, Onward, CounterTypes, GroundedTypes

\* The plans of a retry are those the attempts carry.
LEMMA RetryPlansAre ==
    ASSUME NEW x \in ExpRow
    PROVE  LET plans == RetryPlans(EngineOf(x))
           IN  DOMAIN plans \subseteq Tasks /\ \A t \in DOMAIN plans : plans[t] \in Plan
<1> DEFINE e == EngineOf(x)
           plans == RetryPlans(e)
<1>1. DOMAIN plans = Retried(e) /\ Retried(e) \subseteq Tasks
    BY DEF RetryPlans, Retried
<1>2. e.att \in [Tasks -> Seq(Attempt)]
    BY EngineOfIs DEF Attempts
<1>3. ASSUME NEW t \in Retried(e) PROVE plans[t] \in Plan
    <2>1. plans[t] = IF NeedsRetry(e.att[t]) THEN "none" ELSE e.att[t][Len(e.att[t])].plan
        BY DEF RetryPlans
    <2>. HIDE DEF e
    <2> DEFINE a == e.att[t]
    <2>2. t \in Tasks /\ a \in Seq(Attempt) /\ (NeedsRetry(a) \/ PlanUnfinished(a))
        BY <1>1, <1>2 DEF Retried
    <2>3. plans[t] = IF NeedsRetry(a) THEN "none" ELSE a[Len(a)].plan
        BY <2>1
    <2>. HIDE DEF a, plans
    <2>4. CASE NeedsRetry(a)
        BY <2>3, <2>4 DEF Plan
    <2>5. CASE ~NeedsRetry(a)
        <3>1. a # <<>>
            BY <2>2, <2>5 DEF PlanUnfinished
        <3>2. Len(a) \in DOMAIN a
            BY <2>2, <3>1
        <3>3. a[Len(a)] \in Attempt
            BY <2>2, <3>2
        <3>4. a[Len(a)].plan \in Plan
            BY <3>3 DEF Attempt
        <3>. QED
            BY <2>3, <2>5, <3>4
    <2>. QED
        BY <2>4, <2>5
<1>. QED
    BY <1>1, <1>3

LEMMA PlansAre ==
    ASSUME NEW e, NEW plans \in Plans(e)
    PROVE  DOMAIN plans \subseteq Tasks /\ \A t \in DOMAIN plans : plans[t] \in Plan
    BY DEF Plans, Plan

LEMMA CmdFields ==
    ASSUME Grounded
    PROVE  /\ cmd \in CmdTypeOf(fence) /\ cmd.pc \in CmdPositions /\ cmd.k \in 0 .. fence
           /\ cmd.kind \in {"none", "start", "retry", "plan", "resume"}
           /\ cmd.res \in Nat /\ cmd.snap \in ExpRow /\ cmd.pre \in Engines
    BY GroundedTypes DEF CmdTypeOf

LEMMA CmdReadGrounded ==
    ASSUME Grounded, NEW kind \in {"start", "retry", "plan"}, CmdRead(kind)
    PROVE  Grounded' /\ Later
<1>1. /\ UNCHANGED <<exp, runs, lease, fence, eng, prev, tok, owner, ctrl, loop, abt, pse, rcv,
                     ids, resumes, faults, odd>>
      /\ cmd' = [NoCmd EXCEPT !.kind = kind, !.pc = "read", !.snap = exp]
      /\ commands < MaxCommands /\ commands' = commands + 1
    BY DEF CmdRead, durable
<1>2. Later
    BY <1>1, NothingWritten, GroundedTypes
<1>3. fence \in Nat /\ exp \in ExpRow /\ NoCmd \in CmdTypeOf(fence) /\ "read" \in CmdPositions
    BY NothingInFlight, GroundedTypes DEF CmdPositions
<1>4. cmd' \in CmdTypeOf(fence')
    BY <1>1, <1>3 DEF CmdTypeOf
<1>5. commands' \in 0 .. MaxCommands
    BY <1>1, CounterTypes
<1>. QED
    BY <1>1, <1>2, <1>4, <1>5, Onward, CounterTypes, GroundedTypes

LEMMA CmdAcquireGrounded ==
    ASSUME Grounded, CmdAcquire
    PROVE  Grounded' /\ Later
<1>1. /\ UNCHANGED <<exp, runs, eng, prev, tok, owner, ctrl, loop, abt, pse, rcv, ids, commands,
                     resumes, faults, odd>>
      /\ \/ cmd' = NoCmd /\ UNCHANGED <<lease, fence>>
         \/ /\ fence < MaxFence /\ fence' = fence + 1 /\ lease' = fence + 1
            /\ cmd' = [cmd EXCEPT !.pc = "acquiring", !.k = fence + 1]
    BY DEF CmdAcquire, given
<1>2. /\ fence \in Nat /\ MaxFence \in Nat /\ fence <= MaxFence /\ tok \in 0 .. fence
      /\ lease \in {0, fence} /\ ids \in Nat
    BY GroundedTypes
<1>3. Grows(runs, runs') /\ RowsGrounded(exp', runs', ids') /\ ids <= ids'
    BY <1>1, GrowsSame, GroundedTypes DEF RowsGrounded
<1>4. LeaseGrounded' /\ fence <= fence' /\ fence' \in Nat
    BY <1>1, <1>2 DEF LeaseGrounded
<1>5. Later
    BY <1>3, <1>4 DEF Later
<1>6. cmd' \in CmdTypeOf(fence')
    <2>1. CASE cmd' = NoCmd
        BY <1>4, <2>1, NothingInFlight
    <2>2. CASE /\ fence' = fence + 1 /\ cmd' = [cmd EXCEPT !.pc = "acquiring", !.k = fence + 1]
        <3> DEFINE k == fence + 1
        <3>1. "acquiring" \in CmdPositions /\ k \in 0 .. k /\ 0 .. fence \subseteq 0 .. k
            BY <1>2 DEF CmdPositions
        <3>2. cmd \in CmdTypeOf(fence) /\ cmd' = [cmd EXCEPT !.pc = "acquiring", !.k = k]
            BY <2>2, GroundedTypes
        <3>. HIDE DEF k
        <3>3. cmd' \in CmdTypeOf(k)
            BY <3>1, <3>2 DEF CmdTypeOf
        <3>. QED
            BY <2>2, <3>3 DEF k
    <2>. QED
        BY <1>1, <2>1, <2>2
<1>. QED
    BY <1>1, <1>5, <1>6, Onward, CounterTypes, GroundedTypes

\* The first write of a command.
LEMMA CmdSyncIs ==
    ASSUME Grounded, NEW e \in Engine, NEW rev \in Nat, CmdSync(e, rev),
           UNCHANGED <<runs, ids, fence>>, lease' \in {0, lease}, tok' \in 0 .. fence
    PROVE  /\ Later /\ faults' \in 0 .. MaxFaults /\ eng' \in Engines /\ prev' \in Nat
           /\ cmd' \in CmdTypeOf(fence')
<1>1. /\ eng' = e /\ prev' = rev
      /\ \E res \in {0, rev + 1} :
            Sync(e, rev, res) /\ cmd' = [cmd EXCEPT !.pc = "syncing", !.res = res]
    BY DEF CmdSync
<1>2. PICK res \in {0, rev + 1} :
         Sync(e, rev, res) /\ cmd' = [cmd EXCEPT !.pc = "syncing", !.res = res]
    BY <1>1
<1>3. e \in Engines /\ e.status # "none"
    BY DEF Engines, Engine, ExpStatus, Terminal
<1>4. faults' \in 0 .. MaxFaults /\ res \in Nat /\ exp' \in ExpRow
    BY <1>2, <1>3, SyncIs
<1>5. Later
    BY <1>4, SyncLater
<1>6. "syncing" \in CmdPositions /\ cmd \in CmdTypeOf(fence')
    BY GroundedTypes DEF CmdPositions
<1>7. cmd' \in CmdTypeOf(fence')
    BY <1>2, <1>4, <1>6 DEF CmdTypeOf
<1>. QED
    BY <1>1, <1>3, <1>4, <1>5, <1>7

\* What a retry or an extension writes first.
LEMMA QueuedType ==
    ASSUME NEW x \in ExpRow, NEW plans, DOMAIN plans \subseteq Tasks,
           \A t \in DOMAIN plans : plans[t] \in Plan
    PROVE  Queued(EngineOf(x), plans) \in Engine
    BY QueuedIs

LEMMA DraftType ==
    /\ [NoExp EXCEPT !.status = "draft"] \in ExpRow
    /\ [NoExp EXCEPT !.status = "draft"].status = "draft"
    /\ [NoExp EXCEPT !.status = "draft"].rev = 0
    /\ [NoExp EXCEPT !.status = "draft"].att = NoExp.att
    /\ [NoExp EXCEPT !.status = "draft"].sel = NoExp.sel
    /\ DraftStarted(EngineOf([NoExp EXCEPT !.status = "draft"])) \in Engine
<1>1. NoExp \in ExpRow /\ "draft" \in ExpStatus /\ NoExp.rev = 0
    BY NoRowFields DEF ExpStatus
<1>2. DraftStarted(EngineOf([NoExp EXCEPT !.status = "draft"])) \in Engine
    BY DraftStartedIs
<1>. QED
    BY <1>1, <1>2 DEF ExpRow

LEMMA CmdAcquiredGrounded ==
    ASSUME Grounded, CmdAcquired
    PROVE  Grounded' /\ Later
<1>1. UNCHANGED <<runs, fence, ctrl, loop, abt, pse, rcv, ids, commands, resumes, odd>>
    BY DEF CmdAcquired, given
<1>2. cmd.k \in 0 .. fence /\ fence \in Nat /\ 0 \in 0 .. fence
    BY CmdFields, GroundedTypes
<1>3. CASE /\ lease' \in {0, lease} /\ tok' = 0 /\ cmd' = NoCmd /\ eng' \in {eng, NoEngine}
           /\ UNCHANGED <<exp, prev, owner, faults>>
    <2>1. Later
        BY <1>1, <1>2, <1>3, NothingWritten
    <2>2. cmd' \in CmdTypeOf(fence')
        BY <1>1, <1>2, <1>3, NothingInFlight
    <2>3. eng' \in Engines
        BY <1>3, NoRowFields, GroundedTypes
    <2>. QED
        BY <1>1, <1>3, <2>1, <2>2, <2>3, Onward, CounterTypes, GroundedTypes
<1>4. CASE /\ tok' = cmd.k /\ owner' = TRUE
           /\ \/ exp' = [NoExp EXCEPT !.status = "draft"] /\ UNCHANGED faults
                 /\ cmd' = [cmd EXCEPT !.pc = "creating", !.res = 1]
              \/ Fault /\ UNCHANGED exp /\ cmd' = [cmd EXCEPT !.pc = "creating", !.res = 0]
           /\ UNCHANGED <<lease, eng, prev>>
    <2>1. exp' \in ExpRow
        BY <1>4, DraftType, GroundedTypes
    <2>2. Later
        BY <1>1, <1>2, <1>4, <2>1, SyncLater
    <2>3. "creating" \in CmdPositions /\ cmd \in CmdTypeOf(fence')
        BY <1>1, GroundedTypes DEF CmdPositions
    <2>4. cmd' \in CmdTypeOf(fence')
        <3>1. \/ cmd' = [cmd EXCEPT !.pc = "creating", !.res = 1]
              \/ cmd' = [cmd EXCEPT !.pc = "creating", !.res = 0]
            BY <1>4
        <3>2. CASE cmd' = [cmd EXCEPT !.pc = "creating", !.res = 1]
            BY <2>3, <3>2 DEF CmdTypeOf
        <3>3. CASE cmd' = [cmd EXCEPT !.pc = "creating", !.res = 0]
            BY <2>3, <3>3 DEF CmdTypeOf
        <3>. QED
            BY <3>1, <3>2, <3>3
    <2>5. faults' \in 0 .. MaxFaults
        BY <1>4, FailsIs
    <2>. QED
        BY <1>1, <1>4, <2>2, <2>4, <2>5, Onward, CounterTypes, GroundedTypes
<1>5. CASE /\ tok' = cmd.k /\ owner' = TRUE /\ cmd' = [cmd EXCEPT !.pc = "planning"]
           /\ UNCHANGED <<exp, lease, eng, prev, faults>>
    <2>1. Later
        BY <1>1, <1>2, <1>5, NothingWritten
    <2>2. "planning" \in CmdPositions /\ cmd \in CmdTypeOf(fence')
        BY <1>1, GroundedTypes DEF CmdPositions
    <2>3. cmd' \in CmdTypeOf(fence')
        BY <1>5, <2>2 DEF CmdTypeOf
    <2>. QED
        BY <1>1, <1>5, <2>1, <2>3, Onward, CounterTypes, GroundedTypes
<1>6. CASE /\ tok' = cmd.k /\ owner' = TRUE /\ UNCHANGED lease
           /\ CmdSync(Queued(EngineOf(cmd.snap), RetryPlans(EngineOf(cmd.snap))), cmd.snap.rev)
    <2>1. cmd.snap \in ExpRow /\ cmd.snap.rev \in Nat
        BY CmdFields DEF ExpRow
    <2> DEFINE q == Queued(EngineOf(cmd.snap), RetryPlans(EngineOf(cmd.snap)))
    <2>2. q \in Engine
        BY <2>1, RetryPlansAre, QueuedType
    <2>3. CmdSync(q, cmd.snap.rev)
        BY <1>6
    <2>. HIDE DEF q
    <2>4. /\ Later /\ faults' \in 0 .. MaxFaults /\ eng' \in Engines /\ prev' \in Nat
          /\ cmd' \in CmdTypeOf(fence')
        BY <1>1, <1>2, <1>6, <2>1, <2>2, <2>3, CmdSyncIs
    <2>. QED
        BY <1>1, <1>6, <2>4, Onward, CounterTypes, GroundedTypes
<1>. QED
    BY <1>3, <1>4, <1>5, <1>6 DEF CmdAcquired

\* A command that fails lets go of everything.
LEMMA CmdFailsGrounded ==
    ASSUME Grounded, CmdFails, exp' \in ExpRow,
           UNCHANGED <<runs, fence, ctrl, loop, abt, pse, rcv, ids, commands, resumes, odd, faults>>
    PROVE  Grounded' /\ Later
<1>1. Release /\ eng' = NoEngine /\ cmd' = NoCmd /\ prev' = prev
    BY DEF CmdFails
<1>2. Later
    BY <1>1, ReleaseIs, SyncLater
<1>3. cmd' \in CmdTypeOf(fence') /\ eng' \in Engines
    BY <1>1, NothingInFlight, NoRowFields, GroundedTypes
<1>. QED
    BY <1>1, <1>2, <1>3, ReleaseIs, Onward, CounterTypes, GroundedTypes

LEMMA CmdSyncGrounded ==
    ASSUME Grounded, NEW e \in Engine, NEW rev \in Nat, CmdSync(e, rev),
           UNCHANGED <<runs, lease, fence, tok, owner, ctrl, loop, abt, pse, rcv, ids, commands,
                       resumes, odd>>
    PROVE  Grounded' /\ Later
<1>1. /\ Later /\ faults' \in 0 .. MaxFaults /\ eng' \in Engines /\ prev' \in Nat
      /\ cmd' \in CmdTypeOf(fence')
    BY CmdSyncIs, GroundedTypes
<1>. QED
    BY <1>1, Onward, CounterTypes, GroundedTypes

LEMMA CmdCreatedGrounded ==
    ASSUME Grounded, CmdCreated
    PROVE  Grounded' /\ Later
<1>1. UNCHANGED <<runs, fence, ctrl, loop, abt, pse, rcv, ids, commands, resumes, odd>>
    BY DEF CmdCreated, given
<1>2. CASE CmdFails /\ UNCHANGED <<exp, faults>>
    BY <1>1, <1>2, CmdFailsGrounded, GroundedTypes
<1>3. CASE /\ CmdSync(DraftStarted(EngineOf([NoExp EXCEPT !.status = "draft"])), 0)
           /\ UNCHANGED <<lease, tok, owner>>
    <2> DEFINE e == DraftStarted(EngineOf([NoExp EXCEPT !.status = "draft"]))
    <2>1. e \in Engine /\ CmdSync(e, 0)
        BY <1>3, DraftType
    <2>. HIDE DEF e
    <2>. QED
        BY <1>1, <1>3, <2>1, CmdSyncGrounded
<1>. QED
    BY <1>2, <1>3 DEF CmdCreated

LEMMA CmdPlannedGrounded ==
    ASSUME Grounded, CmdPlanned
    PROVE  Grounded' /\ Later
<1>1. UNCHANGED <<runs, fence, ctrl, loop, abt, pse, rcv, ids, commands, resumes, odd>>
    BY DEF CmdPlanned, given
<1>2. CASE CmdFails /\ UNCHANGED <<exp, faults>>
    BY <1>1, <1>2, CmdFailsGrounded, GroundedTypes
<1>3. ASSUME NEW plans \in Plans(EngineOf(cmd.snap)), UNCHANGED <<lease, tok, owner>>,
             CmdSync(Queued(EngineOf(cmd.snap), plans), cmd.snap.rev)
      PROVE  Grounded' /\ Later
    <2> DEFINE q == Queued(EngineOf(cmd.snap), plans)
    <2>1. cmd.snap \in ExpRow /\ cmd.snap.rev \in Nat
        BY CmdFields DEF ExpRow
    <2>2. q \in Engine
        BY <2>1, PlansAre, QueuedType
    <2>3. CmdSync(q, cmd.snap.rev)
        BY <1>3
    <2>. HIDE DEF q
    <2>. QED
        BY <1>1, <1>3, <2>1, <2>2, <2>3, CmdSyncGrounded
<1>. QED
    BY <1>2, <1>3 DEF CmdPlanned

LEMMA CmdSyncedGrounded ==
    ASSUME Grounded, CmdSynced
    PROVE  Grounded' /\ Later
<1>1. UNCHANGED <<fence, ctrl, abt, pse, rcv, commands, resumes, odd>>
    BY DEF CmdSynced, given
<1>2. CASE /\ CmdFails /\ exp' = IF cmd.kind = "start" THEN NoExp ELSE exp
           /\ UNCHANGED <<runs, loop, ids, faults>>
    <2>1. exp' \in ExpRow
        BY <1>2, NoRowFields, GroundedTypes
    <2>. QED
        BY <1>1, <1>2, <2>1, CmdFailsGrounded
<1>3. ASSUME prev' = cmd.res, cmd' = NoCmd, NEW l \in Loops, NextTask(l, eng, cmd.res, cmd.k)
      PROVE  Grounded' /\ Later
    <2>1. LoopPart(l)
        BY <1>1, <1>3, NextTaskPart, CmdFields, GroundedTypes
    <2>2. prev' \in Nat
        BY <1>3, CmdFields
    <2>. QED
        BY <1>1, <1>3, <2>1, <2>2, LoopGoesOn, GroundedTypes
<1>. QED
    BY <1>2, <1>3 DEF CmdSynced

LEMMA CmdResumeGrounded ==
    ASSUME Grounded, CmdResume
    PROVE  Grounded' /\ Later
<1>1. /\ UNCHANGED <<exp, runs, lease, fence, eng, prev, tok, owner, ctrl, loop, abt, pse, rcv,
                     ids, commands, faults, odd>>
      /\ resumes < MaxResumes /\ resumes' = resumes + 1
    BY DEF CmdResume, durable
<1> DEFINE ok == IF tok # 0 /\ lease = tok THEN 1 ELSE 0
<1>2. cmd' = [NoCmd EXCEPT !.kind = "resume", !.pc = "verifying", !.k = tok, !.res = ok]
    BY DEF CmdResume
<1>3. Later
    BY <1>1, NothingWritten, GroundedTypes
<1>4. /\ fence \in Nat /\ NoCmd \in CmdTypeOf(fence) /\ "verifying" \in CmdPositions
      /\ tok \in 0 .. fence /\ ok \in Nat
    BY NothingInFlight, GroundedTypes DEF CmdPositions
<1>. HIDE DEF ok
<1>5. cmd' \in CmdTypeOf(fence')
    BY <1>1, <1>2, <1>4 DEF CmdTypeOf
<1>6. resumes' \in 0 .. MaxResumes
    BY <1>1, CounterTypes
<1>. QED
    BY <1>1, <1>3, <1>5, <1>6, Onward, CounterTypes, GroundedTypes

LEMMA CmdVerifiedGrounded ==
    ASSUME Grounded, CmdVerified
    PROVE  Grounded' /\ Later
<1>1. /\ UNCHANGED <<runs, lease, fence, prev, owner, ctrl, loop, abt, pse, rcv, ids, commands,
                     resumes, odd>>
      /\ tok' \in {tok, cmd.k}
    BY DEF CmdVerified, given
<1>2. tok' \in 0 .. fence
    BY <1>1, CmdFields, GroundedTypes
<1>3. CASE cmd' = NoCmd /\ UNCHANGED <<exp, eng, faults>>
    <2>1. Later
        BY <1>1, <1>2, <1>3, NothingWritten
    <2>2. cmd' \in CmdTypeOf(fence')
        BY <1>1, <1>3, NothingInFlight, GroundedTypes
    <2>. QED
        BY <1>1, <1>3, <2>1, <2>2, Onward, CounterTypes, GroundedTypes
<1>4. ASSUME eng.status = "paused", eng' = Resumed(eng), NEW res \in {0, prev + 1},
             Sync(Resumed(eng), prev, res),
             cmd' = [cmd EXCEPT !.pc = "resuming", !.res = res, !.pre = eng]
      PROVE  Grounded' /\ Later
    <2>1. eng \in Engines /\ prev \in Nat
        BY GroundedTypes
    <2>2. Resumed(eng) \in Engines /\ Resumed(eng).status # "none"
        BY <1>4, <2>1, ResumedIs DEF Engines
    <2>3. faults' \in 0 .. MaxFaults /\ res \in Nat /\ exp' \in ExpRow
        BY <1>4, <2>1, <2>2, SyncIs
    <2>4. Later
        BY <1>1, <1>2, <2>3, SyncLater
    <2>5. "resuming" \in CmdPositions /\ cmd \in CmdTypeOf(fence')
        BY <1>1, GroundedTypes DEF CmdPositions
    <2>6. cmd' \in CmdTypeOf(fence')
        BY <1>4, <2>1, <2>3, <2>5 DEF CmdTypeOf
    <2>. QED
        BY <1>1, <1>4, <2>2, <2>3, <2>4, <2>6, Onward, CounterTypes, GroundedTypes
<1>. QED
    BY <1>3, <1>4 DEF CmdVerified

LEMMA CmdResumedGrounded ==
    ASSUME Grounded, CmdResumed
    PROVE  Grounded' /\ Later
<1>1. UNCHANGED <<fence, ctrl, abt, pse, rcv, commands, resumes, odd>>
    BY DEF CmdResumed, given
<1> DEFINE ok == IF exp.status = "paused" THEN 1 ELSE 0
<1>2. CASE /\ eng' = cmd.pre /\ cmd' = [cmd EXCEPT !.pc = "checking", !.res = ok]
           /\ UNCHANGED <<exp, runs, lease, prev, tok, owner, loop, ids, faults>>
    <2>1. Later
        BY <1>1, <1>2, NothingWritten, GroundedTypes
    <2>2. "checking" \in CmdPositions /\ cmd \in CmdTypeOf(fence') /\ ok \in Nat
        BY <1>1, GroundedTypes DEF CmdPositions
    <2>3. cmd' = [cmd EXCEPT !.pc = "checking", !.res = ok] /\ eng' \in Engines
        BY <1>2, CmdFields
    <2>. HIDE DEF ok
    <2>4. cmd' \in CmdTypeOf(fence')
        BY <2>2, <2>3 DEF CmdTypeOf
    <2>. QED
        BY <1>1, <1>2, <2>1, <2>3, <2>4, Onward, CounterTypes, GroundedTypes
<1>3. ASSUME prev' = cmd.res, cmd' = NoCmd, NEW l \in Loops, NextTask(l, eng, cmd.res, cmd.k)
      PROVE  Grounded' /\ Later
    <2>1. LoopPart(l)
        BY <1>1, <1>3, NextTaskPart, CmdFields, GroundedTypes
    <2>2. prev' \in Nat
        BY <1>3, CmdFields
    <2>. QED
        BY <1>1, <1>3, <2>1, <2>2, LoopGoesOn, GroundedTypes
<1>. QED
    BY <1>2, <1>3 DEF CmdResumed

LEMMA CmdCheckedGrounded ==
    ASSUME Grounded, CmdChecked
    PROVE  Grounded' /\ Later
<1>1. /\ UNCHANGED <<exp, runs, fence, prev, ctrl, loop, abt, pse, rcv, ids, commands, resumes,
                     faults, odd>>
      /\ cmd' = NoCmd /\ eng' \in {eng, NoEngine} /\ owner' \in {owner, FALSE}
      /\ lease' \in {0, lease} /\ tok' \in {0, tok}
    BY DEF CmdChecked, given
<1>2. tok' \in 0 .. fence
    BY <1>1, GroundedTypes
<1>3. Later
    BY <1>1, <1>2, NothingWritten
<1>4. cmd' \in CmdTypeOf(fence') /\ eng' \in Engines /\ owner' \in BOOLEAN
    BY <1>1, NothingInFlight, NoRowFields, GroundedTypes
<1>. QED
    BY <1>1, <1>3, <1>4, Onward, CounterTypes, GroundedTypes
-----------------------------------------------------------------------------
(* Recovery, and what no one asked for.                                    *)

LEMMA RcvFields ==
    ASSUME Grounded
    PROVE  /\ rcv \in RcvTypeOf(fence) /\ rcv.k \in 0 .. fence /\ rcv.snap \in ExpRow
           /\ rcv.todo \in SUBSET Tasks /\ rcv.load \in SUBSET Run
           /\ rcv.pc = "reading" => \A row \in rcv.load : Copy(row, AttemptRead(rcv).run, runs)
    BY GroundedTypes DEF RcvGrounded, RcvTypeOf

LEMMA RcvNotReading ==
    ASSUME NEW r, NEW f, NEW rows, r \in RcvTypeOf(f), r.pc # "reading"
    PROVE  RcvGrounded(r, f, rows)
    BY DEF RcvGrounded

\* An attempt of the record, and with it the selection, is settled.
Settling(s, i, status) == [s EXCEPT ![i].status = status]

SnapSettled(x, t, atts) == [x EXCEPT !.att[t] = atts, !.sel[t] = Select(atts)]

RcvSettled(r, t, x) == [r EXCEPT !.pc = "tasks", !.todo = @ \ {t}, !.load = {}, !.snap = x]

LEMMA SettlingIs ==
    ASSUME NEW s \in Seq(Attempt), NEW i, NEW status \in OverStatus
    PROVE  Settling(s, i, status) \in Seq(Attempt)
<1> DEFINE a == [s[i] EXCEPT !.status = status]
<1>1. i \in DOMAIN s => a \in Attempt
    <2> SUFFICES ASSUME i \in DOMAIN s PROVE a \in Attempt
        OBVIOUS
    <2>1. s[i] \in Attempt /\ status \in AttemptStatus
        BY DEF OverStatus, Evidence, AttemptStatus, RunStatus
    <2>. QED
        BY <2>1 DEF Attempt
<1>2. Settling(s, i, status) = [s EXCEPT ![i] = a]
    BY DEF Settling
<1>. HIDE DEF a
<1>3. [s EXCEPT ![i] = a] \in Seq(Attempt)
    BY <1>1, SeqExcept
<1>. QED
    BY <1>2, <1>3

LEMMA SnapSettledIs ==
    ASSUME NEW x \in ExpRow, NEW t, NEW atts, t \in Tasks => atts \in Seq(Attempt)
    PROVE  /\ SnapSettled(x, t, atts) \in ExpRow
           /\ DOMAIN SnapSettled(x, t, atts).att = Tasks /\ DOMAIN SnapSettled(x, t, atts).sel = Tasks
           /\ \A u \in Tasks : /\ SnapSettled(x, t, atts).att[u] = IF u = t THEN atts ELSE x.att[u]
                              /\ SnapSettled(x, t, atts).sel[u] = IF u = t THEN Select(atts) ELSE x.sel[u]
           /\ SnapSettled(x, t, atts).rev = x.rev
           /\ SnapSettled(x, t, atts).status = x.status
<1> DEFINE n == Select(atts)
           att == [x.att EXCEPT ![t] = atts]
           sel == [x.sel EXCEPT ![t] = n]
<1>1. t \in Tasks => n \in Nat
    BY SelectType
<1>2. x.att \in [Tasks -> Seq(Attempt)] /\ x.sel \in [Tasks -> Nat]
    BY DEF ExpRow
<1>. HIDE DEF n
<1>3. att \in [Tasks -> Seq(Attempt)] /\ sel \in [Tasks -> Nat]
    BY <1>1, <1>2
<1>4. SnapSettled(x, t, atts) = [x EXCEPT !.att = att, !.sel = sel]
    BY DEF ExpRow, SnapSettled, n
<1>. HIDE DEF att, sel
<1>5. /\ SnapSettled(x, t, atts) \in ExpRow /\ SnapSettled(x, t, atts).att = att
      /\ SnapSettled(x, t, atts).sel = sel /\ SnapSettled(x, t, atts).rev = x.rev
      /\ SnapSettled(x, t, atts).status = x.status
    BY <1>3, <1>4 DEF ExpRow
<1>6. DOMAIN att = Tasks /\ DOMAIN sel = Tasks
    BY <1>3
<1>7. \A u \in Tasks : /\ att[u] = IF u = t THEN atts ELSE x.att[u]
                      /\ sel[u] = IF u = t THEN n ELSE x.sel[u]
    BY <1>2 DEF att, sel
<1>. QED
    BY <1>5, <1>6, <1>7 DEF n

LEMMA RcvSettledIs ==
    ASSUME NEW f, NEW r \in RcvTypeOf(f), NEW t, NEW x \in ExpRow
    PROVE  /\ RcvSettled(r, t, x) \in RcvTypeOf(f) /\ RcvSettled(r, t, x).pc = "tasks"
           /\ RcvSettled(r, t, x).snap = x /\ RcvSettled(r, t, x).k = r.k
<1> DEFINE todo == r.todo \ {t}
           none == {}
<1>1. todo \in SUBSET Tasks /\ none \in SUBSET Run
    BY DEF RcvTypeOf
<1>2. RcvSettled(r, t, x) = [r EXCEPT !.pc = "tasks", !.todo = todo, !.load = none, !.snap = x]
    BY DEF RcvSettled, RcvTypeOf
<1>. HIDE DEF todo, none
<1>. QED
    BY <1>1, <1>2 DEF RcvTypeOf

\* The record recovery is going to write.
RcvSnap(status) ==
    SnapSettled(rcv.snap, RcvTask,
                Settling(rcv.snap.att[RcvTask], FirstRunning(rcv.snap.att[RcvTask]), status))

LEMMA RcvBecomes ==
    ASSUME Grounded, NEW status \in OverStatus, RcvAttemptBecomes(status)
    PROVE  /\ RcvSnap(status) \in ExpRow /\ RcvSnap(status).rev = rcv.snap.rev
           /\ RcvSnap(status).status = rcv.snap.status
           /\ rcv' = RcvSettled(rcv, RcvTask, RcvSnap(status))
           /\ rcv' \in RcvTypeOf(fence) /\ rcv'.pc = "tasks"
           /\ rcv'.snap = RcvSnap(status)
<1> DEFINE t == RcvTask
           s == rcv.snap.att[t]
           atts == Settling(s, FirstRunning(s), status)
<1>1. rcv' = RcvSettled(rcv, t, SnapSettled(rcv.snap, t, atts))
    BY DEF RcvAttemptBecomes, RcvSettled, SnapSettled, Settling
<1>2. t \in Tasks => s \in Seq(Attempt)
    BY RcvFields DEF ExpRow
<1>3. RcvSnap(status) = SnapSettled(rcv.snap, t, atts)
    BY DEF RcvSnap
<1>. HIDE DEF t, s
<1>4. t \in Tasks => atts \in Seq(Attempt)
    BY <1>2, SettlingIs
<1>. HIDE DEF atts
<1>5. RcvSnap(status) \in ExpRow /\ RcvSnap(status).rev = rcv.snap.rev
         /\ RcvSnap(status).status = rcv.snap.status
    <2> DEFINE x == rcv.snap
    <2>1. x \in ExpRow /\ RcvSnap(status) = SnapSettled(x, t, atts)
        BY <1>3, RcvFields
    <2>. HIDE DEF x
    <2>2. /\ SnapSettled(x, t, atts) \in ExpRow /\ SnapSettled(x, t, atts).rev = x.rev
          /\ SnapSettled(x, t, atts).status = x.status
        BY <1>4, <2>1, SnapSettledIs
    <2>. QED
        BY <2>1, <2>2 DEF x
<1>6. rcv' = RcvSettled(rcv, t, RcvSnap(status))
    BY <1>1, <1>3
<1>7. rcv' \in RcvTypeOf(fence) /\ rcv'.pc = "tasks" /\ rcv'.snap = RcvSnap(status)
    BY <1>5, <1>6, RcvSettledIs, RcvFields
<1>. QED
    BY <1>5, <1>6, <1>7 DEF t

LEMMA RcvStartGrounded ==
    ASSUME Grounded, RcvStart
    PROVE  Grounded' /\ Later
<1> DEFINE k == fence + 1
<1>1. /\ UNCHANGED <<runs, eng, prev, tok, owner, ctrl, loop, cmd, abt, pse, ids, commands,
                     resumes, faults, odd>>
      /\ \/ exp' = NoExp /\ rcv' = [NoRcv EXCEPT !.pc = "ending", !.k = k]
         \/ /\ exp' = exp
            /\ \E todo \in SUBSET Tasks :
                  rcv' = [NoRcv EXCEPT !.pc = "tasks", !.k = k, !.snap = exp, !.todo = todo]
    BY DEF RcvStart, given
<1>2. /\ fence \in Nat /\ MaxFence \in Nat /\ fence <= MaxFence /\ tok \in 0 .. fence
      /\ ids \in Nat /\ fence < MaxFence /\ fence' = k /\ lease' = k
    BY GroundedTypes DEF RcvStart
<1>3. k \in Nat /\ k \in 0 .. k /\ k <= MaxFence /\ fence <= k /\ tok \in 0 .. k
    BY <1>2
<1>. HIDE DEF k
<1>4. exp' \in ExpRow /\ runs' = runs /\ ids' = ids /\ tok' = tok
    BY <1>1, NoRowFields, GroundedTypes
<1>5. Grows(runs, runs') /\ RowsGrounded(exp', runs', ids') /\ ids <= ids'
    <2>1. Grows(runs, runs)
        BY GrowsSame, GroundedTypes
    <2>. QED
        BY <1>2, <1>4, <2>1, GroundedTypes DEF RowsGrounded
<1>6. LeaseGrounded' /\ fence <= fence'
    BY <1>2, <1>3, <1>4 DEF LeaseGrounded
<1>7. Later
    BY <1>5, <1>6 DEF Later
<1>8. NoRcv \in RcvTypeOf(k)
    BY <1>3, NothingInFlight DEF RcvGrounded
<1>9. rcv' \in RcvTypeOf(k) /\ rcv'.pc # "reading"
    <2>1. CASE rcv' = [NoRcv EXCEPT !.pc = "ending", !.k = k]
        BY <1>3, <1>8, <2>1 DEF RcvTypeOf
    <2>2. ASSUME NEW todo \in SUBSET Tasks,
                 rcv' = [NoRcv EXCEPT !.pc = "tasks", !.k = k, !.snap = exp, !.todo = todo]
          PROVE  rcv' \in RcvTypeOf(k) /\ rcv'.pc # "reading"
        BY <1>3, <1>8, <2>2, GroundedTypes DEF RcvTypeOf
    <2>. QED
        BY <1>1, <2>1, <2>2
<1>10. RcvGrounded(rcv', fence', runs')
    BY <1>2, <1>9, RcvNotReading
<1>. QED
    BY <1>1, <1>7, <1>10, Onward, CounterTypes, GroundedTypes

ReadingRcv(load) == [rcv EXCEPT !.pc = "reading", !.load = load]

LEMMA RcvReadGrounded ==
    ASSUME Grounded, RcvRead
    PROVE  Grounded' /\ Later
<1> DEFINE a == AttemptRead(rcv)
           load == {runs[r] : r \in {a.run} \cap DOMAIN runs}
<1>1. /\ UNCHANGED <<exp, runs, lease, fence, eng, prev, tok, owner, ctrl, loop, cmd, abt, pse,
                     ids, commands, resumes, faults, odd>>
      /\ rcv' = ReadingRcv(load)
    BY DEF RcvRead, durable, given, ReadingRcv, AttemptRead, FirstTask, RcvAttempt, RcvTask
<1>2. load \in SUBSET Run /\ \A row \in load : Copy(row, a.run, runs)
    BY CopyOfNow, GroundedTypes
<1>3. rcv' \in RcvTypeOf(fence) /\ rcv'.load = load /\ rcv'.snap = rcv.snap /\ rcv'.todo = rcv.todo
    <2>. HIDE DEF load
    <2>. QED
        BY <1>1, <1>2, RcvFields DEF RcvTypeOf, ReadingRcv
<1>4. AttemptRead(rcv') = a
    BY <1>3 DEF AttemptRead
<1>. HIDE DEF a
<1>5. RcvGrounded(rcv', fence', runs')
    <2>. HIDE DEF load
    <2>. QED
        BY <1>1, <1>2, <1>3, <1>4 DEF RcvGrounded
<1>6. Later
    BY <1>1, NothingWritten, GroundedTypes
<1>. QED
    BY <1>1, <1>5, <1>6, Onward, CounterTypes, GroundedTypes

LEMMA RcvSettleGrounded ==
    ASSUME Grounded, RcvSettle
    PROVE  Grounded' /\ Later
<1> DEFINE run == RcvAttempt.run
<1>1. /\ UNCHANGED <<exp, lease, fence, eng, prev, tok, owner, ctrl, loop, cmd, abt, pse,
                     ids, commands, resumes, odd>>
      /\ rcv.pc = "reading"
    BY DEF RcvSettle, given
<1>2. \/ \E status \in OverStatus : RcvAttemptBecomes(status) /\ UNCHANGED <<runs, faults>>
      \/ \E row \in rcv.load :
            /\ row.status = "running" /\ runs[run].rev = row.rev
            /\ runs' = [runs EXCEPT ![run] = Rewritten(@, "interrupted")]
            /\ RcvAttemptBecomes("interrupted") /\ UNCHANGED faults
      \/ \E possible : Fails(possible) /\ rcv' = [rcv EXCEPT !.pc = "ending"] /\ UNCHANGED runs
    <2>1. "interrupted" \in OverStatus
        BY DEF OverStatus
    <2>. QED
        BY <2>1 DEF RcvSettle
<1>3. ASSUME NEW status \in OverStatus, RcvAttemptBecomes(status), UNCHANGED <<runs, faults>>
      PROVE  Grounded' /\ Later
    <2>1. Later
        BY <1>1, <1>3, NothingWritten, GroundedTypes
    <2>2. RcvGrounded(rcv', fence', runs')
        BY <1>1, <1>3, RcvBecomes, RcvNotReading
    <2>. QED
        BY <1>1, <1>3, <2>1, <2>2, Onward, CounterTypes, GroundedTypes
<1>4. ASSUME NEW row \in rcv.load, row.status = "running", runs[run].rev = row.rev,
             runs' = [runs EXCEPT ![run] = Rewritten(@, "interrupted")],
             RcvAttemptBecomes("interrupted"), UNCHANGED faults
      PROVE  Grounded' /\ Later
    <2> DEFINE x == Rewritten(runs[run], "interrupted")
    <2>1. run = AttemptRead(rcv).run
        BY DEF AttemptRead, FirstTask, RcvAttempt, RcvTask
    <2>. HIDE DEF run
    <2>2. run \in DOMAIN runs /\ row = runs[run] /\ row \in Run
        BY <1>1, <1>4, <2>1, RcvFields DEF Copy
    <2>3. "interrupted" \in RunStatus /\ "interrupted" \in OverStatus /\ "running" \notin OverStatus
        BY DEF RunStatus, OverStatus, Evidence
    <2>4. x \in Run /\ x.rev = runs[run].rev + 1
        BY <2>2, <2>3, RewrittenIs
    <2>5. runs' = [runs EXCEPT ![run] = x]
        BY <1>4
    <2>. HIDE DEF x
    <2>6. /\ x.rev = runs[run].rev + 1 /\ runs[run].status \notin OverStatus
          /\ UNCHANGED <<exp, ids, fence, lease, tok>>
        BY <1>1, <1>4, <2>2, <2>3, <2>4
    <2>7. Later
        BY ONLY Grounded, <2>4, <2>5, <2>6, RunWritten
    <2>8. RcvGrounded(rcv', fence', runs')
        BY <1>1, <1>4, <2>3, RcvBecomes, RcvNotReading
    <2>. QED
        BY <1>1, <1>4, <2>7, <2>8, Onward, CounterTypes, GroundedTypes
<1>5. ASSUME NEW possible, Fails(possible), rcv' = [rcv EXCEPT !.pc = "ending"], UNCHANGED runs
      PROVE  Grounded' /\ Later
    <2>1. Later /\ faults' \in 0 .. MaxFaults
        BY <1>1, <1>5, NothingWritten, FailsIs, GroundedTypes
    <2>2. rcv' \in RcvTypeOf(fence) /\ rcv'.pc = "ending"
        BY <1>5, RcvFields DEF RcvTypeOf
    <2>3. RcvGrounded(rcv', fence', runs')
        BY <1>1, <2>2, RcvNotReading
    <2>. QED
        BY <1>1, <1>5, <2>1, <2>3, Onward, CounterTypes, GroundedTypes
<1>. QED
    BY <1>2, <1>3, <1>4, <1>5

RcvRecord == [rcv.snap EXCEPT !.status = "interrupted"]

LEMMA RcvRecordIs ==
    ASSUME Grounded, NEW rev \in Nat
    PROVE  /\ Record(RcvRecord, rev) \in ExpRow /\ Record(RcvRecord, rev).rev = rev
           /\ Record(RcvRecord, rev).att = rcv.snap.att /\ Record(RcvRecord, rev).sel = rcv.snap.sel
           /\ Record(RcvRecord, rev).status = "interrupted"
<1> DEFINE x == RcvRecord
<1>1. /\ x \in ExpRow /\ x.att = rcv.snap.att /\ x.sel = rcv.snap.sel
      /\ x.status = "interrupted"
    BY RcvFields DEF RcvRecord, ExpRow, ExpStatus, Terminal
<1>. HIDE DEF x
<1>. QED
    BY <1>1 DEF Record, ExpRow, x

LEMMA RcvWriteGrounded ==
    ASSUME Grounded, RcvWrite
    PROVE  Grounded' /\ Later
<1>1. /\ UNCHANGED <<runs, lease, fence, eng, prev, tok, owner, ctrl, loop, cmd, abt, pse,
                     ids, commands, resumes, odd>>
      /\ rcv' = [rcv EXCEPT !.pc = "ending"]
      /\ \E res : Sync(RcvRecord, rcv.snap.rev, res)
    BY DEF RcvWrite, given, RcvRecord
<1>2. exp' \in {exp, Record(RcvRecord, rcv.snap.rev + 1)}
         /\ (UNCHANGED faults \/ \E possible : Fails(possible))
    BY <1>1 DEF Sync
<1>3. rcv.snap.rev \in Nat
    BY RcvFields DEF ExpRow
<1>4. exp' \in ExpRow
    BY <1>2, <1>3, RcvRecordIs, GroundedTypes
<1>5. faults' \in 0 .. MaxFaults
    BY <1>2, FailsIs
<1>6. Later
    BY <1>1, <1>4, SyncLater, GroundedTypes
<1>7. rcv' \in RcvTypeOf(fence) /\ rcv'.pc = "ending"
    BY <1>1, RcvFields DEF RcvTypeOf
<1>8. RcvGrounded(rcv', fence', runs')
    BY <1>1, <1>7, RcvNotReading
<1>. QED
    BY <1>1, <1>5, <1>6, <1>8, Onward, CounterTypes, GroundedTypes

LEMMA RcvEndGrounded ==
    ASSUME Grounded, RcvEnd
    PROVE  Grounded' /\ Later
<1>1. /\ UNCHANGED <<exp, runs, fence, eng, prev, tok, owner, ctrl, loop, cmd, abt, pse,
                     ids, commands, resumes, faults, odd>>
      /\ rcv' = NoRcv /\ lease' \in {0, lease}
    BY DEF RcvEnd, given
<1>2. Later
    BY <1>1, NothingWritten, GroundedTypes
<1>3. RcvGrounded(rcv', fence', runs')
    BY <1>1, NothingInFlight, GroundedTypes
<1>. QED
    BY <1>1, <1>2, <1>3, Onward, CounterTypes, GroundedTypes

LEMMA LeaseExpiresGrounded ==
    ASSUME Grounded, LeaseExpires
    PROVE  Grounded' /\ Later
<1>1. /\ UNCHANGED <<exp, runs, fence, eng, prev, tok, owner, ctrl, loop, cmd, abt, pse, rcv,
                     ids, commands, resumes, faults>>
      /\ lease' = 0 /\ odd' \in {"lost", odd}
    BY DEF LeaseExpires, given
<1>2. Later
    BY <1>1, NothingWritten, GroundedTypes
<1>3. odd' \in {"none", "hasty", "lost"}
    BY <1>1, CounterTypes
<1>. QED
    BY <1>1, <1>2, <1>3, Onward, CounterTypes, GroundedTypes

LEMMA CloseGrounded ==
    ASSUME Grounded, Close
    PROVE  Grounded' /\ Later
<1>1. /\ UNCHANGED <<exp, runs, lease, fence, rcv, ids, commands, resumes, faults>>
      /\ odd' = "lost" /\ eng' = NoEngine /\ prev' = 0 /\ tok' = 0 /\ owner' = FALSE
      /\ ctrl' = 0 /\ loop' = [l \in Loops |-> NoLoop] /\ cmd' = NoCmd /\ abt' = NoAbt
      /\ pse' = {}
    BY DEF Close, durable, given
<1>2. ids \in Nat /\ fence \in Nat /\ 0 \in 0 .. fence /\ 0 \in Nat
    BY GroundedTypes
<1>3. Later
    BY <1>1, <1>2, NothingWritten
<1>4. AbtGrounded(abt', ids', runs') /\ cmd' \in CmdTypeOf(fence')
    BY <1>1, <1>2, NothingInFlight
<1>5. /\ loop' = [l \in Loops |-> loop'[l]]
      /\ \A l \in Loops : LoopGrounded(loop'[l], ids', fence', runs')
    <2>1. \A l \in Loops : loop'[l] = NoLoop
        BY <1>1
    <2>2. LoopGrounded(NoLoop, ids', fence', runs')
        BY <1>1, <1>2, NoLoopIs
    <2>. QED
        BY <1>1, <2>1, <2>2
<1>6. owner' \in BOOLEAN
    BY <1>1
<1>. QED
    BY <1>1, <1>2, <1>3, <1>4, <1>5, <1>6, NoRowFields, Onward, CounterTypes

LEMMA UserAbortsGrounded ==
    ASSUME Grounded, UserAborts
    PROVE  Grounded' /\ Later
<1>1. AbortStarts /\ Hasty({})
    BY DEF UserAborts
<1>2. ids' = ids
    BY <1>1 DEF AbortStarts
<1>3. odd' \in {"none", "hasty", "lost"}
    BY <1>1, HastyIs
<1>. QED
    BY <1>1, <1>2, <1>3, AbortStartsGrounded

LEMMA LeaseNoticedGrounded ==
    ASSUME Grounded, LeaseNoticed
    PROVE  Grounded' /\ Later
<1>1. AbortStarts /\ odd' = odd
    BY DEF LeaseNoticed
<1>2. ids' = ids
    BY <1>1 DEF AbortStarts
<1>3. odd' \in {"none", "hasty", "lost"}
    BY <1>1, CounterTypes
<1>. QED
    BY <1>1, <1>2, <1>3, AbortStartsGrounded

LEMMA NothingMovesGrounded ==
    ASSUME Grounded, UNCHANGED vars
    PROVE  Grounded' /\ Later
<1>1. /\ UNCHANGED <<exp, runs, lease, fence, eng, prev, tok, owner, ctrl, loop>>
      /\ UNCHANGED <<cmd, abt, pse, rcv, ids, commands, resumes, faults, odd>>
    BY DEF vars
<1>2. Later
    BY <1>1, NothingWritten, GroundedTypes
<1>. QED
    BY <1>1, <1>2, Onward, CounterTypes, GroundedTypes
-----------------------------------------------------------------------------
(* All together.                                                           *)

LEMMA InitGrounded ==
    ASSUME Init
    PROVE  Grounded
<1>1. /\ exp = NoExp /\ runs = [r \in {} |-> 0] /\ lease = 0 /\ fence = 0
      /\ eng = NoEngine /\ prev = 0 /\ tok = 0 /\ owner = FALSE /\ ctrl = 0
      /\ loop = [l \in Loops |-> NoLoop] /\ cmd = NoCmd /\ abt = NoAbt /\ pse = {}
      /\ rcv = NoRcv /\ ids = 0 /\ commands = 0 /\ resumes = 0 /\ faults = 0 /\ odd = "none"
    BY DEF Init
<1>2. RowsGrounded(exp, runs, ids)
    BY <1>1, NoRowFields DEF RowsGrounded
<1>3. LeaseGrounded
    BY <1>1, ExperimentAssumption DEF LeaseGrounded
<1>4. owner \in BOOLEAN
    BY <1>1
<1>5. TabGrounded
    BY <1>1, <1>4, NoRowFields DEF TabGrounded
<1>6. Counted
    BY <1>1, ExperimentAssumption DEF Counted
<1>7. /\ AbtGrounded(abt, ids, runs) /\ cmd \in CmdTypeOf(fence) /\ RcvGrounded(rcv, fence, runs)
    BY <1>1, NothingInFlight
<1>8. LoopsGrounded
    <2>1. \A l \in Loops : loop[l] = NoLoop
        BY <1>1
    <2>2. LoopGrounded(NoLoop, ids, fence, runs)
        BY <1>1, NoLoopIs
    <2>. QED
        BY <1>1, <2>1, <2>2 DEF LoopsGrounded
<1>. QED
    BY <1>2, <1>3, <1>5, <1>6, <1>7, <1>8 DEF Grounded

LEMMA CmdStepGrounded ==
    ASSUME Grounded, CmdStep
    PROVE  Grounded' /\ Later
    BY CmdAcquireGrounded, CmdAcquiredGrounded, CmdCreatedGrounded, CmdPlannedGrounded,
       CmdSyncedGrounded, CmdVerifiedGrounded, CmdResumedGrounded, CmdCheckedGrounded
    DEF CmdStep

LEMMA UserGrounded ==
    ASSUME Grounded, User
    PROVE  Grounded' /\ Later
    BY UserAbortsGrounded, UserPausesGrounded, CmdResumeGrounded, CmdReadGrounded DEF User

LEMMA ControlGrounded ==
    ASSUME Grounded, Control
    PROVE  Grounded' /\ Later
    BY AbortReadGrounded, AbortFinalizedGrounded, AbortEndsGrounded, PauseEndsGrounded,
       LeaseNoticedGrounded
    DEF Control

LEMMA RecoveryGrounded ==
    ASSUME Grounded, Recovery
    PROVE  Grounded' /\ Later
    BY RcvStartGrounded, RcvReadGrounded, RcvSettleGrounded, RcvWriteGrounded, RcvEndGrounded
    DEF Recovery

LEMMA NextGrounded ==
    ASSUME Grounded, [Next]_vars
    PROVE  Grounded' /\ Later
    BY LoopStepGrounded, CmdStepGrounded, UserGrounded, ControlGrounded, RecoveryGrounded,
       LeaseExpiresGrounded, CloseGrounded, NothingMovesGrounded
    DEF Next

\* Only a command rushes, and what was rushed stays so.
LEMMA Rushes ==
    ASSUME [Next]_vars
    PROVE  UNCHANGED rushed \/ rushed' = (rushed \/ ~Quiet)
<1>1. ASSUME NEW l \in Loops, LoopStep(l) PROVE UNCHANGED rushed
    BY <1>1 DEF LoopStep, LoopBase, LoopBegun, LoopExecute, RunLoad, RunWrite, LoopExecuted,
                LoopCommit, LoopCommitted, LoopAdvance, LoopFailing, LoopFinalized, LoopFailed,
                elsewhere, given
<1>2. CASE CmdStep
    BY <1>2 DEF CmdStep, CmdAcquire, CmdAcquired, CmdCreated, CmdPlanned, CmdSynced, CmdVerified,
                CmdResumed, CmdChecked, given
<1>3. CASE Control \/ UserAborts \/ UserPauses
    BY <1>3 DEF Control, UserAborts, UserPauses, AbortStarts, AbortRead, AbortFinalized, AbortEnds,
                PauseEnds, LeaseNoticed, given
<1>4. CASE CmdResume \/ \E kind \in {"start", "retry", "plan"} : CmdRead(kind)
    BY <1>4 DEF CmdResume, CmdRead
<1>5. CASE Recovery
    BY <1>5 DEF Recovery, RcvStart, RcvRead, RcvSettle, RcvWrite, RcvEnd, given
<1>6. CASE LeaseExpires \/ Close \/ UNCHANGED vars
    BY <1>6 DEF LeaseExpires, Close, given, vars
<1>. QED
    BY <1>1, <1>2, <1>3, <1>4, <1>5, <1>6 DEF Next, User

LEMMA RushedStays ==
    ASSUME [Next]_vars
    PROVE  ~rushed' => ~rushed
    BY Rushes, Zenon

LEMMA RushedTyped ==
    ASSUME [Next]_vars, rushed \in BOOLEAN
    PROVE  rushed' \in BOOLEAN
<1>1. (rushed \/ ~Quiet) \in BOOLEAN
    OBVIOUS
<1>. QED
    BY <1>1, Rushes, Zenon

LEMMA GroundedIsTyped ==
    ASSUME Grounded, rushed \in BOOLEAN
    PROVE  ExperimentTypeOK
<1>1. \A l \in Loops : loop[l] \in LoopType
    BY GroundedTypes DEF LoopGrounded, LoopTypeOf, LoopType
<1>2. loop \in [Loops -> LoopType]
    BY <1>1, GroundedTypes
<1>3. cmd \in CmdType
    BY GroundedTypes DEF CmdTypeOf, CmdType
<1>4. abt \in AbtType
    BY AbtFields DEF AbtTypeOf, AbtType
<1>5. rcv \in RcvType
    BY RcvFields DEF RcvTypeOf, RcvType
<1>6. fence \in 0 .. MaxFence
    BY GroundedTypes
<1>. QED
    BY <1>2, <1>3, <1>4, <1>5, <1>6, GroundedTypes, CounterTypes DEF ExperimentTypeOK

\* Whatever the loops, the commands, an abort, a pause, a recovery and the
\* faults of the storage do in whatever order, the rows, the engine and all
\* that is in flight (experiment-controller.ts, experiment-unit-of-work.ts)
\* stay what the code works with: a run that is to be committed exists, a row
\* that was read is a row of today or of before, coverage counts models of
\* the roster, and no token is newer than the fence.
THEOREM ExperimentTypes == Spec => []ExperimentTypeOK
<1> DEFINE Inv == Grounded /\ rushed \in BOOLEAN
<1>1. Init => Inv
    BY InitGrounded DEF Init
<1>2. Inv /\ [Next]_vars => Inv'
    BY NextGrounded, RushedTyped
<1>3. Inv => ExperimentTypeOK
    BY GroundedIsTyped
<1>. QED
    BY <1>1, <1>2, <1>3, PTL DEF Spec
-----------------------------------------------------------------------------
(* The evidence a step leaves behind.                                      *)

LEMMA EmptyIsGood ==
    ASSUME NEW rows, NEW n
    PROVE  /\ Good(NoExp, rows, n) /\ Good(NoEngine, rows, n)
           /\ NoEngine.status # "draft"
    BY NothingIsGood, NoRowFields

LEMMA GoodSame ==
    ASSUME NEW x, NEW y, NEW rows, NEW n, y.att = x.att, y.sel = x.sel, Good(x, rows, n)
    PROVE  Good(y, rows, n)
    BY DEF Good, Sound, OneEach, Issued

LEMMA RowAttempts ==
    ASSUME NEW x \in ExpRow
    PROVE  Attempts(x) /\ x.status \in ExpStatus \cup {"none"} /\ x.rev \in Nat
    BY DEF ExpRow, Attempts

LEMMA GoodLater ==
    ASSUME Grounded, Later, NEW x, Attempts(x), Good(x, runs, ids)
    PROVE  Good(x, runs', ids')
<1>1. ids \in Nat /\ ids' \in Nat /\ ids <= ids' /\ Grows(runs, runs')
    BY GroundedTypes DEF Later, RowsGrounded
<1>. QED
    BY <1>1, GoodStays

\* What was good stays good while the runs move on.
LEMMA AllGoodLater ==
    ASSUME Grounded, Later, Trusted
    PROVE  /\ Good(exp, runs', ids') /\ Good(eng, runs', ids')
           /\ Good(cmd.snap, runs', ids') /\ Good(cmd.pre, runs', ids')
           /\ Good(rcv.snap, runs', ids')
           /\ \A l \in Loops : Good(loop[l].pre, runs', ids')
<1>1. /\ Attempts(exp) /\ Attempts(eng) /\ Attempts(cmd.snap) /\ Attempts(cmd.pre)
      /\ Attempts(rcv.snap)
    BY GroundedTypes, CmdFields, RcvFields, RowAttempts, EngineFields
<1>2. \A l \in Loops : Attempts(loop[l].pre)
    BY LoopFields, EngineFields
<1>3. AllGood
    BY DEF Trusted
<1>4. /\ Good(exp, runs', ids') /\ Good(eng, runs', ids')
      /\ Good(cmd.snap, runs', ids') /\ Good(cmd.pre, runs', ids') /\ Good(rcv.snap, runs', ids')
    BY <1>1, <1>3, GoodLater DEF AllGood
<1>5. \A l \in Loops : Good(loop[l].pre, runs', ids')
    BY <1>2, <1>3, GoodLater DEF AllGood
<1>. QED
    BY <1>4, <1>5

\* A run that is over gives its status to the attempt that is linked to it.
LEMMA CommittedGood ==
    ASSUME NEW e \in Engine, NEW t \in Tasks, NEW i, NEW status \in RunStatus,
           NEW cov \in 0 .. 2, NEW plan \in Plan, NEW rows, NEW n, NEW run,
           Good(e, rows, n), i \in DOMAIN e.att[t] => e.att[t][i].run = run,
           status \in Evidence => run \in DOMAIN rows /\ rows[run].status = status
    PROVE  /\ Good(TaskCommitted(e, t, i, status, cov, plan), rows, n)
           /\ e.status # "draft" => TaskCommitted(e, t, i, status, cov, plan).status # "draft"
<1> DEFINE c == TaskCommitted(e, t, i, status, cov, plan)
           a == Finalized(e.att[t][i], status, cov, plan)
           atts == Over(e.att[t], i, status, cov, plan)
<1>1. /\ c.att = [e.att EXCEPT ![t] = atts] /\ c.sel = [e.sel EXCEPT ![t] = Select(atts)]
      /\ c.status \in {e.status, "completed", "completed_with_failures", "paused"}
    BY TaskCommittedIs
<1>2. atts = [e.att[t] EXCEPT ![i] = a]
    BY DEF Over
<1>3. e \in Engines /\ Attempts(e)
    BY EngineFields DEF Engines
<1>4. i \in DOMAIN e.att[t] => e.att[t][i] \in Attempt
    BY <1>3 DEF Attempts
<1>5. i \in DOMAIN e.att[t] => a \in Attempt /\ a.run = run /\ a.status = status
    BY <1>4, FinalizedIs
<1>. HIDE DEF c, a
<1>6. TakesStatus(e, c, t, i, a)
    BY <1>1, <1>2 DEF TakesStatus
<1>. HIDE DEF atts
<1>7. Good(c, rows, n)
    BY <1>3, <1>5, <1>6, GoodUpdated
<1>. QED
    BY <1>1, <1>7 DEF c

\* The same in the row.
LEMMA CommitWinsGood ==
    ASSUME Grounded, Later, NEW t \in Tasks, NEW i, NEW run \in DOMAIN runs, NEW row \in Run,
           NEW rev, NEW cov \in 0 .. 2, NEW plan \in Plan, NEW res,
           CommitWins(t, i, run, row, rev, cov, plan, res), Good(exp, runs', ids'),
           i \in DOMAIN exp.att[t] => exp.att[t][i].run = run,
           row.status \in Evidence => runs'[run].status = row.status
    PROVE  Good(exp', runs', ids') /\ SameLinks(exp'.att, exp.att)
<1> DEFINE a == Finalized(exp.att[t][i], row.status, cov, plan)
           atts == Over(exp.att[t], i, row.status, cov, plan)
<1>1. /\ exp'.att = [exp.att EXCEPT ![t] = atts] /\ exp'.sel = [exp.sel EXCEPT ![t] = Select(atts)]
      /\ DOMAIN runs' = DOMAIN runs
    BY DEF CommitWins
<1>2. atts = [exp.att[t] EXCEPT ![i] = a]
    BY DEF Over
<1>3. Attempts(exp) /\ row.status \in RunStatus
    BY GroundedTypes, RowAttempts DEF Run
<1>4. i \in DOMAIN exp.att[t] => exp.att[t][i] \in Attempt
    BY <1>3 DEF Attempts
<1>5. i \in DOMAIN exp.att[t] => a \in Attempt /\ a.run = run /\ a.status = row.status
    BY <1>3, <1>4, FinalizedIs
<1>. HIDE DEF a
<1>6. TakesStatus(exp, exp', t, i, a)
    BY <1>1, <1>2 DEF TakesStatus
<1>. HIDE DEF atts
<1>. QED
    BY <1>1, <1>3, <1>5, <1>6, GoodUpdated

\* A new run is linked to the attempt it is begun for, in the engine
LEMMA BegunGood ==
    ASSUME NEW e \in Engines, NEW t \in Tasks, NEW i \in Nat, NEW rows, NEW n \in Nat,
           NEW new, MayBegin(e, t, i), Attempts(e), Good(e, rows, n),
           DOMAIN rows \subseteq 1 .. n, Grows(rows, new)
    PROVE  LET f == TaskBegun(e, t, i, n + 1)
           IN  /\ Good(f, new, n + 1) /\ f.status # "draft"
               /\ i \in DOMAIN e.att[t] \cup {Len(e.att[t]) + 1} =>
                     i \in DOMAIN f.att[t] /\ f.att[t][i].run = n + 1
<1> DEFINE a == NewAttempt(n + 1, "running", "none")
           f == TaskBegun(e, t, i, n + 1)
<1>1. TakesRun(e, f, t, i, a) /\ f.status = "running" /\ f \in Engine
    BY TaskBegunIs
<1>2. a \in Attempt /\ a.run = n + 1 /\ a.status = "running"
    BY DEF NewAttempt, Attempt, AttemptStatus, RunStatus, Plan
<1>3. i \in DOMAIN e.att[t] => e.att[t][i].run = 0
    BY DEF MayBegin
<1>. HIDE DEF a, f
<1>4. Attempts(f) /\ Good(f, rows, n + 1) /\ Placed(e, f, t, i, a)
    BY <1>1, <1>2, <1>3, GoodBegun
<1>5. Good(f, new, n + 1)
    BY <1>4, GoodStays
<1>. QED
    BY <1>1, <1>2, <1>4, <1>5 DEF f, Placed

\* and in the row.
LEMMA BeginWinsGood ==
    ASSUME Grounded, Later, NEW t \in Tasks, NEW i \in Nat, NEW plan, NEW rev, NEW res,
           BeginWins(t, i, ids + 1, plan, rev, res), Good(exp, runs, ids), ids' = ids + 1
    PROVE  /\ Good(exp', runs', ids')
           /\ i \in DOMAIN exp'.att[t] => exp'.att[t][i].run = ids + 1
<1> DEFINE a == NewAttempt(ids + 1, "running", "none")
<1>1. TakesRun(exp, exp', t, i, a) /\ (i \in DOMAIN exp.att[t] => exp.att[t][i].run = 0)
    BY DEF BeginWins, TakesRun
<1>2. /\ ids \in Nat /\ DOMAIN runs \subseteq 1 .. ids /\ Attempts(exp) /\ Grows(runs, runs')
    BY GroundedTypes, RowAttempts DEF Later
<1>3. a \in Attempt /\ a.run = ids + 1 /\ a.status = "running"
    BY <1>2 DEF NewAttempt, Attempt, AttemptStatus, RunStatus, Plan
<1>. HIDE DEF a
<1>4. Attempts(exp') /\ Good(exp', runs, ids + 1) /\ Placed(exp, exp', t, i, a)
    BY <1>1, <1>2, <1>3, GoodBegun
<1>5. Good(exp', runs', ids + 1)
    BY <1>2, <1>4, GoodStays
<1>. QED
    BY <1>3, <1>4, <1>5 DEF Placed
-----------------------------------------------------------------------------
(* The run loop leaves behind what can be trusted.                         *)

\* The row is as it was or has the next revision.
Moved ==
    \/ exp' = exp
    \/ exp'.rev = exp.rev + 1 /\ (exp'.status \in Unbegun => exp.status \in Unbegun)

LoopOutcome(l) ==
    /\ Later /\ Moved
    /\ Good(exp', runs', ids') /\ Good(eng', runs', ids') /\ eng'.status # "draft"
    /\ Good(loop'[l].pre, runs', ids') /\ loop'[l].pre.status # "draft"
    /\ LoopKnown(loop'[l], eng', exp')

LEMMA NotAtWork ==
    ASSUME NEW x, x.pc \notin AtWork, NEW e, NEW y
    PROVE  LoopKnown(x, e, y)
    BY DEF LoopKnown, AtWork, Begun

\* The attempts stay linked, in an engine that writes the row or does not.
LEMMA KnownStays ==
    ASSUME NEW x, NEW e, NEW y, NEW f, NEW z, LoopKnown(x, e, y), SameLinks(f.att, e.att),
           x.pc \in AtWork => x.task \in Tasks, z = y \/ SameLinks(z.att, f.att) \/ SameLinks(z.att, y.att)
    PROVE  LoopKnown(x, f, z)
<1>1. CASE x.pc \notin AtWork
    BY <1>1, NotAtWork
<1>2. CASE x.pc \in AtWork
    <2>1. x.task \in Tasks /\ x.at \in DOMAIN f.att[x.task]
        BY <1>2 DEF LoopKnown, SameLinks
    <2>2. x.pc \in AtWork \ {"base"} => f.att[x.task][x.at].run = x.run
        BY <1>2, <2>1 DEF LoopKnown, SameLinks
    <2>3. Begun(x) => x.pc \in AtWork \ {"base"}
        BY DEF Begun, AtWork
    <2>4. Begun(x) /\ x.at \in DOMAIN z.att[x.task] => z.att[x.task][x.at].run = x.run
        BY <2>1, <2>2, <2>3 DEF LoopKnown, SameLinks
    <2>. QED
        BY <2>1, <2>2, <2>4 DEF LoopKnown
<1>. QED
    BY <1>1, <1>2

LEMMA SameLinksSame ==
    \A a : SameLinks(a, a)
    BY DEF SameLinks

\* An engine that is good is written over a row that is good.
LEMMA SyncMoves ==
    ASSUME Grounded, NEW e \in Engines, e.status \notin Unbegun, NEW rev \in Nat, NEW res,
           Sync(e, rev, res), Good(e, runs', ids'), Good(exp, runs', ids')
    PROVE  /\ Good(exp', runs', ids') /\ Moved
           /\ exp' = exp \/ exp'.att = e.att
<1>1. \/ exp' = exp
      \/ /\ exp.rev = rev /\ exp'.rev = rev + 1 /\ exp'.att = e.att /\ exp'.sel = e.sel
         /\ exp'.status = e.status
    BY SyncIs DEF Unbegun
<1>2. Good(exp', runs', ids')
    BY <1>1, GoodSame
<1>. QED
    BY <1>1, <1>2 DEF Moved

LEMMA NoLoopOutcome ==
    ASSUME NEW l, Later, Moved, Good(exp', runs', ids'), Good(eng', runs', ids'),
           eng'.status # "draft", loop'[l].pre = NoEngine, loop'[l].pc \notin AtWork
    PROVE  LoopOutcome(l)
    BY EmptyIsGood, NotAtWork DEF LoopOutcome

LEMMA EndLoopOutcome ==
    ASSUME Grounded, Trusted, UNCHANGED fence, NEW l \in Loops, NEW e \in Engines,
           Good(e, runs, ids), e.status # "draft", EndLoop(l, e)
    PROVE  LoopOutcome(l)
<1>1. eng' = e /\ loop' = [loop EXCEPT ![l] = NoLoop] /\ UNCHANGED exp
    BY DEF EndLoop
<1>2. Later
    BY EndLoopPart DEF LoopPart
<1>3. loop'[l] = NoLoop
    BY <1>1, LoopMoves
<1>4. loop'[l].pre = NoEngine /\ loop'[l].pc \notin AtWork
    BY <1>3, NoLoopIs DEF AtWork
<1>5. Good(exp', runs', ids')
    BY <1>1, <1>2, AllGoodLater
<1>6. Good(eng', runs', ids')
    BY <1>1, <1>2, GoodLater, EngineFields
<1>7. Moved
    BY <1>1 DEF Moved
<1>. QED
    BY <1>1, <1>2, <1>4, <1>5, <1>6, <1>7, NoLoopOutcome

LEMMA AbortAfterFailureOutcome ==
    ASSUME Grounded, Trusted, UNCHANGED fence, NEW l \in Loops, NEW e \in Engines,
           Good(e, runs, ids), e.status # "draft", AbortAfterFailure(l, e)
    PROVE  LoopOutcome(l)
<1>1. CASE e.status = "none"
    BY <1>1, EndLoopOutcome DEF AbortAfterFailure
<1>2. CASE e.status # "none"
    <2>1. PICK res \in {0, prev + 1} :
             /\ Sync(Aborted(e), prev, res)
             /\ loop' = [loop EXCEPT ![l] = [NoLoop EXCEPT !.pc = "failed", !.res = res]]
        BY <1>2 DEF AbortAfterFailure
    <2>2. eng' = Aborted(e)
        BY <1>2 DEF AbortAfterFailure
    <2>3. Aborted(e) \in Engines /\ Aborted(e).status \notin Unbegun
        <3>1. Aborted(e) \in Engines /\ (e.status \in Terminal \cup {"none"} => Aborted(e) = e)
                /\ (e.status \notin Terminal \cup {"none"} => Aborted(e).status = "aborted")
            BY AbortedIs
        <3>. QED
            BY <1>2, <3>1 DEF Unbegun, Terminal
    <2>4. Later
        BY AbortAfterFailurePart DEF LoopPart
    <2>5. Good(Aborted(e), runs', ids')
        <3>1. Good(e, runs', ids')
            BY <2>4, GoodLater, EngineFields
        <3>. QED
            BY <3>1, AbortedIs
    <2>6. Good(exp, runs', ids') /\ prev \in Nat /\ res \in Nat
        BY <2>4, AllGoodLater, GroundedTypes
    <2>7. Good(exp', runs', ids') /\ Moved
        BY <2>1, <2>3, <2>5, <2>6, SyncMoves
    <2>8. loop' = [loop EXCEPT ![l] = FailedLoop(res)]
        BY <2>1 DEF FailedLoop
    <2>9. loop'[l] = FailedLoop(res)
        BY <2>8, LoopMoves
    <2>10. loop'[l].pre = NoEngine /\ loop'[l].pc \notin AtWork
        <3>1. loop'[l].pc = "failed" /\ loop'[l].pre = NoEngine
            BY <2>6, <2>9, FailedLoopIs, GroundedTypes
        <3>. QED
            BY <3>1 DEF AtWork
    <2>11. eng'.status # "draft"
        BY <2>2, <2>3 DEF Unbegun
    <2>. QED
        BY <2>2, <2>4, <2>5, <2>7, <2>10, <2>11, NoLoopOutcome
<1>. QED
    BY <1>1, <1>2

LEMMA ReadsActiveOutcome ==
    ASSUME Grounded, Trusted, UNCHANGED fence, NEW l \in Loops, NEW e \in Engines,
           Good(e, runs, ids), e.status # "draft", ReadsActive(l, e)
    PROVE  LoopOutcome(l)
<1>1. PICK run \in ActiveRun(e) :
         loop' = [loop EXCEPT ![l] = FailingLoop(run, {runs[run]})]
    BY DEF ReadsActive, FailingLoop
<1>2. eng' = e /\ UNCHANGED <<exp, runs, ids>>
    BY DEF ReadsActive
<1>3. Later
    BY ReadsActivePart DEF LoopPart
<1>4. loop'[l] = FailingLoop(run, {runs[run]})
    BY <1>1, LoopMoves
<1>5. loop'[l].pre = NoEngine /\ loop'[l].pc \notin AtWork
    <2> DEFINE load == {runs[run]}
    <2>1. run \in DOMAIN runs
        BY DEF ActiveRun
    <2>2. run \in 0 .. ids /\ load \in SUBSET Run /\ ids \in Nat /\ fence \in Nat
        BY <2>1, GroundedTypes
    <2>3. loop'[l] = FailingLoop(run, load)
        BY <1>4
    <2>. HIDE DEF load
    <2>4. loop'[l].pre = NoEngine /\ loop'[l].pc = "failing"
        BY <2>2, <2>3, FailingLoopIs
    <2>. QED
        BY <2>4 DEF AtWork
<1>6. Good(exp', runs', ids')
    BY <1>2, <1>3, AllGoodLater
<1>7. Good(eng', runs', ids')
    BY <1>2, <1>3, GoodLater, EngineFields
<1>8. Moved
    BY <1>2 DEF Moved
<1>. QED
    BY <1>2, <1>3, <1>5, <1>6, <1>7, <1>8, NoLoopOutcome

LEMMA CatchOutcome ==
    ASSUME Grounded, Trusted, UNCHANGED fence, NEW l \in Loops, NEW e \in Engines,
           Good(e, runs, ids), e.status # "draft", Catch(l, e)
    PROVE  LoopOutcome(l)
    BY CatchIs, EndLoopOutcome, ReadsActiveOutcome, AbortAfterFailureOutcome

LEMMA StartsTaskOutcome ==
    ASSUME Grounded, Trusted, UNCHANGED fence, NEW l \in Loops, NEW e \in Engines, NEW p \in Nat,
           NEW k \in 0 .. fence, NEW t \in Tasks, NEW i \in Nat, NEW plan \in Plan,
           Good(e, runs, ids), i \in DOMAIN e.att[t] \cup {Len(e.att[t]) + 1},
           StartsTask(l, e, p, k, t, i, plan)
    PROVE  LoopOutcome(l)
<1>1. PICK res \in {0, p + 1} :
         /\ BeginTx(t, i, ids + 1, plan, k, p, res)
         /\ loop' = [loop EXCEPT ![l] = BeginningLoop(t, i, ids + 1, plan, k, res)]
    BY DEF StartsTask, BeginningLoop
<1>2. /\ MayBegin(e, t, i) /\ eng' = TaskBegun(e, t, i, ids + 1) /\ ids' = ids + 1
      /\ UNCHANGED <<lease, tok, owner>>
    BY DEF StartsTask
<1>3. /\ Later
      /\ \/ UNCHANGED <<exp, runs>> /\ res = 0
         \/ BeginWins(t, i, ids + 1, plan, p, res)
    BY <1>1, <1>2, BeginTxIs
<1>4. /\ ids \in Nat /\ DOMAIN runs \subseteq 1 .. ids /\ Grows(runs, runs') /\ Attempts(e)
    BY <1>3, GroundedTypes, EngineFields DEF Later
<1>5. /\ Good(eng', runs', ids') /\ eng'.status # "draft"
      /\ i \in DOMAIN eng'.att[t] /\ eng'.att[t][i].run = ids + 1
    BY <1>2, <1>4, BegunGood
<1>6. Good(exp, runs, ids) /\ Good(exp, runs', ids')
    BY <1>3, AllGoodLater DEF Trusted, AllGood
<1>7. /\ Good(exp', runs', ids') /\ Moved
      /\ res # 0 /\ i \in DOMAIN exp'.att[t] => exp'.att[t][i].run = ids + 1
    <2>1. CASE UNCHANGED <<exp, runs>> /\ res = 0
        BY <1>6, <2>1 DEF Moved
    <2>2. CASE BeginWins(t, i, ids + 1, plan, p, res)
        <3>1. Good(exp', runs', ids') /\ (i \in DOMAIN exp'.att[t] => exp'.att[t][i].run = ids + 1)
            BY <1>2, <1>3, <1>6, <2>2, BeginWinsGood
        <3>2. exp'.rev = exp.rev + 1 /\ exp'.status = exp.status
            BY <2>2 DEF BeginWins
        <3>. QED
            BY <3>1, <3>2 DEF Moved
    <2>. QED
        BY <1>3, <2>1, <2>2
<1> DEFINE x == BeginningLoop(t, i, ids + 1, plan, k, res)
<1>8. loop'[l] = x
    BY <1>1, LoopMoves
<1>9. /\ x.pc = "beginning" /\ x.task = t /\ x.at = i /\ x.run = ids + 1 /\ x.res = res
      /\ x.pre = NoEngine
    BY BeginningLoopFields
<1>. HIDE DEF x
<1>10. LoopKnown(x, eng', exp')
    BY <1>5, <1>7, <1>9 DEF LoopKnown, Begun
<1>. QED
    BY <1>3, <1>5, <1>7, <1>8, <1>9, <1>10, EmptyIsGood DEF LoopOutcome

LEMMA ReadsBaseOutcome ==
    ASSUME Grounded, Trusted, UNCHANGED fence, NEW l \in Loops, NEW e \in Engines,
           NEW k \in 0 .. fence, NEW t \in Tasks, NEW i \in Nat, Good(e, runs, ids),
           e.status # "draft", i \in DOMAIN e.att[t], ReadsBase(l, e, k, t, i)
    PROVE  LoopOutcome(l)
<1>1. PICK res \in {0, 1} : loop' = [loop EXCEPT ![l] = BaseLoop(t, i, k, res)]
    BY DEF ReadsBase, BaseLoop
<1>2. eng' = e /\ UNCHANGED <<exp, runs, ids>>
    BY DEF ReadsBase
<1>3. Later
    BY ReadsBasePart DEF LoopPart
<1> DEFINE x == BaseLoop(t, i, k, res)
<1>4. loop'[l] = x
    BY <1>1, LoopMoves
<1>5. x.pc = "base" /\ x.task = t /\ x.at = i /\ x.pre = NoEngine
    BY BaseLoopIs, GroundedTypes
<1>. HIDE DEF x
<1>6. LoopKnown(x, eng', exp')
    BY <1>2, <1>5 DEF LoopKnown, Begun
<1>7. Good(exp', runs', ids')
    BY <1>2, <1>3, AllGoodLater
<1>8. Good(eng', runs', ids')
    BY <1>2, <1>3, GoodLater, EngineFields
<1>9. Moved
    BY <1>2 DEF Moved
<1>. QED
    BY <1>2, <1>3, <1>4, <1>5, <1>6, <1>7, <1>8, <1>9, EmptyIsGood DEF LoopOutcome

LEMMA NextTaskOutcome ==
    ASSUME Grounded, Trusted, UNCHANGED fence, NEW l \in Loops, NEW e \in Engines, NEW p \in Nat,
           NEW k \in 0 .. fence, Good(e, runs, ids), e.status # "draft", NextTask(l, e, p, k)
    PROVE  LoopOutcome(l)
<1>1. CASE EndLoop(l, e)
    BY <1>1, EndLoopOutcome
<1>2. ASSUME NEW t \in Tasks, NEW i \in Nat, NEW plan \in Plan,
             i \in DOMAIN e.att[t] \/ i = Len(e.att[t]) + 1,
             \/ i \in DOMAIN e.att[t] /\ ReadsBase(l, e, k, t, i)
             \/ StartsTask(l, e, p, k, t, i, plan)
             \/ Catch(l, e)
      PROVE  LoopOutcome(l)
    <2>1. i \in DOMAIN e.att[t] \cup {Len(e.att[t]) + 1}
        BY <1>2
    <2>. QED
        BY <1>2, <2>1, ReadsBaseOutcome, StartsTaskOutcome, CatchOutcome
<1>. QED
    BY <1>1, <1>2, NextTaskIs
-----------------------------------------------------------------------------
(* The steps of the run loop.                                              *)

LEMMA RcvKnownStays ==
    ASSUME Grounded, Moved, rcv' = rcv, RcvKnown(rcv, exp)
    PROVE  RcvKnown(rcv', exp')
<1>1. rcv.snap.rev \in Nat /\ exp.rev \in Nat
    BY RcvFields, GroundedTypes DEF ExpRow
<1>2. CASE exp' = exp
    BY <1>2
<1>3. CASE exp'.rev = exp.rev + 1 /\ (exp'.status \in Unbegun => exp.status \in Unbegun)
    BY <1>1, <1>3 DEF RcvKnown
<1>. QED
    BY <1>2, <1>3 DEF Moved

LEMMA LoopTrusts ==
    ASSUME Grounded, Trusted, NEW l \in Loops, LoopOutcome(l),
           loop' = [loop EXCEPT ![l] = loop'[l]], \A m \in Loops : m # l => loop[m].pc = "off",
           cmd' = NoCmd, rcv' = rcv
    PROVE  Trusted'
<1>1. \A m \in Loops : m # l => loop'[m] = loop[m] /\ loop'[m].pc = "off"
    BY LoopMoves
<1>2. /\ Later /\ Moved
      /\ Good(exp', runs', ids') /\ Good(eng', runs', ids') /\ eng'.status # "draft"
      /\ Good(loop'[l].pre, runs', ids') /\ loop'[l].pre.status # "draft"
      /\ LoopKnown(loop'[l], eng', exp')
    BY DEF LoopOutcome
<1>3. cmd'.snap = NoExp /\ cmd'.pre = NoEngine /\ cmd'.kind = "none"
    BY NothingInFlight
<1>4. AllGood'
    <2>1. \A m \in Loops : Good(loop'[m].pre, runs', ids')
        BY <1>1, <1>2, AllGoodLater
    <2>2. Good(rcv'.snap, runs', ids')
        BY <1>2, AllGoodLater
    <2>. QED
        BY <1>2, <1>3, <2>1, <2>2, EmptyIsGood DEF AllGood
<1>5. Undrafted'
    BY <1>1, <1>2, <1>3, EmptyIsGood DEF Undrafted, Trusted
<1>6. Alone'
    BY <1>1 DEF Alone, Alive
<1>7. Starting'
    BY <1>3 DEF Starting, Preparing
<1>8. RcvKnown(rcv', exp')
    BY <1>2, RcvKnownStays DEF Trusted
<1>9. \A m \in Loops : LoopKnown(loop'[m], eng', exp')
    <2>1. \A m \in Loops : m # l => loop'[m].pc \notin AtWork
        BY <1>1 DEF AtWork
    <2>. QED
        BY <1>2, <2>1, NotAtWork
<1>. QED
    BY <1>4, <1>5, <1>6, <1>7, <1>8, <1>9 DEF Trusted

LEMMA EngIsGood ==
    ASSUME Grounded, Trusted
    PROVE  /\ eng \in Engines /\ Good(eng, runs, ids) /\ eng.status # "draft"
           /\ prev \in Nat
           /\ \A l \in Loops : /\ loop[l].pre \in Engines /\ Good(loop[l].pre, runs, ids)
                               /\ loop[l].pre.status # "draft"
    BY GroundedTypes, LoopFields DEF Trusted, AllGood, Undrafted

\* A loop that goes on with its attempt.
LEMMA LoopWaits ==
    ASSUME Grounded, Trusted, NEW l \in Loops, Later, UNCHANGED <<exp, eng>>, NEW x,
           loop' = [loop EXCEPT ![l] = x], x.pre = loop[l].pre,
           x.pc \in AtWork => /\ x.pc # "base" /\ loop[l].pc \in AtWork \ {"base"}
                              /\ x.task = loop[l].task /\ x.at = loop[l].at /\ x.run = loop[l].run,
           Begun(x) => Begun(loop[l])
    PROVE  LoopOutcome(l)
<1>1. loop'[l] = x
    BY LoopMoves
<1>2. Good(exp', runs', ids') /\ Good(eng', runs', ids') /\ Good(x.pre, runs', ids')
    BY AllGoodLater
<1>3. LoopKnown(x, eng', exp')
    <2>1. Begun(x) => x.pc \in AtWork
        BY DEF Begun, AtWork
    <2>. QED
        BY <2>1 DEF Trusted, LoopKnown
<1>4. x.pre.status # "draft" /\ eng'.status # "draft"
    BY EngIsGood
<1>. QED
    BY <1>1, <1>2, <1>3, <1>4 DEF LoopOutcome, Moved

\* The engine is written, and the loop goes on.
LEMMA LoopSyncOutcome ==
    ASSUME Grounded, Trusted, Later, UNCHANGED eng, NEW l \in Loops,
           NEW rev \in Nat, NEW res, SyncEngine(rev, res), NEW pc, LoopTo(l, pc, res),
           \/ pc = "begun" /\ loop[l].pc = "beginning" /\ loop[l].res # 0
           \/ pc = "committed" /\ loop[l].pc = "committing"
    PROVE  LoopOutcome(l)
<1> DEFINE x == [loop[l] EXCEPT !.pc = pc, !.res = res]
<1>1. loop' = [loop EXCEPT ![l] = x]
    BY DEF LoopTo
<1>2. loop'[l] = x
    BY <1>1, LoopMoves
<1>3. /\ x.pc = pc /\ x.task = loop[l].task /\ x.at = loop[l].at /\ x.run = loop[l].run
      /\ x.pre = loop[l].pre
    BY LoopFields DEF LoopTypeOf
<1>. HIDE DEF x
<1>4. Good(exp, runs', ids') /\ Good(eng', runs', ids') /\ Good(x.pre, runs', ids')
    BY <1>3, AllGoodLater
<1>5. \/ exp' = exp
      \/ /\ exp.rev = rev /\ exp'.rev = rev + 1 /\ exp'.att = eng.att /\ exp'.sel = eng.sel
         /\ exp'.status = eng.status /\ eng.status # "none"
    BY SyncEngineIs
<1>6. x.pre.status # "draft" /\ eng'.status # "draft"
    BY <1>3, EngIsGood
<1>7. Good(exp', runs', ids')
    BY <1>4, <1>5, GoodSame
<1>8. Moved
    BY <1>5, <1>6 DEF Moved, Unbegun
<1>9. LoopKnown(x, eng', exp')
    <2>1. CASE pc = "committed"
        BY <1>3, <2>1, NotAtWork DEF AtWork
    <2>2. CASE pc = "begun" /\ loop[l].pc = "beginning" /\ loop[l].res # 0
        <3>1. LoopKnown(loop[l], eng, exp)
            BY DEF Trusted
        <3>2. LoopKnown(x, eng, exp)
            BY <1>3, <2>2, <3>1 DEF LoopKnown, Begun, AtWork
        <3>3. x.task \in Tasks
            BY <1>3, <2>2, LoopFields DEF AtWork
        <3>4. exp' = exp \/ SameLinks(exp'.att, eng'.att)
            BY <1>5, SameLinksSame
        <3>. QED
            BY <3>2, <3>3, <3>4, KnownStays, SameLinksSame
    <2>. QED
        BY <2>1, <2>2
<1>. QED
    BY <1>2, <1>4, <1>6, <1>7, <1>8, <1>9 DEF LoopOutcome

LEMMA LoopBaseOutcome ==
    ASSUME Grounded, Trusted, NEW l \in Loops, LoopBase(l)
    PROVE  LoopOutcome(l) /\ loop' = [loop EXCEPT ![l] = loop'[l]]
<1>1. loop[l].pc = "base" /\ fence' = fence
    BY DEF LoopBase
<1>2. \/ Catch(l, eng)
      \/ NextTask(l, eng, prev, loop[l].k)
      \/ StartsTask(l, eng, prev, loop[l].k, loop[l].task, loop[l].at, loop[l].plan)
    BY BeginTaskIs DEF LoopBase
<1>3. loop[l].task \in Tasks /\ loop[l].at \in Nat /\ loop[l].plan \in Plan
         /\ loop[l].k \in 0 .. fence
    BY <1>1, LoopFields DEF AtWork
<1>4. loop[l].at \in DOMAIN eng.att[loop[l].task]
    BY <1>1 DEF Trusted, LoopKnown, AtWork
<1>5. LoopPart(l)
    BY <1>1, <1>2, <1>3, CatchPart, NextTaskPart, StartsTaskPart, EngIsGood
<1>6. LoopOutcome(l)
    BY <1>1, <1>2, <1>3, <1>4, CatchOutcome, NextTaskOutcome, StartsTaskOutcome, EngIsGood
<1>. QED
    BY <1>5, <1>6 DEF LoopPart

LEMMA LoopBegunOutcome ==
    ASSUME Grounded, Trusted, NEW l \in Loops, LoopBegun(l)
    PROVE  LoopOutcome(l) /\ loop' = [loop EXCEPT ![l] = loop'[l]]
<1>1. loop[l].pc = "beginning" /\ fence' = fence
    BY DEF LoopBegun
<1>2. CASE loop[l].res = 0
    <2>1. Catch(l, eng)
        BY <1>2 DEF LoopBegun
    <2>. QED
        BY <1>1, <2>1, CatchPart, CatchOutcome, EngIsGood DEF LoopPart
<1>3. CASE loop[l].res # 0
    <2>1. /\ prev' = loop[l].res /\ UNCHANGED <<eng, runs, lease, tok, owner, ids>>
          /\ \E res \in {0, prev', prev' + 1} : SyncEngine(prev', res) /\ LoopTo(l, "begun", res)
        BY <1>3 DEF LoopBegun
    <2>2. prev' \in Nat
        BY <2>1, LoopFields
    <2>3. LoopPart(l)
        BY <1>1, <1>3, <2>1, <2>2, LoopSyncPart
    <2>4. Later
        BY <2>3 DEF LoopPart
    <2>5. LoopOutcome(l)
        BY <1>1, <1>3, <2>1, <2>2, <2>4, LoopSyncOutcome
    <2>. QED
        BY <2>3, <2>5 DEF LoopPart
<1>. QED
    BY <1>2, <1>3

LEMMA LoopExecuteOutcome ==
    ASSUME Grounded, Trusted, NEW l \in Loops, LoopExecute(l)
    PROVE  LoopOutcome(l) /\ loop' = [loop EXCEPT ![l] = loop'[l]]
<1>1. loop[l].pc = "begun" /\ fence' = fence
    BY DEF LoopExecute
<1>2. CASE loop[l].res = 0
    <2>1. Catch(l, eng)
        BY <1>2 DEF LoopExecute
    <2>. QED
        BY <1>1, <2>1, CatchPart, CatchOutcome, EngIsGood DEF LoopPart
<1>3. CASE loop[l].res # 0
    <2>1. LoopTo(l, "executing", 0) /\ UNCHANGED <<exp, eng>>
        BY <1>3 DEF LoopExecute
    <2>2. Later
        BY LoopExecuteGrounded
    <2> DEFINE x == [loop[l] EXCEPT !.pc = "executing", !.res = 0]
    <2>3. loop' = [loop EXCEPT ![l] = x]
        BY <2>1 DEF LoopTo
    <2>4. /\ x.pc = "executing" /\ x.task = loop[l].task /\ x.at = loop[l].at
          /\ x.run = loop[l].run /\ x.pre = loop[l].pre
        BY LoopFields DEF LoopTypeOf
    <2>. HIDE DEF x
    <2>5. Begun(loop[l]) /\ loop[l].pc \in AtWork \ {"base"}
        BY <1>1 DEF Begun, AtWork
    <2>6. LoopOutcome(l)
        BY <2>1, <2>2, <2>3, <2>4, <2>5, LoopWaits
    <2>. QED
        BY <2>3, <2>6, LoopMoves
<1>. QED
    BY <1>2, <1>3

LEMMA RunLoadOutcome ==
    ASSUME Grounded, Trusted, NEW l \in Loops, RunLoad(l)
    PROVE  LoopOutcome(l) /\ loop' = [loop EXCEPT ![l] = loop'[l]]
<1>1. /\ loop[l].pc = "executing" /\ UNCHANGED <<exp, eng>>
      /\ loop' = [loop EXCEPT ![l].load = {runs[loop[l].run]}]
    BY DEF RunLoad, Executing, durable
<1>2. Later
    BY RunLoadGrounded
<1> DEFINE x == [loop[l] EXCEPT !.load = {runs[loop[l].run]}]
<1>3. loop' = [loop EXCEPT ![l] = x]
    BY <1>1
<1>4. /\ x.pc = loop[l].pc /\ x.task = loop[l].task /\ x.at = loop[l].at
      /\ x.run = loop[l].run /\ x.pre = loop[l].pre
    BY LoopFields DEF LoopTypeOf
<1>. HIDE DEF x
<1>5. Begun(loop[l]) /\ loop[l].pc \in AtWork \ {"base"}
    BY <1>1 DEF Begun, AtWork
<1>6. LoopOutcome(l)
    BY <1>1, <1>2, <1>3, <1>4, <1>5, LoopWaits
<1>. QED
    BY <1>3, <1>6, LoopMoves

LEMMA RunWriteOutcome ==
    ASSUME Grounded, Trusted, NEW l \in Loops, RunWrite(l)
    PROVE  LoopOutcome(l) /\ loop' = [loop EXCEPT ![l] = loop'[l]]
<1>1. /\ loop[l].pc = "executing" /\ UNCHANGED <<exp, eng>>
      /\ \/ loop' = [loop EXCEPT ![l].load = {}]
         \/ loop' = [loop EXCEPT ![l] = [@ EXCEPT !.load = {}, !.lossy = TRUE]]
    BY DEF RunWrite, Executing
<1>2. Later
    BY RunWriteGrounded
<1> DEFINE x == [loop[l] EXCEPT !.load = {}]
           y == [loop[l] EXCEPT !.load = {}, !.lossy = TRUE]
<1>3. loop' = [loop EXCEPT ![l] = x] \/ loop' = [loop EXCEPT ![l] = y]
    BY <1>1
<1>4. /\ x.pc = loop[l].pc /\ x.task = loop[l].task /\ x.at = loop[l].at
      /\ x.run = loop[l].run /\ x.pre = loop[l].pre
    BY LoopFields DEF LoopTypeOf
<1>5. /\ y.pc = loop[l].pc /\ y.task = loop[l].task /\ y.at = loop[l].at
      /\ y.run = loop[l].run /\ y.pre = loop[l].pre
    BY LoopFields DEF LoopTypeOf
<1>. HIDE DEF x, y
<1>6. Begun(loop[l]) /\ loop[l].pc \in AtWork \ {"base"}
    BY <1>1 DEF Begun, AtWork
<1>7. LoopOutcome(l)
    BY <1>1, <1>2, <1>3, <1>4, <1>5, <1>6, LoopWaits
<1>. QED
    BY <1>3, <1>7, LoopMoves

LEMMA LoopExecutedOutcome ==
    ASSUME Grounded, Trusted, NEW l \in Loops, LoopExecuted(l)
    PROVE  LoopOutcome(l) /\ loop' = [loop EXCEPT ![l] = loop'[l]]
<1>1. /\ loop[l].pc = "executing" /\ UNCHANGED <<exp, eng>>
      /\ \/ loop' = [loop EXCEPT ![l] = [@ EXCEPT !.pc = "executed",
                                                  !.load = {runs[loop[l].run]}]]
         \/ LoopTo(l, "executed", 0)
    BY DEF LoopExecuted, Executing, durable
<1>2. Later
    BY LoopExecutedGrounded
<1> DEFINE x == [loop[l] EXCEPT !.pc = "executed", !.load = {runs[loop[l].run]}]
           y == [loop[l] EXCEPT !.pc = "executed", !.res = 0]
<1>3. loop' = [loop EXCEPT ![l] = x] \/ loop' = [loop EXCEPT ![l] = y]
    BY <1>1 DEF LoopTo
<1>4. /\ x.pc = "executed" /\ x.task = loop[l].task /\ x.at = loop[l].at
      /\ x.run = loop[l].run /\ x.pre = loop[l].pre
    BY LoopFields DEF LoopTypeOf
<1>5. /\ y.pc = "executed" /\ y.task = loop[l].task /\ y.at = loop[l].at
      /\ y.run = loop[l].run /\ y.pre = loop[l].pre
    BY LoopFields DEF LoopTypeOf
<1>. HIDE DEF x, y
<1>6. Begun(loop[l]) /\ loop[l].pc \in AtWork \ {"base"}
    BY <1>1 DEF Begun, AtWork
<1>7. LoopOutcome(l)
    BY <1>1, <1>2, <1>3, <1>4, <1>5, <1>6, LoopWaits
<1>. QED
    BY <1>3, <1>7, LoopMoves
-----------------------------------------------------------------------------
(* What a loop commits.                                                    *)

\* The verdict that is read with a run is still that of the run.
LEMMA VerdictStands ==
    ASSUME NEW row \in Run, NEW r, NEW old, NEW new, Copy(row, r, old), Grows(old, new),
           row.status \in OverStatus
    PROVE  r \in DOMAIN new /\ new[r].status = row.status
    BY DEF Copy, Grows

LEMMA EvidenceIsOver ==
    Evidence \subseteq OverStatus
    BY DEF Evidence, OverStatus

LEMMA CommitsOutcome ==
    ASSUME Grounded, Trusted, UNCHANGED fence, NEW l \in Loops, loop[l].pc = "executed",
           NEW row, NEW cov, NEW res, Commits(l, row, cov, res)
    PROVE  LoopOutcome(l)
<1> DEFINE t == loop[l].task
           i == loop[l].at
           run == loop[l].run
           plan == loop[l].plan
           k == loop[l].k
<1>1. /\ t \in Tasks /\ run \in DOMAIN runs /\ row \in Run /\ plan \in Plan
      /\ loop[l] \in LoopTypeOf(ids, fence) /\ Copy(row, run, runs)
    BY LoopFields DEF AtWork, Begun, Commits
<1>2. cov \in 0 .. 2 /\ row.status \in RunStatus
    BY <1>1, CoverageIs DEF Commits, Run
<1>3. eng \in Engine /\ eng.status # "draft" /\ Good(eng, runs, ids) /\ eng \in Engines
    <2>1. eng.task = t
        BY DEF Commits, MayCommit
    <2>2. t # 0
        BY <1>1 DEF Tasks
    <2>3. eng # NoEngine
        BY <2>1, <2>2, NoRowFields
    <2>. QED
        BY <2>3, EngIsGood DEF Engines
<1>4. Later /\ Grows(runs, runs')
    BY CommitsPart DEF LoopPart, Later
<1>5. CommitTx(t, i, run, row, k, prev, cov, plan, res) /\ UNCHANGED <<ids, lease, tok>>
    BY DEF Commits
<1>6. eng' = TaskCommitted(eng, t, i, row.status, cov, plan)
    BY DEF Commits
<1>7. LoopKnown(loop[l], eng, exp)
    BY DEF Trusted
<1>8. /\ i \in DOMAIN eng.att[t] => eng.att[t][i].run = run
      /\ i \in DOMAIN exp.att[t] => exp.att[t][i].run = run
    BY <1>7 DEF LoopKnown, Begun, AtWork
<1>9. row.status \in Evidence => run \in DOMAIN runs' /\ runs'[run].status = row.status
    BY <1>1, <1>4, VerdictStands, EvidenceIsOver
<1> DEFINE x == [loop[l] EXCEPT !.pc = "committing", !.res = res, !.load = {}, !.pre = eng]
<1>10. loop' = [loop EXCEPT ![l] = x]
    BY DEF Commits
<1>11. loop'[l] = x
    BY <1>10, LoopMoves
<1>12. x.pc = "committing" /\ x.pre = eng
    BY <1>1 DEF LoopTypeOf
<1>. HIDE DEF x, t, i, run, plan, k
<1>13. /\ Good(exp, runs', ids') /\ Good(eng, runs', ids') /\ prev \in Nat
    BY <1>4, AllGoodLater, GroundedTypes
<1>14. Good(eng', runs', ids') /\ eng'.status # "draft"
    BY <1>1, <1>2, <1>3, <1>6, <1>8, <1>9, <1>13, CommittedGood
<1>15. UNCHANGED <<exp, runs>> \/ CommitWins(t, i, run, row, prev, cov, plan, res)
    <2>1. Steady
        BY <1>5 DEF Steady
    <2>2. CommitEnds(t, i, run, row, k, prev, cov, plan, res)
        BY <1>1, <1>2, <1>5, <1>13, <2>1, CommitTxIs
    <2>. QED
        BY <2>2 DEF CommitEnds
<1>16. Good(exp', runs', ids') /\ Moved
    <2>1. CASE UNCHANGED <<exp, runs>>
        BY <1>13, <2>1 DEF Moved
    <2>2. CASE CommitWins(t, i, run, row, prev, cov, plan, res)
        <3>1. Good(exp', runs', ids')
            BY <1>1, <1>2, <1>4, <1>8, <1>9, <1>13, <2>2, CommitWinsGood
        <3>2. exp'.rev = exp.rev + 1 /\ exp'.status = exp.status
            BY <2>2 DEF CommitWins
        <3>. QED
            BY <3>1, <3>2 DEF Moved
    <2>. QED
        BY <1>15, <2>1, <2>2
<1>17. LoopKnown(x, eng', exp')
    BY <1>12, NotAtWork DEF AtWork
<1>. QED
    BY <1>3, <1>4, <1>11, <1>12, <1>13, <1>14, <1>16, <1>17 DEF LoopOutcome

LEMMA LoopCommitOutcome ==
    ASSUME Grounded, Trusted, NEW l \in Loops, LoopCommit(l)
    PROVE  LoopOutcome(l) /\ loop' = [loop EXCEPT ![l] = loop'[l]]
<1>1. loop[l].pc = "executed" /\ fence' = fence
    BY DEF LoopCommit
<1>2. CASE Catch(l, eng)
    BY <1>1, <1>2, CatchPart, CatchOutcome, EngIsGood DEF LoopPart
<1>3. ASSUME NEW row, NEW cov, NEW res, Commits(l, row, cov, res)
      PROVE  LoopOutcome(l) /\ LoopPart(l)
    BY <1>1, <1>3, CommitsPart, CommitsOutcome
<1>. QED
    BY <1>2, <1>3, LoopCommitIs DEF LoopPart

LEMMA LoopCommittedOutcome ==
    ASSUME Grounded, Trusted, NEW l \in Loops, LoopCommitted(l)
    PROVE  LoopOutcome(l) /\ loop' = [loop EXCEPT ![l] = loop'[l]]
<1>1. loop[l].pc = "committing" /\ fence' = fence
    BY DEF LoopCommitted
<1>2. CASE loop[l].res = 0
    <2>1. Catch(l, loop[l].pre)
        BY <1>2 DEF LoopCommitted
    <2>2. loop[l].pre \in Engines /\ Good(loop[l].pre, runs, ids) /\ loop[l].pre.status # "draft"
        BY EngIsGood
    <2>. QED
        BY <1>1, <2>1, <2>2, CatchPart, CatchOutcome DEF LoopPart
<1>3. CASE loop[l].res # 0
    <2>1. /\ prev' = loop[l].res /\ UNCHANGED <<eng, runs, lease, tok, owner, ids>>
          /\ \E res \in {0, prev', prev' + 1} : SyncEngine(prev', res) /\ LoopTo(l, "committed", res)
        BY <1>3 DEF LoopCommitted
    <2>2. prev' \in Nat
        BY <2>1, LoopFields
    <2>3. LoopPart(l)
        BY <1>1, <2>1, <2>2, LoopSyncPart
    <2>4. Later
        BY <2>3 DEF LoopPart
    <2>5. LoopOutcome(l)
        BY <1>1, <2>1, <2>2, <2>4, LoopSyncOutcome
    <2>. QED
        BY <2>3, <2>5 DEF LoopPart
<1>. QED
    BY <1>2, <1>3

LEMMA LoopAdvanceOutcome ==
    ASSUME Grounded, Trusted, NEW l \in Loops, LoopAdvance(l)
    PROVE  LoopOutcome(l) /\ loop' = [loop EXCEPT ![l] = loop'[l]]
<1>1. /\ fence' = fence
      /\ Catch(l, eng) \/ NextTask(l, eng, loop[l].res, loop[l].k)
    BY DEF LoopAdvance
<1>2. loop[l].res \in Nat /\ loop[l].k \in 0 .. fence
    BY LoopFields
<1>3. LoopPart(l)
    BY <1>1, <1>2, CatchPart, NextTaskPart, EngIsGood
<1>4. LoopOutcome(l)
    BY <1>1, <1>2, CatchOutcome, NextTaskOutcome, EngIsGood
<1>. QED
    BY <1>3, <1>4 DEF LoopPart

LEMMA LoopFailingOutcome ==
    ASSUME Grounded, Trusted, NEW l \in Loops, LoopFailing(l)
    PROVE  LoopOutcome(l) /\ loop' = [loop EXCEPT ![l] = loop'[l]]
<1>1. fence' = fence
    BY DEF LoopFailing
<1>2. PICK row \in loop[l].load :
         IF row.status = "running"
         THEN AbortRun(loop[l].run, row) /\ LoopTo(l, "finalized", 0)
              /\ UNCHANGED <<exp, lease, eng, tok, owner, ids>>
         ELSE AbortAfterFailure(l, eng)
    BY DEF LoopFailing
<1>3. CASE AbortAfterFailure(l, eng)
    BY <1>1, <1>3, AbortAfterFailurePart, AbortAfterFailureOutcome, EngIsGood DEF LoopPart
<1>4. CASE LoopTo(l, "finalized", 0) /\ UNCHANGED <<exp, eng>>
    <2>1. Later
        BY LoopFailingGrounded
    <2> DEFINE x == [loop[l] EXCEPT !.pc = "finalized", !.res = 0]
    <2>2. loop' = [loop EXCEPT ![l] = x]
        BY <1>4 DEF LoopTo
    <2>3. x.pc = "finalized" /\ x.pre = loop[l].pre
        BY LoopFields DEF LoopTypeOf
    <2>. HIDE DEF x
    <2>4. x.pc \notin AtWork /\ ~Begun(x)
        BY <2>3 DEF AtWork, Begun
    <2>5. LoopOutcome(l)
        BY <1>4, <2>1, <2>2, <2>3, <2>4, LoopWaits
    <2>. QED
        BY <2>2, <2>5, LoopMoves
<1>. QED
    BY <1>2, <1>3, <1>4

LEMMA LoopFinalizedOutcome ==
    ASSUME Grounded, Trusted, NEW l \in Loops, LoopFinalized(l)
    PROVE  LoopOutcome(l) /\ loop' = [loop EXCEPT ![l] = loop'[l]]
<1>1. AbortAfterFailure(l, eng) /\ fence' = fence
    BY DEF LoopFinalized
<1>. QED
    BY <1>1, AbortAfterFailurePart, AbortAfterFailureOutcome, EngIsGood DEF LoopPart

LEMMA LoopFailedOutcome ==
    ASSUME Grounded, Trusted, NEW l \in Loops, LoopFailed(l)
    PROVE  LoopOutcome(l) /\ loop' = [loop EXCEPT ![l] = loop'[l]]
<1>1. EndLoop(l, eng) /\ fence' = fence
    BY DEF LoopFailed
<1>. QED
    BY <1>1, EndLoopPart, EndLoopOutcome, EngIsGood DEF LoopPart

\* A loop that takes a step is alone, and there is no command.
\* The loop that is alive is the only one, and there is no command.
LEMMA LoopStepMoves ==
    ASSUME Grounded, Trusted, NEW l \in Loops, LoopStep(l)
    PROVE  /\ loop' = [loop EXCEPT ![l] = loop'[l]] /\ loop[l].pc # "off"
           /\ \A m \in Loops : m # l => loop[m].pc = "off"
           /\ cmd = NoCmd /\ cmd' = cmd
<1>1. loop' = [loop EXCEPT ![l] = loop'[l]]
    BY LoopBaseOutcome, LoopBegunOutcome, LoopExecuteOutcome, RunLoadOutcome, RunWriteOutcome,
       LoopExecutedOutcome, LoopCommitOutcome, LoopCommittedOutcome, LoopAdvanceOutcome,
       LoopFailingOutcome, LoopFinalizedOutcome, LoopFailedOutcome DEF LoopStep
<1>2. loop[l].pc # "off"
    BY DEF LoopStep, LoopBase, LoopBegun, LoopExecute, RunLoad, RunWrite, LoopExecuted, LoopCommit,
       LoopCommitted, LoopAdvance, LoopFailing, LoopFinalized, LoopFailed, Executing
<1>3. cmd' = cmd
    BY DEF LoopStep, LoopBase, LoopBegun, LoopExecute, RunLoad, RunWrite, LoopExecuted, LoopCommit,
       LoopCommitted, LoopAdvance, LoopFailing, LoopFinalized, LoopFailed, elsewhere
<1>. QED
    BY <1>1, <1>2, <1>3 DEF Trusted, Alone, Alive

LEMMA LoopStepTrusted ==
    ASSUME Grounded, Trusted, NEW l \in Loops, LoopStep(l)
    PROVE  Trusted'
<1>1. LoopOutcome(l)
    BY LoopBaseOutcome, LoopBegunOutcome, LoopExecuteOutcome, RunLoadOutcome, RunWriteOutcome,
       LoopExecutedOutcome, LoopCommitOutcome, LoopCommittedOutcome, LoopAdvanceOutcome,
       LoopFailingOutcome, LoopFinalizedOutcome, LoopFailedOutcome DEF LoopStep
<1>2. rcv' = rcv
    BY DEF LoopStep, LoopBase, LoopBegun, LoopExecute, RunLoad, RunWrite, LoopExecuted, LoopCommit,
       LoopCommitted, LoopAdvance, LoopFailing, LoopFinalized, LoopFailed, elsewhere
<1>. QED
    BY <1>1, <1>2, LoopStepMoves, LoopTrusts
-----------------------------------------------------------------------------
(* Abort and pause leave behind what can be trusted.                       *)

\* What a loop knows of its attempt, and the engine it may go back to.
SameTask(x, y) ==
    /\ y.pc = x.pc /\ y.task = x.task /\ y.at = x.at /\ y.run = x.run /\ y.res = x.res
    /\ y.pre = x.pre

\* The links stay, and the row, if it is written, has those of the engine.
TabOutcome ==
    /\ Later /\ Moved
    /\ Good(exp', runs', ids') /\ Good(eng', runs', ids') /\ eng'.status # "draft"
    /\ SameLinks(eng'.att, eng.att)
    /\ exp' = exp \/ SameLinks(exp'.att, eng'.att)

LEMMA TabTrusts ==
    ASSUME Grounded, Trusted, TabOutcome, cmd' = cmd, rcv' = rcv,
           ~Preparing(cmd) \/ (exp' = exp /\ abt' = abt),
           \A l \in Loops : SameTask(loop[l], loop'[l])
    PROVE  Trusted'
<1>1. /\ Later /\ Moved
      /\ Good(exp', runs', ids') /\ Good(eng', runs', ids') /\ eng'.status # "draft"
      /\ SameLinks(eng'.att, eng.att)
      /\ exp' = exp \/ SameLinks(exp'.att, eng'.att)
    BY DEF TabOutcome
<1>2. AllGood'
    <2>1. \A l \in Loops : Good(loop'[l].pre, runs', ids')
        BY <1>1, AllGoodLater DEF SameTask
    <2>2. Good(rcv'.snap, runs', ids') /\ Good(cmd'.snap, runs', ids') /\ Good(cmd'.pre, runs', ids')
        BY <1>1, AllGoodLater
    <2>. QED
        BY <1>1, <2>1, <2>2 DEF AllGood
<1>3. Undrafted'
    BY <1>1 DEF Undrafted, Trusted, SameTask
<1>4. Alone'
    <2>1. \A l \in Loops : loop'[l].pc = loop[l].pc
        BY DEF SameTask
    <2>. QED
        BY <2>1 DEF Alone, Alive, Trusted
<1>5. Starting'
    BY DEF Starting, Trusted
<1>6. RcvKnown(rcv', exp')
    BY <1>1, RcvKnownStays DEF Trusted
<1>7. ASSUME NEW l \in Loops PROVE LoopKnown(loop'[l], eng', exp')
    <2>1. LoopKnown(loop[l], eng, exp) /\ (loop[l].pc \in AtWork => loop[l].task \in Tasks)
        BY LoopFields DEF Trusted
    <2>2. LoopKnown(loop[l], eng', exp')
        BY <1>1, <2>1, KnownStays
    <2>. QED
        BY <2>2 DEF LoopKnown, Begun, SameTask
<1>. QED
    BY <1>2, <1>3, <1>4, <1>5, <1>6, <1>7 DEF Trusted

LEMMA LoopsStay ==
    ASSUME UNCHANGED loop
    PROVE  \A l \in Loops : SameTask(loop[l], loop'[l])
    BY DEF SameTask

\* Nothing of the experiment is written.
LEMMA NothingOfIt ==
    ASSUME Grounded, Trusted, Later, UNCHANGED <<exp, eng>>
    PROVE  TabOutcome
<1>1. Good(exp', runs', ids') /\ Good(eng', runs', ids') /\ eng'.status # "draft"
    BY AllGoodLater, EngIsGood
<1>. QED
    BY <1>1, SameLinksSame DEF TabOutcome, Moved

LEMMA AbortEngineOutcome ==
    ASSUME Grounded, Trusted, AbortEngine, UNCHANGED <<runs, ids, fence>>
    PROVE  TabOutcome
<1>1. eng' = Aborted(eng) /\ eng \in Engines /\ prev \in Nat /\ eng.status # "draft"
    BY EngIsGood DEF AbortEngine
<1>2. Later
    BY AbortEngineIs
<1>3. Good(eng, runs', ids') /\ Good(exp, runs', ids')
    BY <1>2, AllGoodLater
<1>4. Good(eng', runs', ids') /\ SameLinks(eng'.att, eng.att)
    BY <1>1, <1>3, AbortedIs
<1>5. CASE eng.status = "none"
    <2>1. exp' = exp
        BY <1>5 DEF AbortEngine
    <2>2. eng'.status = "none"
        BY <1>1, <1>5, AbortedIs
    <2>. QED
        BY <1>2, <1>3, <1>4, <2>1, <2>2 DEF TabOutcome, Moved
<1>6. CASE eng.status # "none"
    <2>1. PICK res \in {0, prev + 1} : Sync(Aborted(eng), prev, res)
        BY <1>6 DEF AbortEngine
    <2>2. Aborted(eng) \in Engines /\ Aborted(eng).status \notin Unbegun
        <3>1. /\ Aborted(eng) \in Engines /\ (eng.status \in Terminal \cup {"none"} => Aborted(eng) = eng)
              /\ (eng.status \notin Terminal \cup {"none"} => Aborted(eng).status = "aborted")
            BY <1>1, AbortedIs
        <3>. QED
            BY <1>1, <1>6, <3>1 DEF Unbegun, Terminal
    <2>3. Good(exp', runs', ids') /\ Moved /\ (exp' = exp \/ exp'.att = Aborted(eng).att)
        BY <1>1, <1>3, <1>4, <2>1, <2>2, SyncMoves
    <2>4. exp' = exp \/ SameLinks(exp'.att, eng'.att)
        BY <1>1, <2>3, SameLinksSame
    <2>5. eng'.status # "draft"
        BY <1>1, <2>2 DEF Unbegun
    <2>. QED
        BY <1>2, <1>4, <2>3, <2>4, <2>5 DEF TabOutcome
<1>. QED
    BY <1>5, <1>6

LEMMA AbortStartsTrusted ==
    ASSUME Grounded, Trusted, AbortStarts, Later, ids' = ids, cmd.kind # "start"
    PROVE  Trusted'
<1>1. /\ UNCHANGED <<runs, fence, cmd, rcv>>
      /\ loop' = [l \in Loops |-> IF l = ctrl THEN [loop[l] EXCEPT !.sig = TRUE] ELSE loop[l]]
    BY DEF AbortStarts
<1>2. \A l \in Loops : loop'[l] \in {loop[l], [loop[l] EXCEPT !.sig = TRUE]}
    BY <1>1
<1>3. \A l \in Loops : SameTask(loop[l], loop'[l])
    <2> SUFFICES ASSUME NEW l \in Loops PROVE SameTask(loop[l], loop'[l])
        OBVIOUS
    <2>1. loop[l] \in LoopTypeOf(ids, fence)
        BY LoopFields
    <2>2. SameTask(loop[l], [loop[l] EXCEPT !.sig = TRUE])
        BY <2>1 DEF SameTask, LoopTypeOf
    <2>. QED
        BY <1>2, <2>2 DEF SameTask
<1>4. UNCHANGED <<exp, eng>> \/ AbortEngine
    BY DEF AbortStarts
<1>5. TabOutcome
    BY <1>1, <1>4, NothingOfIt, AbortEngineOutcome
<1>6. ~Preparing(cmd)
    BY DEF Preparing
<1>. QED
    BY <1>1, <1>3, <1>5, <1>6, TabTrusts

LEMMA UserAbortsTrusted ==
    ASSUME Grounded, Trusted, UserAborts
    PROVE  Trusted'
<1>1. Later
    BY UserAbortsGrounded
<1>2. AbortStarts /\ ids' = ids /\ cmd.kind # "start"
    BY DEF UserAborts, Shown, AbortStarts
<1>. QED
    BY <1>1, <1>2, AbortStartsTrusted

LEMMA LeaseNoticedTrusted ==
    ASSUME Grounded, Trusted, LeaseNoticed
    PROVE  Trusted'
<1>1. Later
    BY LeaseNoticedGrounded
<1>2. AbortStarts /\ ids' = ids /\ cmd.kind # "start"
    BY DEF LeaseNoticed, AbortStarts
<1>. QED
    BY <1>1, <1>2, AbortStartsTrusted

LEMMA AbortReadTrusted ==
    ASSUME Grounded, Trusted, AbortRead
    PROVE  Trusted'
<1>1. Later
    BY AbortReadGrounded
<1>2. /\ UNCHANGED <<fence, loop, cmd, rcv, ids>> /\ abt.pc = "reading"
      /\ UNCHANGED <<exp, eng>> \/ (AbortEngine /\ UNCHANGED runs)
    BY DEF AbortRead
<1>3. TabOutcome
    BY <1>1, <1>2, NothingOfIt, AbortEngineOutcome
<1>4. ~Preparing(cmd)
    BY <1>2 DEF Trusted, Starting
<1>. QED
    BY <1>2, <1>3, <1>4, LoopsStay, TabTrusts

LEMMA AbortFinalizedTrusted ==
    ASSUME Grounded, Trusted, AbortFinalized
    PROVE  Trusted'
<1>1. /\ UNCHANGED <<runs, fence, loop, cmd, rcv, ids>> /\ abt.pc = "finalized"
      /\ AbortEngine
    BY DEF AbortFinalized
<1>2. TabOutcome
    BY <1>1, AbortEngineOutcome
<1>3. ~Preparing(cmd)
    BY <1>1 DEF Trusted, Starting
<1>. QED
    BY <1>1, <1>2, <1>3, LoopsStay, TabTrusts

LEMMA AbortEndsTrusted ==
    ASSUME Grounded, Trusted, AbortEnds
    PROVE  Trusted'
<1>1. Later
    BY AbortEndsGrounded
<1>2. UNCHANGED <<exp, eng, loop, cmd, rcv>> /\ abt.pc = "syncing"
    BY DEF AbortEnds
<1>3. TabOutcome
    BY <1>1, <1>2, NothingOfIt
<1>4. ~Preparing(cmd)
    BY <1>2 DEF Trusted, Starting
<1>. QED
    BY <1>2, <1>3, <1>4, LoopsStay, TabTrusts

LEMMA PauseEndsTrusted ==
    ASSUME Grounded, Trusted, PauseEnds
    PROVE  Trusted'
<1>1. Later
    BY PauseEndsGrounded
<1>2. UNCHANGED <<exp, eng, loop, cmd, rcv, abt>>
    BY DEF PauseEnds, durable
<1>3. TabOutcome
    BY <1>1, <1>2, NothingOfIt
<1>. QED
    BY <1>2, <1>3, LoopsStay, TabTrusts

LEMMA UserPausesTrusted ==
    ASSUME Grounded, Trusted, UserPauses
    PROVE  Trusted'
<1>1. /\ UNCHANGED <<runs, loop, cmd, rcv, ids>> /\ cmd.kind # "start"
      /\ eng.status # "none" /\ eng' = PauseRequested(eng)
      /\ exp' = exp \/ \E res \in {0, prev + 1} : /\ Sync(PauseRequested(eng), prev, res)
                                                 /\ PauseRequested(eng).status = "paused"
    BY DEF UserPauses, Shown
<1>2. Later
    BY UserPausesGrounded
<1>3. eng \in Engines /\ eng.status # "draft" /\ prev \in Nat
    BY EngIsGood
<1>4. /\ PauseRequested(eng) \in Engine
      /\ PauseRequested(eng).att = eng.att /\ PauseRequested(eng).sel = eng.sel
      /\ PauseRequested(eng).status \in {eng.status, "paused"}
    BY <1>1, <1>3, PauseRequestedIs
<1>5. Good(eng, runs', ids') /\ Good(exp, runs', ids')
    BY <1>2, AllGoodLater
<1>6. Good(eng', runs', ids') /\ eng'.status # "draft" /\ SameLinks(eng'.att, eng.att)
    BY <1>1, <1>3, <1>4, <1>5, GoodSame, SameLinksSame
<1>7. Good(exp', runs', ids') /\ Moved /\ (exp' = exp \/ SameLinks(exp'.att, eng'.att))
    <2>1. CASE exp' = exp
        BY <1>5, <2>1 DEF Moved
    <2>2. ASSUME NEW res \in {0, prev + 1}, Sync(PauseRequested(eng), prev, res),
                 PauseRequested(eng).status = "paused"
          PROVE  /\ Good(exp', runs', ids') /\ Moved
                 /\ exp' = exp \/ SameLinks(exp'.att, eng'.att)
        <3>1. PauseRequested(eng) \in Engines /\ PauseRequested(eng).status \notin Unbegun
            BY <1>4, <2>2 DEF Engines, Unbegun
        <3>2. /\ Good(exp', runs', ids') /\ Moved
              /\ exp' = exp \/ exp'.att = PauseRequested(eng).att
            BY <1>1, <1>3, <1>5, <1>6, <2>2, <3>1, SyncMoves
        <3>. QED
            BY <1>1, <3>2, SameLinksSame
    <2>. QED
        BY <1>1, <2>1, <2>2
<1>8. TabOutcome
    BY <1>2, <1>6, <1>7 DEF TabOutcome
<1>9. ~Preparing(cmd)
    BY <1>1 DEF Preparing
<1>. QED
    BY <1>1, <1>8, <1>9, LoopsStay, TabTrusts

LEMMA ControlTrusted ==
    ASSUME Grounded, Trusted, Control
    PROVE  Trusted'
    BY AbortReadTrusted, AbortFinalizedTrusted, AbortEndsTrusted, PauseEndsTrusted,
       LeaseNoticedTrusted DEF Control
-----------------------------------------------------------------------------
(* The commands leave behind what can be trusted.                          *)

NoLoopAlive == \A l \in Loops : loop[l].pc = "off"

LEMMA CommandAlone ==
    ASSUME Trusted, cmd.pc # "off"
    PROVE  NoLoopAlive
<1>1. cmd # NoCmd
    BY NothingInFlight
<1>. QED
    BY <1>1 DEF Trusted, Alone, Alive, NoLoopAlive

LEMMA CmdTrusts ==
    ASSUME Grounded, Trusted, Later, NoLoopAlive, UNCHANGED <<loop, rcv>>,
           Good(exp', runs', ids'), Good(eng', runs', ids'), eng'.status # "draft",
           Good(cmd'.snap, runs', ids'), Good(cmd'.pre, runs', ids'), cmd'.pre.status # "draft",
           Starting', RcvKnown(rcv', exp')
    PROVE  Trusted'
<1>1. AllGood'
    <2>1. (\A l \in Loops : Good(loop'[l].pre, runs', ids')) /\ Good(rcv'.snap, runs', ids')
        BY AllGoodLater
    <2>. QED
        BY <2>1 DEF AllGood
<1>2. Undrafted'
    BY DEF Undrafted, Trusted
<1>3. Alone'
    BY DEF Alone, Alive, NoLoopAlive
<1>4. \A l \in Loops : LoopKnown(loop'[l], eng', exp')
    <2>1. \A l \in Loops : loop'[l].pc \notin AtWork
        BY DEF NoLoopAlive, AtWork
    <2>. QED
        BY <2>1, NotAtWork
<1>. QED
    BY <1>1, <1>2, <1>3, <1>4 DEF Trusted

\* A command that takes no more than its own next step.
LEMMA CmdMovesOn ==
    ASSUME Grounded, Trusted, Later, NoLoopAlive, UNCHANGED <<loop, rcv, exp>>,
           eng' \in {eng, NoEngine, cmd.pre}, cmd'.snap \in {exp, cmd.snap, NoExp},
           cmd'.pre \in {NoEngine, cmd.pre}, Starting'
    PROVE  Trusted'
<1>1. Good(exp', runs', ids') /\ Good(eng', runs', ids')
      /\ Good(cmd'.snap, runs', ids') /\ Good(cmd'.pre, runs', ids')
    BY AllGoodLater, EmptyIsGood
<1>2. eng'.status # "draft" /\ cmd'.pre.status # "draft"
    BY EmptyIsGood DEF Trusted, Undrafted
<1>3. RcvKnown(rcv', exp')
    BY DEF Trusted
<1>. QED
    BY <1>1, <1>2, <1>3, CmdTrusts

LEMMA NoCommandStarts ==
    ASSUME cmd' = NoCmd
    PROVE  /\ Starting' /\ cmd'.snap = NoExp /\ cmd'.pre = NoEngine
    BY NothingInFlight DEF Starting, Preparing

LEMMA QuietIs ==
    ASSUME Quiet
    PROVE  NoLoopAlive /\ abt.pc = "off"
    BY NothingInFlight DEF Quiet, Busy, NoLoopAlive

\* A command that rushes nothing is given at rest.
LEMMA ReadQuietly ==
    ASSUME ~rushed', NEW kind \in {"start", "retry", "plan"}, CmdRead(kind)
    PROVE  Quiet
<1>1. rushed' = (rushed \/ ~Quiet)
    BY DEF CmdRead
<1>. QED
    BY <1>1, Zenon

LEMMA ResumedQuietly ==
    ASSUME ~rushed', CmdResume
    PROVE  Quiet
<1>1. rushed' = (rushed \/ ~Quiet)
    BY DEF CmdResume
<1>. QED
    BY <1>1, Zenon

LEMMA CmdReadTrusted ==
    ASSUME Grounded, Trusted, ~rushed', NEW kind \in {"start", "retry", "plan"}, CmdRead(kind)
    PROVE  Trusted'
<1>1. /\ UNCHANGED <<exp, eng, loop, rcv, abt>>
      /\ cmd' = [NoCmd EXCEPT !.kind = kind, !.pc = "read", !.snap = exp]
      /\ kind = "start" => exp.status = "none"
    BY DEF CmdRead, durable
<1>2. NoLoopAlive /\ abt.pc = "off"
    BY ReadQuietly, QuietIs
<1>3. Later
    BY CmdReadGrounded
<1>4. cmd'.kind = kind /\ cmd'.snap = exp /\ cmd'.pre = NoEngine
    BY <1>1, NothingInFlight DEF NoCmd
<1>5. Starting'
    BY <1>1, <1>2, <1>4 DEF Starting, Preparing, Unbegun
<1>. QED
    BY <1>1, <1>2, <1>3, <1>4, <1>5, CmdMovesOn

LEMMA CmdResumeTrusted ==
    ASSUME Grounded, Trusted, ~rushed', CmdResume
    PROVE  Trusted'
<1> DEFINE ok == IF tok # 0 /\ lease = tok THEN 1 ELSE 0
<1>1. /\ UNCHANGED <<exp, eng, loop, rcv, abt>>
      /\ cmd' = [NoCmd EXCEPT !.kind = "resume", !.pc = "verifying", !.k = tok, !.res = ok]
    BY DEF CmdResume, durable
<1>. HIDE DEF ok
<1>2. NoLoopAlive
    BY ResumedQuietly, QuietIs
<1>3. Later
    BY CmdResumeGrounded
<1>4. cmd'.kind = "resume" /\ cmd'.snap = NoExp /\ cmd'.pre = NoEngine
    BY <1>1, NothingInFlight DEF NoCmd
<1>5. Starting'
    BY <1>4 DEF Starting, Preparing
<1>. QED
    BY <1>1, <1>2, <1>3, <1>4, <1>5, CmdMovesOn

LEMMA CmdAcquireTrusted ==
    ASSUME Grounded, Trusted, CmdAcquire
    PROVE  Trusted'
<1>1. /\ UNCHANGED <<exp, eng, loop, rcv, abt>> /\ cmd.pc = "read"
      /\ cmd' = NoCmd \/ cmd' = [cmd EXCEPT !.pc = "acquiring", !.k = fence + 1]
    BY DEF CmdAcquire
<1>2. NoLoopAlive
    BY <1>1, CommandAlone
<1>3. Later
    BY CmdAcquireGrounded
<1>4. CASE cmd' = NoCmd
    BY <1>1, <1>2, <1>3, <1>4, NoCommandStarts, CmdMovesOn
<1>5. CASE cmd' = [cmd EXCEPT !.pc = "acquiring", !.k = fence + 1]
    <2>1. cmd'.kind = cmd.kind /\ cmd'.snap = cmd.snap /\ cmd'.pre = cmd.pre
        BY <1>5, CmdFields DEF CmdTypeOf
    <2>2. Starting'
        BY <1>1, <2>1 DEF Starting, Preparing, Trusted
    <2>. QED
        BY <1>1, <1>2, <1>3, <2>1, <2>2, CmdMovesOn
<1>. QED
    BY <1>1, <1>4, <1>5

\* The first write of a command: a start has found its draft unchanged, if
\* the write does not come through.
LEMMA CmdSyncTrusted ==
    ASSUME Grounded, Trusted, Later, NoLoopAlive, UNCHANGED <<loop, rcv, abt, runs, ids>>,
           NEW e \in Engine, e.status = "running", Good(e, runs, ids), NEW rev \in Nat,
           CmdSync(e, rev), cmd.kind = "start" => Preparing(cmd)
    PROVE  Trusted'
<1>1. PICK res \in {0, rev + 1} :
         Sync(e, rev, res) /\ cmd' = [cmd EXCEPT !.pc = "syncing", !.res = res]
    BY DEF CmdSync
<1>2. eng' = e /\ e \in Engines /\ e.status \notin Unbegun
    BY DEF CmdSync, Engines, Unbegun
<1>3. Good(exp, runs', ids') /\ Good(cmd.snap, runs', ids') /\ Good(cmd.pre, runs', ids')
    BY AllGoodLater
<1>4. Good(exp', runs', ids') /\ Moved
    BY <1>1, <1>2, <1>3, SyncMoves
<1>5. exp' = exp \/ res # 0
    BY <1>1, <1>2, SyncIs DEF Unbegun
<1>6. cmd'.kind = cmd.kind /\ cmd'.snap = cmd.snap /\ cmd'.pre = cmd.pre /\ cmd'.res = res
    BY <1>1, CmdFields DEF CmdTypeOf
<1>7. cmd'.pc = "syncing"
    BY <1>1, CmdFields DEF CmdTypeOf
<1>8. Starting'
    BY <1>5, <1>6, <1>7 DEF Starting, Preparing, Trusted
<1>9. RcvKnown(rcv', exp')
    BY <1>4, RcvKnownStays DEF Trusted
<1>10. cmd'.pre.status # "draft"
    BY <1>6 DEF Trusted, Undrafted
<1>. QED
    BY <1>2, <1>3, <1>4, <1>6, <1>8, <1>9, <1>10, CmdTrusts

LEMMA CmdFailsTrusted ==
    ASSUME Grounded, Trusted, Later, NoLoopAlive, UNCHANGED <<loop, rcv>>, CmdFails,
           exp' = exp \/ (exp' = NoExp /\ rcv.pc \notin AtTasks)
    PROVE  Trusted'
<1>1. eng' = NoEngine /\ cmd' = NoCmd
    BY DEF CmdFails
<1>2. Good(exp, runs', ids')
    BY AllGoodLater
<1>3. Good(exp', runs', ids') /\ Good(eng', runs', ids') /\ eng'.status # "draft"
    BY <1>1, <1>2, EmptyIsGood
<1>4. cmd'.snap = NoExp /\ cmd'.pre = NoEngine /\ Starting'
    BY <1>1, NoCommandStarts
<1>5. RcvKnown(rcv', exp')
    BY DEF RcvKnown, Trusted
<1>. QED
    BY <1>3, <1>4, <1>5, EmptyIsGood, CmdTrusts

LEMMA CmdAcquiredTrusted ==
    ASSUME Grounded, Trusted, CmdAcquired
    PROVE  Trusted'
<1>1. UNCHANGED <<runs, ids, loop, abt, rcv>> /\ cmd.pc = "acquiring"
    BY DEF CmdAcquired
<1>2. NoLoopAlive
    BY <1>1, CommandAlone
<1>3. Later
    BY CmdAcquiredGrounded
<1>4. CASE cmd' = NoCmd /\ eng' \in {eng, NoEngine} /\ UNCHANGED exp
    BY <1>1, <1>2, <1>3, <1>4, NoCommandStarts, CmdMovesOn
<1>5. CASE /\ cmd.kind = "start" /\ UNCHANGED eng
           /\ \/ /\ exp' = [NoExp EXCEPT !.status = "draft"]
                 /\ cmd' = [cmd EXCEPT !.pc = "creating", !.res = 1]
              \/ UNCHANGED exp /\ cmd' = [cmd EXCEPT !.pc = "creating", !.res = 0]
    <2>1. exp.status \in Unbegun /\ abt.pc = "off" /\ rcv.pc \notin AtTasks
        <3>1. Preparing(cmd)
            BY <1>1, <1>5 DEF Preparing
        <3>. QED
            BY <3>1 DEF Trusted, Starting, RcvKnown
    <2>2. exp'.status \in Unbegun /\ Good(exp', runs', ids')
        <3>1. CASE exp' = [NoExp EXCEPT !.status = "draft"]
            BY <3>1, DraftType, EmptyIsGood, GoodSame DEF Unbegun
        <3>2. CASE UNCHANGED exp
            BY <1>3, <2>1, <3>2, AllGoodLater
        <3>. QED
            BY <1>5, <3>1, <3>2
    <2>3. cmd'.snap = cmd.snap /\ cmd'.pre = cmd.pre
        BY <1>5, CmdFields DEF CmdTypeOf
    <2>4. Starting'
        BY <1>1, <2>1, <2>2 DEF Starting
    <2>5. RcvKnown(rcv', exp')
        BY <1>1, <2>1 DEF RcvKnown
    <2>6. /\ Good(eng', runs', ids') /\ Good(cmd'.snap, runs', ids') /\ Good(cmd'.pre, runs', ids')
          /\ eng'.status # "draft" /\ cmd'.pre.status # "draft"
        BY <1>3, <1>5, <2>3, AllGoodLater DEF Trusted, Undrafted
    <2>. QED
        BY <1>1, <1>2, <1>3, <2>2, <2>4, <2>5, <2>6, CmdTrusts
<1>6. CASE cmd.kind = "plan" /\ cmd' = [cmd EXCEPT !.pc = "planning"] /\ UNCHANGED <<exp, eng>>
    <2>1. cmd'.kind = cmd.kind /\ cmd'.snap = cmd.snap /\ cmd'.pre = cmd.pre
        BY <1>6, CmdFields DEF CmdTypeOf
    <2>2. Starting'
        BY <1>6, <2>1 DEF Starting, Preparing
    <2>. QED
        BY <1>1, <1>2, <1>3, <1>6, <2>1, <2>2, CmdMovesOn
<1>7. CASE /\ cmd.kind = "retry"
           /\ CmdSync(Queued(EngineOf(cmd.snap), RetryPlans(EngineOf(cmd.snap))), cmd.snap.rev)
    <2>1. cmd.snap \in ExpRow /\ cmd.snap.rev \in Nat /\ Good(cmd.snap, runs, ids) /\ ids \in Nat
        BY CmdFields, GroundedTypes DEF ExpRow, Trusted, AllGood
    <2> DEFINE plans == RetryPlans(EngineOf(cmd.snap))
               q == Queued(EngineOf(cmd.snap), plans)
    <2>2. DOMAIN plans \subseteq Tasks /\ \A t \in DOMAIN plans : plans[t] \in Plan
        BY <2>1, RetryPlansAre
    <2>. HIDE DEF plans
    <2>3. q \in Engine /\ q.status = "running" /\ Good(q, runs, ids)
        BY <2>1, <2>2, QueuedIs
    <2>4. CmdSync(q, cmd.snap.rev)
        BY <1>7 DEF plans
    <2>. HIDE DEF q
    <2>. QED
        BY <1>1, <1>2, <1>3, <1>7, <2>1, <2>3, <2>4, CmdSyncTrusted
<1>. QED
    BY <1>4, <1>5, <1>6, <1>7 DEF CmdAcquired

LEMMA CmdCreatedTrusted ==
    ASSUME Grounded, Trusted, CmdCreated
    PROVE  Trusted'
<1>1. UNCHANGED <<runs, ids, loop, abt, rcv>> /\ cmd.pc = "creating"
    BY DEF CmdCreated
<1>2. NoLoopAlive /\ Later
    BY <1>1, CommandAlone, CmdCreatedGrounded
<1>3. CASE CmdFails /\ UNCHANGED exp
    BY <1>1, <1>2, <1>3, CmdFailsTrusted
<1>4. CASE CmdSync(DraftStarted(EngineOf([NoExp EXCEPT !.status = "draft"])), 0)
    <2> DEFINE e == DraftStarted(EngineOf([NoExp EXCEPT !.status = "draft"]))
    <2>1. e \in Engine /\ e.status = "running" /\ e.att = NoExp.att /\ e.sel = NoExp.sel
        BY DraftStartedIs
    <2>2. CmdSync(e, 0)
        BY <1>4
    <2>. HIDE DEF e
    <2>3. Good(e, runs, ids)
        BY <2>1, EmptyIsGood, GoodSame
    <2>4. cmd.kind = "start" => Preparing(cmd)
        BY <1>1 DEF Preparing
    <2>. QED
        BY <1>1, <1>2, <2>1, <2>2, <2>3, <2>4, CmdSyncTrusted
<1>. QED
    BY <1>3, <1>4 DEF CmdCreated

LEMMA CmdPlannedTrusted ==
    ASSUME Grounded, Trusted, CmdPlanned
    PROVE  Trusted'
<1>1. UNCHANGED <<runs, ids, loop, abt, rcv>> /\ cmd.pc = "planning"
    BY DEF CmdPlanned
<1>2. NoLoopAlive /\ Later
    BY <1>1, CommandAlone, CmdPlannedGrounded
<1>3. CASE CmdFails /\ UNCHANGED exp
    BY <1>1, <1>2, <1>3, CmdFailsTrusted
<1>4. ASSUME NEW plans \in Plans(EngineOf(cmd.snap)),
             CmdSync(Queued(EngineOf(cmd.snap), plans), cmd.snap.rev)
      PROVE  Trusted'
    <2>1. cmd.snap \in ExpRow /\ cmd.snap.rev \in Nat /\ Good(cmd.snap, runs, ids) /\ ids \in Nat
        BY CmdFields, GroundedTypes DEF ExpRow, Trusted, AllGood
    <2> DEFINE q == Queued(EngineOf(cmd.snap), plans)
    <2>2. DOMAIN plans \subseteq Tasks /\ \A t \in DOMAIN plans : plans[t] \in Plan
        BY PlansAre
    <2>3. q \in Engine /\ q.status = "running" /\ Good(q, runs, ids)
        BY <2>1, <2>2, QueuedIs
    <2>4. CmdSync(q, cmd.snap.rev)
        BY <1>4
    <2>. HIDE DEF q
    <2>5. cmd.kind = "start" => Preparing(cmd)
        BY <1>1 DEF Preparing
    <2>. QED
        BY <1>1, <1>2, <2>1, <2>3, <2>4, <2>5, CmdSyncTrusted
<1>. QED
    BY <1>3, <1>4 DEF CmdPlanned

\* The command is through, and its loop begins.
LEMMA CmdEndsTrusted ==
    ASSUME Grounded, Trusted, fence' = fence, NoLoopAlive, cmd' = NoCmd, rcv' = rcv,
           NEW l \in Loops, NEW p \in Nat, NextTask(l, eng, p, cmd.k)
    PROVE  Trusted'
<1>1. cmd.k \in 0 .. fence
    BY CmdFields
<1>2. LoopPart(l) /\ LoopOutcome(l)
    BY <1>1, NextTaskPart, NextTaskOutcome, EngIsGood
<1>. QED
    BY <1>2, LoopTrusts DEF LoopPart, NoLoopAlive

LEMMA CmdSyncedTrusted ==
    ASSUME Grounded, Trusted, CmdSynced
    PROVE  Trusted'
<1>1. UNCHANGED <<fence, abt, rcv>> /\ cmd.pc = "syncing"
    BY DEF CmdSynced
<1>2. NoLoopAlive /\ Later
    BY <1>1, CommandAlone, CmdSyncedGrounded
<1>3. CASE /\ CmdFails /\ exp' = (IF cmd.kind = "start" THEN NoExp ELSE exp) /\ cmd.res = 0
           /\ UNCHANGED loop
    <2>1. cmd.kind = "start" => rcv.pc \notin AtTasks
        BY <1>1, <1>3 DEF Trusted, Starting, Preparing, RcvKnown
    <2>. QED
        BY <1>1, <1>2, <1>3, <2>1, CmdFailsTrusted
<1>4. ASSUME cmd' = NoCmd, NEW l \in Loops, NextTask(l, eng, cmd.res, cmd.k)
      PROVE  Trusted'
    BY <1>1, <1>2, <1>4, CmdEndsTrusted, CmdFields
<1>. QED
    BY <1>3, <1>4 DEF CmdSynced

LEMMA CmdVerifiedTrusted ==
    ASSUME Grounded, Trusted, CmdVerified
    PROVE  Trusted'
<1>1. UNCHANGED <<runs, ids, loop, abt, rcv>> /\ cmd.pc = "verifying"
    BY DEF CmdVerified
<1>2. NoLoopAlive /\ Later
    BY <1>1, CommandAlone, CmdVerifiedGrounded
<1>3. CASE cmd' = NoCmd /\ UNCHANGED <<exp, eng>>
    BY <1>1, <1>2, <1>3, NoCommandStarts, CmdMovesOn
<1>4. ASSUME eng.status = "paused", eng' = Resumed(eng), NEW res \in {0, prev + 1},
             Sync(Resumed(eng), prev, res),
             cmd' = [cmd EXCEPT !.pc = "resuming", !.res = res, !.pre = eng]
      PROVE  Trusted'
    <2>1. eng \in Engines /\ prev \in Nat /\ eng.status # "draft"
        BY EngIsGood
    <2>2. /\ Resumed(eng) \in Engine /\ Resumed(eng).att = eng.att /\ Resumed(eng).sel = eng.sel
          /\ Resumed(eng).status = "running"
        BY <1>4, <2>1, ResumedIs
    <2>3. Resumed(eng) \in Engines /\ Resumed(eng).status \notin Unbegun
        BY <2>2 DEF Engines, Unbegun
    <2>4. Good(exp, runs', ids') /\ Good(eng, runs', ids') /\ Good(cmd.snap, runs', ids')
        BY <1>2, AllGoodLater
    <2>5. Good(eng', runs', ids')
        BY <1>4, <2>2, <2>4, GoodSame
    <2>6. Good(exp', runs', ids') /\ Moved
        BY <1>4, <2>1, <2>3, <2>4, <2>5, SyncMoves
    <2>7. cmd'.snap = cmd.snap /\ cmd'.pre = eng /\ cmd'.pc = "resuming"
        BY <1>4, CmdFields DEF CmdTypeOf
    <2>8. Starting'
        BY <2>7 DEF Starting, Preparing
    <2>9. RcvKnown(rcv', exp')
        BY <1>1, <2>6, RcvKnownStays DEF Trusted
    <2>10. eng'.status # "draft"
        BY <1>4, <2>2
    <2>. QED
        BY <1>1, <1>2, <2>1, <2>4, <2>5, <2>6, <2>7, <2>8, <2>9, <2>10, CmdTrusts
<1>. QED
    BY <1>3, <1>4 DEF CmdVerified

LEMMA CmdResumedTrusted ==
    ASSUME Grounded, Trusted, CmdResumed
    PROVE  Trusted'
<1>1. UNCHANGED <<fence, abt, rcv>> /\ cmd.pc = "resuming"
    BY DEF CmdResumed
<1>2. NoLoopAlive /\ Later
    BY <1>1, CommandAlone, CmdResumedGrounded
<1> DEFINE ok == IF exp.status = "paused" THEN 1 ELSE 0
<1>3. CASE /\ eng' = cmd.pre /\ cmd' = [cmd EXCEPT !.pc = "checking", !.res = ok]
           /\ UNCHANGED <<exp, loop>>
    <2>1. cmd' = [cmd EXCEPT !.pc = "checking", !.res = ok]
        BY <1>3
    <2>. HIDE DEF ok
    <2>2. cmd'.snap = cmd.snap /\ cmd'.pre = cmd.pre /\ cmd'.pc = "checking"
        BY <2>1, CmdFields DEF CmdTypeOf
    <2>3. Starting'
        BY <2>2 DEF Starting, Preparing
    <2>. QED
        BY <1>1, <1>2, <1>3, <2>2, <2>3, CmdMovesOn
<1>4. ASSUME cmd' = NoCmd, NEW l \in Loops, NextTask(l, eng, cmd.res, cmd.k)
      PROVE  Trusted'
    BY <1>1, <1>2, <1>4, CmdEndsTrusted, CmdFields
<1>. QED
    BY <1>3, <1>4 DEF CmdResumed

LEMMA CmdCheckedTrusted ==
    ASSUME Grounded, Trusted, CmdChecked
    PROVE  Trusted'
<1>1. /\ UNCHANGED <<exp, loop, rcv>> /\ cmd.pc = "checking"
      /\ cmd' = NoCmd /\ eng' \in {eng, NoEngine}
    BY DEF CmdChecked
<1>2. NoLoopAlive /\ Later
    BY <1>1, CommandAlone, CmdCheckedGrounded
<1>. QED
    BY <1>1, <1>2, NoCommandStarts, CmdMovesOn

LEMMA CmdStepTrusted ==
    ASSUME Grounded, Trusted, CmdStep
    PROVE  Trusted'
    BY CmdAcquireTrusted, CmdAcquiredTrusted, CmdCreatedTrusted, CmdPlannedTrusted,
       CmdSyncedTrusted, CmdVerifiedTrusted, CmdResumedTrusted, CmdCheckedTrusted DEF CmdStep

LEMMA UserTrusted ==
    ASSUME Grounded, Trusted, ~rushed', User
    PROVE  Trusted'
    BY UserAbortsTrusted, UserPausesTrusted, CmdResumeTrusted, CmdReadTrusted DEF User
-----------------------------------------------------------------------------
(* Recovery leaves behind what can be trusted.                             *)

LEMMA RcvTrusts ==
    ASSUME Grounded, Trusted, Later, UNCHANGED <<eng, loop, cmd>>,
           Good(exp', runs', ids'), Good(rcv'.snap, runs', ids'),
           Starting', RcvKnown(rcv', exp'),
           exp' = exp \/ SameLinks(exp'.att, exp.att) \/ exp' = NoExp
    PROVE  Trusted'
<1>1. AllGood'
    <2>1. /\ Good(eng', runs', ids') /\ Good(cmd'.snap, runs', ids') /\ Good(cmd'.pre, runs', ids')
          /\ \A l \in Loops : Good(loop'[l].pre, runs', ids')
        BY AllGoodLater
    <2>. QED
        BY <2>1 DEF AllGood
<1>2. Undrafted' /\ Alone'
    BY DEF Undrafted, Alone, Alive, Trusted
<1>3. ASSUME NEW l \in Loops PROVE LoopKnown(loop'[l], eng', exp')
    <2>1. LoopKnown(loop[l], eng, exp) /\ (loop[l].pc \in AtWork => loop[l].task \in Tasks)
        BY LoopFields DEF Trusted
    <2>2. CASE exp' = exp \/ SameLinks(exp'.att, exp.att)
        BY <2>1, <2>2, KnownStays, SameLinksSame
    <2>3. CASE exp' = NoExp
        <3>1. Begun(loop[l]) => loop[l].task \in Tasks
            BY <2>1 DEF Begun, AtWork
        <3>2. Begun(loop[l]) => loop[l].at \notin DOMAIN exp'.att[loop[l].task]
            BY <2>3, <3>1, NoRowFields
        <3>. QED
            BY <2>1, <3>2 DEF LoopKnown
    <2>. QED
        BY <2>2, <2>3
<1>. QED
    BY <1>1, <1>2, <1>3 DEF Trusted

LEMMA RcvStartTrusted ==
    ASSUME Grounded, Trusted, RcvStart
    PROVE  Trusted'
<1> DEFINE k == fence + 1
           todo == {t \in Tasks : Places(exp.att[t], {"running"}) # {}}
<1>1. /\ UNCHANGED <<eng, loop, cmd, abt>> /\ exp.status \in {"draft", "running", "paused"}
      /\ \/ exp' = NoExp /\ rcv' = [NoRcv EXCEPT !.pc = "ending", !.k = k]
         \/ /\ exp.status # "draft" /\ exp' = exp
            /\ rcv' = [NoRcv EXCEPT !.pc = "tasks", !.k = k, !.snap = exp, !.todo = todo]
    BY DEF RcvStart
<1>. HIDE DEF k, todo
<1>2. Later
    BY RcvStartGrounded
<1>3. CASE exp' = NoExp /\ rcv' = [NoRcv EXCEPT !.pc = "ending", !.k = k]
    <2>1. rcv'.pc = "ending" /\ rcv'.snap = NoExp
        BY <1>3, NothingInFlight DEF NoRcv
    <2>2. Starting'
        BY <1>1, <1>3, NoRowFields DEF Starting, Trusted, Unbegun
    <2>3. RcvKnown(rcv', exp')
        BY <2>1 DEF RcvKnown, AtTasks
    <2>. QED
        BY <1>1, <1>2, <1>3, <2>1, <2>2, <2>3, EmptyIsGood, RcvTrusts
<1>4. CASE /\ exp.status # "draft" /\ exp' = exp
           /\ rcv' = [NoRcv EXCEPT !.pc = "tasks", !.k = k, !.snap = exp, !.todo = todo]
    <2>1. rcv'.snap = exp
        BY <1>4, NothingInFlight DEF NoRcv
    <2>2. Starting'
        BY <1>1, <1>4 DEF Starting, Trusted
    <2>3. exp.status \notin Unbegun /\ exp.rev \in Nat
        BY <1>1, <1>4, GroundedTypes DEF Unbegun, ExpRow
    <2>4. RcvKnown(rcv', exp')
        BY <1>4, <2>1, <2>3, SameLinksSame DEF RcvKnown
    <2>5. Good(exp, runs', ids')
        BY <1>2, AllGoodLater
    <2>. QED
        BY <1>1, <1>2, <1>4, <2>1, <2>2, <2>4, <2>5, RcvTrusts
<1>. QED
    BY <1>1, <1>3, <1>4

\* The recovery goes on with what it has, or ends.
LEMMA RcvGoesOn ==
    ASSUME Grounded, Trusted, Later, UNCHANGED <<exp, eng, loop, cmd, abt>>,
           rcv'.snap = rcv.snap, rcv.pc \in AtTasks
    PROVE  Trusted'
<1>1. Good(exp', runs', ids') /\ Good(rcv'.snap, runs', ids')
    BY AllGoodLater
<1>2. Starting' /\ RcvKnown(rcv', exp')
    BY DEF Starting, Trusted, RcvKnown
<1>. QED
    BY <1>1, <1>2, RcvTrusts

LEMMA RcvReadTrusted ==
    ASSUME Grounded, Trusted, RcvRead
    PROVE  Trusted'
<1> DEFINE load == {runs[r] : r \in {RcvAttempt.run} \cap DOMAIN runs}
<1>1. /\ UNCHANGED <<exp, eng, loop, cmd, abt>> /\ rcv.pc = "tasks"
      /\ rcv' = [rcv EXCEPT !.pc = "reading", !.load = load]
    BY DEF RcvRead, durable
<1>. HIDE DEF load
<1>2. Later /\ rcv.pc \in AtTasks
    BY <1>1, RcvReadGrounded DEF AtTasks
<1>3. rcv'.snap = rcv.snap
    BY <1>1, RcvFields DEF RcvTypeOf
<1>. QED
    BY <1>1, <1>2, <1>3, RcvGoesOn

\* In the record that recovery is going to write, the attempt takes its
\* status.
LEMMA RcvSnapTakes ==
    ASSUME Grounded, NEW status \in OverStatus, NEW t, t = RcvTask, NEW x, x = rcv.snap,
           NEW i, i = FirstRunning(x.att[t]), NEW a, a = [x.att[t][i] EXCEPT !.status = status]
    PROVE  TakesStatus(x, RcvSnap(status), t, i, a)
<1> DEFINE atts == Settling(x.att[t], i, status)
<1>1. x \in ExpRow /\ x.att \in [Tasks -> Seq(Attempt)] /\ x.sel \in [Tasks -> Nat]
    BY RcvFields DEF ExpRow
<1>2. RcvSnap(status) = SnapSettled(x, t, atts)
    BY DEF RcvSnap
<1>3. atts = [x.att[t] EXCEPT ![i] = a]
    BY DEF Settling
<1>4. t \in Tasks => atts \in Seq(Attempt)
    BY <1>1, SettlingIs
<1>. HIDE DEF atts
<1> DEFINE y == SnapSettled(x, t, atts)
<1>5. /\ y \in ExpRow
      /\ \A u \in Tasks : /\ y.att[u] = IF u = t THEN atts ELSE x.att[u]
                         /\ y.sel[u] = IF u = t THEN Select(atts) ELSE x.sel[u]
    BY <1>1, <1>4, SnapSettledIs
<1>. HIDE DEF y
<1>6. y.att \in [Tasks -> Seq(Attempt)] /\ y.sel \in [Tasks -> Nat]
    BY <1>5 DEF ExpRow
<1>7. y.att = [x.att EXCEPT ![t] = atts]
    BY <1>1, <1>5, <1>6
<1>8. y.sel = [x.sel EXCEPT ![t] = Select(atts)]
    <2> DEFINE n == Select(atts)
    <2>1. \A u \in Tasks : y.sel[u] = IF u = t THEN n ELSE x.sel[u]
        BY <1>5
    <2>. HIDE DEF n
    <2>2. y.sel = [x.sel EXCEPT ![t] = n]
        BY <1>1, <1>6, <2>1
    <2>. QED
        BY <2>2 DEF n
<1>. QED
    BY <1>2, <1>3, <1>7, <1>8 DEF TakesStatus, y

\* An attempt is settled by the verdict of its run, or interrupted.
LEMMA RcvBecomesTrusted ==
    ASSUME Grounded, Trusted, Later, UNCHANGED <<exp, eng, loop, cmd, abt>>,
           rcv.pc = "reading", NEW status \in OverStatus, RcvAttemptBecomes(status),
           status \in Evidence => /\ RcvAttempt.run \in DOMAIN runs'
                                  /\ runs'[RcvAttempt.run].status = status
    PROVE  Trusted'
<1> DEFINE t == RcvTask
           x == rcv.snap
           i == FirstRunning(x.att[t])
           a == [x.att[t][i] EXCEPT !.status = status]
           y == RcvSnap(status)
<1>1. TakesStatus(x, y, t, i, a)
    BY RcvSnapTakes
<1>2. Good(x, runs', ids') /\ Attempts(x)
    BY AllGoodLater, RcvFields, RowAttempts
<1>3. ASSUME t \in Tasks, i \in DOMAIN x.att[t]
      PROVE  a \in Attempt /\ a.run = x.att[t][i].run /\ a.status = status
    <2>1. x.att[t][i] \in Attempt
        BY <1>2, <1>3 DEF Attempts
    <2>2. status \in AttemptStatus
        BY DEF OverStatus, Evidence, AttemptStatus, RunStatus
    <2>. HIDE DEF t, x, i
    <2>. QED
        BY <2>1, <2>2 DEF Attempt
<1>4. RcvAttempt.run = x.att[t][i].run
    BY DEF RcvAttempt
<1>5. rcv'.snap = y /\ y.rev = x.rev /\ rcv'.pc = "tasks"
    BY RcvBecomes
<1>. HIDE DEF t, x, i, a, y
<1>6. Good(y, runs', ids') /\ SameLinks(y.att, x.att)
    <2>1. t \in Tasks /\ i \in DOMAIN x.att[t] =>
            /\ a \in Attempt /\ a.run = x.att[t][i].run
            /\ a.status \in Evidence => a.run \in DOMAIN runs' /\ runs'[a.run].status = a.status
        BY <1>3, <1>4
    <2>. QED
        BY <1>1, <1>2, <2>1, GoodUpdated
<1>7. Good(exp', runs', ids')
    BY AllGoodLater
<1>8. Starting'
    BY DEF Starting, Trusted
<1>9. RcvKnown(rcv', exp')
    <2>1. RcvKnown(rcv, exp) /\ rcv.pc \in AtTasks
        BY DEF Trusted, AtTasks
    <2>2. SameLinks(x.att, exp.att) => SameLinks(y.att, exp.att)
        BY <1>6 DEF SameLinks
    <2>. QED
        BY <1>5, <2>1, <2>2 DEF RcvKnown, x
<1>. QED
    BY <1>5, <1>6, <1>7, <1>8, <1>9, RcvTrusts

LEMMA RcvSettleTrusted ==
    ASSUME Grounded, Trusted, RcvSettle
    PROVE  Trusted'
<1>1. UNCHANGED <<exp, eng, loop, cmd, abt>> /\ rcv.pc = "reading"
    BY DEF RcvSettle
<1>2. Later /\ Grows(runs, runs')
    BY RcvSettleGrounded DEF Later
<1>3. \/ RcvAttemptBecomes("interrupted")
      \/ \E row \in rcv.load : row.status \in OverStatus /\ RcvAttemptBecomes(row.status)
      \/ rcv' = [rcv EXCEPT !.pc = "ending"]
    BY DEF RcvSettle
<1>4. CASE RcvAttemptBecomes("interrupted")
    <2>1. "interrupted" \in OverStatus /\ "interrupted" \notin Evidence
        BY DEF OverStatus, Evidence
    <2>. QED
        BY <1>1, <1>2, <1>4, <2>1, RcvBecomesTrusted
<1>5. ASSUME NEW row \in rcv.load, row.status \in OverStatus, RcvAttemptBecomes(row.status)
      PROVE  Trusted'
    <2>1. row \in Run /\ Copy(row, AttemptRead(rcv).run, runs)
        BY <1>1, RcvFields
    <2>2. RcvAttempt.run = AttemptRead(rcv).run
        BY DEF AttemptRead, FirstTask, RcvAttempt, RcvTask
    <2>3. RcvAttempt.run \in DOMAIN runs' /\ runs'[RcvAttempt.run].status = row.status
        BY <1>2, <1>5, <2>1, <2>2, VerdictStands
    <2>. QED
        BY <1>1, <1>2, <1>5, <2>3, RcvBecomesTrusted
<1>6. CASE rcv' = [rcv EXCEPT !.pc = "ending"]
    <2>1. rcv'.snap = rcv.snap /\ rcv.pc \in AtTasks
        BY <1>1, <1>6, RcvFields DEF RcvTypeOf, AtTasks
    <2>. QED
        BY <1>1, <1>2, <2>1, RcvGoesOn
<1>. QED
    BY <1>3, <1>4, <1>5, <1>6

\* The record replaces a row of the revision it was made from, which has the
\* same links.
LEMMA RcvWriteTrusted ==
    ASSUME Grounded, Trusted, RcvWrite
    PROVE  Trusted'
<1>1. /\ UNCHANGED <<eng, loop, cmd, abt>> /\ rcv.pc = "tasks"
      /\ rcv' = [rcv EXCEPT !.pc = "ending"]
      /\ \E res : Sync(RcvRecord, rcv.snap.rev, res)
    BY DEF RcvWrite, RcvRecord
<1>2. Later
    BY RcvWriteGrounded
<1> DEFINE new == Record(RcvRecord, rcv.snap.rev + 1)
<1>3. exp' = exp \/ (exp' = new /\ exp.rev = rcv.snap.rev)
    BY <1>1 DEF Sync, IsAt
<1>4. rcv.snap.rev \in Nat /\ rcv.snap.rev + 1 \in Nat
    BY RcvFields DEF ExpRow
<1>5. /\ new.rev = rcv.snap.rev + 1 /\ new.att = rcv.snap.att /\ new.sel = rcv.snap.sel
      /\ new.status = "interrupted"
    BY <1>4, RcvRecordIs
<1>. HIDE DEF new
<1>6. rcv'.snap = rcv.snap /\ rcv'.pc = "ending"
    BY <1>1, RcvFields DEF RcvTypeOf
<1>7. RcvKnown(rcv, exp) /\ rcv.pc \in AtTasks
    BY <1>1 DEF Trusted, AtTasks
<1>8. Good(exp, runs', ids') /\ Good(rcv.snap, runs', ids')
    BY <1>2, AllGoodLater
<1>9. Good(exp', runs', ids')
    BY <1>3, <1>5, <1>8, GoodSame
<1>10. exp' = exp \/ SameLinks(exp'.att, exp.att)
    BY <1>3, <1>5, <1>7 DEF RcvKnown
<1>11. Starting'
    BY <1>1, <1>7 DEF Starting, Trusted, RcvKnown
<1>12. RcvKnown(rcv', exp')
    BY <1>6 DEF RcvKnown, AtTasks
<1>. QED
    BY <1>1, <1>2, <1>6, <1>8, <1>9, <1>10, <1>11, <1>12, RcvTrusts

LEMMA RcvEndTrusted ==
    ASSUME Grounded, Trusted, RcvEnd
    PROVE  Trusted'
<1>1. UNCHANGED <<exp, eng, loop, cmd, abt>> /\ rcv' = NoRcv
    BY DEF RcvEnd
<1>2. Later
    BY RcvEndGrounded
<1>3. rcv'.snap = NoExp /\ rcv'.pc \notin AtTasks
    BY <1>1, NothingInFlight DEF AtTasks
<1>4. Good(exp', runs', ids')
    BY <1>1, <1>2, AllGoodLater
<1>5. Starting' /\ RcvKnown(rcv', exp')
    BY <1>1, <1>3 DEF Starting, Trusted, RcvKnown
<1>. QED
    BY <1>1, <1>2, <1>3, <1>4, <1>5, EmptyIsGood, RcvTrusts

LEMMA RecoveryTrusted ==
    ASSUME Grounded, Trusted, Recovery
    PROVE  Trusted'
    BY RcvStartTrusted, RcvReadTrusted, RcvSettleTrusted, RcvWriteTrusted, RcvEndTrusted
    DEF Recovery

-----------------------------------------------------------------------------
(* The theorem about evidence.                                             *)

LEMMA LeaseExpiresTrusted ==
    ASSUME Grounded, Trusted, LeaseExpires
    PROVE  Trusted'
<1>1. UNCHANGED <<exp, eng, loop, cmd, abt, rcv>>
    BY DEF LeaseExpires
<1>2. Later
    BY LeaseExpiresGrounded
<1>3. TabOutcome
    BY <1>1, <1>2, NothingOfIt
<1>. QED
    BY <1>1, <1>3, LoopsStay, TabTrusts

LEMMA CloseTrusted ==
    ASSUME Grounded, Trusted, Close
    PROVE  Trusted'
<1>1. /\ UNCHANGED <<exp, rcv>> /\ eng' = NoEngine /\ loop' = [l \in Loops |-> NoLoop]
      /\ cmd' = NoCmd
    BY DEF Close, durable
<1>2. Later
    BY CloseGrounded
<1>3. \A l \in Loops : loop'[l] = NoLoop
    BY <1>1
<1>4. \A l \in Loops : loop'[l].pc = "off" /\ loop'[l].pre = NoEngine
    BY <1>3, NoLoopIs
<1>5. cmd'.snap = NoExp /\ cmd'.pre = NoEngine /\ Starting'
    BY <1>1, NoCommandStarts
<1>6. Good(exp', runs', ids') /\ Good(rcv'.snap, runs', ids')
    BY <1>1, <1>2, AllGoodLater
<1>7. AllGood'
    BY <1>1, <1>4, <1>5, <1>6, EmptyIsGood DEF AllGood
<1>8. Undrafted'
    BY <1>1, <1>4, <1>5, EmptyIsGood DEF Undrafted
<1>9. Alone'
    BY <1>4 DEF Alone, Alive
<1>10. RcvKnown(rcv', exp')
    BY <1>1 DEF Trusted
<1>11. \A l \in Loops : LoopKnown(loop'[l], eng', exp')
    <2>1. \A l \in Loops : loop'[l].pc \notin AtWork
        BY <1>4 DEF AtWork
    <2>. QED
        BY <2>1, NotAtWork
<1>. QED
    BY <1>5, <1>7, <1>8, <1>9, <1>10, <1>11 DEF Trusted

LEMMA NothingMovesTrusted ==
    ASSUME Grounded, Trusted, UNCHANGED vars
    PROVE  Trusted'
<1>1. UNCHANGED <<exp, eng, loop, cmd, abt, rcv>>
    BY DEF vars
<1>2. Later
    BY NothingMovesGrounded
<1>3. TabOutcome
    BY <1>1, <1>2, NothingOfIt
<1>. QED
    BY <1>1, <1>3, LoopsStay, TabTrusts

LEMMA InitTrusted ==
    ASSUME Init
    PROVE  Trusted
<1>1. /\ exp = NoExp /\ eng = NoEngine /\ loop = [l \in Loops |-> NoLoop] /\ cmd = NoCmd
      /\ rcv = NoRcv
    BY DEF Init
<1>2. \A l \in Loops : loop[l] = NoLoop
    BY <1>1
<1>3. \A l \in Loops : loop[l].pc = "off" /\ loop[l].pre = NoEngine
    BY <1>2, NoLoopIs
<1>4. /\ cmd.snap = NoExp /\ cmd.pre = NoEngine /\ cmd.kind = "none"
      /\ rcv.snap = NoExp /\ rcv.pc = "off"
    BY <1>1, NothingInFlight
<1>5. AllGood
    BY <1>1, <1>3, <1>4, EmptyIsGood DEF AllGood
<1>6. Undrafted
    BY <1>1, <1>3, <1>4, EmptyIsGood DEF Undrafted
<1>7. Alone
    BY <1>3 DEF Alone, Alive
<1>8. Starting /\ RcvKnown(rcv, exp)
    BY <1>4 DEF Starting, Preparing, RcvKnown, AtTasks
<1>9. \A l \in Loops : LoopKnown(loop[l], eng, exp)
    <2>1. \A l \in Loops : loop[l].pc \notin AtWork
        BY <1>3 DEF AtWork
    <2>. QED
        BY <2>1, NotAtWork
<1>. QED
    BY <1>5, <1>6, <1>7, <1>8, <1>9 DEF Trusted

LEMMA NextTrusted ==
    ASSUME ~rushed', Grounded, Trusted, [Next]_vars
    PROVE  Trusted'
    BY LoopStepTrusted, CmdStepTrusted, UserTrusted, ControlTrusted, RecoveryTrusted,
       LeaseExpiresTrusted, CloseTrusted, NothingMovesTrusted
    DEF Next

\* Until a command is given while something else is under way (with two
\* loops over one engine the code itself gives this up,
\* experiment-controller.ts:1097), the evidence a task is accepted by is the
\* verdict of the run it links to and the selection is that of the policy,
\* for any number of tasks, commands, resumptions, recoveries and faults,
\* although attempts, selection and runs are written by the begin, the
\* commit, the status writes, the abort, the recorder and the recovery, each
\* from a record read earlier.
THEOREM EvidenceIsEarned == Spec => []EvidenceIsTheRuns
<1> DEFINE Inv == Grounded /\ (~rushed => Trusted)
<1>1. Init => Inv
    BY InitGrounded, InitTrusted
<1>2. Inv /\ [Next]_vars => Inv'
    BY NextGrounded, NextTrusted, RushedStays
<1>3. Inv => EvidenceIsTheRuns
    BY DEF Trusted, AllGood, Good, Sound, EvidenceIsTheRuns
<1>. QED
    BY <1>1, <1>2, <1>3, PTL DEF Spec
-----------------------------------------------------------------------------
(* Every run is remembered by whatever may be written over the record.     *)

Remembers(a, R) == \A r \in R : \E t \in Tasks : \E i \in DOMAIN a[t] : a[t][i].run = r

\* The command will build its engine from the record that it read.
Planned(c) == c.pc = "planning" \/ (c.kind \in {"retry", "plan"} /\ c.pc \in {"read", "acquiring"})

Memory(e, R) == e.status # "none" => Remembers(e.att, R)

Remembered ==
    /\ Remembers(exp.att, DOMAIN runs) /\ Memory(eng, DOMAIN runs)
    /\ \A l \in Loops : loop[l].pc = "committing" => Memory(loop[l].pre, DOMAIN runs)
    /\ cmd.pc = "resuming" => Memory(cmd.pre, DOMAIN runs)
    /\ Planned(cmd) => Remembers(cmd.snap.att, DOMAIN runs)

\* An experiment that is not begun has no runs, and nothing but its start is
\* under way.
Unstarted ==
    /\ exp.status \in Unbegun => DOMAIN runs = {} /\ NoLoopAlive /\ (cmd = NoCmd \/ Preparing(cmd))
    /\ cmd.pc = "creating" => cmd.kind = "start"

LEMMA RemembersOn ==
    ASSUME NEW a, NEW b, NEW R, 0 \notin R, Remembers(a, R), Knows(b, a)
    PROVE  Remembers(b, R)
    BY DEF Remembers, Knows

LEMMA SameLinksKnows ==
    ASSUME NEW a, NEW b, SameLinks(b, a)
    PROVE  Knows(b, a)
    BY DEF SameLinks, Knows

LEMMA RunIds ==
    ASSUME Grounded
    PROVE  /\ ids \in Nat /\ DOMAIN runs \subseteq 1 .. ids /\ 0 \notin DOMAIN runs
           /\ ids + 1 \notin DOMAIN runs
<1>1. ids \in Nat /\ DOMAIN runs \subseteq 1 .. ids
    BY GroundedTypes
<1>. QED
    BY <1>1

\* The row is as it was, or has been written by one that remembers.
RowKept ==
    /\ Remembers(exp'.att, DOMAIN runs')
    /\ exp' = exp \/ exp'.status \notin Unbegun

LEMMA SyncKeeps ==
    ASSUME Grounded, Remembers(exp.att, DOMAIN runs), NEW e \in Engines, e.status \notin Unbegun,
           Memory(e, DOMAIN runs), NEW rev \in Nat, NEW res, Sync(e, rev, res), UNCHANGED runs
    PROVE  RowKept
<1>1. \/ exp' = exp
      \/ exp'.att = e.att /\ exp'.status = e.status
    BY SyncIs DEF Unbegun
<1>2. Remembers(e.att, DOMAIN runs)
    BY DEF Memory, Unbegun
<1>. QED
    BY <1>1, <1>2 DEF RowKept

LEMMA AbortedRemembers ==
    ASSUME Grounded, NEW e \in Engines, Memory(e, DOMAIN runs)
    PROVE  Memory(Aborted(e), DOMAIN runs)
<1>1. /\ SameLinks(Aborted(e).att, e.att)
      /\ e.status = "none" => Aborted(e) = e
    BY AbortedIs
<1>2. 0 \notin DOMAIN runs
    BY RunIds
<1>3. CASE e.status = "none"
    BY <1>1, <1>3
<1>4. CASE e.status # "none"
    <2>1. Remembers(e.att, DOMAIN runs)
        BY <1>4 DEF Memory
    <2>2. Remembers(Aborted(e).att, DOMAIN runs)
        BY <1>1, <1>2, <2>1, SameLinksKnows, RemembersOn
    <2>. QED
        BY <2>2 DEF Memory
<1>. QED
    BY <1>3, <1>4

\* What a loop leaves behind, once the experiment has begun.
LoopKeeps(l) ==
    /\ RowKept /\ Memory(eng', DOMAIN runs')
    /\ loop'[l].pc = "committing" => Memory(loop'[l].pre, DOMAIN runs')

LEMMA EndLoopKeeps ==
    ASSUME Grounded, NEW l \in Loops, NEW e \in Engines, Memory(e, DOMAIN runs),
           Remembers(exp.att, DOMAIN runs), EndLoop(l, e)
    PROVE  LoopKeeps(l)
<1>1. eng' = e /\ loop' = [loop EXCEPT ![l] = NoLoop] /\ UNCHANGED <<exp, runs>>
    BY DEF EndLoop
<1>2. loop'[l] = NoLoop
    BY <1>1, LoopMoves
<1>3. loop'[l].pc # "committing"
    BY <1>2, NoLoopIs
<1>. QED
    BY <1>1, <1>3 DEF LoopKeeps, RowKept

LEMMA AbortAfterFailureKeeps ==
    ASSUME Grounded, NEW l \in Loops, NEW e \in Engines, Memory(e, DOMAIN runs),
           e.status # "draft", Remembers(exp.att, DOMAIN runs), AbortAfterFailure(l, e)
    PROVE  LoopKeeps(l)
<1>1. CASE e.status = "none"
    BY <1>1, EndLoopKeeps DEF AbortAfterFailure
<1>2. CASE e.status # "none"
    <2>1. PICK res \in {0, prev + 1} :
             /\ Sync(Aborted(e), prev, res)
             /\ loop' = [loop EXCEPT ![l] = [NoLoop EXCEPT !.pc = "failed", !.res = res]]
        BY <1>2 DEF AbortAfterFailure
    <2>2. eng' = Aborted(e) /\ UNCHANGED runs
        BY <1>2 DEF AbortAfterFailure
    <2>3. Aborted(e) \in Engines /\ Aborted(e).status \notin Unbegun
        <3>1. Aborted(e) \in Engines /\ (e.status \in Terminal \cup {"none"} => Aborted(e) = e)
                /\ (e.status \notin Terminal \cup {"none"} => Aborted(e).status = "aborted")
            BY AbortedIs
        <3>. QED
            BY <1>2, <3>1 DEF Unbegun, Terminal
    <2>4. Memory(Aborted(e), DOMAIN runs) /\ prev \in Nat /\ res \in Nat
        BY AbortedRemembers, GroundedTypes
    <2>5. RowKept
        BY <2>1, <2>2, <2>3, <2>4, SyncKeeps
    <2>6. loop' = [loop EXCEPT ![l] = FailedLoop(res)]
        BY <2>1 DEF FailedLoop
    <2>7. loop'[l] = FailedLoop(res)
        BY <2>6, LoopMoves
    <2>8. loop'[l].pc = "failed"
        BY <2>4, <2>7, FailedLoopIs, GroundedTypes
    <2>. QED
        BY <2>2, <2>4, <2>5, <2>8 DEF LoopKeeps
<1>. QED
    BY <1>1, <1>2

LEMMA ReadsActiveKeeps ==
    ASSUME Grounded, NEW l \in Loops, NEW e \in Engines, Memory(e, DOMAIN runs),
           Remembers(exp.att, DOMAIN runs), ReadsActive(l, e)
    PROVE  LoopKeeps(l)
<1>1. PICK run \in ActiveRun(e) :
         loop' = [loop EXCEPT ![l] = FailingLoop(run, {runs[run]})]
    BY DEF ReadsActive, FailingLoop
<1>2. eng' = e /\ UNCHANGED <<exp, runs>>
    BY DEF ReadsActive
<1> DEFINE load == {runs[run]}
<1>3. run \in DOMAIN runs
    BY DEF ActiveRun
<1>4. run \in 0 .. ids /\ load \in SUBSET Run /\ ids \in Nat /\ fence \in Nat
    BY <1>3, GroundedTypes
<1>5. loop'[l] = FailingLoop(run, load)
    BY <1>1, LoopMoves
<1>. HIDE DEF load
<1>6. loop'[l].pc = "failing"
    BY <1>4, <1>5, FailingLoopIs
<1>. QED
    BY <1>2, <1>6 DEF LoopKeeps, RowKept

LEMMA CatchKeeps ==
    ASSUME Grounded, NEW l \in Loops, NEW e \in Engines, Memory(e, DOMAIN runs),
           e.status # "draft", Remembers(exp.att, DOMAIN runs), Catch(l, e)
    PROVE  LoopKeeps(l)
    BY CatchIs, EndLoopKeeps, ReadsActiveKeeps, AbortAfterFailureKeeps

\* An attempt without a run is put in place of one that has none, or at the
\* end.
LEMMA TakesRunRemembers ==
    ASSUME NEW x, NEW y, NEW t \in Tasks, NEW i, NEW a \in Attempt, NEW R, 0 \notin R, Attempts(x),
           TakesRun(x, y, t, i, a), i \in DOMAIN x.att[t] => x.att[t][i].run = 0,
           Remembers(x.att, R)
    PROVE  Remembers(y.att, R) /\ Remembers(y.att, R \cup {a.run})
<1> DEFINE s == x.att[t]
           b == WithAttempt(s, i, a)
<1>1. x.att \in [Tasks -> Seq(Attempt)] /\ y.att = [x.att EXCEPT ![t] = b]
    BY DEF Attempts, TakesRun
<1>2. \A u \in Tasks : y.att[u] = IF u = t THEN b ELSE x.att[u]
    BY <1>1
<1>3. s \in Seq(Attempt)
    BY <1>1
<1>. HIDE DEF s
<1>4. /\ \A j \in DOMAIN s : j \in DOMAIN b /\ (j # i => b[j] = s[j])
      /\ \E j \in DOMAIN b : b[j] = a
    <2>1. CASE i \in DOMAIN s
        <3>1. b = [s EXCEPT ![i] = a]
            BY <2>1 DEF WithAttempt
        <3>. QED
            BY <1>3, <2>1, <3>1
    <2>2. CASE i \notin DOMAIN s
        <3>1. b = Append(s, a)
            BY <2>2 DEF WithAttempt
        <3>2. Len(s) + 1 \in DOMAIN b /\ b[Len(s) + 1] = a
            BY <1>3, <3>1
        <3>3. \A j \in DOMAIN s : j \in DOMAIN b /\ b[j] = s[j]
            BY <1>3, <3>1
        <3>. QED
            BY <3>2, <3>3
    <2>. QED
        BY <2>1, <2>2
<1>. HIDE DEF b
<1>5. Knows(y.att, x.att)
    <2>1. \A j \in DOMAIN s : j \in DOMAIN b /\ (s[j].run # 0 => b[j].run = s[j].run)
        BY <1>4 DEF s
    <2>. QED
        BY <1>2, <2>1 DEF Knows, s
<1>6. Remembers(y.att, R)
    BY <1>5, RemembersOn
<1>7. \E j \in DOMAIN y.att[t] : y.att[t][j].run = a.run
    BY <1>2, <1>4
<1>. QED
    BY <1>6, <1>7 DEF Remembers

\* The run that begins is linked by row and engine at once.
LEMMA StartsTaskKeeps ==
    ASSUME Grounded, UNCHANGED fence, NEW l \in Loops, NEW e \in Engines, NEW p \in Nat,
           NEW k \in 0 .. fence, NEW t \in Tasks, NEW i \in Nat, NEW plan \in Plan,
           Memory(e, DOMAIN runs), exp.status \notin Unbegun, Remembers(exp.att, DOMAIN runs),
           StartsTask(l, e, p, k, t, i, plan)
    PROVE  LoopKeeps(l)
<1> DEFINE a == NewAttempt(ids + 1, "running", "none")
           R == DOMAIN runs
<1>1. PICK res \in {0, p + 1} :
         /\ BeginTx(t, i, ids + 1, plan, k, p, res)
         /\ loop' = [loop EXCEPT ![l] = BeginningLoop(t, i, ids + 1, plan, k, res)]
    BY DEF StartsTask, BeginningLoop
<1>2. /\ MayBegin(e, t, i) /\ eng' = TaskBegun(e, t, i, ids + 1) /\ ids' = ids + 1
      /\ UNCHANGED <<lease, tok, owner>>
    BY DEF StartsTask
<1>3. \/ UNCHANGED <<exp, runs>>
      \/ BeginWins(t, i, ids + 1, plan, p, res)
    BY <1>1, <1>2, BeginTxIs
<1>4. ids + 1 \in Nat /\ 0 \notin R
    BY RunIds
<1>5. a \in Attempt /\ a.run = ids + 1
    BY <1>4 DEF NewAttempt, Attempt, AttemptStatus, RunStatus, Plan
<1>6. /\ TakesRun(e, eng', t, i, a) /\ e.status = "running"
      /\ i \in DOMAIN e.att[t] => e.att[t][i].run = 0
    BY <1>2, <1>4, TaskBegunIs DEF MayBegin
<1>7. Attempts(e) /\ Attempts(exp)
    BY EngineFields, GroundedTypes, RowAttempts
<1>. HIDE DEF a, R
<1>8. Remembers(e.att, R)
    BY <1>6 DEF Memory, R
<1>9. Remembers(eng'.att, R) /\ Remembers(eng'.att, R \cup {ids + 1})
    BY <1>4, <1>5, <1>6, <1>7, <1>8, TakesRunRemembers
<1>10. RowKept /\ Memory(eng', DOMAIN runs')
    <2>1. CASE UNCHANGED <<exp, runs>>
        BY <1>9, <2>1 DEF RowKept, Memory, R
    <2>2. CASE BeginWins(t, i, ids + 1, plan, p, res)
        <3>1. /\ DOMAIN runs' = R \cup {ids + 1} /\ exp'.status = exp.status
              /\ TakesRun(exp, exp', t, i, a)
              /\ i \in DOMAIN exp.att[t] => exp.att[t][i].run = 0
            BY <2>2 DEF BeginWins, TakesRun, R, a
        <3>2. Remembers(exp'.att, R \cup {ids + 1})
            BY <1>4, <1>5, <1>7, <3>1, TakesRunRemembers DEF R
        <3>. QED
            BY <1>9, <3>1, <3>2 DEF RowKept, Memory
    <2>. QED
        BY <1>3, <2>1, <2>2
<1>11. loop'[l] = BeginningLoop(t, i, ids + 1, plan, k, res)
    BY <1>1, LoopMoves
<1>12. loop'[l].pc = "beginning"
    BY <1>11, BeginningLoopFields
<1>. QED
    BY <1>10, <1>12 DEF LoopKeeps

LEMMA ReadsBaseKeeps ==
    ASSUME Grounded, NEW l \in Loops, NEW e \in Engines, NEW k \in 0 .. fence, NEW t \in Tasks,
           NEW i \in Nat, Memory(e, DOMAIN runs), Remembers(exp.att, DOMAIN runs),
           ReadsBase(l, e, k, t, i)
    PROVE  LoopKeeps(l)
<1>1. PICK res \in {0, 1} : loop' = [loop EXCEPT ![l] = BaseLoop(t, i, k, res)]
    BY DEF ReadsBase, BaseLoop
<1>2. eng' = e /\ UNCHANGED <<exp, runs>>
    BY DEF ReadsBase
<1>3. loop'[l] = BaseLoop(t, i, k, res)
    BY <1>1, LoopMoves
<1>4. loop'[l].pc = "base"
    BY <1>3, BaseLoopIs, GroundedTypes
<1>. QED
    BY <1>2, <1>4 DEF LoopKeeps, RowKept

LEMMA NextTaskKeeps ==
    ASSUME Grounded, UNCHANGED fence, NEW l \in Loops, NEW e \in Engines, NEW p \in Nat,
           NEW k \in 0 .. fence, Memory(e, DOMAIN runs), e.status # "draft",
           exp.status \notin Unbegun, Remembers(exp.att, DOMAIN runs), NextTask(l, e, p, k)
    PROVE  LoopKeeps(l)
<1>1. CASE EndLoop(l, e)
    BY <1>1, EndLoopKeeps
<1>2. ASSUME NEW t \in Tasks, NEW i \in Nat, NEW plan \in Plan,
             ReadsBase(l, e, k, t, i) \/ StartsTask(l, e, p, k, t, i, plan) \/ Catch(l, e)
      PROVE  LoopKeeps(l)
    BY <1>2, ReadsBaseKeeps, StartsTaskKeeps, CatchKeeps
<1>. QED
    BY <1>1, <1>2, NextTaskIs
-----------------------------------------------------------------------------
(* The steps of the run loop remember.                                     *)

\* A loop at work knows that its experiment has begun.
Remembering == Grounded /\ Trusted /\ Remembered /\ Unstarted

LEMMA MemoryOf ==
    ASSUME Remembering
    PROVE  /\ Grounded /\ Trusted /\ Remembers(exp.att, DOMAIN runs)
           /\ Memory(eng, DOMAIN runs) /\ eng \in Engines /\ eng.status # "draft" /\ prev \in Nat
           /\ \A l \in Loops : /\ loop[l].pre \in Engines /\ loop[l].pre.status # "draft"
                               /\ loop[l].pc = "committing" => Memory(loop[l].pre, DOMAIN runs)
                               /\ loop[l].pc # "off" => exp.status \notin Unbegun
    BY EngIsGood DEF Remembering, Remembered, Unstarted, NoLoopAlive

LEMMA LoopBaseKeeps ==
    ASSUME Remembering, NEW l \in Loops, LoopBase(l)
    PROVE  LoopKeeps(l)
<1>1. loop[l].pc = "base" /\ fence' = fence
    BY DEF LoopBase
<1>2. \/ Catch(l, eng)
      \/ NextTask(l, eng, prev, loop[l].k)
      \/ StartsTask(l, eng, prev, loop[l].k, loop[l].task, loop[l].at, loop[l].plan)
    BY BeginTaskIs DEF LoopBase
<1>3. loop[l].task \in Tasks /\ loop[l].at \in Nat /\ loop[l].plan \in Plan
         /\ loop[l].k \in 0 .. fence
    BY <1>1, LoopFields, MemoryOf DEF AtWork
<1>. QED
    BY <1>1, <1>2, <1>3, MemoryOf, CatchKeeps, NextTaskKeeps, StartsTaskKeeps

\* The engine is written, or there is none to write.
LEMMA SyncEngineKeeps ==
    ASSUME Remembering, NEW rev \in Nat, NEW res, SyncEngine(rev, res), UNCHANGED <<runs, eng>>
    PROVE  RowKept /\ Memory(eng', DOMAIN runs')
<1>1. CASE eng.status = "none"
    BY <1>1, MemoryOf DEF SyncEngine, RowKept
<1>2. CASE eng.status # "none"
    <2>1. Sync(eng, rev, res) /\ eng.status \notin Unbegun
        BY <1>2, MemoryOf DEF SyncEngine, Unbegun
    <2>. QED
        BY <2>1, MemoryOf, SyncKeeps
<1>. QED
    BY <1>1, <1>2

LEMMA LoopToIs ==
    ASSUME Grounded, NEW l \in Loops, NEW pc, NEW res, LoopTo(l, pc, res)
    PROVE  loop'[l].pc = pc
<1>1. loop'[l] = [loop[l] EXCEPT !.pc = pc, !.res = res]
    BY LoopMoves DEF LoopTo
<1>. QED
    BY <1>1, LoopFields DEF LoopTypeOf

LEMMA LoopBegunKeeps ==
    ASSUME Remembering, NEW l \in Loops, LoopBegun(l)
    PROVE  LoopKeeps(l)
<1>1. CASE Catch(l, eng)
    BY <1>1, MemoryOf, CatchKeeps
<1>2. ASSUME prev' = loop[l].res, UNCHANGED <<eng, runs>>, NEW res,
             SyncEngine(prev', res), LoopTo(l, "begun", res)
      PROVE  LoopKeeps(l)
    <2>1. prev' \in Nat /\ loop'[l].pc = "begun"
        BY <1>2, MemoryOf, LoopFields, LoopToIs
    <2>. QED
        BY <1>2, <2>1, SyncEngineKeeps DEF LoopKeeps
<1>. QED
    BY <1>1, <1>2 DEF LoopBegun

LEMMA LoopWaitsKeeps ==
    ASSUME Remembering, NEW l \in Loops, UNCHANGED <<exp, eng>>, DOMAIN runs' = DOMAIN runs,
           loop'[l].pc # "committing"
    PROVE  LoopKeeps(l)
    BY MemoryOf DEF LoopKeeps, RowKept

LEMMA OverKnows ==
    ASSUME NEW a \in [Tasks -> Seq(Attempt)], NEW b, NEW t \in Tasks, NEW i,
           NEW status \in RunStatus, NEW cov \in 0 .. 2, NEW plan \in Plan,
           b = [a EXCEPT ![t] = Over(a[t], i, status, cov, plan)]
    PROVE  Knows(b, a)
<1> DEFINE s == a[t]
           v == Finalized(s[i], status, cov, plan)
           atts == Over(s, i, status, cov, plan)
<1>1. s \in Seq(Attempt) /\ atts = [s EXCEPT ![i] = v]
    BY DEF Over
<1>2. \A u \in Tasks : b[u] = IF u = t THEN atts ELSE a[u]
    OBVIOUS
<1>. HIDE DEF s, atts
<1>3. i \in DOMAIN s => v.run = s[i].run
    <2>1. i \in DOMAIN s => s[i] \in Attempt
        BY <1>1
    <2>. QED
        BY <2>1, FinalizedIs
<1>. HIDE DEF v
<1>4. \A j \in DOMAIN s : j \in DOMAIN atts /\ atts[j].run = s[j].run
    BY <1>1, <1>3
<1>. QED
    BY <1>2, <1>4 DEF Knows, s

LEMMA CommittedKnows ==
    ASSUME NEW e \in Engine, NEW t \in Tasks, NEW i, NEW status \in RunStatus,
           NEW cov \in 0 .. 2, NEW plan \in Plan
    PROVE  Knows(TaskCommitted(e, t, i, status, cov, plan).att, e.att)
<1> DEFINE c == TaskCommitted(e, t, i, status, cov, plan)
           atts == Over(e.att[t], i, status, cov, plan)
<1>1. /\ c.att = [e.att EXCEPT ![t] = atts] /\ c.sel = [e.sel EXCEPT ![t] = Select(atts)]
      /\ c.status \in {e.status, "completed", "completed_with_failures", "paused"}
    BY TaskCommittedIs
<1>2. e.att \in [Tasks -> Seq(Attempt)]
    BY DEF Engine
<1>. HIDE DEF c
<1>3. Knows(c.att, e.att)
    BY <1>1, <1>2, OverKnows
<1>. QED
    BY <1>3 DEF c

LEMMA CommitsKeeps ==
    ASSUME Remembering, NEW l \in Loops, loop[l].pc = "executed", fence' = fence,
           NEW row, NEW cov, NEW res, Commits(l, row, cov, res)
    PROVE  LoopKeeps(l)
<1> DEFINE t == loop[l].task
           i == loop[l].at
           run == loop[l].run
           plan == loop[l].plan
           k == loop[l].k
           R == DOMAIN runs
<1>0. Grounded
    BY MemoryOf
<1>1. /\ t \in Tasks /\ run \in DOMAIN runs /\ row \in Run /\ plan \in Plan
      /\ loop[l] \in LoopTypeOf(ids, fence)
    BY <1>0, LoopFields DEF AtWork, Begun, Commits
<1>2. cov \in 0 .. 2 /\ row.status \in RunStatus
    BY <1>1, CoverageIs DEF Commits, Run
<1>3. eng \in Engine /\ eng.status # "none"
    <2>1. eng.task = t
        BY DEF Commits, MayCommit
    <2>2. t # 0
        BY <1>1 DEF Tasks
    <2>3. eng # NoEngine
        BY <2>1, <2>2, NoRowFields
    <2>. QED
        BY <2>3, MemoryOf, EngineFields
<1>4. CommitTx(t, i, run, row, k, prev, cov, plan, res) /\ UNCHANGED <<ids, lease, tok>>
    BY DEF Commits
<1>5. eng' = TaskCommitted(eng, t, i, row.status, cov, plan)
    BY DEF Commits
<1> DEFINE x == [loop[l] EXCEPT !.pc = "committing", !.res = res, !.load = {}, !.pre = eng]
<1>6. loop' = [loop EXCEPT ![l] = x]
    BY DEF Commits
<1>7. loop'[l] = x
    BY <1>0, <1>6, LoopMoves
<1>8. loop'[l].pre = eng
    BY <1>1, <1>7 DEF LoopTypeOf
<1>. HIDE DEF x, t, i, run, plan, k, R
<1>9. /\ 0 \notin R /\ Remembers(eng.att, R) /\ Remembers(exp.att, R) /\ prev \in Nat
      /\ eng.att \in [Tasks -> Seq(Attempt)] /\ exp.att \in [Tasks -> Seq(Attempt)]
      /\ exp.status \notin Unbegun
    BY <1>0, <1>3, MemoryOf, RunIds, GroundedTypes DEF Memory, Engine, ExpRow, R
<1>10. Knows(eng'.att, eng.att)
    BY <1>1, <1>2, <1>3, <1>5, CommittedKnows
<1>11. Remembers(eng'.att, R)
    BY <1>9, <1>10, RemembersOn
<1>12. UNCHANGED <<exp, runs>> \/ CommitWins(t, i, run, row, prev, cov, plan, res)
    <2>1. Steady
        BY <1>4 DEF Steady
    <2>2. CommitEnds(t, i, run, row, k, prev, cov, plan, res)
        BY <1>0, <1>1, <1>2, <1>4, <1>9, <2>1, CommitTxIs
    <2>. QED
        BY <2>2 DEF CommitEnds
<1>13. RowKept /\ DOMAIN runs' = R
    <2>1. CASE UNCHANGED <<exp, runs>>
        BY <1>9, <2>1 DEF RowKept, R
    <2>2. CASE CommitWins(t, i, run, row, prev, cov, plan, res)
        <3>1. /\ exp'.att = [exp.att EXCEPT ![t] = Over(exp.att[t], i, row.status, cov, plan)]
              /\ exp'.status = exp.status /\ DOMAIN runs' = R
            BY <2>2 DEF CommitWins, R
        <3>2. Knows(exp'.att, exp.att)
            BY <1>1, <1>2, <1>9, <3>1, OverKnows
        <3>3. Remembers(exp'.att, R)
            BY <1>9, <3>2, RemembersOn
        <3>. QED
            BY <1>9, <3>1, <3>3 DEF RowKept
    <2>. QED
        BY <1>12, <2>1, <2>2
<1>. QED
    BY <1>8, <1>9, <1>11, <1>13 DEF LoopKeeps, Memory

LEMMA LoopCommitKeeps ==
    ASSUME Remembering, NEW l \in Loops, LoopCommit(l)
    PROVE  LoopKeeps(l)
<1>1. loop[l].pc = "executed" /\ fence' = fence
    BY DEF LoopCommit
<1>. QED
    BY <1>1, LoopCommitIs, MemoryOf, CatchKeeps, CommitsKeeps

\* A commit that failed goes back to an engine that remembers, too.
LEMMA LoopCommittedKeeps ==
    ASSUME Remembering, NEW l \in Loops, LoopCommitted(l)
    PROVE  LoopKeeps(l)
<1>1. CASE loop[l].pc = "committing" /\ Catch(l, loop[l].pre)
    BY <1>1, MemoryOf, CatchKeeps
<1>2. ASSUME prev' = loop[l].res, UNCHANGED <<eng, runs>>, NEW res,
             SyncEngine(prev', res), LoopTo(l, "committed", res)
      PROVE  LoopKeeps(l)
    <2>1. prev' \in Nat /\ loop'[l].pc = "committed"
        BY <1>2, MemoryOf, LoopFields, LoopToIs
    <2>. QED
        BY <1>2, <2>1, SyncEngineKeeps DEF LoopKeeps
<1>. QED
    BY <1>1, <1>2 DEF LoopCommitted

LEMMA LoopAdvanceKeeps ==
    ASSUME Remembering, NEW l \in Loops, LoopAdvance(l)
    PROVE  LoopKeeps(l)
<1>1. /\ fence' = fence /\ loop[l].pc = "committed"
      /\ Catch(l, eng) \/ NextTask(l, eng, loop[l].res, loop[l].k)
    BY DEF LoopAdvance
<1>2. loop[l].res \in Nat /\ loop[l].k \in 0 .. fence
    BY MemoryOf, LoopFields
<1>. QED
    BY <1>1, <1>2, MemoryOf, CatchKeeps, NextTaskKeeps

LEMMA LoopFailingKeeps ==
    ASSUME Remembering, NEW l \in Loops, LoopFailing(l)
    PROVE  LoopKeeps(l)
<1>1. CASE AbortAfterFailure(l, eng)
    BY <1>1, MemoryOf, AbortAfterFailureKeeps
<1>2. ASSUME NEW row, AbortRun(loop[l].run, row), LoopTo(l, "finalized", 0), UNCHANGED <<exp, eng>>
      PROVE  LoopKeeps(l)
    <2>1. DOMAIN runs' = DOMAIN runs
        BY <1>2 DEF AbortRun
    <2>2. loop'[l].pc = "finalized"
        BY <1>2, MemoryOf, LoopToIs
    <2>. QED
        BY <1>2, <2>1, <2>2, LoopWaitsKeeps
<1>. QED
    BY <1>1, <1>2 DEF LoopFailing

\* The executor has its run written, and nothing of the experiment.
LEMMA LoopExecutionKeeps ==
    ASSUME Remembering, NEW l \in Loops, RunLoad(l) \/ RunWrite(l) \/ LoopExecuted(l)
    PROVE  LoopKeeps(l)
<1>1. /\ UNCHANGED <<exp, eng>> /\ loop[l].pc = "executing"
      /\ loop[l] \in LoopTypeOf(ids, fence)
    BY MemoryOf, LoopFields DEF RunLoad, RunWrite, LoopExecuted, Executing, durable
<1>2. DOMAIN runs' = DOMAIN runs
    BY DEF RunLoad, RunWrite, LoopExecuted, durable
<1> DEFINE row == {runs[loop[l].run]}
           x == [loop[l] EXCEPT !.load = row]
           y == [loop[l] EXCEPT !.load = {}]
           z == [loop[l] EXCEPT !.load = {}, !.lossy = TRUE]
           v == [loop[l] EXCEPT !.pc = "executed", !.load = row]
           w == [loop[l] EXCEPT !.pc = "executed", !.res = 0]
<1>3. \/ loop' = [loop EXCEPT ![l] = x] \/ loop' = [loop EXCEPT ![l] = y]
      \/ loop' = [loop EXCEPT ![l] = z] \/ loop' = [loop EXCEPT ![l] = v]
      \/ loop' = [loop EXCEPT ![l] = w]
    BY DEF RunLoad, RunWrite, LoopExecuted, LoopTo
<1>4. \A n \in {x, y, z, v, w} : n.pc \in {"executing", "executed"}
    <2>. HIDE DEF row
    <2>. QED BY <1>1 DEF LoopTypeOf
<1>. HIDE DEF x, y, z, v, w
<1>5. loop'[l] \in {x, y, z, v, w}
    BY <1>3, MemoryOf, LoopMoves
<1>. QED
    BY <1>1, <1>2, <1>4, <1>5, LoopWaitsKeeps

LEMMA LoopExecuteKeeps ==
    ASSUME Remembering, NEW l \in Loops, LoopExecute(l)
    PROVE  LoopKeeps(l)
<1>1. CASE Catch(l, eng)
    BY <1>1, MemoryOf, CatchKeeps
<1>2. CASE LoopTo(l, "executing", 0) /\ UNCHANGED <<exp, eng, runs>>
    <2>1. loop'[l].pc = "executing"
        BY <1>2, MemoryOf, LoopToIs
    <2>. QED
        BY <1>2, <2>1, LoopWaitsKeeps
<1>. QED
    BY <1>1, <1>2 DEF LoopExecute

LEMMA LoopStepKeeps ==
    ASSUME Remembering, NEW l \in Loops, LoopStep(l)
    PROVE  LoopKeeps(l)
<1>1. LoopFinalized(l) => AbortAfterFailure(l, eng)
    BY DEF LoopFinalized
<1>2. LoopFailed(l) => EndLoop(l, eng)
    BY DEF LoopFailed
<1>3. LoopFinalized(l) \/ LoopFailed(l) => LoopKeeps(l)
    BY <1>1, <1>2, MemoryOf, AbortAfterFailureKeeps, EndLoopKeeps
<1>. QED
    BY <1>3, LoopBaseKeeps, LoopBegunKeeps, LoopExecuteKeeps, LoopExecutionKeeps, LoopCommitKeeps,
       LoopCommittedKeeps, LoopAdvanceKeeps, LoopFailingKeeps DEF LoopStep

LEMMA LoopRemembers ==
    ASSUME Grounded, exp.status \notin Unbegun, NEW l \in Loops, LoopKeeps(l), cmd' = NoCmd,
           loop' = [loop EXCEPT ![l] = loop'[l]], \A m \in Loops : m # l => loop[m].pc = "off"
    PROVE  Remembered' /\ Unstarted'
<1>1. \A m \in Loops : m # l => loop'[m].pc = "off"
    BY LoopMoves
<1>2. exp'.status \notin Unbegun
    BY DEF LoopKeeps, RowKept
<1>3. cmd'.pc = "off" /\ ~Planned(cmd')
    BY NothingInFlight DEF Planned
<1>4. \A m \in Loops : loop'[m].pc = "committing" => Memory(loop'[m].pre, DOMAIN runs')
    BY <1>1 DEF LoopKeeps
<1>. QED
    BY <1>2, <1>3, <1>4 DEF LoopKeeps, RowKept, Remembered, Unstarted

LEMMA LoopStepRemembers ==
    ASSUME Remembering, NEW l \in Loops, LoopStep(l)
    PROVE  Remembered' /\ Unstarted'
<1>1. LoopKeeps(l)
    BY LoopStepKeeps
<1>2. /\ loop' = [loop EXCEPT ![l] = loop'[l]] /\ loop[l].pc # "off"
      /\ \A m \in Loops : m # l => loop[m].pc = "off"
      /\ cmd = NoCmd /\ cmd' = cmd
    BY MemoryOf, LoopStepMoves
<1>. QED
    BY <1>1, <1>2, MemoryOf, LoopRemembers
-----------------------------------------------------------------------------
(* Abort and pause remember.                                               *)

LEMMA TabRemembers ==
    ASSUME Remembering, RowKept, Memory(eng', DOMAIN runs), DOMAIN runs' = DOMAIN runs, cmd' = cmd,
           \A l \in Loops : SameTask(loop[l], loop'[l])
    PROVE  Remembered' /\ Unstarted'
<1>1. \A l \in Loops : loop'[l].pc = loop[l].pc /\ loop'[l].pre = loop[l].pre
    BY DEF SameTask
<1>2. Remembered'
    BY <1>1, MemoryOf DEF Remembering, Remembered, RowKept
<1>3. Unstarted'
    BY <1>1 DEF Remembering, Unstarted, RowKept, NoLoopAlive
<1>. QED
    BY <1>2, <1>3

LEMMA NothingIsForgotten ==
    ASSUME Remembering, UNCHANGED <<exp, eng>>, DOMAIN runs' = DOMAIN runs
    PROVE  RowKept /\ Memory(eng', DOMAIN runs)
    BY MemoryOf DEF RowKept

LEMMA AbortEngineKeeps ==
    ASSUME Remembering, AbortEngine, UNCHANGED runs
    PROVE  RowKept /\ Memory(eng', DOMAIN runs)
<1>1. eng' = Aborted(eng)
    BY DEF AbortEngine
<1>2. Memory(Aborted(eng), DOMAIN runs)
    BY MemoryOf, AbortedRemembers
<1>3. CASE eng.status = "none"
    BY <1>1, <1>2, <1>3, MemoryOf DEF AbortEngine, RowKept
<1>4. CASE eng.status # "none"
    <2>1. PICK res \in {0, prev + 1} : Sync(Aborted(eng), prev, res)
        BY <1>4 DEF AbortEngine
    <2>2. Aborted(eng) \in Engines /\ Aborted(eng).status \notin Unbegun
        <3>1. /\ Aborted(eng) \in Engines
              /\ eng.status \in Terminal \cup {"none"} => Aborted(eng) = eng
              /\ eng.status \notin Terminal \cup {"none"} => Aborted(eng).status = "aborted"
            BY MemoryOf, AbortedIs
        <3>. QED
            BY <1>4, <3>1, MemoryOf DEF Unbegun, Terminal
    <2>3. RowKept
        BY <1>2, <2>1, <2>2, MemoryOf, SyncKeeps
    <2>. QED
        BY <1>1, <1>2, <2>3
<1>. QED
    BY <1>3, <1>4

LEMMA AbortStartsRemembers ==
    ASSUME Remembering, AbortStarts
    PROVE  Remembered' /\ Unstarted'
<1>1. /\ UNCHANGED <<runs, cmd>>
      /\ loop' = [l \in Loops |-> IF l = ctrl THEN [loop[l] EXCEPT !.sig = TRUE] ELSE loop[l]]
    BY DEF AbortStarts
<1>2. \A l \in Loops : loop'[l] \in {loop[l], [loop[l] EXCEPT !.sig = TRUE]}
    BY <1>1
<1>3. ASSUME NEW l \in Loops PROVE SameTask(loop[l], loop'[l])
    <2>1. loop[l] \in LoopTypeOf(ids, fence)
        BY MemoryOf, LoopFields
    <2>2. SameTask(loop[l], [loop[l] EXCEPT !.sig = TRUE])
        BY <2>1 DEF SameTask, LoopTypeOf
    <2>. QED
        BY <1>2, <2>2 DEF SameTask
<1>4. UNCHANGED <<exp, eng>> \/ AbortEngine
    BY DEF AbortStarts
<1>5. RowKept /\ Memory(eng', DOMAIN runs)
    BY <1>1, <1>4, NothingIsForgotten, AbortEngineKeeps
<1>. QED
    BY <1>1, <1>3, <1>5, TabRemembers

LEMMA UserPausesRemembers ==
    ASSUME Remembering, UserPauses
    PROVE  Remembered' /\ Unstarted'
<1>1. /\ UNCHANGED <<runs, loop, cmd>>
      /\ eng.status # "none" /\ eng' = PauseRequested(eng)
      /\ exp' = exp \/ \E res \in {0, prev + 1} : /\ Sync(PauseRequested(eng), prev, res)
                                                 /\ PauseRequested(eng).status = "paused"
    BY DEF UserPauses
<1>2. /\ PauseRequested(eng) \in Engine /\ PauseRequested(eng).att = eng.att
    BY <1>1, MemoryOf, PauseRequestedIs
<1>3. Memory(PauseRequested(eng), DOMAIN runs)
    BY <1>1, <1>2, MemoryOf DEF Memory
<1>4. RowKept
    <2>1. CASE exp' = exp
        BY <1>1, <2>1, MemoryOf DEF RowKept
    <2>2. ASSUME NEW res \in {0, prev + 1}, Sync(PauseRequested(eng), prev, res),
                 PauseRequested(eng).status = "paused"
          PROVE  RowKept
        <3>1. PauseRequested(eng) \in Engines /\ PauseRequested(eng).status \notin Unbegun
            BY <1>2, <2>2 DEF Engines, Unbegun
        <3>. QED
            BY <1>1, <1>3, <2>2, <3>1, MemoryOf, SyncKeeps
    <2>. QED
        BY <1>1, <2>1, <2>2
<1>. QED
    BY <1>1, <1>3, <1>4, LoopsStay, TabRemembers

LEMMA TabStepRemembers ==
    ASSUME Remembering,
           \/ UserAborts \/ UserPauses \/ Control \/ LeaseExpires \/ UNCHANGED vars
    PROVE  Remembered' /\ Unstarted'
<1>1. CASE AbortStarts
    BY <1>1, AbortStartsRemembers
<1>2. CASE UserPauses
    BY <1>2, UserPausesRemembers
<1>3. CASE AbortRead \/ AbortFinalized \/ AbortEnds \/ PauseEnds \/ LeaseExpires \/ UNCHANGED vars
    <2>1. UNCHANGED <<loop, cmd>> /\ DOMAIN runs' = DOMAIN runs
        BY <1>3 DEF AbortRead, AbortFinalized, AbortEnds, PauseEnds, LeaseExpires, vars, durable,
                    AbortRun
    <2>2. UNCHANGED <<exp, eng>> \/ (AbortEngine /\ UNCHANGED runs)
        BY <1>3 DEF AbortRead, AbortFinalized, AbortEnds, PauseEnds, LeaseExpires, vars, durable
    <2>3. RowKept /\ Memory(eng', DOMAIN runs)
        BY <2>1, <2>2, NothingIsForgotten, AbortEngineKeeps
    <2>. QED
        BY <2>1, <2>3, LoopsStay, TabRemembers
<1>. QED
    BY <1>1, <1>2, <1>3 DEF UserAborts, LeaseNoticed, Control
-----------------------------------------------------------------------------
(* The commands remember.                                                  *)

LEMMA CmdRemembers ==
    ASSUME NoLoopAlive, UNCHANGED loop, NEW R, DOMAIN runs' = R, Remembers(exp'.att, R),
           Memory(eng', R), cmd'.pc = "resuming" => Memory(cmd'.pre, R),
           Planned(cmd') => Remembers(cmd'.snap.att, R), cmd'.pc = "creating" => cmd'.kind = "start",
           exp'.status \in Unbegun => R = {} /\ (cmd' = NoCmd \/ Preparing(cmd'))
    PROVE  Remembered' /\ Unstarted'
    BY DEF Remembered, Unstarted, NoLoopAlive

\* The command is through, or has been refused.
LEMMA CmdGone ==
    ASSUME Remembering, NoLoopAlive, UNCHANGED <<loop, runs>>, cmd' = NoCmd,
           eng' \in {eng, NoEngine}, exp' = exp \/ (exp' = NoExp /\ exp.status \in Unbegun)
    PROVE  Remembered' /\ Unstarted'
<1>1. cmd'.pc = "off" /\ ~Planned(cmd')
    BY NothingInFlight DEF Planned
<1>2. exp.status \in Unbegun => DOMAIN runs = {}
    BY DEF Remembering, Unstarted
<1>3. exp'.status \in Unbegun => DOMAIN runs = {}
    BY <1>2
<1>4. Remembers(exp'.att, DOMAIN runs)
    BY <1>2, MemoryOf DEF Remembers
<1>5. Memory(eng', DOMAIN runs)
    BY MemoryOf, NoRowFields DEF Memory
<1>. QED
    BY <1>1, <1>3, <1>4, <1>5, CmdRemembers

\* Only a start is under way while the experiment has not begun.
LEMMA CommandBegins ==
    ASSUME Remembering, cmd.pc # "off"
    PROVE  /\ NoLoopAlive
           /\ exp.status \in Unbegun => DOMAIN runs = {} /\ Preparing(cmd) /\ cmd.kind = "start"
           /\ Preparing(cmd) => exp.status \in Unbegun
<1>1. cmd # NoCmd
    BY NothingInFlight
<1>2. NoLoopAlive
    BY CommandAlone, MemoryOf
<1>. QED
    BY <1>1, <1>2, MemoryOf DEF Remembering, Unstarted, Preparing, Trusted, Starting

LEMMA CmdSyncRemembers ==
    ASSUME Remembering, cmd.pc # "off", UNCHANGED <<loop, runs>>,
           NEW e \in Engine, e.status = "running", Remembers(e.att, DOMAIN runs), NEW rev \in Nat,
           CmdSync(e, rev)
    PROVE  Remembered' /\ Unstarted'
<1>1. PICK res \in {0, rev + 1} :
         Sync(e, rev, res) /\ cmd' = [cmd EXCEPT !.pc = "syncing", !.res = res]
    BY DEF CmdSync
<1>2. eng' = e /\ e \in Engines /\ e.status \notin Unbegun /\ Memory(e, DOMAIN runs)
    BY DEF CmdSync, Engines, Unbegun, Memory
<1>3. RowKept
    BY <1>1, <1>2, MemoryOf, SyncKeeps
<1>4. (exp' = exp /\ res = 0) \/ exp'.status = e.status
    BY <1>1, <1>2, MemoryOf, SyncIs DEF Unbegun
<1>5. cmd'.kind = cmd.kind /\ cmd'.res = res /\ cmd'.pc = "syncing"
    BY <1>1, MemoryOf, CmdFields DEF CmdTypeOf
<1>6. ~Planned(cmd')
    BY <1>5 DEF Planned
<1>7. exp'.status \in Unbegun => DOMAIN runs = {} /\ Preparing(cmd')
    BY <1>2, <1>4, <1>5, CommandBegins DEF Preparing
<1>. QED
    BY <1>2, <1>3, <1>5, <1>6, <1>7, CommandBegins, CmdRemembers DEF RowKept

LEMMA CmdReadRemembers ==
    ASSUME Remembering, ~rushed', NEW kind \in {"start", "retry", "plan"}, CmdRead(kind)
    PROVE  Remembered' /\ Unstarted'
<1>1. /\ UNCHANGED <<exp, eng, loop, runs>>
      /\ cmd' = [NoCmd EXCEPT !.kind = kind, !.pc = "read", !.snap = exp]
      /\ IF kind = "start" THEN exp.status = "none" ELSE exp.status \in Terminal
    BY DEF CmdRead, durable
<1>2. NoLoopAlive
    BY ReadQuietly, QuietIs
<1>3. cmd'.kind = kind /\ cmd'.snap = exp /\ cmd'.pc = "read"
    BY <1>1 DEF NoCmd
<1>4. exp'.status \in Unbegun => DOMAIN runs = {} /\ Preparing(cmd')
    BY <1>1, <1>3 DEF Remembering, Unstarted, Unbegun, Terminal, Preparing
<1>. QED
    BY <1>1, <1>2, <1>3, <1>4, MemoryOf, CmdRemembers

LEMMA CmdResumeRemembers ==
    ASSUME Remembering, ~rushed', CmdResume
    PROVE  Remembered' /\ Unstarted'
<1> DEFINE ok == IF tok # 0 /\ lease = tok THEN 1 ELSE 0
<1>1. /\ UNCHANGED <<exp, eng, loop, runs>> /\ exp.status = "paused"
      /\ cmd' = [NoCmd EXCEPT !.kind = "resume", !.pc = "verifying", !.k = tok, !.res = ok]
    BY DEF CmdResume, durable
<1>. HIDE DEF ok
<1>2. NoLoopAlive
    BY ResumedQuietly, QuietIs
<1>3. cmd'.kind = "resume" /\ cmd'.pc = "verifying"
    BY <1>1 DEF NoCmd
<1>4. ~Planned(cmd') /\ exp'.status \notin Unbegun
    BY <1>1, <1>3 DEF Planned, Unbegun
<1>. QED
    BY <1>1, <1>2, <1>3, <1>4, MemoryOf, CmdRemembers

LEMMA CmdAcquireRemembers ==
    ASSUME Remembering, CmdAcquire
    PROVE  Remembered' /\ Unstarted'
<1>1. /\ UNCHANGED <<exp, eng, loop, runs>> /\ cmd.pc = "read"
      /\ cmd' = NoCmd \/ cmd' = [cmd EXCEPT !.pc = "acquiring", !.k = fence + 1]
    BY DEF CmdAcquire
<1>2. CASE cmd' = NoCmd
    BY <1>1, <1>2, CommandBegins, CmdGone
<1>3. CASE cmd' = [cmd EXCEPT !.pc = "acquiring", !.k = fence + 1]
    <2>1. cmd'.kind = cmd.kind /\ cmd'.snap = cmd.snap /\ cmd'.pc = "acquiring"
        BY <1>3, MemoryOf, CmdFields DEF CmdTypeOf
    <2>2. Planned(cmd') => Remembers(cmd'.snap.att, DOMAIN runs)
        BY <1>1, <2>1 DEF Planned, Remembering, Remembered
    <2>3. exp'.status \in Unbegun => DOMAIN runs = {} /\ Preparing(cmd')
        BY <1>1, <2>1, CommandBegins DEF Preparing
    <2>. QED
        BY <1>1, <2>1, <2>2, <2>3, MemoryOf, CommandBegins, CmdRemembers
<1>. QED
    BY <1>1, <1>2, <1>3

\* What is queued behind the record a command has read.
LEMMA QueuedRemembers ==
    ASSUME Remembering, Planned(cmd), UNCHANGED <<loop, runs>>, NEW plans,
           DOMAIN plans \subseteq Tasks, \A t \in DOMAIN plans : plans[t] \in Plan,
           CmdSync(Queued(EngineOf(cmd.snap), plans), cmd.snap.rev)
    PROVE  Remembered' /\ Unstarted'
<1> DEFINE q == Queued(EngineOf(cmd.snap), plans)
<1>1. cmd.snap \in ExpRow /\ cmd.snap.rev \in Nat /\ cmd.pc # "off"
    BY MemoryOf, CmdFields DEF ExpRow, Planned
<1>2. q \in Engine /\ q.status = "running" /\ Knows(q.att, cmd.snap.att)
    BY <1>1, QueuedIs
<1>. HIDE DEF q
<1>3. Remembers(cmd.snap.att, DOMAIN runs) /\ 0 \notin DOMAIN runs
    BY MemoryOf, RunIds DEF Remembering, Remembered
<1>4. Remembers(q.att, DOMAIN runs)
    BY <1>2, <1>3, RemembersOn
<1>5. CmdSync(q, cmd.snap.rev)
    BY DEF q
<1>. QED
    BY <1>1, <1>2, <1>4, <1>5, CmdSyncRemembers

LEMMA CmdAcquiredRemembers ==
    ASSUME Remembering, CmdAcquired
    PROVE  Remembered' /\ Unstarted'
<1>1. UNCHANGED <<runs, loop>> /\ cmd.pc = "acquiring"
    BY DEF CmdAcquired
<1>2. /\ NoLoopAlive
      /\ exp.status \in Unbegun => DOMAIN runs = {} /\ Preparing(cmd) /\ cmd.kind = "start"
      /\ Preparing(cmd) => exp.status \in Unbegun
    BY <1>1, CommandBegins
<1>3. CASE cmd' = NoCmd /\ eng' \in {eng, NoEngine} /\ UNCHANGED exp
    BY <1>1, <1>2, <1>3, CmdGone
<1>4. CASE /\ cmd.kind = "start" /\ UNCHANGED eng
           /\ \E res \in {0, 1} : cmd' = [cmd EXCEPT !.pc = "creating", !.res = res]
    <2>1. DOMAIN runs = {}
        BY <1>1, <1>2, <1>4 DEF Preparing
    <2>2. cmd'.kind = "start" /\ cmd'.pc = "creating"
        BY <1>4, MemoryOf, CmdFields DEF CmdTypeOf
    <2>3. Preparing(cmd') /\ ~Planned(cmd')
        BY <2>2 DEF Preparing, Planned
    <2>. QED
        BY <1>1, <1>2, <1>4, <2>1, <2>2, <2>3, MemoryOf, CmdRemembers DEF Remembers
<1>5. CASE cmd.kind = "plan" /\ cmd' = [cmd EXCEPT !.pc = "planning"] /\ UNCHANGED <<exp, eng>>
    <2>1. cmd'.kind = cmd.kind /\ cmd'.snap = cmd.snap /\ cmd'.pc = "planning"
        BY <1>5, MemoryOf, CmdFields DEF CmdTypeOf
    <2>2. Remembers(cmd'.snap.att, DOMAIN runs)
        BY <1>1, <1>5, <2>1 DEF Planned, Remembering, Remembered
    <2>3. exp'.status \notin Unbegun
        BY <1>2, <1>5
    <2>. QED
        BY <1>1, <1>2, <1>5, <2>1, <2>2, <2>3, MemoryOf, CmdRemembers
<1>6. CASE /\ cmd.kind = "retry"
           /\ CmdSync(Queued(EngineOf(cmd.snap), RetryPlans(EngineOf(cmd.snap))), cmd.snap.rev)
    <2>1. Planned(cmd) /\ cmd.snap \in ExpRow
        BY <1>1, <1>6, MemoryOf, CmdFields DEF Planned
    <2> DEFINE plans == RetryPlans(EngineOf(cmd.snap))
    <2>2. DOMAIN plans \subseteq Tasks /\ \A t \in DOMAIN plans : plans[t] \in Plan
        BY <2>1, RetryPlansAre
    <2>3. CmdSync(Queued(EngineOf(cmd.snap), plans), cmd.snap.rev)
        BY <1>6
    <2>. HIDE DEF plans
    <2>. QED
        BY <1>1, <2>1, <2>2, <2>3, QueuedRemembers
<1>. QED
    BY <1>3, <1>4, <1>5, <1>6 DEF CmdAcquired

LEMMA CmdCreatedRemembers ==
    ASSUME Remembering, CmdCreated
    PROVE  Remembered' /\ Unstarted'
<1>1. UNCHANGED <<runs, loop>> /\ cmd.pc = "creating"
    BY DEF CmdCreated
<1>2. /\ NoLoopAlive /\ cmd.kind = "start"
      /\ exp.status \in Unbegun => DOMAIN runs = {} /\ Preparing(cmd) /\ cmd.kind = "start"
      /\ Preparing(cmd) => exp.status \in Unbegun
    BY <1>1, CommandBegins DEF Remembering, Unstarted
<1>3. CASE CmdFails /\ UNCHANGED exp
    BY <1>1, <1>2, <1>3, CmdGone DEF CmdFails
<1>4. CASE CmdSync(DraftStarted(EngineOf([NoExp EXCEPT !.status = "draft"])), 0)
    <2> DEFINE e == DraftStarted(EngineOf([NoExp EXCEPT !.status = "draft"]))
    <2>1. e \in Engine /\ e.status = "running" /\ e.att = NoExp.att /\ e.sel = NoExp.sel
        BY DraftStartedIs
    <2>2. CmdSync(e, 0)
        BY <1>4
    <2>. HIDE DEF e
    <2>3. DOMAIN runs = {}
        BY <1>1, <1>2 DEF Preparing
    <2>4. Remembers(e.att, DOMAIN runs)
        BY <2>3 DEF Remembers
    <2>. QED
        BY <1>1, <2>1, <2>2, <2>4, CmdSyncRemembers
<1>. QED
    BY <1>3, <1>4 DEF CmdCreated

LEMMA CmdPlannedRemembers ==
    ASSUME Remembering, CmdPlanned
    PROVE  Remembered' /\ Unstarted'
<1>1. UNCHANGED <<runs, loop>> /\ cmd.pc = "planning" /\ Planned(cmd)
    BY DEF CmdPlanned, Planned
<1>2. NoLoopAlive
    BY <1>1, CommandBegins
<1>3. CASE CmdFails /\ UNCHANGED exp
    BY <1>1, <1>2, <1>3, CmdGone DEF CmdFails
<1>4. ASSUME NEW plans \in Plans(EngineOf(cmd.snap)),
             CmdSync(Queued(EngineOf(cmd.snap), plans), cmd.snap.rev)
      PROVE  Remembered' /\ Unstarted'
    <2>1. DOMAIN plans \subseteq Tasks /\ \A t \in DOMAIN plans : plans[t] \in Plan
        BY PlansAre
    <2>. QED
        BY <1>1, <1>4, <2>1, QueuedRemembers
<1>. QED
    BY <1>3, <1>4 DEF CmdPlanned

LEMMA CmdEndsRemembers ==
    ASSUME Remembering, fence' = fence, cmd.pc # "off", ~Preparing(cmd), cmd' = NoCmd,
           NEW l \in Loops, NEW p \in Nat, NextTask(l, eng, p, cmd.k)
    PROVE  Remembered' /\ Unstarted'
<1>1. cmd.k \in 0 .. fence
    BY MemoryOf, CmdFields
<1>2. NoLoopAlive /\ exp.status \notin Unbegun
    BY CommandBegins
<1>3. LoopPart(l)
    BY <1>1, NextTaskPart, MemoryOf
<1>4. LoopKeeps(l)
    BY <1>1, <1>2, NextTaskKeeps, MemoryOf
<1>. QED
    BY <1>2, <1>3, <1>4, LoopRemembers, MemoryOf DEF LoopPart, NoLoopAlive

LEMMA CmdSyncedRemembers ==
    ASSUME Remembering, CmdSynced
    PROVE  Remembered' /\ Unstarted'
<1>1. fence' = fence /\ cmd.pc = "syncing"
    BY DEF CmdSynced
<1>2. CASE /\ CmdFails /\ exp' = (IF cmd.kind = "start" THEN NoExp ELSE exp) /\ cmd.res = 0
           /\ UNCHANGED <<runs, loop>>
    <2>1. cmd.kind = "start" => exp.status \in Unbegun
        BY <1>1, <1>2, CommandBegins DEF Preparing
    <2>. QED
        BY <1>1, <1>2, <2>1, CommandBegins, CmdGone DEF CmdFails
<1>3. ASSUME cmd.res # 0, cmd' = NoCmd, NEW l \in Loops, NextTask(l, eng, cmd.res, cmd.k)
      PROVE  Remembered' /\ Unstarted'
    <2>1. ~Preparing(cmd) /\ cmd.res \in Nat
        BY <1>1, <1>3, MemoryOf, CmdFields DEF Preparing
    <2>. QED
        BY <1>1, <1>3, <2>1, CmdEndsRemembers
<1>. QED
    BY <1>2, <1>3 DEF CmdSynced

LEMMA CmdVerifiedRemembers ==
    ASSUME Remembering, CmdVerified
    PROVE  Remembered' /\ Unstarted'
<1>1. UNCHANGED <<runs, loop>> /\ cmd.pc = "verifying"
    BY DEF CmdVerified
<1>2. NoLoopAlive /\ exp.status \notin Unbegun
    BY <1>1, CommandBegins DEF Preparing
<1>3. CASE cmd' = NoCmd /\ UNCHANGED <<exp, eng>>
    BY <1>1, <1>2, <1>3, CmdGone
<1>4. ASSUME eng.status = "paused", eng' = Resumed(eng), NEW res \in {0, prev + 1},
             Sync(Resumed(eng), prev, res),
             cmd' = [cmd EXCEPT !.pc = "resuming", !.res = res, !.pre = eng]
      PROVE  Remembered' /\ Unstarted'
    <2>1. /\ Resumed(eng) \in Engine /\ Resumed(eng).att = eng.att /\ Resumed(eng).sel = eng.sel
          /\ Resumed(eng).status = "running"
        BY <1>4, MemoryOf, ResumedIs
    <2>2. Resumed(eng) \in Engines /\ Resumed(eng).status \notin Unbegun
        BY <2>1 DEF Engines, Unbegun
    <2>3. Memory(Resumed(eng), DOMAIN runs)
        BY <1>4, <2>1, MemoryOf DEF Memory
    <2>4. RowKept
        BY <1>1, <1>4, <2>2, <2>3, MemoryOf, SyncKeeps
    <2>5. cmd'.pre = eng /\ cmd'.pc = "resuming"
        BY <1>4, MemoryOf, CmdFields DEF CmdTypeOf
    <2>6. ~Planned(cmd') /\ exp'.status \notin Unbegun
        BY <1>2, <2>4, <2>5 DEF Planned, RowKept
    <2>. QED
        BY <1>1, <1>2, <1>4, <2>3, <2>4, <2>5, <2>6, MemoryOf, CmdRemembers DEF RowKept
<1>. QED
    BY <1>3, <1>4 DEF CmdVerified

LEMMA CmdResumedRemembers ==
    ASSUME Remembering, CmdResumed
    PROVE  Remembered' /\ Unstarted'
<1>1. fence' = fence /\ cmd.pc = "resuming"
    BY DEF CmdResumed
<1>2. NoLoopAlive /\ exp.status \notin Unbegun /\ ~Preparing(cmd)
    BY <1>1, CommandBegins DEF Preparing
<1> DEFINE ok == IF exp.status = "paused" THEN 1 ELSE 0
<1>3. CASE /\ eng' = cmd.pre /\ cmd' = [cmd EXCEPT !.pc = "checking", !.res = ok]
           /\ UNCHANGED <<exp, runs, loop>>
    <2>1. cmd' = [cmd EXCEPT !.pc = "checking", !.res = ok]
        BY <1>3
    <2>. HIDE DEF ok
    <2>2. cmd'.pc = "checking"
        BY <2>1, MemoryOf, CmdFields DEF CmdTypeOf
    <2>3. Memory(eng', DOMAIN runs) /\ ~Planned(cmd')
        BY <1>1, <1>3, <2>2 DEF Planned, Remembering, Remembered
    <2>. QED
        BY <1>2, <1>3, <2>2, <2>3, MemoryOf, CmdRemembers
<1>4. ASSUME cmd' = NoCmd, NEW l \in Loops, NextTask(l, eng, cmd.res, cmd.k)
      PROVE  Remembered' /\ Unstarted'
    BY <1>1, <1>2, <1>4, CmdEndsRemembers, CmdFields, MemoryOf
<1>. QED
    BY <1>3, <1>4 DEF CmdResumed

LEMMA CmdCheckedRemembers ==
    ASSUME Remembering, CmdChecked
    PROVE  Remembered' /\ Unstarted'
<1>1. /\ UNCHANGED <<exp, runs, loop>> /\ cmd.pc = "checking"
      /\ cmd' = NoCmd /\ eng' \in {eng, NoEngine}
    BY DEF CmdChecked
<1>. QED
    BY <1>1, CommandBegins, CmdGone

LEMMA CmdStepRemembers ==
    ASSUME Remembering, CmdStep
    PROVE  Remembered' /\ Unstarted'
    BY CmdAcquireRemembers, CmdAcquiredRemembers, CmdCreatedRemembers, CmdPlannedRemembers,
       CmdSyncedRemembers, CmdVerifiedRemembers, CmdResumedRemembers, CmdCheckedRemembers
    DEF CmdStep
-----------------------------------------------------------------------------
(* Recovery and the closing of the tab remember.                           *)

LEMMA RcvRemembers ==
    ASSUME Remembering, UNCHANGED <<eng, loop, cmd>>, DOMAIN runs' = DOMAIN runs, RowKept
    PROVE  Remembered' /\ Unstarted'
    BY MemoryOf, LoopsStay, TabRemembers

LEMMA RecoveryRemembers ==
    ASSUME Remembering, Recovery
    PROVE  Remembered' /\ Unstarted'
<1>1. UNCHANGED <<eng, loop, cmd>> /\ DOMAIN runs' = DOMAIN runs
    BY DEF Recovery, RcvStart, RcvRead, RcvSettle, RcvWrite, RcvEnd, durable
<1>2. CASE exp' = exp
    BY <1>1, <1>2, MemoryOf, RcvRemembers DEF RowKept
<1>3. CASE RcvWrite
    <2> DEFINE new == Record(RcvRecord, rcv.snap.rev + 1)
    <2>1. rcv.pc = "tasks" /\ \E res : Sync(RcvRecord, rcv.snap.rev, res)
        BY <1>3 DEF RcvWrite, RcvRecord
    <2>2. exp' = exp \/ (exp' = new /\ exp.rev = rcv.snap.rev)
        BY <2>1 DEF Sync, IsAt
    <2>3. rcv.snap.rev \in Nat /\ rcv.snap.rev + 1 \in Nat
        BY MemoryOf, RcvFields DEF ExpRow
    <2>4. new.att = rcv.snap.att /\ new.status = "interrupted"
        BY <2>3, MemoryOf, RcvRecordIs
    <2>. HIDE DEF new
    <2>5. exp.rev = rcv.snap.rev => SameLinks(rcv.snap.att, exp.att)
        BY <2>1, MemoryOf DEF Trusted, RcvKnown, AtTasks
    <2>6. Remembers(exp.att, DOMAIN runs) /\ 0 \notin DOMAIN runs
        BY MemoryOf, RunIds
    <2>7. exp' = new /\ exp.rev = rcv.snap.rev => Remembers(exp'.att, DOMAIN runs)
        BY <2>4, <2>5, <2>6, SameLinksKnows, RemembersOn
    <2>8. RowKept
        BY <1>1, <2>2, <2>4, <2>6, <2>7 DEF RowKept, Unbegun
    <2>. QED
        BY <1>1, <2>8, RcvRemembers
<1>4. CASE exp.status = "draft" /\ exp' = NoExp
    <2>1. exp.status \in Unbegun
        BY <1>4 DEF Unbegun
    <2>2. DOMAIN runs = {} /\ NoLoopAlive
        BY <2>1 DEF Remembering, Unstarted
    <2>3. Remembers(exp'.att, DOMAIN runs)
        BY <2>2 DEF Remembers
    <2>4. Remembered'
        BY <1>1, <2>3 DEF Remembering, Remembered
    <2>5. Unstarted'
        BY <1>1, <2>1, <2>2 DEF Remembering, Unstarted, NoLoopAlive
    <2>. QED
        BY <2>4, <2>5
<1>. QED
    BY <1>2, <1>3, <1>4 DEF Recovery, RcvStart, RcvRead, RcvSettle, RcvEnd, durable

LEMMA CloseRemembers ==
    ASSUME Remembering, Close
    PROVE  Remembered' /\ Unstarted'
<1>1. /\ UNCHANGED <<exp, runs>> /\ eng' = NoEngine /\ loop' = [l \in Loops |-> NoLoop]
      /\ cmd' = NoCmd
    BY DEF Close, durable
<1>2. \A l \in Loops : loop'[l] = NoLoop
    BY <1>1
<1>3. \A l \in Loops : loop'[l].pc = "off"
    BY <1>2, NoLoopIs
<1>4. cmd'.pc = "off" /\ ~Planned(cmd')
    BY <1>1, NothingInFlight DEF Planned
<1>5. Remembered'
    BY <1>1, <1>3, <1>4, MemoryOf, NoRowFields DEF Remembered, Memory
<1>6. Unstarted'
    BY <1>1, <1>3, <1>4 DEF Remembering, Unstarted, NoLoopAlive
<1>. QED
    BY <1>5, <1>6

LEMMA InitRemembers ==
    ASSUME Init
    PROVE  Remembered /\ Unstarted
<1>1. /\ DOMAIN runs = {} /\ loop = [l \in Loops |-> NoLoop] /\ cmd = NoCmd
    BY DEF Init
<1>2. \A l \in Loops : loop[l] = NoLoop
    BY <1>1
<1>3. \A l \in Loops : loop[l].pc = "off"
    BY <1>2, NoLoopIs
<1>4. cmd.pc = "off"
    BY <1>1, NothingInFlight
<1>. QED
    BY <1>1, <1>3, <1>4 DEF Remembered, Unstarted, Remembers, Memory, NoLoopAlive

LEMMA NextRemembers ==
    ASSUME ~rushed', Remembering, [Next]_vars
    PROVE  Remembered' /\ Unstarted'
    BY LoopStepRemembers, TabStepRemembers, CmdStepRemembers, CmdReadRemembers, CmdResumeRemembers,
       RecoveryRemembers, CloseRemembers
    DEF Next, User

\* What is remembered is linked, and by one attempt only.
LEMMA RememberedAreLinked ==
    ASSUME Remembering
    PROVE  RunsAreLinked
<1> DEFINE of(r, t) == {j \in DOMAIN exp.att[t] : exp.att[t][j].run = r}
           links(r) == UNION {{<<t, i>> : i \in of(r, t)} : t \in Tasks}
<1>1. Remembers(exp.att, DOMAIN runs) /\ OneEach(exp.att) /\ 0 \notin DOMAIN runs
    BY MemoryOf, RunIds DEF Trusted, AllGood, Good
<1>2. ASSUME NEW r \in DOMAIN runs
      PROVE  \E link \in links(r) : links(r) = {link}
    <2>1. PICK t \in Tasks : \E i \in DOMAIN exp.att[t] : exp.att[t][i].run = r
        BY <1>1 DEF Remembers
    <2>2. PICK i \in DOMAIN exp.att[t] : exp.att[t][i].run = r
        BY <2>1
    <2>3. <<t, i>> \in links(r)
        BY <2>2
    <2>4. \A u \in Tasks : \A j \in of(r, u) : u = t /\ j = i
        BY <1>1, <1>2, <2>2 DEF OneEach
    <2>5. \A link \in links(r) : link = <<t, i>>
        BY <2>4
    <2>. HIDE DEF links
    <2>6. links(r) = {<<t, i>>}
        BY <2>3, <2>5
    <2>. QED
        BY <2>3, <2>6
<1>. QED
    BY <1>2 DEF RunsAreLinked

\* Until a command is given while something else is under way, every run of
\* the experiment is linked by exactly one attempt of its record, for any
\* number of tasks, commands, recoveries and faults: whichever copy of the
\* record is written last (by the status writes of an engine that was
\* restored after a failed commit, by the abort, by a recovery, by a retry
\* planned from a record read before it had the lease), no run that was paid
\* for is dropped from it and none is counted for two tasks.
THEOREM RunsStayLinked == Spec => []RunsAreLinked
<1> DEFINE Inv == Grounded /\ (~rushed => Remembering)
<1>1. Init => Inv
    BY InitGrounded, InitTrusted, InitRemembers DEF Remembering
<1>2. Inv /\ [Next]_vars => Inv'
    BY NextGrounded, NextTrusted, NextRemembers, RushedStays DEF Remembering
<1>3. Inv => RunsAreLinked
    BY RememberedAreLinked DEF RunsAreLinked
<1>. QED
    BY <1>1, <1>2, <1>3, PTL DEF Spec
-----------------------------------------------------------------------------
(* What is over stays over: the compare-and-swap beats an engine that does *)
(* not know that its experiment has ended.                                 *)

Holding  == AtWork \cup {"committing", "committed"}
Awaiting == {"beginning", "begun", "committing", "committed", "failed"}

\* A revision that the tab may write behind, or that it will take for the
\* latest.
Told(v) ==
    \/ v = prev \/ v \in pse \/ v = abt.res
    \/ cmd.pc \in {"syncing", "resuming"} /\ v = cmd.res
    \/ \E l \in Loops : loop[l].pc \in Awaiting /\ v = loop[l].res

\* The command is going to hand its lease on to a loop.
Hands(c) == c.pc \in {"syncing", "resuming"} \/ (c.pc = "verifying" /\ c.res # 0)

\* The tab is about to end its engine, or to drop it, without writing it.
Restored ==
    \/ \E l \in Loops : loop[l].pc \in {"failing", "finalized"}
    \/ cmd.pc \in {"syncing", "checking"} /\ cmd.res = 0

\* The record is over, and the engine does not know it.
Behind == exp.status \in Terminal /\ eng.status \notin Terminal \cup {"none"}
Late   == Behind /\ ~Restored

\* Nothing under way has the lease.
Fenced ==
    /\ \A l \in Loops : loop[l].pc \in Holding => lease # loop[l].k
    /\ Hands(cmd) => lease # cmd.k

Numbered ==
    /\ exp.status \in Unbegun <=> exp.rev = 0
    /\ \A v \in Nat : Told(v) => v <= exp.rev

\* An engine that is late has neither the revision nor the lease.
Outrun == Late => ~Told(exp.rev) /\ Fenced

Tokened ==
    /\ \A l \in Loops : loop[l].pc \in Holding => loop[l].k # 0
    /\ Hands(cmd) \/ cmd.pc \in {"acquiring", "creating", "planning"} => cmd.k # 0

\* A recovery that may still write has its lease later than the tab's.
Beaten ==
    rcv.pc \in AtTasks /\ rcv.snap.rev = exp.rev =>
        /\ exp.status \notin Terminal /\ tok < rcv.k /\ cmd.k < rcv.k
        /\ \A l \in Loops : loop[l].k < rcv.k

Resting(e) == e.status # "running" => e.task = 0
Rests == Resting(eng) /\ Resting(cmd.pre) /\ \A l \in Loops : Resting(loop[l].pre)

\* What a repair was planned from was over, and is.
ReadOver ==
    /\ Planned(cmd) => exp.status \in Terminal /\ cmd.snap.rev <= exp.rev
    /\ cmd.pc \in {"read", "acquiring"} => cmd.kind \in {"start", "retry", "plan"}

Followed  == Numbered /\ Outrun /\ Tokened /\ Beaten /\ Rests /\ ReadOver
Following == Remembering /\ Followed

\* The row is written behind its revision, or is no more than a draft.
Written ==
    /\ exp' \in ExpRow
    /\ \/ exp' = exp
       \/ exp'.rev = exp.rev + 1 /\ exp'.status \notin Unbegun
       \/ exp.status \in Unbegun /\ exp'.status \in Unbegun /\ exp'.rev = 0

\* It is and stays over, if it is.
Forward == Written /\ (exp.status \in Terminal => exp'.status \in Terminal)

\* A revision that was known, or is that of a row the engine agrees with.
MayBeTold(v) == Told(v) \/ v = 0 \/ (v <= exp'.rev /\ ~Late')

LEMMA FollowingIs ==
    ASSUME Following
    PROVE  /\ Remembering /\ Grounded /\ Trusted /\ exp \in ExpRow /\ exp.rev \in Nat
           /\ prev \in Nat /\ Numbered /\ Outrun /\ Tokened /\ Beaten /\ Rests /\ ReadOver
           /\ exp.status \in Terminal => exp.rev # 0
<1>1. Remembering /\ Grounded /\ Trusted /\ Followed
    BY DEF Following, Remembering
<1>2. exp \in ExpRow /\ exp.rev \in Nat /\ prev \in Nat
    BY <1>1, GroundedTypes, RowAttempts
<1>. QED
    BY <1>1, <1>2 DEF Followed, Numbered, Unbegun, Terminal

LEMMA StillFollowed ==
    ASSUME Following, Written, \A v \in Nat : Told(v)' => MayBeTold(v),
           Late' => Fenced' /\ (exp' = exp => Late), Tokened', Beaten', Rests', ReadOver'
    PROVE  Followed'
<1>1. /\ exp.rev \in Nat /\ exp'.rev \in Nat
      /\ exp.status \in Unbegun <=> exp.rev = 0
      /\ \A v \in Nat : Told(v) => v <= exp.rev
      /\ Late => ~Told(exp.rev)
    BY FollowingIs, RowAttempts DEF Written, Numbered, Outrun
<1>2. exp'.status \in Unbegun <=> exp'.rev = 0
    BY <1>1 DEF Written
<1>3. exp.rev <= exp'.rev
    BY <1>1 DEF Written
<1>4. ASSUME NEW v \in Nat, Told(v)' PROVE v <= exp'.rev
    <2>1. Told(v) \/ v = 0 \/ v <= exp'.rev
        BY <1>4 DEF MayBeTold
    <2>. QED
        BY <1>1, <1>3, <2>1
<1>5. ASSUME Late' PROVE ~Told(exp.rev)'
    <2>1. SUFFICES ASSUME NEW v \in Nat, v = exp'.rev, Told(v)' PROVE FALSE
        BY <1>1
    <2>2. exp'.rev # 0 /\ exp'.status \notin Unbegun
        BY <1>2, <1>5 DEF Late, Behind, Terminal, Unbegun
    <2>3. Told(v)
        BY <1>5, <2>1, <2>2 DEF MayBeTold
    <2>4. exp' # exp
        BY <1>1, <1>5, <2>1, <2>3
    <2>5. v = exp.rev + 1 /\ v <= exp.rev
        BY <1>1, <2>1, <2>2, <2>3, <2>4 DEF Written
    <2>. QED
        BY <1>1, <2>5
<1>. QED
    BY <1>2, <1>4, <1>5 DEF Followed, Numbered, Outrun

LEMMA StillBeaten ==
    ASSUME Following, Written,
           rcv'.pc \in AtTasks => rcv.pc \in AtTasks /\ rcv'.snap.rev = rcv.snap.rev /\ rcv'.k = rcv.k,
           tok' \in {0, tok, cmd.k}, cmd'.k \in {0, tok, cmd.k},
           \A l \in Loops : loop'[l].k \in {0, loop[l].k, cmd.k}
    PROVE  Beaten'
<1>1. SUFFICES ASSUME rcv'.pc \in AtTasks, rcv'.snap.rev = exp'.rev
               PROVE  /\ exp'.status \notin Terminal /\ tok' < rcv'.k /\ cmd'.k < rcv'.k
                      /\ \A l \in Loops : loop'[l].k < rcv'.k
    BY DEF Beaten
<1>2. /\ rcv.snap.rev <= exp.rev /\ exp.status \notin Unbegun
      /\ rcv.pc \in AtTasks /\ rcv.snap.rev = exp'.rev /\ rcv'.k = rcv.k
    BY <1>1, FollowingIs DEF Trusted, RcvKnown
<1>3. exp.rev \in Nat /\ tok \in Nat /\ rcv.k \in Nat
    BY FollowingIs, RcvFields, GroundedTypes
<1>4. exp' = exp
    BY <1>2, <1>3 DEF Written
<1>5. /\ exp.status \notin Terminal /\ tok < rcv.k /\ cmd.k < rcv.k
      /\ \A l \in Loops : loop[l].k < rcv.k
    BY <1>2, <1>4, FollowingIs DEF Beaten
<1>6. 0 < rcv.k
    BY <1>3, <1>5
<1>. QED
    BY <1>2, <1>4, <1>5, <1>6

LEMMA StillRead ==
    ASSUME Following, Forward, cmd' = cmd
    PROVE  ReadOver'
<1>1. cmd.snap.rev \in Nat /\ exp.rev \in Nat /\ exp'.rev \in Nat
    BY FollowingIs, CmdFields, RowAttempts DEF Forward, Written
<1>2. ASSUME Planned(cmd) PROVE exp'.status \in Terminal /\ cmd.snap.rev <= exp'.rev
    <2>1. exp.status \in Terminal /\ cmd.snap.rev <= exp.rev
        BY <1>2, FollowingIs DEF ReadOver
    <2>2. exp'.status \in Terminal /\ exp.status \notin Unbegun
        BY <2>1 DEF Forward, Terminal, Unbegun
    <2>. QED
        BY <1>1, <2>1, <2>2 DEF Forward, Written
<1>. QED
    BY <1>2, FollowingIs DEF ReadOver

LEMMA ForwardStays ==
    ASSUME Forward
    PROVE  StaysOver
    BY DEF Forward, StaysOver
-----------------------------------------------------------------------------
(* The steps of the run loop leave what is over alone.                     *)

\* The engine is not late with this revision and this lease.
Sure(p, k) == Behind => exp.rev # p /\ lease # k

\* What a loop leaves behind that holds lease k.
LoopFollows(l, k) ==
    /\ Forward /\ lease' \in {lease, 0} /\ tok' \in {tok, 0}
    /\ Resting(eng') /\ Resting(loop'[l].pre)
    /\ Behind' => loop'[l].pc \in {"failing", "finalized"} \/ (Behind /\ exp' = exp)
    /\ loop'[l].k \in {0, k} /\ (loop'[l].pc \in Holding => loop'[l].k = k)
    /\ loop'[l].pc \in Awaiting => \/ loop'[l].res = 0
                                   \/ loop'[l].res <= exp'.rev /\ ~Behind'

LEMMA LoopsRest ==
    /\ Resting(NoEngine) /\ NoLoop.k = 0
    /\ \A res : FailedLoop(res).k = 0
    /\ \A run, load : FailingLoop(run, load).k = 0
<1>1. Resting(NoEngine)
    BY NoRowFields DEF Resting
<1>. QED
    BY <1>1 DEF NoLoop, FailedLoop, FailingLoop

LEMMA EndLoopFollows ==
    ASSUME Following, NEW l \in Loops, NEW e \in Engines, Resting(e), NEW k,
           e = eng \/ e.status \in Terminal \cup {"none"}, EndLoop(l, e)
    PROVE  LoopFollows(l, k) /\ loop'[l].pc = "off"
<1>1. /\ eng' = e /\ loop' = [loop EXCEPT ![l] = NoLoop] /\ UNCHANGED exp
      /\ lease' \in {lease, 0} /\ tok' \in {tok, 0}
    BY DEF EndLoop, Release
<1>2. loop'[l] = NoLoop
    BY <1>1, FollowingIs, LoopMoves
<1>3. loop'[l].pc = "off" /\ Resting(loop'[l].pre) /\ loop'[l].k = 0
    BY <1>2, NoLoopIs, LoopsRest
<1>4. Forward
    BY <1>1, FollowingIs DEF Forward, Written
<1>5. Behind' => Behind
    BY <1>1 DEF Behind
<1>. QED
    BY <1>1, <1>3, <1>4, <1>5 DEF LoopFollows, Holding, AtWork, Awaiting

\* An engine that ends writes no more than its end.
LEMMA SyncOver ==
    ASSUME Following, exp' \in ExpRow, NEW e \in Engines, e.status \in Terminal, NEW rev \in Nat,
           NEW res, Sync(e, rev, res)
    PROVE  Forward /\ res \in Nat /\ res <= exp'.rev
<1>1. /\ res \in Nat /\ e.status \notin Unbegun
      /\ \/ exp' = exp /\ res = 0
         \/ exp.rev = rev /\ res = rev + 1 /\ exp'.rev = rev + 1 /\ exp'.status = e.status
    BY FollowingIs, SyncIs DEF Terminal, Unbegun
<1>2. exp.rev \in Nat
    BY FollowingIs
<1>. QED
    BY <1>1, <1>2 DEF Forward, Written

LEMMA AbortedRests ==
    ASSUME NEW e \in Engines, e.status # "none", Resting(e)
    PROVE  /\ Aborted(e) \in Engines /\ Aborted(e).status \in Terminal
           /\ Resting(Aborted(e))
    BY AbortedIs DEF Resting, Terminal

LEMMA AbortAfterFailureFollows ==
    ASSUME Following, exp' \in ExpRow, NEW l \in Loops, NEW e \in Engines, Resting(e), NEW k,
           AbortAfterFailure(l, e)
    PROVE  LoopFollows(l, k) /\ ~Behind' /\ loop'[l].pc \in {"off", "failed"}
<1>1. CASE e.status = "none"
    <2>1. EndLoop(l, e)
        BY <1>1 DEF AbortAfterFailure
    <2>2. LoopFollows(l, k) /\ loop'[l].pc = "off"
        BY <1>1, <2>1, EndLoopFollows
    <2>. QED
        BY <1>1, <2>1, <2>2 DEF EndLoop, Behind
<1>2. CASE e.status # "none"
    <2>1. PICK res \in {0, prev + 1} :
             /\ Sync(Aborted(e), prev, res)
             /\ loop' = [loop EXCEPT ![l] = FailedLoop(res)]
        BY <1>2 DEF AbortAfterFailure, FailedLoop
    <2>2. eng' = Aborted(e) /\ UNCHANGED <<lease, tok>>
        BY <1>2 DEF AbortAfterFailure
    <2>3. Aborted(e) \in Engines /\ Aborted(e).status \in Terminal /\ Resting(Aborted(e))
        BY <1>2, AbortedRests
    <2>4. Forward /\ res \in Nat /\ res <= exp'.rev
        BY <2>1, <2>3, FollowingIs, SyncOver
    <2>5. loop'[l] = FailedLoop(res)
        BY <2>1, FollowingIs, LoopMoves
    <2>6. ids \in Nat /\ fence \in Nat
        BY FollowingIs, GroundedTypes
    <2>7. loop'[l].pc = "failed" /\ loop'[l].res = res /\ loop'[l].pre = NoEngine
        BY <2>4, <2>5, <2>6, FailedLoopIs
    <2>8. loop'[l].k = 0
        BY <2>5, LoopsRest
    <2>9. ~Behind'
        BY <2>2, <2>3 DEF Behind
    <2>. QED
        BY <2>2, <2>3, <2>4, <2>7, <2>8, <2>9, LoopsRest DEF LoopFollows, Holding, AtWork
<1>. QED
    BY <1>1, <1>2

LEMMA ReadsActiveFollows ==
    ASSUME Following, NEW l \in Loops, NEW e \in Engines, Resting(e), NEW k, ReadsActive(l, e)
    PROVE  LoopFollows(l, k)
<1>1. PICK run \in ActiveRun(e) :
         loop' = [loop EXCEPT ![l] = FailingLoop(run, {runs[run]})]
    BY DEF ReadsActive, FailingLoop
<1>2. eng' = e /\ UNCHANGED <<exp, lease, tok>>
    BY DEF ReadsActive
<1> DEFINE load == {runs[run]}
<1>3. run \in DOMAIN runs
    BY DEF ActiveRun
<1>4. run \in 0 .. ids /\ load \in SUBSET Run /\ ids \in Nat /\ fence \in Nat
    BY <1>3, FollowingIs, GroundedTypes
<1>5. loop'[l] = FailingLoop(run, load)
    BY <1>1, FollowingIs, LoopMoves
<1>. HIDE DEF load
<1>6. loop'[l].pc = "failing" /\ loop'[l].pre = NoEngine
    BY <1>4, <1>5, FailingLoopIs
<1>7. loop'[l].k = 0
    BY <1>5, LoopsRest
<1>8. Forward
    BY <1>2, FollowingIs DEF Forward, Written
<1>. QED
    BY <1>2, <1>6, <1>7, <1>8, LoopsRest DEF LoopFollows, Holding, AtWork, Awaiting

LEMMA CatchFollows ==
    ASSUME Following, exp' \in ExpRow, NEW l \in Loops, NEW e \in Engines, Resting(e), NEW k,
           Catch(l, e)
    PROVE  LoopFollows(l, k)
    BY CatchIs, EndLoopFollows, ReadsActiveFollows, AbortAfterFailureFollows

\* A task begins only where the record has not ended behind the engine.
LEMMA StartsTaskFollows ==
    ASSUME Following, exp' \in ExpRow, exp.status \notin Unbegun, UNCHANGED fence, NEW l \in Loops,
           NEW p \in Nat, NEW k \in 0 .. fence, Sure(p, k), NEW t \in Tasks, NEW i \in Nat,
           NEW plan \in Plan, StartsTask(l, eng, p, k, t, i, plan)
    PROVE  LoopFollows(l, k)
<1>1. PICK res \in {0, p + 1} :
         /\ BeginTx(t, i, ids + 1, plan, k, p, res)
         /\ loop' = [loop EXCEPT ![l] = BeginningLoop(t, i, ids + 1, plan, k, res)]
    BY DEF StartsTask, BeginningLoop
<1>2. /\ MayBegin(eng, t, i) /\ eng' = TaskBegun(eng, t, i, ids + 1) /\ ids' = ids + 1
      /\ UNCHANGED <<lease, tok, owner>>
    BY DEF StartsTask
<1>3. \/ UNCHANGED <<exp, runs>> /\ res = 0
      \/ lease = k /\ BeginWins(t, i, ids + 1, plan, p, res)
    BY <1>1, <1>2, FollowingIs, BeginTxIs
<1>4. eng.status = "running" /\ eng'.status = "running"
    BY <1>2, FollowingIs, RunIds, TaskBegunIs, GroundedTypes
<1>5. loop'[l] = BeginningLoop(t, i, ids + 1, plan, k, res)
    BY <1>1, FollowingIs, LoopMoves
<1>6. /\ loop'[l].pc = "beginning" /\ loop'[l].res = res /\ loop'[l].k = k
      /\ loop'[l].pre = NoEngine
    BY <1>5, BeginningLoopFields
<1>7. Resting(eng') /\ Resting(loop'[l].pre)
    BY <1>4, <1>6, LoopsRest DEF Resting
<1>8. /\ Forward /\ (Behind' => Behind /\ exp' = exp)
      /\ res = 0 \/ (res <= exp'.rev /\ ~Behind')
    <2>1. CASE UNCHANGED <<exp, runs>> /\ res = 0
        BY <1>4, <2>1, FollowingIs DEF Forward, Written, Behind, Terminal
    <2>2. CASE lease = k /\ BeginWins(t, i, ids + 1, plan, p, res)
        <3>1. /\ exp.rev = p /\ exp'.rev = exp.rev + 1 /\ res = exp'.rev
              /\ exp'.status = exp.status
            BY <2>2 DEF BeginWins
        <3>2. Forward
            BY <3>1 DEF Forward, Written
        <3>3. ~Behind'
            BY <1>4, <2>2, <3>1 DEF Behind, Sure, Terminal
        <3>. QED
            BY <3>1, <3>2, <3>3
    <2>. QED
        BY <1>3, <2>1, <2>2
<1>. QED
    BY <1>2, <1>6, <1>7, <1>8 DEF LoopFollows

LEMMA ReadsBaseFollows ==
    ASSUME Following, NEW l \in Loops, NEW k \in 0 .. fence, NEW t \in Tasks, NEW i \in Nat,
           ReadsBase(l, eng, k, t, i)
    PROVE  LoopFollows(l, k)
<1>1. PICK res \in {0, 1} : loop' = [loop EXCEPT ![l] = BaseLoop(t, i, k, res)]
    BY DEF ReadsBase, BaseLoop
<1>2. eng' = eng /\ UNCHANGED <<exp, lease, tok>>
    BY DEF ReadsBase
<1>3. loop'[l] = BaseLoop(t, i, k, res)
    BY <1>1, FollowingIs, LoopMoves
<1>4. loop'[l].pc = "base" /\ loop'[l].k = k /\ loop'[l].pre = NoEngine
    BY <1>3, BaseLoopIs, FollowingIs, GroundedTypes
<1>5. Forward /\ Resting(eng')
    BY <1>2, FollowingIs DEF Forward, Written, Rests
<1>. QED
    BY <1>2, <1>4, <1>5, LoopsRest DEF LoopFollows, Awaiting, Behind

LEMMA EngRests ==
    ASSUME Following
    PROVE  /\ eng \in Engines /\ Resting(eng)
           /\ \A l \in Loops : /\ loop[l].pre \in Engines /\ Resting(loop[l].pre)
                               /\ loop[l].pc # "off" => exp.status \notin Unbegun
    BY FollowingIs, MemoryOf DEF Rests

LEMMA NextTaskFollows ==
    ASSUME Following, exp' \in ExpRow, exp.status \notin Unbegun, UNCHANGED fence, NEW l \in Loops,
           NEW p \in Nat, NEW k \in 0 .. fence, Sure(p, k), NextTask(l, eng, p, k)
    PROVE  LoopFollows(l, k)
<1>1. CASE EndLoop(l, eng)
    BY <1>1, EngRests, EndLoopFollows
<1>2. ASSUME NEW t \in Tasks, NEW i \in Nat, NEW plan \in Plan,
             \/ ReadsBase(l, eng, k, t, i) \/ StartsTask(l, eng, p, k, t, i, plan)
             \/ Catch(l, eng)
      PROVE  LoopFollows(l, k)
    BY <1>2, EngRests, ReadsBaseFollows, StartsTaskFollows, CatchFollows
<1>. QED
    BY <1>1, <1>2, EngRests, NextTaskIs

\* A loop that may write is sure of the revision it was told, if it is sure
\* of its lease.
LEMMA LoopIsSure ==
    ASSUME Following, NEW l \in Loops, loop[l].pc \in Holding \cup {"failed"},
           \A m \in Loops : m # l => loop[m].pc = "off", cmd = NoCmd
    PROVE  /\ ~Restored /\ (Behind => ~Told(exp.rev))
           /\ \A v \in Nat : Told(v) /\ loop[l].pc \in Holding => Sure(v, loop[l].k)
           /\ loop[l].pc \in Awaiting => Told(loop[l].res)
<1>1. \A m \in Loops : loop[m].pc \notin {"failing", "finalized"}
    BY DEF Holding, AtWork
<1>2. ~Restored
    BY <1>1, NothingInFlight DEF Restored
<1>3. Behind => ~Told(exp.rev) /\ Fenced
    BY <1>2, FollowingIs DEF Outrun, Late
<1>. QED
    BY <1>2, <1>3 DEF Sure, Fenced, Told

LEMMA LoopBaseFollows ==
    ASSUME Following, exp' \in ExpRow, NEW l \in Loops, LoopBase(l),
           \A m \in Loops : m # l => loop[m].pc = "off", cmd = NoCmd
    PROVE  LoopFollows(l, loop[l].k)
<1>1. loop[l].pc = "base" /\ fence' = fence
    BY DEF LoopBase
<1>2. \/ Catch(l, eng)
      \/ NextTask(l, eng, prev, loop[l].k)
      \/ StartsTask(l, eng, prev, loop[l].k, loop[l].task, loop[l].at, loop[l].plan)
    BY BeginTaskIs DEF LoopBase
<1>3. loop[l].task \in Tasks /\ loop[l].at \in Nat /\ loop[l].plan \in Plan
         /\ loop[l].k \in 0 .. fence /\ prev \in Nat
    BY <1>1, LoopFields, FollowingIs DEF AtWork
<1>4. exp.status \notin Unbegun
    BY <1>1, EngRests
<1>5. Told(prev) /\ loop[l].pc \in Holding
    BY <1>1 DEF Told, Holding, AtWork
<1>6. Sure(prev, loop[l].k)
    BY <1>3, <1>5, LoopIsSure
<1>. QED
    BY <1>1, <1>2, <1>3, <1>4, <1>6, EngRests, CatchFollows, NextTaskFollows, StartsTaskFollows

LEMMA LoopToFields ==
    ASSUME Following, NEW l \in Loops, NEW pc, NEW res, LoopTo(l, pc, res)
    PROVE  /\ loop'[l].pc = pc /\ loop'[l].res = res /\ loop'[l].k = loop[l].k
           /\ loop'[l].pre = loop[l].pre
<1>1. loop'[l] = [loop[l] EXCEPT !.pc = pc, !.res = res]
    BY FollowingIs, LoopMoves DEF LoopTo
<1>. QED
    BY <1>1, FollowingIs, LoopFields DEF LoopTypeOf

LEMMA LoopSyncFollows ==
    ASSUME Following, exp' \in ExpRow, NEW l \in Loops, loop[l].pc \in Holding,
           Behind => ~Told(exp.rev), NEW rev \in Nat, Told(rev), UNCHANGED <<eng, lease, tok>>,
           NEW res, SyncEngine(rev, res), NEW pc \in {"begun", "committed"}, LoopTo(l, pc, res)
    PROVE  LoopFollows(l, loop[l].k)
<1>1. /\ loop'[l].pc = pc /\ loop'[l].res = res /\ loop'[l].k = loop[l].k
      /\ Resting(loop'[l].pre) /\ Resting(eng')
    BY LoopToFields, EngRests
<1>2. /\ rev <= exp.rev /\ exp.rev \in Nat /\ eng \in Engines /\ eng.status # "draft"
      /\ exp.status \notin Unbegun
    BY FollowingIs, MemoryOf, EngRests DEF Numbered, Holding, AtWork
<1>3. /\ Forward /\ (Behind' => Behind /\ exp' = exp)
      /\ res = 0 \/ (res <= exp'.rev /\ ~Behind')
    <2>1. CASE eng.status = "none"
        BY <1>2, <2>1 DEF SyncEngine, Forward, Written, Behind
    <2>2. CASE eng.status # "none"
        <3>1. Sync(eng, rev, res) /\ eng.status \notin Unbegun
            BY <1>2, <2>2 DEF SyncEngine, Unbegun
        <3>2. CASE exp' = exp /\ res = 0
            BY <1>2, <3>2 DEF Forward, Written, Behind
        <3>3. CASE /\ exp.rev = rev /\ res = rev + 1 /\ exp'.rev = rev + 1
                   /\ exp'.status = eng.status
            <4>1. ~Behind /\ ~Behind' /\ exp' # exp
                BY <1>2, <3>3 DEF Behind
            <4>2. exp.status \in Terminal => exp'.status \in Terminal
                BY <2>2, <3>3, <4>1 DEF Behind
            <4>. QED
                BY <1>2, <3>1, <3>3, <4>1, <4>2 DEF Forward, Written
        <3>. QED
            BY <1>2, <2>2, <3>1, <3>2, <3>3, SyncIs, FollowingIs
    <2>. QED
        BY <2>1, <2>2
<1>. QED
    BY <1>1, <1>3 DEF LoopFollows

LEMMA LoopBegunFollows ==
    ASSUME Following, exp' \in ExpRow, NEW l \in Loops, LoopBegun(l),
           \A m \in Loops : m # l => loop[m].pc = "off", cmd = NoCmd
    PROVE  LoopFollows(l, loop[l].k)
<1>1. loop[l].pc = "beginning"
    BY DEF LoopBegun
<1>2. CASE Catch(l, eng)
    BY <1>2, EngRests, CatchFollows
<1>3. ASSUME UNCHANGED <<eng, lease, tok>>, NEW res, SyncEngine(loop[l].res, res),
             LoopTo(l, "begun", res)
      PROVE  LoopFollows(l, loop[l].k)
    <2>1. loop[l].pc \in Holding /\ Told(loop[l].res) /\ (Behind => ~Told(exp.rev))
        BY <1>1, LoopIsSure DEF Holding, AtWork, Awaiting
    <2>2. loop[l].res \in Nat
        BY FollowingIs, LoopFields
    <2>. QED
        BY <1>3, <2>1, <2>2, LoopSyncFollows
<1>. QED
    BY <1>2, <1>3 DEF LoopBegun

\* A commit that failed takes the engine back to where it had no more of an
\* end than the record.
LEMMA LoopCommittedFollows ==
    ASSUME Following, exp' \in ExpRow, NEW l \in Loops, LoopCommitted(l),
           \A m \in Loops : m # l => loop[m].pc = "off", cmd = NoCmd
    PROVE  LoopFollows(l, loop[l].k)
<1>1. loop[l].pc = "committing"
    BY DEF LoopCommitted
<1>2. CASE Catch(l, loop[l].pre)
    BY <1>2, EngRests, CatchFollows
<1>3. ASSUME UNCHANGED <<eng, lease, tok>>, NEW res, SyncEngine(loop[l].res, res),
             LoopTo(l, "committed", res)
      PROVE  LoopFollows(l, loop[l].k)
    <2>1. loop[l].pc \in Holding /\ Told(loop[l].res) /\ (Behind => ~Told(exp.rev))
        BY <1>1, LoopIsSure DEF Holding, AtWork, Awaiting
    <2>2. loop[l].res \in Nat
        BY FollowingIs, LoopFields
    <2>. QED
        BY <1>3, <2>1, <2>2, LoopSyncFollows
<1>. QED
    BY <1>2, <1>3 DEF LoopCommitted

\* The loop waits, or its executor has its run written.
LEMMA LoopWaitsFollows ==
    ASSUME Following, NEW l \in Loops, UNCHANGED <<exp, eng, lease, tok>>, loop'[l].pc \notin Awaiting,
           loop'[l].k = loop[l].k, loop'[l].pre = loop[l].pre
    PROVE  LoopFollows(l, loop[l].k)
<1>1. Forward /\ (Behind' => Behind)
    BY FollowingIs DEF Forward, Written, Behind
<1>. QED
    BY <1>1, EngRests DEF LoopFollows

LEMMA LoopExecuteFollows ==
    ASSUME Following, exp' \in ExpRow, NEW l \in Loops, LoopExecute(l)
    PROVE  LoopFollows(l, loop[l].k)
<1>1. CASE Catch(l, eng)
    BY <1>1, EngRests, CatchFollows
<1>2. CASE LoopTo(l, "executing", 0) /\ UNCHANGED <<exp, eng, lease, tok>>
    BY <1>2, LoopToFields, LoopWaitsFollows DEF Awaiting
<1>. QED
    BY <1>1, <1>2 DEF LoopExecute

LEMMA LoopExecutionFollows ==
    ASSUME Following, NEW l \in Loops, RunLoad(l) \/ RunWrite(l) \/ LoopExecuted(l)
    PROVE  LoopFollows(l, loop[l].k)
<1>1. /\ UNCHANGED <<exp, eng, lease, tok>> /\ loop[l].pc = "executing"
      /\ loop[l] \in LoopTypeOf(ids, fence)
    BY FollowingIs, LoopFields DEF RunLoad, RunWrite, LoopExecuted, Executing, durable
<1> DEFINE row == {runs[loop[l].run]}
           x == [loop[l] EXCEPT !.load = row]
           y == [loop[l] EXCEPT !.load = {}]
           z == [loop[l] EXCEPT !.load = {}, !.lossy = TRUE]
           v == [loop[l] EXCEPT !.pc = "executed", !.load = row]
           w == [loop[l] EXCEPT !.pc = "executed", !.res = 0]
<1>2. \/ loop' = [loop EXCEPT ![l] = x] \/ loop' = [loop EXCEPT ![l] = y]
      \/ loop' = [loop EXCEPT ![l] = z] \/ loop' = [loop EXCEPT ![l] = v]
      \/ loop' = [loop EXCEPT ![l] = w]
    BY DEF RunLoad, RunWrite, LoopExecuted, LoopTo
<1>3. \A n \in {x, y, z, v, w} :
         n.pc \in {"executing", "executed"} /\ n.k = loop[l].k /\ n.pre = loop[l].pre
    <2>. HIDE DEF row
    <2>. QED BY <1>1 DEF LoopTypeOf
<1>. HIDE DEF x, y, z, v, w
<1>4. loop'[l] \in {x, y, z, v, w}
    BY <1>2, FollowingIs, LoopMoves
<1>. QED
    BY <1>1, <1>3, <1>4, LoopWaitsFollows DEF Awaiting

\* Only a task of a running engine is committed, so a record that has ended
\* meanwhile has taken the lease.
LEMMA CommitsFollows ==
    ASSUME Following, exp' \in ExpRow, NEW l \in Loops, loop[l].pc = "executed",
           \A m \in Loops : m # l => loop[m].pc = "off", cmd = NoCmd, fence' = fence,
           NEW row, NEW cov, NEW res, Commits(l, row, cov, res)
    PROVE  LoopFollows(l, loop[l].k)
<1> DEFINE t == loop[l].task
           i == loop[l].at
           run == loop[l].run
           plan == loop[l].plan
           k == loop[l].k
<1>0. Grounded
    BY FollowingIs
<1>1. /\ t \in Tasks /\ run \in DOMAIN runs /\ row \in Run /\ plan \in Plan
      /\ loop[l] \in LoopTypeOf(ids, fence)
    BY <1>0, LoopFields DEF AtWork, Begun, Commits
<1>2. cov \in 0 .. 2 /\ row.status \in RunStatus /\ prev \in Nat
    BY <1>1, CoverageIs, FollowingIs DEF Commits, Run
<1>3. eng \in Engine /\ eng.status = "running"
    <2>1. eng.task = t
        BY DEF Commits, MayCommit
    <2>2. t # 0
        BY <1>1 DEF Tasks
    <2>3. eng # NoEngine
        BY <2>1, <2>2, NoRowFields
    <2>. QED
        BY <2>1, <2>2, <2>3, EngRests, EngineFields DEF Resting
<1>4. CommitTx(t, i, run, row, k, prev, cov, plan, res) /\ UNCHANGED <<ids, lease, tok>>
    BY DEF Commits
<1> DEFINE c == TaskCommitted(eng, t, i, row.status, cov, plan)
           atts == Over(eng.att[t], i, row.status, cov, plan)
<1>5. eng' = c
    BY DEF Commits
<1>6. /\ c.att = [eng.att EXCEPT ![t] = atts] /\ c.sel = [eng.sel EXCEPT ![t] = Select(atts)]
      /\ c.task = 0
    <2>1. c = TaskCommitted(eng, t, i, row.status, cov, plan)
        OBVIOUS
    <2>2. atts = Over(eng.att[t], i, row.status, cov, plan)
        OBVIOUS
    <2>3. eng \in Engine /\ t \in Tasks /\ plan \in Plan /\ cov \in 0 .. 2 /\ row.status \in RunStatus
        BY <1>1, <1>2, <1>3
    <2>. HIDE DEF c, atts, t, i, plan
    <2>. QED
        BY <2>1, <2>2, <2>3, TaskCommittedIs
<1> DEFINE x == [loop[l] EXCEPT !.pc = "committing", !.res = res, !.load = {}, !.pre = eng]
<1>7. loop' = [loop EXCEPT ![l] = x]
    BY DEF Commits
<1>8. loop'[l] = x
    BY <1>0, <1>7, LoopMoves
<1>9. loop'[l].pre = eng /\ loop'[l].pc = "committing" /\ loop'[l].res = res /\ loop'[l].k = k
    <2>1. x.pc = "committing" /\ x.res = res
        BY <1>1 DEF LoopTypeOf
    <2>2. x.pre = eng
        BY <1>1 DEF LoopTypeOf
    <2>3. x.k = k
        BY <1>1 DEF LoopTypeOf
    <2>. QED
        BY <1>8, <2>1, <2>2, <2>3
<1>10. Behind => lease # k
    <2>1. Told(prev) /\ loop[l].pc \in Holding
        BY DEF Told, Holding, AtWork
    <2>2. Sure(prev, loop[l].k)
        BY <1>2, <2>1, LoopIsSure
    <2>. QED
        BY <2>2 DEF Sure
<1>. HIDE DEF x, c, t, i, run, plan, k
<1>11. exp.rev \in Nat /\ exp.status \notin Unbegun
    BY FollowingIs, EngRests
<1>12. \/ exp' = exp /\ res = 0
       \/ exp' = exp /\ lease = k /\ res = exp.rev
       \/ lease = k /\ exp'.rev = exp.rev + 1 /\ exp'.status = exp.status /\ res = exp'.rev
    <2>0. Steady
        BY <1>4 DEF Steady
    <2>1. CommitEnds(t, i, run, row, k, prev, cov, plan, res)
        BY <1>0, <1>1, <1>2, <1>4, <2>0, CommitTxIs
    <2>2. CommitWins(t, i, run, row, prev, cov, plan, res) =>
             exp.rev = prev /\ res = prev + 1 /\ exp'.rev = prev + 1 /\ exp'.status = exp.status
        BY DEF CommitWins
    <2>. QED
        BY <2>1, <2>2 DEF CommitEnds
<1>13. Behind' => Behind \/ exp.status \notin Terminal
    BY <1>3 DEF Behind, Terminal
<1>14. lease = k /\ exp'.status = exp.status => ~Behind'
    BY <1>10, <1>13 DEF Behind
<1>15. Forward
    BY <1>11, <1>12 DEF Forward, Written
<1>16. Resting(eng') /\ Resting(loop'[l].pre)
    BY <1>3, <1>5, <1>6, <1>9 DEF Resting
<1>17. /\ Behind' => Behind /\ exp' = exp
       /\ res = 0 \/ (res <= exp'.rev /\ ~Behind')
    BY <1>11, <1>12, <1>13, <1>14 DEF Behind
<1>. QED
    BY <1>4, <1>9, <1>15, <1>16, <1>17 DEF LoopFollows, k

LEMMA LoopCommitFollows ==
    ASSUME Following, exp' \in ExpRow, NEW l \in Loops, LoopCommit(l),
           \A m \in Loops : m # l => loop[m].pc = "off", cmd = NoCmd
    PROVE  LoopFollows(l, loop[l].k)
<1>1. loop[l].pc = "executed" /\ fence' = fence
    BY DEF LoopCommit
<1>2. CASE Catch(l, eng)
    BY <1>2, EngRests, CatchFollows
<1>3. ASSUME NEW row, NEW cov, NEW res, Commits(l, row, cov, res)
      PROVE  LoopFollows(l, loop[l].k)
    BY <1>1, <1>3, CommitsFollows
<1>. QED
    BY <1>2, <1>3, LoopCommitIs

LEMMA LoopAdvanceFollows ==
    ASSUME Following, exp' \in ExpRow, NEW l \in Loops, LoopAdvance(l),
           \A m \in Loops : m # l => loop[m].pc = "off", cmd = NoCmd
    PROVE  LoopFollows(l, loop[l].k)
<1>1. /\ fence' = fence /\ loop[l].pc = "committed"
      /\ Catch(l, eng) \/ NextTask(l, eng, loop[l].res, loop[l].k)
    BY DEF LoopAdvance
<1>2. loop[l].res \in Nat /\ loop[l].k \in 0 .. fence /\ exp.status \notin Unbegun
    BY <1>1, FollowingIs, LoopFields, EngRests
<1>3. loop[l].pc \in Holding /\ Told(loop[l].res)
    BY <1>1, LoopIsSure DEF Holding, Awaiting
<1>4. Sure(loop[l].res, loop[l].k)
    BY <1>2, <1>3, LoopIsSure
<1>. QED
    BY <1>1, <1>2, <1>4, EngRests, CatchFollows, NextTaskFollows

LEMMA LoopEndsFollows ==
    ASSUME Following, exp' \in ExpRow, NEW l \in Loops,
           LoopFailing(l) \/ LoopFinalized(l) \/ LoopFailed(l)
    PROVE  /\ LoopFollows(l, loop[l].k) /\ loop'[l].pc \notin Holding
           /\ loop[l].pc # "failed" => ~Behind' \/ loop'[l].pc = "finalized"
<1>1. CASE AbortAfterFailure(l, eng)
    BY <1>1, EngRests, AbortAfterFailureFollows DEF Holding, AtWork
<1>2. CASE EndLoop(l, eng) /\ loop[l].pc = "failed"
    BY <1>2, EngRests, EndLoopFollows DEF Holding, AtWork
<1>3. CASE LoopTo(l, "finalized", 0) /\ UNCHANGED <<exp, eng, lease, tok>>
    <2>1. /\ loop'[l].pc = "finalized" /\ loop'[l].k = loop[l].k
          /\ loop'[l].pre = loop[l].pre
        BY <1>3, LoopToFields
    <2>. QED
        BY <1>3, <2>1, LoopWaitsFollows DEF Awaiting, Holding, AtWork
<1>4. LoopFailing(l) \/ LoopFinalized(l) =>
         \/ AbortAfterFailure(l, eng)
         \/ LoopTo(l, "finalized", 0) /\ UNCHANGED <<exp, eng, lease, tok>>
    BY DEF LoopFailing, LoopFinalized
<1>. QED
    BY <1>1, <1>2, <1>3, <1>4 DEF LoopFailed

\* The loop, the only one there is, and what the tab has been told.
LEMMA LoopFollowed ==
    ASSUME Following, NEW l \in Loops, NEW k \in Nat, LoopFollows(l, k), cmd' = NoCmd,
           k \in {loop[l].k, cmd.k}, loop'[l].pc \in Holding => k # 0 /\ (Behind => lease # k),
           loop' = [loop EXCEPT ![l] = loop'[l]], \A m \in Loops : m # l => loop[m].pc = "off",
           UNCHANGED <<abt, pse, rcv>>, Told(prev'),
           Behind' => loop'[l].pc \in {"failing", "finalized"} \/ ~Restored
    PROVE  Followed' /\ StaysOver
<1>1. /\ Forward /\ lease' \in {lease, 0} /\ tok' \in {tok, 0}
      /\ Resting(eng') /\ Resting(loop'[l].pre)
      /\ Behind' => loop'[l].pc \in {"failing", "finalized"} \/ (Behind /\ exp' = exp)
      /\ loop'[l].k \in {0, k} /\ (loop'[l].pc \in Holding => loop'[l].k = k)
      /\ loop'[l].pc \in Awaiting => \/ loop'[l].res = 0
                                     \/ loop'[l].res <= exp'.rev /\ ~Behind'
    BY DEF LoopFollows
<1>2. \A m \in Loops : m # l => loop'[m] = loop[m] /\ loop'[m].pc = "off"
    BY FollowingIs, LoopMoves
<1>3. cmd'.pc = "off" /\ ~Planned(cmd') /\ cmd'.k = 0 /\ cmd'.pre = NoEngine
    BY NothingInFlight DEF Planned
<1>4. ASSUME NEW v \in Nat, Told(v)' PROVE MayBeTold(v)
    <2>1. \/ Told(v)
          \/ loop'[l].pc \in Awaiting /\ v = loop'[l].res
        BY <1>2, <1>3, <1>4 DEF Told, Awaiting
    <2>. QED
        BY <1>1, <2>1 DEF MayBeTold, Late
<1>5. Late' => Fenced' /\ (exp' = exp => Late)
    <2>1. Late' => Behind' /\ loop'[l].pc \notin {"failing", "finalized"}
        BY DEF Late, Restored
    <2>2. Late' => Late
        BY <1>1, <2>1 DEF Late
    <2>3. ASSUME Late', NEW m \in Loops, loop'[m].pc \in Holding PROVE lease' # loop'[m].k
        <3>1. m = l
            BY <1>2, <2>3 DEF Holding, AtWork
        <3>2. k # 0 /\ lease # k
            BY <2>2, <2>3, <3>1 DEF Late
        <3>. QED
            BY <1>1, <2>3, <3>1, <3>2
    <2>. QED
        BY <1>3, <2>2, <2>3 DEF Fenced, Hands
<1>6. Tokened'
    BY <1>1, <1>2, <1>3 DEF Tokened, Holding, AtWork, Hands
<1>7. Beaten'
    BY <1>1, <1>2, <1>3, StillBeaten DEF Forward
<1>8. Rests'
    BY <1>1, <1>2, <1>3, EngRests, LoopsRest DEF Rests
<1>9. ReadOver'
    BY <1>3 DEF ReadOver
<1>. QED
    BY <1>1, <1>4, <1>5, <1>6, <1>7, <1>8, <1>9, StillFollowed, ForwardStays DEF Forward

LEMMA LoopStepFollowed ==
    ASSUME Following, exp' \in ExpRow, NEW l \in Loops, LoopStep(l)
    PROVE  Followed' /\ StaysOver
<1>1. /\ loop' = [loop EXCEPT ![l] = loop'[l]] /\ loop[l].pc # "off"
      /\ \A m \in Loops : m # l => loop[m].pc = "off"
      /\ cmd = NoCmd /\ cmd' = cmd
    BY FollowingIs, LoopStepMoves
<1>2. UNCHANGED <<abt, pse, rcv>>
    BY DEF LoopStep, LoopBase, LoopBegun, LoopExecute, RunLoad, RunWrite, LoopExecuted, LoopCommit,
       LoopCommitted, LoopAdvance, LoopFailing, LoopFinalized, LoopFailed, elsewhere
<1>3. LoopFollows(l, loop[l].k)
    BY <1>1, LoopBaseFollows, LoopBegunFollows, LoopExecuteFollows, LoopExecutionFollows,
       LoopCommitFollows, LoopCommittedFollows, LoopAdvanceFollows, LoopEndsFollows DEF LoopStep
<1>4. prev' = prev \/ (prev' = loop[l].res /\ loop[l].pc \in Awaiting)
    BY DEF LoopStep, LoopBase, LoopBegun, LoopExecute, RunLoad, RunWrite, LoopExecuted, LoopCommit,
       LoopCommitted, LoopAdvance, LoopFailing, LoopFinalized, LoopFailed, Awaiting
<1>5. Told(prev')
    BY <1>4 DEF Told
<1>6. loop[l].k \in Nat
    BY FollowingIs, LoopFields, GroundedTypes
<1>7. CASE loop[l].pc \in Holding \cup {"failed"}
    <2>1. ~Restored
        BY <1>1, <1>7, LoopIsSure
    <2>2. loop'[l].pc \in Holding => loop[l].pc \in Holding
        <3>1. loop[l].pc = "failed" => LoopFailed(l)
            BY DEF LoopStep, LoopBase, LoopBegun, LoopExecute, RunLoad, RunWrite, LoopExecuted,
                   LoopCommit, LoopCommitted, LoopAdvance, LoopFailing, LoopFinalized, LoopFailed,
                   Executing
        <3>. QED
            BY <1>7, <3>1, LoopEndsFollows
    <2>3. Told(prev)
        BY DEF Told
    <2>4. loop'[l].pc \in Holding => loop[l].k # 0 /\ (Behind => lease # loop[l].k)
        <3>1. loop[l].pc \in Holding => Sure(prev, loop[l].k) /\ loop[l].k # 0
            BY <1>1, <2>3, LoopIsSure, FollowingIs DEF Tokened
        <3>. QED
            BY <2>2, <3>1 DEF Sure
    <2>. QED
        BY <1>1, <1>2, <1>3, <1>5, <1>6, <2>1, <2>4, LoopFollowed
<1>8. CASE loop[l].pc \in {"failing", "finalized"}
    <2>1. LoopFailing(l) \/ LoopFinalized(l)
        BY <1>8 DEF LoopStep, LoopBase, LoopBegun, LoopExecute, RunLoad, RunWrite, LoopExecuted,
                    LoopCommit, LoopCommitted, LoopAdvance, LoopFailing, LoopFinalized, LoopFailed,
                    Executing
    <2>2. (~Behind' \/ loop'[l].pc = "finalized") /\ loop'[l].pc \notin Holding
        BY <1>8, <2>1, LoopEndsFollows
    <2>. QED
        BY <1>1, <1>2, <1>3, <1>5, <1>6, <2>2, LoopFollowed
<1>. QED
    BY <1>1, <1>7, <1>8, FollowingIs, LoopFields DEF LoopPositions, Holding, AtWork
-----------------------------------------------------------------------------
(* Abort and pause leave what is over alone.                               *)

\* What a loop may write, and with which lease.
SameHolder(x, y) == y.pc = x.pc /\ y.k = x.k /\ y.res = x.res /\ y.pre = x.pre

LEMMA HoldersStay ==
    ASSUME UNCHANGED loop
    PROVE  \A l \in Loops : SameHolder(loop[l], loop'[l])
    BY DEF SameHolder

LEMMA TabFollowed ==
    ASSUME Following, Forward, cmd' = cmd, tok' \in {tok, 0},
           \A l \in Loops : SameHolder(loop[l], loop'[l]), Resting(eng'),
           rcv'.pc \in AtTasks => rcv.pc \in AtTasks /\ rcv'.snap.rev = rcv.snap.rev /\ rcv'.k = rcv.k,
           Late' => Fenced' /\ (exp' = exp => Behind),
           MayBeTold(prev'), MayBeTold(abt'.res), \A v \in pse' : MayBeTold(v)
    PROVE  Followed' /\ StaysOver
<1>1. \A l \in Loops : /\ loop'[l].pc = loop[l].pc /\ loop'[l].k = loop[l].k
                       /\ loop'[l].res = loop[l].res /\ loop'[l].pre = loop[l].pre
    BY DEF SameHolder
<1>2. \A v \in Nat : Told(v)' => MayBeTold(v)
    <2>1. ASSUME NEW v \in Nat, Told(v)'
          PROVE  v = prev' \/ v \in pse' \/ v = abt'.res \/ Told(v)
        BY <1>1, <2>1 DEF Told
    <2>. QED
        BY <2>1 DEF MayBeTold
<1>3. Late' => Fenced' /\ (exp' = exp => Late)
    BY <1>1 DEF Late, Restored
<1>4. Tokened'
    BY <1>1, FollowingIs DEF Tokened
<1>5. tok' \in {0, tok, cmd.k} /\ cmd'.k \in {0, tok, cmd.k}
      /\ \A l \in Loops : loop'[l].k \in {0, loop[l].k, cmd.k}
    BY <1>1
<1>6. Beaten'
    BY <1>5, StillBeaten DEF Forward
<1>7. Rests'
    BY <1>1, FollowingIs DEF Rests
<1>8. ReadOver'
    BY StillRead
<1>. QED
    BY <1>2, <1>3, <1>4, <1>6, <1>7, <1>8, StillFollowed, ForwardStays DEF Forward

LEMMA FencedStays ==
    ASSUME Following, Behind' => Behind, lease' \in {lease, 0}, cmd' = cmd,
           \A l \in Loops : SameHolder(loop[l], loop'[l])
    PROVE  Late' => Fenced' /\ (exp' = exp => Behind)
<1>1. \A l \in Loops : loop'[l].pc = loop[l].pc /\ loop'[l].k = loop[l].k
    BY DEF SameHolder
<1>2. ASSUME Late' PROVE Behind /\ Late
    BY <1>1, <1>2 DEF Late, Restored
<1>3. Late => Fenced
    BY FollowingIs DEF Outrun
<1>4. Fenced => Fenced'
    BY <1>1, FollowingIs DEF Fenced, Tokened
<1>. QED
    BY <1>2, <1>3, <1>4

\* What the tab was told stays what it was.
LEMMA NothingNew ==
    ASSUME UNCHANGED <<prev, pse>>, abt'.res \in {0, abt.res}
    PROVE  MayBeTold(prev') /\ MayBeTold(abt'.res) /\ \A v \in pse' : MayBeTold(v)
    BY DEF MayBeTold, Told

LEMMA AbortEngineFollows ==
    ASSUME Following, exp' \in ExpRow, AbortEngine
    PROVE  /\ Forward /\ ~Behind' /\ Resting(eng') /\ MayBeTold(abt'.res)
           /\ UNCHANGED <<lease, tok>>
<1>1. eng' = Aborted(eng) /\ UNCHANGED <<lease, tok>>
    BY DEF AbortEngine
<1>2. CASE eng.status = "none"
    <2>1. eng' = eng /\ UNCHANGED exp /\ abt'.res = 0
        BY <1>1, <1>2, EngRests, AbortedIs, NothingInFlight DEF AbortEngine
    <2>. QED
        BY <1>1, <1>2, <2>1, EngRests DEF Forward, Written, Behind, MayBeTold
<1>3. CASE eng.status # "none"
    <2>1. PICK res \in {0, prev + 1} :
             Sync(Aborted(eng), prev, res) /\ abt' = [NoAbt EXCEPT !.pc = "syncing", !.res = res]
        BY <1>3 DEF AbortEngine
    <2>2. Aborted(eng) \in Engines /\ Aborted(eng).status \in Terminal /\ Resting(Aborted(eng))
        BY <1>3, EngRests, AbortedRests
    <2>3. Forward /\ res \in Nat /\ res <= exp'.rev
        BY <2>1, <2>2, FollowingIs, SyncOver
    <2>4. abt'.res = res
        BY <2>1 DEF NoAbt
    <2>5. ~Behind'
        BY <1>1, <2>2 DEF Behind
    <2>. QED
        BY <1>1, <2>2, <2>3, <2>4, <2>5 DEF MayBeTold, Late
<1>. QED
    BY <1>2, <1>3

\* The engine is aborted and written, or nothing of the experiment is.
LEMMA TabWrites ==
    ASSUME Following, exp' \in ExpRow, UNCHANGED <<prev, pse, cmd, rcv>>, lease' \in {lease, 0},
           tok' \in {tok, 0}, \A l \in Loops : SameHolder(loop[l], loop'[l]),
           AbortEngine \/ (UNCHANGED <<exp, eng>> /\ abt'.res \in {0, abt.res})
    PROVE  Followed' /\ StaysOver
<1>1. CASE AbortEngine
    <2>1. /\ Forward /\ ~Behind' /\ Resting(eng') /\ MayBeTold(abt'.res)
        BY <1>1, AbortEngineFollows
    <2>2. MayBeTold(prev') /\ \A v \in pse' : MayBeTold(v)
        BY DEF MayBeTold, Told
    <2>3. Late' => Fenced' /\ (exp' = exp => Behind)
        BY <2>1 DEF Late
    <2>. QED
        BY <2>1, <2>2, <2>3, TabFollowed
<1>2. CASE UNCHANGED <<exp, eng>> /\ abt'.res \in {0, abt.res}
    <2>1. Forward /\ Resting(eng') /\ (Behind' => Behind)
        BY <1>2, FollowingIs, EngRests DEF Forward, Written, Behind
    <2>2. Late' => Fenced' /\ (exp' = exp => Behind)
        BY <2>1, FencedStays
    <2>3. MayBeTold(prev') /\ MayBeTold(abt'.res) /\ \A v \in pse' : MayBeTold(v)
        BY <1>2, NothingNew
    <2>. QED
        BY <2>1, <2>2, <2>3, TabFollowed
<1>. QED
    BY <1>1, <1>2

LEMMA AbortStartsFollowed ==
    ASSUME Following, exp' \in ExpRow, AbortStarts
    PROVE  Followed' /\ StaysOver
<1>1. /\ UNCHANGED <<prev, pse, cmd, rcv>>
      /\ loop' = [l \in Loops |-> IF l = ctrl THEN [loop[l] EXCEPT !.sig = TRUE] ELSE loop[l]]
    BY DEF AbortStarts
<1>2. \A l \in Loops : loop'[l] \in {loop[l], [loop[l] EXCEPT !.sig = TRUE]}
    BY <1>1
<1>3. ASSUME NEW l \in Loops PROVE SameHolder(loop[l], loop'[l])
    <2>1. loop[l] \in LoopTypeOf(ids, fence)
        BY FollowingIs, LoopFields
    <2>2. SameHolder(loop[l], [loop[l] EXCEPT !.sig = TRUE])
        BY <2>1 DEF SameHolder, LoopTypeOf
    <2>. QED
        BY <1>2, <2>2 DEF SameHolder
<1>4. lease' \in {lease, 0} /\ tok' \in {tok, 0}
    BY DEF AbortStarts, Release, AbortEngine
<1>5. AbortEngine \/ (UNCHANGED <<exp, eng>> /\ abt'.res \in {0, abt.res})
    <2>1. CASE UNCHANGED <<exp, eng, abt>>
        BY <2>1
    <2>2. ASSUME UNCHANGED <<exp, eng>>, NEW run, NEW load,
                 abt' = [NoAbt EXCEPT !.pc = "reading", !.run = run, !.load = load]
          PROVE  abt'.res = 0
        BY <2>2 DEF NoAbt
    <2>. QED
        BY <2>1, <2>2 DEF AbortStarts
<1>. QED
    BY <1>1, <1>3, <1>4, <1>5, TabWrites

LEMMA AbortStepFollowed ==
    ASSUME Following, exp' \in ExpRow, AbortRead \/ AbortFinalized
    PROVE  Followed' /\ StaysOver
<1>1. UNCHANGED <<prev, pse, cmd, rcv, loop>>
    BY DEF AbortRead, AbortFinalized
<1>2. \/ AbortEngine
      \/ UNCHANGED <<exp, eng, lease, tok>> /\ abt' = [NoAbt EXCEPT !.pc = "finalized"]
    BY DEF AbortRead, AbortFinalized
<1>3. lease' \in {lease, 0} /\ tok' \in {tok, 0}
    BY <1>2 DEF AbortEngine
<1>4. AbortEngine \/ (UNCHANGED <<exp, eng>> /\ abt'.res \in {0, abt.res})
    BY <1>2 DEF NoAbt
<1>. QED
    BY <1>1, <1>3, <1>4, HoldersStay, TabWrites

\* A result is taken over that was told already.
LEMMA ResultFollowed ==
    ASSUME Following, AbortEnds \/ PauseEnds \/ LeaseExpires \/ UNCHANGED vars
    PROVE  Followed' /\ StaysOver
<1>1. /\ UNCHANGED <<exp, eng, cmd, rcv, loop>> /\ lease' \in {lease, 0} /\ tok' \in {tok, 0}
      /\ Told(prev') /\ pse' \subseteq pse /\ abt' \in {abt, NoAbt}
    BY DEF AbortEnds, PauseEnds, LeaseExpires, vars, durable, Release, Told
<1>2. Forward /\ Resting(eng') /\ (Behind' => Behind)
    BY <1>1, FollowingIs, EngRests DEF Forward, Written, Behind
<1>3. Late' => Fenced' /\ (exp' = exp => Behind)
    BY <1>1, <1>2, FencedStays, HoldersStay
<1>4. MayBeTold(prev') /\ MayBeTold(abt'.res) /\ \A v \in pse' : MayBeTold(v)
    BY <1>1, NothingInFlight DEF MayBeTold, Told
<1>. QED
    BY <1>1, <1>2, <1>3, <1>4, HoldersStay, TabFollowed

\* A pause is asked for while the record is running.
LEMMA UserPausesFollowed ==
    ASSUME Following, exp' \in ExpRow, UserPauses
    PROVE  Followed' /\ StaysOver
<1> DEFINE e == PauseRequested(eng)
<1>1. /\ UNCHANGED <<loop, cmd, rcv, prev, abt, lease, tok>> /\ exp.status = "running"
      /\ eng.status # "none" /\ eng' = e
      /\ \/ UNCHANGED <<exp, pse>>
         \/ \E res \in {0, prev + 1} : Sync(e, prev, res) /\ pse' = {res} /\ e.status = "paused"
    BY DEF UserPauses, Shown
<1>2. /\ e \in Engine /\ e.task = eng.task
      /\ e.status = eng.status \/ (e.status = "paused" /\ eng.task = 0)
    BY <1>1, EngRests, PauseRequestedIs
<1>. HIDE DEF e
<1>3. Resting(eng')
    BY <1>1, <1>2, EngRests DEF Resting
<1>4. exp.rev \in Nat /\ exp.status \notin Terminal /\ exp.status \notin Unbegun
    BY <1>1, FollowingIs DEF Terminal, Unbegun
<1>5. /\ Forward /\ exp'.status \notin Terminal
      /\ \A v \in pse' : v \in pse \/ v <= exp'.rev
    <2>1. CASE UNCHANGED <<exp, pse>>
        BY <1>4, <2>1, FollowingIs DEF Forward, Written
    <2>2. ASSUME NEW res \in {0, prev + 1}, Sync(e, prev, res), pse' = {res}, e.status = "paused"
          PROVE  /\ Forward /\ exp'.status \notin Terminal
                 /\ \A v \in pse' : v \in pse \/ v <= exp'.rev
        <3>1. e \in Engines /\ prev \in Nat
            BY <1>2, FollowingIs DEF Engines
        <3>2. \/ exp' = exp /\ res = 0
              \/ /\ exp.rev = prev /\ res = prev + 1 /\ exp'.rev = prev + 1
                 /\ exp'.status = "paused"
            BY <2>2, <3>1, FollowingIs, SyncIs
        <3>. QED
            BY <1>4, <2>2, <3>2 DEF Forward, Written, Terminal, Unbegun
    <2>. QED
        BY <1>1, <2>1, <2>2
<1>6. ~Late'
    BY <1>5 DEF Late, Behind
<1>7. MayBeTold(prev') /\ MayBeTold(abt'.res) /\ \A v \in pse' : MayBeTold(v)
    BY <1>1, <1>5, <1>6 DEF MayBeTold, Told
<1>. QED
    BY <1>1, <1>3, <1>5, <1>6, <1>7, HoldersStay, TabFollowed

LEMMA TabStepFollowed ==
    ASSUME Following, exp' \in ExpRow,
           \/ UserAborts \/ UserPauses \/ Control \/ LeaseExpires \/ UNCHANGED vars
    PROVE  Followed' /\ StaysOver
    BY AbortStartsFollowed, AbortStepFollowed, ResultFollowed, UserPausesFollowed
    DEF UserAborts, LeaseNoticed, Control
-----------------------------------------------------------------------------
(* A recovery ends the experiment behind the back of the tab.              *)

\* Whatever the tab holds is older than a lease that is issued now, or than
\* that of a recovery that may still write.
LEMMA OlderIsFenced ==
    ASSUME Following, UNCHANGED <<loop, cmd>>, lease' = fence + 1
    PROVE  Fenced'
<1>1. fence \in Nat /\ cmd.k \in 0 .. fence /\ \A l \in Loops : loop[l].k \in 0 .. fence
    BY FollowingIs, LoopFields, CmdFields, GroundedTypes
<1>2. \A k \in 0 .. fence : fence + 1 # k
    BY <1>1
<1>. QED
    BY <1>1, <1>2 DEF Fenced

LEMMA BeatenIsFenced ==
    ASSUME Following, UNCHANGED <<loop, cmd, lease>>, rcv.pc \in AtTasks, rcv.snap.rev = exp.rev
    PROVE  Fenced'
<1>1. fence \in Nat /\ rcv.k \in 0 .. fence /\ lease \in {0, fence}
    BY FollowingIs, RcvFields, GroundedTypes
<1>2. /\ cmd.k \in Nat /\ cmd.k < rcv.k
      /\ \A l \in Loops : loop[l].k \in Nat /\ loop[l].k < rcv.k
    BY FollowingIs, LoopFields, CmdFields, GroundedTypes DEF Beaten
<1>3. \A k \in Nat : k < rcv.k /\ k # 0 => lease # k
    BY <1>1
<1>. QED
    BY <1>2, <1>3, FollowingIs DEF Fenced, Tokened

LEMMA RcvStartFollowed ==
    ASSUME Following, exp' \in ExpRow, RcvStart
    PROVE  Followed' /\ StaysOver
<1>1. /\ UNCHANGED <<loop, cmd, eng, prev, tok, abt, pse>> /\ lease' = fence + 1
      /\ \/ exp.status = "draft" /\ exp' = NoExp
            /\ rcv' = [NoRcv EXCEPT !.pc = "ending", !.k = fence + 1]
         \/ UNCHANGED exp /\ rcv'.k = fence + 1
    BY DEF RcvStart, NoRcv
<1>2. /\ exp.status \in {"draft", "running", "paused"} /\ exp.status \notin Terminal
      /\ fence \in Nat /\ exp.rev \in Nat
    BY FollowingIs, GroundedTypes DEF RcvStart, Terminal
<1>3. Forward /\ exp'.status \notin Terminal
    BY <1>1, <1>2, NoRowFields DEF Forward, Written, Unbegun, Terminal
<1>4. ~Late'
    BY <1>3 DEF Late, Behind
<1>5. Fenced'
    BY <1>1, OlderIsFenced
<1>6. \A v \in Nat : Told(v)' => MayBeTold(v)
    BY <1>1 DEF Told, MayBeTold
<1>7. Beaten'
    <2>1. CASE rcv' = [NoRcv EXCEPT !.pc = "ending", !.k = fence + 1]
        <3>1. rcv'.pc = "ending"
            BY <2>1 DEF NoRcv
        <3>. QED
            BY <3>1 DEF Beaten, AtTasks
    <2>2. CASE UNCHANGED exp /\ rcv'.k = fence + 1
        <3>1. /\ tok \in 0 .. fence /\ cmd.k \in 0 .. fence
              /\ \A l \in Loops : loop[l].k \in 0 .. fence
            BY FollowingIs, LoopFields, CmdFields, GroundedTypes
        <3>2. \A k \in 0 .. fence : k < fence + 1
            BY <1>2
        <3>. QED
            BY <1>1, <1>2, <2>2, <3>1, <3>2 DEF Beaten
    <2>. QED
        BY <1>1, <2>1, <2>2
<1>8. Tokened' /\ Rests'
    BY <1>1, FollowingIs DEF Tokened, Rests
<1>9. ReadOver'
    BY <1>1, <1>3, StillRead
<1>. QED
    BY <1>3, <1>4, <1>6, <1>7, <1>8, <1>9, StillFollowed, ForwardStays DEF Forward

LEMMA RecoveryFollowed ==
    ASSUME Following, exp' \in ExpRow, Recovery
    PROVE  Followed' /\ StaysOver
<1>1. CASE RcvStart
    BY <1>1, RcvStartFollowed
<1>2. CASE RcvRead \/ RcvSettle \/ RcvWrite \/ RcvEnd
    <2>1. UNCHANGED <<loop, cmd, eng, prev, tok, abt, pse>> /\ lease' \in {lease, 0}
        BY <1>2 DEF RcvRead, RcvSettle, RcvWrite, RcvEnd, durable
    <2>2. rcv'.pc \in AtTasks =>
             rcv.pc \in AtTasks /\ rcv'.snap.rev = rcv.snap.rev /\ rcv'.k = rcv.k
        <3>1. rcv \in RcvTypeOf(fence)
            BY FollowingIs, RcvFields
        <3>2. CASE RcvRead
            BY <3>1, <3>2 DEF RcvRead, RcvTypeOf, AtTasks
        <3>3. CASE rcv' = [rcv EXCEPT !.pc = "ending"] \/ rcv' = NoRcv
            BY <3>1, <3>3, NothingInFlight DEF RcvTypeOf, AtTasks
        <3>4. ASSUME rcv.pc = "reading", NEW status \in OverStatus, RcvAttemptBecomes(status)
              PROVE  rcv.pc \in AtTasks /\ rcv'.snap.rev = rcv.snap.rev /\ rcv'.k = rcv.k
            <4>1. rcv'.snap = RcvSnap(status) /\ RcvSnap(status).rev = rcv.snap.rev
                BY <3>4, FollowingIs, RcvBecomes
            <4>2. rcv'.k = rcv.k
                BY <3>1, <3>4 DEF RcvAttemptBecomes, RcvTypeOf
            <4>. QED
                BY <3>4, <4>1, <4>2 DEF AtTasks
        <3>5. RcvSettle => rcv.pc = "reading" /\
                 \/ rcv' = [rcv EXCEPT !.pc = "ending"]
                 \/ \E status \in OverStatus : RcvAttemptBecomes(status)
            BY DEF RcvSettle, OverStatus
        <3>. QED
            BY <1>2, <3>2, <3>3, <3>4, <3>5 DEF RcvWrite, RcvEnd
    <2>3. MayBeTold(prev') /\ MayBeTold(abt'.res) /\ \A v \in pse' : MayBeTold(v)
        BY <2>1, NothingNew
    <2>4. Resting(eng')
        BY <2>1, EngRests
    <2>5. Forward /\ (Late' => Fenced' /\ (exp' = exp => Behind))
        <3>1. CASE exp' = exp
            <4>1. Forward /\ (Behind' => Behind)
                BY <2>1, <3>1, FollowingIs DEF Forward, Written, Behind
            <4>. QED
                BY <2>1, <4>1, FencedStays, HoldersStay
        <3>2. CASE RcvWrite /\ exp' # exp
            <4>1. PICK res : Sync(RcvRecord, rcv.snap.rev, res)
                BY <3>2 DEF RcvWrite, RcvRecord
            <4>2. exp' = Record(RcvRecord, rcv.snap.rev + 1) /\ exp.rev = rcv.snap.rev
                BY <3>2, <4>1 DEF Sync, IsAt
            <4>3. exp'.status = "interrupted" /\ exp'.rev = exp.rev + 1
                BY <4>2, FollowingIs, RcvRecordIs
            <4>4. Forward
                BY <4>3 DEF Forward, Written, Terminal, Unbegun
            <4>5. rcv.pc \in AtTasks /\ UNCHANGED lease
                BY <3>2 DEF RcvWrite, AtTasks
            <4>6. Fenced'
                BY <2>1, <4>2, <4>5, BeatenIsFenced
            <4>. QED
                BY <3>2, <4>4, <4>6
        <3>. QED
            BY <1>2, <3>1, <3>2 DEF RcvRead, RcvSettle, RcvEnd, durable
    <2>. QED
        BY <2>1, <2>2, <2>3, <2>4, <2>5, HoldersStay, TabFollowed
<1>. QED
    BY <1>1, <1>2 DEF Recovery

LEMMA CloseFollowed ==
    ASSUME Following, Close
    PROVE  Followed' /\ StaysOver
<1>1. /\ UNCHANGED <<exp, lease, rcv>> /\ eng' = NoEngine /\ loop' = [l \in Loops |-> NoLoop]
      /\ cmd' = NoCmd /\ abt' = NoAbt /\ pse' = {} /\ prev' = 0 /\ tok' = 0
    BY DEF Close, durable
<1>2. \A l \in Loops : loop'[l] = NoLoop
    BY <1>1
<1>3. \A l \in Loops : loop'[l].pc = "off" /\ loop'[l].k = 0 /\ Resting(loop'[l].pre)
    BY <1>2, NoLoopIs, LoopsRest
<1>4. /\ cmd'.pc = "off" /\ cmd'.k = 0 /\ cmd'.pre = NoEngine /\ abt'.res = 0 /\ ~Planned(cmd')
      /\ ~Hands(cmd')
    BY <1>1, NothingInFlight DEF Planned, Hands
<1>5. \A v \in Nat : Told(v)' => MayBeTold(v)
    BY <1>1, <1>3, <1>4 DEF Told, MayBeTold, Awaiting
<1>6. ~Late'
    BY <1>1, NoRowFields DEF Late, Behind
<1>7. Forward
    BY <1>1, FollowingIs DEF Forward, Written
<1>8. Beaten'
    BY <1>1, <1>3, <1>4, <1>7, StillBeaten DEF Forward
<1>9. Tokened' /\ Rests' /\ ReadOver'
    BY <1>1, <1>3, <1>4, LoopsRest DEF Tokened, Rests, ReadOver, Holding, AtWork
<1>. QED
    BY <1>5, <1>6, <1>7, <1>8, <1>9, StillFollowed, ForwardStays DEF Forward
-----------------------------------------------------------------------------
(* A command brings back what is over, and only by the write it begins     *)
(* with.                                                                   *)

LEMMA CmdFollowed ==
    ASSUME Following, NoLoopAlive, UNCHANGED <<loop, abt, pse, rcv>>, Written, StaysOver,
           MayBeTold(prev'), cmd'.pc \in {"syncing", "resuming"} => MayBeTold(cmd'.res),
           Late' => (exp' = exp => Late) /\ (Hands(cmd') => lease' # cmd'.k),
           Hands(cmd') \/ cmd'.pc \in {"acquiring", "creating", "planning"} => cmd'.k # 0,
           Beaten', Resting(eng'), Resting(cmd'.pre), ReadOver'
    PROVE  Followed' /\ StaysOver
<1>1. \A l \in Loops : loop'[l] = loop[l] /\ loop[l].pc \notin Holding /\ loop[l].pc \notin Awaiting
    BY DEF NoLoopAlive, Holding, AtWork, Awaiting
<1>2. \A v \in Nat : Told(v)' => MayBeTold(v)
    <2>1. ASSUME NEW v \in Nat, Told(v)'
          PROVE  \/ v = prev' \/ v \in pse \/ v = abt.res
                 \/ cmd'.pc \in {"syncing", "resuming"} /\ v = cmd'.res
        BY <1>1, <2>1 DEF Told
    <2>. QED
        BY <2>1 DEF MayBeTold, Told
<1>3. Late' => Fenced' /\ (exp' = exp => Late)
    BY <1>1 DEF Fenced
<1>4. Tokened'
    BY <1>1 DEF Tokened
<1>5. Rests'
    BY <1>1, EngRests DEF Rests
<1>. QED
    BY <1>2, <1>3, <1>4, <1>5, StillFollowed

\* The command is through, or has been refused; its engine stays if nothing
\* of it had failed.
LEMMA CmdGoneFollowed ==
    ASSUME Following, exp' \in ExpRow, NoLoopAlive, UNCHANGED <<loop, abt, pse, rcv, prev>>,
           cmd' = NoCmd, tok' \in {tok, 0, cmd.k},
           \/ eng' = NoEngine
           \/ eng' = eng /\ ~(cmd.pc \in {"syncing", "checking"} /\ cmd.res = 0),
           exp' = exp \/ (exp' = NoExp /\ exp.status \in Unbegun)
    PROVE  Followed' /\ StaysOver
<1>1. /\ cmd'.pc = "off" /\ ~Planned(cmd') /\ ~Hands(cmd') /\ cmd'.k = 0
      /\ cmd'.pre = NoEngine
    BY NothingInFlight DEF Planned, Hands
<1>2. Forward
    BY NoRowFields DEF Forward, Written, Unbegun, Terminal
<1>3. \A l \in Loops : loop[l].pc \notin {"failing", "finalized"}
    BY DEF NoLoopAlive
<1>4. Late' => (exp' = exp => Late)
    BY <1>3, NoRowFields DEF Late, Behind, Restored
<1>5. MayBeTold(prev')
    BY DEF MayBeTold, Told
<1>6. Beaten'
    BY <1>1, <1>2, StillBeaten DEF Forward
<1>7. Resting(eng') /\ Resting(cmd'.pre)
    BY <1>1, EngRests, LoopsRest
<1>8. ReadOver'
    BY <1>1 DEF ReadOver
<1>. QED
    BY <1>1, <1>2, <1>4, <1>5, <1>6, <1>7, <1>8, CmdFollowed, ForwardStays DEF Forward

LEMMA CmdIs ==
    ASSUME Following, cmd.pc # "off"
    PROVE  /\ NoLoopAlive /\ cmd \in CmdTypeOf(fence) /\ cmd.res \in Nat /\ cmd.k \in Nat
           /\ Resting(cmd.pre) /\ cmd.pre \in Engines
           /\ exp.status \in Unbegun => Preparing(cmd) /\ cmd.kind = "start"
           /\ Preparing(cmd) => exp.status \in Unbegun
           /\ Planned(cmd) => exp.status \in Terminal /\ cmd.snap.rev <= exp.rev
           /\ Hands(cmd) \/ cmd.pc \in {"acquiring", "creating", "planning"} => cmd.k # 0
           /\ \A l \in Loops : loop[l].pc \notin {"failing", "finalized"}
<1>1. NoLoopAlive
    BY FollowingIs, CommandBegins
<1>. QED
    BY <1>1, FollowingIs, CommandBegins, CmdFields, GroundedTypes
    DEF Rests, ReadOver, Tokened, NoLoopAlive

LEMMA CmdReadFollowed ==
    ASSUME Following, ~rushed', NEW kind \in {"start", "retry", "plan"}, CmdRead(kind)
    PROVE  Followed' /\ StaysOver
<1>1. /\ UNCHANGED <<exp, eng, loop, abt, pse, rcv, prev, tok>> /\ cmd = NoCmd
      /\ cmd' = [NoCmd EXCEPT !.kind = kind, !.pc = "read", !.snap = exp]
      /\ IF kind = "start" THEN exp.status = "none" ELSE exp.status \in Terminal
    BY DEF CmdRead, durable
<1>2. NoLoopAlive
    BY ReadQuietly, QuietIs
<1>3. /\ cmd'.kind = kind /\ cmd'.snap = exp /\ cmd'.pc = "read" /\ cmd'.pre = NoCmd.pre
      /\ cmd'.k = NoCmd.k
    BY <1>1 DEF NoCmd
<1>4. cmd'.pre = NoEngine /\ cmd'.k = 0 /\ ~Hands(cmd') /\ exp.rev \in Nat /\ cmd.pc = "off"
    BY <1>1, <1>3, NothingInFlight, FollowingIs DEF Hands
<1>5. Forward
    BY <1>1, FollowingIs DEF Forward, Written
<1>6. Late' => Late
    BY <1>1, <1>2, <1>4 DEF Late, Behind, Restored, NoLoopAlive
<1>7. ReadOver'
    <2>1. Planned(cmd') => kind # "start"
        BY <1>3 DEF Planned
    <2>. QED
        BY <1>1, <1>3, <1>4, <2>1 DEF ReadOver
<1>8. Beaten'
    BY <1>1, <1>4, <1>5, StillBeaten DEF Forward
<1>9. MayBeTold(prev')
    BY <1>1 DEF MayBeTold, Told
<1>10. Resting(eng') /\ Resting(cmd'.pre)
    BY <1>1, <1>4, EngRests, LoopsRest
<1>. QED
    BY <1>1, <1>2, <1>3, <1>4, <1>5, <1>6, <1>7, <1>8, <1>9, <1>10, CmdFollowed, ForwardStays
    DEF Forward

LEMMA CmdResumeFollowed ==
    ASSUME Following, ~rushed', CmdResume
    PROVE  Followed' /\ StaysOver
<1> DEFINE ok == IF tok # 0 /\ lease = tok THEN 1 ELSE 0
<1>1. /\ UNCHANGED <<exp, eng, loop, abt, pse, rcv, prev, tok>> /\ exp.status = "paused"
      /\ cmd' = [NoCmd EXCEPT !.kind = "resume", !.pc = "verifying", !.k = tok, !.res = ok]
    BY DEF CmdResume, durable
<1>2. ok # 0 => tok # 0
    OBVIOUS
<1>. HIDE DEF ok
<1>3. NoLoopAlive
    BY ResumedQuietly, QuietIs
<1>4. /\ cmd'.kind = "resume" /\ cmd'.pc = "verifying" /\ cmd'.k = tok /\ cmd'.res = ok
      /\ cmd'.pre = NoCmd.pre
    BY <1>1 DEF NoCmd
<1>5. cmd'.pre = NoEngine /\ (Hands(cmd') => cmd'.k # 0) /\ ~Planned(cmd')
    BY <1>2, <1>4, NothingInFlight DEF Hands, Planned
<1>6. Forward
    BY <1>1, FollowingIs DEF Forward, Written
<1>7. ~Late'
    BY <1>1 DEF Late, Behind, Terminal
<1>8. ReadOver'
    BY <1>4, <1>5 DEF ReadOver
<1>9. Beaten'
    BY <1>1, <1>4, <1>6, StillBeaten DEF Forward
<1>10. MayBeTold(prev')
    BY <1>1 DEF MayBeTold, Told
<1>11. Resting(eng') /\ Resting(cmd'.pre)
    BY <1>1, <1>5, EngRests, LoopsRest
<1>. QED
    BY <1>1, <1>3, <1>4, <1>5, <1>6, <1>7, <1>8, <1>9, <1>10, <1>11, CmdFollowed, ForwardStays
    DEF Forward

\* A command that has the lease finds no recovery that may still write: the
\* record it is about is over, or not begun.
LEMMA CmdAcquireFollowed ==
    ASSUME Following, CmdAcquire
    PROVE  Followed' /\ StaysOver
<1>1. /\ UNCHANGED <<exp, eng, loop, abt, pse, rcv, prev, tok>> /\ cmd.pc = "read"
      /\ cmd' = NoCmd \/ cmd' = [cmd EXCEPT !.pc = "acquiring", !.k = fence + 1]
    BY DEF CmdAcquire
<1>2. cmd.pc # "off"
    BY <1>1
<1>3. NoLoopAlive /\ exp \in ExpRow
    BY <1>2, CmdIs, FollowingIs
<1>4. CASE cmd' = NoCmd
    BY <1>1, <1>3, <1>4, CmdGoneFollowed
<1>5. CASE cmd' = [cmd EXCEPT !.pc = "acquiring", !.k = fence + 1]
    <2>1. fence \in Nat
        BY FollowingIs, GroundedTypes
    <2>2. /\ cmd'.kind = cmd.kind /\ cmd'.snap = cmd.snap /\ cmd'.pc = "acquiring"
          /\ cmd'.pre = cmd.pre /\ cmd'.k = fence + 1
        BY <1>2, <1>5, CmdIs DEF CmdTypeOf
    <2>3. /\ cmd'.k # 0 /\ ~Hands(cmd') /\ (Planned(cmd') => Planned(cmd))
        BY <1>1, <2>1, <2>2 DEF Hands, Planned
    <2>4. Forward
        BY <1>1, FollowingIs DEF Forward, Written
    <2>5. cmd.kind \in {"start", "retry", "plan"}
        BY <1>1, FollowingIs DEF ReadOver
    <2>6. exp.status \in Unbegun \/ exp.status \in Terminal
        <3>1. Preparing(cmd) \/ Planned(cmd)
            BY <1>1, <2>5 DEF Preparing, Planned
        <3>. QED
            BY <1>2, <3>1, CmdIs
    <2>7. Beaten'
        <3>1. ~(rcv.pc \in AtTasks /\ rcv.snap.rev = exp.rev)
            BY <2>6, FollowingIs DEF Beaten, Trusted, RcvKnown
        <3>. QED
            BY <1>1, <3>1 DEF Beaten
    <2>8. Late' => Late
        BY <1>1 DEF Late, Behind, Restored
    <2>9. ReadOver'
        BY <1>1, <1>2, <2>2, <2>3, <2>5, CmdIs DEF ReadOver
    <2>10. MayBeTold(prev') /\ Resting(eng') /\ Resting(cmd'.pre)
        BY <1>1, <1>2, <2>2, EngRests, CmdIs DEF MayBeTold, Told
    <2>. QED
        BY <1>1, <1>3, <2>2, <2>3, <2>4, <2>7, <2>8, <2>9, <2>10, CmdFollowed, ForwardStays
        DEF Forward
<1>. QED
    BY <1>1, <1>4, <1>5

LEMMA CmdSyncFollowed ==
    ASSUME Following, exp' \in ExpRow, cmd.pc # "off", cmd.k # 0, UNCHANGED <<loop, abt, pse, rcv>>,
           tok' \in {tok, cmd.k}, NEW e \in Engine, e.status = "running", NEW rev \in Nat,
           rev <= exp.rev, CmdSync(e, rev)
    PROVE  Followed' /\ StaysOver
<1>1. PICK res \in {0, rev + 1} :
         Sync(e, rev, res) /\ cmd' = [cmd EXCEPT !.pc = "syncing", !.res = res]
    BY DEF CmdSync
<1>2. eng' = e /\ prev' = rev /\ e \in Engines
    BY DEF CmdSync, Engines
<1>3. /\ res \in Nat
      /\ \/ exp' = exp /\ res = 0
         \/ exp.rev = rev /\ res = rev + 1 /\ exp'.rev = rev + 1 /\ exp'.status = "running"
    BY <1>1, <1>2, FollowingIs, SyncIs
<1>4. /\ cmd'.pc = "syncing" /\ cmd'.res = res /\ cmd'.k = cmd.k /\ cmd'.pre = cmd.pre
    BY <1>1, CmdIs DEF CmdTypeOf
<1>5. NoLoopAlive /\ exp.rev \in Nat /\ Resting(cmd'.pre)
    BY <1>4, CmdIs, FollowingIs
<1>6. Written
    BY <1>3, <1>5 DEF Written, Unbegun
<1>7. ~Late'
    BY <1>3, <1>4 DEF Late, Behind, Restored, Terminal
<1>8. MayBeTold(prev') /\ MayBeTold(cmd'.res)
    BY <1>2, <1>3, <1>4, <1>5, <1>7 DEF MayBeTold
<1>9. StaysOver
    BY <1>4 DEF StaysOver
<1>10. Beaten'
    BY <1>4, <1>6, StillBeaten
<1>11. Resting(eng')
    BY <1>2 DEF Resting
<1>12. ReadOver'
    BY <1>4 DEF ReadOver, Planned
<1>. QED
    BY <1>4, <1>5, <1>6, <1>7, <1>8, <1>9, <1>10, <1>11, <1>12, CmdFollowed

LEMMA QueuedFollowed ==
    ASSUME Following, exp' \in ExpRow, Planned(cmd), cmd.pc # "read",
           UNCHANGED <<loop, abt, pse, rcv>>, tok' \in {tok, cmd.k}, NEW plans,
           DOMAIN plans \subseteq Tasks, \A t \in DOMAIN plans : plans[t] \in Plan,
           CmdSync(Queued(EngineOf(cmd.snap), plans), cmd.snap.rev)
    PROVE  Followed' /\ StaysOver
<1> DEFINE q == Queued(EngineOf(cmd.snap), plans)
<1>1. cmd.snap \in ExpRow /\ cmd.snap.rev \in Nat /\ cmd.pc \in {"acquiring", "planning"}
    BY FollowingIs, CmdFields DEF ExpRow, Planned
<1>2. q \in Engine /\ q.status = "running" /\ Knows(q.att, cmd.snap.att)
    BY <1>1, QueuedIs
<1>. HIDE DEF q
<1>3. cmd.k # 0 /\ cmd.snap.rev <= exp.rev /\ cmd.pc # "off"
    BY <1>1, CmdIs
<1>4. CmdSync(q, cmd.snap.rev)
    BY DEF q
<1>. QED
    BY <1>1, <1>2, <1>3, <1>4, CmdSyncFollowed

LEMMA CmdAcquiredFollowed ==
    ASSUME Following, exp' \in ExpRow, CmdAcquired
    PROVE  Followed' /\ StaysOver
<1>1. UNCHANGED <<loop, abt, pse, rcv>> /\ cmd.pc = "acquiring"
    BY DEF CmdAcquired
<1>2. /\ NoLoopAlive /\ cmd.k # 0 /\ Resting(cmd.pre) /\ cmd \in CmdTypeOf(fence)
      /\ cmd.k \in Nat /\ exp.rev \in Nat
      /\ Preparing(cmd) => exp.status \in Unbegun
      /\ Planned(cmd) => exp.status \in Terminal /\ cmd.snap.rev <= exp.rev
    BY <1>1, CmdIs, FollowingIs
<1>3. CASE /\ cmd' = NoCmd /\ eng' \in {eng, NoEngine} /\ UNCHANGED <<exp, prev>> /\ tok' = 0
    BY <1>1, <1>2, <1>3, CmdGoneFollowed
<1>4. ASSUME UNCHANGED <<eng, prev>>, tok' = cmd.k,
             exp' = exp \/ (exp' = [NoExp EXCEPT !.status = "draft"] /\ cmd.kind = "start"),
             NEW pc \in {"creating", "planning"}, NEW res,
             cmd' = [cmd EXCEPT !.pc = pc, !.res = res],
             cmd.kind = (IF pc = "creating" THEN "start" ELSE "plan")
      PROVE  Followed' /\ StaysOver
    <2>1. /\ cmd'.pc = pc /\ cmd'.k = cmd.k /\ cmd'.pre = cmd.pre /\ cmd'.kind = cmd.kind
          /\ cmd'.snap = cmd.snap
        BY <1>2, <1>4 DEF CmdTypeOf
    <2>2. ~Hands(cmd') /\ (Planned(cmd') => Planned(cmd))
        BY <1>1, <1>4, <2>1 DEF Hands, Planned
    <2>3. cmd.kind = "start" => exp.status \in Unbegun
        BY <1>1, <1>2 DEF Preparing
    <2>4. [NoExp EXCEPT !.status = "draft"].status = "draft"
             /\ [NoExp EXCEPT !.status = "draft"].rev = 0
        BY DEF NoExp
    <2>5. Forward
        BY <1>4, <2>3, <2>4 DEF Forward, Written, Unbegun, Terminal
    <2>6. Late' => (exp' = exp => Late)
        BY <1>1, <1>4, <2>1 DEF Late, Behind, Restored
    <2>7. Planned(cmd) => exp' = exp
        BY <1>2, <1>4, <2>3 DEF Terminal, Unbegun
    <2>8. ReadOver'
        BY <1>2, <1>4, <2>1, <2>2, <2>7 DEF ReadOver
    <2>9. Beaten'
        BY <1>1, <1>4, <2>1, <2>5, StillBeaten DEF Forward
    <2>10. MayBeTold(prev') /\ Resting(eng') /\ Resting(cmd'.pre)
        BY <1>2, <1>4, <2>1, EngRests DEF MayBeTold, Told
    <2>11. cmd'.k # 0 /\ cmd'.pc \notin {"syncing", "resuming"}
        BY <1>2, <1>4, <2>1
    <2>. QED
        BY <1>1, <1>2, <2>2, <2>5, <2>6, <2>8, <2>9, <2>10, <2>11, CmdFollowed, ForwardStays
        DEF Forward
<1>5. CASE /\ cmd.kind = "start" /\ UNCHANGED <<eng, prev>> /\ tok' = cmd.k
           /\ exp' = exp \/ exp' = [NoExp EXCEPT !.status = "draft"]
           /\ \E res \in {0, 1} : cmd' = [cmd EXCEPT !.pc = "creating", !.res = res]
    BY <1>4, <1>5
<1>6. CASE cmd.kind = "plan" /\ cmd' = [cmd EXCEPT !.pc = "planning"] /\ tok' = cmd.k
           /\ UNCHANGED <<exp, eng, prev>>
    <2>1. cmd' = [cmd EXCEPT !.pc = "planning", !.res = cmd.res]
        BY <1>2, <1>6 DEF CmdTypeOf
    <2>. QED
        BY <1>4, <1>6, <2>1
<1>7. CASE /\ cmd.kind = "retry" /\ tok' = cmd.k
           /\ CmdSync(Queued(EngineOf(cmd.snap), RetryPlans(EngineOf(cmd.snap))), cmd.snap.rev)
    <2>1. Planned(cmd) /\ cmd.snap \in ExpRow
        BY <1>1, <1>7, FollowingIs, CmdFields DEF Planned
    <2> DEFINE plans == RetryPlans(EngineOf(cmd.snap))
    <2>2. DOMAIN plans \subseteq Tasks /\ \A t \in DOMAIN plans : plans[t] \in Plan
        BY <2>1, RetryPlansAre
    <2>3. CmdSync(Queued(EngineOf(cmd.snap), plans), cmd.snap.rev)
        BY <1>7
    <2>. HIDE DEF plans
    <2>. QED
        BY <1>1, <1>7, <2>1, <2>2, <2>3, QueuedFollowed
<1>. QED
    BY <1>3, <1>5, <1>6, <1>7 DEF CmdAcquired

\* A command that fails drops its engine.
LEMMA CmdFailsFollowed ==
    ASSUME Following, exp' \in ExpRow, cmd.pc # "off", UNCHANGED <<loop, abt, pse, rcv>>, CmdFails,
           exp' = exp \/ (exp' = NoExp /\ exp.status \in Unbegun)
    PROVE  Followed' /\ StaysOver
<1>1. eng' = NoEngine /\ cmd' = NoCmd /\ tok' = 0 /\ UNCHANGED prev
    BY DEF CmdFails, Release
<1>. QED
    BY <1>1, CmdIs, CmdGoneFollowed

LEMMA CmdCreatedFollowed ==
    ASSUME Following, exp' \in ExpRow, CmdCreated
    PROVE  Followed' /\ StaysOver
<1>1. UNCHANGED <<loop, abt, pse, rcv>> /\ cmd.pc = "creating" /\ cmd.pc # "off"
    BY DEF CmdCreated
<1>2. CASE CmdFails /\ UNCHANGED exp
    BY <1>1, <1>2, CmdFailsFollowed
<1>3. CASE CmdSync(DraftStarted(EngineOf([NoExp EXCEPT !.status = "draft"])), 0) /\ UNCHANGED tok
    <2> DEFINE e == DraftStarted(EngineOf([NoExp EXCEPT !.status = "draft"]))
    <2>1. e \in Engine /\ e.status = "running" /\ e.att = NoExp.att /\ e.sel = NoExp.sel
        BY DraftStartedIs
    <2>2. CmdSync(e, 0)
        BY <1>3
    <2>. HIDE DEF e
    <2>3. cmd.k # 0 /\ exp.rev \in Nat
        BY <1>1, CmdIs, FollowingIs
    <2>. QED
        BY <1>1, <1>3, <2>1, <2>2, <2>3, CmdSyncFollowed
<1>. QED
    BY <1>2, <1>3 DEF CmdCreated

LEMMA CmdPlannedFollowed ==
    ASSUME Following, exp' \in ExpRow, CmdPlanned
    PROVE  Followed' /\ StaysOver
<1>1. /\ UNCHANGED <<loop, abt, pse, rcv>> /\ cmd.pc = "planning" /\ Planned(cmd)
      /\ cmd.pc \notin {"off", "read"}
    BY DEF CmdPlanned, Planned
<1>2. CASE CmdFails /\ UNCHANGED exp
    BY <1>1, <1>2, CmdFailsFollowed
<1>3. ASSUME NEW plans \in Plans(EngineOf(cmd.snap)), UNCHANGED tok,
             CmdSync(Queued(EngineOf(cmd.snap), plans), cmd.snap.rev)
      PROVE  Followed' /\ StaysOver
    <2>1. DOMAIN plans \subseteq Tasks /\ \A t \in DOMAIN plans : plans[t] \in Plan
        BY PlansAre
    <2>. QED
        BY <1>1, <1>3, <2>1, QueuedFollowed
<1>. QED
    BY <1>2, <1>3 DEF CmdPlanned

\* The loop takes over with the revision and the lease of a write that came
\* through.
LEMMA CmdEndsFollowed ==
    ASSUME Following, exp' \in ExpRow, fence' = fence, cmd.pc \in {"syncing", "resuming"},
           cmd.res # 0, cmd' = NoCmd, prev' = cmd.res, UNCHANGED <<abt, pse, rcv>>,
           NEW l \in Loops, NextTask(l, eng, cmd.res, cmd.k)
    PROVE  Followed' /\ StaysOver
<1>1. /\ NoLoopAlive /\ cmd.res \in Nat /\ cmd.k \in 0 .. fence /\ cmd.k # 0 /\ Hands(cmd)
      /\ exp.status \notin Unbegun /\ \A m \in Loops : loop[m].pc \notin {"failing", "finalized"}
      /\ cmd.k \in Nat
    BY CmdIs, FollowingIs, CmdFields DEF Preparing, Hands
<1>2. ~Restored
    BY <1>1 DEF Restored
<1>3. Told(cmd.res)
    BY DEF Told
<1>4. Sure(cmd.res, cmd.k)
    BY <1>1, <1>2, <1>3, FollowingIs DEF Sure, Outrun, Late, Fenced
<1>5. LoopFollows(l, cmd.k)
    BY <1>1, <1>4, NextTaskFollows
<1>6. loop' = [loop EXCEPT ![l] = loop'[l]]
    BY <1>1, NextTaskPart, FollowingIs, EngRests DEF LoopPart
<1>7. Told(prev')
    BY <1>3
<1>8. \A m \in Loops : m # l => loop[m].pc = "off"
    BY <1>1 DEF NoLoopAlive
<1>. QED
    BY <1>1, <1>2, <1>4, <1>5, <1>6, <1>7, <1>8, LoopFollowed DEF Sure

LEMMA CmdSyncedFollowed ==
    ASSUME Following, exp' \in ExpRow, CmdSynced
    PROVE  Followed' /\ StaysOver
<1>1. fence' = fence /\ cmd.pc = "syncing" /\ UNCHANGED <<abt, pse, rcv>> /\ cmd.pc # "off"
    BY DEF CmdSynced
<1>2. CASE /\ CmdFails /\ exp' = (IF cmd.kind = "start" THEN NoExp ELSE exp) /\ cmd.res = 0
           /\ UNCHANGED loop
    <2>1. cmd.kind = "start" => exp.status \in Unbegun
        BY <1>1, <1>2, CmdIs DEF Preparing
    <2>. QED
        BY <1>1, <1>2, <2>1, CmdFailsFollowed
<1>3. ASSUME cmd.res # 0, cmd' = NoCmd, prev' = cmd.res, NEW l \in Loops,
             NextTask(l, eng, cmd.res, cmd.k)
      PROVE  Followed' /\ StaysOver
    BY <1>1, <1>3, CmdEndsFollowed
<1>. QED
    BY <1>2, <1>3 DEF CmdSynced

\* The engine that was paused is resumed; the record is written only if it
\* is still that of the pause.
LEMMA CmdVerifiedFollowed ==
    ASSUME Following, exp' \in ExpRow, CmdVerified
    PROVE  Followed' /\ StaysOver
<1>1. /\ UNCHANGED <<loop, abt, pse, rcv, prev, lease>> /\ cmd.pc = "verifying" /\ cmd.pc # "off"
      /\ tok' \in {tok, cmd.k}
    BY DEF CmdVerified
<1>2. /\ NoLoopAlive /\ cmd \in CmdTypeOf(fence) /\ exp.status \notin Unbegun /\ exp.rev \in Nat
      /\ \A l \in Loops : loop[l].pc \notin {"failing", "finalized"}
    BY <1>1, CmdIs, FollowingIs DEF Preparing
<1>3. CASE cmd' = NoCmd /\ UNCHANGED <<exp, eng>>
    BY <1>1, <1>2, <1>3, CmdGoneFollowed
<1>4. ASSUME cmd.res # 0, eng.status = "paused", eng' = Resumed(eng), NEW res \in {0, prev + 1},
             Sync(Resumed(eng), prev, res),
             cmd' = [cmd EXCEPT !.pc = "resuming", !.res = res, !.pre = eng]
      PROVE  Followed' /\ StaysOver
    <2>1. Resumed(eng) \in Engine /\ Resumed(eng).status = "running"
        BY <1>4, EngRests, ResumedIs
    <2>2. Resumed(eng) \in Engines /\ prev \in Nat
        BY <2>1, FollowingIs DEF Engines
    <2>3. /\ res \in Nat
          /\ \/ exp' = exp /\ res = 0
             \/ /\ exp.rev = prev /\ res = prev + 1 /\ exp'.rev = prev + 1
                /\ exp'.status = "running"
        BY <1>4, <2>1, <2>2, FollowingIs, SyncIs
    <2>4. /\ cmd'.pc = "resuming" /\ cmd'.res = res /\ cmd'.k = cmd.k /\ cmd'.pre = eng
        BY <1>2, <1>4 DEF CmdTypeOf
    <2>5. ~Restored /\ Hands(cmd)
        BY <1>1, <1>2, <1>4 DEF Restored, Hands
    <2>6. Behind => exp.rev # prev /\ lease # cmd.k
        BY <2>5, FollowingIs DEF Outrun, Late, Told, Fenced
    <2>7. exp.status \in Terminal => Behind
        BY <1>4 DEF Behind, Terminal
    <2>8. Forward
        BY <1>2, <2>3, <2>6, <2>7 DEF Forward, Written, Unbegun
    <2>9. Late' => exp' = exp /\ Late /\ lease # cmd.k
        BY <2>3, <2>5, <2>6, <2>7 DEF Late, Behind, Terminal
    <2>10. MayBeTold(prev') /\ MayBeTold(cmd'.res)
        BY <1>1, <2>3, <2>4, <2>9 DEF MayBeTold, Told
    <2>11. cmd'.k # 0
        BY <1>1, <2>4, <2>5, CmdIs
    <2>12. Beaten'
        BY <1>1, <2>4, <2>8, StillBeaten DEF Forward
    <2>13. Resting(eng') /\ Resting(cmd'.pre)
        BY <1>4, <2>1, <2>4, EngRests DEF Resting
    <2>14. ReadOver'
        BY <2>4 DEF ReadOver, Planned
    <2>. QED
        BY <1>1, <1>2, <2>4, <2>8, <2>9, <2>10, <2>11, <2>12, <2>13, <2>14, CmdFollowed, ForwardStays
        DEF Forward
<1>. QED
    BY <1>3, <1>4 DEF CmdVerified

LEMMA CmdResumedFollowed ==
    ASSUME Following, exp' \in ExpRow, CmdResumed
    PROVE  Followed' /\ StaysOver
<1>1. /\ fence' = fence /\ cmd.pc = "resuming" /\ UNCHANGED <<abt, pse, rcv>> /\ cmd.pc # "off"
    BY DEF CmdResumed
<1>2. NoLoopAlive /\ cmd \in CmdTypeOf(fence) /\ Resting(cmd.pre)
    BY <1>1, CmdIs
<1> DEFINE ok == IF exp.status = "paused" THEN 1 ELSE 0
<1>3. CASE /\ eng' = cmd.pre /\ cmd' = [cmd EXCEPT !.pc = "checking", !.res = ok]
           /\ UNCHANGED <<exp, loop, prev, tok>>
    <2>1. cmd' = [cmd EXCEPT !.pc = "checking", !.res = ok]
        BY <1>3
    <2>2. exp.status \in Terminal => ok = 0
        BY DEF Terminal
    <2>. HIDE DEF ok
    <2>3. /\ cmd'.pc = "checking" /\ cmd'.res = ok /\ cmd'.k = cmd.k /\ cmd'.pre = cmd.pre
        BY <1>2, <2>1 DEF CmdTypeOf
    <2>4. ~Late'
        BY <1>3, <2>2, <2>3 DEF Late, Behind, Restored
    <2>5. Forward
        BY <1>3, FollowingIs DEF Forward, Written
    <2>6. Beaten'
        BY <1>1, <1>3, <2>3, <2>5, StillBeaten DEF Forward
    <2>7. ReadOver' /\ ~Hands(cmd')
        BY <2>3 DEF ReadOver, Planned, Hands
    <2>8. MayBeTold(prev') /\ Resting(eng') /\ Resting(cmd'.pre)
        BY <1>2, <1>3, <2>3 DEF MayBeTold, Told
    <2>. QED
        BY <1>1, <1>2, <1>3, <2>3, <2>4, <2>5, <2>6, <2>7, <2>8, CmdFollowed, ForwardStays
        DEF Forward
<1>4. ASSUME cmd.res # 0, cmd' = NoCmd, prev' = cmd.res, NEW l \in Loops,
             NextTask(l, eng, cmd.res, cmd.k)
      PROVE  Followed' /\ StaysOver
    BY <1>1, <1>4, CmdEndsFollowed
<1>. QED
    BY <1>3, <1>4 DEF CmdResumed

LEMMA CmdCheckedFollowed ==
    ASSUME Following, exp' \in ExpRow, CmdChecked
    PROVE  Followed' /\ StaysOver
<1>1. /\ UNCHANGED <<exp, loop, abt, pse, rcv, prev>> /\ cmd.pc = "checking" /\ cmd' = NoCmd
      /\ eng' = NoEngine \/ (eng' = eng /\ cmd.res = 1)
      /\ tok' \in {tok, 0} /\ cmd.pc # "off"
    BY DEF CmdChecked
<1>. QED
    BY <1>1, CmdIs, CmdGoneFollowed

LEMMA CmdStepFollowed ==
    ASSUME Following, exp' \in ExpRow, CmdStep
    PROVE  Followed' /\ StaysOver
    BY CmdAcquireFollowed, CmdAcquiredFollowed, CmdCreatedFollowed, CmdPlannedFollowed,
       CmdSyncedFollowed, CmdVerifiedFollowed, CmdResumedFollowed, CmdCheckedFollowed
    DEF CmdStep
-----------------------------------------------------------------------------
(* The theorem.                                                            *)

LEMMA InitFollowed ==
    ASSUME Init
    PROVE  Followed
<1>1. /\ exp = NoExp /\ loop = [l \in Loops |-> NoLoop] /\ cmd = NoCmd /\ eng = NoEngine
      /\ prev = 0 /\ pse = {} /\ abt = NoAbt /\ rcv = NoRcv
    BY DEF Init
<1>2. \A l \in Loops : loop[l] = NoLoop
    BY <1>1
<1>3. \A l \in Loops : loop[l].pc = "off" /\ Resting(loop[l].pre)
    BY <1>2, NoLoopIs, LoopsRest
<1>4. /\ cmd.pc = "off" /\ cmd.pre = NoEngine /\ abt.res = 0 /\ rcv.pc = "off"
      /\ exp.rev = 0 /\ exp.status = "none"
    BY <1>1, NothingInFlight, NoRowFields
<1>5. Numbered
    BY <1>1, <1>3, <1>4 DEF Numbered, Told, Unbegun, Awaiting
<1>6. Outrun /\ Tokened
    BY <1>3, <1>4 DEF Outrun, Late, Behind, Terminal, Tokened, Holding, AtWork, Hands
<1>7. Beaten /\ Rests /\ ReadOver
    BY <1>1, <1>3, <1>4, LoopsRest DEF Beaten, AtTasks, Rests, ReadOver, Planned
<1>. QED
    BY <1>5, <1>6, <1>7 DEF Followed

LEMMA NextFollowed ==
    ASSUME ~rushed', Following, [Next]_vars
    PROVE  Followed' /\ StaysOver
<1>1. Grounded'
    BY FollowingIs, NextGrounded
<1>2. exp' \in ExpRow
    BY <1>1 DEF Grounded, RowsGrounded
<1>. QED
    BY <1>2, LoopStepFollowed, TabStepFollowed, CmdStepFollowed, CmdReadFollowed,
       CmdResumeFollowed, RecoveryFollowed, CloseFollowed
    DEF Next, User

LEMMA FollowsOn ==
    ASSUME ~rushed', Following, [Next]_vars
    PROVE  Following' /\ StaysOver
<1>1. Remembering'
    BY FollowingIs, NextGrounded, NextTrusted, NextRemembers DEF Remembering
<1>. QED
    BY <1>1, NextFollowed DEF Following

\* Until a command is given while something else is under way, an experiment
\* that is over is brought back by nothing but the first write of a retry, a
\* repair or an extension: not by the status write of a loop, the pause of a
\* user or the resumption of an engine that a recovery in another tab has
\* overtaken, for any number of tasks, commands, resumptions, recoveries and
\* faults.  The compare-and-swap alone carries this: an engine that runs on
\* over a record that has ended knows neither its revision nor holds its
\* lease.
THEOREM OverStaysOver == Spec => [][~rushed' => StaysOver]_vars
<1> DEFINE Inv == Grounded /\ (~rushed => Following)
<1>1. Init => Inv
    BY InitGrounded, InitTrusted, InitRemembers, InitFollowed DEF Following, Remembering
<1>2. Inv /\ [Next]_vars => Inv' /\ (~rushed' => StaysOver)
    <2> SUFFICES ASSUME Inv, [Next]_vars PROVE Inv' /\ (~rushed' => StaysOver)
        OBVIOUS
    <2>1. Grounded'
        BY NextGrounded
    <2>2. ASSUME ~rushed' PROVE Following' /\ StaysOver
        <3>1. Following
            BY <2>2, RushedStays
        <3>. QED
            BY <2>2, <3>1, FollowsOn
    <2>. QED
        BY <2>1, <2>2
<1>3. Inv /\ [Next]_vars => [~rushed' => StaysOver]_vars
    BY <1>2
<1>. QED
    BY <1>1, <1>2, <1>3, PTL DEF Spec
=============================================================================
