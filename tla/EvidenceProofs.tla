--------------------------- MODULE EvidenceProofs ---------------------------
(***************************************************************************)
(* Proofs about EvidenceIndex, for any pages, any cells and any number of  *)
(* commits, crashes and faults.                                            *)
(*                                                                         *)
(* A marker is written at the end of a derivation that began long before,  *)
(* so the invariant follows the derivations: what one has still to write   *)
(* and what is stored make up the run, unless the run has stopped being    *)
(* the source of its task, which is for good: later runs are selected, and *)
(* the fingerprints that are rotated away do not come back.                *)
(*                                                                         *)
(* The parts of the invariant have the state they speak of as arguments:   *)
(* c commits, s the selected run, o the rows, t the rotated runs.          *)
(***************************************************************************)
EXTENDS EvidenceIndex, FiniteSetTheorems, TLAPS

\* The rows of run r, those still to be written included, are all there.
Accounts(r, todo, s, t, o) == Cells \X {r} \subseteq o[r] \cup todo \/ s # r \/ r <= t

GoodWork(k, c, s, t, o) ==
    /\ k \in Derivation /\ k.src \in 0..c
    /\ k.todo \subseteq Cells \X {k.src}
    /\ k.src # 0 /\ ~k.failed => Accounts(k.src, k.todo, s, t, o)

GoodRow(r, m, c, s, t, o) ==
    /\ m \in Marker
    /\ m.status # "none" => r \in 1..c
    /\ m.status = "complete" => Accounts(r, {}, s, t, o)

\* Page g with its drain q and its pass a: what is announced or listed is
\* committed, and the derivations kq and ka are what the two wait for.
GoodPage(g, q, a, kq, ka, c) ==
    /\ g.events \subseteq 1..c /\ a.list \subseteq 1..c
    /\ q = "derive" => kq.src # 0
    /\ a.pc \in {"derive", "mark"} => ka.src # 0
    /\ a.pc = "mark" => ka.todo = {} /\ ~ka.failed

SourcesOK == commits \in 0..MaxCommits /\ selected \in 0..commits /\ rotated \in 0..commits

StoresOK ==
    /\ job \in [AllRuns -> Marker]
    /\ \A r \in AllRuns : GoodRow(r, job[r], commits, selected, rotated, obs)
    /\ obs \in [AllRuns -> SUBSET (Cells \X AllRuns)]
    /\ OnlyOwnEvidence
    /\ passLease \in [held : BOOLEAN, owner : Owners]
    /\ trouble \in 0..MaxTrouble

WorkersOK ==
    /\ work \in [Workers -> Derivation]
    /\ \A w \in Workers : GoodWork(work[w], commits, selected, rotated, obs)

PagesOK ==
    /\ page \in [Pages -> PageState] /\ pass \in [Pages -> PassState]
    /\ queue \in [Pages -> {"idle", "list", "claim", "derive"}]
    /\ \A p \in Pages : GoodPage(page[p], queue[p], pass[p], work[<<p, "queue">>],
                                 work[<<p, "pass">>], commits)

IndexInv == SourcesOK /\ StoresOK /\ WorkersOK /\ PagesOK

\* What a drain has listed, which no other part depends on.
ListsOK == listed \in [Pages -> SUBSET AllRuns]

LEMMA InvImplies ==
    IndexInv => (ListsOK => IndexTypeOK) /\ CompleteIsAccounted /\ OnlyOwnEvidence
<1>. SUFFICES ASSUME IndexInv
              PROVE  (ListsOK => IndexTypeOK) /\ CompleteIsAccounted /\ OnlyOwnEvidence
    OBVIOUS
<1>1. ListsOK => IndexTypeOK
    BY DEF IndexInv, SourcesOK, StoresOK, WorkersOK, PagesOK, ListsOK, IndexTypeOK
<1>2. CompleteIsAccounted
    BY DEF IndexInv, StoresOK, GoodRow, Accounts, CompleteIsAccounted
<1>. QED
    BY <1>1, <1>2 DEF IndexInv, StoresOK

-----------------------------------------------------------------------------
LEMMA RunNumbers ==
    ASSUME SourcesOK
    PROVE  1..commits \subseteq AllRuns /\ 0..commits \subseteq 0..MaxCommits /\ commits \in Nat
    BY MaxCommitsAssumption DEF SourcesOK, AllRuns

LEMMA CountsOf ==
    /\ 0 \in Counts
    /\ \A r : Cardinality(Cells \X {r}) \in Counts
    /\ Cardinality({}) \in Counts
<1>1. Cardinality(Cells) \in Nat
    BY CellsAssumption, FS_CardinalityType
<1>2. ASSUME NEW r PROVE Cardinality(Cells \X {r}) \in Counts
    <2>1. IsFiniteSet({r}) /\ Cardinality({r}) = 1
        BY FS_Singleton
    <2>2. Cardinality(Cells \X {r}) = Cardinality(Cells) * Cardinality({r})
        BY <2>1, CellsAssumption, FS_Product
    <2>. QED
        BY <1>1, <2>1, <2>2 DEF Counts
<1>3. Cardinality({}) = 0
    BY FS_EmptySet
<1>4. 0 \in Counts
    BY <1>1 DEF Counts
<1>. QED
    BY <1>2, <1>3, <1>4

LEMMA Fresh ==
    /\ NoJob \in Marker /\ NoJob.status = "none"
    /\ NoWork \in Derivation /\ NoWork.src = 0 /\ NoWork.todo = {}
    /\ NewPage \in PageState /\ NewPage.events = {}
    /\ NoPass \in PassState /\ NoPass.pc = "done" /\ NoPass.list = {}
    /\ Free \in [held : BOOLEAN, owner : Owners]
<1>1. 0 \in Counts /\ 0 \in 0..MaxCommits
    BY CountsOf, MaxCommitsAssumption
<1>2. NoJob \in Marker /\ NoJob.status = "none"
    BY <1>1 DEF NoJob, Marker, Owners
<1>3. NoWork \in Derivation /\ NoWork.src = 0 /\ NoWork.todo = {}
    BY <1>1 DEF NoWork, Derivation
<1>4. NewPage \in PageState /\ NewPage.events = {}
    BY DEF NewPage, PageState
<1>5. NoPass \in PassState /\ NoPass.pc = "done" /\ NoPass.list = {}
    BY DEF NoPass, PassState
<1>6. Free \in [held : BOOLEAN, owner : Owners]
    BY DEF Free, Owners
<1>. QED
    BY <1>2, <1>3, <1>4, <1>5, <1>6

LEMMA NoWorkIsGood ==
    ASSUME NEW c \in Nat, NEW s, NEW t, NEW o
    PROVE  GoodWork(NoWork, c, s, t, o)
    BY Fresh DEF GoodWork

LEMMA InvInit == IndexInit => IndexInv
<1>. SUFFICES ASSUME IndexInit PROVE IndexInv
    OBVIOUS
<1>1. SourcesOK
    BY MaxCommitsAssumption DEF IndexInit, SourcesOK
<1>2. StoresOK
    <2>1. job \in [AllRuns -> Marker] /\ \A r \in AllRuns : job[r] = NoJob
        BY Fresh DEF IndexInit
    <2>2. \A r \in AllRuns : GoodRow(r, job[r], commits, selected, rotated, obs)
        BY <2>1, Fresh DEF GoodRow
    <2>3. obs \in [AllRuns -> SUBSET (Cells \X AllRuns)] /\ OnlyOwnEvidence
        BY DEF IndexInit, OnlyOwnEvidence
    <2>4. passLease \in [held : BOOLEAN, owner : Owners]
        BY Fresh DEF IndexInit
    <2>5. trouble \in 0..MaxTrouble
        BY MaxTroubleAssumption DEF IndexInit
    <2>. QED
        BY <2>1, <2>2, <2>3, <2>4, <2>5 DEF StoresOK
<1>3. PagesOK
    <2>1. page \in [Pages -> PageState] /\ \A p \in Pages : page[p].events = {}
        BY Fresh DEF IndexInit
    <2>2. /\ pass \in [Pages -> PassState]
          /\ \A p \in Pages : pass[p].pc = "start" /\ pass[p].list = {}
        BY DEF IndexInit, PassState, NoPass
    <2>3. /\ queue \in [Pages -> {"idle", "list", "claim", "derive"}]
          /\ \A p \in Pages : queue[p] = "idle"
        BY DEF IndexInit
    <2>. QED
        BY <2>1, <2>2, <2>3 DEF PagesOK, GoodPage
<1>4. WorkersOK
    <2>1. work \in [Workers -> Derivation] /\ \A w \in Workers : work[w] = NoWork
        BY Fresh DEF IndexInit
    <2>. QED
        BY <1>1, <2>1, RunNumbers, NoWorkIsGood DEF WorkersOK
<1>. QED
    BY <1>1, <1>2, <1>3, <1>4 DEF IndexInv

LEMMA FaultOf ==
    ASSUME IndexInv, Fault \/ UNCHANGED trouble
    PROVE  trouble' \in 0..MaxTrouble
    BY MaxTroubleAssumption DEF IndexInv, StoresOK, Fault

-----------------------------------------------------------------------------
(* Commits, selections and rotations only go forward.                      *)

Forward(c1, s1, t1, o1, c2, s2, t2, o2) ==
    /\ c1 \in Nat /\ c2 \in Nat /\ c1 <= c2
    /\ t1 \in Nat /\ t2 \in Nat /\ t1 <= t2
    /\ s1 \in Nat /\ s2 \in Nat /\ (s2 = s1 \/ s2 > c1)
    /\ \A r \in AllRuns : o1[r] \subseteq o2[r]

LEMMA AccountsStay ==
    ASSUME NEW c1, NEW s1, NEW t1, NEW o1, NEW c2, NEW s2, NEW t2, NEW o2,
           Forward(c1, s1, t1, o1, c2, s2, t2, o2), 1..c1 \subseteq AllRuns,
           NEW r \in 1..c1, NEW todo, Accounts(r, todo, s1, t1, o1)
    PROVE  Accounts(r, todo, s2, t2, o2)
<1>1. CASE s2 = s1
    BY <1>1 DEF Accounts, Forward
<1>2. CASE s2 > c1
    BY <1>2 DEF Accounts, Forward
<1>. QED
    BY <1>1, <1>2 DEF Forward

LEMMA GoodStays ==
    ASSUME NEW c1, NEW s1, NEW t1, NEW o1, NEW c2, NEW s2, NEW t2, NEW o2,
           Forward(c1, s1, t1, o1, c2, s2, t2, o2), 1..c1 \subseteq AllRuns
    PROVE  /\ \A r, m : GoodRow(r, m, c1, s1, t1, o1) => GoodRow(r, m, c2, s2, t2, o2)
           /\ \A k : GoodWork(k, c1, s1, t1, o1) => GoodWork(k, c2, s2, t2, o2)
           /\ \A g, q, a, kq, ka : GoodPage(g, q, a, kq, ka, c1)
                                     => GoodPage(g, q, a, kq, ka, c2)
<1>1. c1 \in Nat /\ 1..c1 \subseteq 1..c2 /\ 0..c1 \subseteq 0..c2
    BY DEF Forward
<1>2. ASSUME NEW r, NEW m, GoodRow(r, m, c1, s1, t1, o1)
      PROVE  GoodRow(r, m, c2, s2, t2, o2)
    BY <1>1, <1>2, AccountsStay DEF GoodRow
<1>3. ASSUME NEW k, GoodWork(k, c1, s1, t1, o1)
      PROVE  GoodWork(k, c2, s2, t2, o2)
    <2>1. k.src # 0 => k.src \in 1..c1
        BY <1>1, <1>3 DEF GoodWork
    <2>. QED
        BY <1>1, <1>3, <2>1, AccountsStay DEF GoodWork
<1>4. ASSUME NEW g, NEW q, NEW a, NEW kq, NEW ka, GoodPage(g, q, a, kq, ka, c1)
      PROVE  GoodPage(g, q, a, kq, ka, c2)
    BY <1>1, <1>4 DEF GoodPage
<1>. QED
    BY <1>2, <1>3, <1>4

\* The sources go on, everything else stays as it is.
LEMMA SourcesGoOn ==
    ASSUME IndexInv, SourcesOK', commits <= commits', rotated <= rotated',
           selected' = selected \/ selected' > commits,
           UNCHANGED <<job, obs, passLease, queue, pass, work, trouble>>,
           page' \in [Pages -> PageState],
           \A p \in Pages : page'[p].events \subseteq page[p].events \cup 1..commits'
    PROVE  IndexInv'
<1>1. 1..commits \subseteq AllRuns /\ 1..commits \subseteq 1..commits'
    BY RunNumbers DEF IndexInv, SourcesOK
<1>2. Forward(commits, selected, rotated, obs, commits', selected', rotated', obs')
    BY MaxCommitsAssumption DEF IndexInv, SourcesOK, Forward
<1>3. StoresOK'
    BY <1>1, <1>2, GoodStays DEF IndexInv, StoresOK, OnlyOwnEvidence
<1>4. WorkersOK'
    BY <1>1, <1>2, GoodStays DEF IndexInv, WorkersOK
<1>5. PagesOK'
    <2>1. \A p \in Pages : GoodPage(page'[p], queue[p], pass[p], work[<<p, "queue">>],
                                    work[<<p, "pass">>], commits')
        BY <1>1 DEF IndexInv, PagesOK, GoodPage
    <2>. QED
        BY <2>1 DEF IndexInv, PagesOK
<1>. QED
    BY <1>3, <1>4, <1>5 DEF IndexInv

LEMMA InvCommit ==
    ASSUME IndexInv, NEW p \in Pages, Commit(p)
    PROVE  IndexInv'
<1>1. /\ commits' = commits + 1 /\ commits < MaxCommits /\ rotated' = rotated
      /\ selected' \in {selected, commits'}
      /\ UNCHANGED <<job, obs, passLease, queue, pass, work, trouble>>
      /\ \/ page' = page
         \/ page' = [page EXCEPT ![p].events = @ \cup {commits'}]
    BY DEF Commit, drains
<1>2. /\ commits \in Nat /\ commits' \in 0..MaxCommits /\ SourcesOK'
      /\ commits <= commits' /\ (selected' = selected \/ selected' > commits)
      /\ rotated <= rotated' /\ commits' \in AllRuns /\ commits' \in 1..commits'
    BY <1>1, MaxCommitsAssumption DEF IndexInv, SourcesOK, AllRuns
<1>3. page \in [Pages -> PageState]
    BY DEF IndexInv, PagesOK
<1>4. CASE page' = page
    BY <1>1, <1>2, <1>3, <1>4, SourcesGoOn
<1>5. CASE page' = [page EXCEPT ![p].events = @ \cup {commits'}]
    <2>. DEFINE g == [page[p] EXCEPT !.events = page[p].events \cup {commits'}]
    <2>1. page[p] \in PageState
        BY <1>3
    <2>2. g \in PageState /\ g.events = page[p].events \cup {commits'}
        BY <1>2, <2>1 DEF PageState
    <2>3. page' = [page EXCEPT ![p] = g]
        BY <1>5
    <2>. HIDE DEF g
    <2>4. /\ page' \in [Pages -> PageState]
          /\ \A x \in Pages : page'[x].events \subseteq page[x].events \cup 1..commits'
        BY <1>2, <1>3, <2>2, <2>3
    <2>. QED
        BY <1>1, <1>2, <2>4, SourcesGoOn
<1>. QED
    BY <1>1, <1>4, <1>5

LEMMA InvAddModel ==
    ASSUME IndexInv, AddModel
    PROVE  IndexInv'
<1>1. /\ rotated' = commits
      /\ UNCHANGED <<commits, selected, job, obs, passLease, page, queue, pass, work, trouble>>
    BY DEF AddModel, drains
<1>2. SourcesOK' /\ rotated <= rotated' /\ commits <= commits'
    BY <1>1, MaxCommitsAssumption DEF IndexInv, SourcesOK
<1>3. page \in [Pages -> PageState]
    BY DEF IndexInv, PagesOK
<1>. QED
    BY <1>1, <1>2, <1>3, SourcesGoOn

-----------------------------------------------------------------------------
(* The sources stay.                                                       *)

Still == UNCHANGED <<commits, selected, rotated>>

\* An accepted marker.
LEMMA PutJobOf ==
    ASSUME IndexInv, Still, obs' = obs, NEW r \in 1..commits,
           NEW st \in {"queued", "complete", "error"}, PutJob(r, st),
           st = "complete" => Accounts(r, {}, selected, rotated, obs)
    PROVE  /\ job' \in [AllRuns -> Marker]
           /\ \A q \in AllRuns : GoodRow(q, job'[q], commits', selected', rotated', obs')
<1>. DEFINE m == [NoJob EXCEPT !.status = st]
<1>2. m \in Marker /\ m.status = st
    BY Fresh DEF Marker
<1>3. job' = job \/ job' = [job EXCEPT ![r] = m]
    BY DEF PutJob
<1>4. GoodRow(r, m, commits, selected, rotated, obs)
    <2>. HIDE DEF m
    <2>. QED
        BY <1>2 DEF GoodRow
<1>5. /\ job \in [AllRuns -> Marker]
      /\ \A q \in AllRuns : GoodRow(q, job[q], commits, selected, rotated, obs)
    BY DEF IndexInv, StoresOK
<1>. HIDE DEF m
<1>. QED
    BY <1>2, <1>3, <1>4, <1>5 DEF Still

\* Rows whose status changes among those that need no account.
LEMMA RowsRelease ==
    ASSUME IndexInv, Still, obs' = obs, job' \in [AllRuns -> Marker],
           \A q \in AllRuns : \/ job'[q].status = job[q].status
                              \/ /\ job[q].status # "none"
                                 /\ job'[q].status # "complete"
    PROVE  \A q \in AllRuns : GoodRow(q, job'[q], commits', selected', rotated', obs')
<1>. SUFFICES ASSUME NEW q \in AllRuns
              PROVE  GoodRow(q, job'[q], commits, selected, rotated, obs)
    BY DEF Still
<1>1. GoodRow(q, job[q], commits, selected, rotated, obs) /\ job'[q] \in Marker
    BY DEF IndexInv, StoresOK
<1>. QED
    BY <1>1 DEF GoodRow

\* The stores after a step that leaves the sources and the rows.
LEMMA StoresStay ==
    ASSUME IndexInv, Still, obs' = obs, job' \in [AllRuns -> Marker],
           \A q \in AllRuns : GoodRow(q, job'[q], commits', selected', rotated', obs'),
           passLease' \in [held : BOOLEAN, owner : Owners], Fault \/ UNCHANGED trouble
    PROVE  SourcesOK' /\ StoresOK'
<1>1. trouble' \in 0..MaxTrouble
    BY FaultOf
<1>2. SourcesOK'
    BY DEF IndexInv, SourcesOK, Still
<1>3. StoresOK'
    BY <1>1 DEF IndexInv, StoresOK, OnlyOwnEvidence
<1>. QED
    BY <1>2, <1>3

\* The rows are as they were.
LEMMA JobsStay ==
    ASSUME IndexInv, Still, obs' = obs, job' = job
    PROVE  /\ job' \in [AllRuns -> Marker]
           /\ \A q \in AllRuns : GoodRow(q, job'[q], commits', selected', rotated', obs')
    BY DEF IndexInv, StoresOK, Still

\* One worker steps, or none.
LEMMA WorkerSteps ==
    ASSUME IndexInv, Still, obs' = obs, NEW w \in Workers, NEW k,
           GoodWork(k, commits, selected, rotated, obs), work' = [work EXCEPT ![w] = k]
    PROVE  /\ WorkersOK'
           /\ \A v \in Workers : work'[v] = IF v = w THEN k ELSE work[v]
<1>1. work \in [Workers -> Derivation] /\ k \in Derivation
    BY DEF IndexInv, WorkersOK, GoodWork
<1>2. /\ work' \in [Workers -> Derivation]
      /\ \A v \in Workers : work'[v] = IF v = w THEN k ELSE work[v]
    BY <1>1
<1>3. \A v \in Workers : GoodWork(work'[v], commits', selected', rotated', obs')
    BY <1>2 DEF IndexInv, WorkersOK, Still
<1>. QED
    BY <1>2, <1>3 DEF WorkersOK

LEMMA WorkersStay ==
    ASSUME IndexInv, Still, obs' = obs, work' = work
    PROVE  WorkersOK'
    BY DEF IndexInv, WorkersOK, Still

\* One page steps; the derivations of the others are left alone.
OnlyPage(p) ==
    /\ page' \in [Pages -> PageState] /\ pass' \in [Pages -> PassState]
    /\ queue' \in [Pages -> {"idle", "list", "claim", "derive"}]
    /\ \A x \in Pages \ {p} : page'[x] = page[x] /\ pass'[x] = pass[x] /\ queue'[x] = queue[x]

LEMMA PageSteps ==
    ASSUME IndexInv, commits' = commits, NEW p \in Pages, OnlyPage(p),
           \A v \in Workers : v[1] # p => work'[v] = work[v],
           GoodPage(page'[p], queue'[p], pass'[p], work'[<<p, "queue">>],
                    work'[<<p, "pass">>], commits)
    PROVE  PagesOK'
<1>1. ASSUME NEW x \in Pages
      PROVE  GoodPage(page'[x], queue'[x], pass'[x], work'[<<x, "queue">>],
                      work'[<<x, "pass">>], commits')
    <2>1. CASE x = p
        BY <2>1
    <2>2. CASE x # p
        <3>1. /\ work'[<<x, "queue">>] = work[<<x, "queue">>]
              /\ work'[<<x, "pass">>] = work[<<x, "pass">>]
            BY <2>2 DEF Workers
        <3>. QED
            BY <2>2, <3>1 DEF OnlyPage, IndexInv, PagesOK
    <2>. QED
        BY <2>1, <2>2
<1>. QED
    BY <1>1 DEF OnlyPage, PagesOK

LEMMA WorkersOfPage ==
    \A p \in Pages : <<p, "queue">> \in Workers /\ <<p, "pass">> \in Workers
    BY DEF Workers

\* What is known of a page of the invariant.
LEMMA PageOf ==
    ASSUME IndexInv, NEW p \in Pages
    PROVE  /\ page[p] \in PageState /\ pass[p] \in PassState
           /\ queue[p] \in {"idle", "list", "claim", "derive"}
           /\ GoodPage(page[p], queue[p], pass[p], work[<<p, "queue">>],
                       work[<<p, "pass">>], commits)
           /\ <<p, "queue">> \in Workers /\ <<p, "pass">> \in Workers
           /\ GoodWork(work[<<p, "queue">>], commits, selected, rotated, obs)
           /\ GoodWork(work[<<p, "pass">>], commits, selected, rotated, obs)
<1>1. <<p, "queue">> \in Workers /\ <<p, "pass">> \in Workers
    BY DEF Workers
<1>. QED
    BY <1>1 DEF IndexInv, PagesOK, WorkersOK

-----------------------------------------------------------------------------
(* The derivation.                                                         *)

\* What a derivation of a committed run sets out to write.
LEMMA Begun ==
    ASSUME IndexInv, NEW r \in 1..commits, NEW w \in Workers, Begin(w, r)
    PROVE  \E k : /\ work' = [work EXCEPT ![w] = k] /\ k.src = r
                  /\ GoodWork(k, commits, selected, rotated, obs)
<1>. DEFINE k1 == [NoWork EXCEPT !.src = r]
            k2 == [k1 EXCEPT !.todo = Derived(r)]
            k == [k2 EXCEPT !.count = Cardinality(Derived(r))]
<1>1. r \in 0..MaxCommits /\ r \in AllRuns /\ r \in 0..commits
    BY RunNumbers DEF IndexInv, SourcesOK
<1>2. Derived(r) \in SUBSET (Cells \X AllRuns) /\ Derived(r) \subseteq Cells \X {r}
    BY <1>1 DEF Derived
<1>3. Cardinality(Derived(r)) \in Counts
    BY CountsOf DEF Derived
<1>4. k1 \in Derivation /\ k1.src = r
    BY <1>1, Fresh DEF Derivation
<1>5. k2 \in Derivation /\ k2.src = r /\ k2.todo = Derived(r)
    <2>. HIDE DEF k1
    <2>. QED
        BY <1>2, <1>4 DEF Derivation
<1>6. k \in Derivation /\ k.src = r /\ k.todo = Derived(r)
    <2>. HIDE DEF k2
    <2>. QED
        BY <1>3, <1>5 DEF Derivation
<1>7. Accounts(r, Derived(r), selected, rotated, obs)
    BY <1>1 DEF Accounts, Derived, IndexInv, SourcesOK
<1>8. work' = [work EXCEPT ![w] = k]
    BY DEF Begin
<1>. HIDE DEF k
<1>9. GoodWork(k, commits, selected, rotated, obs)
    BY <1>1, <1>2, <1>6, <1>7 DEF GoodWork
<1>. QED
    BY <1>6, <1>8, <1>9

LEMMA InvDeriveWrite ==
    ASSUME IndexInv, NEW w \in Workers, DeriveWrite(w)
    PROVE  IndexInv'
<1>. DEFINE r == work[w].src
<1>1. PICK c \in work[w].todo :
         /\ obs' = [obs EXCEPT ![r] = @ \cup {c}]
         /\ work' = [work EXCEPT ![w].todo = @ \ {c}]
    BY DEF DeriveWrite
<1>2. UNCHANGED <<commits, selected, rotated, job, passLease, page, queue, pass, trouble>>
    BY DEF DeriveWrite, sources, drains
<1>3. GoodWork(work[w], commits, selected, rotated, obs) /\ work[w] \in Derivation
    BY DEF IndexInv, WorkersOK
<1>4. /\ c \in Cells \X {r} /\ c \in Cells \X AllRuns
      /\ r \in AllRuns /\ r \in 1..commits
    <2>1. c \in Cells \X {r} /\ c \in Cells \X AllRuns
        BY <1>3 DEF GoodWork, Derivation
    <2>2. r \in AllRuns /\ r \in 0..commits
        BY <1>3, <2>1 DEF GoodWork
    <2>3. r \in 1..commits
        BY <2>2, RunNumbers DEF IndexInv, AllRuns
    <2>. QED
        BY <2>1, <2>2, <2>3
<1>5. obs \in [AllRuns -> SUBSET (Cells \X AllRuns)]
    BY DEF IndexInv, StoresOK
<1>6. /\ obs' \in [AllRuns -> SUBSET (Cells \X AllRuns)]
      /\ \A x \in AllRuns : obs[x] \subseteq obs'[x] /\ (x # r => obs'[x] = obs[x])
      /\ obs'[r] = obs[r] \cup {c}
    BY <1>1, <1>4, <1>5
<1>7. 1..commits \subseteq AllRuns
    BY RunNumbers DEF IndexInv
<1>8. Forward(commits, selected, rotated, obs, commits', selected', rotated', obs')
    BY <1>2, <1>6, MaxCommitsAssumption DEF IndexInv, SourcesOK, Forward
<1>9. OnlyOwnEvidence'
    BY <1>4, <1>6 DEF IndexInv, StoresOK, OnlyOwnEvidence
<1>10. SourcesOK' /\ StoresOK'
    BY <1>2, <1>6, <1>7, <1>8, <1>9, GoodStays DEF IndexInv, SourcesOK, StoresOK
<1>. DEFINE k == [work[w] EXCEPT !.todo = work[w].todo \ {c}]
<1>11. k \in Derivation /\ k.src = r /\ k.todo = work[w].todo \ {c} /\ k.failed = work[w].failed
    BY <1>3 DEF Derivation
<1>12. work' = [work EXCEPT ![w] = k]
    BY <1>1
<1>. HIDE DEF k
<1>13. GoodWork(k, commits', selected', rotated', obs')
    <2>1. GoodWork(work[w], commits', selected', rotated', obs')
        BY <1>3, <1>7, <1>8, GoodStays
    <2>2. Accounts(r, work[w].todo, selected', rotated', obs')
             => Accounts(r, k.todo, selected', rotated', obs')
        BY <1>6, <1>11 DEF Accounts
    <2>. QED
        BY <1>11, <2>1, <2>2 DEF GoodWork
<1>14. /\ work \in [Workers -> Derivation]
       /\ \A v \in Workers : GoodWork(work[v], commits', selected', rotated', obs')
    BY <1>7, <1>8, GoodStays DEF IndexInv, WorkersOK
<1>15. /\ work' \in [Workers -> Derivation]
       /\ \A v \in Workers : work'[v] = IF v = w THEN k ELSE work[v]
    BY <1>11, <1>12, <1>14
<1>16. WorkersOK'
    BY <1>13, <1>14, <1>15 DEF WorkersOK
<1>17. PagesOK'
    <2>1. \A v \in Workers : /\ work'[v].src = work[v].src /\ work'[v].failed = work[v].failed
                             /\ work'[v].todo \subseteq work[v].todo
        BY <1>11, <1>15
    <2>2. \A p \in Pages : <<p, "queue">> \in Workers /\ <<p, "pass">> \in Workers
        BY DEF Workers
    <2>3. ASSUME NEW p \in Pages
          PROVE  GoodPage(page[p], queue[p], pass[p], work'[<<p, "queue">>],
                          work'[<<p, "pass">>], commits)
        <3>1. GoodPage(page[p], queue[p], pass[p], work[<<p, "queue">>],
                       work[<<p, "pass">>], commits)
            BY DEF IndexInv, PagesOK
        <3>. QED
            BY <2>1, <2>2, <3>1 DEF GoodPage
    <2>. QED
        BY <1>2, <2>3 DEF IndexInv, PagesOK
<1>. QED
    BY <1>10, <1>16, <1>17 DEF IndexInv

LEMMA InvDeriveFails ==
    ASSUME IndexInv, NEW w \in Workers, DeriveFails(w)
    PROVE  IndexInv'
<1>1. /\ work' = [work EXCEPT ![w] = FailedWork(work[w])]
      /\ Still /\ obs' = obs /\ job' = job /\ (Fault \/ UNCHANGED trouble)
      /\ UNCHANGED <<passLease, page, queue, pass>>
      /\ w[2] = "pass" => pass[w[1]].pc = "derive"
      /\ work[w].src # 0
    BY DEF DeriveFails, sources, drains, Still
<1>2. GoodWork(work[w], commits, selected, rotated, obs) /\ work[w] \in Derivation
    BY DEF IndexInv, WorkersOK
<1>. DEFINE k1 == [work[w] EXCEPT !.todo = {}]
            k2 == [k1 EXCEPT !.count = 0]
            k == [k2 EXCEPT !.failed = TRUE]
<1>3. k1 \in Derivation /\ k1.src = work[w].src /\ k1.todo = {}
    BY <1>2 DEF Derivation
<1>4. k2 \in Derivation /\ k2.src = work[w].src /\ k2.todo = {}
    <2>. HIDE DEF k1
    <2>. QED
        BY <1>3, CountsOf DEF Derivation
<1>5. k \in Derivation /\ k.src = work[w].src /\ k.todo = {} /\ k.failed
    <2>. HIDE DEF k2
    <2>. QED
        BY <1>4 DEF Derivation
<1>6. work' = [work EXCEPT ![w] = k]
    BY <1>1 DEF FailedWork
<1>. HIDE DEF k
<1>7. GoodWork(k, commits, selected, rotated, obs)
    BY <1>2, <1>5 DEF GoodWork
<1>8. WorkersOK' /\ \A v \in Workers : work'[v] = IF v = w THEN k ELSE work[v]
    BY <1>1, <1>6, <1>7, WorkerSteps
<1>9. SourcesOK' /\ StoresOK'
    BY <1>1, JobsStay, StoresStay DEF IndexInv, StoresOK
<1>10. PagesOK'
    <2>1. ASSUME NEW p \in Pages
          PROVE  GoodPage(page[p], queue[p], pass[p], work'[<<p, "queue">>],
                          work'[<<p, "pass">>], commits)
        <3>1. GoodPage(page[p], queue[p], pass[p], work[<<p, "queue">>],
                       work[<<p, "pass">>], commits)
              /\ <<p, "queue">> \in Workers /\ <<p, "pass">> \in Workers
            BY PageOf
        <3>2. /\ work'[<<p, "queue">>].src = work[<<p, "queue">>].src
              /\ work'[<<p, "pass">>].src = work[<<p, "pass">>].src
            BY <1>5, <1>8, <3>1
        <3>3. CASE w = <<p, "pass">>
            <4>1. pass[p].pc = "derive"
                BY <1>1, <3>3
            <4>. QED
                BY <3>1, <3>2, <4>1 DEF GoodPage
        <3>4. CASE w # <<p, "pass">>
            <4>1. work'[<<p, "pass">>] = work[<<p, "pass">>]
                BY <1>8, <3>1, <3>4
            <4>. QED
                BY <3>1, <3>2, <4>1 DEF GoodPage
        <3>. QED
            BY <3>3, <3>4
    <2>. QED
        BY <1>1, <2>1 DEF IndexInv, PagesOK, Still
<1>. QED
    BY <1>8, <1>9, <1>10 DEF IndexInv

-----------------------------------------------------------------------------
(* The derivation queue.                                                   *)

LEMMA EventTaken ==
    ASSUME NEW g \in PageState, NEW r, NEW n \in Nat
    PROVE  /\ [g EXCEPT !.events = g.events \ {r}] \in PageState
           /\ [g EXCEPT !.events = g.events \ {r}].events \subseteq g.events
           /\ [g EXCEPT !.due = n] \in PageState
           /\ [g EXCEPT !.due = n].events = g.events
    BY DEF PageState

LEMMA InvEnqueue ==
    ASSUME IndexInv, NEW p \in Pages, NEW r \in AllRuns, Enqueue(p, r) \/ EnqueueFails(p, r)
    PROVE  IndexInv'
<1>1. /\ r \in page[p].events /\ Still /\ obs' = obs
      /\ UNCHANGED <<passLease, queue, pass, work>> /\ (Fault \/ UNCHANGED trouble)
    BY DEF Enqueue, EnqueueFails, sources, drains, Still
<1>2. /\ page[p] \in PageState /\ page \in [Pages -> PageState]
      /\ GoodPage(page[p], queue[p], pass[p], work[<<p, "queue">>], work[<<p, "pass">>],
                  commits)
    BY PageOf DEF IndexInv, PagesOK
<1>3. r \in 1..commits
    BY <1>1, <1>2 DEF GoodPage
<1>4. /\ job' \in [AllRuns -> Marker]
      /\ \A q \in AllRuns : GoodRow(q, job'[q], commits', selected', rotated', obs')
    <2>1. CASE Enqueue(p, r)
        BY <1>1, <1>3, <2>1, PutJobOf, CountsOf DEF Enqueue
    <2>2. CASE EnqueueFails(p, r)
        BY <1>1, <2>2, JobsStay DEF EnqueueFails
    <2>. QED
        BY <2>1, <2>2
<1>. DEFINE g1 == [page[p] EXCEPT !.events = page[p].events \ {r}]
<1>5. g1 \in PageState /\ g1.events \subseteq page[p].events
    BY <1>2, EventTaken
<1>6. PICK g : g \in PageState /\ g.events \subseteq page[p].events
               /\ page' = [page EXCEPT ![p] = g]
    <2>1. CASE EnqueueFails(p, r)
        <3>1. page' = [page EXCEPT ![p] = g1]
            BY <2>1 DEF EnqueueFails
        <3>. HIDE DEF g1
        <3>. QED
            BY <1>5, <3>1
    <2>2. CASE Enqueue(p, r)
        <3>1. page[p].due \in Nat /\ page[p].due + 1 \in Nat
            BY <1>2 DEF PageState
        <3>. DEFINE n == IF Accepts(job[r], "queued") THEN page[p].due + 1 ELSE page[p].due
                    g2 == [g1 EXCEPT !.due = n]
        <3>2. n \in Nat
            BY <3>1
        <3>3. page' = [page EXCEPT ![p] = g2]
            BY <1>2, <2>2 DEF Enqueue, PageState
        <3>4. g2 \in PageState /\ g2.events = g1.events
            <4>. HIDE DEF g1, n
            <4>. QED
                BY <1>5, <3>2, EventTaken
        <3>. HIDE DEF g1, g2
        <3>. QED
            BY <1>5, <3>3, <3>4
    <2>. QED
        BY <2>1, <2>2
<1>7. OnlyPage(p) /\ page'[p] = g
    BY <1>1, <1>2, <1>6 DEF OnlyPage, IndexInv, PagesOK
<1>8. PagesOK'
    <2>1. GoodPage(page'[p], queue'[p], pass'[p], work'[<<p, "queue">>],
                   work'[<<p, "pass">>], commits)
        BY <1>1, <1>2, <1>6, <1>7 DEF GoodPage
    <2>. QED
        BY <1>1, <1>7, <2>1, PageSteps DEF Still
<1>9. WorkersOK'
    BY <1>1, WorkersStay
<1>10. SourcesOK' /\ StoresOK'
    BY <1>1, <1>4, StoresStay DEF IndexInv, StoresOK
<1>. QED
    BY <1>8, <1>9, <1>10 DEF IndexInv

LEMMA InvDrain ==
    ASSUME IndexInv, NEW p \in Pages, Drain(p)
    PROVE  IndexInv'
<1>1. /\ page[p].due > 0 /\ page' = [page EXCEPT ![p].due = @ - 1] /\ Recover
      /\ queue' = [queue EXCEPT ![p] = "list"] /\ Still /\ obs' = obs
      /\ UNCHANGED <<passLease, pass, work, trouble>>
    BY DEF Drain, sources, drains, Still
<1>2. /\ page[p] \in PageState /\ page \in [Pages -> PageState]
      /\ GoodPage(page[p], queue[p], pass[p], work[<<p, "queue">>], work[<<p, "pass">>],
                  commits)
    BY PageOf DEF IndexInv, PagesOK
<1>3. /\ job' \in [AllRuns -> Marker]
      /\ \A q \in AllRuns : GoodRow(q, job'[q], commits', selected', rotated', obs')
    <2>1. PICK stale \in SUBSET {r \in AllRuns : job[r].status = "running"} :
             job' = [r \in AllRuns |-> IF r \in stale THEN [NoJob EXCEPT !.status = "queued"]
                                                    ELSE job[r]]
        BY <1>1 DEF Recover
    <2>. DEFINE m == [NoJob EXCEPT !.status = "queued"]
    <2>2. m \in Marker /\ m.status = "queued"
        BY Fresh DEF Marker
    <2>3. job' = [r \in AllRuns |-> IF r \in stale THEN m ELSE job[r]]
        BY <2>1
    <2>4. job \in [AllRuns -> Marker]
        BY DEF IndexInv, StoresOK
    <2>. HIDE DEF m
    <2>5. /\ job' \in [AllRuns -> Marker]
          /\ \A q \in AllRuns : job'[q] = job[q] \/ (job[q].status = "running" /\ job'[q] = m)
        BY <2>2, <2>3, <2>4
    <2>. QED
        BY <1>1, <2>2, <2>5, RowsRelease
<1>. DEFINE g == [page[p] EXCEPT !.due = page[p].due - 1]
<1>4. g \in PageState /\ g.events = page[p].events
    <2>1. page[p].due - 1 \in Nat
        BY <1>1, <1>2 DEF PageState
    <2>. QED
        BY <1>2, <2>1, EventTaken
<1>5. page' = [page EXCEPT ![p] = g]
    BY <1>1
<1>. HIDE DEF g
<1>6. OnlyPage(p) /\ page'[p] = g /\ queue'[p] = "list"
    BY <1>1, <1>2, <1>4, <1>5 DEF OnlyPage, IndexInv, PagesOK
<1>7. PagesOK'
    <2>1. GoodPage(page'[p], queue'[p], pass'[p], work'[<<p, "queue">>],
                   work'[<<p, "pass">>], commits)
        BY <1>1, <1>2, <1>4, <1>6 DEF GoodPage
    <2>. QED
        BY <1>1, <1>6, <2>1, PageSteps DEF Still
<1>8. WorkersOK'
    BY <1>1, WorkersStay
<1>9. SourcesOK' /\ StoresOK'
    BY <1>1, <1>3, StoresStay DEF IndexInv, StoresOK
<1>. QED
    BY <1>7, <1>8, <1>9 DEF IndexInv

\* A step of the drain that leaves every row and every derivation alone.
LEMMA QueueLooks ==
    ASSUME IndexInv, NEW p \in Pages, Still,
           UNCHANGED <<job, obs, passLease, page, pass, work, trouble>>,
           \/ UNCHANGED queue
           \/ queue' = [queue EXCEPT ![p] = "claim"]
    PROVE  IndexInv'
<1>1. SourcesOK' /\ StoresOK'
    BY JobsStay, StoresStay DEF IndexInv, StoresOK
<1>2. WorkersOK'
    BY WorkersStay
<1>3. OnlyPage(p) /\ queue'[p] \in {queue[p], "claim"}
    BY DEF OnlyPage, IndexInv, PagesOK
<1>4. GoodPage(page'[p], queue'[p], pass'[p], work'[<<p, "queue">>], work'[<<p, "pass">>],
               commits)
    BY <1>3, PageOf DEF GoodPage
<1>5. PagesOK'
    BY <1>3, <1>4, PageSteps DEF Still
<1>. QED
    BY <1>1, <1>2, <1>5 DEF IndexInv

LEMMA InvList ==
    ASSUME IndexInv, NEW p \in Pages, List(p)
    PROVE  IndexInv'
    BY QueueLooks DEF List, sources, Still

LEMMA InvClaim ==
    ASSUME IndexInv, NEW p \in Pages, NEW r \in AllRuns, Claim(p, r)
    PROVE  IndexInv'
<1>0. CASE job[r].status # "queued"
    BY <1>0, QueueLooks DEF Claim, sources, Still
<1>. SUFFICES ASSUME job[r].status = "queued" PROVE IndexInv'
    BY <1>0
<1>1. /\ Begin(<<p, "queue">>, r) /\ Still /\ obs' = obs
      /\ job' = [job EXCEPT ![r] = [NoJob EXCEPT !.status = "running", !.owner = p]]
      /\ queue' = [queue EXCEPT ![p] = "derive"]
      /\ UNCHANGED <<passLease, page, pass, trouble>>
    BY DEF Claim, sources, Still
<1>2. job[r].status = "queued" /\ job \in [AllRuns -> Marker]
      /\ GoodRow(r, job[r], commits, selected, rotated, obs)
    BY DEF IndexInv, StoresOK
<1>3. r \in 1..commits
    BY <1>2 DEF GoodRow
<1>4. /\ job' \in [AllRuns -> Marker]
      /\ \A q \in AllRuns : GoodRow(q, job'[q], commits', selected', rotated', obs')
    <2>. DEFINE m1 == [NoJob EXCEPT !.status = "running"]
                m == [m1 EXCEPT !.owner = p]
    <2>1. m1 \in Marker /\ m1.status = "running"
        BY Fresh DEF Marker
    <2>2. m \in Marker /\ m.status = "running"
        <3>. HIDE DEF m1
        <3>. QED
            BY <2>1 DEF Marker, Owners
    <2>3. job' = [job EXCEPT ![r] = m]
        BY <1>1
    <2>. HIDE DEF m
    <2>4. /\ job' \in [AllRuns -> Marker]
          /\ \A q \in AllRuns : job'[q] = IF q = r THEN m ELSE job[q]
        BY <1>2, <2>2, <2>3
    <2>. QED
        BY <1>1, <1>2, <2>2, <2>4, RowsRelease
<1>5. PICK k : /\ work' = [work EXCEPT ![<<p, "queue">>] = k] /\ k.src = r
               /\ GoodWork(k, commits, selected, rotated, obs)
    BY <1>1, <1>3, PageOf, Begun
<1>6. /\ WorkersOK'
      /\ \A v \in Workers : work'[v] = IF v = <<p, "queue">> THEN k ELSE work[v]
    BY <1>1, <1>5, WorkersOfPage, WorkerSteps
<1>7. OnlyPage(p) /\ queue'[p] = "derive"
    BY <1>1 DEF OnlyPage, IndexInv, PagesOK
<1>8. GoodPage(page'[p], queue'[p], pass'[p], work'[<<p, "queue">>], work'[<<p, "pass">>],
               commits)
    <2>1. work'[<<p, "queue">>] = k /\ work'[<<p, "pass">>] = work[<<p, "pass">>]
        BY <1>6, WorkersOfPage
    <2>2. r # 0
        BY <1>3
    <2>. QED
        BY <1>1, <1>5, <1>7, <2>1, <2>2, PageOf DEF GoodPage
<1>9. PagesOK'
    <2>1. \A v \in Workers : v[1] # p => work'[v] = work[v]
        BY <1>6
    <2>. QED
        BY <1>1, <1>7, <1>8, <2>1, PageSteps DEF Still
<1>10. SourcesOK' /\ StoresOK'
    BY <1>1, <1>4, StoresStay DEF IndexInv, StoresOK
<1>. QED
    BY <1>6, <1>9, <1>10 DEF IndexInv

\* A drain that gives up its derivation, with a marker or without.
LEMMA DrainGoesOn ==
    ASSUME IndexInv, NEW p \in Pages, NEW q \in {"idle", "list"}, Still, obs' = obs,
           queue' = [queue EXCEPT ![p] = q], work' = [work EXCEPT ![<<p, "queue">>] = NoWork],
           UNCHANGED <<page, pass>>
    PROVE  WorkersOK' /\ PagesOK'
<1>1. GoodWork(NoWork, commits, selected, rotated, obs)
    BY NoWorkIsGood, RunNumbers DEF IndexInv
<1>2. /\ WorkersOK'
      /\ \A v \in Workers : work'[v] = IF v = <<p, "queue">> THEN NoWork ELSE work[v]
    BY <1>1, WorkersOfPage, WorkerSteps
<1>3. OnlyPage(p) /\ queue'[p] = q
    BY DEF OnlyPage, IndexInv, PagesOK
<1>4. GoodPage(page'[p], queue'[p], pass'[p], work'[<<p, "queue">>], work'[<<p, "pass">>],
               commits)
    <2>1. work'[<<p, "pass">>] = work[<<p, "pass">>]
        BY <1>2, WorkersOfPage
    <2>. QED
        BY <1>3, <2>1, PageOf DEF GoodPage
<1>5. \A v \in Workers : v[1] # p => work'[v] = work[v]
    BY <1>2
<1>. QED
    BY <1>2, <1>3, <1>4, <1>5, PageSteps DEF Still

LEMMA InvFinalize ==
    ASSUME IndexInv, NEW p \in Pages, Finalize(p)
    PROVE  IndexInv'
<1>. DEFINE k == work[<<p, "queue">>]
<1>1. /\ queue[p] = "derive" /\ k.todo = {} /\ Still /\ obs' = obs
      /\ work' = [work EXCEPT ![<<p, "queue">>] = NoWork]
      /\ UNCHANGED <<passLease, page, pass, trouble>>
    BY DEF Finalize, sources, drains, Still
<1>2. GoodWork(k, commits, selected, rotated, obs) /\ k.src # 0
    BY <1>1, PageOf DEF GoodPage
<1>3. k.src \in 1..commits /\ k.count \in Counts
    BY <1>2, RunNumbers DEF GoodWork, Derivation, IndexInv
<1>4. ~k.failed => Accounts(k.src, {}, selected, rotated, obs)
    BY <1>1, <1>2 DEF GoodWork
<1>5. \/ /\ PutJob(k.src, IF k.failed THEN "error" ELSE "complete")
         /\ queue' = [queue EXCEPT ![p] = "list"]
      \/ queue' = [queue EXCEPT ![p] = "idle"] /\ job' = job
    BY DEF Finalize
<1>. HIDE DEF k
<1>6. /\ job' \in [AllRuns -> Marker]
      /\ \A q \in AllRuns : GoodRow(q, job'[q], commits', selected', rotated', obs')
    <2>1. CASE PutJob(k.src, IF k.failed THEN "error" ELSE "complete")
        <3>1. CASE k.failed
            BY <1>1, <1>3, <2>1, <3>1, PutJobOf
        <3>2. CASE ~k.failed
            BY <1>1, <1>3, <1>4, <2>1, <3>2, PutJobOf
        <3>. QED
            BY <3>1, <3>2
    <2>2. CASE job' = job
        BY <1>1, <2>2, JobsStay
    <2>. QED
        BY <1>5, <2>1, <2>2
<1>7. SourcesOK' /\ StoresOK'
    BY <1>1, <1>6, StoresStay DEF IndexInv, StoresOK
<1>8. WorkersOK' /\ PagesOK'
    BY <1>1, <1>5, DrainGoesOn
<1>. QED
    BY <1>7, <1>8 DEF IndexInv

LEMMA InvDrainEnds ==
    ASSUME IndexInv, NEW p \in Pages, DrainEnds(p)
    PROVE  IndexInv'
<1>1. /\ Still /\ obs' = obs /\ job' = job /\ (Fault \/ UNCHANGED trouble)
      /\ work' = [work EXCEPT ![<<p, "queue">>] = NoWork]
      /\ queue' = [queue EXCEPT ![p] = "idle"]
      /\ UNCHANGED <<passLease, page, pass>>
    BY DEF DrainEnds, sources, drains, Still
<1>2. SourcesOK' /\ StoresOK'
    BY <1>1, JobsStay, StoresStay DEF IndexInv, StoresOK
<1>3. WorkersOK' /\ PagesOK'
    BY <1>1, DrainGoesOn
<1>. QED
    BY <1>2, <1>3 DEF IndexInv

-----------------------------------------------------------------------------
(* The reindex pass.                                                       *)

\* A step of the pass of p, which leaves its page and its drain alone.
LEMMA PassSteps ==
    ASSUME IndexInv, Still, obs' = obs, NEW p \in Pages, NEW a \in PassState, NEW k,
           GoodWork(k, commits, selected, rotated, obs),
           pass' = [pass EXCEPT ![p] = a], work' = [work EXCEPT ![<<p, "pass">>] = k],
           UNCHANGED <<page, queue>>,
           a.list \subseteq 1..commits, a.pc \in {"derive", "mark"} => k.src # 0,
           a.pc = "mark" => k.todo = {} /\ ~k.failed
    PROVE  WorkersOK' /\ PagesOK'
<1>. DEFINE w == <<p, "pass">>
<1>0. w \in Workers /\ work' = [work EXCEPT ![w] = k]
    BY WorkersOfPage
<1>1. /\ WorkersOK'
      /\ \A v \in Workers : work'[v] = IF v = w THEN k ELSE work[v]
    <2>. HIDE DEF w
    <2>. QED
        BY <1>0, WorkerSteps
<1>2. OnlyPage(p) /\ pass'[p] = a
    BY DEF OnlyPage, IndexInv, PagesOK
<1>3. GoodPage(page'[p], queue'[p], pass'[p], work'[<<p, "queue">>], work'[<<p, "pass">>],
               commits)
    <2>1. work'[<<p, "pass">>] = k /\ work'[<<p, "queue">>] = work[<<p, "queue">>]
        BY <1>1, WorkersOfPage
    <2>. QED
        BY <1>2, <2>1, PageOf DEF GoodPage
<1>4. \A v \in Workers : v[1] # p => work'[v] = work[v]
    BY <1>1
<1>. QED
    BY <1>1, <1>2, <1>3, <1>4, PageSteps DEF Still

\* The present derivation of a page, written as it is.
LEMMA SameWork ==
    ASSUME IndexInv, NEW p \in Pages, work' = work
    PROVE  work' = [work EXCEPT ![<<p, "pass">>] = work[<<p, "pass">>]]
    BY WorkersOfPage DEF IndexInv, WorkersOK

LEMMA PlacePass ==
    ASSUME NEW a \in PassState, NEW pc \in {"start", "next", "derive", "mark", "done"}
    PROVE  /\ [a EXCEPT !.pc = pc] \in PassState /\ [a EXCEPT !.pc = pc].pc = pc
           /\ [a EXCEPT !.pc = pc].list = a.list
    BY DEF PassState

\* A pass that ends.
LEMMA PassOver ==
    ASSUME IndexInv, Still, obs' = obs, NEW p \in Pages, UNCHANGED <<page, queue>>, PassEnds(p)
    PROVE  /\ WorkersOK' /\ PagesOK'
           /\ passLease' \in [held : BOOLEAN, owner : Owners]
<1>1. /\ pass' = [pass EXCEPT ![p] = NoPass] /\ work' = [work EXCEPT ![<<p, "pass">>] = NoWork]
      /\ passLease' = IF LeasedTo(p) THEN Free ELSE passLease
    BY DEF PassEnds
<1>2. GoodWork(NoWork, commits, selected, rotated, obs)
    BY NoWorkIsGood, RunNumbers DEF IndexInv
<1>3. NoPass \in PassState /\ NoPass.pc = "done" /\ NoPass.list \subseteq 1..commits
    BY Fresh
<1>4. WorkersOK' /\ PagesOK'
    BY <1>1, <1>2, <1>3, PassSteps
<1>5. passLease' \in [held : BOOLEAN, owner : Owners]
    BY <1>1, Fresh DEF IndexInv, StoresOK
<1>. QED
    BY <1>4, <1>5

\* A pass that is back at its list, its derivation over.
LEMMA PassBack ==
    ASSUME IndexInv, Still, obs' = obs, NEW p \in Pages, UNCHANGED <<page, queue>>,
           pass' = [pass EXCEPT ![p].pc = "next"],
           work' = [work EXCEPT ![<<p, "pass">>] = NoWork]
    PROVE  WorkersOK' /\ PagesOK'
<1>. DEFINE a == [pass[p] EXCEPT !.pc = "next"]
<1>1. pass' = [pass EXCEPT ![p] = a]
    OBVIOUS
<1>2. pass[p] \in PassState /\ pass[p].list \subseteq 1..commits
    BY PageOf DEF GoodPage
<1>3. a \in PassState /\ a.pc = "next" /\ a.list = pass[p].list
    BY <1>2, PlacePass
<1>4. GoodWork(NoWork, commits, selected, rotated, obs)
    BY NoWorkIsGood, RunNumbers DEF IndexInv
<1>. HIDE DEF a
<1>. QED
    BY <1>1, <1>2, <1>3, <1>4, PassSteps

LEMMA InvPassAcquire ==
    ASSUME IndexInv, NEW p \in Pages, PassAcquire(p)
    PROVE  IndexInv'
<1>1. /\ Still /\ obs' = obs /\ job' = job /\ UNCHANGED <<page, queue, work, trouble>>
      /\ \/ pass' = [pass EXCEPT ![p] = NoPass] /\ passLease' = passLease
         \/ /\ passLease' = [held |-> TRUE, owner |-> p]
            /\ pass' = [pass EXCEPT ![p] = [pc |-> "next", list |-> 1..commits]]
    BY DEF PassAcquire, sources, drains, Still
<1>2. passLease' \in [held : BOOLEAN, owner : Owners]
    <2>1. CASE passLease' = passLease
        BY <2>1 DEF IndexInv, StoresOK
    <2>2. CASE passLease' = [held |-> TRUE, owner |-> p]
        BY <2>2 DEF Owners
    <2>. QED
        BY <1>1, <2>1, <2>2
<1>3. SourcesOK' /\ StoresOK'
    BY <1>1, <1>2, JobsStay, StoresStay
<1>4. PICK a \in PassState : /\ pass' = [pass EXCEPT ![p] = a]
                             /\ a.pc \in {"next", "done"} /\ a.list \subseteq 1..commits
    <2>1. NoPass \in PassState /\ NoPass.pc = "done" /\ NoPass.list \subseteq 1..commits
        BY Fresh
    <2>2. [pc |-> "next", list |-> 1..commits] \in PassState
        BY RunNumbers DEF IndexInv, PassState
    <2>. QED
        BY <1>1, <2>1, <2>2
<1>5. WorkersOK' /\ PagesOK'
    <2>1. work' = [work EXCEPT ![<<p, "pass">>] = work[<<p, "pass">>]]
        BY <1>1, SameWork
    <2>2. GoodWork(work[<<p, "pass">>], commits, selected, rotated, obs)
        BY PageOf
    <2>. QED
        BY <1>1, <1>4, <2>1, <2>2, PassSteps
<1>. QED
    BY <1>3, <1>5 DEF IndexInv

LEMMA InvPassNext ==
    ASSUME IndexInv, NEW p \in Pages, PassNext(p)
    PROVE  IndexInv'
<1>1. /\ pass[p].pc = "next" /\ Still /\ obs' = obs /\ job' = job
      /\ UNCHANGED <<page, queue, trouble>>
    BY DEF PassNext, sources, drains, Still
<1>2. CASE PassEnds(p)
    BY <1>1, <1>2, PassOver, JobsStay, StoresStay DEF IndexInv
<1>3. CASE ~(pass[p].list = {} \/ ~LeasedTo(p))
    <2>1. pass[p] \in PassState /\ pass[p].list \subseteq 1..commits
        BY PageOf DEF GoodPage
    <2>2. PICK r \in pass[p].list :
             /\ passLease' = passLease
             /\ \/ pass' = [pass EXCEPT ![p].list = @ \ {r}] /\ work' = work
                \/ /\ pass' = [pass EXCEPT ![p].pc = "derive", ![p].list = @ \ {r}]
                   /\ Begin(<<p, "pass">>, r)
        BY <1>3 DEF PassNext
    <2>3. r \in 1..commits
        BY <2>1
    <2>. DEFINE a1 == [pass[p] EXCEPT !.list = pass[p].list \ {r}]
                a2 == [a1 EXCEPT !.pc = "derive"]
    <2>4. a1 \in PassState /\ a1.pc = "next" /\ a1.list \subseteq 1..commits
        BY <1>1, <2>1 DEF PassState
    <2>5. SourcesOK' /\ StoresOK'
        BY <1>1, <2>2, JobsStay, StoresStay DEF IndexInv, StoresOK
    <2>6. CASE pass' = [pass EXCEPT ![p].list = @ \ {r}] /\ work' = work
        <3>1. pass' = [pass EXCEPT ![p] = a1]
            BY <2>6
        <3>2. work' = [work EXCEPT ![<<p, "pass">>] = work[<<p, "pass">>]]
            BY <2>6, SameWork
        <3>3. GoodWork(work[<<p, "pass">>], commits, selected, rotated, obs)
            BY PageOf
        <3>. HIDE DEF a1
        <3>4. WorkersOK' /\ PagesOK'
            BY <1>1, <2>4, <3>1, <3>2, <3>3, PassSteps
        <3>. QED
            BY <2>5, <3>4 DEF IndexInv
    <2>7. CASE /\ pass' = [pass EXCEPT ![p].pc = "derive", ![p].list = @ \ {r}]
               /\ Begin(<<p, "pass">>, r)
        <3>1. pass' = [pass EXCEPT ![p] = a2]
            BY <2>1, <2>7 DEF PassState
        <3>2. a2 \in PassState /\ a2.pc = "derive" /\ a2.list \subseteq 1..commits
            <4>. HIDE DEF a1
            <4>. QED
                BY <2>4, PlacePass
        <3>3. PICK k : /\ work' = [work EXCEPT ![<<p, "pass">>] = k] /\ k.src = r
                       /\ GoodWork(k, commits, selected, rotated, obs)
            BY <2>3, <2>7, WorkersOfPage, Begun
        <3>. HIDE DEF a2
        <3>4. r # 0
            BY <2>3
        <3>5. WorkersOK' /\ PagesOK'
            BY <1>1, <3>1, <3>2, <3>3, <3>4, PassSteps
        <3>. QED
            BY <2>5, <3>5 DEF IndexInv
    <2>. QED
        BY <2>2, <2>6, <2>7
<1>. QED
    BY <1>2, <1>3 DEF PassNext

LEMMA InvPassVerify ==
    ASSUME IndexInv, NEW p \in Pages, PassVerify(p)
    PROVE  IndexInv'
<1>. DEFINE k == work[<<p, "pass">>]
<1>1. /\ pass[p].pc = "derive" /\ k.todo = {} /\ Still /\ obs' = obs
      /\ UNCHANGED <<passLease, page, queue, trouble>>
    BY DEF PassVerify, sources, drains, Still
<1>2. GoodWork(k, commits, selected, rotated, obs) /\ k.src # 0 /\ pass[p] \in PassState
      /\ pass[p].list \subseteq 1..commits
    BY <1>1, PageOf DEF GoodPage
<1>3. k.src \in 1..commits
    BY <1>2, RunNumbers DEF GoodWork, IndexInv
<1>4. passLease' \in [held : BOOLEAN, owner : Owners]
    BY <1>1 DEF IndexInv, StoresOK
<1>5. CASE Verified(k)
    <2>1. ~k.failed /\ pass' = [pass EXCEPT ![p].pc = "mark"] /\ job' = job /\ work' = work
        BY <1>5 DEF PassVerify, Verified
    <2>2. SourcesOK' /\ StoresOK'
        BY <1>1, <1>4, <2>1, JobsStay, StoresStay
    <2>3. work' = [work EXCEPT ![<<p, "pass">>] = k]
        BY <2>1, SameWork
    <2>. DEFINE a == [pass[p] EXCEPT !.pc = "mark"]
    <2>4. pass' = [pass EXCEPT ![p] = a]
        BY <2>1
    <2>5. a \in PassState /\ a.pc = "mark" /\ a.list = pass[p].list
        BY <1>2, PlacePass
    <2>. HIDE DEF k, a
    <2>6. WorkersOK' /\ PagesOK'
        BY <1>1, <1>2, <2>1, <2>3, <2>4, <2>5, PassSteps
    <2>. QED
        BY <2>2, <2>6 DEF IndexInv
<1>6. CASE ~Verified(k)
    <2>1. /\ PutJob(k.src, "error") /\ pass' = [pass EXCEPT ![p].pc = "next"]
          /\ work' = [work EXCEPT ![<<p, "pass">>] = NoWork]
        BY <1>6 DEF PassVerify
    <2>. HIDE DEF k
    <2>2. SourcesOK' /\ StoresOK'
        BY <1>1, <1>3, <1>4, <2>1, CountsOf, PutJobOf, StoresStay
    <2>3. WorkersOK' /\ PagesOK'
        BY <1>1, <2>1, PassBack
    <2>. QED
        BY <2>2, <2>3 DEF IndexInv
<1>. QED
    BY <1>5, <1>6

LEMMA InvPassMark ==
    ASSUME IndexInv, NEW p \in Pages, PassMark(p)
    PROVE  IndexInv'
<1>. DEFINE k == work[<<p, "pass">>]
<1>1. /\ pass[p].pc = "mark" /\ Still /\ obs' = obs /\ UNCHANGED <<page, queue, trouble>>
    BY DEF PassMark, sources, drains, Still
<1>2. /\ GoodWork(k, commits, selected, rotated, obs) /\ k.src # 0
      /\ k.todo = {} /\ ~k.failed
    BY <1>1, PageOf DEF GoodPage
<1>3. k.src \in 1..commits /\ k.count \in Counts
    BY <1>2, RunNumbers DEF GoodWork, Derivation, IndexInv
<1>4. Accounts(k.src, {}, selected, rotated, obs)
    BY <1>2 DEF GoodWork
<1>5. CASE PassEnds(p) /\ job' = job
    BY <1>1, <1>5, PassOver, JobsStay, StoresStay DEF IndexInv
<1>6. CASE /\ PutJob(k.src, "complete") /\ pass' = [pass EXCEPT ![p].pc = "next"]
           /\ work' = [work EXCEPT ![<<p, "pass">>] = NoWork] /\ passLease' = passLease
    <2>. HIDE DEF k
    <2>1. passLease' \in [held : BOOLEAN, owner : Owners]
        BY <1>6 DEF IndexInv, StoresOK
    <2>2. SourcesOK' /\ StoresOK'
        BY <1>1, <1>3, <1>4, <1>6, <2>1, PutJobOf, StoresStay
    <2>3. WorkersOK' /\ PagesOK'
        BY <1>1, <1>6, PassBack
    <2>. QED
        BY <2>2, <2>3 DEF IndexInv
<1>. QED
    BY <1>5, <1>6 DEF PassMark

LEMMA InvPassFails ==
    ASSUME IndexInv, NEW p \in Pages, PassFails(p)
    PROVE  IndexInv'
<1>. DEFINE k == work[<<p, "pass">>]
<1>1. /\ Fault /\ Still /\ obs' = obs /\ UNCHANGED <<page, queue>>
    BY DEF PassFails, sources, drains, Still
<1>2. CASE /\ pass[p].pc \in {"mark", "derive"}
           /\ PutJob(k.src, "error") \/ job' = job
           /\ pass' = [pass EXCEPT ![p].pc = "next"]
           /\ work' = [work EXCEPT ![<<p, "pass">>] = NoWork] /\ passLease' = passLease
    <2>1. GoodWork(k, commits, selected, rotated, obs) /\ k.src # 0
        BY <1>2, PageOf DEF GoodPage
    <2>2. k.src \in 1..commits
        BY <2>1, RunNumbers DEF GoodWork, IndexInv
    <2>3. passLease' \in [held : BOOLEAN, owner : Owners]
        BY <1>2 DEF IndexInv, StoresOK
    <2>. HIDE DEF k
    <2>4. /\ job' \in [AllRuns -> Marker]
          /\ \A q \in AllRuns : GoodRow(q, job'[q], commits', selected', rotated', obs')
        <3>1. CASE PutJob(k.src, "error")
            BY <1>1, <2>2, <3>1, CountsOf, PutJobOf
        <3>2. CASE job' = job
            BY <1>1, <3>2, JobsStay
        <3>. QED
            BY <1>2, <3>1, <3>2
    <2>5. SourcesOK' /\ StoresOK'
        BY <1>1, <2>3, <2>4, StoresStay
    <2>6. WorkersOK' /\ PagesOK'
        BY <1>1, <1>2, PassBack
    <2>. QED
        BY <2>5, <2>6 DEF IndexInv
<1>3. CASE PassEnds(p) /\ job' = job
    BY <1>1, <1>3, PassOver, JobsStay, StoresStay DEF IndexInv
<1>. QED
    BY <1>2, <1>3 DEF PassFails

-----------------------------------------------------------------------------
(* Pages come and go.                                                      *)

LEMMA InvPageCrash ==
    ASSUME IndexInv, NEW p \in Pages, PageCrash(p)
    PROVE  IndexInv'
<1>1. /\ Still /\ obs' = obs /\ Fault
      /\ page' = [page EXCEPT ![p] = [NewPage EXCEPT !.open = FALSE]]
      /\ queue' = [queue EXCEPT ![p] = "idle"] /\ pass' = [pass EXCEPT ![p] = NoPass]
      /\ work' = [w \in Workers |-> IF w[1] = p THEN NoWork ELSE work[w]]
      /\ job' = [r \in AllRuns |-> Gone(job[r], p)] /\ passLease' = Gone(passLease, p)
    BY DEF PageCrash, sources, drains, Still
<1>2. ASSUME NEW m \in Marker PROVE Gone(m, p) \in Marker /\ Gone(m, p).status = m.status
    BY DEF Gone, Marker, Owners
<1>3. job \in [AllRuns -> Marker]
    BY DEF IndexInv, StoresOK
<1>4. job' \in [AllRuns -> Marker] /\ \A r \in AllRuns : job'[r].status = job[r].status
    BY <1>1, <1>2, <1>3
<1>5. passLease' \in [held : BOOLEAN, owner : Owners]
    <2>1. passLease \in [held : BOOLEAN, owner : Owners]
        BY DEF IndexInv, StoresOK
    <2>. QED
        BY <1>1, <2>1 DEF Gone, Owners
<1>6. SourcesOK' /\ StoresOK'
    <2>1. \A r \in AllRuns : GoodRow(r, job'[r], commits', selected', rotated', obs')
        BY <1>1, <1>4, RowsRelease
    <2>. QED
        BY <1>1, <1>4, <1>5, <2>1, StoresStay
<1>7. /\ WorkersOK'
      /\ \A v \in Workers : work'[v] = IF v[1] = p THEN NoWork ELSE work[v]
    <2>1. work \in [Workers -> Derivation] /\ NoWork \in Derivation
        BY Fresh DEF IndexInv, WorkersOK
    <2>2. /\ work' \in [Workers -> Derivation]
          /\ \A v \in Workers : work'[v] = IF v[1] = p THEN NoWork ELSE work[v]
        BY <1>1, <2>1
    <2>3. GoodWork(NoWork, commits, selected, rotated, obs)
        BY NoWorkIsGood, RunNumbers DEF IndexInv
    <2>4. \A v \in Workers : GoodWork(work'[v], commits, selected, rotated, obs)
        BY <2>2, <2>3 DEF IndexInv, WorkersOK
    <2>. QED
        BY <1>1, <2>2, <2>4 DEF WorkersOK, Still
<1>. DEFINE g == [NewPage EXCEPT !.open = FALSE]
<1>8. g \in PageState /\ g.events = {}
    BY Fresh DEF PageState
<1>9. page' = [page EXCEPT ![p] = g]
    BY <1>1
<1>. HIDE DEF g
<1>10. /\ OnlyPage(p) /\ page'[p].events = {} /\ queue'[p] = "idle" /\ pass'[p] = NoPass
    <2>1. page' \in [Pages -> PageState] /\ page'[p] = g
        BY <1>8, <1>9 DEF IndexInv, PagesOK
    <2>2. pass' \in [Pages -> PassState] /\ pass'[p] = NoPass
        BY <1>1, Fresh DEF IndexInv, PagesOK
    <2>3. queue' \in [Pages -> {"idle", "list", "claim", "derive"}] /\ queue'[p] = "idle"
        BY <1>1 DEF IndexInv, PagesOK
    <2>4. \A x \in Pages \ {p} : page'[x] = page[x] /\ pass'[x] = pass[x] /\ queue'[x] = queue[x]
        BY <1>1, <1>9 DEF IndexInv, PagesOK
    <2>. QED
        BY <1>8, <2>1, <2>2, <2>3, <2>4 DEF OnlyPage
<1>11. PagesOK'
    <2>1. GoodPage(page'[p], queue'[p], pass'[p], work'[<<p, "queue">>],
                   work'[<<p, "pass">>], commits)
        BY <1>10, Fresh DEF GoodPage
    <2>2. \A v \in Workers : v[1] # p => work'[v] = work[v]
        BY <1>7
    <2>. QED
        BY <1>1, <1>10, <2>1, <2>2, PageSteps DEF Still
<1>. QED
    BY <1>6, <1>7, <1>11 DEF IndexInv

LEMMA InvPageOpens ==
    ASSUME IndexInv, NEW p \in Pages, PageOpens(p)
    PROVE  IndexInv'
<1>1. /\ Still /\ obs' = obs /\ job' = job /\ UNCHANGED <<passLease, queue, work, trouble>>
      /\ page' = [page EXCEPT ![p].open = TRUE] /\ pass' = [pass EXCEPT ![p].pc = "start"]
    BY DEF PageOpens, sources, drains, Still
<1>. DEFINE g == [page[p] EXCEPT !.open = TRUE]
            a == [pass[p] EXCEPT !.pc = "start"]
<1>2. /\ page[p] \in PageState /\ pass[p] \in PassState
      /\ GoodPage(page[p], queue[p], pass[p], work[<<p, "queue">>], work[<<p, "pass">>],
                  commits)
    BY PageOf
<1>3. g \in PageState /\ g.events = page[p].events
    BY <1>2 DEF PageState
<1>4. a \in PassState /\ a.pc = "start" /\ a.list = pass[p].list
    BY <1>2, PlacePass
<1>5. page' = [page EXCEPT ![p] = g] /\ pass' = [pass EXCEPT ![p] = a]
    BY <1>1
<1>. HIDE DEF g, a
<1>6. OnlyPage(p) /\ page'[p] = g /\ pass'[p] = a
    BY <1>1, <1>3, <1>4, <1>5 DEF OnlyPage, IndexInv, PagesOK
<1>7. GoodPage(page'[p], queue'[p], pass'[p], work'[<<p, "queue">>],
               work'[<<p, "pass">>], commits)
    BY <1>1, <1>2, <1>3, <1>4, <1>6 DEF GoodPage
<1>8. PagesOK'
    BY <1>1, <1>6, <1>7, PageSteps DEF Still
<1>9. WorkersOK'
    BY <1>1, WorkersStay
<1>10. SourcesOK' /\ StoresOK'
    BY <1>1, JobsStay, StoresStay DEF IndexInv, StoresOK
<1>. QED
    BY <1>8, <1>9, <1>10 DEF IndexInv

-----------------------------------------------------------------------------
LEMMA InvNext == IndexInv /\ [IndexNext]_indexVars => IndexInv'
<1>. SUFFICES ASSUME IndexInv, [IndexNext]_indexVars PROVE IndexInv'
    OBVIOUS
<1>1. CASE AddModel \/ \E p \in Pages : Commit(p)
    BY <1>1, InvCommit, InvAddModel
<1>2. ASSUME NEW w \in Workers, DeriveWrite(w) \/ DeriveFails(w) PROVE IndexInv'
    BY <1>2, InvDeriveWrite, InvDeriveFails
<1>3. ASSUME NEW p \in Pages, QueueStep(p) \/ \E r \in AllRuns : EnqueueFails(p, r)
      PROVE  IndexInv'
    BY <1>3, InvEnqueue, InvClaim, InvDrain, InvList, InvFinalize, InvDrainEnds DEF QueueStep
<1>4. ASSUME NEW p \in Pages,
             \/ PassAcquire(p) \/ PassNext(p) \/ PassVerify(p) \/ PassMark(p)
             \/ PassFails(p) \/ PageCrash(p) \/ PageOpens(p)
      PROVE  IndexInv'
    BY <1>4, InvPassAcquire, InvPassNext, InvPassVerify, InvPassMark, InvPassFails,
       InvPageCrash, InvPageOpens
<1>5. CASE UNCHANGED indexVars
    <2>1. /\ Still /\ obs' = obs /\ job' = job
          /\ UNCHANGED <<passLease, page, queue, pass, work, trouble>>
        BY <1>5 DEF indexVars, sources, drains, Still
    <2>2. SourcesOK' /\ StoresOK'
        BY <2>1, JobsStay, StoresStay DEF IndexInv, StoresOK
    <2>3. WorkersOK'
        BY <2>1, WorkersStay
    <2>4. PagesOK'
        BY <2>1 DEF IndexInv, PagesOK, Still
    <2>. QED
        BY <2>2, <2>3, <2>4 DEF IndexInv
<1>. QED
    BY <1>1, <1>2, <1>3, <1>4, <1>5 DEF IndexNext

LEMMA ListsNext == ListsOK /\ [IndexNext]_indexVars => ListsOK'
<1>. SUFFICES ASSUME ListsOK, [IndexNext]_indexVars PROVE ListsOK'
    OBVIOUS
<1>1. CASE UNCHANGED listed
    BY <1>1 DEF ListsOK
<1>2. ASSUME NEW p \in Pages, NEW set \in SUBSET AllRuns,
             listed' = [listed EXCEPT ![p] = set]
      PROVE  ListsOK'
    BY <1>2 DEF ListsOK
<1>3. ASSUME NEW p \in Pages, List(p) PROVE ListsOK'
    BY <1>2, <1>3 DEF List, QueuedJobs
<1>4. ASSUME NEW p \in Pages, NEW r \in AllRuns, Claim(p, r) PROVE ListsOK'
    <2>1. {} \in SUBSET AllRuns /\ listed[p] \ {r} \in SUBSET AllRuns
        BY DEF ListsOK
    <2>2. \/ listed' = [listed EXCEPT ![p] = {}]
          \/ listed' = [listed EXCEPT ![p] = listed[p] \ {r}]
        BY <1>4 DEF Claim
    <2>. QED
        BY <1>2, <2>1, <2>2
<1>5. ASSUME NEW p \in Pages, DrainEnds(p) \/ PageCrash(p) PROVE ListsOK'
    BY <1>2, <1>5 DEF DrainEnds, PageCrash
<1>6. CASE \/ AddModel \/ UNCHANGED indexVars
           \/ \E w \in Workers : DeriveWrite(w) \/ DeriveFails(w)
    BY <1>1, <1>6 DEF AddModel, DeriveWrite, DeriveFails, indexVars, drains
<1>7. ASSUME NEW p \in Pages, Commit(p) \/ Drain(p) \/ Finalize(p) PROVE ListsOK'
    BY <1>1, <1>7 DEF Commit, Drain, Finalize, drains
<1>8. ASSUME NEW p \in Pages, NEW r \in AllRuns, Enqueue(p, r) \/ EnqueueFails(p, r)
      PROVE  ListsOK'
    BY <1>1, <1>8 DEF Enqueue, EnqueueFails, drains
<1>9. ASSUME NEW p \in Pages,
             \/ PassAcquire(p) \/ PassNext(p) \/ PassVerify(p)
             \/ PassMark(p) \/ PassFails(p) \/ PageOpens(p)
      PROVE  ListsOK'
    BY <1>1, <1>9 DEF PassAcquire, PassNext, PassVerify, PassMark, PassFails, PageOpens, drains
<1>. QED
    BY <1>3, <1>4, <1>5, <1>6, <1>7, <1>8, <1>9 DEF IndexNext, QueueStep

\* The inductive invariant of the evidence index holds.
THEOREM IndexInvariance == IndexSpec => []IndexInv
    BY InvInit, InvNext, PTL DEF IndexSpec

\* Every variable keeps its type; of the counts of the derivations, which are
\* cardinalities, it takes that the cells of a run are finitely many.
THEOREM IndexTypes == IndexSpec => []IndexTypeOK
<1>1. IndexInit => ListsOK
    BY DEF IndexInit, ListsOK
<1>. QED
    BY <1>1, ListsNext, IndexInvariance, InvImplies, PTL DEF IndexSpec

\* A complete marker accounts for what is stored, for any pages that derive,
\* recover and reindex at the same time, any crashes and any failed writes.
THEOREM CompleteMarkersAccount == IndexSpec => []CompleteIsAccounted
    BY IndexInvariance, InvImplies, PTL

\* No observation is stored under another run than the one it describes.
THEOREM EvidenceIsOwn == IndexSpec => []OnlyOwnEvidence
    BY IndexInvariance, InvImplies, PTL

-----------------------------------------------------------------------------
(* A complete marker is final.                                             *)

Completed(r) == job[r].status = "complete"

LEMMA PutKeeps ==
    ASSUME IndexInv, NEW r, NEW st \in {"queued", "complete", "error"},
           PutJob(r, st), NEW q \in AllRuns, Completed(q)
    PROVE  Completed(q)'
<1>1. job \in [AllRuns -> Marker]
    BY DEF IndexInv, StoresOK
<1>2. CASE job' = job
    BY <1>2 DEF Completed
<1>3. CASE Accepts(job[r], st) /\ r = q
    <2>. DEFINE m == [NoJob EXCEPT !.status = st]
    <2>1. st = "complete"
        BY <1>3 DEF Accepts, Completed
    <2>2. job' = [job EXCEPT ![r] = m]
        BY <1>3 DEF PutJob
    <2>3. m.status = "complete"
        BY <2>1, Fresh DEF NoJob
    <2>. HIDE DEF m
    <2>. QED
        BY <1>1, <1>3, <2>2, <2>3 DEF Completed
<1>4. CASE Accepts(job[r], st) /\ r # q
    <2>. DEFINE m == [NoJob EXCEPT !.status = st]
    <2>1. job' = [job EXCEPT ![r] = m]
        BY <1>4 DEF PutJob
    <2>. HIDE DEF m
    <2>. QED
        BY <1>1, <1>4, <2>1 DEF Completed
<1>. QED
    BY <1>2, <1>3, <1>4 DEF PutJob

LEMMA StepKeeps ==
    ASSUME IndexInv, IndexNext, NEW q \in AllRuns, Completed(q)
    PROVE  Completed(q)'
<1>1. job \in [AllRuns -> Marker]
    BY DEF IndexInv, StoresOK
<1>2. CASE job' = job
    BY <1>2 DEF Completed
<1>3. ASSUME NEW p \in Pages, NEW r \in AllRuns, Enqueue(p, r) PROVE Completed(q)'
    BY <1>3, PutKeeps DEF Enqueue
<1>4. ASSUME NEW p \in Pages, NEW r \in AllRuns, Claim(p, r) PROVE Completed(q)'
    <2>. DEFINE m == [NoJob EXCEPT !.status = "running", !.owner = p]
    <2>1. job' = job \/ (r # q /\ job' = [job EXCEPT ![r] = m])
        BY <1>4 DEF Claim, Completed
    <2>. HIDE DEF m
    <2>. QED
        BY <1>1, <2>1 DEF Completed
<1>5. ASSUME NEW p \in Pages, Drain(p) PROVE Completed(q)'
    <2>1. PICK stale \in SUBSET {r \in AllRuns : job[r].status = "running"} :
             job' = [r \in AllRuns |-> IF r \in stale THEN [NoJob EXCEPT !.status = "queued"]
                                                    ELSE job[r]]
        BY <1>5 DEF Drain, Recover
    <2>2. q \notin stale
        BY DEF Completed
    <2>. QED
        BY <2>1, <2>2 DEF Completed
<1>6. ASSUME NEW p \in Pages, Finalize(p) PROVE Completed(q)'
    <2>. DEFINE k == work[<<p, "queue">>]
    <2>1. PutJob(k.src, IF k.failed THEN "error" ELSE "complete") \/ job' = job
        BY <1>6 DEF Finalize
    <2>. HIDE DEF k
    <2>2. CASE PutJob(k.src, IF k.failed THEN "error" ELSE "complete")
        <3>1. CASE k.failed
            BY <2>2, <3>1, PutKeeps
        <3>2. CASE ~k.failed
            BY <2>2, <3>2, PutKeeps
        <3>. QED
            BY <3>1, <3>2
    <2>. QED
        BY <1>2, <2>1, <2>2
<1>7. ASSUME NEW p \in Pages, PassVerify(p) \/ PassMark(p) \/ PassFails(p)
      PROVE  Completed(q)'
    <2>. DEFINE k == work[<<p, "pass">>]
    <2>1. \/ PutJob(k.src, "error") \/ PutJob(k.src, "complete")
          \/ job' = job
        BY <1>7 DEF PassVerify, PassMark, PassFails
    <2>. HIDE DEF k
    <2>. QED
        BY <1>2, <2>1, PutKeeps
<1>8. ASSUME NEW p \in Pages, PageCrash(p) PROVE Completed(q)'
    <2>1. job' = [r \in AllRuns |-> Gone(job[r], p)] /\ job[q] \in Marker
        BY <1>1, <1>8 DEF PageCrash
    <2>2. Gone(job[q], p).status = job[q].status
        BY <2>1 DEF Gone, Marker
    <2>. QED
        BY <2>1, <2>2 DEF Completed
<1>9. \/ job' = job
      \/ \E p \in Pages :
            \/ \E r \in AllRuns : Enqueue(p, r) \/ Claim(p, r)
            \/ Drain(p) \/ Finalize(p) \/ PageCrash(p)
            \/ PassVerify(p) \/ PassMark(p) \/ PassFails(p)
    <2>1. (AddModel \/ \E p \in Pages : Commit(p)) => job' = job
        BY DEF Commit, AddModel
    <2>2. \A w \in Workers : DeriveWrite(w) \/ DeriveFails(w) => job' = job
        BY DEF DeriveWrite, DeriveFails
    <2>3. \A p \in Pages : \/ List(p) \/ DrainEnds(p) \/ PassAcquire(p) \/ PassNext(p)
                           \/ PageOpens(p)
                           \/ \E r \in AllRuns : EnqueueFails(p, r)
                           => job' = job
        BY DEF List, DrainEnds, PassAcquire, PassNext, PageOpens, EnqueueFails
    <2>. QED
        BY <2>1, <2>2, <2>3 DEF IndexNext, QueueStep
<1>. QED
    BY <1>2, <1>3, <1>4, <1>5, <1>6, <1>7, <1>8, <1>9

\* No step of any page takes a complete marker back: late failures, duplicate
\* events, lost claims and second passes leave it.
THEOREM CompleteMarkersStay == IndexSpec => CompleteStays
<1>1. IndexInv /\ [IndexNext]_indexVars =>
          [\A r \in AllRuns : job[r].status = "complete" => job'[r].status = "complete"]_indexVars
    <2>. SUFFICES ASSUME IndexInv, IndexNext, NEW r \in AllRuns, job[r].status = "complete"
                  PROVE  job'[r].status = "complete"
        OBVIOUS
    <2>. QED
        BY StepKeeps DEF Completed
<1>. QED
    BY <1>1, IndexInvariance, PTL DEF IndexSpec, CompleteStays
=============================================================================
