-------------------------- MODULE RunRecoveryProofs --------------------------
(***************************************************************************)
(* Proofs about ExecutionLease and RunRecovery, for any set of tabs, any   *)
(* TTL, any number of acquisitions, and any runs and bounds.               *)
(*                                                                         *)
(* The inductive invariant of the lease adds two facts to the type         *)
(* invariant: every token in circulation was minted together with its      *)
(* fence, one for one, and the active-lease row, while there is one, is    *)
(* the latest acquisition.                                                 *)
(*                                                                         *)
(* That of recovery says, beyond the types: the steps of this module are   *)
(* steps of the lease; a row that was read and not yet written back is     *)
(* either still the stored row or has a smaller revision; a command past   *)
(* its rebind finds the run under its own fence; and what a sweep has not  *)
(* yet dealt with is on its list.                                          *)
(***************************************************************************)
EXTENDS RunRecovery, TLAPS

MintedWithFence == minted = fence

\* The row is the latest acquisition and is known only to its owner.
RowIsNewest ==
    lease # NoLease => lease.fence = fence /\ lease.leaseId = minted

TokensAreMinted ==
    \A t \in Tabs : \A k \in Issued(t) :
        k.leaseId = k.fence /\ 0 < k.fence /\ k.fence <= fence

IndInv ==
    /\ TypeOK
    /\ MintedWithFence
    /\ RowIsNewest
    /\ TokensAreMinted
    /\ OneFencePerAcquisition

\* The rows and the per-tab state keep their types: every step of the lease
\* writes a well-formed row or deletes it.
LEMMA TypeOKStep == TypeOK /\ [Next]_vars => TypeOK'
<1> SUFFICES ASSUME TypeOK, [Next]_vars PROVE TypeOK'
    OBVIOUS
<1> USE TTLAssumption, NoLeaseAssumption DEF TypeOK, Token, Lease
<1>1. CASE UNCHANGED vars
    BY <1>1 DEF vars
<1>2. CASE Tick
    BY <1>2 DEF Tick, Live, tabVars
<1>3. ASSUME NEW t \in Tabs, AcquireTx(t) PROVE TypeOK'
    BY <1>3 DEF AcquireTx, NextFence
<1>4. ASSUME NEW t \in Tabs, AcquireReturn(t) PROVE TypeOK'
    BY <1>4 DEF AcquireReturn, dbVars
<1>5. ASSUME NEW t \in Tabs, NEW k \in tokens[t], Renew(t, k) PROVE TypeOK'
    BY <1>5 DEF Renew, MayRenew, Matches, Live, tabVars
<1>6. ASSUME NEW t \in Tabs, NEW k \in tokens[t], Release(t, k) PROVE TypeOK'
    BY <1>6 DEF Release, MayRelease, Matches
<1>7. ASSUME NEW t \in Tabs, RenewCurrent(t) PROVE TypeOK'
    BY <1>7 DEF RenewCurrent, MatchesCurrent, Live, tabVars
<1>8. ASSUME NEW t \in Tabs, ReleaseCurrent(t) PROVE TypeOK'
    BY <1>8 DEF ReleaseCurrent, MatchesCurrent
<1>9. ASSUME NEW t \in Tabs, Close(t) PROVE TypeOK'
    BY <1>9 DEF Close, dbVars
<1>. QED
    BY <1>1, <1>2, <1>3, <1>4, <1>5, <1>6, <1>7, <1>8, <1>9 DEF Next, TabStep

\* TypeOK holds in every reachable state.
THEOREM TypeCorrect == Spec => []TypeOK
<1>1. Init => TypeOK
    BY DEF Init, TypeOK, Token, Lease
<1>. QED
    BY <1>1, TypeOKStep, PTL DEF Spec

-----------------------------------------------------------------------------
\* Only AcquireTx issues a token, and its fence is above every earlier one;
\* every other step keeps or forgets tokens.
LEMMA IndInvStep == IndInv /\ [Next]_vars => IndInv'
<1> SUFFICES ASSUME IndInv, [Next]_vars PROVE IndInv'
    OBVIOUS
<1>0. TypeOK'
    BY TypeOKStep DEF IndInv
<1> USE DEF IndInv, MintedWithFence, RowIsNewest, TokensAreMinted, OneFencePerAcquisition, Issued
<1>1. CASE UNCHANGED vars
    BY <1>0, <1>1 DEF vars
<1>2. CASE Tick
    BY <1>0, <1>2, NoLeaseAssumption DEF Tick, Live, tabVars, TypeOK, Lease
<1>3. ASSUME NEW t \in Tabs, AcquireTx(t) PROVE IndInv'
  <2> DEFINE new == [leaseId |-> minted + 1, fence |-> fence + 1]
  <2>1. /\ fence' = fence + 1
        /\ minted' = minted + 1
        /\ pending' = [pending EXCEPT ![t] = @ \cup {new}]
        /\ tokens' = tokens
        /\ lease' = [owner |-> t, leaseId |-> minted + 1, fence |-> fence + 1, left |-> TTL]
    BY <1>3 DEF AcquireTx, NextFence
  <2>2. fence \in Nat /\ minted = fence /\ pending \in [Tabs -> SUBSET Token]
    BY DEF TypeOK
  <2>3. ASSUME NEW u \in Tabs, NEW k \in Issued(u)'
        PROVE  k \in Issued(u) \/ (u = t /\ k = new)
    BY <2>1, <2>2, <2>3
  <2>4. \A u \in Tabs : \A k \in Issued(u) : k \in Token
    BY DEF TypeOK
  <2>5. TokensAreMinted'
    BY <2>1, <2>2, <2>3, <2>4 DEF Token
  <2>6. OneFencePerAcquisition'
    <3> SUFFICES ASSUME NEW u \in Tabs, NEW v \in Tabs,
                        NEW k \in Issued(u)', NEW l \in Issued(v)', k.fence = l.fence
                 PROVE  u = v /\ k = l
        BY DEF OneFencePerAcquisition
    <3>1. new.fence = fence + 1
        OBVIOUS
    <3>2. CASE k \in Issued(u) /\ l \in Issued(v)
        BY <3>2
    <3>3. CASE k \in Issued(u) /\ v = t /\ l = new
        BY <2>2, <2>4, <3>1, <3>3 DEF Token
    <3>4. CASE u = t /\ k = new /\ l \in Issued(v)
        BY <2>2, <2>4, <3>1, <3>4 DEF Token
    <3>5. CASE u = t /\ k = new /\ v = t /\ l = new
        BY <3>5
    <3>. QED
        BY <2>3, <3>2, <3>3, <3>4, <3>5
  <2>. QED
    BY <1>0, <2>1, <2>2, <2>5, <2>6
<1>4. ASSUME NEW t \in Tabs, AcquireReturn(t) PROVE IndInv'
  <2>1. \A u \in Tabs : Issued(u)' = Issued(u)
    BY <1>4 DEF AcquireReturn, TypeOK
  <2>. QED
    BY <1>0, <1>4, <2>1 DEF AcquireReturn, dbVars
<1>5. ASSUME NEW t \in Tabs, NEW k \in tokens[t], Renew(t, k) PROVE IndInv'
    BY <1>0, <1>5 DEF Renew, MayRenew, Matches, tabVars, TypeOK, Lease
<1>6. ASSUME NEW t \in Tabs, NEW k \in tokens[t], Release(t, k) PROVE IndInv'
    BY <1>0, <1>6 DEF Release
<1>7. ASSUME NEW t \in Tabs, RenewCurrent(t) PROVE IndInv'
    BY <1>0, <1>7 DEF RenewCurrent, MatchesCurrent, tabVars, TypeOK, Lease
<1>8. ASSUME NEW t \in Tabs, ReleaseCurrent(t) PROVE IndInv'
    BY <1>0, <1>8 DEF ReleaseCurrent
<1>9. ASSUME NEW t \in Tabs, Close(t) PROVE IndInv'
  <2>1. \A u \in Tabs : Issued(u)' \in SUBSET Issued(u)
    BY <1>9 DEF Close, TypeOK
  <2>. QED
    BY <1>0, <1>9, <2>1 DEF Close, dbVars
<1>. QED
    BY <1>1, <1>2, <1>3, <1>4, <1>5, <1>6, <1>7, <1>8, <1>9 DEF Next, TabStep

\* The inductive invariant holds in every reachable state.
THEOREM Invariance == Spec => []IndInv
<1>1. Init => IndInv
  <2> SUFFICES ASSUME Init PROVE IndInv
      OBVIOUS
  <2>1. TypeOK
      BY DEF Init, TypeOK, Token, Lease
  <2>. QED
      BY <2>1 DEF Init, IndInv, MintedWithFence, RowIsNewest, TokensAreMinted,
                  OneFencePerAcquisition, Issued
<1>. QED
    BY <1>1, IndInvStep, PTL DEF Spec

\* No two acquisitions, of one tab or of two, ever share a fence.
THEOREM UniqueFences == Spec => []OneFencePerAcquisition
<1>1. IndInv => OneFencePerAcquisition
    BY DEF IndInv
<1>. QED
    BY <1>1, Invariance, PTL

-----------------------------------------------------------------------------
\* A token that no longer verifies cannot be made to verify again by any
\* step: a new row has a fence above the token's, and renew refuses an
\* expired row.
LEMMA StaleStep ==
    ASSUME IndInv, [Next]_vars, NEW t \in Tabs,
           NEW k \in Token, k.fence <= fence, ~Verifies(t, k)
    PROVE  ~Verifies(t, k)'
<1> USE DEF Verifies, Matches
<1>0. k \in Token /\ k.fence <= fence /\ fence \in Nat
    BY DEF IndInv, TypeOK
<1>1. CASE UNCHANGED vars
    BY <1>1 DEF vars, Live
<1>2. CASE Tick
    BY <1>2, NoLeaseAssumption DEF Tick, Live, IndInv, TypeOK, Lease
<1>3. ASSUME NEW u \in Tabs, AcquireTx(u) PROVE ~Verifies(t, k)'
  <2>1. lease'.fence = fence + 1
    BY <1>3 DEF AcquireTx, NextFence
  <2>. QED
    BY <1>0, <2>1 DEF Token
<1>4. ASSUME NEW u \in Tabs, AcquireReturn(u) PROVE ~Verifies(t, k)'
    BY <1>4 DEF AcquireReturn, dbVars, Live
<1>5. ASSUME NEW u \in Tabs, NEW l \in tokens[u], Renew(u, l) PROVE ~Verifies(t, k)'
    BY <1>5, NoLeaseAssumption DEF Renew, MayRenew, Live, IndInv, TypeOK, Lease
<1>6. ASSUME NEW u \in Tabs, NEW l \in tokens[u], Release(u, l) PROVE ~Verifies(t, k)'
    BY <1>6 DEF Release
<1>7. ASSUME NEW u \in Tabs, RenewCurrent(u) PROVE ~Verifies(t, k)'
    BY <1>7, NoLeaseAssumption DEF RenewCurrent, MatchesCurrent, Live, IndInv, TypeOK, Lease
<1>8. ASSUME NEW u \in Tabs, ReleaseCurrent(u) PROVE ~Verifies(t, k)'
    BY <1>8 DEF ReleaseCurrent
<1>9. ASSUME NEW u \in Tabs, Close(u) PROVE ~Verifies(t, k)'
    BY <1>9 DEF Close, dbVars, Live
<1>. QED
    BY <1>1, <1>2, <1>3, <1>4, <1>5, <1>6, <1>7, <1>8, <1>9 DEF Next, TabStep

\* A controller that was superseded or that slept past its expiry can never
\* act under its old token again.
THEOREM NoRevival == Spec => StaleTokenStaysStale
<1>1. IndInv /\ [Next]_vars
          => [\A t \in Tabs : \A k \in tokens[t] : ~Verifies(t, k) => ~Verifies(t, k)']_vars
  <2>1. IndInv => \A t \in Tabs : \A k \in tokens[t] : k \in Token /\ k.fence <= fence
    BY DEF IndInv, TypeOK, TokensAreMinted, Issued
  <2>. QED
    BY <2>1, StaleStep
<1>. QED
    BY <1>1, Invariance, PTL DEF Spec, StaleTokenStaysStale

-----------------------------------------------------------------------------
\* The acquisitions of a tab return in the order they were made, so one that
\* has not returned is newer than the tab's current one and all it returned.
UnreturnedIsNewest ==
    \A t \in Tabs :
        /\ cur[t] <= minted
        /\ \A k \in pending[t] : cur[t] < k.leaseId
        /\ \A k \in pending[t] : \A l \in tokens[t] : l.leaseId < k.leaseId

\* The order is kept: a new acquisition is newer than all before it, and the
\* oldest one returns first.
LEMMA UnreturnedStep == IndInv /\ UnreturnedIsNewest /\ [Next]_vars => UnreturnedIsNewest'
<1> SUFFICES ASSUME IndInv, UnreturnedIsNewest, [Next]_vars PROVE UnreturnedIsNewest'
    OBVIOUS
<1>0. /\ minted \in Nat /\ fence = minted
      /\ cur \in [Tabs -> Nat] /\ pending \in [Tabs -> SUBSET Token]
      /\ tokens \in [Tabs -> SUBSET Token]
      /\ \A t \in Tabs : \A k \in tokens[t] \cup pending[t] :
            k \in Token /\ k.leaseId \in Nat /\ k.leaseId <= minted
    BY DEF IndInv, TypeOK, MintedWithFence, TokensAreMinted, Issued, Token
<1>1. CASE UNCHANGED <<minted, cur, pending, tokens>>
    BY <1>1 DEF UnreturnedIsNewest
<1>2. ASSUME NEW t \in Tabs, AcquireTx(t) PROVE UnreturnedIsNewest'
  <2> DEFINE new == [leaseId |-> minted + 1, fence |-> fence + 1]
  <2>1. /\ minted' = minted + 1 /\ cur' = cur /\ tokens' = tokens
        /\ pending' = [pending EXCEPT ![t] = @ \cup {new}]
    BY <1>2 DEF AcquireTx, NextFence
  <2>2. ASSUME NEW u \in Tabs, NEW k \in pending'[u]
        PROVE  k \in pending[u] \/ k.leaseId = minted + 1
    BY <1>0, <2>1, <2>2
  <2>. QED
    BY <1>0, <2>1, <2>2 DEF UnreturnedIsNewest
<1>3. ASSUME NEW t \in Tabs, AcquireReturn(t) PROVE UnreturnedIsNewest'
  <2>1. PICK k \in pending[t] :
            /\ \A o \in pending[t] : k.leaseId <= o.leaseId
            /\ cur' = [cur EXCEPT ![t] = k.leaseId]
            /\ tokens' = [tokens EXCEPT ![t] = @ \cup {k}]
            /\ pending' = [pending EXCEPT ![t] = @ \ {k}]
            /\ minted' = minted
    BY <1>3 DEF AcquireReturn, dbVars
  <2>2. ASSUME NEW o \in pending'[t] PROVE o \in pending[t] /\ k.leaseId < o.leaseId
    <3>1. o \in pending[t] /\ o # k /\ k.leaseId <= o.leaseId
      BY <1>0, <2>1, <2>2
    <3>2. o.leaseId # k.leaseId
      BY <1>0, <3>1 DEF IndInv, TokensAreMinted, OneFencePerAcquisition, Issued
    <3>. QED
      BY <1>0, <3>1, <3>2
  <2>3. ASSUME NEW u \in Tabs, u # t
        PROVE  cur'[u] = cur[u] /\ tokens'[u] = tokens[u] /\ pending'[u] = pending[u]
    BY <1>0, <2>1, <2>3
  <2>4. cur'[t] = k.leaseId /\ tokens'[t] = tokens[t] \cup {k}
    BY <1>0, <2>1
  <2>. QED
    BY <1>0, <2>1, <2>2, <2>3, <2>4 DEF UnreturnedIsNewest
<1>4. ASSUME NEW t \in Tabs, minted' = minted,
             \A u \in Tabs : /\ cur'[u] \in {0, cur[u]}
                             /\ pending'[u] \subseteq pending[u]
                             /\ tokens'[u] \subseteq tokens[u]
      PROVE  UnreturnedIsNewest'
  <2>1. \A u \in Tabs : \A k \in pending[u] : 0 < k.leaseId
    BY <1>0 DEF IndInv, TokensAreMinted, Issued
  <2>. QED
    BY <1>0, <1>4, <2>1 DEF UnreturnedIsNewest
<1>5. CASE Tick
    BY <1>1, <1>5 DEF Tick, tabVars
<1>6. ASSUME NEW t \in Tabs, NEW k \in tokens[t], Renew(t, k) PROVE UnreturnedIsNewest'
    BY <1>1, <1>6 DEF Renew, tabVars
<1>7. ASSUME NEW t \in Tabs, NEW k \in tokens[t], Release(t, k) PROVE UnreturnedIsNewest'
    BY <1>0, <1>4, <1>7 DEF Release
<1>8. ASSUME NEW t \in Tabs, RenewCurrent(t) PROVE UnreturnedIsNewest'
    BY <1>1, <1>8 DEF RenewCurrent, tabVars
<1>9. ASSUME NEW t \in Tabs, ReleaseCurrent(t) PROVE UnreturnedIsNewest'
    BY <1>0, <1>4, <1>9 DEF ReleaseCurrent
<1>10. ASSUME NEW t \in Tabs, Close(t) PROVE UnreturnedIsNewest'
    BY <1>0, <1>4, <1>10 DEF Close, dbVars
<1>. QED
    BY <1>1, <1>2, <1>3, <1>5, <1>6, <1>7, <1>8, <1>9, <1>10 DEF Next, TabStep, vars

\* While an acquisition has not returned, no token that anybody holds matches
\* its row, so renewals and releases do not apply to it.
LEMMA UntouchedStep ==
    ASSUME IndInv, UnreturnedIsNewest, [Next]_vars,
           Live, \E k \in pending[lease.owner] : Matches(lease.owner, k)
    PROVE  /\ lease' # NoLease
           /\ lease'.leaseId = lease.leaseId
           /\ lease'.left <= lease.left
<1>0. lease \in Lease /\ lease # NoLease /\ lease.owner \in Tabs /\ lease.left \in Nat
    BY DEF Live, IndInv, TypeOK, Lease
<1>1. PICK k \in pending[lease.owner] : lease.leaseId = k.leaseId
    BY DEF Matches
<1>2. /\ cur[lease.owner] < lease.leaseId
      /\ \A l \in tokens[lease.owner] : l.leaseId < lease.leaseId
    BY <1>0, <1>1 DEF UnreturnedIsNewest
<1>3. lease.leaseId \in Nat /\ cur[lease.owner] \in Nat
      /\ \A l \in tokens[lease.owner] : l.leaseId \in Nat
    BY <1>0 DEF IndInv, TypeOK, Lease, Token
<1>4. CASE lease' = lease
    BY <1>0, <1>4
<1>5. CASE Tick
    BY <1>0, <1>5, NoLeaseAssumption DEF Tick, Live, Lease
<1>6. ASSUME NEW t \in Tabs PROVE ~AcquireTx(t)
    BY DEF AcquireTx
<1>7. ASSUME NEW t \in Tabs, AcquireReturn(t) PROVE lease' = lease
    BY <1>7 DEF AcquireReturn, dbVars
<1>8. ASSUME NEW t \in Tabs, NEW l \in tokens[t] PROVE ~Renew(t, l) /\ ~Release(t, l)
    BY <1>2, <1>3 DEF Renew, Release, MayRenew, MayRelease, Matches
<1>9. ASSUME NEW t \in Tabs PROVE ~RenewCurrent(t) /\ ~ReleaseCurrent(t)
    BY <1>2, <1>3 DEF RenewCurrent, ReleaseCurrent, MatchesCurrent
<1>10. ASSUME NEW t \in Tabs, Close(t) PROVE lease' = lease
    BY <1>10 DEF Close, dbVars
<1>. QED
    BY <1>4, <1>5, <1>6, <1>7, <1>8, <1>9, <1>10 DEF Next, TabStep, vars

\* The heartbeat and the cleanup of a controller that has ended neither
\* extend nor delete the lease that the same tab is about to be given.
THEOREM UnreturnedLeasesAreUntouched == Spec => UnreturnedLeaseIsUntouched
<1>1. Init => UnreturnedIsNewest
  <2>1. ASSUME Init, NEW t \in Tabs PROVE cur[t] <= minted /\ pending[t] = {}
      BY <2>1 DEF Init
  <2>. QED
      BY <2>1 DEF UnreturnedIsNewest
<1>2. Spec => []UnreturnedIsNewest
    BY <1>1, UnreturnedStep, Invariance, PTL DEF Spec
<1>3. IndInv /\ UnreturnedIsNewest /\ [Next]_vars
          => [Live /\ (\E k \in pending[lease.owner] : Matches(lease.owner, k))
                 => /\ lease' # NoLease
                    /\ lease'.leaseId = lease.leaseId
                    /\ lease'.left <= lease.left]_vars
    BY UntouchedStep
<1>. QED
    BY <1>2, <1>3, Invariance, PTL DEF Spec, UnreturnedLeaseIsUntouched

-----------------------------------------------------------------------------
\* Every step of the lease is a step of the abstract lock, or none: an
\* acquisition is a grant, a release or the last tick of a live row its end.
LEMMA LockStep == IndInv /\ [Next]_vars => [Lock!LockNext]_(Lock!lockVars)
<1> SUFFICES ASSUME IndInv, [Next]_vars PROVE [Lock!LockNext]_(Lock!lockVars)
    OBVIOUS
<1> USE NoLeaseAssumption, TTLAssumption
        DEF Lock!LockNext, Lock!lockVars, Lock!End, Lock!GrantTo, Live, IndInv, RowIsNewest, TypeOK, Lease
<1>1. CASE UNCHANGED vars
    BY <1>1 DEF vars
<1>2. CASE Tick
    BY <1>2 DEF Tick, tabVars
<1>3. ASSUME NEW t \in Tabs, AcquireTx(t) PROVE Lock!LockNext
  <2>1. /\ ~Live
        /\ fence' = fence + 1
        /\ lease' = [owner |-> t, leaseId |-> minted + 1, fence |-> fence + 1, left |-> TTL]
    BY <1>3 DEF AcquireTx, NextFence
  <2>2. Live' /\ lease'.owner = t /\ lease'.fence = fence + 1
    <3>1. lease' \in Lease
      BY <1>3, <2>1 DEF AcquireTx
    <3>. QED
      BY <2>1, <3>1
  <2>3. Lock!GrantTo(t)
    BY <2>1, <2>2
  <2>. QED
    BY <2>3
<1>4. ASSUME NEW t \in Tabs, AcquireReturn(t) PROVE [Lock!LockNext]_(Lock!lockVars)
    BY <1>4 DEF AcquireReturn, dbVars
<1>5. ASSUME NEW t \in Tabs, NEW k \in tokens[t], Renew(t, k)
      PROVE  [Lock!LockNext]_(Lock!lockVars)
    BY <1>5 DEF Renew, MayRenew, Matches, tabVars
<1>6. ASSUME NEW t \in Tabs, NEW k \in tokens[t], Release(t, k)
      PROVE  [Lock!LockNext]_(Lock!lockVars)
    BY <1>6 DEF Release
<1>7. ASSUME NEW t \in Tabs, RenewCurrent(t) PROVE [Lock!LockNext]_(Lock!lockVars)
    BY <1>7 DEF RenewCurrent, MatchesCurrent, tabVars
<1>8. ASSUME NEW t \in Tabs, ReleaseCurrent(t) PROVE [Lock!LockNext]_(Lock!lockVars)
    BY <1>8 DEF ReleaseCurrent
<1>9. ASSUME NEW t \in Tabs, Close(t) PROVE [Lock!LockNext]_(Lock!lockVars)
    BY <1>9 DEF Close, dbVars
<1>. QED
    BY <1>1, <1>2, <1>3, <1>4, <1>5, <1>6, <1>7, <1>8, <1>9 DEF Next, TabStep

\* The two rows in IndexedDB implement the abstract lock the run store is
\* specified against.
THEOREM LeaseIsFencedLock == Spec => ImplementsFencedLock
<1>1. Init => Lock!LockInit
    BY DEF Init, Lock!LockInit, Live
<1>. QED
    BY <1>1, LockStep, Invariance, PTL DEF Spec, ImplementsFencedLock, Lock!LockSpec

-----------------------------------------------------------------------------
(* The recovery of runs.                                                   *)

\* A row read earlier is the stored one unless the revision has moved on.
Snapshot(r, row) ==
    /\ r \in DOMAIN runs
    /\ row.rev <= runs[r].rev
    /\ row.rev = runs[r].rev => row = runs[r]

ExecOf(t, k) == [owner |-> t, fence |-> k.fence]

CtlOK(t) ==
    /\ ctl[t].pc \in {"rebind", "working", "releasing"} => ctl[t].k \in tokens[t]
    /\ ctl[t].run \subseteq DOMAIN runs
    /\ \A r, s \in ctl[t].run : r = s
    /\ ctl[t].load # {} => ctl[t].pc \in {"rebind", "working"} /\ ctl[t].run # {}
    /\ \A r \in ctl[t].run, row \in ctl[t].load : Snapshot(r, row)
    /\ ctl[t].pc = "working" =>
          /\ \A r \in ctl[t].run : runs[r].exec = ExecOf(t, ctl[t].k)
          /\ \A row \in ctl[t].load : row.exec = ExecOf(t, ctl[t].k)

RunsAreNotShared ==
    \A t, u \in Tabs : t # u => ctl[t].run \cap ctl[u].run = {}

CtlInv == RunsAreNotShared /\ \A t \in Tabs : CtlOK(t)

TodoInv == \A t \in Tabs : rec[t].todo \subseteq DOMAIN runs

RecOK(t) ==
    /\ rec[t].k.fence <= fence
    /\ \A r, s \in rec[t].run : r = s
    /\ \A a, b \in rec[t].load : a = b
    /\ rec[t].load # {} => rec[t].pc = "sweeping"
    /\ \A r \in rec[t].run, row \in rec[t].load :
          Snapshot(r, row) /\ row.status = "running" /\ IsStale(t, rec[t].k, row)

RecInv == \A t \in Tabs : RecOK(t)

LiveFenceIsPositive == lease # NoLease => 0 < lease.fence

TokenAwaitsVerify ==
    \A t \in Tabs : rec[t].pc \notin {"list", "sweeping"} => rec[t].k = NoToken

SweepOK(t) ==
    rec[t].pc = "sweeping" /\ Verifies(t, rec[t].k) =>
        \A r \in RunningRuns :
            \/ runs[r].exec = ExecOf(t, rec[t].k)
            \/ r \in rec[t].todo
            \/ r \in rec[t].run /\ runs[r] \in rec[t].load
            \/ r \in rec[t].missed

SweepInv == LiveFenceIsPositive /\ TokenAwaitsVerify /\ \A t \in Tabs : SweepOK(t)

BaseInv == RecoveryTypeOK /\ IndInv /\ CtlInv /\ TodoInv

-----------------------------------------------------------------------------
\* Every step here is a step of the lease, or none: the controllers and the
\* recovery hand renew and release only tokens that acquire returned.
LEMMA LeaseStep == BaseInv /\ [RNext]_allVars => [Next]_vars
<1> SUFFICES ASSUME BaseInv, [RNext]_allVars PROVE [Next]_vars
    OBVIOUS
<1> USE DEF Next, TabStep
<1>1. CASE UNCHANGED allVars
    BY <1>1 DEF allVars
<1>2. CASE RTick
    BY <1>2 DEF RTick
<1>3. ASSUME NEW t \in Tabs, CtlStep(t) PROVE [Next]_vars
  <2>1. CASE CtlAcquire(t) \/ CtlAcquired(t)
      BY <2>1 DEF CtlAcquire, CtlAcquired
  <2>2. CASE CtlCreate(t) \/ CtlLoad(t) \/ CtlCommit(t) \/ CtlEnd(t)
      BY <2>2 DEF CtlCreate, CtlLoad, CtlCommit, CtlEnd
  <2>3. CASE CtlRelease(t)
      BY <2>3 DEF CtlRelease, BaseInv, CtlInv, CtlOK
  <2>4. CASE CtlRenew(t)
      BY <2>4 DEF CtlRenew, BaseInv, CtlInv, CtlOK
  <2>. QED
      BY <1>3, <2>1, <2>2, <2>3, <2>4 DEF CtlStep
<1>4. ASSUME NEW t \in Tabs, RecStep(t) PROVE [Next]_vars
  <2>1. CASE RecAcquire(t) \/ RecAcquired(t) \/ RecRelease(t)
      BY <2>1 DEF RecAcquire, RecAcquired, RecRelease
  <2>2. CASE \/ RecStart(t) \/ RecContested(t) \/ RecUnavailable(t) \/ RecWait(t)
             \/ RecWaitOver(t) \/ RecVerify(t) \/ RecList(t) \/ RecRead(t) \/ RecWrite(t)
             \/ RecFails(t)
      BY <2>2 DEF RecStart, RecContested, RecUnavailable, RecWait, RecWaitOver,
                  RecVerify, RecList, RecRead, RecWrite, RecFails
  <2>. QED
      BY <1>4, <2>1, <2>2 DEF RecStep
<1>5. ASSUME NEW t \in Tabs, RClose(t) PROVE [Next]_vars
    BY <1>5 DEF RClose
<1>. QED
    BY <1>1, <1>2, <1>3, <1>4, <1>5 DEF RNext

Kept(t, r) == runs[r].status = "running" /\ IsStale(t, rec[t].k, runs[r]) /\ Live

RecReads(t, r) ==
    rec' = IF Kept(t, r)
           THEN [rec EXCEPT ![t] = [@ EXCEPT !.todo = rec[t].todo \ {r}, !.run = {r}, !.load = {runs[r]}]]
           ELSE [rec EXCEPT ![t] = [@ EXCEPT !.todo = rec[t].todo \ {r}, !.run = {}, !.load = {}]]

\* What RecRead does to the recovery, by the two cases of the run it visits.
LEMMA RecReadIs ==
    ASSUME NEW t \in Tabs, RecRead(t)
    PROVE  \E r \in rec[t].todo : RecReads(t, r)
    BY DEF RecRead, RecReads, Kept

Written(t, missed) ==
    [rec[t] EXCEPT !.run = {}, !.load = {}, !.missed = missed]

\* What RecWrite does: the run is interrupted, or refused, or only missed.
LEMMA RecWriteIs ==
    ASSUME NEW t \in Tabs, rec \in [Tabs -> Rec], RecWrite(t)
    PROVE  \E r \in rec[t].run, row \in rec[t].load,
              missed \in SUBSET Runs :
              /\ missed = rec[t].missed \/ missed = rec[t].missed \cup {r}
              /\ rec' = [rec EXCEPT ![t] = Written(t, missed)]
              /\ \/ /\ MayInterrupt(t, r, row)
                    /\ runs' = WithRun(r, [row EXCEPT !.status = "interrupted", !.rev = @ + 1])
                 \/ ~MayInterrupt(t, r, row) /\ runs' = runs
                 \/ r \in missed /\ runs' = runs
<1>1. PICK r \in rec[t].run, row \in rec[t].load :
          \/ /\ MayInterrupt(t, r, row)
             /\ runs' = WithRun(r, [row EXCEPT !.status = "interrupted", !.rev = @ + 1])
             /\ RecSet(t, rec[t].missed)
          \/ ~MayInterrupt(t, r, row) /\ RecSet(t, rec[t].missed) /\ runs' = runs
          \/ MayInterrupt(t, r, row) /\ RecSet(t, rec[t].missed \cup {r}) /\ runs' = runs
    BY DEF RecWrite
<1>2. ASSUME NEW m, RecSet(t, m) PROVE rec' = [rec EXCEPT ![t] = Written(t, m)]
    BY <1>2 DEF RecSet, Written
<1>3. rec[t].missed \in SUBSET Runs /\ rec[t].missed \cup {r} \in SUBSET Runs
    BY <1>1 DEF Rec
<1> DEFINE outcome(missed) ==
               \/ /\ MayInterrupt(t, r, row)
                  /\ runs' = WithRun(r, [row EXCEPT !.status = "interrupted", !.rev = @ + 1])
               \/ ~MayInterrupt(t, r, row) /\ runs' = runs
               \/ r \in missed /\ runs' = runs
<1>4. CASE RecSet(t, rec[t].missed) /\ outcome(rec[t].missed)
  <2>1. rec' = [rec EXCEPT ![t] = Written(t, rec[t].missed)]
      BY <1>2, <1>4
  <2>. QED
      BY <1>3, <1>4, <2>1
<1>5. CASE RecSet(t, rec[t].missed \cup {r}) /\ outcome(rec[t].missed \cup {r})
  <2>1. rec' = [rec EXCEPT ![t] = Written(t, rec[t].missed \cup {r})]
      BY <1>2, <1>5
  <2>. QED
      BY <1>3, <1>5, <2>1
<1>. QED
    BY <1>1, <1>4, <1>5

\* What a failed read leaves of the sweep.
LEMMA RecFailsIs ==
    ASSUME NEW t \in Tabs, rec \in [Tabs -> Rec], RecFails(t)
    PROVE  /\ rec'[t] = [rec[t] EXCEPT !.pc = "sweeping", !.k = NoToken, !.todo = {}, !.missed = {}]
           /\ rec[t].pc \in {"verify", "list"} \/ rec[t].load = {}
           /\ runs' = runs /\ ctl' = ctl /\ vars' = vars
    BY DEF RecFails

\* The rows, controllers and recoveries keep their types.
LEMMA RecoveryTypeStep == BaseInv /\ [RNext]_allVars => RecoveryTypeOK'
<1> SUFFICES ASSUME BaseInv, [RNext]_allVars PROVE RecoveryTypeOK'
    OBVIOUS
<1>0. TypeOK'
    BY LeaseStep, TypeOKStep DEF BaseInv, IndInv
<1>t. NoToken \in Token
    BY DEF NoToken, Token
<1>m. Minted \in Token
    BY DEF Minted, NextFence, Token, BaseInv, IndInv, TypeOK
<1> USE <1>0, <1>t DEF BaseInv, RecoveryTypeOK
<1>1. CASE UNCHANGED allVars
    BY <1>1 DEF allVars
<1>2. CASE RTick
  <2>1. \A u \in Tabs : (IF rec[u].wait = 0 THEN 0 ELSE rec[u].wait - 1) \in Nat
      BY DEF Rec
  <2>2. rec' = [u \in Tabs |-> [rec[u] EXCEPT !.wait = IF rec[u].wait = 0 THEN 0
                                                        ELSE rec[u].wait - 1]]
      BY <1>2 DEF RTick
  <2>3. rec' \in [Tabs -> Rec]
      BY <2>1, <2>2, ZenonT(30) DEF Rec
  <2>. QED
      BY <1>2, <2>3 DEF RTick
<1>3. ASSUME NEW t \in Tabs, CtlStep(t) PROVE RecoveryTypeOK'
  <2>1. CASE CtlAcquire(t)
    <3>1. PICK shown \in {ctl[t].run, {}} :
              ctl' = [ctl EXCEPT ![t] =
                         [@ EXCEPT !.pc = "acquiring", !.k = Minted, !.run = shown]]
        BY <2>1 DEF CtlAcquire
    <3>2. shown \in SUBSET Runs
        BY DEF Ctl
    <3>3. ctl' \in [Tabs -> Ctl]
        BY <1>m, <3>1, <3>2 DEF Ctl
    <3>. QED
        BY <2>1, <3>3 DEF CtlAcquire
  <2>2. CASE CtlAcquired(t)
      BY <2>2 DEF CtlAcquired, Ctl
  <2>3. CASE CtlCreate(t)
    <3>1. ctl[t].k \in Token
        BY DEF Ctl
    <3>2. PICK r \in Runs \ DOMAIN runs :
              /\ runs' = WithRun(r, [status |-> "running", rev |-> 0, exec |-> ExecOf(t, ctl[t].k)])
              /\ ctl' = [ctl EXCEPT ![t] = [@ EXCEPT !.pc = "working", !.run = {r}]]
        BY <2>3 DEF CtlCreate, ExecOf
    <3>3. [status |-> "running", rev |-> 0, exec |-> ExecOf(t, ctl[t].k)] \in Row
        BY <3>1 DEF Row, RowStatus, Exec, ExecOf, Token
    <3>4. DOMAIN runs' \subseteq Runs /\ \A x \in DOMAIN runs' : runs'[x] \in Row
        BY <3>2, <3>3 DEF WithRun
    <3>5. ctl' \in [Tabs -> Ctl]
        BY <3>2 DEF Ctl
    <3>. QED
        BY <2>3, <3>4, <3>5 DEF CtlCreate
  <2>4. CASE CtlLoad(t)
    <3>1. PICK r \in ctl[t].run : ctl' = [ctl EXCEPT ![t].load = {runs[r]}]
        BY <2>4 DEF CtlLoad
    <3>2. runs[r] \in Row
        BY DEF CtlInv, CtlOK
    <3>3. ctl' \in [Tabs -> Ctl]
        BY <3>1, <3>2 DEF Ctl
    <3>. QED
        BY <2>4, <3>3 DEF CtlLoad
  <2>5. CASE CtlCommit(t)
    <3>1. PICK r \in ctl[t].run, row \in ctl[t].load, s \in RowStatus :
              runs' = WithRun(r, [status |-> s, rev |-> row.rev + 1,
                                  exec |-> IF ctl[t].pc = "rebind"
                                           THEN [owner |-> t, fence |-> ctl[t].k.fence]
                                           ELSE row.exec])
        BY <2>5 DEF CtlCommit
    <3>2. r \in Runs /\ row \in Row /\ ctl[t].k \in Token
        BY DEF Ctl
    <3>3. [status |-> s, rev |-> row.rev + 1,
           exec |-> IF ctl[t].pc = "rebind"
                    THEN [owner |-> t, fence |-> ctl[t].k.fence] ELSE row.exec] \in Row
        BY <3>2 DEF Row, Exec, Token
    <3>4. DOMAIN runs' \subseteq Runs /\ \A x \in DOMAIN runs' : runs'[x] \in Row
        BY <3>1, <3>2, <3>3 DEF WithRun
    <3>5. ctl' \in [Tabs -> Ctl]
        BY <2>5 DEF CtlCommit, Ctl
    <3>. QED
        BY <2>5, <3>4, <3>5 DEF CtlCommit
  <2>6. CASE CtlEnd(t)
      BY <2>6 DEF CtlEnd, Ctl
  <2>7. CASE CtlRelease(t)
      BY <2>7 DEF CtlRelease, Ctl
  <2>8. CASE CtlRenew(t)
      BY <2>8 DEF CtlRenew, recoveryVars
  <2>. QED
      BY <1>3, <2>1, <2>2, <2>3, <2>4, <2>5, <2>6, <2>7, <2>8 DEF CtlStep
<1>4. ASSUME NEW t \in Tabs, RecStep(t) PROVE RecoveryTypeOK'
  <2>d. DoneRec \in Rec
      BY DEF DoneRec, FreshRec, Rec
  <2>1. CASE RecStart(t) \/ RecAcquired(t)
      BY <2>1 DEF RecStart, RecAcquired, RecTo, Rec
  <2>2. CASE RecAcquire(t)
      BY <1>m, <2>2, ZenonT(30) DEF RecAcquire, Rec
  <2>3. CASE RecContested(t) \/ RecUnavailable(t)
    <3>1. rec[t] \in Rec /\ [rec[t] EXCEPT !.pc = "contested"] \in Rec
        BY DEF Rec
    <3>2. rec' \in [Tabs -> Rec]
        BY <2>d, <2>3, <3>1 DEF RecContested, RecUnavailable
    <3>. QED
        BY <2>3, <3>2 DEF RecContested, RecUnavailable
  <2>4. CASE RecWait(t)
    <3>1. WaitDeadline \in Nat
        BY TTLAssumption DEF WaitDeadline, Live, TypeOK, Lease
    <3>2. rec' \in [Tabs -> Rec]
        BY <2>4, <3>1, ZenonT(30) DEF RecWait, Rec
    <3>. QED
        BY <2>4, <3>2 DEF RecWait
  <2>5. CASE RecWaitOver(t)
      BY <2>5, ZenonT(30) DEF RecWaitOver, Rec
  <2>6. CASE RecVerify(t)
    <3>1. CASE VerifiesCurrent(t)
      <4>1. [leaseId |-> lease.leaseId, fence |-> lease.fence] \in Token
          BY <3>1 DEF VerifiesCurrent, Live, TypeOK, Lease, Token
      <4> DEFINE verified == [rec[t] EXCEPT !.pc = "list",
                                            !.k = [leaseId |-> lease.leaseId, fence |-> lease.fence]]
      <4>2. verified \in Rec
          BY <4>1 DEF Rec
      <4>3. rec' = [rec EXCEPT ![t] = verified]
          BY <2>6, <3>1 DEF RecVerify
      <4>4. rec' \in [Tabs -> Rec]
          BY <4>2, <4>3
      <4>. QED
          BY <2>6, <4>4 DEF RecVerify
    <3>2. CASE ~VerifiesCurrent(t)
      <4> DEFINE lost == [rec[t] EXCEPT !.pc = "sweeping"]
      <4>1. lost \in Rec
          BY DEF Rec
      <4>2. rec' = [rec EXCEPT ![t] = lost]
          BY <2>6, <3>2 DEF RecVerify
      <4>3. rec' \in [Tabs -> Rec]
          BY <4>1, <4>2
      <4>. QED
          BY <2>6, <4>3 DEF RecVerify
    <3>. QED
        BY <3>1, <3>2
  <2>7. CASE RecList(t)
    <3>1. RunningRuns \subseteq Runs
        BY DEF RunningRuns
    <3>2. rec' \in [Tabs -> Rec]
        BY <2>7, <3>1, ZenonT(30) DEF RecList, Rec
    <3>. QED
        BY <2>7, <3>2 DEF RecList
  <2>8. CASE RecRead(t)
    <3>1. PICK r \in rec[t].todo : RecReads(t, r)
        BY <2>8, RecReadIs
    <3>2. r \in Runs /\ runs[r] \in Row /\ rec[t].todo \ {r} \in SUBSET Runs
        BY DEF Rec, TodoInv
    <3>3. rec' \in [Tabs -> Rec]
      <4>1. /\ [rec[t] EXCEPT !.todo = rec[t].todo \ {r}, !.run = {r}, !.load = {runs[r]}] \in Rec
            /\ [rec[t] EXCEPT !.todo = rec[t].todo \ {r}, !.run = {}, !.load = {}] \in Rec
          BY <3>2 DEF Rec
      <4>2. CASE Kept(t, r)
          BY <3>1, <4>1, <4>2 DEF RecReads
      <4>3. CASE ~Kept(t, r)
          BY <3>1, <4>1, <4>3 DEF RecReads
      <4>. QED
          BY <4>2, <4>3
    <3>. QED
        BY <2>8, <3>3 DEF RecRead
  <2>9. CASE RecWrite(t)
    <3>1. PICK r \in rec[t].run, row \in rec[t].load,
               missed \in SUBSET Runs :
              /\ rec' = [rec EXCEPT ![t] = Written(t, missed)]
              /\ \/ runs' = WithRun(r, [row EXCEPT !.status = "interrupted", !.rev = @ + 1])
                 \/ runs' = runs
        BY <2>9, RecWriteIs
    <3>2. r \in Runs /\ row \in Row /\ missed \in SUBSET Runs
        BY DEF Rec
    <3>3. [row EXCEPT !.status = "interrupted", !.rev = @ + 1] \in Row
      <4>1. row.rev + 1 \in Nat /\ "interrupted" \in RowStatus
          BY <3>2 DEF Row, RowStatus
      <4>. QED
          BY <3>2, <4>1 DEF Row
    <3>4. DOMAIN runs' \subseteq Runs /\ \A x \in DOMAIN runs' : runs'[x] \in Row
        BY <3>1, <3>2, <3>3 DEF WithRun
    <3>5. rec' \in [Tabs -> Rec]
      <4>1. Written(t, missed) \in Rec
          BY <3>2 DEF Written, Rec
      <4>. QED
          BY <3>1, <4>1
    <3>. QED
        BY <2>9, <3>4, <3>5 DEF RecWrite
  <2>10. CASE RecRelease(t)
      BY <2>d, <2>10 DEF RecRelease
  <2>11. CASE RecFails(t)
    <3>1. [rec[t] EXCEPT !.pc = "sweeping", !.k = NoToken, !.todo = {}, !.missed = {}] \in Rec
        BY DEF Rec
    <3>2. rec' \in [Tabs -> Rec]
        BY <2>11, <3>1 DEF RecFails
    <3>. QED
        BY <2>11, <3>2 DEF RecFails
  <2>. QED
      BY <1>4, <2>1, <2>2, <2>3, <2>4, <2>5, <2>6, <2>7, <2>8, <2>9, <2>10, <2>11 DEF RecStep
<1>5. ASSUME NEW t \in Tabs, RClose(t) PROVE RecoveryTypeOK'
  <2>1. IdleCtl \in Ctl /\ DoneRec \in Rec
      BY DEF IdleCtl, Ctl, DoneRec, FreshRec, Rec
  <2>. QED
      BY <1>5, <2>1 DEF RClose
<1>. QED
    BY <1>1, <1>2, <1>3, <1>4, <1>5 DEF RNext
-----------------------------------------------------------------------------
\* The row a commit of r found and the one it wrote.
Commits(t, r) ==
    /\ CtlCommit(t) /\ r \in ctl[t].run /\ Verifies(t, ctl[t].k)
    /\ runs'[r].rev = runs[r].rev + 1
    /\ runs'[r].exec = ExecOf(t, ctl[t].k)
    /\ runs'[r].status = "running" => runs[r].status = "running"
    /\ runs'[r].status = "interrupted" => runs[r].status = "interrupted"

Interrupts(t, r) ==
    /\ RecWrite(t) /\ r \in rec[t].run /\ runs[r] \in rec[t].load
    /\ Matches(t, rec[t].k)
    /\ runs'[r] = [runs[r] EXCEPT !.status = "interrupted", !.rev = @ + 1]

Creates(t, r) ==
    /\ CtlCreate(t) /\ Verifies(t, ctl[t].k)
    /\ runs'[r].exec = ExecOf(t, ctl[t].k)

\* A commit writes the run under the fence of the command that makes it.
LEMMA CommitIs ==
    ASSUME BaseInv, NEW t \in Tabs, CtlCommit(t)
    PROVE  /\ DOMAIN runs' = DOMAIN runs
           /\ \A r \in DOMAIN runs : runs'[r] = runs[r] \/ Commits(t, r)
<1>1. PICK r \in ctl[t].run, row \in ctl[t].load, s \in RowStatus :
          /\ MayWrite(t, ctl[t].k, r, row, s)
          /\ IF ctl[t].pc = "rebind" THEN s = row.status ELSE s \in NextStatus(row.status)
          /\ runs' = WithRun(r, [status |-> s, rev |-> row.rev + 1,
                                 exec |-> IF ctl[t].pc = "rebind"
                                          THEN [owner |-> t, fence |-> ctl[t].k.fence]
                                          ELSE row.exec])
    BY DEF CtlCommit
<1>2. /\ r \in DOMAIN runs /\ row = runs[r] /\ row \in Row
      /\ ctl[t].pc \in {"rebind", "working"}
      /\ ctl[t].pc = "working" => row.exec = ExecOf(t, ctl[t].k)
    BY <1>1 DEF BaseInv, CtlInv, CtlOK, Snapshot, MayWrite, RecoveryTypeOK
<1>3. DOMAIN runs' = DOMAIN runs /\ \A x \in DOMAIN runs : x # r => runs'[x] = runs[x]
    BY <1>1, <1>2 DEF WithRun
<1>4. runs'[r] = [status |-> s, rev |-> row.rev + 1, exec |-> ExecOf(t, ctl[t].k)]
    BY <1>1, <1>2 DEF WithRun, ExecOf
<1>5. Commits(t, r)
  <2>1. s = "running" => runs[r].status = "running"
      BY <1>1, <1>2 DEF MayWrite
  <2>2. s = "interrupted" => runs[r].status = "interrupted"
      BY <1>1, <1>2 DEF NextStatus
  <2>. QED
      BY <1>1, <1>2, <1>4, <2>1, <2>2 DEF Commits, MayWrite
<1>. QED
    BY <1>3, <1>5

\* An interruption touches one stale row, if any, and keeps its fence.
LEMMA InterruptIs ==
    ASSUME BaseInv, RecInv, NEW t \in Tabs, RecWrite(t)
    PROVE  /\ DOMAIN runs' = DOMAIN runs
           /\ \A r \in DOMAIN runs : runs'[r] = runs[r] \/ Interrupts(t, r)
<1>1. PICK r \in rec[t].run, row \in rec[t].load :
          \/ /\ MayInterrupt(t, r, row)
             /\ runs' = WithRun(r, [row EXCEPT !.status = "interrupted", !.rev = @ + 1])
          \/ runs' = runs
    BY DEF RecWrite
<1>2. r \in DOMAIN runs /\ Snapshot(r, row)
    BY <1>1 DEF RecInv, RecOK, Snapshot
<1>3. CASE runs' # runs
  <2>1. row = runs[r] /\ Matches(t, rec[t].k)
      BY <1>1, <1>2, <1>3 DEF Snapshot, MayInterrupt
  <2>2. runs' = WithRun(r, [runs[r] EXCEPT !.status = "interrupted", !.rev = @ + 1])
      BY <1>1, <1>3, <2>1
  <2>3. DOMAIN runs' = DOMAIN runs /\ \A x \in DOMAIN runs : x # r => runs'[x] = runs[x]
      BY <1>2, <2>2 DEF WithRun
  <2>4. runs'[r] = [runs[r] EXCEPT !.status = "interrupted", !.rev = @ + 1]
      BY <1>2, <2>2 DEF WithRun
  <2>5. Interrupts(t, r)
      BY <1>1, <2>1, <2>4 DEF Interrupts
  <2>. QED
      BY <2>3, <2>5
<1>4. CASE runs' = runs
    BY <1>4
<1>. QED
    BY <1>3, <1>4

\* A create adds one row, under the fence of the command that makes it.
LEMMA CreateIs ==
    ASSUME BaseInv, NEW t \in Tabs, CtlCreate(t)
    PROVE  \E r \in Runs \ DOMAIN runs :
              /\ DOMAIN runs' = DOMAIN runs \cup {r}
              /\ \A x \in DOMAIN runs : runs'[x] = runs[x]
              /\ Creates(t, r)
              /\ ctl' = [ctl EXCEPT ![t] = [@ EXCEPT !.pc = "working", !.run = {r}]]
<1>1. PICK r \in Runs \ DOMAIN runs :
          /\ runs' = WithRun(r, [status |-> "running", rev |-> 0,
                                 exec |-> [owner |-> t, fence |-> ctl[t].k.fence]])
          /\ ctl' = [ctl EXCEPT ![t] = [@ EXCEPT !.pc = "working", !.run = {r}]]
    BY DEF CtlCreate
<1>2. /\ DOMAIN runs' = DOMAIN runs \cup {r}
      /\ \A x \in DOMAIN runs : runs'[x] = runs[x]
      /\ runs'[r].exec = ExecOf(t, ctl[t].k)
    BY <1>1 DEF WithRun, ExecOf
<1>. QED
    BY <1>1, <1>2 DEF Creates, CtlCreate

\* Who changes a stored run, and how.
LEMMA Writes ==
    ASSUME BaseInv, RecInv, [RNext]_allVars
    PROVE  /\ DOMAIN runs \subseteq DOMAIN runs'
           /\ \A r \in DOMAIN runs :
                 \/ runs'[r] = runs[r]
                 \/ \E t \in Tabs : Commits(t, r) \/ Interrupts(t, r)
           /\ \A r \in DOMAIN runs' \ DOMAIN runs : \E t \in Tabs : Creates(t, r)
<1>1. CASE runs' = runs
    BY <1>1
<1>2. ASSUME NEW t \in Tabs, CtlCreate(t)
      PROVE  /\ DOMAIN runs \subseteq DOMAIN runs'
             /\ \A r \in DOMAIN runs : runs'[r] = runs[r]
             /\ \A r \in DOMAIN runs' \ DOMAIN runs : Creates(t, r)
    BY <1>2, CreateIs
<1>3. ASSUME NEW t \in Tabs, CtlCommit(t)
      PROVE  /\ DOMAIN runs = DOMAIN runs'
             /\ \A r \in DOMAIN runs : runs'[r] = runs[r] \/ Commits(t, r)
    BY <1>3, CommitIs
<1>4. ASSUME NEW t \in Tabs, RecWrite(t)
      PROVE  /\ DOMAIN runs = DOMAIN runs'
             /\ \A r \in DOMAIN runs : runs'[r] = runs[r] \/ Interrupts(t, r)
    BY <1>4, InterruptIs
<1>5. \/ runs' = runs
      \/ \E t \in Tabs : CtlCreate(t) \/ CtlCommit(t) \/ RecWrite(t)
  <2>1. ASSUME NEW t \in Tabs, CtlStep(t)
        PROVE  runs' = runs \/ CtlCreate(t) \/ CtlCommit(t)
      BY <2>1 DEF CtlStep, CtlAcquire, CtlAcquired, CtlLoad, CtlEnd, CtlRelease,
                  CtlRenew, recoveryVars
  <2>2. ASSUME NEW t \in Tabs, RecStep(t)
        PROVE  runs' = runs \/ RecWrite(t)
      BY <2>2 DEF RecStep, RecStart, RecAcquire, RecContested, RecUnavailable, RecWait,
                  RecWaitOver, RecAcquired, RecVerify, RecList, RecRead, RecFails, RecRelease
  <2>. QED
      BY <2>1, <2>2 DEF RNext, allVars, RTick, RClose
<1>. QED
    BY <1>1, <1>2, <1>3, <1>4, <1>5

\* A row in hand stays a snapshot: whoever writes the run raises its revision.
LEMMA SnapshotStep ==
    ASSUME BaseInv, RecInv, [RNext]_allVars, NEW r, NEW row \in Row, Snapshot(r, row)
    PROVE  Snapshot(r, row)'
<1>1. r \in DOMAIN runs /\ runs[r] \in Row /\ r \in DOMAIN runs'
    BY Writes DEF BaseInv, RecoveryTypeOK, Snapshot
<1>2. runs'[r] = runs[r] \/ runs'[r].rev = runs[r].rev + 1
    BY <1>1, Writes DEF Commits, Interrupts, Row
<1>. QED
    BY <1>1, <1>2 DEF Snapshot, Row

-----------------------------------------------------------------------------
\* What a step leaves alone in a controller that does not move.
LEMMA IdleController ==
    ASSUME BaseInv, RecInv, [RNext]_allVars, NEW u \in Tabs,
           ctl'[u] = ctl[u], tokens[u] \subseteq tokens'[u],
           \A r \in ctl[u].run : runs'[r].exec = runs[r].exec
    PROVE  CtlOK(u)'
<1>1. CtlOK(u) /\ ctl[u].load \subseteq Row
    BY DEF BaseInv, CtlInv, RecoveryTypeOK, Ctl
<1>2. ctl[u].run \subseteq DOMAIN runs'
    BY <1>1, Writes DEF CtlOK
<1>3. \A r \in ctl[u].run, row \in ctl[u].load : Snapshot(r, row)'
    BY <1>1, SnapshotStep DEF CtlOK
<1>4. \A r \in ctl[u].run : runs'[r].exec = runs[r].exec
    OBVIOUS
<1>5. ctl[u].pc \in {"rebind", "working", "releasing"} => ctl[u].k \in tokens'[u]
    BY <1>1 DEF CtlOK
<1>6. ctl'[u] = ctl[u]
    OBVIOUS
<1>. QED
    BY <1>1, <1>2, <1>3, <1>4, <1>5, <1>6 DEF CtlOK, ExecOf

\* Only a commit of the controller that shows a run moves the run's fence.
LEMMA OthersKeepExec ==
    ASSUME BaseInv, RecInv, [RNext]_allVars, NEW u \in Tabs, ~CtlCommit(u)
    PROVE  \A r \in ctl[u].run : runs'[r].exec = runs[r].exec
<1> SUFFICES ASSUME NEW r \in ctl[u].run PROVE runs'[r].exec = runs[r].exec
    OBVIOUS
<1>1. r \in DOMAIN runs /\ runs[r] \in Row
    BY DEF BaseInv, CtlInv, CtlOK, RecoveryTypeOK
<1>2. ASSUME NEW t \in Tabs, Commits(t, r) PROVE FALSE
    BY <1>2 DEF Commits, BaseInv, CtlInv, RunsAreNotShared
<1>3. ASSUME NEW t \in Tabs, Interrupts(t, r) PROVE runs'[r].exec = runs[r].exec
    BY <1>1, <1>3 DEF Interrupts, Row
<1>. QED
    BY <1>1, <1>2, <1>3, Writes

\* Tokens are only forgotten by closing the tab.
LEMMA TokensKept ==
    ASSUME BaseInv, [RNext]_allVars, NEW u \in Tabs, ~RClose(u)
    PROVE  tokens[u] \subseteq tokens'[u]
<1>0. tokens \in [Tabs -> SUBSET Token]
    BY DEF BaseInv, IndInv, TypeOK
<1>1. ASSUME NEW t \in Tabs, CtlStep(t) PROVE tokens[u] \subseteq tokens'[u]
  <2>1. CASE AcquireReturn(t)
      BY <1>0, <2>1 DEF AcquireReturn
  <2>2. CASE ~AcquireReturn(t)
      BY <1>1, <2>2 DEF CtlStep, CtlAcquire, AcquireTx, CtlAcquired, CtlCreate, CtlLoad, CtlCommit,
                        CtlEnd, CtlRelease, Release, CtlRenew, Renew, vars, tabVars
  <2>. QED
      BY <2>1, <2>2
<1>2. ASSUME NEW t \in Tabs, RecStep(t) PROVE tokens[u] \subseteq tokens'[u]
  <2>1. CASE AcquireReturn(t)
      BY <1>0, <2>1 DEF AcquireReturn
  <2>2. CASE ~AcquireReturn(t)
      BY <1>2, <2>2 DEF RecStep, RecStart, RecAcquire, AcquireTx, RecContested, RecUnavailable,
                        RecWait, RecWaitOver, RecAcquired, RecVerify, RecList, RecRead, RecWrite,
                        RecFails, RecRelease, ReleaseCurrent, vars
  <2>. QED
      BY <2>1, <2>2
<1>3. ASSUME NEW t \in Tabs, RClose(t), t # u PROVE tokens[u] \subseteq tokens'[u]
    BY <1>0, <1>3 DEF RClose, Close
<1>4. CASE RTick \/ UNCHANGED allVars
    BY <1>4 DEF RTick, Tick, tabVars, allVars, vars
<1>. QED
    BY <1>1, <1>2, <1>3, <1>4 DEF RNext

\* A controller past its rebind finds the run under its own fence, and what
\* it has read is current or will be refused.
LEMMA CtlInvStep == BaseInv /\ RecInv /\ [RNext]_allVars => CtlInv'
<1> SUFFICES ASSUME BaseInv, RecInv, [RNext]_allVars PROVE CtlInv'
    OBVIOUS
<1>0. /\ \A u \in Tabs : CtlOK(u) /\ ctl[u] \in Ctl
      /\ ctl \in [Tabs -> Ctl]
      /\ RunsAreNotShared
    BY DEF BaseInv, CtlInv, RecoveryTypeOK
<1>1. CASE ctl' = ctl /\ \A u \in Tabs : ~CtlStep(u) /\ ~RClose(u)
  <2>1. \A u \in Tabs : ~CtlCommit(u) /\ ~RClose(u)
      BY <1>1 DEF CtlStep
  <2>2. \A u \in Tabs : CtlOK(u)'
      BY <1>1, <2>1, IdleController, OthersKeepExec, TokensKept
  <2>. QED
      BY <1>0, <1>1, <2>2 DEF CtlInv, RunsAreNotShared
<1>2. ASSUME NEW t \in Tabs, CtlStep(t) PROVE CtlInv'
  <2>1. ctl'[t] \in Ctl /\ \A u \in Tabs \ {t} : ctl'[u] = ctl[u]
    <3>1. \A u \in Tabs \ {t} : ctl'[u] = ctl[u]
        BY <1>0, <1>2 DEF CtlStep, CtlAcquire, CtlAcquired, CtlCreate, CtlLoad, CtlCommit,
                          CtlEnd, CtlRelease, CtlRenew, recoveryVars
    <3>. QED
        BY <3>1, RecoveryTypeStep DEF RecoveryTypeOK
  <2>2. \A u \in Tabs : tokens[u] \subseteq tokens'[u]
    <3>1. tokens \in [Tabs -> SUBSET Token]
        BY DEF BaseInv, IndInv, TypeOK
    <3>2. CASE AcquireReturn(t)
        BY <3>1, <3>2 DEF AcquireReturn
    <3>3. CASE ~AcquireReturn(t)
        BY <1>2, <3>3 DEF CtlStep, CtlAcquire, AcquireTx, CtlAcquired, CtlCreate, CtlLoad,
                          CtlCommit, CtlEnd, CtlRelease, Release, CtlRenew, Renew, vars, tabVars
    <3>. QED
        BY <3>2, <3>3
  <2>3. ASSUME \A r \in ctl'[t].run : r \in ctl[t].run PROVE RunsAreNotShared'
      BY <1>0, <2>1, <2>3 DEF RunsAreNotShared
  <2>4. ASSUME NEW u \in Tabs \ {t}, \A r \in ctl[u].run : runs'[r].exec = runs[r].exec
        PROVE  CtlOK(u)'
      BY <2>1, <2>2, <2>4, IdleController
  <2>5. CASE CtlCommit(t)
    <3>1. /\ ctl'[t] = [ctl[t] EXCEPT !.pc = "working", !.load = {}]
          /\ tokens' = tokens
          /\ ctl[t].pc \in {"rebind", "working"}
        BY <1>0, <2>5 DEF CtlCommit, vars, CtlOK
    <3>2. /\ ctl'[t].pc = "working" /\ ctl'[t].load = {} /\ ctl'[t].run = ctl[t].run
          /\ ctl'[t].k = ctl[t].k
        BY <1>0, <3>1 DEF Ctl
    <3>3. \A u \in Tabs \ {t} : \A r \in ctl[u].run : runs'[r].exec = runs[r].exec
      <4> SUFFICES ASSUME NEW u \in Tabs \ {t}, NEW r \in ctl[u].run
                   PROVE  runs'[r].exec = runs[r].exec
          OBVIOUS
      <4>1. r \in DOMAIN runs /\ r \notin ctl[t].run
          BY <1>0 DEF RunsAreNotShared, CtlOK
      <4>. QED
          BY <2>5, <4>1, CommitIs DEF Commits
    <3>4. \A r \in ctl[t].run : runs'[r].exec = ExecOf(t, ctl[t].k)
      <4>1. PICK r \in ctl[t].run, row \in ctl[t].load, s \in RowStatus :
                /\ MayWrite(t, ctl[t].k, r, row, s)
                /\ runs' = WithRun(r, [status |-> s, rev |-> row.rev + 1,
                                       exec |-> IF ctl[t].pc = "rebind"
                                                THEN [owner |-> t, fence |-> ctl[t].k.fence]
                                                ELSE row.exec])
          BY <2>5 DEF CtlCommit
      <4>2. /\ \A x \in ctl[t].run : x = r
            /\ ctl[t].pc = "working" => row.exec = ExecOf(t, ctl[t].k)
          BY <1>0 DEF CtlOK
      <4>. QED
          BY <3>1, <4>1, <4>2 DEF WithRun, ExecOf
    <3>5. CtlOK(t)'
      <4>1. ctl[t].run \subseteq DOMAIN runs' /\ ctl[t].k \in tokens'[t]
          BY <1>0, <3>1, <2>5, CommitIs DEF CtlOK
      <4>. QED
          BY <1>0, <3>2, <3>4, <4>1 DEF CtlOK, ExecOf
    <3>. QED
        BY <2>3, <2>4, <3>2, <3>3, <3>5 DEF CtlInv
  <2>6. CASE CtlCreate(t)
    <3>1. PICK r \in Runs \ DOMAIN runs :
              /\ DOMAIN runs' = DOMAIN runs \cup {r}
              /\ \A x \in DOMAIN runs : runs'[x] = runs[x]
              /\ Creates(t, r)
              /\ ctl' = [ctl EXCEPT ![t] = [@ EXCEPT !.pc = "working", !.run = {r}]]
        BY <2>6, CreateIs
    <3>2. /\ ctl'[t].pc = "working" /\ ctl'[t].run = {r} /\ ctl'[t].load = ctl[t].load
          /\ ctl'[t].k = ctl[t].k
        BY <1>0, <3>1 DEF Ctl
    <3>3. ctl[t].load = {} /\ ctl[t].k \in tokens'[t]
        BY <1>0, <2>2, <2>6 DEF CtlCreate, CtlOK
    <3>4. CtlOK(t)'
        BY <3>1, <3>2, <3>3 DEF CtlOK, Creates, ExecOf
    <3>5. RunsAreNotShared'
      <4>1. \A u \in Tabs \ {t} : r \notin ctl[u].run
          BY <1>0, <3>1 DEF CtlOK
      <4>. QED
          BY <1>0, <2>1, <3>2, <4>1 DEF RunsAreNotShared
    <3>6. \A u \in Tabs \ {t} : \A x \in ctl[u].run : runs'[x].exec = runs[x].exec
        BY <1>0, <3>1 DEF CtlOK
    <3>. QED
        BY <2>4, <3>4, <3>5, <3>6 DEF CtlInv
  <2>7. CASE ~CtlCommit(t) /\ ~CtlCreate(t)
    <3>0. runs' = runs
        BY <1>2, <2>7 DEF CtlStep, CtlAcquire, CtlAcquired, CtlLoad, CtlEnd, CtlRelease,
                          CtlRenew, recoveryVars
    <3>1. CtlOK(t)' /\ \A r \in ctl'[t].run : r \in ctl[t].run
      <4>1. CASE CtlAcquire(t)
        <5>1. PICK shown \in {ctl[t].run, {}} :
                  ctl' = [ctl EXCEPT ![t] =
                             [@ EXCEPT !.pc = "acquiring", !.k = Minted, !.run = shown]]
            BY <4>1 DEF CtlAcquire
        <5>2. /\ ctl'[t].pc = "acquiring" /\ ctl'[t].run \subseteq ctl[t].run
              /\ ctl'[t].load = {}
            BY <1>0, <4>1, <5>1 DEF CtlAcquire, Ctl, CtlOK
        <5>. QED
            BY <1>0, <3>0, <5>2 DEF CtlOK
      <4>2. CASE CtlAcquired(t)
        <5>1. /\ ctl'[t].pc = "rebind" /\ ctl'[t].run = ctl[t].run
              /\ ctl'[t].load = {} /\ ctl'[t].k = ctl[t].k /\ ctl[t].k \in tokens'[t]
            BY <1>0, <4>2 DEF CtlAcquired, Ctl, CtlOK
        <5>. QED
            BY <1>0, <3>0, <5>1 DEF CtlOK
      <4>3. CASE CtlLoad(t)
        <5>1. PICK r \in ctl[t].run : ctl' = [ctl EXCEPT ![t].load = {runs[r]}]
            BY <4>3 DEF CtlLoad
        <5>2. /\ ctl'[t].pc = ctl[t].pc /\ ctl'[t].run = ctl[t].run
              /\ ctl'[t].load = {runs[r]} /\ ctl'[t].k = ctl[t].k
              /\ ctl[t].pc \in {"rebind", "working"}
            BY <1>0, <4>3, <5>1 DEF CtlLoad, Ctl
        <5>3. runs[r] \in Row /\ \A x \in ctl[t].run : x = r /\ x \in DOMAIN runs
            BY <1>0, <5>1 DEF CtlOK, BaseInv, RecoveryTypeOK
        <5>4. \A x \in ctl[t].run : Snapshot(x, runs[r])'
            BY <3>0, <5>3 DEF Snapshot, Row
        <5>. QED
            BY <1>0, <2>2, <3>0, <5>2, <5>3, <5>4 DEF CtlOK, ExecOf
      <4>4. CASE CtlEnd(t)
        <5>1. /\ ctl'[t].pc = "releasing" /\ ctl'[t].run = ctl[t].run
              /\ ctl'[t].load = {} /\ ctl'[t].k = ctl[t].k /\ ctl[t].k \in tokens'[t]
            BY <1>0, <2>2, <4>4 DEF CtlEnd, Ctl, CtlOK
        <5>. QED
            BY <1>0, <3>0, <5>1 DEF CtlOK
      <4>5. CASE CtlRelease(t)
        <5>1. ctl'[t].pc = "idle" /\ ctl'[t].run = ctl[t].run /\ ctl'[t].load = {}
            BY <1>0, <4>5 DEF CtlRelease, Ctl, CtlOK
        <5>. QED
            BY <1>0, <3>0, <5>1 DEF CtlOK
      <4>6. CASE CtlRenew(t)
        <5>1. ctl'[t] = ctl[t]
            BY <4>6 DEF CtlRenew, recoveryVars
        <5>. QED
            BY <2>2, <3>0, <5>1, IdleController
      <4>. QED
          BY <1>2, <2>7, <4>1, <4>2, <4>3, <4>4, <4>5, <4>6 DEF CtlStep
    <3>. QED
        BY <2>3, <2>4, <3>0, <3>1 DEF CtlInv
  <2>. QED
      BY <2>5, <2>6, <2>7
<1>3. ASSUME NEW t \in Tabs, RClose(t) PROVE CtlInv'
  <2>1. /\ ctl'[t] = IdleCtl /\ runs' = runs
        /\ \A u \in Tabs \ {t} : ctl'[u] = ctl[u] /\ tokens'[u] = tokens[u]
      BY <1>0, <1>3 DEF RClose, Close, BaseInv, IndInv, TypeOK
  <2>2. CtlOK(t)'
      BY <2>1 DEF CtlOK, IdleCtl
  <2>3. \A u \in Tabs \ {t} : CtlOK(u)'
      BY <2>1, IdleController
  <2>4. RunsAreNotShared'
      BY <1>0, <2>1 DEF RunsAreNotShared, IdleCtl
  <2>. QED
      BY <2>2, <2>3, <2>4 DEF CtlInv
<1>4. \/ ctl' = ctl /\ \A u \in Tabs : ~CtlStep(u) /\ ~RClose(u)
      \/ \E t \in Tabs : CtlStep(t) \/ RClose(t)
    BY DEF RNext, RTick, allVars, RecStep, RecStart, RecAcquire, RecContested, RecUnavailable,
           RecWait, RecWaitOver, RecAcquired, RecVerify, RecList, RecRead, RecWrite, RecSet, RecFails, RecRelease
<1>. QED
    BY <1>1, <1>2, <1>3, <1>4
-----------------------------------------------------------------------------
\* A recovery that does not move keeps its list and what it has in hand.
LEMMA IdleRecovery ==
    ASSUME BaseInv, RecInv, [RNext]_allVars, NEW u \in Tabs,
           rec'[u].todo = rec[u].todo, rec'[u].k = rec[u].k, rec'[u].run = rec[u].run,
           rec'[u].load = rec[u].load, rec'[u].pc = rec[u].pc
    PROVE  RecOK(u)' /\ rec'[u].todo \subseteq DOMAIN runs'
<1>1. RecOK(u) /\ rec[u] \in Rec /\ rec[u].todo \subseteq DOMAIN runs
    BY DEF RecInv, BaseInv, RecoveryTypeOK, TodoInv
<1>2. fence <= fence' /\ fence \in Nat /\ fence' \in Nat /\ rec[u].k.fence \in Nat
  <2>1. fence \in Nat /\ fence' \in Nat /\ rec[u].k.fence \in Nat
      BY <1>1, RecoveryTypeStep DEF BaseInv, IndInv, RecoveryTypeOK, TypeOK, Rec, Token
  <2>2. fence' = fence \/ fence' = fence + 1
      BY LeaseStep DEF Next, TabStep, Tick, AcquireTx, NextFence, AcquireReturn, Renew, Release,
                       RenewCurrent, ReleaseCurrent, Close, vars, dbVars
  <2>. QED
      BY <2>1, <2>2
<1>3. \A r \in rec[u].run, row \in rec[u].load : Snapshot(r, row)'
  <2>1. rec[u].load \subseteq Row
      BY <1>1 DEF Rec
  <2>. QED
      BY <1>1, <2>1, SnapshotStep DEF RecOK
<1>4. rec[u].todo \subseteq DOMAIN runs'
    BY <1>1, Writes
<1>. QED
    BY <1>1, <1>2, <1>3, <1>4 DEF RecOK, IsStale

\* What a recovery has in hand was stale when read, and is current or will be
\* refused.
LEMMA RecInvStep == BaseInv /\ RecInv /\ [RNext]_allVars => RecInv' /\ TodoInv'
<1> SUFFICES ASSUME BaseInv, RecInv, [RNext]_allVars
             PROVE  \A u \in Tabs : RecOK(u)' /\ rec'[u].todo \subseteq DOMAIN runs'
    BY DEF RecInv, TodoInv
<1>0. /\ rec \in [Tabs -> Rec] /\ rec' \in [Tabs -> Rec]
      /\ \A u \in Tabs : RecOK(u) /\ rec[u].todo \subseteq DOMAIN runs
      /\ fence \in Nat
    BY RecoveryTypeStep DEF RecInv, BaseInv, RecoveryTypeOK, TodoInv, IndInv, TypeOK
<1>d. ASSUME NEW t \in Tabs, rec'[t] = DoneRec, fence' = fence
      PROVE  RecOK(t)' /\ rec'[t].todo \subseteq DOMAIN runs'
    BY <1>0, <1>d DEF DoneRec, FreshRec, RecOK, NoToken
<1>1. CASE rec' = rec
    BY <1>1, IdleRecovery
<1>2. CASE RTick
  <2>1. \A u \in Tabs : /\ rec'[u].todo = rec[u].todo /\ rec'[u].k = rec[u].k
                        /\ rec'[u].run = rec[u].run /\ rec'[u].load = rec[u].load
                        /\ rec'[u].pc = rec[u].pc
      BY <1>0, <1>2 DEF RTick, Rec
  <2>. QED
      BY <2>1, IdleRecovery
<1>3. ASSUME NEW t \in Tabs, RecStep(t)
      PROVE  \A u \in Tabs : RecOK(u)' /\ rec'[u].todo \subseteq DOMAIN runs'
  <2>1. \A u \in Tabs \ {t} : rec'[u] = rec[u]
      BY <1>0, <1>3 DEF RecStep, RecStart, RecAcquire, RecContested, RecUnavailable, RecWait, RecTo,
                        RecWaitOver, RecAcquired, RecVerify, RecList, RecRead, RecWrite, RecSet, RecFails, RecRelease
  <2>2. \A u \in Tabs \ {t} : RecOK(u)' /\ rec'[u].todo \subseteq DOMAIN runs'
      BY <2>1, IdleRecovery
  <2>3. RecOK(t)' /\ rec'[t].todo \subseteq DOMAIN runs'
    <3>1. CASE RecStart(t) \/ RecAcquired(t) \/ RecAcquire(t) \/ RecWait(t) \/ RecWaitOver(t)
      <4>1. /\ rec'[t].todo = rec[t].todo /\ rec'[t].k = rec[t].k
            /\ rec'[t].run = rec[t].run /\ rec'[t].load = rec[t].load
            /\ rec[t].pc # "sweeping" /\ rec'[t].pc # "sweeping"
        <5>1. CASE RecStart(t)
            BY <1>0, <5>1 DEF RecStart, RecTo, Rec
        <5>2. CASE RecAcquired(t)
            BY <1>0, <5>2 DEF RecAcquired, RecTo, Rec
        <5>3. CASE RecAcquire(t)
            BY <1>0, <5>3 DEF RecAcquire, Rec
        <5>4. CASE RecWait(t)
            BY <1>0, <5>4 DEF RecWait, Rec
        <5>5. CASE RecWaitOver(t)
            BY <1>0, <5>5 DEF RecWaitOver, Rec
        <5>. QED
            BY <3>1, <5>1, <5>2, <5>3, <5>4, <5>5
      <4>2. rec[t].load = {}
          BY <1>0, <4>1 DEF RecOK
      <4>3. fence <= fence' /\ fence' \in Nat /\ rec[t].k.fence \in Nat
        <5>1. fence' \in Nat /\ rec[t].k.fence \in Nat
            BY <1>0, RecoveryTypeStep DEF RecoveryTypeOK, TypeOK, Rec, Token
        <5>2. fence' = fence \/ fence' = fence + 1
            BY LeaseStep DEF Next, TabStep, Tick, AcquireTx, NextFence, AcquireReturn, Renew, Release,
                             RenewCurrent, ReleaseCurrent, Close, vars, dbVars
        <5>. QED
            BY <1>0, <5>1, <5>2
      <4>4. rec'[t].todo \subseteq DOMAIN runs'
          BY <1>0, <4>1, Writes
      <4>. QED
          BY <1>0, <4>1, <4>2, <4>3, <4>4 DEF RecOK
    <3>2. CASE RecContested(t) \/ RecUnavailable(t)
      <4>1. CASE rec'[t] = DoneRec
          BY <1>d, <3>2, <4>1 DEF RecContested, RecUnavailable, vars
      <4>2. CASE rec'[t] # DoneRec
        <5>1. rec[t].pc = "acquire" /\ rec'[t] = [rec[t] EXCEPT !.pc = "contested"]
            BY <1>0, <3>2, <4>2 DEF RecContested, RecUnavailable
        <5>2. /\ rec'[t].todo = rec[t].todo /\ rec'[t].k = rec[t].k /\ rec'[t].run = rec[t].run
              /\ rec'[t].load = {}
            BY <1>0, <5>1 DEF Rec, RecOK
        <5>. QED
            BY <1>0, <3>2, <5>2 DEF RecContested, RecUnavailable, vars, RecOK
      <4>. QED
          BY <4>1, <4>2
    <3>3. CASE RecVerify(t)
      <4>1. rec[t].load = {}
          BY <1>0, <3>3 DEF RecVerify, RecOK
      <4>2. /\ rec'[t].todo = rec[t].todo /\ rec'[t].run = rec[t].run /\ rec'[t].load = {}
            /\ \/ rec'[t].k = rec[t].k
               \/ VerifiesCurrent(t) /\ rec'[t].k = [leaseId |-> lease.leaseId, fence |-> lease.fence]
        <5>1. CASE VerifiesCurrent(t)
            BY <1>0, <3>3, <4>1, <5>1 DEF RecVerify, Rec
        <5>2. CASE ~VerifiesCurrent(t)
            BY <1>0, <3>3, <4>1, <5>2 DEF RecVerify, Rec
        <5>. QED
            BY <5>1, <5>2
      <4>3. rec'[t].k.fence <= fence'
          BY <1>0, <3>3, <4>2 DEF RecVerify, vars, RecOK, VerifiesCurrent, Live, BaseInv, IndInv,
                                  RowIsNewest
      <4>. QED
          BY <1>0, <3>3, <4>2, <4>3 DEF RecVerify, vars, RecOK
    <3>4. CASE RecList(t)
      <4>1. /\ rec'[t].todo = RunningRuns /\ rec'[t].run = rec[t].run /\ rec'[t].k = rec[t].k
            /\ rec'[t].load = {}
          BY <1>0, <3>4 DEF RecList, Rec, RecOK
      <4>. QED
          BY <1>0, <3>4, <4>1 DEF RecList, vars, RecOK, RunningRuns
    <3>5. CASE RecRead(t)
      <4>1. PICK r \in rec[t].todo : RecReads(t, r)
          BY <3>5, RecReadIs
      <4>2. r \in DOMAIN runs /\ runs[r] \in Row
          BY <1>0 DEF BaseInv, RecoveryTypeOK
      <4>3. CASE Kept(t, r)
        <5>1. /\ rec'[t].todo \subseteq rec[t].todo /\ rec'[t].run = {r} /\ rec'[t].k = rec[t].k
              /\ rec'[t].load = {runs[r]} /\ rec'[t].pc = rec[t].pc
            BY <1>0, <4>1, <4>3 DEF RecReads, Rec
        <5>2. runs' = runs /\ fence' = fence /\ rec[t].pc = "sweeping"
            BY <3>5 DEF RecRead, vars
        <5>. QED
            BY <1>0, <4>2, <4>3, <5>1, <5>2 DEF Kept, RecOK, Snapshot, Row, IsStale
      <4>4. CASE ~Kept(t, r)
        <5>1. /\ rec'[t].todo \subseteq rec[t].todo /\ rec'[t].run = {} /\ rec'[t].k = rec[t].k
              /\ rec'[t].load = {}
            BY <1>0, <4>1, <4>4 DEF RecReads, Rec
        <5>. QED
            BY <1>0, <3>5, <5>1 DEF RecRead, vars, RecOK
      <4>. QED
          BY <4>3, <4>4
    <3>6. CASE RecWrite(t)
      <4>1. /\ rec'[t].todo = rec[t].todo /\ rec'[t].run = {} /\ rec'[t].k = rec[t].k
            /\ rec'[t].load = {}
        <5>1. PICK missed : rec' = [rec EXCEPT ![t] = Written(t, missed)]
            BY <1>0, <3>6, RecWriteIs
        <5>. QED
            BY <1>0, <5>1 DEF Written, Rec
      <4>2. rec[t].todo \subseteq DOMAIN runs'
          BY <1>0, Writes
      <4>. QED
          BY <1>0, <3>6, <4>1, <4>2 DEF RecWrite, vars, RecOK
    <3>7. CASE RecRelease(t)
      <4>1. rec'[t] = DoneRec /\ fence' = fence
          BY <1>0, <3>7 DEF RecRelease, ReleaseCurrent, vars
      <4>. QED
          BY <1>d, <4>1
    <3>8. CASE RecFails(t)
      <4>1. /\ rec'[t].todo = {} /\ rec'[t].k = NoToken /\ rec'[t].run = rec[t].run
            /\ rec'[t].load = rec[t].load /\ fence' = fence
        <5>1. rec'[t] = [rec[t] EXCEPT !.pc = "sweeping", !.k = NoToken, !.todo = {}, !.missed = {}]
            BY <1>0, <3>8, RecFailsIs
        <5>2. fence' = fence
            BY <3>8 DEF RecFails, vars
        <5>. QED
            BY <1>0, <5>1, <5>2 DEF Rec
      <4>2. rec[t].load = {}
          BY <1>0, <3>8, RecFailsIs DEF RecOK
      <4>. QED
          BY <1>0, <4>1, <4>2 DEF RecOK, NoToken
    <3>. QED
        BY <1>3, <3>1, <3>2, <3>3, <3>4, <3>5, <3>6, <3>7, <3>8 DEF RecStep
  <2>. QED
      BY <2>2, <2>3
<1>4. ASSUME NEW t \in Tabs, RClose(t)
      PROVE  \A u \in Tabs : RecOK(u)' /\ rec'[u].todo \subseteq DOMAIN runs'
  <2>1. rec'[t] = DoneRec /\ fence' = fence /\ \A u \in Tabs \ {t} : rec'[u] = rec[u]
      BY <1>0, <1>4 DEF RClose, Close, dbVars
  <2>. QED
      BY <1>d, <2>1, IdleRecovery
<1>5. rec' = rec \/ RTick \/ \E t \in Tabs : RecStep(t) \/ RClose(t)
    BY DEF RNext, allVars, CtlStep, CtlAcquire, CtlAcquired, CtlCreate, CtlLoad, CtlCommit,
           CtlEnd, CtlRelease, CtlRenew, recoveryVars
<1>. QED
    BY <1>1, <1>2, <1>3, <1>4, <1>5

-----------------------------------------------------------------------------
\* Base and recovery invariants together are inductive.
LEMMA CoreStep == BaseInv /\ RecInv /\ [RNext]_allVars => BaseInv' /\ RecInv'
<1> SUFFICES ASSUME BaseInv, RecInv, [RNext]_allVars PROVE BaseInv' /\ RecInv'
    OBVIOUS
<1>1. IndInv'
    BY LeaseStep, IndInvStep DEF BaseInv
<1>. QED
    BY <1>1, RecoveryTypeStep, CtlInvStep, RecInvStep DEF BaseInv

\* The base and recovery invariants hold at the start.
LEMMA CoreInit == RInit => BaseInv /\ RecInv
<1> SUFFICES ASSUME RInit PROVE BaseInv /\ RecInv
    OBVIOUS
<1>1. IndInv
  <2>1. TypeOK
      BY DEF RInit, Init, TypeOK, Token, Lease
  <2>. QED
      BY <2>1 DEF RInit, Init, IndInv, MintedWithFence, RowIsNewest, TokensAreMinted,
                  OneFencePerAcquisition, Issued
<1>2. IdleCtl \in Ctl /\ FreshRec \in Rec
    BY DEF IdleCtl, FreshRec, Ctl, Rec, NoToken, Token
<1>3. RecoveryTypeOK
    BY <1>1, <1>2 DEF RInit, RecoveryTypeOK, IndInv
<1>4. CtlInv /\ TodoInv
    BY DEF RInit, CtlInv, CtlOK, RunsAreNotShared, TodoInv, IdleCtl, FreshRec
<1>5. RecInv
  <2> SUFFICES ASSUME NEW t \in Tabs PROVE RecOK(t)
      BY DEF RecInv
  <2>1. /\ rec[t].k.fence = 0 /\ rec[t].run = {} /\ rec[t].load = {}
        /\ fence = 0
      BY DEF RInit, Init, FreshRec, NoToken
  <2>. QED
      BY <2>1 DEF RecOK
<1>. QED
    BY <1>1, <1>3, <1>4, <1>5 DEF BaseInv

\* The inductive invariant of the recovery holds in every reachable state: what
\* a controller or a sweep has read is current, or its write will be refused.
THEOREM RecoveryInvariance == RSpec => [](BaseInv /\ RecInv)
    BY CoreInit, CoreStep, PTL DEF RSpec

\* The rows, controllers and recoveries are well-typed in every reachable state.
THEOREM RecoveryTypeCorrect == RSpec => []RecoveryTypeOK
<1>1. BaseInv => RecoveryTypeOK
    BY DEF BaseInv
<1>. QED
    BY <1>1, RecoveryInvariance, PTL

\* No sweep ever interrupts a run of the current lease holder.
THEOREM LiveRunsAreSpared == RSpec => SweepSparesLiveRun
<1>1. ASSUME BaseInv, RecInv, [RNext]_allVars, NEW r \in DOMAIN runs,
             runs[r].status = "running", runs'[r].status = "interrupted"
      PROVE  ~OwnsLease(runs[r].exec)
  <2>1. PICK t \in Tabs : Interrupts(t, r)
      BY <1>1, Writes DEF Commits
  <2>2. IsStale(t, rec[t].k, runs[r]) /\ Matches(t, rec[t].k)
      BY <1>1, <2>1 DEF Interrupts, RecInv, RecOK
  <2>. QED
      BY <2>2 DEF IsStale, Matches, OwnsLease
<1>2. BaseInv /\ RecInv /\ [RNext]_allVars
        => [\A r \in DOMAIN runs :
              runs[r].status = "running" /\ runs'[r].status = "interrupted"
                 => ~OwnsLease(runs[r].exec)]_allVars
    BY <1>1
<1>. QED
    BY <1>2, RecoveryInvariance, PTL DEF RSpec, SweepSparesLiveRun

\* A superseded tab commits nothing: whatever a controller writes carries the
\* highest fence there is.
THEOREM LatestFenceCommits == RSpec => OnlyLatestFenceCommits
<1>1. ASSUME BaseInv, RecInv, RNext, NEW r \in DOMAIN runs'
      PROVE  \/ r \in DOMAIN runs /\ runs'[r] = runs[r]
             \/ runs'[r].status = "interrupted"
             \/ runs'[r].exec.fence = fence
  <2>0. ASSUME NEW t \in Tabs, Verifies(t, ctl[t].k) PROVE ExecOf(t, ctl[t].k).fence = fence
      BY <1>1, <2>0 DEF Verifies, Matches, ExecOf, BaseInv, IndInv, RowIsNewest
  <2>1. CASE r \notin DOMAIN runs
      BY <1>1, <2>0, <2>1, Writes DEF Creates
  <2>2. ASSUME r \in DOMAIN runs, NEW t \in Tabs, Commits(t, r)
        PROVE  runs'[r].exec.fence = fence
      BY <2>0, <2>2 DEF Commits
  <2>3. ASSUME r \in DOMAIN runs, NEW t \in Tabs, Interrupts(t, r)
        PROVE  runs'[r].status = "interrupted"
      BY <1>1, <2>3 DEF Interrupts, BaseInv, RecoveryTypeOK, Row
  <2>. QED
      BY <1>1, <2>1, <2>2, <2>3, Writes
<1>2. BaseInv /\ RecInv /\ [RNext]_allVars
        => [\A r \in DOMAIN runs' :
              \/ r \in DOMAIN runs /\ runs'[r] = runs[r]
              \/ runs'[r].status = "interrupted"
              \/ runs'[r].exec.fence = fence]_allVars
    BY <1>1
<1>. QED
    BY <1>2, RecoveryInvariance, PTL DEF RSpec, OnlyLatestFenceCommits
-----------------------------------------------------------------------------
\* How a step moves the recovery of tab u.
LEMMA RecoveryMoves ==
    ASSUME BaseInv, [RNext]_allVars, NEW u \in Tabs
    PROVE  rec'[u] = rec[u] \/ RTick \/ rec'[u] = DoneRec \/ RecStep(u)
<1>0. rec \in [Tabs -> Rec]
    BY DEF BaseInv, RecoveryTypeOK
<1>1. ASSUME NEW t \in Tabs, CtlStep(t) PROVE rec' = rec
    BY <1>1 DEF CtlStep, CtlAcquire, CtlAcquired, CtlCreate, CtlLoad, CtlCommit, CtlEnd,
                CtlRelease, CtlRenew, recoveryVars
<1>2. ASSUME NEW t \in Tabs, t # u, RecStep(t) PROVE rec'[u] = rec[u]
    BY <1>0, <1>2 DEF RecStep, RecStart, RecAcquire, RecContested, RecUnavailable, RecWait, RecTo,
                      RecWaitOver, RecAcquired, RecVerify, RecList, RecRead, RecWrite, RecSet, RecFails, RecRelease
<1>3. ASSUME NEW t \in Tabs, RClose(t) PROVE rec'[u] = rec[u] \/ rec'[u] = DoneRec
    BY <1>0, <1>3 DEF RClose
<1>. QED
    BY <1>1, <1>2, <1>3 DEF RNext, allVars

\* While its lease holds, a sweep still has every orphan on its list or in
\* hand: nobody but the lease holder writes runs, and it writes its own fence.
LEMMA SweepStep == BaseInv /\ RecInv /\ SweepInv /\ [RNext]_allVars => SweepInv'
<1> SUFFICES ASSUME BaseInv, RecInv, SweepInv, [RNext]_allVars PROVE SweepInv'
    OBVIOUS
<1>0. /\ rec \in [Tabs -> Rec] /\ rec' \in [Tabs -> Rec]
      /\ \A u \in Tabs : rec[u].k \in Token /\ rec[u].k.fence <= fence
      /\ IndInv /\ [Next]_vars
    BY CoreStep, LeaseStep DEF BaseInv, RecoveryTypeOK, RecInv, RecOK, Rec
<1>1. LiveFenceIsPositive'
  <2> USE DEF LiveFenceIsPositive, SweepInv
  <2>1. ASSUME NEW t \in Tabs, AcquireTx(t) PROVE LiveFenceIsPositive'
      BY <1>0, <2>1 DEF AcquireTx, NextFence, IndInv, TypeOK
  <2>2. CASE lease' = lease \/ lease' = NoLease
      BY <2>2
  <2>3. ASSUME lease # NoLease, lease' # NoLease, lease'.fence = lease.fence
        PROVE  LiveFenceIsPositive'
      BY <2>3
  <2>4. \/ \E t \in Tabs : AcquireTx(t)
        \/ lease' = lease \/ lease' = NoLease
        \/ lease # NoLease /\ lease' # NoLease /\ lease'.fence = lease.fence
    <3>1. ASSUME NEW n \in Nat, lease # NoLease, lease' = [lease EXCEPT !.left = n]
          PROVE  lease' # NoLease /\ lease'.fence = lease.fence
        BY <1>0, <3>1, NoLeaseAssumption DEF IndInv, TypeOK, Lease
    <3>2. CASE Tick
      <4>1. lease.left - 1 \in Nat
          BY <1>0, <3>2 DEF Tick, Live, IndInv, TypeOK, Lease
      <4>. QED
          BY <3>1, <3>2, <4>1 DEF Tick, Live
    <3>3. ASSUME NEW t \in Tabs, NEW k, Renew(t, k)
          PROVE  lease # NoLease /\ lease' # NoLease /\ lease'.fence = lease.fence
        BY <3>1, <3>3, TTLAssumption DEF Renew, MayRenew, Live
    <3>4. ASSUME NEW t \in Tabs, RenewCurrent(t)
          PROVE  lease # NoLease /\ lease' # NoLease /\ lease'.fence = lease.fence
        BY <3>1, <3>4, TTLAssumption DEF RenewCurrent, Live
    <3>5. ASSUME NEW t \in Tabs,
                 AcquireReturn(t) \/ (\E k : Release(t, k)) \/ ReleaseCurrent(t) \/ Close(t)
          PROVE  lease' = lease \/ lease' = NoLease
        BY <3>5 DEF AcquireReturn, Release, ReleaseCurrent, Close, dbVars
    <3>. QED
        BY <1>0, <3>2, <3>3, <3>4, <3>5 DEF Next, TabStep, vars
  <2>. QED
      BY <2>1, <2>2, <2>3, <2>4
<1>2. TokenAwaitsVerify'
  <2> SUFFICES ASSUME NEW u \in Tabs, rec'[u].pc \notin {"list", "sweeping"}
               PROVE  rec'[u].k = NoToken
      BY DEF TokenAwaitsVerify
  <2>0. rec[u].pc \notin {"list", "sweeping"} => rec[u].k = NoToken
      BY DEF SweepInv, TokenAwaitsVerify
  <2>1. CASE rec'[u] = rec[u]
      BY <2>0, <2>1
  <2>2. CASE RTick
      BY <1>0, <2>0, <2>2 DEF RTick, Rec
  <2>3. CASE rec'[u] = DoneRec
      BY <2>3 DEF DoneRec, FreshRec
  <2>4. CASE RecStep(u) /\ rec'[u] # DoneRec
    <3>1. CASE RecStart(u) \/ RecAcquired(u)
        BY <1>0, <2>0, <3>1 DEF RecStart, RecAcquired, RecTo, Rec
    <3>2. CASE RecAcquire(u) \/ RecWait(u) \/ RecWaitOver(u)
      <4>1. CASE RecAcquire(u)
          BY <1>0, <2>0, <4>1 DEF RecAcquire, Rec
      <4>2. CASE RecWait(u)
          BY <1>0, <2>0, <4>2 DEF RecWait, Rec
      <4>3. CASE RecWaitOver(u)
          BY <1>0, <2>0, <4>3 DEF RecWaitOver, Rec
      <4>. QED
          BY <3>2, <4>1, <4>2, <4>3
    <3>3. CASE RecContested(u) \/ RecUnavailable(u)
      <4>1. rec[u].pc = "acquire" /\ rec'[u] = [rec[u] EXCEPT !.pc = "contested"]
          BY <1>0, <2>4, <3>3 DEF RecContested, RecUnavailable
      <4>. QED
          BY <1>0, <2>0, <4>1 DEF Rec
    <3>4. CASE RecVerify(u)
      <4>1. CASE VerifiesCurrent(u)
          BY <1>0, <3>4, <4>1 DEF RecVerify, Rec
      <4>2. CASE ~VerifiesCurrent(u)
          BY <1>0, <3>4, <4>2 DEF RecVerify, Rec
      <4>. QED
          BY <4>1, <4>2
    <3>5. CASE RecList(u)
        BY <1>0, <3>5 DEF RecList, Rec
    <3>6. CASE RecRead(u)
      <4>1. PICK r \in rec[u].todo : RecReads(u, r)
          BY <3>6, RecReadIs
      <4>2. rec'[u].pc = rec[u].pc
        <5>1. CASE Kept(u, r)
            BY <1>0, <4>1, <5>1 DEF RecReads, Rec
        <5>2. CASE ~Kept(u, r)
            BY <1>0, <4>1, <5>2 DEF RecReads, Rec
        <5>. QED
            BY <5>1, <5>2
      <4>. QED
          BY <3>6, <4>2 DEF RecRead
    <3>7. CASE RecWrite(u)
      <4>1. rec[u].pc = "sweeping"
          BY <3>7 DEF RecWrite, RecInv, RecOK
      <4>2. PICK missed : rec' = [rec EXCEPT ![u] = Written(u, missed)]
          BY <1>0, <3>7, RecWriteIs
      <4>. QED
          BY <1>0, <4>1, <4>2 DEF Written, Rec
    <3>8. CASE RecRelease(u)
        BY <1>0, <2>4, <3>8 DEF RecRelease
    <3>9. CASE RecFails(u)
        BY <1>0, <3>9, RecFailsIs DEF Rec
    <3>. QED
        BY <2>4, <3>1, <3>2, <3>3, <3>4, <3>5, <3>6, <3>7, <3>8, <3>9 DEF RecStep
  <2>. QED
      BY <2>1, <2>2, <2>3, <2>4, RecoveryMoves
<1>3. ASSUME NEW u \in Tabs PROVE SweepOK(u)'
  <2> SUFFICES ASSUME rec'[u].pc = "sweeping", Verifies(u, rec[u].k)', NEW r \in RunningRuns'
               PROVE  \/ runs'[r].exec = ExecOf(u, rec'[u].k)
                      \/ r \in rec'[u].todo
                      \/ r \in rec'[u].run /\ runs'[r] \in rec'[u].load
                      \/ r \in rec'[u].missed
      BY DEF SweepOK, ExecOf, RunningRuns
  <2>1. CASE RecList(u)
    <3>1. rec'[u].todo = RunningRuns /\ runs' = runs
        BY <1>0, <2>1 DEF RecList, Rec
    <3>. QED
        BY <3>1 DEF RunningRuns
  <2>2. CASE RecVerify(u) \/ RecFails(u)
    <3>1. rec'[u].k = NoToken /\ lease' = lease
      <4>1. CASE RecVerify(u) /\ VerifiesCurrent(u)
          BY <1>0, <4>1 DEF RecVerify, Rec
      <4>2. CASE RecVerify(u) /\ ~VerifiesCurrent(u)
        <5>1. rec'[u].k = rec[u].k /\ rec[u].pc = "verify" /\ lease' = lease
            BY <1>0, <4>2 DEF RecVerify, Rec, vars
        <5>. QED
            BY <5>1 DEF SweepInv, TokenAwaitsVerify
      <4>3. CASE RecFails(u)
          BY <1>0, <4>3, RecFailsIs DEF Rec, vars, dbVars
      <4>. QED
          BY <2>2, <4>1, <4>2, <4>3
    <3>2. rec'[u].k.fence = 0
        BY <3>1 DEF NoToken
    <3>. QED
      <4>1. lease' # NoLease /\ lease'.fence = rec'[u].k.fence
          BY DEF Verifies, Matches
      <4>2. 0 < lease.fence /\ lease.fence = 0
          BY <3>1, <3>2, <4>1 DEF SweepInv, LiveFenceIsPositive
      <4>. QED
          BY <4>2
  <2>3. CASE ~RecList(u) /\ ~RecVerify(u) /\ ~RecFails(u)
    <3>1. /\ rec[u].pc = "sweeping" /\ rec'[u].k = rec[u].k
          /\ rec[u].missed \subseteq rec'[u].missed
          /\ \/ /\ rec'[u].todo = rec[u].todo /\ rec'[u].run = rec[u].run
                /\ rec'[u].load = rec[u].load
             \/ RecRead(u)
             \/ RecWrite(u) /\ rec'[u].todo = rec[u].todo
      <4>1. CASE rec'[u] = rec[u]
          BY <4>1
      <4>2. CASE RTick
        <5>1. PICK w : rec'[u] = [rec[u] EXCEPT !.wait = w]
            BY <4>2 DEF RTick
        <5>. QED
            BY <1>0, <5>1 DEF Rec
      <4>3. CASE rec'[u] = DoneRec
          BY <4>3 DEF DoneRec, FreshRec
      <4>4. CASE RecRead(u)
        <5>1. PICK x \in rec[u].todo : RecReads(u, x)
            BY <4>4, RecReadIs
        <5>2. rec'[u].k = rec[u].k /\ rec'[u].missed = rec[u].missed
          <6>1. CASE Kept(u, x)
              BY <1>0, <5>1, <6>1 DEF RecReads, Rec
          <6>2. CASE ~Kept(u, x)
              BY <1>0, <5>1, <6>2 DEF RecReads, Rec
          <6>. QED
              BY <6>1, <6>2
        <5>. QED
            BY <4>4, <5>2 DEF RecRead
      <4>5. CASE RecWrite(u)
        <5>1. /\ rec'[u].todo = rec[u].todo /\ rec'[u].k = rec[u].k
              /\ rec[u].missed \subseteq rec'[u].missed
          <6>1. PICK missed : /\ rec[u].missed \subseteq missed
                              /\ rec' = [rec EXCEPT ![u] = Written(u, missed)]
              BY <1>0, <4>5, RecWriteIs
          <6>. QED
              BY <1>0, <6>1 DEF Written, Rec
        <5>2. rec[u].pc = "sweeping"
            BY <4>5 DEF RecWrite, RecInv, RecOK
        <5>. QED
            BY <4>5, <5>1, <5>2
      <4>6. CASE RecStep(u) /\ ~RecRead(u) /\ ~RecWrite(u) /\ rec'[u] # DoneRec
        <5>1. rec'[u].pc # "sweeping"
          <6>1. CASE RecStart(u) \/ RecAcquired(u)
              BY <1>0, <6>1 DEF RecStart, RecAcquired, RecTo, Rec
          <6>2. CASE RecAcquire(u) \/ RecWait(u) \/ RecWaitOver(u)
              BY <1>0, <6>2, ZenonT(30) DEF RecAcquire, RecWait, RecWaitOver, Rec
          <6>3. CASE RecContested(u) \/ RecUnavailable(u)
            <7>1. rec'[u] = [rec[u] EXCEPT !.pc = "contested"]
                BY <1>0, <4>6, <6>3 DEF RecContested, RecUnavailable
            <7>. QED
                BY <1>0, <7>1 DEF Rec
          <6>4. CASE RecRelease(u)
              BY <1>0, <4>6, <6>4 DEF RecRelease
          <6>. QED
              BY <2>3, <4>6, <6>1, <6>2, <6>3, <6>4 DEF RecStep
        <5>. QED
            BY <5>1
      <4>. QED
          BY <4>1, <4>2, <4>3, <4>4, <4>5, <4>6, RecoveryMoves
    <3>2. Verifies(u, rec[u].k) /\ lease # NoLease
      <4> DEFINE k == rec[u].k
      <4>1. ASSUME NEW l \in Token, l = rec'[u].k PROVE Verifies(u, l)'
          BY <4>1 DEF Verifies, Matches
      <4>2. Verifies(u, k)
          BY <1>0, <3>1, <4>1, StaleStep
      <4>. QED
          BY <4>2 DEF Verifies, Live
    <3>3. ASSUME NEW t \in Tabs, Verifies(t, ctl[t].k) PROVE ExecOf(t, ctl[t].k) = ExecOf(u, rec[u].k)
        BY <3>2, <3>3 DEF Verifies, Matches, ExecOf
    <3>4. r \in DOMAIN runs' /\ runs'[r].status = "running"
        BY DEF RunningRuns
    <3>5. CASE r \notin DOMAIN runs
        BY <3>1, <3>3, <3>4, <3>5, Writes DEF Creates
    <3>6. ASSUME r \in DOMAIN runs, NEW t \in Tabs, Commits(t, r)
          PROVE  runs'[r].exec = ExecOf(u, rec'[u].k)
        BY <3>1, <3>3, <3>6 DEF Commits
    <3>7. ASSUME r \in DOMAIN runs, NEW t \in Tabs, Interrupts(t, r)
          PROVE  FALSE
        BY <3>4, <3>7 DEF Interrupts, BaseInv, RecoveryTypeOK, Row
    <3>8. CASE r \in DOMAIN runs /\ runs'[r] = runs[r]
      <4>1. \/ runs[r].exec = ExecOf(u, rec[u].k)
            \/ r \in rec[u].todo
            \/ r \in rec[u].run /\ runs[r] \in rec[u].load
            \/ r \in rec[u].missed
          BY <3>1, <3>2, <3>4, <3>8 DEF SweepInv, SweepOK, RunningRuns
      <4>2. CASE runs[r].exec = ExecOf(u, rec[u].k)
          BY <3>1, <3>8, <4>2
      <4>3. CASE RecRead(u)
        <5>1. PICK x \in rec[u].todo : RecReads(u, x)
            BY <4>3, RecReadIs
        <5>2. rec[u].load = {} /\ Live
            BY <3>2, <4>3 DEF RecRead, Verifies
        <5>3. CASE Kept(u, x)
          <6>1. rec'[u].todo = rec[u].todo \ {x} /\ rec'[u].run = {x} /\ rec'[u].load = {runs[x]}
              BY <1>0, <5>1, <5>3 DEF RecReads, Rec
          <6>. QED
              BY <3>1, <3>8, <4>1, <5>2, <6>1
        <5>4. CASE ~Kept(u, x)
          <6>1. rec'[u].todo = rec[u].todo \ {x}
              BY <1>0, <5>1, <5>4 DEF RecReads, Rec
          <6>2. CASE r = x
            <7>1. ~IsStale(u, rec[u].k, runs[r])
                BY <3>4, <3>8, <5>2, <5>4, <6>2 DEF Kept
            <7>2. runs[r].exec \in Exec
                BY <3>8 DEF BaseInv, RecoveryTypeOK, Row
            <7>3. runs[r].exec = ExecOf(u, rec[u].k)
                BY <7>1, <7>2 DEF IsStale, ExecOf, Exec
            <7>. QED
                BY <3>1, <3>8, <7>3
          <6>. QED
              BY <3>1, <3>8, <4>1, <5>2, <6>1, <6>2
        <5>. QED
            BY <5>3, <5>4
      <4>4. CASE RecWrite(u)
        <5>1. PICK x \in rec[u].run, row \in rec[u].load,
                   missed \in SUBSET Runs :
                  /\ rec' = [rec EXCEPT ![u] = Written(u, missed)]
                  /\ \/ /\ MayInterrupt(u, x, row)
                        /\ runs' = WithRun(x, [row EXCEPT !.status = "interrupted", !.rev = @ + 1])
                     \/ ~MayInterrupt(u, x, row) /\ runs' = runs
                     \/ x \in missed /\ runs' = runs
            BY <1>0, <4>4, RecWriteIs
        <5>2. CASE r \in rec[u].run /\ runs[r] \in rec[u].load
          <6>1. x = r /\ row = runs[r] /\ row \in Row
              BY <3>8, <5>1, <5>2 DEF RecInv, RecOK, BaseInv, RecoveryTypeOK
          <6>2. MayInterrupt(u, x, row)
              BY <3>2, <6>1 DEF MayInterrupt, Verifies
          <6>3. CASE r \in missed
              BY <1>0, <5>1, <6>3 DEF Written, Rec
          <6>4. CASE r \notin missed
            <7>1. runs'[r].status = "interrupted"
                BY <3>8, <5>1, <6>1, <6>2, <6>4 DEF WithRun, Row
            <7>. QED
                BY <3>4, <7>1
          <6>. QED
              BY <6>3, <6>4
        <5>3. ~RecRead(u)
            BY <4>4 DEF RecWrite, RecRead
        <5>4. rec'[u].todo = rec[u].todo
            BY <3>1, <5>3
        <5>. QED
            BY <3>1, <4>1, <4>2, <5>2, <5>4
      <4>. QED
          BY <3>1, <3>8, <4>1, <4>2, <4>3, <4>4
    <3>. QED
        BY <3>5, <3>6, <3>7, <3>8, Writes
  <2>. QED
      BY <2>1, <2>2, <2>3
<1>. QED
    BY <1>1, <1>2, <1>3 DEF SweepInv

\* When a sweep is through and its lease still holds, no running run belongs
\* to anybody else, but for those whose interruption the storage failed.
THEOREM NoZombies == RSpec => []SweepLeavesNoZombie
<1>1. RInit => SweepInv
    BY DEF RInit, Init, SweepInv, LiveFenceIsPositive, TokenAwaitsVerify, SweepOK, FreshRec
<1>2. SweepInv => SweepLeavesNoZombie
  <2> SUFFICES ASSUME SweepInv, NEW t \in Tabs, Swept(t), Verifies(t, rec[t].k),
                      NEW r \in RunningRuns \ rec[t].missed
               PROVE  runs[r].exec = [owner |-> t, fence |-> rec[t].k.fence]
      BY DEF SweepLeavesNoZombie
  <2>. QED
      BY DEF SweepInv, SweepOK, Swept, ExecOf
<1>. QED
    BY <1>1, <1>2, SweepStep, RecoveryInvariance, PTL DEF RSpec
=============================================================================
