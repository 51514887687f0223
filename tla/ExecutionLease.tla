--------------------------- MODULE ExecutionLease ---------------------------
(***************************************************************************)
(* The Dexie-backed execution lease, src/src/lib/execution-lease.ts.       *)
(*                                                                         *)
(* Two rows of the storageMeta table are shared by every tab: the active   *)
(* lease and the fence high-water mark.  A method's IndexedDB transaction  *)
(* is one atomic step; the continuation that runs after `await` in the     *)
(* calling tab is a step of its own where it matters (acquire).  Calls     *)
(* that throw or return without writing leave the state alone and are not  *)
(* steps.                                                                  *)
(*                                                                         *)
(* Time: expiresAt - now() is kept as `left`, in ticks; Tick is the wall   *)
(* clock, which is assumed not to run backwards.                           *)
(*                                                                         *)
(* tokens[t] holds every LeaseInfo acquire ever returned in tab t.  Any of *)
(* them may be handed to renew and release at any later time: that is a    *)
(* delayed heartbeat or a late finally block of an earlier controller.     *)
(***************************************************************************)
EXTENDS Naturals

CONSTANTS Tabs,       \* lease instances, one per tab; each has its own ownerId
          NoLease,    \* the absence of the active-lease row
          TTL,        \* ticks a lease lives without renewal (LEASE_TTL)
          MaxFence    \* bound: acquisitions in a behaviour

ASSUME TTLAssumption == TTL \in Nat \ {0}
ASSUME MaxFenceAssumption == MaxFence \in Nat

VARIABLES lease,      \* the LEASE_KEY row, or NoLease
          fence,      \* the FENCE_KEY row: highest fence ever issued
          minted,     \* how many leaseIds newLeaseId() has produced
          cur,        \* per tab: currentLeaseId, 0 for null
          pending,    \* per tab: acquisitions committed but not yet returned
          tokens,     \* per tab: acquisitions returned to callers
          open        \* the tabs that have not been closed

dbVars  == <<lease, fence, minted>>
tabVars == <<cur, pending, tokens, open>>
vars    == <<lease, fence, minted, cur, pending, tokens, open>>

Token == [leaseId : Nat, fence : Nat]
Lease == [owner : Tabs, leaseId : Nat, fence : Nat, left : Nat]

ASSUME NoLeaseAssumption == NoLease \notin Lease

TypeOK ==
    /\ lease \in Lease \cup {NoLease}
    /\ fence \in Nat
    /\ minted \in Nat
    /\ cur \in [Tabs -> Nat]
    /\ pending \in [Tabs -> SUBSET Token]
    /\ tokens \in [Tabs -> SUBSET Token]
    /\ open \in SUBSET Tabs

-----------------------------------------------------------------------------
Init ==
    /\ lease = NoLease
    /\ fence = 0
    /\ minted = 0
    /\ cur = [t \in Tabs |-> 0]
    /\ pending = [t \in Tabs |-> {}]
    /\ tokens = [t \in Tabs |-> {}]
    /\ open = Tabs

Live == lease # NoLease /\ lease.left > 0

Matches(t, k) ==
    /\ lease # NoLease
    /\ lease.owner = t
    /\ lease.leaseId = k.leaseId
    /\ lease.fence = k.fence

\* verify(token), and verify() against the tab's current leaseId.
Verifies(t, k) == Live /\ Matches(t, k)

VerifiesCurrent(t) ==
    Live /\ cur[t] # 0 /\ lease.owner = t /\ lease.leaseId = cur[t]

\* Mutant: the fence is read back without being raised.
NextFenceNotRaised == IF fence = 0 THEN 1 ELSE fence

NextFence == fence + 1

\* The transaction of acquire(): contested while any lease is live, the
\* caller's own included; otherwise one above the high-water mark.
AcquireTx(t) ==
    /\ t \in open
    /\ ~Live
    /\ fence < MaxFence
    /\ lease' = [owner |-> t, leaseId |-> minted + 1, fence |-> NextFence, left |-> TTL]
    /\ fence' = NextFence
    /\ minted' = minted + 1
    /\ pending' = [pending EXCEPT ![t] =
                       @ \cup {[leaseId |-> minted + 1, fence |-> NextFence]}]
    /\ UNCHANGED <<cur, tokens, open>>

\* The continuation of acquire(); a tab's continuations run in commit order.
AcquireReturn(t) ==
    \E k \in pending[t] :
        /\ \A o \in pending[t] : k.leaseId <= o.leaseId
        /\ cur' = [cur EXCEPT ![t] = k.leaseId]
        /\ tokens' = [tokens EXCEPT ![t] = @ \cup {k}]
        /\ pending' = [pending EXCEPT ![t] = @ \ {k}]
        /\ UNCHANGED <<dbVars, open>>

\* Mutant: an expired lease may be renewed as long as nobody took it over.
MayRenewExpired(t, k) == Matches(t, k)

MayRenew(t, k) == Matches(t, k) /\ Live

\* renew(token).  The local leaseId it writes back is the one it found.
Renew(t, k) ==
    /\ MayRenew(t, k)
    /\ lease' = [lease EXCEPT !.left = TTL]
    /\ UNCHANGED <<fence, minted, tabVars>>

\* release(token): an expired row is deleted too, as long as it matches.
MayRelease(t, k) == Matches(t, k)

Release(t, k) ==
    /\ MayRelease(t, k)
    /\ lease' = NoLease
    /\ cur' = [cur EXCEPT ![t] = IF @ = k.leaseId THEN 0 ELSE @]
    /\ UNCHANGED <<fence, minted, pending, tokens, open>>

\* renew() and release() without a token act on the tab's current leaseId.
MatchesCurrent(t) ==
    /\ cur[t] # 0
    /\ lease # NoLease
    /\ lease.owner = t
    /\ lease.leaseId = cur[t]

RenewCurrent(t) ==
    /\ MatchesCurrent(t)
    /\ Live
    /\ lease' = [lease EXCEPT !.left = TTL]
    /\ UNCHANGED <<fence, minted, tabVars>>

ReleaseCurrent(t) ==
    /\ MatchesCurrent(t)
    /\ lease' = NoLease
    /\ cur' = [cur EXCEPT ![t] = 0]
    /\ UNCHANGED <<fence, minted, pending, tokens, open>>

\* The tab is closed, reloaded or killed; a reloaded tab is a new owner.
Close(t) ==
    /\ t \in open
    /\ open' = open \ {t}
    /\ cur' = [cur EXCEPT ![t] = 0]
    /\ pending' = [pending EXCEPT ![t] = {}]
    /\ tokens' = [tokens EXCEPT ![t] = {}]
    /\ UNCHANGED dbVars

Tick ==
    /\ Live
    /\ lease' = [lease EXCEPT !.left = @ - 1]
    /\ UNCHANGED <<fence, minted, tabVars>>

TabStep(t) ==
    \/ AcquireTx(t)
    \/ AcquireReturn(t)
    \/ \E k \in tokens[t] : Renew(t, k) \/ Release(t, k)
    \/ RenewCurrent(t)
    \/ ReleaseCurrent(t)

Next == Tick \/ \E t \in Tabs : TabStep(t) \/ Close(t)

Spec == Init /\ [][Next]_vars
-----------------------------------------------------------------------------
\* Every acquisition of tab t, whether or not its acquire() has returned.
Issued(t) == pending[t] \cup tokens[t]

\* A fence names one acquisition of one tab.  ExecutionFence records in runs
\* and experiments rely on it: two owners never write under the same fence,
\* even when one was suspended between its transaction and its continuation.
OneFencePerAcquisition ==
    \A t, u \in Tabs : \A k \in Issued(t), l \in Issued(u) :
        k.fence = l.fence => t = u /\ k = l

\* A token that has stopped verifying, by expiry, release or takeover, never
\* verifies again, whatever delayed renewals and releases still run.
StaleTokenStaysStale ==
    [][\A t \in Tabs : \A k \in tokens[t] :
          ~Verifies(t, k) => ~Verifies(t, k)']_vars

\* Nobody holds the token of a live lease whose acquire() has not returned,
\* so nothing but the clock touches that lease: late callbacks of the same
\* tab's earlier controllers neither extend nor delete it.
UnreturnedLeaseIsUntouched ==
    [][Live /\ (\E k \in pending[lease.owner] : Matches(lease.owner, k))
          => /\ lease' # NoLease
             /\ lease'.leaseId = lease.leaseId
             /\ lease'.left <= lease.left]_vars

\* The lease implements the lock the rest of the program takes it for: one
\* holder at a time, fences that rise by one, no grant that comes back.
Lock == INSTANCE FencedLock WITH
            held <- IF Live THEN {[owner |-> lease.owner, fence |-> lease.fence]} ELSE {}

ImplementsFencedLock == Lock!LockSpec
=============================================================================
