----------------------------- MODULE FencedLock -----------------------------
(***************************************************************************)
(* What the cross-tab execution lease promises the rest of the program: a *)
(* lock held by at most one tab at a time, in which every grant carries a *)
(* fence number above all earlier ones, and a grant that has ended --      *)
(* released, or expired -- never comes back.                               *)
(***************************************************************************)
EXTENDS Naturals

CONSTANT Tabs       \* the browser tabs that contend for the lock

VARIABLES held,     \* the current grant, as a set of at most one grant
          fence     \* the fence of the latest grant, 0 before the first

lockVars == <<held, fence>>

Grant == [owner : Tabs, fence : Nat]

LockInit == held = {} /\ fence = 0

\* A free lock is granted to tab t under the next fence.
GrantTo(t) ==
    /\ held = {}
    /\ fence' = fence + 1
    /\ held' = {[owner |-> t, fence |-> fence + 1]}

\* The grant ends: its holder released it, or its time ran out.
End ==
    /\ held # {}
    /\ held' = {}
    /\ UNCHANGED fence

LockNext == End \/ \E t \in Tabs : GrantTo(t)

LockSpec == LockInit /\ [][LockNext]_lockVars
=============================================================================
