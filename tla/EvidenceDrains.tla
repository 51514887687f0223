---------------------------- MODULE EvidenceDrains ----------------------------
(***************************************************************************)
(* The drains of EvidenceIndex at rest.  Any page that executes announces  *)
(* its runs to its own queue, and every queue drains the jobs of all; a    *)
(* drain that finds its claim taken when it finalizes ends, also when jobs *)
(* it had listed are queued (derive-observations.ts).  A history variable  *)
(* follows what such a drain leaves behind.                                *)
(***************************************************************************)
EXTENDS EvidenceIndex

VARIABLE left       \* the jobs queued when a drain last lost its claim, as
                    \* long as no other drain has started since (history)

drainVars == <<indexVars, left>>

Starts(p) == queue[p] = "idle" /\ queue'[p] = "list"

Loses(p) ==
    /\ queue[p] = "derive" /\ ~Holds(p, work[<<p, "queue">>].src)
    /\ queue'[p] = "idle"

DrainsInit == IndexInit /\ left = {}

DrainsNext ==
    /\ IndexNext
    /\ left' = IF \E p \in Pages : Starts(p) THEN {}
               ELSE IF \E p \in Pages : Loses(p) THEN QueuedJobs ELSE left

\* An open page goes on with its queue: promises that are settled run.
QueueFairness ==
    \A p \in Pages : WF_indexVars(QueueStep(p) \/ DeriveWrite(<<p, "queue">>))

DrainsSpec == DrainsInit /\ [][DrainsNext]_drainVars /\ QueueFairness

-----------------------------------------------------------------------------
(* Properties.                                                             *)

Unmarked(r) == \/ \E p \in Pages : r \in page[p].events
               \/ job[r].status \in {"queued", "running"}

\* As long as no page crashes and no write fails, every run that was announced
\* gets its marker from the queues, without the help of the pass, although
\* several drain the same jobs, list what another has claimed by then and take
\* over what they believe stale.  The one exception is what the code accepts
\* when it ends a drain whose claim was taken: the jobs that were queued at
\* that moment, and only until a drain starts again on any page.
AnnouncedIsIndexed == []<>(trouble > 0 \/ \A r \in AllRuns : Unmarked(r) => r \in left)
=============================================================================
