------------------------------ MODULE Heartbeat ------------------------------
(* The heartbeat that renews a lease (execution-heartbeat.ts).  Renewals are *)
(* promises: they settle in any order, also after the heartbeat was stopped  *)
(* or started again for another lease.  A generation, raised by every start  *)
(* and stop, tells the renewals of one life of the heartbeat from another's. *)
EXTENDS Integers

CONSTANTS MaxGeneration   \* bound: no start raises the generation above it

ASSUME HeartbeatAssumption == MaxGeneration \in Nat

VARIABLES running, generation,
          schedule,    \* what invokes the callback: none, a worker, a timer
          listening,   \* visibilitychange listener installed
          inFlight,    \* renewalGenerationInFlight, 0 for null
          errorReported,
          renewals,    \* pending renewals: generation -> how many
          told         \* calls of onError: during a life, by a renewal of one

beatVars == <<running, generation, schedule, listening, inFlight,
              errorReported, renewals, told>>

Generations == 0 .. MaxGeneration + 1

BeatInit ==
    /\ running = FALSE
    /\ generation = 0
    /\ schedule = "none"
    /\ listening = FALSE
    /\ inFlight = 0
    /\ errorReported = FALSE
    /\ renewals = [g \in Generations |-> 0]
    /\ told = [p \in Generations \X Generations |-> 0]

(* stop(): the generation is raised and nothing is left scheduled.           *)
StopsBeating ==
    /\ running' = FALSE
    /\ generation' = generation + 1
    /\ schedule' = "none"
    /\ listening' = FALSE

Tells(life, by) == told' = [told EXCEPT ![<<life, by>>] = @ + 1]

(* start(): a dedicated worker, or a timer where there is none.              *)
Start(how) ==
    /\ ~running
    /\ generation < MaxGeneration
    /\ running' = TRUE
    /\ generation' = generation + 1
    /\ errorReported' = FALSE
    /\ schedule' = how
    /\ listening' = TRUE
    /\ UNCHANGED <<inFlight, renewals, told>>

(* The scheduler throws: started, stopped and reported in one call.          *)
StartFails ==
    /\ ~running
    /\ generation + 1 < MaxGeneration
    /\ generation' = generation + 2
    /\ errorReported' = TRUE
    /\ Tells(generation + 1, generation + 1)
    /\ UNCHANGED <<running, schedule, listening, inFlight, renewals>>

Stop ==
    /\ running
    /\ StopsBeating
    /\ UNCHANGED <<inFlight, errorReported, renewals, told>>

(* renewNow(): one renewal of a generation at a time.                        *)
MayRenewNow == running /\ inFlight # generation

RenewNow ==
    /\ MayRenewNow
    /\ inFlight' = generation
    /\ renewals' = [renewals EXCEPT ![generation] = @ + 1]
    /\ UNCHANGED <<running, generation, schedule, listening, errorReported, told>>

(* The callback of the schedule, and the page becoming visible again.        *)
Beat     == schedule # "none" /\ RenewNow
Visible  == listening /\ RenewNow

(* The worker breaks: it is torn down and a timer takes over.                *)
WorkerError ==
    /\ schedule = "worker"
    /\ schedule' = "timer"
    /\ UNCHANGED <<running, generation, listening, inFlight, errorReported,
                   renewals, told>>

(* Mutant of Landed: a renewal that is not under way settles.                *)
LandedTwice(g) ==
    /\ renewals' = [renewals EXCEPT ![g] = @ - 1]
    /\ inFlight' = IF inFlight = g THEN 0 ELSE inFlight

(* A renewal settles, the oldest or any other, now or much later.            *)
Landed(g) ==
    /\ renewals[g] > 0
    /\ renewals' = [renewals EXCEPT ![g] = @ - 1]
    /\ inFlight' = IF inFlight = g THEN 0 ELSE inFlight

RenewSucceeds(g) ==
    /\ Landed(g)
    /\ UNCHANGED <<running, generation, schedule, listening, errorReported, told>>

(* Mutant of IsReported: the generation is not compared.                     *)
IsReportedAlways(g) == running /\ ~errorReported

(* The error of a renewal counts for the life it was begun in only.          *)
IsReported(g) == running /\ g = generation /\ ~errorReported

RenewFails(g) ==
    /\ Landed(g)
    /\ IF IsReported(g)
       THEN /\ StopsBeating
            /\ errorReported' = TRUE
            /\ Tells(generation, g)
       ELSE UNCHANGED <<running, generation, schedule, listening,
                        errorReported, told>>

BeatNext ==
    \/ \E how \in {"worker", "timer"} : Start(how)
    \/ StartFails
    \/ Stop
    \/ Beat
    \/ Visible
    \/ WorkerError
    \/ \E g \in Generations : RenewSucceeds(g) \/ RenewFails(g)

BeatSpec == BeatInit /\ [][BeatNext]_beatVars

-----------------------------------------------------------------------------
BeatTypeOK ==
    /\ running \in BOOLEAN /\ listening \in BOOLEAN /\ errorReported \in BOOLEAN
    /\ generation \in Generations
    /\ schedule \in {"none", "worker", "timer"}
    /\ inFlight \in Generations
    /\ renewals \in [Generations -> Nat]
    /\ told \in [Generations \X Generations -> Nat]

(* A life reports at most one error, and one of its own: a renewal that      *)
(* fails late, after a stop or in a later life, tells the controller         *)
(* nothing.  No two renewals of one life are under way together, however the *)
(* page's timers, its visibility and the database are interleaved.           *)
ErrorsAreOfTheirLife ==
    /\ \A life, by \in Generations : told[<<life, by>>] <= IF by = life THEN 1 ELSE 0
    /\ \A g \in Generations : renewals[g] <= 1

=============================================================================
