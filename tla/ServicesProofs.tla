--------------------------- MODULE ServicesProofs ---------------------------
(***************************************************************************)
(* Proofs about the parts MCServices checks together: Heartbeat and        *)
(* ProviderCall, which live by timers, PreCall, MigrationRegistry and      *)
(* SearchIndex, for any number of starts, pages, items and faults and any  *)
(* durations; at the end, what they say of MCServices itself.              *)
(*                                                                         *)
(* Heartbeat.  That no two renewals of one life are under way together is  *)
(* not inductive: inFlight remembers the renewal of one generation only,   *)
(* and forgets it when that of another settles.  What is, is that a life   *)
(* that runs has its own renewal in inFlight, and that no renewal is of a  *)
(* life that has not begun.                                                *)
(*                                                                         *)
(* ProviderCall.  That a call which timed out had earned it must be shown  *)
(* at the moment the timer fires (the inactivity clock and the silence add *)
(* up, a marked call with headers has no connect clock) and stay true      *)
(* afterwards: the abort is heard at once, and no byte counts any more.    *)
(*                                                                         *)
(* PreCall.  Durable says how much of a start is stored at each stage of   *)
(* its chain, so that the last check before the models are called finds    *)
(* everything stored; Latest that a start that executes is alone, and the  *)
(* last press of Run unless the presses were reset; Troubled how many      *)
(* faults or lost leases a start has met that is not where one without     *)
(* them would be.                                                          *)
(*                                                                         *)
(* MigrationRegistry.  MigratedInOrder does not say what a page that is    *)
(* inside a step may rely on.  Progress does: every earlier step of its    *)
(* plan is recorded as complete or is held against its dependents, the     *)
(* items before the present one are moved, and a step about to be recorded *)
(* has its marker.  All three only ever grow, so that no step of another   *)
(* page, which may apply at the same time, takes them away.                *)
(***************************************************************************)
EXTENDS MCServices, TLAPS

\* A life that goes on remembers the renewal it has under way.
OwnRenewalIsKnown == running => renewals[generation] = 0 \/ inFlight = generation

NoneOfTheFuture == \A g \in Generations : g > generation => renewals[g] = 0

\* An error ends the life it is reported in.
NothingTold ==
    \A g \in Generations : g > generation \/ (running /\ g = generation) => told[<<g, g>>] = 0

RunningIsBounded == running => generation <= MaxGeneration

BeatInv ==
    /\ BeatTypeOK
    /\ RunningIsBounded
    /\ OwnRenewalIsKnown
    /\ NoneOfTheFuture
    /\ NothingTold
    /\ ErrorsAreOfTheirLife

\* A renewal is begun: by a beat or because the page became visible.
LEMMA RenewNowKeepsInv == BeatInv /\ RenewNow => BeatInv'
<1> SUFFICES ASSUME BeatInv, RenewNow PROVE BeatInv'
    OBVIOUS
<1> USE HeartbeatAssumption DEF BeatInv, RenewNow, MayRenewNow, Generations
<1>1. BeatTypeOK' /\ RunningIsBounded'
    BY DEF BeatTypeOK, RunningIsBounded
<1>2. OwnRenewalIsKnown' /\ NoneOfTheFuture' /\ NothingTold'
    BY DEF BeatTypeOK, OwnRenewalIsKnown, NoneOfTheFuture, NothingTold
<1>3. ErrorsAreOfTheirLife'
    BY DEF BeatTypeOK, OwnRenewalIsKnown, ErrorsAreOfTheirLife
<1>. QED
    BY <1>1, <1>2, <1>3

\* A renewal settles, in whichever life of the heartbeat.
LEMMA LandedKeepsCounts ==
    ASSUME BeatInv, NEW g \in Generations, Landed(g)
    PROVE  /\ renewals' \in [Generations -> Nat] /\ inFlight' \in Generations
           /\ \A h \in Generations : renewals'[h] <= renewals[h]
           /\ running => renewals'[generation] = 0 \/ inFlight' = generation
<1> USE HeartbeatAssumption DEF BeatInv, BeatTypeOK, Landed, Generations
<1>1. /\ renewals' \in [Generations -> Nat] /\ inFlight' \in Generations
      /\ \A h \in Generations : renewals'[h] <= renewals[h]
    OBVIOUS
<1>2. running => renewals'[generation] = 0 \/ inFlight' = generation
    BY DEF OwnRenewalIsKnown, ErrorsAreOfTheirLife
<1>. QED
    BY <1>1, <1>2

\* stop() leaves the generation below its bound and nothing running.
LEMMA StopsBeatingKeepsTypes ==
    ASSUME BeatTypeOK, RunningIsBounded, running, StopsBeating
    PROVE  /\ running' \in BOOLEAN /\ listening' \in BOOLEAN
           /\ generation' \in Generations
           /\ schedule' \in {"none", "worker", "timer"}
           /\ RunningIsBounded'
<1> USE DEF StopsBeating
<1>1. running' = FALSE /\ listening' = FALSE /\ schedule' = "none"
    OBVIOUS
<1>2. generation' \in Generations
    BY HeartbeatAssumption DEF BeatTypeOK, RunningIsBounded, Generations
<1>. QED
    BY <1>1, <1>2 DEF RunningIsBounded

\* The types, and the bound on the generation that a life keeps.
LEMMA BeatTypesStep ==
    BeatInv /\ [BeatNext]_beatVars => BeatTypeOK' /\ RunningIsBounded'
<1> SUFFICES ASSUME BeatInv, [BeatNext]_beatVars
             PROVE  BeatTypeOK' /\ RunningIsBounded'
    OBVIOUS
<1> USE DEF BeatInv, BeatTypeOK, RunningIsBounded
<1>0. /\ \A g : g \in Generations <=> g \in Nat /\ g <= MaxGeneration + 1
      /\ MaxGeneration \in Nat
    BY HeartbeatAssumption DEF Generations
<1> USE <1>0
<1>1. CASE UNCHANGED beatVars
    BY <1>1 DEF beatVars
<1>2. ASSUME NEW how \in {"worker", "timer"}, Start(how)
      PROVE  BeatTypeOK' /\ RunningIsBounded'
    <2>1. running' \in BOOLEAN /\ listening' \in BOOLEAN /\ errorReported' \in BOOLEAN
        BY <1>2 DEF Start
    <2>2. generation' \in Generations
        BY <1>2 DEF Start
    <2>3. schedule' \in {"none", "worker", "timer"}
        BY <1>2 DEF Start
    <2>4. generation' <= MaxGeneration
        BY <1>2 DEF Start
    <2>5. inFlight' = inFlight /\ renewals' = renewals /\ told' = told
        BY <1>2 DEF Start
    <2>. QED
        BY <2>1, <2>2, <2>3, <2>4, <2>5
<1>3. CASE StartFails
    BY <1>3 DEF StartFails, Tells
<1>4. CASE Stop
    BY <1>4, StopsBeatingKeepsTypes DEF Stop
<1>5. CASE RenewNow
    BY <1>5, RenewNowKeepsInv
<1>6. CASE WorkerError
    BY <1>6 DEF WorkerError
<1>7. ASSUME NEW g \in Generations, RenewSucceeds(g)
      PROVE  BeatTypeOK' /\ RunningIsBounded'
    BY <1>7, LandedKeepsCounts DEF RenewSucceeds
<1>8. ASSUME NEW g \in Generations, RenewFails(g)
      PROVE  BeatTypeOK' /\ RunningIsBounded'
    <2>1. /\ renewals' \in [Generations -> Nat] /\ inFlight' \in Generations
        BY <1>8, LandedKeepsCounts DEF RenewFails
    <2>2. CASE IsReported(g)
        <3>1. StopsBeating /\ running /\ errorReported' = TRUE
              /\ told' \in [Generations \X Generations -> Nat]
            BY <1>8, <2>2 DEF RenewFails, IsReported, Tells
        <3>. QED
            BY <2>1, <3>1, StopsBeatingKeepsTypes
    <2>3. CASE ~IsReported(g)
        BY <1>8, <2>1, <2>3 DEF RenewFails
    <2>. QED
        BY <2>2, <2>3
<1>. QED
    BY <1>1, <1>2, <1>3, <1>4, <1>5, <1>6, <1>7, <1>8 DEF BeatNext, Beat, Visible

RenewalsOfLives ==
    OwnRenewalIsKnown /\ NoneOfTheFuture /\ NothingTold /\ ErrorsAreOfTheirLife

\* What is known of the renewals under way, and of the errors told.
LEMMA RenewalsStep == BeatInv /\ [BeatNext]_beatVars => RenewalsOfLives'
<1> SUFFICES ASSUME BeatInv, [BeatNext]_beatVars PROVE RenewalsOfLives'
    OBVIOUS
<1> USE DEF BeatInv, RenewalsOfLives, OwnRenewalIsKnown, NoneOfTheFuture,
            NothingTold, ErrorsAreOfTheirLife
<1>0. /\ \A g : g \in Generations <=> g \in Nat /\ g <= MaxGeneration + 1
      /\ MaxGeneration \in Nat
      /\ generation \in Nat /\ generation <= MaxGeneration + 1
      /\ running => generation <= MaxGeneration
      /\ renewals \in [Generations -> Nat]
      /\ told \in [Generations \X Generations -> Nat]
    BY HeartbeatAssumption DEF BeatTypeOK, RunningIsBounded, Generations
<1>1. CASE UNCHANGED beatVars
    BY <1>1 DEF beatVars
<1>2. ASSUME NEW how \in {"worker", "timer"}, Start(how) PROVE RenewalsOfLives'
    BY <1>0, <1>2 DEF Start
<1>3. CASE StartFails
    BY <1>0, <1>3 DEF StartFails, Tells
<1>4. CASE Stop
    BY <1>0, <1>4 DEF Stop, StopsBeating
<1>5. CASE RenewNow
    BY <1>5, RenewNowKeepsInv
<1>6. CASE WorkerError
    BY <1>6 DEF WorkerError
<1>7. ASSUME NEW g \in Generations, Landed(g),
             UNCHANGED <<running, generation, told>>
      PROVE  RenewalsOfLives'
    <2>1. /\ renewals' \in [Generations -> Nat]
          /\ \A h \in Generations : renewals'[h] <= renewals[h]
          /\ running => renewals'[generation] = 0 \/ inFlight' = generation
        BY <1>7, LandedKeepsCounts
    <2>. QED
        BY <1>0, <1>7, <2>1
<1>8. ASSUME NEW g \in Generations, RenewFails(g), IsReported(g)
      PROVE  RenewalsOfLives'
    <2>1. /\ Landed(g) /\ g = generation
          /\ running' = FALSE /\ generation' = generation + 1
          /\ told' = [told EXCEPT ![<<g, g>>] = @ + 1]
        BY <1>8 DEF RenewFails, IsReported, StopsBeating, Tells
    <2>. QED
        <3>1. /\ renewals' \in [Generations -> Nat]
              /\ \A h \in Generations : renewals'[h] <= renewals[h]
            BY <2>1, LandedKeepsCounts
        <3>2. told[<<g, g>>] = 0
            BY <1>8, <2>1 DEF RenewFails, IsReported
        <3>3. /\ told'[<<g, g>>] = 1
              /\ \A p \in Generations \X Generations : p # <<g, g>> => told'[p] = told[p]
            BY <1>0, <2>1, <3>2
        <3>4. NothingTold'
            BY <1>0, <2>1, <3>3
        <3>5. ErrorsAreOfTheirLife'
            BY <1>0, <2>1, <3>1, <3>3
        <3>6. OwnRenewalIsKnown' /\ NoneOfTheFuture'
            BY <1>0, <2>1, <3>1
        <3>. QED
            BY <3>4, <3>5, <3>6
<1>9. ASSUME NEW g \in Generations, RenewFails(g) PROVE RenewalsOfLives'
    <2>1. CASE IsReported(g)
        BY <1>8, <1>9, <2>1
    <2>2. CASE ~IsReported(g)
        BY <1>7, <1>9, <2>2 DEF RenewFails
    <2>. QED
        BY <2>1, <2>2
<1>10. ASSUME NEW g \in Generations, RenewSucceeds(g) PROVE RenewalsOfLives'
    BY <1>7, <1>10 DEF RenewSucceeds
<1>11. CASE BeatNext
    <2>1. \/ \E how \in {"worker", "timer"} : Start(how)
          \/ StartFails \/ Stop \/ RenewNow \/ WorkerError
          \/ \E g \in Generations : RenewSucceeds(g) \/ RenewFails(g)
        BY <1>11 DEF BeatNext, Beat, Visible
    <2>. QED
        BY ONLY <2>1, <1>2, <1>3, <1>4, <1>5, <1>6, <1>9, <1>10
<1>. QED
    BY ONLY [BeatNext]_beatVars, <1>1, <1>11

\* Every step keeps the invariant.
LEMMA BeatInvStep == BeatInv /\ [BeatNext]_beatVars => BeatInv'
    BY BeatTypesStep, RenewalsStep DEF BeatInv, RenewalsOfLives

\* Nothing is under way in the beginning.
LEMMA BeatInvInit == BeatInit => BeatInv
<1> SUFFICES ASSUME BeatInit PROVE BeatInv
    OBVIOUS
<1>1. 0 \in Generations
    BY HeartbeatAssumption DEF Generations
<1>2. BeatTypeOK
    BY <1>1 DEF BeatInit, BeatTypeOK
<1>3. RunningIsBounded /\ OwnRenewalIsKnown /\ NoneOfTheFuture /\ ErrorsAreOfTheirLife
    BY DEF BeatInit, RunningIsBounded, OwnRenewalIsKnown, NoneOfTheFuture,
           ErrorsAreOfTheirLife
<1>4. NothingTold
    BY DEF BeatInit, NothingTold
<1>. QED
    BY <1>2, <1>3, <1>4 DEF BeatInv

\* The invariant holds in every reachable state.
THEOREM BeatInvariance == BeatSpec => []BeatInv
    BY BeatInvInit, BeatInvStep, PTL DEF BeatSpec

\* A life of the heartbeat reports at most one error, and none of another's
\* renewal, and has no two renewals under way: execution-heartbeat.ts, renewNow.
THEOREM ErrorsStayInTheirLife == BeatSpec => []ErrorsAreOfTheirLife
    BY BeatInvariance, PTL DEF BeatInv

-----------------------------------------------------------------------------
(* A provider call.                                                        *)

Clocks == {"connect", "inactivity", "overall"}

\* An abort of the connect clock is heard by the promise the caller waits for.
ConnectIsHeard ==
    Pending => <<"connect", IF call.stream THEN "watchdog" ELSE "fetch">> \in wires

\* The inactivity clock has run for as long as the stream was silent, and it
\* runs for streams only.
InactivityIsSilence ==
    timer.inactivity # Off =>
        call.stream /\ silent + timer.inactivity >= InactivityMs

\* A marked call has a connect clock only up to its headers.
ConnectEndsAtHeaders ==
    call.marked /\ timer.connect # Off => upstream \in {"sent", "broken"}

\* Who timed out for a clock of its own is heard at once.
TimeoutsAreHeard ==
    \A s \in Signals :
        /\ sig[s] = "stream_inactivity_timeout" => Interrupted
        /\ sig[s] = "connect_timeout" => Interrupted

CallInv ==
    /\ CallTypeOK
    /\ ConnectIsHeard
    /\ InactivityIsSilence
    /\ ConnectEndsAtHeaders
    /\ TimeoutsAreHeard
    /\ TimeoutsAreEarned

-----------------------------------------------------------------------------
(* What an abort does.                                                     *)

\* Clearing clocks leaves each as it is, or off.
LEMMA ClearedOnly ==
    ASSUME CallTypeOK, NEW reached, NEW T, T = Cleared(timer, reached)
    PROVE  /\ T \in [connect : Off .. ConnectMs, inactivity : Off .. InactivityMs,
                     overall : Off .. OverallMs]
           /\ \A c \in Clocks : T[c] \in {timer[c], Off}
<1>1. DOMAIN timer = Clocks
    BY DEF CallTypeOK, Clocks
<1>2. \A c \in Clocks : T[c] \in {timer[c], Off}
    BY <1>1 DEF Cleared, Clocks
<1>3. T = [connect |-> T["connect"], inactivity |-> T["inactivity"],
           overall |-> T["overall"]]
    BY <1>1 DEF Cleared, Clocks
<1>4. /\ timer["connect"] \in Off .. ConnectMs
      /\ timer["inactivity"] \in Off .. InactivityMs
      /\ timer["overall"] \in Off .. OverallMs
      /\ Off \in Off .. ConnectMs /\ Off \in Off .. InactivityMs /\ Off \in Off .. OverallMs
    BY CallAssumption DEF CallTypeOK, Off
<1>. QED
    BY <1>2, <1>3, <1>4 DEF Clocks

\* An abort reaches its own signal, and those that listen to it.
LEMMA ReachesListeners ==
    ASSUME NEW s \in Signals
    PROVE  /\ s \in Reach(s)
           /\ \A t \in Signals : sig[t] = Live /\ <<s, t>> \in wires => t \in Reach(s)
<1>. DEFINE step(S) == S \cup {t \in Signals : /\ sig[t] = Live
                                               /\ \E r \in S : <<r, t>> \in wires}
<1>1. Reach(s) = step(step(step(step({s}))))
    BY DEF Reach
<1>2. \A S : S \subseteq step(S)
    OBVIOUS
<1>3. \A t \in Signals : sig[t] = Live /\ <<s, t>> \in wires => t \in step({s})
    OBVIOUS
<1>4. step({s}) \subseteq Reach(s)
    BY <1>1, <1>2
<1>5. s \in step({s})
    OBVIOUS
<1>. QED
    BY <1>3, <1>4, <1>5

\* An abort leaves the signals that were aborted before, and gives those it
\* reaches its own reason.
LEMMA AbortOf ==
    ASSUME CallTypeOK, NEW s \in Signals,
           NEW why \in {"user_abort"} \cup Timeouts, AbortAt(s, why)
    PROVE  /\ sig' \in [Signals -> {Live, "user_abort"} \cup Timeouts]
           /\ timer' \in [connect : Off .. ConnectMs, inactivity : Off .. InactivityMs,
                          overall : Off .. OverallMs]
           /\ \A c \in Clocks : timer'[c] \in {timer[c], Off}
           /\ \A t \in Signals : sig'[t] \in {sig[t], why}
           /\ \A t \in Signals : sig[t] # Live => sig'[t] = sig[t]
           /\ sig'[s] # Live
           /\ \A t \in Signals : <<s, t>> \in wires => sig'[t] # Live
<1>. DEFINE reached == Reach(s)
<1>1. /\ sig' = [t \in Signals |-> IF t \in reached /\ sig[t] = Live THEN why ELSE sig[t]]
      /\ timer' = Cleared(timer, reached)
    BY DEF AbortAt
<1>. HIDE DEF reached
<1>2. why # Live
    BY DEF Timeouts, Live
<1>3. sig \in [Signals -> {Live, "user_abort"} \cup Timeouts]
    BY DEF CallTypeOK
<1>4. s \in reached /\ \A t \in Signals : sig[t] = Live /\ <<s, t>> \in wires => t \in reached
    BY ReachesListeners DEF reached
<1>5. /\ timer' \in [connect : Off .. ConnectMs, inactivity : Off .. InactivityMs,
                     overall : Off .. OverallMs]
      /\ \A c \in Clocks : timer'[c] \in {timer[c], Off}
    BY <1>1, ClearedOnly
<1>6. sig' \in [Signals -> {Live, "user_abort"} \cup Timeouts]
    BY <1>1, <1>3
<1>. QED
    BY <1>1, <1>2, <1>3, <1>4, <1>5, <1>6

-----------------------------------------------------------------------------
(* The steps.                                                              *)

\* An abort keeps the invariant when its reason is earned, and heard.
LEMMA InvAbort ==
    ASSUME CallInv, NEW s \in Signals,
           NEW why \in {"user_abort"} \cup Timeouts, AbortAt(s, why),
           UNCHANGED <<call, wires, upstream, silent, outcome>>,
           why = "stream_inactivity_timeout" => silent = InactivityMs /\ s = Raced,
           why = "connect_timeout" =>
               /\ s = "connect" /\ Pending
               /\ call.marked => upstream \in {"sent", "broken"}
    PROVE  CallInv'
<1>. USE DEF CallInv
<1>1. /\ sig' \in [Signals -> {Live, "user_abort"} \cup Timeouts]
      /\ timer' \in [connect : Off .. ConnectMs, inactivity : Off .. InactivityMs,
                     overall : Off .. OverallMs]
      /\ timer'.inactivity \in {timer.inactivity, Off}
      /\ timer'.connect \in {timer.connect, Off}
      /\ \A t \in Signals : sig'[t] \in {sig[t], why}
      /\ \A t \in Signals : sig[t] # Live => sig'[t] = sig[t]
      /\ sig'[s] # Live
      /\ \A t \in Signals : <<s, t>> \in wires => sig'[t] # Live
    BY AbortOf DEF Clocks
<1>2. CallTypeOK'
    BY <1>1 DEF CallTypeOK
<1>3. ConnectIsHeard' /\ InactivityIsSilence' /\ ConnectEndsAtHeaders'
    BY <1>1 DEF ConnectIsHeard, InactivityIsSilence, ConnectEndsAtHeaders, Pending
<1>4. Raced \in Signals /\ Raced' = Raced /\ "fetch" \in Signals
    BY DEF Raced, Signals
<1>5. Interrupted => Interrupted'
    BY <1>1, <1>4 DEF Interrupted
<1>6. why = "stream_inactivity_timeout" => Interrupted'
    BY <1>1, <1>4 DEF Interrupted
<1>7. why = "connect_timeout" => Interrupted'
    <2>1. ASSUME why = "connect_timeout" PROVE <<s, Raced>> \in wires
        BY <2>1 DEF ConnectIsHeard, Raced
    <2>. QED
        BY <2>1, <1>1, <1>4 DEF Interrupted
<1>8. TimeoutsAreHeard'
    BY <1>1, <1>5, <1>6, <1>7 DEF TimeoutsAreHeard
<1>9. TimeoutsAreEarned'
    BY <1>1 DEF TimeoutsAreEarned
<1>. QED
    BY <1>2, <1>3, <1>8, <1>9

\* The user's abort, and the three clocks.
LEMMA InvAborts ==
    ASSUME CallInv,
           CallerAborts \/ ConnectFires \/ InactivityFires \/ OverallFires
    PROVE  CallInv'
<1>. USE DEF CallInv
<1>1. CASE CallerAborts
    <2>1. AbortAt("caller", "user_abort")
          /\ UNCHANGED <<call, wires, upstream, silent, outcome>>
        BY <1>1 DEF CallerAborts
    <2>2. "caller" \in Signals /\ "user_abort" \notin Timeouts
        BY DEF Signals, Timeouts
    <2>. QED
        BY <2>1, <2>2, InvAbort DEF Timeouts
<1>2. CASE ConnectFires
    <2>1. /\ Pending /\ timer["connect"] = 0
          /\ AbortAt("connect", "connect_timeout")
          /\ UNCHANGED <<call, wires, upstream, silent, outcome>>
        BY <1>2 DEF ConnectFires, TimerFires
    <2>2. call.marked => upstream \in {"sent", "broken"}
        BY <2>1 DEF ConnectEndsAtHeaders, Off
    <2>3. "connect" \in Signals /\ "connect_timeout" \in Timeouts
        BY DEF Signals, Timeouts
    <2>. QED
        BY <2>1, <2>2, <2>3, InvAbort
<1>3. CASE InactivityFires
    <2>1. /\ timer["inactivity"] = 0
          /\ AbortAt("watchdog", "stream_inactivity_timeout")
          /\ UNCHANGED <<call, wires, upstream, silent, outcome>>
        BY <1>3 DEF InactivityFires, TimerFires
    <2>2. silent = InactivityMs /\ Raced = "watchdog"
        BY <2>1, CallAssumption DEF InactivityIsSilence, Off, CallTypeOK, Raced
    <2>3. "watchdog" \in Signals /\ "stream_inactivity_timeout" \in Timeouts
        BY DEF Signals, Timeouts
    <2>. QED
        BY <2>1, <2>2, <2>3, InvAbort
<1>4. CASE OverallFires
    <2>. DEFINE s == IF call.stream THEN "watchdog" ELSE "overall"
    <2>1. /\ AbortAt(s, "overall_timeout")
          /\ UNCHANGED <<call, wires, upstream, silent, outcome>>
        BY <1>4 DEF OverallFires, TimerFires
    <2>2. s \in Signals /\ "overall_timeout" \in Timeouts
        BY DEF Signals, Timeouts
    <2>. QED
        BY <2>1, <2>2, InvAbort
<1>. QED
    BY <1>1, <1>2, <1>3, <1>4

\* Time passes.
LEMMA InvTick == ASSUME CallInv, Tick PROVE CallInv'
<1>. USE DEF CallInv, Tick
<1>1. /\ timer \in [connect : Off .. ConnectMs, inactivity : Off .. InactivityMs,
                    overall : Off .. OverallMs]
      /\ DOMAIN timer = Clocks /\ silent \in 0 .. InactivityMs
    BY DEF CallTypeOK, Clocks
<1>2. \A c \in Clocks : timer'[c] = IF timer[c] > 0 THEN timer[c] - 1 ELSE timer[c]
    BY <1>1
<1>3. timer' = [connect |-> timer'["connect"], inactivity |-> timer'["inactivity"],
                overall |-> timer'["overall"]]
    BY <1>1 DEF Clocks
<1>4. /\ timer'["connect"] \in Off .. ConnectMs
      /\ timer'["inactivity"] \in Off .. InactivityMs
      /\ timer'["overall"] \in Off .. OverallMs
      /\ silent' \in 0 .. InactivityMs
    BY <1>1, <1>2, CallAssumption DEF Clocks, Off
<1>5. CallTypeOK'
    BY <1>3, <1>4 DEF CallTypeOK
<1>6. ConnectIsHeard' /\ TimeoutsAreHeard'
    BY DEF ConnectIsHeard, TimeoutsAreHeard, Pending, Interrupted, Raced
<1>7. InactivityIsSilence' /\ ConnectEndsAtHeaders'
    BY <1>1, <1>2, CallAssumption
    DEF Clocks, Off, InactivityIsSilence, ConnectEndsAtHeaders
<1>8. TimeoutsAreEarned'
    BY DEF TimeoutsAreEarned, TimeoutsAreHeard
<1>. QED
    BY <1>5, <1>6, <1>7, <1>8

\* Headers and bytes reset what they reset, while nothing has interrupted.
LEMMA InvProgress ==
    ASSUME CallInv, Headers \/ \E event \in BOOLEAN : Delivers(event)
    PROVE  CallInv'
<1>. USE DEF CallInv
<1>1. /\ Pending /\ ~Interrupted /\ UNCHANGED <<call, sig, outcome>>
      /\ upstream' \in {upstream, "headers"}
      /\ \/ /\ UNCHANGED <<wires, timer, silent>>
            /\ ~call.marked
         \/ /\ wires' = Unhooked /\ silent' = 0
            /\ timer' = [Progressed(timer) EXCEPT !.connect = Off]
    BY DEF Headers, Delivers
<1>2. \A s \in Signals : sig[s] \notin {"stream_inactivity_timeout", "connect_timeout"}
    BY <1>1 DEF TimeoutsAreHeard
<1>3. /\ timer \in [connect : Off .. ConnectMs, inactivity : Off .. InactivityMs,
                    overall : Off .. OverallMs]
      /\ silent \in 0 .. InactivityMs /\ wires \subseteq Signals \X Signals
    BY DEF CallTypeOK
<1>4. \/ UNCHANGED timer /\ UNCHANGED silent /\ ~call.marked
      \/ /\ silent' = 0
         /\ timer' = [connect |-> Off,
                       inactivity |-> IF call.stream THEN InactivityMs ELSE Off,
                       overall |-> timer.overall]
    BY <1>1, <1>3 DEF Progressed
<1>5. /\ timer' \in [connect : Off .. ConnectMs, inactivity : Off .. InactivityMs,
                     overall : Off .. OverallMs]
      /\ silent' \in 0 .. InactivityMs
    BY <1>3, <1>4, CallAssumption DEF Off
<1>6. wires' \subseteq wires /\ \A w \in wires : w[2] # "connect" => w \in wires'
    BY <1>1 DEF Unhooked
<1>7. CallTypeOK'
    BY <1>1, <1>3, <1>5, <1>6 DEF CallTypeOK
<1>8. ConnectIsHeard'
    BY <1>1, <1>6 DEF ConnectIsHeard, Pending
<1>9. InactivityIsSilence' /\ ConnectEndsAtHeaders'
    BY <1>1, <1>3, <1>4, CallAssumption DEF InactivityIsSilence, ConnectEndsAtHeaders, Off
<1>10. TimeoutsAreHeard' /\ TimeoutsAreEarned'
    BY <1>1, <1>2 DEF TimeoutsAreHeard, TimeoutsAreEarned
<1>. QED
    BY <1>7, <1>8, <1>9, <1>10

\* The answer ends, or the call settles.
LEMMA InvEnds == ASSUME CallInv, UpstreamEnds \/ Settles PROVE CallInv'
<1>. USE DEF CallInv
<1>1. CASE UpstreamEnds
    <2>1. /\ Pending /\ ~Interrupted
          /\ UNCHANGED <<call, sig, wires, timer, silent, outcome>>
          /\ \/ upstream = "headers" /\ upstream' \in {"ended", "broken"}
             \/ upstream = "sent" /\ upstream' = "broken"
        BY <1>1 DEF UpstreamEnds
    <2>2. \A s \in Signals : sig[s] \notin {"stream_inactivity_timeout", "connect_timeout"}
        BY <2>1 DEF TimeoutsAreHeard
    <2>3. CallTypeOK'
        BY <2>1 DEF CallTypeOK
    <2>4. ConnectIsHeard' /\ InactivityIsSilence' /\ ConnectEndsAtHeaders'
        BY <2>1 DEF ConnectIsHeard, InactivityIsSilence, ConnectEndsAtHeaders, Pending
    <2>5. TimeoutsAreHeard' /\ TimeoutsAreEarned'
        BY <2>1, <2>2 DEF TimeoutsAreHeard, TimeoutsAreEarned
    <2>. QED
        BY <2>3, <2>4, <2>5
<1>2. CASE Settles
    <2>1. /\ outcome' \in {Verdict, "done", "failed"} /\ (outcome' = Verdict => Interrupted
              \/ Verdict \in {"done", "failed"})
          /\ timer' = [c \in DOMAIN timer |-> Off] /\ wires' = {}
          /\ UNCHANGED <<call, sig, upstream, silent>>
        BY <1>2 DEF Settles
    <2>2. /\ sig \in [Signals -> {Live, "user_abort"} \cup Timeouts]
          /\ DOMAIN timer = Clocks
        BY DEF CallTypeOK, Clocks
    <2>3. outcome' \in {"done", "failed", "user_abort"} \cup Timeouts
        BY <2>1, <2>2 DEF Verdict, Interrupted, Raced, Signals, Live, Timeouts
    <2>4. timer' = [connect |-> Off, inactivity |-> Off, overall |-> Off]
        BY <2>1, <2>2 DEF Clocks
    <2>5. CallTypeOK'
        BY <2>1, <2>3, <2>4, CallAssumption DEF CallTypeOK, Off
    <2>6. outcome' # "pending"
        BY <2>3 DEF Timeouts
    <2>7. ConnectIsHeard' /\ InactivityIsSilence' /\ ConnectEndsAtHeaders'
        BY <2>4, <2>6 DEF ConnectIsHeard, InactivityIsSilence, ConnectEndsAtHeaders, Pending
    <2>8. TimeoutsAreHeard' /\ TimeoutsAreEarned'
        BY <2>1 DEF TimeoutsAreHeard, TimeoutsAreEarned, Interrupted, Raced
    <2>. QED
        BY <2>5, <2>7, <2>8
<1>. QED
    BY <1>1, <1>2

\* Nothing has fired in the beginning.
LEMMA CallInvInit == CallInit => CallInv
<1> SUFFICES ASSUME CallInit PROVE CallInv
    OBVIOUS
<1>. USE DEF CallInit
<1>1. CallTypeOK
    BY CallAssumption DEF CallTypeOK, Wiring, Signals, Off
<1>2. ConnectIsHeard
    BY DEF ConnectIsHeard, Wiring
<1>3. InactivityIsSilence /\ ConnectEndsAtHeaders
    BY CallAssumption DEF InactivityIsSilence, ConnectEndsAtHeaders
<1>4. TimeoutsAreHeard /\ TimeoutsAreEarned
    BY DEF TimeoutsAreHeard, TimeoutsAreEarned, Live
<1>. QED
    BY <1>1, <1>2, <1>3, <1>4 DEF CallInv

\* Every step keeps the invariant.
LEMMA CallInvStep == CallInv /\ [CallNext]_callVars => CallInv'
<1> SUFFICES ASSUME CallInv, [CallNext]_callVars PROVE CallInv'
    OBVIOUS
<1>1. CASE UNCHANGED callVars
    BY <1>1 DEF CallInv, callVars, CallTypeOK, ConnectIsHeard, InactivityIsSilence,
                ConnectEndsAtHeaders, TimeoutsAreHeard, TimeoutsAreEarned, Interrupted,
                Raced, Pending
<1>2. CASE CallNext
    BY <1>2, InvTick, InvAborts, InvProgress, InvEnds DEF CallNext
<1>. QED
    BY <1>1, <1>2

\* The invariant holds in every reachable state.
THEOREM CallInvariance == CallSpec => []CallInv
    BY CallInvInit, CallInvStep, PTL DEF CallSpec

\* No healthy call is timed out, however late its timers run:
\* execution-deadline.ts, createExecutionDeadline and markProgress.
THEOREM HealthyCallsLive == CallSpec => []TimeoutsAreEarned
    BY CallInvariance, PTL DEF CallInv

-----------------------------------------------------------------------------
\* PreCall.

Durable ==
    \A r \in Starts :
        /\ start[r] \in {"none", "lease", "begin"} => row[r] = "none"
        /\ start[r] \in {"instance", "read", "envelope", "execute"} => row[r] # "none"
        /\ start[r] \in {"read", "envelope", "execute"} /\ canonical[r] => instance[r]
        /\ start[r] = "execute" => index[r].status # "none"
        /\ index[r].status # "none" => row[r] # "none"
        /\ r \in paid => /\ row[r] # "none" /\ index[r].status # "none"
                         /\ canonical[r] => instance[r]

RebuildIsOfAnIndex ==
    rebuild # NoRebuild => /\ rebuild.of \in Starts /\ rebuild.to # "none"
                           /\ row[rebuild.of] # "none"

Latest ==
    \A r \in Starts : start[r] = "executing" =>
        pressed \in {0, r} /\ \A q \in Starts : start[q] = "executing" => q = r

Troubled ==
    \A r \in Starts :
        /\ start[r] \in {"begin", "instance", "read", "envelope", "execute", "executing"}
              /\ holder # r => trouble[r] > 0
        /\ start[r] = "compensate" => trouble[r] > 0
        /\ start[r] = "compensate" /\ holder # r => trouble[r] > 1
        /\ start[r] = "failed" /\ row[r] = "running" => trouble[r] > 1

PreInv == PreTypeOK /\ Durable /\ RebuildIsOfAnIndex /\ Latest /\ Troubled

-----------------------------------------------------------------------------
LEMMA TypeInit == PreInit => PreTypeOK
<1>. SUFFICES ASSUME PreInit PROVE PreTypeOK
    OBVIOUS
<1>1. /\ start \in [Starts -> Stage] /\ row \in [Starts -> RunRow]
      /\ canonical \in [Starts -> BOOLEAN] /\ instance \in [Starts -> BOOLEAN]
      /\ paid \subseteq Starts
    BY DEF PreInit, Stage, RunRow
<1>2. NoIndex \in [status : RunRow, bound : BOOLEAN, rev : Nat]
    BY DEF NoIndex, RunRow
<1>3. index \in [Starts -> [status : RunRow, bound : BOOLEAN, rev : Nat]]
    BY <1>2 DEF PreInit
<1>4. /\ 0 \in 0 .. MaxStarts /\ 0 \in 0 .. MaxTrouble
      /\ pressed \in 0 .. MaxStarts /\ holder \in {Elsewhere} \cup (0 .. MaxStarts)
    BY PreCallAssumption DEF PreInit
<1>5. trouble \in [Starts -> 0 .. MaxTrouble]
    BY <1>4 DEF PreInit
<1>6. rebuild \in [of : 0 .. MaxStarts, to : RunRow,
                   seen : [status : RunRow, bound : BOOLEAN, rev : Nat]]
    BY <1>2, <1>4 DEF PreInit, NoRebuild, RunRow
<1>. QED
    BY <1>1, <1>3, <1>4, <1>5, <1>6 DEF PreTypeOK

LEMMA PreInvInit == PreInit => PreInv
<1>. SUFFICES ASSUME PreInit PROVE PreInv
    OBVIOUS
<1>1. Durable
    BY DEF PreInit, Durable, NoIndex
<1>2. RebuildIsOfAnIndex /\ Latest /\ Troubled
    BY DEF PreInit, RebuildIsOfAnIndex, Latest, Troubled
<1>. QED
    BY <1>1, <1>2, TypeInit DEF PreInv

\* What a number of faults becomes.
LEMMA FaultCount ==
    ASSUME PreTypeOK, NEW r \in Starts, Faulted(r)
    PROVE  /\ trouble' \in [Starts -> 0 .. MaxTrouble]
           /\ \A q \in Starts : trouble'[q] = IF q = r THEN trouble[q] + 1 ELSE trouble[q]
<1>1. /\ trouble \in [Starts -> 0 .. MaxTrouble] /\ trouble[r] < MaxTrouble
      /\ trouble' = [trouble EXCEPT ![r] = trouble[r] + 1]
    BY DEF PreTypeOK, Faulted, MayFail
<1>2. trouble[r] + 1 \in 0 .. MaxTrouble
    <2>1. trouble[r] \in 0 .. MaxTrouble
        BY <1>1
    <2>. QED
        BY <1>1, <2>1, PreCallAssumption
<1>. QED
    BY ONLY <1>1, <1>2

\* Counts do not go down.
LEMMA CountOf ==
    ASSUME PreTypeOK, NEW r \in Starts
    PROVE  trouble[r] \in Nat
    BY DEF PreTypeOK

-----------------------------------------------------------------------------
LEMMA InvPress ==
    ASSUME PreInv, NEW r \in Starts, PressRun(r)
    PROVE  PreInv'
<1>1. /\ start \in [Starts -> Stage] /\ start[r] = "none"
      /\ \A q \in Starts : start[q] # "executing"
      /\ pressed' = r /\ start' = [start EXCEPT ![r] = "lease"]
      /\ UNCHANGED <<canonical, row, instance, index, paid, holder, trouble, rebuild>>
    BY DEF PreInv, PreTypeOK, PressRun, Goes
<1>2. start' \in [Starts -> Stage]
    BY <1>1 DEF Stage
<1>3. pressed' \in 0 .. MaxStarts
    BY <1>1, PreCallAssumption DEF Starts
<1>4. PreTypeOK'
    BY <1>1, <1>2, <1>3 DEF PreInv, PreTypeOK
<1>5. \A q \in Starts : start'[q] = IF q = r THEN "lease" ELSE start[q]
    BY <1>1
<1>6. Durable'
    BY <1>1, <1>5 DEF PreInv, Durable
<1>7. Latest' /\ Troubled' /\ RebuildIsOfAnIndex'
    BY <1>1, <1>5 DEF PreInv, Latest, Troubled, RebuildIsOfAnIndex
<1>. QED
    BY <1>4, <1>6, <1>7 DEF PreInv

\* A stage is reached, and the lease is kept or given back.
LEMMA StageOf ==
    ASSUME PreTypeOK, NEW r \in Starts, NEW s \in Stage
    PROVE  /\ Goes(r, s) => /\ start' \in [Starts -> Stage]
                            /\ \A q \in Starts : start'[q] = IF q = r THEN s ELSE start[q]
           /\ Ends(r, s) => /\ Goes(r, s) /\ holder' \in {Elsewhere} \cup (0 .. MaxStarts)
                            /\ holder' = IF holder = r THEN 0 ELSE holder
<1>1. ASSUME Goes(r, s)
      PROVE  /\ start' \in [Starts -> Stage]
             /\ \A q \in Starts : start'[q] = IF q = r THEN s ELSE start[q]
    BY <1>1 DEF Goes, PreTypeOK
<1>2. ASSUME Ends(r, s)
      PROVE  /\ Goes(r, s) /\ holder' \in {Elsewhere} \cup (0 .. MaxStarts)
             /\ holder' = IF holder = r THEN 0 ELSE holder
    BY <1>2, PreCallAssumption DEF Ends, PreTypeOK
<1>. QED
    BY <1>1, <1>2

LEMMA InvAcquire ==
    ASSUME PreInv, NEW r \in Starts, Acquire(r)
    PROVE  PreInv'
<1>1. /\ start[r] = "lease"
      /\ UNCHANGED <<canonical, row, instance, index, paid, pressed, trouble, rebuild>>
      /\ \/ holder = 0 /\ holder' = r /\ Goes(r, "begin")
         \/ Goes(r, "blocked") /\ holder' = holder
    BY DEF Acquire
<1>2. PreTypeOK /\ "begin" \in Stage /\ "blocked" \in Stage
    BY DEF PreInv, Stage
<1>3. PICK s \in {"begin", "blocked"} :
         /\ start' \in [Starts -> Stage]
         /\ \A q \in Starts : start'[q] = IF q = r THEN s ELSE start[q]
         /\ s = "begin" => holder = 0 /\ holder' = r
         /\ s = "blocked" => holder' = holder
    BY <1>1, <1>2, StageOf
<1>4. holder' \in {Elsewhere} \cup (0 .. MaxStarts)
    BY <1>1, <1>2, PreCallAssumption DEF PreTypeOK, Starts
<1>5. PreTypeOK'
    BY <1>1, <1>2, <1>3, <1>4 DEF PreTypeOK
<1>6. Durable'
    BY <1>1, <1>3 DEF PreInv, Durable
<1>7. Latest' /\ RebuildIsOfAnIndex'
    BY <1>1, <1>3 DEF PreInv, Latest, RebuildIsOfAnIndex
<1>8. Troubled'
    <2>1. holder = 0 => \A q \in Starts : holder # q
        BY DEF Starts
    <2>. QED
        BY <1>1, <1>3, <2>1 DEF PreInv, Troubled
<1>. QED
    BY <1>5, <1>6, <1>7, <1>8 DEF PreInv

LEMMA InvBegin ==
    ASSUME PreInv, NEW r \in Starts, Begin(r)
    PROVE  PreInv'
<1>1. /\ start[r] = "begin" /\ PreTypeOK
      /\ UNCHANGED <<canonical, instance, index, paid, pressed, rebuild>>
    BY DEF Begin, PreInv
<1>2. CASE /\ holder = r /\ row' = [row EXCEPT ![r] = "running"]
           /\ Goes(r, AfterBegin(r)) /\ UNCHANGED <<holder, trouble>>
    <2>1. AfterBegin(r) \in Stage
        BY DEF AfterBegin, Stage
    <2>2. /\ start' \in [Starts -> Stage]
          /\ \A q \in Starts : start'[q] = IF q = r THEN AfterBegin(r) ELSE start[q]
        BY <1>1, <1>2, <2>1, StageOf
    <2>3. /\ row' \in [Starts -> RunRow]
          /\ \A q \in Starts : row'[q] = IF q = r THEN "running" ELSE row[q]
        BY <1>1, <1>2 DEF PreTypeOK, RunRow
    <2>4. PreTypeOK'
        BY <1>1, <1>2, <2>2, <2>3 DEF PreTypeOK
    <2>5. Durable'
        BY <1>1, <2>2, <2>3 DEF PreInv, Durable, AfterBegin
    <2>6. Latest' /\ RebuildIsOfAnIndex' /\ Troubled'
        BY <1>1, <1>2, <2>2, <2>3
        DEF PreInv, Latest, RebuildIsOfAnIndex, Troubled, AfterBegin
    <2>. QED
        BY <2>4, <2>5, <2>6 DEF PreInv
<1>3. CASE /\ IF holder = r THEN Faulted(r) ELSE UNCHANGED trouble
           /\ Ends(r, "failed") /\ UNCHANGED row
    <2>1. "failed" \in Stage
        BY DEF Stage
    <2>2. /\ start' \in [Starts -> Stage]
          /\ \A q \in Starts : start'[q] = IF q = r THEN "failed" ELSE start[q]
          /\ holder' \in {Elsewhere} \cup (0 .. MaxStarts)
          /\ holder' = IF holder = r THEN 0 ELSE holder
        BY <1>1, <1>3, <2>1, StageOf
    <2>3. /\ trouble' \in [Starts -> 0 .. MaxTrouble]
          /\ \A q \in Starts : q # r => trouble'[q] = trouble[q]
        BY <1>1, <1>3, FaultCount DEF PreTypeOK
    <2>4. PreTypeOK'
        BY <1>1, <1>3, <2>2, <2>3 DEF PreTypeOK
    <2>5. Durable'
        BY <1>1, <1>3, <2>2 DEF PreInv, Durable
    <2>6. Latest' /\ RebuildIsOfAnIndex'
        BY <1>1, <1>3, <2>2 DEF PreInv, Latest, RebuildIsOfAnIndex
    <2>7. row[r] = "none"
        BY <1>1 DEF PreInv, Durable
    <2>8. Troubled'
        BY <1>1, <1>3, <2>2, <2>3, <2>7 DEF PreInv, Troubled
    <2>. QED
        BY <2>4, <2>5, <2>6, <2>8 DEF PreInv
<1>. QED
    BY <1>2, <1>3 DEF Begin

\* A step of the chain that fails on its way to the compensation.
LEMMA InvFails ==
    ASSUME PreInv, NEW r \in Starts, Fails(r),
           start[r] \in {"instance", "read", "envelope"},
           UNCHANGED <<canonical, row, instance, index, paid, pressed, holder, rebuild>>
    PROVE  PreInv'
<1>1. PreTypeOK /\ "compensate" \in Stage /\ Goes(r, "compensate") /\ Faulted(r)
    BY DEF PreInv, Stage, Fails
<1>2. /\ start' \in [Starts -> Stage]
      /\ \A q \in Starts : start'[q] = IF q = r THEN "compensate" ELSE start[q]
    BY <1>1, StageOf
<1>3. /\ trouble' \in [Starts -> 0 .. MaxTrouble]
      /\ \A q \in Starts : trouble'[q] = IF q = r THEN trouble[q] + 1 ELSE trouble[q]
    BY <1>1, FaultCount
<1>4. PreTypeOK'
    BY <1>1, <1>2, <1>3 DEF PreTypeOK
<1>5. Durable'
    BY <1>2 DEF PreInv, Durable
<1>6. Latest' /\ RebuildIsOfAnIndex'
    BY <1>2 DEF PreInv, Latest, RebuildIsOfAnIndex
<1>7. Troubled'
    BY <1>1, <1>2, <1>3, CountOf DEF PreInv, Troubled
<1>. QED
    BY <1>4, <1>5, <1>6, <1>7 DEF PreInv

LEMMA InvChain ==
    ASSUME PreInv, NEW r \in Starts, Instance(r) \/ Read(r) \/ Envelope(r)
    PROVE  PreInv'
<1>1. PreTypeOK /\ {"read", "envelope", "execute"} \subseteq Stage
    BY DEF PreInv, Stage
<1>2. CASE /\ Fails(r) /\ start[r] \in {"instance", "read", "envelope"}
           /\ UNCHANGED <<canonical, row, instance, index, paid, pressed, holder, rebuild>>
    BY <1>2, InvFails
<1>3. CASE /\ start[r] = "instance" /\ instance' = [instance EXCEPT ![r] = TRUE]
           /\ Goes(r, "read")
           /\ UNCHANGED <<canonical, row, index, paid, pressed, holder, trouble, rebuild>>
    <2>1. /\ start' \in [Starts -> Stage]
          /\ \A q \in Starts : start'[q] = IF q = r THEN "read" ELSE start[q]
        BY <1>1, <1>3, StageOf
    <2>2. /\ instance' \in [Starts -> BOOLEAN]
          /\ \A q \in Starts : instance'[q] = IF q = r THEN TRUE ELSE instance[q]
        BY <1>1, <1>3 DEF PreTypeOK
    <2>3. PreTypeOK'
        BY <1>1, <1>3, <2>1, <2>2 DEF PreTypeOK
    <2>4. Durable'
        BY <1>3, <2>1, <2>2 DEF PreInv, Durable
    <2>5. Latest' /\ RebuildIsOfAnIndex' /\ Troubled'
        BY <1>3, <2>1 DEF PreInv, Latest, RebuildIsOfAnIndex, Troubled
    <2>. QED
        BY <2>3, <2>4, <2>5 DEF PreInv
<1>4. CASE /\ start[r] = "read" /\ Goes(r, "envelope")
           /\ UNCHANGED <<canonical, row, instance, index, paid, pressed, holder,
                          trouble, rebuild>>
    <2>1. /\ start' \in [Starts -> Stage]
          /\ \A q \in Starts : start'[q] = IF q = r THEN "envelope" ELSE start[q]
        BY <1>1, <1>4, StageOf
    <2>2. PreTypeOK'
        BY <1>1, <1>4, <2>1 DEF PreTypeOK
    <2>3. Durable'
        BY <1>4, <2>1 DEF PreInv, Durable
    <2>4. Latest' /\ RebuildIsOfAnIndex' /\ Troubled'
        BY <1>4, <2>1 DEF PreInv, Latest, RebuildIsOfAnIndex, Troubled
    <2>. QED
        BY <2>2, <2>3, <2>4 DEF PreInv
<1>5. CASE /\ start[r] = "envelope" /\ Goes(r, "execute")
           /\ index' = [index EXCEPT ![r] = [status |-> "running",
                                             bound |-> canonical[r], rev |-> 0]]
           /\ UNCHANGED <<canonical, row, instance, paid, pressed, holder, trouble, rebuild>>
    <2>. DEFINE i == [status |-> "running", bound |-> canonical[r], rev |-> 0]
    <2>1. /\ start' \in [Starts -> Stage]
          /\ \A q \in Starts : start'[q] = IF q = r THEN "execute" ELSE start[q]
        BY <1>1, <1>5, StageOf
    <2>2. i \in [status : RunRow, bound : BOOLEAN, rev : Nat] /\ i.status = "running"
        BY <1>1 DEF PreTypeOK, RunRow
    <2>3. index \in [Starts -> [status : RunRow, bound : BOOLEAN, rev : Nat]]
        BY <1>1 DEF PreTypeOK
    <2>. HIDE DEF i
    <2>4. /\ index' \in [Starts -> [status : RunRow, bound : BOOLEAN, rev : Nat]]
          /\ \A q \in Starts : index'[q] = IF q = r THEN i ELSE index[q]
        <3>1. index' = [index EXCEPT ![r] = i]
            BY <1>5 DEF i
        <3>. QED
            BY <2>2, <2>3, <3>1
    <2>5. PreTypeOK'
        BY <1>1, <1>5, <2>1, <2>4 DEF PreTypeOK
    <2>6. Durable'
        BY <1>5, <2>1, <2>2, <2>4 DEF PreInv, Durable
    <2>7. Latest' /\ RebuildIsOfAnIndex' /\ Troubled'
        BY <1>5, <2>1 DEF PreInv, Latest, RebuildIsOfAnIndex, Troubled
    <2>. QED
        BY <2>5, <2>6, <2>7 DEF PreInv
<1>. QED
    BY <1>2, <1>3, <1>4, <1>5 DEF Instance, Read, Envelope

LEMMA InvCompensate ==
    ASSUME PreInv, NEW r \in Starts, Compensate(r)
    PROVE  PreInv'
<1>1. /\ start[r] = "compensate" /\ Ends(r, "failed") /\ PreTypeOK /\ "failed" \in Stage
      /\ UNCHANGED <<canonical, instance, index, paid, pressed, rebuild>>
    BY DEF Compensate, PreInv, Stage
<1>2. /\ start' \in [Starts -> Stage]
      /\ \A q \in Starts : start'[q] = IF q = r THEN "failed" ELSE start[q]
      /\ holder' \in {Elsewhere} \cup (0 .. MaxStarts)
      /\ holder' = IF holder = r THEN 0 ELSE holder
    BY <1>1, StageOf
<1>3. /\ row' \in [Starts -> RunRow]
      /\ \A q \in Starts : row'[q] = row[q] \/ (q = r /\ row'[q] = "aborted")
    BY <1>1 DEF Compensate, Compensated, PreTypeOK, RunRow
<1>4. /\ trouble' \in [Starts -> 0 .. MaxTrouble]
      /\ \A q \in Starts : q # r => trouble'[q] = trouble[q]
      /\ row'[r] = "running" => trouble'[r] > 1
    <2>1. CASE row' = Compensated(r) /\ UNCHANGED trouble
        <3>1. row'[r] = "aborted"
            BY <1>1, <2>1 DEF Compensated, PreTypeOK
        <3>. QED
            BY <1>1, <2>1, <3>1 DEF PreTypeOK
    <2>2. CASE holder = r /\ Faulted(r)
        BY <1>1, <2>2, FaultCount, CountOf DEF PreInv, Troubled
    <2>3. CASE holder # r /\ UNCHANGED trouble
        BY <1>1, <2>3 DEF PreInv, Troubled, PreTypeOK
    <2>4. \/ row' = Compensated(r) /\ UNCHANGED trouble
          \/ holder = r /\ Faulted(r)
          \/ holder # r /\ UNCHANGED trouble
        BY DEF Compensate
    <2>. QED
        BY ONLY <2>1, <2>2, <2>3, <2>4
<1>5. PreTypeOK'
    BY <1>1, <1>2, <1>3, <1>4 DEF PreTypeOK
<1>6. Durable'
    BY <1>1, <1>2, <1>3 DEF PreInv, Durable
<1>7. Latest' /\ RebuildIsOfAnIndex'
    BY <1>1, <1>2, <1>3 DEF PreInv, Latest, RebuildIsOfAnIndex
<1>8. Troubled'
    BY <1>1, <1>2, <1>3, <1>4 DEF PreInv, Troubled
<1>. QED
    BY <1>5, <1>6, <1>7, <1>8 DEF PreInv

\* The check before the models are called: what they are paid for is stored.
LEMMA InvExecute ==
    ASSUME PreInv, NEW r \in Starts, Execute(r)
    PROVE  PreInv'
<1>1. /\ start[r] = "execute" /\ PreTypeOK /\ {"executing", "over"} \subseteq Stage
      /\ UNCHANGED <<canonical, row, instance, index, pressed, trouble, rebuild>>
    BY DEF Execute, PreInv, Stage
<1>2. CASE IsCurrent(r)
    <2>1. /\ Goes(r, "executing") /\ paid' = paid \cup {r} /\ holder' = holder
          /\ pressed = r
        BY <1>2 DEF Execute, IsCurrent
    <2>2. /\ start' \in [Starts -> Stage]
          /\ \A q \in Starts : start'[q] = IF q = r THEN "executing" ELSE start[q]
        BY <1>1, <2>1, StageOf
    <2>3. PreTypeOK'
        BY <1>1, <2>1, <2>2 DEF PreTypeOK
    <2>4. Durable'
        BY <1>1, <2>1, <2>2 DEF PreInv, Durable
    <2>5. RebuildIsOfAnIndex' /\ Troubled'
        BY <1>1, <2>1, <2>2 DEF PreInv, RebuildIsOfAnIndex, Troubled
    <2>6. \A q \in Starts : start[q] # "executing"
        <3>1. r # 0
            BY DEF Starts
        <3>. QED
            BY <1>1, <2>1, <3>1 DEF PreInv, Latest
    <2>7. Latest'
        BY <1>1, <2>1, <2>2, <2>6 DEF Latest
    <2>. QED
        BY <2>3, <2>4, <2>5, <2>7 DEF PreInv
<1>3. CASE ~IsCurrent(r)
    <2>1. Ends(r, "over") /\ UNCHANGED paid
        BY <1>3 DEF Execute
    <2>2. /\ start' \in [Starts -> Stage]
          /\ \A q \in Starts : start'[q] = IF q = r THEN "over" ELSE start[q]
          /\ holder' \in {Elsewhere} \cup (0 .. MaxStarts)
          /\ holder' = IF holder = r THEN 0 ELSE holder
        BY <1>1, <2>1, StageOf
    <2>3. PreTypeOK'
        BY <1>1, <2>1, <2>2 DEF PreTypeOK
    <2>4. Durable'
        BY <1>1, <2>1, <2>2 DEF PreInv, Durable
    <2>5. Latest' /\ RebuildIsOfAnIndex' /\ Troubled'
        BY <1>1, <2>2 DEF PreInv, Latest, RebuildIsOfAnIndex, Troubled
    <2>. QED
        BY <2>3, <2>4, <2>5 DEF PreInv
<1>. QED
    BY <1>2, <1>3

LEMMA InvSettle ==
    ASSUME PreInv, NEW r \in Starts, Settle(r)
    PROVE  PreInv'
<1>1. /\ start[r] = "executing" /\ Ends(r, "over") /\ PreTypeOK /\ "over" \in Stage
      /\ UNCHANGED <<canonical, instance, index, paid, pressed, trouble, rebuild>>
    BY DEF Settle, PreInv, Stage
<1>2. /\ start' \in [Starts -> Stage]
      /\ \A q \in Starts : start'[q] = IF q = r THEN "over" ELSE start[q]
      /\ holder' \in {Elsewhere} \cup (0 .. MaxStarts)
      /\ holder' = IF holder = r THEN 0 ELSE holder
    BY <1>1, StageOf
<1>3. /\ row' \in [Starts -> RunRow]
      /\ \A q \in Starts : row'[q] = row[q] \/ (q = r /\ row'[q] = "settled")
    BY <1>1 DEF Settle, PreTypeOK, RunRow
<1>4. PreTypeOK'
    BY <1>1, <1>2, <1>3 DEF PreTypeOK
<1>5. Durable'
    BY <1>1, <1>2, <1>3 DEF PreInv, Durable
<1>6. Latest' /\ RebuildIsOfAnIndex' /\ Troubled'
    BY <1>1, <1>2, <1>3 DEF PreInv, Latest, RebuildIsOfAnIndex, Troubled
<1>. QED
    BY <1>4, <1>5, <1>6 DEF PreInv

-----------------------------------------------------------------------------
LEMMA InvLeaseLost ==
    ASSUME PreInv, NEW r \in Starts, LeaseLost(r)
    PROVE  PreInv'
<1>1. /\ holder = r /\ Faulted(r) /\ holder' = Elsewhere /\ pressed' \in {pressed, 0}
      /\ UNCHANGED <<start, canonical, row, instance, index, paid, rebuild>>
      /\ PreTypeOK
    BY DEF LeaseLost, PreInv
<1>2. /\ trouble' \in [Starts -> 0 .. MaxTrouble]
      /\ \A q \in Starts : trouble'[q] = IF q = r THEN trouble[q] + 1 ELSE trouble[q]
    BY <1>1, FaultCount
<1>3. pressed' \in 0 .. MaxStarts
    BY <1>1, PreCallAssumption DEF PreTypeOK
<1>4. PreTypeOK'
    BY <1>1, <1>2, <1>3 DEF PreTypeOK
<1>5. Durable' /\ RebuildIsOfAnIndex'
    BY <1>1 DEF PreInv, Durable, RebuildIsOfAnIndex
<1>6. Latest'
    BY <1>1 DEF PreInv, Latest
<1>7. Troubled'
    BY <1>1, <1>2, CountOf DEF PreInv, Troubled
<1>. QED
    BY <1>4, <1>5, <1>6, <1>7 DEF PreInv

LEMMA InvLeaseFreed ==
    ASSUME PreInv, LeaseFreed
    PROVE  PreInv'
<1>1. /\ holder' = 0
      /\ holder = Elsewhere \/ (holder \in Starts /\ ~InFlight(holder))
      /\ UNCHANGED <<start, canonical, row, instance, index, paid, pressed, trouble, rebuild>>
      /\ PreTypeOK
    BY DEF LeaseFreed, PreInv
<1>2. PreTypeOK'
    BY <1>1, PreCallAssumption DEF PreTypeOK
<1>3. Durable' /\ RebuildIsOfAnIndex' /\ Latest'
    BY <1>1 DEF PreInv, Durable, RebuildIsOfAnIndex, Latest
<1>4. Troubled'
    <2>1. \A q \in Starts : q # Elsewhere
        BY DEF Starts, Elsewhere
    <2>. QED
        BY <1>1, <2>1 DEF PreInv, Troubled, InFlight
<1>. QED
    BY <1>2, <1>3, <1>4 DEF PreInv

LEMMA InvTabCloses ==
    ASSUME PreInv, TabCloses
    PROVE  PreInv'
<1>1. /\ MayFail /\ pressed' = 0 /\ rebuild' = NoRebuild
      /\ start' = [r \in Starts |-> IF InFlight(r) THEN "over" ELSE start[r]]
      /\ trouble' = [r \in Starts |-> IF InFlight(r) THEN trouble[r] + 1 ELSE trouble[r]]
      /\ UNCHANGED <<canonical, row, instance, index, paid, holder>>
      /\ PreTypeOK
    BY DEF TabCloses, PreInv
<1>2. start' \in [Starts -> Stage]
    BY <1>1 DEF PreTypeOK, Stage
<1>3. trouble' \in [Starts -> 0 .. MaxTrouble]
    <2>1. ASSUME NEW r \in Starts
          PROVE  trouble[r] \in 0 .. MaxTrouble /\ trouble[r] + 1 \in 0 .. MaxTrouble
        <3>1. trouble[r] \in 0 .. MaxTrouble /\ trouble[r] < MaxTrouble
            BY <1>1 DEF PreTypeOK, MayFail
        <3>. QED
            BY <3>1, PreCallAssumption
    <2>. QED
        BY ONLY <1>1, <2>1
<1>4. rebuild' \in [of : 0 .. MaxStarts, to : RunRow,
                    seen : [status : RunRow, bound : BOOLEAN, rev : Nat]]
    BY <1>1, PreCallAssumption DEF NoRebuild, NoIndex, RunRow
<1>5. pressed' \in 0 .. MaxStarts
    BY <1>1, PreCallAssumption
<1>6. PreTypeOK'
    BY <1>1, <1>2, <1>3, <1>4, <1>5 DEF PreTypeOK
<1>7. Durable'
    BY <1>1 DEF PreInv, Durable, InFlight
<1>8. Latest' /\ RebuildIsOfAnIndex'
    BY <1>1 DEF Latest, RebuildIsOfAnIndex, InFlight
<1>9. Troubled'
    BY <1>1 DEF PreInv, Troubled, InFlight
<1>. QED
    BY <1>6, <1>7, <1>8, <1>9 DEF PreInv

LEMMA InvSweep ==
    ASSUME PreInv, Sweep
    PROVE  PreInv'
<1>1. /\ row' = [r \in Starts |-> IF row[r] = "running" THEN "interrupted" ELSE row[r]]
      /\ UNCHANGED <<start, canonical, instance, index, paid, pressed, holder, trouble,
                     rebuild>>
      /\ PreTypeOK
    BY DEF Sweep, PreInv
<1>2. row' \in [Starts -> RunRow]
    BY <1>1 DEF PreTypeOK, RunRow
<1>3. PreTypeOK'
    BY <1>1, <1>2 DEF PreTypeOK
<1>4. Durable'
    BY <1>1 DEF PreInv, Durable
<1>5. Latest' /\ RebuildIsOfAnIndex' /\ Troubled'
    BY <1>1 DEF PreInv, Latest, RebuildIsOfAnIndex, Troubled
<1>. QED
    BY <1>3, <1>4, <1>5 DEF PreInv

\* The comparison index is written without a start: bound or rebuilt.
LEMMA IndexWritten ==
    ASSUME PreInv, NEW r \in Starts, NEW i \in [status : RunRow, bound : BOOLEAN, rev : Nat],
           i.status # "none", row[r] # "none", index' = [index EXCEPT ![r] = i],
           UNCHANGED <<start, canonical, row, instance, paid, pressed, holder, trouble>>,
           rebuild' = rebuild \/ rebuild' = NoRebuild
    PROVE  PreInv'
<1>1. PreTypeOK
    BY DEF PreInv
<1>2. index \in [Starts -> [status : RunRow, bound : BOOLEAN, rev : Nat]]
    BY <1>1 DEF PreTypeOK
<1>3. /\ index' \in [Starts -> [status : RunRow, bound : BOOLEAN, rev : Nat]]
      /\ \A q \in Starts : index'[q] = IF q = r THEN i ELSE index[q]
    BY <1>2
<1>4. NoRebuild \in [of : 0 .. MaxStarts, to : RunRow,
                     seen : [status : RunRow, bound : BOOLEAN, rev : Nat]]
    BY PreCallAssumption DEF NoRebuild, NoIndex, RunRow
<1>5. rebuild' \in [of : 0 .. MaxStarts, to : RunRow,
                    seen : [status : RunRow, bound : BOOLEAN, rev : Nat]]
    BY <1>1, <1>4 DEF PreTypeOK
<1>6. PreTypeOK'
    BY <1>1, <1>3, <1>5 DEF PreTypeOK
<1>7. Durable'
    BY <1>3 DEF PreInv, Durable
<1>8. Latest' /\ RebuildIsOfAnIndex' /\ Troubled'
    BY DEF PreInv, Latest, RebuildIsOfAnIndex, Troubled
<1>. QED
    BY <1>6, <1>7, <1>8 DEF PreInv

LEMMA BoundIndex ==
    ASSUME NEW i \in [status : RunRow, bound : BOOLEAN, rev : Nat]
    PROVE  /\ [i EXCEPT !.bound = TRUE] \in [status : RunRow, bound : BOOLEAN, rev : Nat]
           /\ [i EXCEPT !.bound = TRUE].status = i.status /\ i.rev + 1 \in Nat
<1>1. [i EXCEPT !.bound = TRUE] \in [status : RunRow, bound : BOOLEAN, rev : Nat]
    OBVIOUS
<1>2. [i EXCEPT !.bound = TRUE].status = i.status
    OBVIOUS
<1>3. i.rev + 1 \in Nat
    OBVIOUS
<1>. QED
    BY <1>1, <1>2, <1>3

LEMMA InvBind ==
    ASSUME PreInv, NEW r \in Starts, Bind(r)
    PROVE  PreInv'
<1>. DEFINE b == [index[r] EXCEPT !.bound = TRUE]
            i == [b EXCEPT !.rev = index[r].rev + 1]
<1>1. index \in [Starts -> [status : RunRow, bound : BOOLEAN, rev : Nat]]
    BY DEF PreInv, PreTypeOK
<1>2. b \in [status : RunRow, bound : BOOLEAN, rev : Nat] /\ index[r].rev + 1 \in Nat
      /\ b.status = index[r].status
    <2>1. index[r] \in [status : RunRow, bound : BOOLEAN, rev : Nat]
        BY <1>1
    <2>. QED
        BY <2>1, BoundIndex
<1>3. /\ i \in [status : RunRow, bound : BOOLEAN, rev : Nat]
      /\ i.status = index[r].status
    <2>. HIDE DEF b
    <2>. QED
        BY <1>2
<1>4. index' = [index EXCEPT ![r] = i]
    BY <1>1 DEF Bind
<1>5. index[r].status # "none" /\ row[r] # "none"
    BY DEF Bind, PreInv, Durable
<1>6. UNCHANGED <<start, canonical, row, instance, paid, pressed, holder, trouble, rebuild>>
    BY DEF Bind
<1>. HIDE DEF i
<1>. QED
    BY <1>3, <1>4, <1>5, <1>6, IndexWritten

LEMMA InvRebuildReads ==
    ASSUME PreInv, NEW r \in Starts, RebuildReads(r)
    PROVE  PreInv'
<1>1. /\ rebuild' = [of |-> r, to |-> row[r], seen |-> index[r]] /\ PreTypeOK
      /\ row[r] # "none"
      /\ UNCHANGED <<start, canonical, row, instance, index, paid, pressed, holder, trouble>>
    BY DEF RebuildReads, PreInv, Durable
<1>2. /\ r \in 0 .. MaxStarts /\ row[r] \in RunRow
      /\ index[r] \in [status : RunRow, bound : BOOLEAN, rev : Nat]
    BY <1>1, PreCallAssumption DEF PreTypeOK, Starts
<1>3. rebuild' \in [of : 0 .. MaxStarts, to : RunRow,
                    seen : [status : RunRow, bound : BOOLEAN, rev : Nat]]
    BY <1>1, <1>2
<1>4. PreTypeOK'
    BY <1>1, <1>3 DEF PreTypeOK
<1>5. Durable' /\ Latest' /\ Troubled'
    BY <1>1 DEF PreInv, Durable, Latest, Troubled
<1>6. RebuildIsOfAnIndex'
    BY <1>1 DEF RebuildIsOfAnIndex
<1>. QED
    BY <1>4, <1>5, <1>6 DEF PreInv

LEMMA InvRebuildWrites ==
    ASSUME PreInv, RebuildWrites
    PROVE  PreInv'
<1>1. /\ rebuild # NoRebuild /\ rebuild' = NoRebuild
      /\ UNCHANGED <<start, canonical, row, instance, paid, pressed, holder, trouble>>
      /\ PreTypeOK /\ rebuild.of \in Starts /\ rebuild.to # "none"
      /\ row[rebuild.of] # "none"
    BY DEF RebuildWrites, PreInv, RebuildIsOfAnIndex
<1>2. CASE Unchanged
    <2>. DEFINE b == [rebuild.seen EXCEPT !.status = rebuild.to]
                i == [b EXCEPT !.rev = rebuild.seen.rev + 1]
    <2>1. /\ rebuild.seen \in [status : RunRow, bound : BOOLEAN, rev : Nat]
          /\ rebuild.to \in RunRow
        BY <1>1 DEF PreTypeOK
    <2>2. b \in [status : RunRow, bound : BOOLEAN, rev : Nat] /\ b.status = rebuild.to
          /\ rebuild.seen.rev + 1 \in Nat
        BY <2>1
    <2>3. i \in [status : RunRow, bound : BOOLEAN, rev : Nat] /\ i.status = rebuild.to
        <3>. HIDE DEF b
        <3>. QED
            BY <2>2
    <2>4. index' = [index EXCEPT ![rebuild.of] = i]
        BY <1>2, <2>1 DEF RebuildWrites
    <2>. HIDE DEF i
    <2>. QED
        BY <1>1, <2>3, <2>4, IndexWritten
<1>3. CASE ~Unchanged
    <2>1. index' = index
        BY <1>3 DEF RebuildWrites
    <2>3. NoRebuild \in [of : 0 .. MaxStarts, to : RunRow,
                         seen : [status : RunRow, bound : BOOLEAN, rev : Nat]]
        BY PreCallAssumption DEF NoRebuild, NoIndex, RunRow
    <2>4. PreTypeOK'
        BY <1>1, <2>1, <2>3 DEF PreTypeOK
    <2>. QED
        BY <1>1, <2>1, <2>4 DEF PreInv, Durable, Latest, RebuildIsOfAnIndex, Troubled
<1>. QED
    BY <1>2, <1>3

-----------------------------------------------------------------------------
LEMMA PreInvStep == PreInv /\ [PreNext]_preVars => PreInv'
<1>. SUFFICES ASSUME PreInv, [PreNext]_preVars PROVE PreInv'
    OBVIOUS
<1>1. ASSUME NEW r \in Starts,
             \/ PressRun(r) \/ Acquire(r) \/ Begin(r) \/ Instance(r) \/ Read(r)
             \/ Envelope(r) \/ Compensate(r) \/ Execute(r) \/ Settle(r)
             \/ LeaseLost(r) \/ Bind(r) \/ RebuildReads(r)
      PROVE  PreInv'
    BY <1>1, InvPress, InvAcquire, InvBegin, InvChain, InvCompensate, InvExecute,
       InvSettle, InvLeaseLost, InvBind, InvRebuildReads
<1>2. CASE LeaseFreed \/ TabCloses \/ Sweep \/ RebuildWrites
    BY <1>2, InvLeaseFreed, InvTabCloses, InvSweep, InvRebuildWrites
<1>3. CASE UNCHANGED preVars
    BY <1>3 DEF preVars, PreInv, PreTypeOK, Durable, Latest, RebuildIsOfAnIndex, Troubled
<1>. QED
    BY <1>1, <1>2, <1>3 DEF PreNext

\* The inductive invariant of the starts of Compare runs, for any number of
\* presses of Run and any number of faults and lost leases.
THEOREM PreInvariance == PreSpec => []PreInv
    BY PreInvInit, PreInvStep, PTL DEF PreSpec

\* No model is called before the run, its comparison index and the instance of
\* its task are stored, and of several starts at most one calls models.
THEOREM StartsAreDurable == PreSpec => []PaidIsDurable
<1>1. PreInv => PaidIsDurable
    <2>. SUFFICES ASSUME PreInv PROVE PaidIsDurable
        OBVIOUS
    <2>1. paid \subseteq Starts
        BY DEF PreInv, PreTypeOK
    <2>2. \A r \in paid : /\ row[r] # "none" /\ index[r].status # "none"
                          /\ canonical[r] => instance[r]
        BY <2>1 DEF PreInv, Durable
    <2>3. ASSUME NEW q \in Starts, NEW r \in Starts,
                 start[q] = "executing", start[r] = "executing"
          PROVE  q = r
        BY <2>3 DEF PreInv, Latest
    <2>. QED
        BY <2>2, <2>3 DEF PaidIsDurable
<1>. QED
    BY <1>1, PreInvariance, PTL

\* A start that failed leaves a running run behind only when it met a second
\* fault or lost its lease.
THEOREM FailedStartsAreAborted == PreSpec => []FailedStartIsAborted
<1>1. PreInv => FailedStartIsAborted
    BY DEF PreInv, Troubled, FailedStartIsAborted
<1>. QED
    BY <1>1, PreInvariance, PTL

-----------------------------------------------------------------------------
\* MigrationRegistry.

CurrentStep(m) == Planned(m.phase)[m.at]

\* A page inside a step is inside its plan, and a step begins with its first item.
WellPlaced(m) ==
    /\ m.pc \in {"acquire", "step"} => m.item = 1
    /\ m.at <= Len(Planned(m.phase)) + 1
    /\ m.pc \in {"apply", "verify", "adopt", "complete"} => m.at <= Len(Planned(m.phase))

\* What a page may rely on, given what is recorded, marked and moved.
Progress(m, done, marks, new) ==
    /\ \A k \in 1 .. m.at - 1 : Planned(m.phase)[k] \in m.unsat \cup done
    /\ m.pc = "apply" => Needs[CurrentStep(m)] \cap m.unsat = {}
    /\ m.pc = "apply" /\ CurrentStep(m) \in Marked =>
          \A i \in 1 .. m.item - 1 : i \in new[CurrentStep(m)]
    /\ m.pc \in {"adopt", "complete"} /\ CurrentStep(m) \in Marked => CurrentStep(m) \in marks

PagesProgress == \A p \in Tabs : /\ WellPlaced(mig[p])
                                 /\ Progress(mig[p], completed, marker, moved)

MigInv == MigTypeOK /\ PagesProgress /\ MigratedInOrder

Phases == {"blocking", "background", "resume"}

-----------------------------------------------------------------------------
\* The plans, and that a step follows those it needs.
LEMMA Plans ==
    /\ Planned("background") = <<"search">>
    /\ \A f \in Phases \ {"background"} :
          Planned(f) = <<"legacy", "canonical", "taskSets", "comparisons">>
    BY DEF Planned, Phases

LEMMA PlanLengths ==
    \A f \in Phases : /\ Len(Planned(f)) \in 1 .. 4
                      /\ \A k \in 1 .. Len(Planned(f)) : Planned(f)[k] \in Step
    BY Plans DEF Phases, Step, Imports, Marked

LEMMA NeedsAreEarlier ==
    ASSUME NEW f \in Phases, NEW k \in 1 .. Len(Planned(f)), Planned(f)[k] \in Marked,
           NEW n \in Needs[Planned(f)[k]]
    PROVE  \E j \in 1 .. k - 1 : Planned(f)[j] = n
<1>1. CASE f = "background"
    BY <1>1, Plans DEF Marked
<1>2. CASE f # "background"
    <2>1. Planned(f) = <<"legacy", "canonical", "taskSets", "comparisons">>
        BY <1>2, Plans
    <2>2. k \in 1 .. 4
        BY <2>1
    <2>3. CASE k = 1
        BY <2>1, <2>3 DEF Marked
    <2>4. CASE k = 2
        BY <2>1, <2>4 DEF Needs, Step, Imports, Marked
    <2>5. CASE k = 3
        <3>1. n = "canonical"
            BY <2>1, <2>5 DEF Needs, Step, Imports, Marked
        <3>. QED
            BY <2>1, <2>5, <3>1
    <2>6. CASE k = 4
        <3>1. n = "taskSets"
            BY <2>1, <2>6 DEF Needs, Step, Imports, Marked
        <3>. QED
            BY <2>1, <2>6, <3>1
    <2>. QED
        BY <2>2, <2>3, <2>4, <2>5, <2>6
<1>. QED
    BY <1>1, <1>2

-----------------------------------------------------------------------------
\* What a page relies on is not taken away by another.
LEMMA ProgressGrows ==
    ASSUME NEW m \in Page, NEW d1, NEW d2, NEW k1, NEW k2, NEW n1, NEW n2,
           d1 \subseteq d2, k1 \subseteq k2,
           \A s \in Marked : n1[s] \subseteq n2[s],
           Progress(m, d1, k1, n1)
    PROVE  Progress(m, d2, k2, n2)
    BY DEF Progress

\* A step that is passed leaves a page that is one.
LEMMA PassedIsPage ==
    ASSUME NEW m \in Page, m.at \in 1 .. 4
    PROVE  /\ Passed(m) \in Page /\ Passed(m).at = m.at + 1 /\ Passed(m).pc = "step"
           /\ Passed(m).phase = m.phase /\ Passed(m).unsat = m.unsat
           /\ Passed(m).item = 1
<1>. DEFINE m1 == [m EXCEPT !.pc = "step"]
            m2 == [m1 EXCEPT !.at = m.at + 1]
            m3 == [m2 EXCEPT !.item = 1]
            m4 == [m3 EXCEPT !.errors = FALSE]
<1>1. m1 \in Page
    BY DEF Page
<1>2. m.at + 1 \in 1 .. 5
    OBVIOUS
<1>3. m2 \in Page
    <2>. HIDE DEF m1
    <2>. QED
        BY <1>1, <1>2 DEF Page
<1>4. m3 \in Page
    <2>. HIDE DEF m2
    <2>. QED
        BY <1>3, MigrationAssumption DEF Page
<1>5. m4 \in Page
    <2>. HIDE DEF m3
    <2>. QED
        BY <1>4 DEF Page
<1>6. Passed(m) = m4
    BY DEF Passed
<1>7. /\ Passed(m).at = m.at + 1 /\ Passed(m).pc = "step"
      /\ Passed(m).phase = m.phase /\ Passed(m).unsat = m.unsat
      /\ Passed(m).item = 1
    BY DEF Page, Passed
<1>. QED
    BY <1>5, <1>6, <1>7

\* The end of a step: it is recorded, or held against its dependents.
LEMMA StepEnds ==
    ASSUME NEW m \in Page, WellPlaced(m), m.at <= Len(Planned(m.phase)),
           NEW d, NEW k, NEW n, Progress(m, d, k, n)
    PROVE  /\ Unsatisfied(m) \in Page /\ WellPlaced(Unsatisfied(m))
           /\ Progress(Unsatisfied(m), d, k, n)
           /\ Passed(m) \in Page /\ WellPlaced(Passed(m))
           /\ CurrentStep(m) \in d => Progress(Passed(m), d, k, n)
<1>1. /\ m.phase \in Phases /\ Len(Planned(m.phase)) \in 1 .. 4
      /\ m.at \in 1 .. 4 /\ CurrentStep(m) \in Step
    <2>1. m.phase \in Phases /\ m.at \in 1 .. 5
        BY DEF Page, Phases
    <2>. QED
        BY <2>1, PlanLengths DEF CurrentStep
<1>2. /\ Passed(m) \in Page /\ Passed(m).at = m.at + 1 /\ Passed(m).pc = "step"
      /\ Passed(m).phase = m.phase /\ Passed(m).unsat = m.unsat
      /\ Passed(m).item = 1
    BY <1>1, PassedIsPage
<1>3. Unsatisfied(m) = [Passed(m) EXCEPT !.unsat = m.unsat \cup {CurrentStep(m)}]
    BY <1>2 DEF Unsatisfied, CurrentStep
<1>4. /\ Unsatisfied(m) \in Page /\ Unsatisfied(m).at = m.at + 1
      /\ Unsatisfied(m).pc = "step" /\ Unsatisfied(m).phase = m.phase
      /\ Unsatisfied(m).unsat = m.unsat \cup {CurrentStep(m)}
      /\ Unsatisfied(m).item = 1
    <2>1. m.unsat \cup {CurrentStep(m)} \in SUBSET Step
        BY <1>1 DEF Page
    <2>2. Unsatisfied(m) \in Page
        BY <1>2, <1>3, <2>1 DEF Page
    <2>. QED
        BY <1>2, <1>3, <2>2 DEF Page
<1>5. WellPlaced(Passed(m)) /\ WellPlaced(Unsatisfied(m))
    BY <1>1, <1>2, <1>4 DEF WellPlaced
<1>6. ASSUME NEW j \in 1 .. m.at
      PROVE  Planned(m.phase)[j] \in m.unsat \cup d \cup {CurrentStep(m)}
    <2>1. CASE j = m.at
        BY <2>1 DEF CurrentStep
    <2>2. CASE j # m.at
        BY <1>1, <2>2 DEF Progress
    <2>. QED
        BY <2>1, <2>2
<1>7. Progress(Unsatisfied(m), d, k, n)
    BY <1>1, <1>4, <1>6 DEF Progress
<1>8. CurrentStep(m) \in d => Progress(Passed(m), d, k, n)
    BY <1>1, <1>2, <1>6 DEF Progress
<1>. QED
    BY <1>2, <1>4, <1>5, <1>7, <1>8

\* A page at the beginning of a phase relies on nothing, nor does a closed one.
LEMMA FreshIsPage ==
    /\ Closed \in Page /\ [Closed EXCEPT !.pc = "open"] \in Page
    /\ \A f \in Phases : Run(f) \in Page /\ Run(f).pc = "acquire" /\ Run(f).at = 1 /\ Run(f).item = 1
<1>1. Closed \in Page
    BY MigrationAssumption DEF Closed, Page
<1>2. [Closed EXCEPT !.pc = "open"] \in Page
    BY <1>1 DEF Page
<1>3. ASSUME NEW f \in Phases
      PROVE  Run(f) \in Page /\ Run(f).pc = "acquire" /\ Run(f).at = 1 /\ Run(f).item = 1
    <2>. DEFINE c == [Closed EXCEPT !.pc = "acquire"]
    <2>1. c \in Page
        BY <1>1 DEF Page
    <2>2. [c EXCEPT !.phase = f] \in Page
        <3>. HIDE DEF c
        <3>. QED
            BY <2>1 DEF Page, Phases
    <2>3. Run(f).pc = "acquire" /\ Run(f).at = 1 /\ Run(f).item = 1
        BY DEF Run, Closed
    <2>. QED
        BY <2>2, <2>3 DEF Run
<1>. QED
    BY <1>1, <1>2, <1>3

LEMMA FreshPages ==
    ASSUME NEW m, m = Closed \/ m = [Closed EXCEPT !.pc = "open"]
                  \/ \E f \in Phases : m = Run(f)
    PROVE  m \in Page /\ WellPlaced(m) /\ \A d, k, n : Progress(m, d, k, n)
<1>1. m \in Page
    BY FreshIsPage
<1>2. m.pc \in {"closed", "open", "acquire"} /\ m.at = 1 /\ m.item = 1
    <2>1. CASE \E f \in Phases : m = Run(f)
        BY <2>1, FreshIsPage
    <2>2. CASE m = Closed \/ m = [Closed EXCEPT !.pc = "open"]
        BY <2>2 DEF Closed
    <2>. QED
        BY <2>1, <2>2
<1>3. WellPlaced(m)
    BY <1>1, <1>2, PlanLengths DEF WellPlaced, Page, Phases
<1>4. ASSUME NEW d, NEW k, NEW n PROVE Progress(m, d, k, n)
    BY <1>2 DEF Progress
<1>. QED
    BY <1>1, <1>3, <1>4

-----------------------------------------------------------------------------
\* What the rest of the state is to a page that steps alone: nothing recorded,
\* marked or moved is lost, and the page that moved is one again.
Grows == /\ completed \subseteq completed' /\ marker \subseteq marker'
         /\ \A s \in Marked : moved[s] \subseteq moved'[s]

Kept(m) == m \in Page /\ WellPlaced(m) /\ Progress(m, completed', marker', moved')

\* One page steps, the others keep what they rely on.
LEMMA PageSteps ==
    ASSUME MigInv, Grows, NEW p \in Tabs, NEW m, Set(p, m), Kept(m)
    PROVE  mig' \in [Tabs -> Page] /\ PagesProgress'
<1>1. mig \in [Tabs -> Page] /\ PagesProgress
    BY DEF MigInv, MigTypeOK
<1>2. mig' = [mig EXCEPT ![p] = m] /\ m \in Page
    BY DEF Set, Kept
<1>3. mig' \in [Tabs -> Page]
    BY <1>1, <1>2
<1>4. ASSUME NEW q \in Tabs
      PROVE  WellPlaced(mig'[q]) /\ Progress(mig'[q], completed', marker', moved')
    <2>1. CASE q = p
        BY <1>1, <1>2, <2>1 DEF Kept
    <2>2. CASE q # p
        <3>1. mig'[q] = mig[q] /\ mig[q] \in Page
            BY <1>1, <1>2, <2>2
        <3>2. WellPlaced(mig[q]) /\ Progress(mig[q], completed, marker, moved)
            BY <1>1 DEF PagesProgress
        <3>3. Progress(mig[q], completed', marker', moved')
            BY <3>1, <3>2, ProgressGrows DEF Grows
        <3>. QED
            BY <3>1, <3>2, <3>3
    <2>. QED
        BY <2>1, <2>2
<1>. QED
    BY <1>3, <1>4 DEF PagesProgress

\* No page steps.
LEMMA NoPageSteps ==
    ASSUME MigInv, mig' = mig, completed' = completed, marker' = marker, moved' = moved
    PROVE  mig' \in [Tabs -> Page] /\ PagesProgress' /\ MigratedInOrder'
    BY DEF MigInv, MigTypeOK, PagesProgress, MigratedInOrder

\* What is known of a page of the invariant.
LEMMA PageOf ==
    ASSUME MigInv, NEW p \in Tabs
    PROVE  /\ mig[p] \in Page /\ WellPlaced(mig[p])
           /\ Progress(mig[p], completed, marker, moved)
    BY DEF MigInv, MigTypeOK, PagesProgress

\* A page that only goes on from one place of its step to another, and does
\* not begin to apply.
LEMMA PcMoves ==
    ASSUME NEW m \in Page, WellPlaced(m), NEW d, NEW k, NEW n, Progress(m, d, k, n),
           NEW c \in {"step", "verify", "adopt", "complete", "release", "open"},
           c \in {"verify", "adopt", "complete"} => m.at <= Len(Planned(m.phase)),
           c = "step" => m.item = 1,
           c \in {"adopt", "complete"} /\ CurrentStep(m) \in Marked => CurrentStep(m) \in k
    PROVE  /\ [m EXCEPT !.pc = c] \in Page /\ WellPlaced([m EXCEPT !.pc = c])
           /\ Progress([m EXCEPT !.pc = c], d, k, n)
<1>. DEFINE r == [m EXCEPT !.pc = c]
<1>1. r \in Page
    BY DEF Page
<1>2. /\ r.pc = c /\ r.at = m.at /\ r.phase = m.phase /\ r.unsat = m.unsat
      /\ r.item = m.item
    BY DEF Page
<1>. HIDE DEF r
<1>3. WellPlaced(r)
    BY <1>2 DEF WellPlaced
<1>4. Progress(r, d, k, n)
    BY <1>2 DEF Progress, CurrentStep
<1>. QED
    BY <1>1, <1>3, <1>4 DEF r

RestTypeOK ==
    /\ moved \in [Imports -> SUBSET Items]
    /\ marker \subseteq Marked /\ completed \subseteq Step
    /\ searchable \in BOOLEAN /\ lapsed \in BOOLEAN
    /\ owner \in Tabs \cup {NoTab, GoneTab}
    /\ mishaps \in 0 .. MaxMishaps

LEMMA MishapCount ==
    ASSUME MigInv, Mishap \/ UNCHANGED mishaps
    PROVE  mishaps' \in 0 .. MaxMishaps
    BY MigrationAssumption DEF MigInv, MigTypeOK, Mishap

\* A page that steps and records, marks and moves nothing.
LEMMA NothingRecorded ==
    ASSUME MigInv, NEW p \in Tabs, NEW m, Set(p, m), m \in Page, WellPlaced(m),
           Progress(m, completed, marker, moved),
           UNCHANGED <<moved, marker, completed>>,
           searchable' \in BOOLEAN, lapsed' \in BOOLEAN,
           owner' \in Tabs \cup {NoTab, GoneTab}, Mishap \/ UNCHANGED mishaps
    PROVE  MigInv'
<1>1. Grows /\ Kept(m)
    BY DEF Grows, Kept
<1>2. mig' \in [Tabs -> Page] /\ PagesProgress'
    BY <1>1, PageSteps
<1>3. MigratedInOrder'
    BY DEF MigInv, MigratedInOrder
<1>4. mishaps' \in 0 .. MaxMishaps
    BY MishapCount
<1>5. MigTypeOK'
    BY <1>2, <1>4 DEF MigInv, MigTypeOK
<1>. QED
    BY <1>2, <1>3, <1>5 DEF MigInv

-----------------------------------------------------------------------------
LEMMA MigInvInit == MigInit => MigInv
<1>. SUFFICES ASSUME MigInit PROVE MigInv
    OBVIOUS
<1>1. Closed \in Page /\ WellPlaced(Closed) /\ \A d, k, n : Progress(Closed, d, k, n)
    BY FreshPages
<1>2. \A p \in Tabs : mig[p] = Closed
    BY DEF MigInit
<1>3. mig \in [Tabs -> Page]
    BY <1>1 DEF MigInit
<1>4. MigTypeOK
    <2>1. moved \in [Imports -> SUBSET Items]
        BY DEF MigInit
    <2>2. mishaps \in 0 .. MaxMishaps
        BY MigrationAssumption DEF MigInit
    <2>3. /\ marker \subseteq Marked /\ completed \subseteq Step
          /\ searchable \in BOOLEAN /\ lapsed \in BOOLEAN
          /\ owner \in Tabs \cup {NoTab, GoneTab}
        BY DEF MigInit
    <2>. QED
        BY <1>3, <2>1, <2>2, <2>3 DEF MigTypeOK
<1>5. PagesProgress
    BY <1>1, <1>2 DEF PagesProgress
<1>6. MigratedInOrder
    BY DEF MigInit, MigratedInOrder, Imports
<1>. QED
    BY <1>4, <1>5, <1>6 DEF MigInv

\* The steps that only move a page.
LEMMA InvOpens ==
    ASSUME MigInv, NEW p \in Tabs, TabOpens(p) \/ ResumeMigration(p)
    PROVE  MigInv'
<1>1. \E f \in Phases : Set(p, Run(f))
    BY DEF TabOpens, ResumeMigration, Phases
<1>2. PICK f \in Phases : Set(p, Run(f))
    BY <1>1
<1>3. Run(f) \in Page /\ WellPlaced(Run(f)) /\ \A d, k, n : Progress(Run(f), d, k, n)
    BY FreshPages
<1>4. UNCHANGED <<moved, marker, completed, searchable, owner, lapsed, mishaps>>
    BY DEF TabOpens, ResumeMigration
<1>. QED
    BY <1>2, <1>3, <1>4, NothingRecorded DEF MigInv, MigTypeOK

LEMMA InvGone ==
    ASSUME MigInv, NEW p \in Tabs, TabCrashes(p) \/ TabReloads(p)
    PROVE  MigInv'
<1>1. TabGone(p) /\ (Mishap \/ UNCHANGED mishaps)
    BY DEF TabCrashes, TabReloads
<1>2. Closed \in Page /\ WellPlaced(Closed) /\ \A d, k, n : Progress(Closed, d, k, n)
    BY FreshPages
<1>3. owner' \in Tabs \cup {NoTab, GoneTab}
    BY <1>1 DEF TabGone, MigInv, MigTypeOK
<1>. QED
    BY <1>1, <1>2, <1>3, NothingRecorded DEF TabGone, MigInv, MigTypeOK

\* The end of a phase.
LEMMA PhaseEnds ==
    ASSUME NEW p \in Tabs, PhaseOver(p)
    PROVE  \E m \in Page : /\ Set(p, m) /\ WellPlaced(m)
                           /\ \A d, k, n : Progress(m, d, k, n)
<1>1. CASE mig[p].phase = "blocking"
    <2>1. "background" \in Phases
        BY DEF Phases
    <2>2. Set(p, Run("background"))
        BY <1>1 DEF PhaseOver
    <2>. QED
        BY <2>1, <2>2, FreshPages
<1>2. CASE mig[p].phase # "blocking"
    <2>1. Set(p, [Closed EXCEPT !.pc = "open"])
        BY <1>2 DEF PhaseOver
    <2>. QED
        BY <2>1, FreshPages
<1>. QED
    BY <1>1, <1>2

LEMMA InvAcquires ==
    ASSUME MigInv, NEW p \in Tabs, AcquireOwner(p)
    PROVE  MigInv'
<1>1. UNCHANGED <<moved, marker, completed, searchable, mishaps>>
    BY DEF AcquireOwner
<1>2. CASE MayOwn(p)
    <2>. DEFINE m == [mig[p] EXCEPT !.pc = "step"]
    <2>1. owner' = p /\ lapsed' = FALSE /\ Set(p, m)
        BY <1>2 DEF AcquireOwner, AtPc
    <2>2. mig[p].item = 1
        BY PageOf DEF WellPlaced, AcquireOwner
    <2>3. m \in Page /\ WellPlaced(m) /\ Progress(m, completed, marker, moved)
        BY <2>2, PageOf, PcMoves
    <2>. HIDE DEF m
    <2>. QED
        BY <1>1, <2>1, <2>3, NothingRecorded DEF MigInv, MigTypeOK
<1>3. CASE ~MayOwn(p)
    <2>1. PhaseOver(p) /\ UNCHANGED <<owner, lapsed>>
        BY <1>3 DEF AcquireOwner
    <2>2. PICK m \in Page : /\ Set(p, m) /\ WellPlaced(m)
                            /\ \A d, k, n : Progress(m, d, k, n)
        BY <2>1, PhaseEnds
    <2>. QED
        BY <1>1, <2>1, <2>2, NothingRecorded DEF MigInv, MigTypeOK
<1>. QED
    BY <1>2, <1>3

LEMMA InvReleases ==
    ASSUME MigInv, NEW p \in Tabs, ReleaseOwner(p)
    PROVE  MigInv'
<1>1. /\ PhaseOver(p) /\ UNCHANGED <<moved, marker, completed, searchable>>
      /\ Mishap \/ UNCHANGED mishaps
    BY DEF ReleaseOwner
<1>2. PICK m \in Page : /\ Set(p, m) /\ WellPlaced(m)
                        /\ \A d, k, n : Progress(m, d, k, n)
    BY <1>1, PhaseEnds
<1>3. owner' \in Tabs \cup {NoTab, GoneTab} /\ lapsed' \in BOOLEAN
    BY DEF ReleaseOwner, MigInv, MigTypeOK
<1>. QED
    BY <1>1, <1>2, <1>3, NothingRecorded DEF MigInv, MigTypeOK

-----------------------------------------------------------------------------
\* The steps inside a plan.
LEMMA InvBlocked ==
    ASSUME MigInv, NEW p \in Tabs, BlockedStep(p)
    PROVE  MigInv'
<1>1. /\ mig[p].at <= Len(Planned(mig[p].phase)) /\ Set(p, Unsatisfied(mig[p]))
      /\ UNCHANGED <<moved, marker, completed, searchable, owner, lapsed, mishaps>>
    BY DEF BlockedStep, AtStep, Blocked
<1>2. /\ Unsatisfied(mig[p]) \in Page /\ WellPlaced(Unsatisfied(mig[p]))
      /\ Progress(Unsatisfied(mig[p]), completed, marker, moved)
    BY <1>1, PageOf, StepEnds
<1>. QED
    BY <1>1, <1>2, NothingRecorded DEF MigInv, MigTypeOK

LEMMA InvLoopEnds ==
    ASSUME MigInv, NEW p \in Tabs, LoopEnds(p)
    PROVE  MigInv'
<1>. DEFINE m == [mig[p] EXCEPT !.pc = "release"]
<1>1. /\ Set(p, m)
      /\ UNCHANGED <<moved, marker, completed, searchable, owner, lapsed, mishaps>>
    BY DEF LoopEnds, AtPc
<1>2. m \in Page /\ WellPlaced(m) /\ Progress(m, completed, marker, moved)
    BY PageOf, PcMoves
<1>. HIDE DEF m
<1>. QED
    BY <1>1, <1>2, NothingRecorded DEF MigInv, MigTypeOK

\* A step that was found to be due begins to apply with its first item.
LEMMA BeginsToApply ==
    ASSUME NEW m \in Page, WellPlaced(m), NEW d, NEW k, NEW n, Progress(m, d, k, n),
           m.pc = "step", m.at <= Len(Planned(m.phase)),
           Needs[CurrentStep(m)] \cap m.unsat = {}
    PROVE  /\ [m EXCEPT !.pc = "apply"] \in Page /\ WellPlaced([m EXCEPT !.pc = "apply"])
           /\ Progress([m EXCEPT !.pc = "apply"], d, k, n)
<1>. DEFINE r == [m EXCEPT !.pc = "apply"]
<1>1. r \in Page
    BY DEF Page
<1>2. /\ r.pc = "apply" /\ r.at = m.at /\ r.phase = m.phase /\ r.unsat = m.unsat
      /\ r.item = 1
    BY DEF Page, WellPlaced
<1>. HIDE DEF r
<1>3. WellPlaced(r)
    BY <1>2 DEF WellPlaced
<1>4. CurrentStep(r) = CurrentStep(m)
    BY <1>2 DEF CurrentStep
<1>5. Progress(r, d, k, n)
    BY <1>2, <1>4 DEF Progress
<1>. QED
    BY <1>1, <1>3, <1>5 DEF r

LEMMA InvInspect ==
    ASSUME MigInv, NEW p \in Tabs, Inspect(p)
    PROVE  MigInv'
<1>1. /\ mig[p].pc = "step" /\ mig[p].at <= Len(Planned(mig[p].phase))
      /\ Needs[CurrentStep(mig[p])] \cap mig[p].unsat = {}
      /\ UNCHANGED <<moved, marker, completed, searchable, owner, lapsed>>
      /\ Mishap \/ UNCHANGED mishaps
    BY DEF Inspect, AtStep, StepOf, CurrentStep
<1>2. /\ mig[p] \in Page /\ WellPlaced(mig[p])
      /\ Progress(mig[p], completed, marker, moved)
    BY PageOf
<1>3. PICK m : Set(p, m) /\ \/ m = Passed(mig[p]) /\ CurrentStep(mig[p]) \in completed
                            \/ m = Unsatisfied(mig[p])
                            \/ m = [mig[p] EXCEPT !.pc = "apply"]
                            \/ /\ m = [mig[p] EXCEPT !.pc = "adopt"]
                               /\ Verified(CurrentStep(mig[p]))
    BY DEF Inspect, AtPc, StepOf, CurrentStep
<1>4. m \in Page /\ WellPlaced(m) /\ Progress(m, completed, marker, moved)
    <2>1. CASE m = Passed(mig[p]) /\ CurrentStep(mig[p]) \in completed
        BY <1>1, <1>2, <2>1, StepEnds
    <2>2. CASE m = Unsatisfied(mig[p])
        BY <1>1, <1>2, <2>2, StepEnds
    <2>3. CASE m = [mig[p] EXCEPT !.pc = "apply"]
        BY <1>1, <1>2, <2>3, BeginsToApply
    <2>4. CASE m = [mig[p] EXCEPT !.pc = "adopt"] /\ Verified(CurrentStep(mig[p]))
        <3>1. CurrentStep(mig[p]) \in Marked => CurrentStep(mig[p]) \in marker
            BY <2>4 DEF Verified, Marked
        <3>. QED
            BY <1>1, <1>2, <2>4, <3>1, PcMoves
    <2>. QED
        BY ONLY <1>3, <2>1, <2>2, <2>3, <2>4
<1>. QED
    BY <1>1, <1>3, <1>4, NothingRecorded DEF MigInv, MigTypeOK

LEMMA InvVerify ==
    ASSUME MigInv, NEW p \in Tabs, Verify(p)
    PROVE  MigInv'
<1>1. /\ mig[p].pc = "verify"
      /\ UNCHANGED <<moved, marker, completed, searchable, owner, lapsed>>
      /\ Mishap \/ UNCHANGED mishaps
    BY DEF Verify
<1>2. /\ mig[p] \in Page /\ WellPlaced(mig[p])
      /\ Progress(mig[p], completed, marker, moved)
      /\ mig[p].at <= Len(Planned(mig[p].phase))
    BY <1>1, PageOf DEF WellPlaced
<1>3. PICK m : Set(p, m) /\ \/ m = Unsatisfied(mig[p])
                            \/ /\ m = [mig[p] EXCEPT !.pc = "complete"]
                               /\ Verified(CurrentStep(mig[p]))
    BY DEF Verify, AtPc, StepOf, CurrentStep
<1>4. m \in Page /\ WellPlaced(m) /\ Progress(m, completed, marker, moved)
    <2>1. CASE m = Unsatisfied(mig[p])
        BY <1>2, <2>1, StepEnds
    <2>2. CASE m = [mig[p] EXCEPT !.pc = "complete"] /\ Verified(CurrentStep(mig[p]))
        <3>1. CurrentStep(mig[p]) \in Marked => CurrentStep(mig[p]) \in marker
            BY <2>2 DEF Verified, Marked
        <3>. QED
            BY <1>2, <2>2, <3>1, PcMoves
    <2>. QED
        BY ONLY <1>3, <2>1, <2>2
<1>. QED
    BY <1>1, <1>3, <1>4, NothingRecorded DEF MigInv, MigTypeOK

LEMMA InvSearch ==
    ASSUME MigInv, NEW p \in Tabs, ApplySearch(p)
    PROVE  MigInv'
<1>1. /\ mig[p].pc = "apply" /\ UNCHANGED <<moved, marker, completed, owner, lapsed>>
      /\ Mishap \/ UNCHANGED mishaps
      /\ searchable' \in BOOLEAN
    BY DEF ApplySearch, MigInv, MigTypeOK
<1>2. /\ mig[p] \in Page /\ WellPlaced(mig[p])
      /\ Progress(mig[p], completed, marker, moved)
      /\ mig[p].at <= Len(Planned(mig[p].phase))
    BY <1>1, PageOf DEF WellPlaced
<1>3. PICK m : Set(p, m) /\ \/ m = Unsatisfied(mig[p])
                            \/ m = [mig[p] EXCEPT !.pc = "verify"]
    BY DEF ApplySearch, AtPc
<1>4. m \in Page /\ WellPlaced(m) /\ Progress(m, completed, marker, moved)
    <2>1. CASE m = Unsatisfied(mig[p])
        BY <1>2, <2>1, StepEnds
    <2>2. CASE m = [mig[p] EXCEPT !.pc = "verify"]
        BY <1>2, <2>2, PcMoves
    <2>. QED
        BY ONLY <1>3, <2>1, <2>2
<1>. QED
    BY <1>1, <1>3, <1>4, NothingRecorded DEF MigInv, MigTypeOK

-----------------------------------------------------------------------------
\* The steps that move, mark or record.
LEMMA NextItemIsPage ==
    ASSUME NEW m \in Page, m.item \in Items
    PROVE  /\ NextItem(m) \in Page
           /\ NextItem(m).pc = m.pc /\ NextItem(m).at = m.at
           /\ NextItem(m).phase = m.phase /\ NextItem(m).unsat = m.unsat
           /\ NextItem(m).item = m.item + 1
<1>1. m.item + 1 \in 1 .. NItems + 1
    BY MigrationAssumption DEF Items
<1>2. NextItem(m) = [m EXCEPT !.item = m.item + 1]
    BY DEF NextItem
<1>3. NextItem(m) \in Page
    BY <1>1, <1>2 DEF Page
<1>. QED
    BY <1>2, <1>3 DEF Page

LEMMA NextItemOf ==
    ASSUME NEW m \in Page, WellPlaced(m), m.pc = "apply", m.item \in Items,
           NEW d, NEW k, NEW n, Progress(m, d, k, n),
           CurrentStep(m) \in Marked => m.item \in n[CurrentStep(m)]
    PROVE  NextItem(m) \in Page /\ WellPlaced(NextItem(m)) /\ Progress(NextItem(m), d, k, n)
<1>1. /\ NextItem(m) \in Page
      /\ NextItem(m).pc = "apply" /\ NextItem(m).at = m.at
      /\ NextItem(m).phase = m.phase /\ NextItem(m).unsat = m.unsat
      /\ NextItem(m).item = m.item + 1
    BY NextItemIsPage
<1>2. WellPlaced(NextItem(m))
    BY <1>1 DEF WellPlaced
<1>3. CurrentStep(NextItem(m)) = CurrentStep(m)
    BY <1>1 DEF CurrentStep
<1>4. ASSUME CurrentStep(m) \in Marked, NEW i \in 1 .. m.item PROVE i \in n[CurrentStep(m)]
    <2>1. m.item \in Nat
        BY MigrationAssumption DEF Items
    <2>2. CASE i = m.item
        BY <1>4, <2>2
    <2>3. CASE i # m.item
        BY <1>4, <2>1, <2>3 DEF Progress
    <2>. QED
        BY <2>2, <2>3
<1>5. NextItem(m).item - 1 = m.item
    <2>1. m.item \in Int
        BY MigrationAssumption DEF Items
    <2>. QED
        BY <1>1, <2>1
<1>6. Progress(NextItem(m), d, k, n)
    <2>1. \A j \in 1 .. m.at - 1 : Planned(m.phase)[j] \in m.unsat \cup d
        BY DEF Progress
    <2>2. Needs[CurrentStep(m)] \cap m.unsat = {}
        BY DEF Progress
    <2>3. CurrentStep(m) \in Marked =>
             \A i \in 1 .. NextItem(m).item - 1 : i \in n[CurrentStep(m)]
        BY ONLY <1>4, <1>5
    <2>. QED
        BY <1>1, <1>3, <2>1, <2>2, <2>3 DEF Progress
<1>. QED
    BY <1>1, <1>2, <1>6

LEMMA ErrorIsNoted ==
    ASSUME NEW m \in Page, WellPlaced(m), NEW d, NEW k, NEW n, Progress(m, d, k, n)
    PROVE  /\ [m EXCEPT !.errors = TRUE] \in Page
           /\ WellPlaced([m EXCEPT !.errors = TRUE])
           /\ Progress([m EXCEPT !.errors = TRUE], d, k, n)
<1>. DEFINE r == [m EXCEPT !.errors = TRUE]
<1>1. r \in Page
    BY DEF Page
<1>2. /\ r.pc = m.pc /\ r.at = m.at /\ r.phase = m.phase /\ r.unsat = m.unsat
      /\ r.item = m.item
    BY DEF Page
<1>. HIDE DEF r
<1>3. WellPlaced(r) /\ CurrentStep(r) = CurrentStep(m)
    BY <1>2 DEF WellPlaced, CurrentStep
<1>4. Progress(r, d, k, n)
    BY <1>2, <1>3 DEF Progress
<1>. QED
    BY <1>1, <1>3, <1>4 DEF r

\* What a migration that applies rests on is recorded.
LEMMA AppliesOverComplete ==
    ASSUME NEW m \in Page, WellPlaced(m), m.pc = "apply", CurrentStep(m) \in Marked,
           NEW d, NEW k, NEW n, Progress(m, d, k, n)
    PROVE  Needs[CurrentStep(m)] \subseteq d
<1>. SUFFICES ASSUME NEW s \in Needs[CurrentStep(m)] PROVE s \in d
    OBVIOUS
<1>1. m.phase \in Phases /\ m.at \in Nat \ {0} /\ m.at <= Len(Planned(m.phase))
    BY DEF Page, Phases, WellPlaced
<1>2. m.at \in 1 .. Len(Planned(m.phase))
    BY <1>1, PlanLengths
<1>3. PICK j \in 1 .. m.at - 1 : Planned(m.phase)[j] = s
    BY <1>1, <1>2, NeedsAreEarlier DEF CurrentStep
<1>. QED
    BY <1>3 DEF Progress

LEMMA InvApplyItem ==
    ASSUME MigInv, NEW p \in Tabs, ApplyItem(p)
    PROVE  MigInv'
<1>1. /\ mig[p].pc = "apply" /\ mig[p].item \in Items /\ CurrentStep(mig[p]) # "search"
      /\ UNCHANGED <<marker, completed, searchable, owner, lapsed>>
    BY DEF ApplyItem, StepOf, CurrentStep
<1>2. /\ mig[p] \in Page /\ WellPlaced(mig[p])
      /\ Progress(mig[p], completed, marker, moved)
      /\ mig[p].at <= Len(Planned(mig[p].phase))
    BY <1>1, PageOf DEF WellPlaced
<1>3. CurrentStep(mig[p]) \in Imports
    <2>1. mig[p].phase \in Phases /\ mig[p].at \in 1 .. Len(Planned(mig[p].phase))
        BY <1>2, PlanLengths DEF Page, Phases
    <2>. QED
        BY <1>1, <2>1, PlanLengths DEF CurrentStep, Step
<1>4. CASE /\ moved' = [moved EXCEPT ![StepOf(p)] = @ \cup {mig[p].item}]
           /\ Set(p, NextItem(mig[p])) /\ UNCHANGED mishaps
    <2>1. /\ moved \in [Imports -> SUBSET Items]
          /\ moved' = [moved EXCEPT ![CurrentStep(mig[p])] = @ \cup {mig[p].item}]
        BY <1>4 DEF MigInv, MigTypeOK, StepOf, CurrentStep
    <2>2. /\ moved' \in [Imports -> SUBSET Items]
          /\ \A s \in Imports : moved[s] \subseteq moved'[s]
          /\ \A s \in Imports : s # CurrentStep(mig[p]) => moved'[s] = moved[s]
          /\ mig[p].item \in moved'[CurrentStep(mig[p])]
        BY <1>1, <1>3, <2>1
    <2>3. Grows
        BY <1>1, <2>2 DEF Grows, Imports
    <2>4. Progress(mig[p], completed', marker', moved')
        BY <1>2, <2>3, ProgressGrows DEF Grows
    <2>5. Kept(NextItem(mig[p]))
        BY <1>1, <1>2, <2>2, <2>4, NextItemOf DEF Kept
    <2>6. mig' \in [Tabs -> Page] /\ PagesProgress'
        BY <1>4, <2>3, <2>5, PageSteps
    <2>7. MigTypeOK'
        <3>1. mishaps' \in 0 .. MaxMishaps
            BY <1>4, MishapCount
        <3>2. MigTypeOK
            BY DEF MigInv
        <3>3. /\ marker' \subseteq Marked /\ completed' \subseteq Step
              /\ searchable' \in BOOLEAN /\ lapsed' \in BOOLEAN
              /\ owner' \in Tabs \cup {NoTab, GoneTab}
            BY <1>1, <3>2 DEF MigTypeOK
        <3>. QED
            BY ONLY <2>2, <2>6, <3>1, <3>3 DEF MigTypeOK
    <2>8. ASSUME NEW s \in Marked
          PROVE  /\ s \in completed' => s \in marker'
                 /\ s \in marker' => moved'[s] = Items
                 /\ moved'[s] # {} => Needs[s] \subseteq completed'
        <3>1. /\ s \in completed => s \in marker
              /\ s \in marker => moved[s] = Items
              /\ moved[s] # {} => Needs[s] \subseteq completed
            BY DEF MigInv, MigratedInOrder
        <3>2. moved[s] \subseteq moved'[s] /\ moved'[s] \subseteq Items
            BY <2>2 DEF Imports
        <3>3. CASE s = CurrentStep(mig[p])
            <4>1. Needs[s] \subseteq completed
                BY <1>1, <1>2, <3>3, AppliesOverComplete
            <4>. QED
                BY <1>1, <3>1, <3>2, <4>1
        <3>4. CASE s # CurrentStep(mig[p])
            <4>1. moved'[s] = moved[s]
                BY <2>2, <3>4 DEF Imports
            <4>. QED
                BY <1>1, <3>1, <4>1
        <3>. QED
            BY <3>3, <3>4
    <2>. QED
        BY <2>6, <2>7, <2>8 DEF MigInv, MigratedInOrder
<1>5. CASE Mishap /\ Set(p, ItemFailed(mig[p])) /\ UNCHANGED moved
    <2>. DEFINE m == ItemFailed(mig[p])
    <2>1. CASE CurrentStep(mig[p]) = "legacy"
        <3>1. CurrentStep(mig[p]) \notin Marked
            BY <2>1 DEF Marked
        <3>2. /\ NextItem(mig[p]) \in Page /\ WellPlaced(NextItem(mig[p]))
              /\ Progress(NextItem(mig[p]), completed, marker, moved)
            BY <1>1, <1>2, <3>1, NextItemOf
        <3>3. m = [NextItem(mig[p]) EXCEPT !.errors = TRUE]
            BY <2>1 DEF ItemFailed, CurrentStep
        <3>4. m \in Page /\ WellPlaced(m) /\ Progress(m, completed, marker, moved)
            BY <3>2, <3>3, ErrorIsNoted
        <3>. HIDE DEF m
        <3>. QED
            BY <1>1, <1>5, <3>4, NothingRecorded DEF m, MigInv, MigTypeOK
    <2>2. CASE CurrentStep(mig[p]) # "legacy"
        <3>1. m = Unsatisfied(mig[p])
            BY <2>2 DEF ItemFailed, CurrentStep
        <3>2. m \in Page /\ WellPlaced(m) /\ Progress(m, completed, marker, moved)
            BY <1>2, <3>1, StepEnds
        <3>. HIDE DEF m
        <3>. QED
            BY <1>1, <1>5, <3>2, NothingRecorded DEF m, MigInv, MigTypeOK
    <2>. QED
        BY <2>1, <2>2
<1>6. \/ /\ moved' = [moved EXCEPT ![StepOf(p)] = @ \cup {mig[p].item}]
         /\ Set(p, NextItem(mig[p])) /\ UNCHANGED mishaps
      \/ Mishap /\ Set(p, ItemFailed(mig[p])) /\ UNCHANGED moved
    BY DEF ApplyItem
<1>. QED
    BY ONLY <1>4, <1>5, <1>6

LEMMA InvApplyEnds ==
    ASSUME MigInv, NEW p \in Tabs, ApplyEnds(p)
    PROVE  MigInv'
<1>1. /\ mig[p].pc = "apply" /\ mig[p].item \notin Items
      /\ UNCHANGED <<moved, completed, searchable, owner, lapsed>>
      /\ Mishap \/ UNCHANGED mishaps
    BY DEF ApplyEnds
<1>2. /\ mig[p] \in Page /\ WellPlaced(mig[p])
      /\ Progress(mig[p], completed, marker, moved)
      /\ mig[p].at <= Len(Planned(mig[p].phase))
    BY <1>1, PageOf DEF WellPlaced
<1>3. CASE marker' = marker \cup ({CurrentStep(mig[p])} \cap Marked)
    <2>1. ASSUME CurrentStep(mig[p]) \in Marked PROVE moved[CurrentStep(mig[p])] = Items
        <3>1. mig[p].item = NItems + 1
            <4>1. mig[p].item \in 1 .. NItems + 1
                BY <1>2 DEF Page
            <4>. QED
                BY <1>1, <4>1, MigrationAssumption DEF Items
        <3>2. \A i \in 1 .. mig[p].item - 1 : i \in moved[CurrentStep(mig[p])]
            BY <1>1, <1>2, <2>1 DEF Progress
        <3>3. 1 .. mig[p].item - 1 = Items
            BY <3>1, MigrationAssumption DEF Items
        <3>4. moved[CurrentStep(mig[p])] \subseteq Items
            BY <2>1 DEF MigInv, MigTypeOK, Imports
        <3>. QED
            BY ONLY <3>2, <3>3, <3>4
    <2>2. Grows
        BY <1>1, <1>3 DEF Grows
    <2>3. Progress(mig[p], completed', marker', moved')
        BY <1>2, <2>2, ProgressGrows DEF Grows
    <2>4. PICK m : Set(p, m) /\ \/ m = Unsatisfied(mig[p])
                                \/ m = [mig[p] EXCEPT !.pc = "verify"]
        BY DEF ApplyEnds
    <2>5. Kept(m)
        <3>1. CASE m = Unsatisfied(mig[p])
            BY <1>2, <2>3, <3>1, StepEnds DEF Kept
        <3>2. CASE m = [mig[p] EXCEPT !.pc = "verify"]
            BY <1>2, <2>3, <3>2, PcMoves DEF Kept
        <3>. QED
            BY <2>4, <3>1, <3>2
    <2>6. mig' \in [Tabs -> Page] /\ PagesProgress'
        BY <2>2, <2>4, <2>5, PageSteps
    <2>7. MigTypeOK'
        <3>1. mishaps' \in 0 .. MaxMishaps
            BY <1>1, MishapCount
        <3>2. MigTypeOK
            BY DEF MigInv
        <3>3. /\ marker' \subseteq Marked /\ completed' \subseteq Step
              /\ searchable' \in BOOLEAN /\ lapsed' \in BOOLEAN
              /\ owner' \in Tabs \cup {NoTab, GoneTab}
            BY <1>1, <1>3, <3>2 DEF MigTypeOK
        <3>4. moved' \in [Imports -> SUBSET Items]
            BY <1>1, <3>2 DEF MigTypeOK
        <3>. QED
            BY ONLY <2>6, <3>1, <3>3, <3>4 DEF MigTypeOK
    <2>8. MigratedInOrder'
        BY <1>1, <1>3, <2>1 DEF MigInv, MigratedInOrder
    <2>. QED
        BY <2>6, <2>7, <2>8 DEF MigInv
<1>4. CASE Set(p, Unsatisfied(mig[p])) /\ UNCHANGED marker
    <2>1. /\ Unsatisfied(mig[p]) \in Page /\ WellPlaced(Unsatisfied(mig[p]))
          /\ Progress(Unsatisfied(mig[p]), completed, marker, moved)
        BY <1>2, StepEnds
    <2>. QED
        BY <1>1, <1>4, <2>1, NothingRecorded DEF MigInv, MigTypeOK
<1>5. \/ marker' = marker \cup ({CurrentStep(mig[p])} \cap Marked)
      \/ Set(p, Unsatisfied(mig[p])) /\ UNCHANGED marker
    BY DEF ApplyEnds, StepOf, CurrentStep
<1>. QED
    BY ONLY <1>3, <1>4, <1>5

LEMMA InvComplete ==
    ASSUME MigInv, NEW p \in Tabs, Complete(p)
    PROVE  MigInv'
<1>1. /\ mig[p].pc \in {"adopt", "complete"}
      /\ UNCHANGED <<moved, marker, searchable, owner, lapsed>>
      /\ Mishap \/ UNCHANGED mishaps
      /\ completed' \in {completed, completed \cup {CurrentStep(mig[p])}}
    BY DEF Complete, StepOf, CurrentStep
<1>2. /\ mig[p] \in Page /\ WellPlaced(mig[p])
      /\ Progress(mig[p], completed, marker, moved)
      /\ mig[p].at <= Len(Planned(mig[p].phase))
    BY <1>1, PageOf DEF WellPlaced
<1>3. CurrentStep(mig[p]) \in Step
    <2>1. mig[p].phase \in Phases /\ mig[p].at \in 1 .. Len(Planned(mig[p].phase))
        BY <1>2, PlanLengths DEF Page, Phases
    <2>. QED
        BY <2>1, PlanLengths DEF CurrentStep
<1>4. Grows
    BY <1>1 DEF Grows
<1>5. Progress(mig[p], completed', marker', moved')
    BY <1>2, <1>4, ProgressGrows DEF Grows
<1>6. PICK m : Set(p, m) /\ \/ m = Passed(mig[p]) /\ CurrentStep(mig[p]) \in completed'
                            \/ m = Unsatisfied(mig[p])
                            \/ m = [mig[p] EXCEPT !.pc = "release"]
    BY DEF Complete, AtPc, StepOf, CurrentStep
<1>7. Kept(m)
    <2>1. CASE m = Passed(mig[p]) /\ CurrentStep(mig[p]) \in completed'
        BY <1>2, <1>5, <2>1, StepEnds DEF Kept
    <2>2. CASE m = Unsatisfied(mig[p])
        BY <1>2, <1>5, <2>2, StepEnds DEF Kept
    <2>3. CASE m = [mig[p] EXCEPT !.pc = "release"]
        BY <1>2, <1>5, <2>3, PcMoves DEF Kept
    <2>. QED
        BY <1>6, <2>1, <2>2, <2>3
<1>8. mig' \in [Tabs -> Page] /\ PagesProgress'
    BY <1>4, <1>6, <1>7, PageSteps
<1>9. MigTypeOK'
    <2>1. mishaps' \in 0 .. MaxMishaps
        BY <1>1, MishapCount
    <2>2. MigTypeOK
        BY DEF MigInv
    <2>3. /\ marker' \subseteq Marked /\ completed' \subseteq Step
          /\ searchable' \in BOOLEAN /\ lapsed' \in BOOLEAN
          /\ owner' \in Tabs \cup {NoTab, GoneTab}
        BY <1>1, <1>3, <2>2 DEF MigTypeOK
    <2>4. moved' \in [Imports -> SUBSET Items]
        BY <1>1, <2>2 DEF MigTypeOK
    <2>. QED
        BY ONLY <1>8, <2>1, <2>3, <2>4 DEF MigTypeOK
<1>10. MigratedInOrder'
    <2>1. CurrentStep(mig[p]) \in Marked => CurrentStep(mig[p]) \in marker
        BY <1>1, <1>2 DEF Progress
    <2>. QED
        BY <1>1, <2>1 DEF MigInv, MigratedInOrder
<1>. QED
    BY <1>8, <1>9, <1>10 DEF MigInv

LEMMA InvLapses ==
    ASSUME MigInv, OwnerLapses
    PROVE  MigInv'
<1>1. /\ UNCHANGED <<mig, moved, marker, completed, searchable, owner, mishaps>>
      /\ lapsed' = TRUE
    BY DEF OwnerLapses
<1>2. mig' \in [Tabs -> Page] /\ PagesProgress' /\ MigratedInOrder'
    BY <1>1, NoPageSteps
<1>3. MigTypeOK'
    BY <1>1 DEF MigInv, MigTypeOK
<1>. QED
    BY <1>2, <1>3 DEF MigInv

-----------------------------------------------------------------------------
LEMMA MigInvStep == MigInv /\ [MigNext]_migVars => MigInv'
<1>. SUFFICES ASSUME MigInv, [MigNext]_migVars PROVE MigInv'
    OBVIOUS
<1>1. ASSUME NEW p \in Tabs, TabOpens(p) \/ ResumeMigration(p) PROVE MigInv'
    BY <1>1, InvOpens
<1>2. ASSUME NEW p \in Tabs, TabCrashes(p) \/ TabReloads(p) PROVE MigInv'
    BY <1>2, InvGone
<1>3. ASSUME NEW p \in Tabs, RegistryStep(p) PROVE MigInv'
    BY <1>3, InvAcquires, InvBlocked, InvInspect, InvApplyItem, InvApplyEnds, InvSearch,
       InvVerify, InvComplete, InvLoopEnds, InvReleases DEF RegistryStep
<1>4. CASE OwnerLapses
    BY <1>4, InvLapses
<1>5. CASE UNCHANGED migVars
    <2>1. UNCHANGED <<mig, moved, marker, completed, searchable, owner, lapsed, mishaps>>
        BY <1>5 DEF migVars
    <2>2. mig' \in [Tabs -> Page] /\ PagesProgress' /\ MigratedInOrder'
        BY <2>1, NoPageSteps
    <2>3. MigTypeOK'
        BY <2>1 DEF MigInv, MigTypeOK
    <2>. QED
        BY <2>2, <2>3 DEF MigInv
<1>6. \/ \E p \in Tabs : \/ TabOpens(p) \/ ResumeMigration(p)
                         \/ TabCrashes(p) \/ TabReloads(p) \/ RegistryStep(p)
      \/ OwnerLapses \/ UNCHANGED migVars
    BY DEF MigNext
<1>. QED
    BY ONLY <1>1, <1>2, <1>3, <1>4, <1>5, <1>6

\* Every variable keeps its type, and pages their progress, whatever the number
\* of pages, items and mishaps: the inductive invariant of the startup migrations.
THEOREM MigInvariance == MigSpec => []MigInv
    BY MigInvInit, MigInvStep, PTL DEF MigSpec

\* A completed migration has its marker and all of its items, and no item was
\* migrated before the steps it needs were recorded, also when two pages apply
\* at once because the lease lapsed under the first, through crashes between
\* any two writes and failures of any of them.
THEOREM MigrationsKeepTheirOrder == MigSpec => []MigratedInOrder
<1>1. MigInv => MigratedInOrder
    BY DEF MigInv
<1>. QED
    BY <1>1, MigInvariance, PTL

-----------------------------------------------------------------------------
\* SearchIndex.

LEMMA SearchTypesInit == SearchInit => SearchTypeOK
<1> SUFFICES ASSUME SearchInit PROVE SearchTypeOK
    OBVIOUS
<1> USE SearchAssumption DEF SearchInit, Nothing, NoHit
<1>1. live \in [Docs -> {Deleted} \cup (0 .. MaxRevision)] /\ indexed \in [Docs -> 0 .. MaxRevision]
    OBVIOUS
<1>2. found \in [Views -> [Docs -> 0 .. MaxRevision]]
    <2>1. [d \in Docs |-> 0] \in [Docs -> 0 .. MaxRevision]
        OBVIOUS
    <2> QED BY <2>1
<1>3. hit \in [Views -> [doc : Docs \cup {"none"}, rev : {Deleted} \cup (0 .. MaxRevision)]]
    <2>1. [doc |-> "none", rev |-> 0]
             \in [doc : Docs \cup {"none"}, rev : {Deleted} \cup (0 .. MaxRevision)]
        OBVIOUS
    <2> QED BY <2>1
<1>4. build \in [Views -> {"idle", "acquire", "renew", "list", "clear", "put", "release"}]
    OBVIOUS
<1>5. holds \in Views \cup {NoView, GoneView} /\ expired \in BOOLEAN
    OBVIOUS
<1>6. upsets \in 0 .. MaxUpsets
    OBVIOUS
<1> QED BY <1>1, <1>2, <1>3, <1>4, <1>5, <1>6 DEF SearchTypeOK

\* What a page rebuilds, and what the lease has to do with it.
LEMMA RebuildKeepsTypes ==
    ASSUME SearchTypeOK, NEW v \in Views,
           VisitRebuilds(v) \/ AskRebuild(v) \/ RebuildStep(v) \/ ViewCrashes(v)
    PROVE  SearchTypeOK'
<1> USE SearchAssumption DEF SearchTypeOK, AtBuild, Upset, Nothing, NoHit
<1> DEFINE Revs == [Docs -> 0 .. MaxRevision]
<1>1. Nothing \in Revs
    OBVIOUS
<1>2. Listed \in Revs
    <2>1. \A d \in Docs : live[d] \in {Deleted} \cup (0 .. MaxRevision)
        OBVIOUS
    <2> QED BY <2>1 DEF Listed, Deleted
<1>3. CASE VisitRebuilds(v) \/ AskRebuild(v)
    BY <1>3 DEF VisitRebuilds, AskRebuild
<1>4. CASE AcquireRebuild(v) \/ RenewRebuild(v)
    BY <1>4 DEF AcquireRebuild, RenewRebuild, Takes
<1>5. CASE ListSources(v)
    <2>1. build' \in [Views -> {"idle", "acquire", "renew", "list", "clear", "put", "release"}]
        BY <1>5 DEF ListSources
    <2>2. found' = found \/ found' = [found EXCEPT ![v] = Listed]
        BY <1>5 DEF ListSources
    <2>3. found' \in [Views -> Revs]
        <3> HIDE DEF Revs
        <3> QED BY <1>2, <2>2 DEF Revs
    <2> QED BY <1>5, <2>1, <2>3 DEF ListSources
<1>6. CASE ClearIndex(v)
    BY <1>1, <1>6, SMTT(30) DEF ClearIndex
<1>7. CASE PutDocuments(v)
    <2>1. found' \in [Views -> Revs] /\ build' \in [Views -> {"idle", "acquire", "renew", "list", "clear", "put", "release"}]
        BY <1>1, <1>7 DEF PutDocuments
    <2>2. indexed' \in Revs
        BY <1>7 DEF PutDocuments
    <2> QED BY <1>7, <2>1, <2>2 DEF PutDocuments
<1>8. CASE ReleaseRebuild(v)
    <2>1. found' \in [Views -> Revs] /\ build' \in [Views -> {"idle", "acquire", "renew", "list", "clear", "put", "release"}]
        BY <1>1, <1>8 DEF ReleaseRebuild
    <2>2. expired' \in BOOLEAN
        BY <1>8 DEF ReleaseRebuild
    <2> QED BY <1>8, <2>1, <2>2 DEF ReleaseRebuild
<1>9. CASE ViewCrashes(v)
    <2>1. found' \in [Views -> Revs] /\ build' \in [Views -> {"idle", "acquire", "renew", "list", "clear", "put", "release"}]
        BY <1>1, <1>9 DEF ViewCrashes
    <2>2. hit' \in [Views -> [doc : Docs \cup {"none"}, rev : {Deleted} \cup (0 .. MaxRevision)]]
        BY <1>9 DEF ViewCrashes
    <2> QED BY <1>9, <2>1, <2>2 DEF ViewCrashes
<1> QED BY <1>3, <1>4, <1>5, <1>6, <1>7, <1>8, <1>9 DEF RebuildStep

LEMMA HitKeepsTypes ==
    ASSUME SearchTypeOK, NEW v \in Views,
           RepairHit(v) \/ \E d \in Docs : ChooseHit(v, d)
    PROVE  SearchTypeOK'
<1> USE SearchAssumption DEF SearchTypeOK, NoHit
<1> DEFINE Hits == [doc : Docs \cup {"none"}, rev : {Deleted} \cup (0 .. MaxRevision)]
<1>1. CASE RepairHit(v)
    <2>1. hit[v].rev \in {Deleted} \cup (0 .. MaxRevision)
        OBVIOUS
    <2> DEFINE rev == hit[v].rev
               to == IF rev > 0 THEN rev ELSE 0
               doc == hit[v].doc
    <2>2. to \in 0 .. MaxRevision
        BY <2>1 DEF Deleted
    <2>4. indexed' = [indexed EXCEPT ![doc] = to]
        BY <1>1 DEF RepairHit
    <2> HIDE DEF to, doc
    <2>5. indexed' \in [Docs -> 0 .. MaxRevision]
        BY <2>2, <2>4
    <2>3. hit' \in [Views -> Hits]
        BY <1>1 DEF RepairHit
    <2> QED BY <1>1, <2>3, <2>5 DEF RepairHit
<1>2. CASE \E d \in Docs : ChooseHit(v, d)
    <2>1. PICK d \in Docs : ChooseHit(v, d)
        BY <1>2
    <2>2. live[d] \in {Deleted} \cup (0 .. MaxRevision)
        OBVIOUS
    <2>3. [doc |-> d, rev |-> live[d]] \in Hits /\ NoHit \in Hits
        BY <2>2
    <2>4. hit' \in [Views -> Hits]
        BY <2>1, <2>3 DEF ChooseHit
    <2> QED BY <2>1, <2>4 DEF ChooseHit
<1> QED BY <1>1, <1>2

LEMMA SearchTypesStep == SearchTypeOK /\ [SearchNext]_searchVars => SearchTypeOK'
<1> SUFFICES ASSUME SearchTypeOK, [SearchNext]_searchVars PROVE SearchTypeOK'
    OBVIOUS
<1>1. ASSUME NEW d \in Docs, SourceWritten(d) PROVE SearchTypeOK'
    <2>1. live[d] + 1 \in 0 .. MaxRevision
        BY <1>1, SearchAssumption DEF SearchTypeOK, SourceWritten, Deleted
    <2> QED BY <1>1, <2>1 DEF SearchTypeOK, SourceWritten
<1>2. ASSUME NEW d \in Docs, SourceDeleted(d) PROVE SearchTypeOK'
    BY <1>2 DEF SearchTypeOK, SourceDeleted
<1>3. CASE RebuildExpires
    BY <1>3, SearchAssumption DEF SearchTypeOK, RebuildExpires, Upset
<1>4. CASE UNCHANGED searchVars
    BY <1>4 DEF SearchTypeOK, searchVars
<1> QED BY <1>1, <1>2, <1>3, <1>4, RebuildKeepsTypes, HitKeepsTypes DEF SearchNext

-----------------------------------------------------------------------------
\* MCServices: the part that was chosen takes its steps, the others stutter.

ServicesInv == CallInv /\ BeatInv /\ PreInv /\ MigInv /\ SearchTypeOK

LEMMA ServicesInvStep ==
    ServicesInv /\ [ServicesNext]_servicesVars => ServicesInv'
<1> SUFFICES ASSUME ServicesInv, [ServicesNext]_servicesVars PROVE ServicesInv'
    OBVIOUS
<1> USE DEF ServicesInv
<1>1. /\ [CallNext]_callVars /\ [BeatNext]_beatVars /\ [PreNext]_preVars
      /\ [MigNext]_migVars /\ [SearchNext]_searchVars
    BY DEF ServicesNext, servicesVars, InCall, InBeat, InStart, InMigration, InSearch
<1> QED BY <1>1, CallInvStep, BeatInvStep, PreInvStep, MigInvStep, SearchTypesStep

\* No part, under any interleaving of the steps of a page, leaves its types:
\* calls and their clocks, the heartbeat, starts before their first call, the
\* migrations of several pages, and the search index and its rebuilds.
THEOREM ServicesTypes == ServicesSpec => []ServicesTypeOK
<1>1. ServicesInit => ServicesInv
    BY CallInvInit, BeatInvInit, PreInvInit, MigInvInit, SearchTypesInit
    DEF ServicesInit, ServicesInv
<1>2. ServicesInv => ServicesTypeOK
    BY DEF ServicesInv, ServicesTypeOK, CallInv, BeatInv, PreInv, MigInv
<1> QED BY <1>1, <1>2, ServicesInvStep, PTL DEF ServicesSpec
=============================================================================
