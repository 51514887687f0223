---------------------------- MODULE ProviderCall ----------------------------
(* One paid provider call under its clocks (execution-deadline.ts, as the    *)
(* OpenAI-compatible adapter uses it).  A connect clock stops at the         *)
(* response headers, an inactivity clock starts there and every byte of the  *)
(* stream resets it, an optional overall clock is never reset.  Signals are  *)
(* wired to each other by listeners; an abort runs along the wires and the   *)
(* first one to reach a signal decides how the call is classified.           *)
EXTENDS Integers

CONSTANTS ConnectMs, InactivityMs, OverallMs   \* durations, in ticks

ASSUME CallAssumption == /\ ConnectMs \in Nat \ {0}
                         /\ InactivityMs \in Nat \ {0}
                         /\ OverallMs \in Nat \ {0}

VARIABLES call,     \* how the call was made: stream, marked, overall
          sig,      \* signal -> why it is aborted, or Live
          wires,    \* the listeners: an abort of the first aborts the second
          timer,    \* clock -> ticks left, or Off
          upstream, \* the answer of the provider: sent, headers, ended, broken
          silent,   \* ticks since the last byte (ghost of lastProgressAt)
          outcome   \* what the caller of the adapter is told

callVars == <<call, sig, wires, timer, upstream, silent, outcome>>

Live == "live"
Off  == -1
Timeouts == {"connect_timeout", "stream_inactivity_timeout", "overall_timeout"}
Signals  == {"caller", "fetch", "connect", "overall", "watchdog"}

-----------------------------------------------------------------------------
(* The signals an abort of s reaches: along the wires, as far as live.       *)
Reach(s) ==
    LET step(S) == S \cup {t \in Signals : /\ sig[t] = Live
                                           /\ \E r \in S : <<r, t>> \in wires}
    IN  step(step(step(step({s}))))

(* A clock is cleared when its signal aborts: onComposedAbort.               *)
Cleared(T, hit) ==
    [c \in DOMAIN T |->
        CASE c = "connect" -> IF "connect" \in hit THEN Off ELSE T[c]
          [] c = "inactivity" -> IF "watchdog" \in hit THEN Off ELSE T[c]
          [] c = "overall" ->
               IF (IF call.stream THEN "watchdog" ELSE "overall") \in hit
               THEN Off ELSE T[c]]

AbortAt(s, why) ==
    LET hit == Reach(s)
    IN  /\ sig' = [t \in Signals |->
                     IF t \in hit /\ sig[t] = Live THEN why ELSE sig[t]]
        /\ timer' = Cleared(timer, hit)

(* connect.cleanup(): the clock stops and the signal no longer hears those   *)
(* it was composed of.  For a request the caller is one of them.             *)
Unhooked == {w \in wires : w[2] # "connect"}

(* The signal whose abort settles the pending promise: raceWithAbort.        *)
Raced == IF call.stream THEN "watchdog" ELSE "fetch"

(* An abort that reaches the fetch errors the response before any timer of   *)
(* the event loop can run.                                                   *)
Interrupted == sig[Raced] # Live \/ sig["fetch"] # Live

Pending == outcome = "pending"

-----------------------------------------------------------------------------
(* Mutant of Wiring: the fetch of a stream does not hear the caller.         *)
WiringCallerUnheard(c) ==
    IF c.stream
    THEN {<<"fetch", "connect">>, <<"connect", "watchdog">>, <<"watchdog", "fetch">>}
    ELSE {<<"caller", "connect">>, <<"connect", "fetch">>}
         \cup (IF c.overall THEN {<<"caller", "overall">>, <<"overall", "fetch">>}
                            ELSE {})

(* streamWithExecutionDeadlines: connect hears the fetch signal, the         *)
(* watchdog hears connect, and forwardAbort hands an abort of the watchdog   *)
(* to the fetch.  runWithExecutionDeadlines: connect and overall each hear   *)
(* the caller, and the fetch hears both.                                     *)
Wiring(c) ==
    IF c.stream
    THEN {<<"caller", "fetch">>, <<"fetch", "connect">>,
          <<"connect", "watchdog">>, <<"watchdog", "fetch">>}
    ELSE {<<"caller", "connect">>, <<"connect", "fetch">>}
         \cup (IF c.overall THEN {<<"caller", "overall">>, <<"overall", "fetch">>}
                            ELSE {})

CallInit ==
    /\ call \in [stream : BOOLEAN, marked : BOOLEAN, overall : BOOLEAN]
    /\ sig = [s \in Signals |-> Live]
    /\ wires = Wiring(call)
    /\ timer = [connect |-> ConnectMs,
                inactivity |-> IF call.stream /\ ~call.marked THEN InactivityMs
                                                              ELSE Off,
                overall |-> IF call.overall THEN OverallMs ELSE Off]
    /\ upstream = "sent"
    /\ silent = 0
    /\ outcome = "pending"

(* Time passes; a due timer may run late, never early.                       *)
Tick ==
    /\ Pending
    /\ ~Interrupted
    /\ timer' = [c \in DOMAIN timer |-> IF timer[c] > 0 THEN timer[c] - 1
                                                        ELSE timer[c]]
    /\ silent' = IF silent < InactivityMs THEN silent + 1 ELSE silent
    /\ UNCHANGED <<call, sig, wires, upstream, outcome>>

(* The user aborts the run.                                                  *)
CallerAborts ==
    /\ Pending
    /\ sig["caller"] = Live
    /\ AbortAt("caller", "user_abort")
    /\ UNCHANGED <<call, wires, upstream, silent, outcome>>

(* fire(): the timer of a clock is run by the event loop.                    *)
TimerFires(c, s, why) ==
    /\ Pending
    /\ ~Interrupted
    /\ timer[c] = 0
    /\ AbortAt(s, why)
    /\ UNCHANGED <<call, wires, upstream, silent, outcome>>

ConnectFires    == TimerFires("connect", "connect", "connect_timeout")
InactivityFires == TimerFires("inactivity", "watchdog", "stream_inactivity_timeout")
OverallFires    == TimerFires("overall", IF call.stream THEN "watchdog" ELSE "overall",
                              "overall_timeout")

(* Mutant of Progressed: the inactivity clock is started, never reset.       *)
ProgressedOnce(T) ==
    [T EXCEPT !.inactivity = IF ~call.stream THEN Off
                             ELSE IF @ = Off THEN InactivityMs ELSE @]

(* markProgress(): a byte or an event resets the inactivity clock.           *)
Progressed(T) == [T EXCEPT !.inactivity = IF call.stream THEN InactivityMs ELSE Off]

(* The response headers arrive.  A marked call stops its connect clock and,  *)
(* when it streams, starts to watch for inactivity.                          *)
Headers ==
    /\ Pending
    /\ upstream = "sent"
    /\ ~Interrupted
    /\ upstream' = "headers"
    /\ IF call.marked
       THEN /\ wires' = Unhooked
            /\ timer' = [Progressed(timer) EXCEPT !.connect = Off]
            /\ silent' = 0
       ELSE UNCHANGED <<wires, timer, silent>>
    /\ UNCHANGED <<call, sig, outcome>>

(* The stream delivers: a keep-alive byte, which a marked stream notifies,   *)
(* or an event, the first of which stops the connect clock of a stream       *)
(* without the marker.                                                       *)
Delivers(event) ==
    /\ Pending
    /\ call.stream
    /\ upstream = "headers"
    /\ ~Interrupted
    /\ call.marked \/ event
    /\ timer' = [Progressed(timer) EXCEPT !.connect = Off]
    /\ wires' = Unhooked
    /\ silent' = 0
    /\ UNCHANGED <<call, sig, upstream, outcome>>

(* The provider ends its answer, or the connection drops.                    *)
UpstreamEnds ==
    /\ Pending
    /\ ~Interrupted
    /\ \/ upstream = "headers" /\ upstream' = "ended"
       \/ upstream \in {"sent", "headers"} /\ upstream' = "broken"
    /\ UNCHANGED <<call, sig, wires, timer, silent, outcome>>

(* What the call settles with.  Of an abort and an answer that are both      *)
(* there, the one that settled the race first counts.                        *)
Verdict == IF sig[Raced] # Live THEN sig[Raced] ELSE sig["fetch"]

(* The finally block: the iterator is returned, which waits for its pending  *)
(* read, so a stream settles only once the fetch was aborted or is over;     *)
(* then every clock and every listener goes.                                 *)
Settles ==
    /\ Pending
    /\ \/ /\ Interrupted
          /\ call.stream => sig["fetch"] # Live \/ upstream \in {"ended", "broken"}
          /\ outcome' = Verdict
       \/ /\ upstream \in {"ended", "broken"}
          /\ outcome' = IF upstream = "ended" THEN "done" ELSE "failed"
    /\ timer' = [c \in DOMAIN timer |-> Off]
    /\ wires' = {}
    /\ UNCHANGED <<call, sig, upstream, silent>>

CallNext ==
    \/ Tick
    \/ CallerAborts
    \/ ConnectFires
    \/ InactivityFires
    \/ OverallFires
    \/ Headers
    \/ \E event \in BOOLEAN : Delivers(event)
    \/ UpstreamEnds
    \/ Settles

(* Time passes, and the event loop runs due timers and settled promises.     *)
(* Nothing is assumed of the provider.                                       *)
CallFairness ==
    /\ WF_callVars(Tick)
    /\ WF_callVars(ConnectFires)
    /\ WF_callVars(InactivityFires)
    /\ WF_callVars(OverallFires)
    /\ WF_callVars(Settles)

CallSpec == CallInit /\ [][CallNext]_callVars /\ CallFairness

-----------------------------------------------------------------------------
CallTypeOK ==
    /\ call \in [stream : BOOLEAN, marked : BOOLEAN, overall : BOOLEAN]
    /\ sig \in [Signals -> {Live, "user_abort"} \cup Timeouts]
    /\ wires \subseteq Signals \X Signals
    /\ timer \in [connect : Off .. ConnectMs, inactivity : Off .. InactivityMs,
                 overall : Off .. OverallMs]
    /\ upstream \in {"sent", "headers", "ended", "broken"}
    /\ silent \in 0 .. InactivityMs
    /\ outcome \in {"pending", "done", "failed", "user_abort"} \cup Timeouts

(* A healthy call is never killed: a stream times out for inactivity only    *)
(* after a whole interval without a byte, and a call that has its headers    *)
(* (a stream without the marker: its first event) never for its connection,  *)
(* however late the timers of the page run.                                  *)
TimeoutsAreEarned ==
    \A s \in Signals :
        /\ sig[s] = "stream_inactivity_timeout" => silent = InactivityMs
        /\ sig[s] = "connect_timeout" /\ call.marked =>
             upstream \in {"sent", "broken"}

(* Aborting a run ends its provider calls, whatever the provider does.  It   *)
(* holds of every stream, of every call with an overall ceiling and of those *)
(* whose headers are not marked.                                             *)
Heard == call.stream \/ call.overall \/ ~call.marked
AbortEndsHeardCall == (sig["caller"] # Live /\ Heard) ~> ~Pending

=============================================================================
