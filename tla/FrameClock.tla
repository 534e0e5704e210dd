------------------------------- MODULE FrameClock -------------------------------
(***************************************************************************)
(* The frame rate: SetSyncSettings saves it and hands it to the capturer   *)
(* and the engine (backend/internal/dbus/service.go, engine.go, SetFPS),   *)
(* the reader and the sync loop take it up at their next tick              *)
(* (capture.go, nativeFrameReaderLoop; engine.go, streamFrames), and the   *)
(* sync loop reckons from the time between two ticks it took how many its  *)
(* ticker lost (engine.go, dropCounter).                                   *)
(*                                                                         *)
(* A rate is known by its interval, in units of time; the ticker (external)*)
(* keeps one tick for a loop that is behind and loses the others.  Its     *)
(* reset and the moment the counter reckons from are one instant here, two *)
(* readings of the clock in the code.                                      *)
(***************************************************************************)
EXTENDS Integers

CONSTANTS
  Handlers,   \* goroutines that serve SetSyncSettings
  Intervals,  \* the intervals of the rates that may be set
  StallGap,   \* a gap the clock has jumped over
  MaxGap      \* bound: time between two ticks the loop takes

ASSUME ClockAssumption ==
  /\ Intervals \subseteq Nat \ {0} /\ Intervals # {}
  /\ StallGap \in Nat \ {0} /\ MaxGap \in Nat /\ MaxGap >= StallGap

VARIABLES
  \* SetSyncSettings
  saved,      \* config.Sync.FPS
  handler,    \* where each handler is, and with which interval
  alone,      \* history: the last call that was made overlapped no other
  \* ScreenCapture.fps and Engine.fps
  capFPS, engFPS,
  \* nativeFrameReaderLoop
  readerInterval,
  \* streamFrames
  interval,
  carry,      \* dropCounter.carry
  elapsed,    \* the time since dropCounter.lastTick
  \* the sync loop's ticker
  phase,      \* the time since it fired
  pending,    \* a tick waits for the loop
  \* history, since ticker and counter started together
  uncounted,  \* ticks lost less drops reported, until a gap was discarded
  stalled     \* a gap was discarded

settings == <<saved, handler, alone>>
counter == <<interval, carry, elapsed, phase, pending, uncounted, stalled>>
vars == <<settings, capFPS, engFPS, readerInterval, counter>>

At(step, i) == [step |-> step, interval |-> i]
Idle == At("idle", 0)

TypeOK ==
  /\ saved \in Intervals /\ capFPS \in Intervals /\ engFPS \in Intervals
  /\ handler \in [Handlers -> {Idle} \cup [step : {"capturer", "engine"}, interval : Intervals]]
  /\ alone \in BOOLEAN
  /\ readerInterval \in Intervals /\ interval \in Intervals
  /\ carry \in 0 .. interval - 1 /\ phase \in 0 .. interval - 1
  /\ elapsed \in 0 .. MaxGap /\ pending \in BOOLEAN
  /\ uncounted \in Int /\ stalled \in BOOLEAN

\* A daemon with a session under way.
Init ==
  /\ saved \in Intervals /\ capFPS = saved /\ engFPS = saved /\ readerInterval = saved /\ interval = saved
  /\ handler = [h \in Handlers |-> Idle] /\ alone = TRUE
  /\ carry = 0 /\ elapsed = 0 /\ phase = 0 /\ pending = FALSE /\ uncounted = 0 /\ stalled = FALSE

-----------------------------------------------------------------------------
(* SetSyncSettings.                                                        *)

Others(h) == \A o \in Handlers \ {h} : handler[o] = Idle

\* Config.Update; a save that fails reverts the rate and ends the call.
Saves(h, i) ==
  /\ handler[h] = Idle
  /\ saved' = i /\ alone' = Others(h)
  /\ handler' = [handler EXCEPT ![h] = At("capturer", i)]
  /\ UNCHANGED <<capFPS, engFPS, readerInterval, counter>>

\* Mutant: SetFPS leaves the capturer alone.
CapturerLeft(h) ==
  /\ handler[h].step = "capturer"
  /\ handler' = [handler EXCEPT ![h].step = "engine"]
  /\ UNCHANGED <<saved, alone, capFPS, engFPS, readerInterval, counter>>

\* Engine.SetFPS: the capturer's copy, then the engine's.
SetsCapturer(h) ==
  /\ handler[h].step = "capturer"
  /\ capFPS' = handler[h].interval
  /\ handler' = [handler EXCEPT ![h].step = "engine"]
  /\ UNCHANGED <<saved, alone, engFPS, readerInterval, counter>>

SetsEngine(h) ==
  /\ handler[h].step = "engine"
  /\ engFPS' = handler[h].interval
  /\ handler' = [handler EXCEPT ![h] = Idle]
  /\ UNCHANGED <<saved, alone, capFPS, readerInterval, counter>>

-----------------------------------------------------------------------------
(* The loops.                                                              *)

ReaderTick ==
  /\ readerInterval # capFPS
  /\ readerInterval' = capFPS
  /\ UNCHANGED <<settings, capFPS, engFPS, counter>>

\* A unit of time goes by.
Elapse ==
  /\ elapsed < MaxGap
  /\ elapsed' = elapsed + 1
  /\ LET fires == phase + 1 = interval IN
     /\ phase' = (phase + 1) % interval
     /\ pending' = (pending \/ fires)
     /\ uncounted' = uncounted + (IF fires /\ pending /\ ~stalled THEN 1 ELSE 0)
  /\ UNCHANGED <<settings, capFPS, engFPS, readerInterval, interval, carry, stalled>>

\* Drops reported; after a discarded gap nothing is reckoned with any more.
Reported(ticks) == IF ticks <= 1 \/ stalled THEN 0 ELSE ticks - 1

\* Lost ticks left unreported by a tick that is observed now.
Left ==
  IF elapsed >= StallGap THEN 0
  ELSE uncounted - Reported((carry + elapsed) \div interval)

\* Mutant: what has not added up to an interval is forgotten.
ObserveUncarried ==
  /\ uncounted' = Left
  /\ carry' = 0 /\ stalled' = (stalled \/ elapsed >= StallGap)

\* dropCounter.observe: the ticks that went by beyond the one taken were lost.
Observe ==
  /\ uncounted' = Left
  /\ IF elapsed >= StallGap
     THEN carry' = 0 /\ stalled' = TRUE
     ELSE carry' = (carry + elapsed) % interval /\ UNCHANGED stalled

\* The loop takes a tick.
Tick ==
  /\ pending /\ pending' = FALSE
  /\ engFPS = interval
  /\ Observe /\ elapsed' = 0
  /\ UNCHANGED <<settings, capFPS, engFPS, readerInterval, interval, phase>>

\* And takes up a new rate with it, which rebases ticker and counter.
Rebased ==
  /\ carry' = 0 /\ elapsed' = 0 /\ phase' = 0 /\ pending' = FALSE
  /\ stalled' = FALSE
  /\ interval' = engFPS

TickAdopts ==
  /\ pending /\ engFPS # interval
  /\ Rebased /\ uncounted' = Left
  /\ UNCHANGED <<settings, capFPS, engFPS, readerInterval>>

\* The session ends and another starts, with both loops new.
Restart ==
  /\ Rebased /\ uncounted' = 0 /\ readerInterval' = capFPS
  /\ UNCHANGED <<settings, capFPS, engFPS>>

-----------------------------------------------------------------------------
Handle(h) == SetsCapturer(h) \/ SetsEngine(h)

Next ==
  \/ \E h \in Handlers : Handle(h) \/ \E i \in Intervals : Saves(h, i)
  \/ ReaderTick \/ Elapse \/ Tick \/ TickAdopts \/ Restart

Spec == Init /\ [][Next]_vars

\* A handler that has saved goes on, time goes by and the loops take their ticks.
Fairness ==
  /\ \A h \in Handlers : WF_vars(Handle(h))
  /\ WF_vars(ReaderTick) /\ WF_vars(Elapse) /\ WF_vars(Tick \/ TickAdopts)

FairSpec == Spec /\ Fairness

-----------------------------------------------------------------------------
(* Properties.                                                             *)

\* Until a gap is discarded the drops reported are exactly the ticks the
\* ticker lost: mild overload is not rounded away, and no drop is invented,
\* across any pattern of late ticks and changes of rate.
DropsAreLostTicks == elapsed = 0 /\ ~stalled => uncounted = 0

\* Once nothing is being set, the saved rate is the one everything runs at,
\* unless the last call overlapped another.
RatesSettle ==
  <>[](\A h \in Handlers : handler[h] = Idle) =>
    <>[](alone => {capFPS, engFPS, readerInterval, interval} = {saved})

-----------------------------------------------------------------------------
(* The inductive invariant (proved in FrameClock_proofs): the time the     *)
(* counter has yet to reckon with is the ticks fired since, the pending    *)
(* one and the lost ones, and the time since the last of them.             *)

Fired == uncounted + (IF pending THEN 1 ELSE 0)

CounterOK ==
  /\ uncounted >= 0 /\ (uncounted > 0 => pending /\ ~stalled)
  /\ ~stalled => carry + elapsed = interval * Fired + phase

ClockInv == TypeOK /\ CounterOK

-----------------------------------------------------------------------------
(* What SetSyncSettings leaves behind: the safety half of RatesSettle.     *)

\* When no call is under way and the last overlapped no other, the capturer's
\* rate and the engine's are the one saved, although a call writes the three
\* one after the other with nothing held in between.
RatesAgree == alone /\ (\A h \in Handlers : handler[h] = Idle) => capFPS = saved /\ engFPS = saved

\* A call that overlaps no other carries the rate it saved, and at each of its
\* steps the copies already written have it.
LastCallOK ==
  alone =>
    /\ \A h \in Handlers : handler[h] # Idle =>
         /\ Others(h) /\ handler[h].interval = saved
         /\ handler[h].step = "engine" => capFPS = saved
    /\ RatesAgree
=============================================================================
