-------------------------- MODULE FrameClock_proofs --------------------------
(***************************************************************************)
(* Theorems about FrameClock for any rates, gaps and number of handlers.   *)
(***************************************************************************)
EXTENDS FrameClock, TLAPS

\* Division with remainder, as the drop counter uses it.
LEMMA DivMod ==
  ASSUME NEW i \in Nat \ {0}, NEW n \in Nat, NEW r \in 0 .. i - 1
  PROVE  /\ (i * n + r) \div i = n
         /\ (i * n + r) % i = r
BY SMTT(60)

LEMMA LessThanOneTick ==
  ASSUME NEW i \in Nat \ {0}, NEW n \in Nat, NEW r \in Nat, i * n + r < i
  PROVE  n = 0
BY SMTT(60)

LEMMA OneTickMore ==
  ASSUME NEW i \in Nat, NEW n \in Nat
  PROVE  i * (n + 1) = i * n + i
BY SMTT(60)

LEMMA ModRange ==
  ASSUME NEW i \in Nat \ {0}, NEW a \in Nat
  PROVE  a % i \in 0 .. i - 1
BY SMTT(60)

LEMMA InitEstablishesInv == Init => ClockInv
<1> SUFFICES ASSUME Init PROVE ClockInv
  OBVIOUS
<1>1. interval \in Nat \ {0}
  BY ClockAssumption DEF Init
<1>2. TypeOK
  <2>1. handler \in [Handlers -> {Idle} \cup [step : {"capturer", "engine"}, interval : Intervals]]
    BY DEF Init
  <2>2. alone \in BOOLEAN /\ pending \in BOOLEAN /\ stalled \in BOOLEAN
    BY Zenon DEF Init
  <2>3. carry \in 0 .. interval - 1 /\ phase \in 0 .. interval - 1 /\ elapsed \in 0 .. MaxGap /\ uncounted \in Int
    BY <1>1, ClockAssumption DEF Init
  <2>4. {saved, capFPS, engFPS, readerInterval, interval} \subseteq Intervals
    BY DEF Init
  <2>5. QED
    BY <2>1, <2>2, <2>3, <2>4, Zenon DEF TypeOK
<1>3. CounterOK
  BY <1>1 DEF Init, CounterOK, Fired
<1>4. QED
  BY <1>2, <1>3 DEF ClockInv

LEMMA SettingsKeepInv ==
  ASSUME ClockInv, TypeOK', UNCHANGED counter
  PROVE  ClockInv'
BY DEF ClockInv, CounterOK, Fired, counter

LEMMA SavesKeepsInv ==
  ASSUME ClockInv, NEW h \in Handlers, NEW i \in Intervals, Saves(h, i)
  PROVE  ClockInv'
<1>1. handler' \in [Handlers -> {Idle} \cup [step : {"capturer", "engine"}, interval : Intervals]]
  BY DEF Saves, At, ClockInv, TypeOK
<1>2. alone' \in BOOLEAN
  BY Zenon DEF Saves, Others
<1>3. /\ saved' \in Intervals
      /\ UNCHANGED <<capFPS, engFPS, readerInterval, interval, carry, elapsed, phase, pending, uncounted, stalled>>
  BY DEF Saves, counter
<1>4. TypeOK'
  BY <1>1, <1>2, <1>3 DEF ClockInv, TypeOK
<1>5. QED
  BY <1>4, SettingsKeepInv DEF Saves

LEMMA HandleKeepsInv ==
  ASSUME ClockInv, NEW h \in Handlers, Handle(h)
  PROVE  ClockInv'
<1>1. handler[h] \in [step : {"capturer", "engine"}, interval : Intervals]
  BY DEF Handle, SetsCapturer, SetsEngine, Idle, At, ClockInv, TypeOK
<1>2. CASE SetsCapturer(h)
  <2>1. TypeOK'
    BY <1>1, <1>2 DEF SetsCapturer, counter, ClockInv, TypeOK
  <2>2. QED
    BY <1>2, <2>1, SettingsKeepInv DEF SetsCapturer
<1>3. CASE SetsEngine(h)
  <2>1. TypeOK'
    BY <1>1, <1>3 DEF SetsEngine, counter, ClockInv, TypeOK
  <2>2. QED
    BY <1>3, <2>1, SettingsKeepInv DEF SetsEngine
<1>4. QED
  BY <1>2, <1>3 DEF Handle

LEMMA ReaderTickKeepsInv ==
  ASSUME ClockInv, ReaderTick
  PROVE  ClockInv'
<1>1. TypeOK'
  BY DEF ReaderTick, settings, counter, ClockInv, TypeOK
<1>2. QED
  BY <1>1, SettingsKeepInv DEF ReaderTick

\* The settings left alone, the counter's types are the whole type invariant.
CounterTyped ==
  /\ interval \in Intervals /\ carry \in 0 .. interval - 1 /\ phase \in 0 .. interval - 1
  /\ elapsed \in 0 .. MaxGap /\ uncounted \in Int

LEMMA CounterTypes ==
  ASSUME TypeOK, UNCHANGED <<settings, capFPS, engFPS>>, readerInterval' \in Intervals,
         CounterTyped', pending' \in BOOLEAN, stalled' \in BOOLEAN
  PROVE  TypeOK'
BY Zenon DEF TypeOK, CounterTyped, settings

\* A tick that fires is one more to reckon with, and an interval has gone by.
LEMMA ElapseKeepsInv ==
  ASSUME ClockInv, Elapse
  PROVE  ClockInv'
<1>1. /\ interval \in Nat \ {0} /\ phase \in 0 .. interval - 1 /\ carry \in Nat /\ elapsed \in Nat
      /\ uncounted \in Nat /\ pending \in BOOLEAN /\ stalled \in BOOLEAN /\ Fired \in Nat
  BY ClockAssumption DEF ClockInv, TypeOK, CounterOK, Fired
<1>2. /\ UNCHANGED <<interval, carry, stalled>> /\ elapsed' = elapsed + 1
  BY DEF Elapse
<1>3. CASE phase + 1 = interval
  <2>1. phase' = 0
    <3>1. interval * 1 + 0 = phase + 1 /\ 0 \in 0 .. interval - 1
      BY <1>1, <1>3
    <3>2. QED
      BY <1>1, <3>1, DivMod DEF Elapse
  <2>2. pending' = TRUE /\ uncounted' = uncounted + (IF pending /\ ~stalled THEN 1 ELSE 0)
    BY <1>3 DEF Elapse
  <2>3. ~stalled => Fired' = Fired + 1
    BY <1>1, <2>2 DEF Fired, ClockInv, CounterOK
  <2>4. interval * (Fired + 1) = interval * Fired + interval
    BY <1>1, OneTickMore
  <2>5. ~stalled => carry + elapsed + 1 = interval * (Fired + 1)
    <3>1. interval * Fired \in Nat
      BY <1>1
    <3>2. QED
      BY <1>1, <1>3, <2>4, <3>1 DEF ClockInv, CounterOK
  <2>6. ~stalled' => carry' + elapsed' = interval' * Fired' + phase'
    <3>1. interval * (Fired + 1) \in Nat
      BY <1>1
    <3>2. QED
      BY <1>1, <1>2, <2>1, <2>3, <2>5, <3>1
  <2>7. TypeOK'
    <3>1. CounterTyped'
      <4>1. elapsed' \in 0 .. MaxGap
        BY <1>1, <1>2, ClockAssumption DEF Elapse
      <4>2. interval' \in Intervals /\ carry' \in 0 .. interval' - 1 /\ phase' \in 0 .. interval' - 1
        BY <1>1, <1>2, <2>1 DEF ClockInv, TypeOK
      <4>3. uncounted' \in Int
        BY <1>1, <2>2
      <4>4. QED
        BY <4>1, <4>2, <4>3 DEF CounterTyped
    <3>2. pending' \in BOOLEAN /\ stalled' \in BOOLEAN
      BY <1>1, <1>2, <2>2, Zenon
    <3>3. UNCHANGED <<settings, capFPS, engFPS>> /\ readerInterval' \in Intervals
      BY DEF Elapse, ClockInv, TypeOK
    <3>4. QED
      BY <3>1, <3>2, <3>3, CounterTypes DEF ClockInv
  <2>8. uncounted' >= 0 /\ (uncounted' > 0 => pending' /\ ~stalled')
    BY <1>1, <1>2, <2>2 DEF ClockInv, CounterOK
  <2>9. QED
    BY <2>6, <2>7, <2>8 DEF ClockInv, CounterOK
<1>4. CASE phase + 1 # interval
  <2>1. phase' = phase + 1 /\ phase + 1 \in 0 .. interval - 1
    <3>1. phase + 1 \in 0 .. interval - 1 /\ interval * 0 + (phase + 1) = phase + 1
      BY <1>1, <1>4
    <3>2. QED
      BY <1>1, <3>1, DivMod DEF Elapse
  <2>2. (pending' <=> pending) /\ uncounted' = uncounted
    BY <1>1, <1>4 DEF Elapse
  <2>3. Fired' = Fired
    BY <2>2 DEF Fired
  <2>4. ~stalled' => carry' + elapsed' = interval' * Fired' + phase'
    <3>1. interval * Fired \in Nat
      BY <1>1
    <3>2. QED
      BY <1>1, <1>2, <2>1, <2>3, <3>1 DEF ClockInv, CounterOK
  <2>5. pending' \in BOOLEAN
    BY Zenon DEF Elapse
  <2>6. TypeOK'
    <3>1. CounterTyped'
      <4>1. elapsed' \in 0 .. MaxGap
        BY <1>1, <1>2, ClockAssumption DEF Elapse
      <4>2. interval' \in Intervals /\ carry' \in 0 .. interval' - 1 /\ phase' \in 0 .. interval' - 1
        BY <1>1, <1>2, <2>1 DEF ClockInv, TypeOK
      <4>3. uncounted' \in Int
        BY <1>1, <2>2
      <4>4. QED
        BY <4>1, <4>2, <4>3 DEF CounterTyped
    <3>2. stalled' \in BOOLEAN
      BY <1>1, <1>2, Zenon
    <3>3. UNCHANGED <<settings, capFPS, engFPS>> /\ readerInterval' \in Intervals
      BY DEF Elapse, ClockInv, TypeOK
    <3>4. QED
      BY <2>5, <3>1, <3>2, <3>3, CounterTypes DEF ClockInv
  <2>7. uncounted' >= 0 /\ (uncounted' > 0 => pending' /\ ~stalled')
    BY <1>1, <1>2, <2>2 DEF ClockInv, CounterOK
  <2>8. QED
    BY <2>4, <2>6, <2>7 DEF ClockInv, CounterOK
<1>5. QED
  BY <1>3, <1>4

\* A tick observed now leaves no lost tick unreported, and invents none.
LEMMA ReportIsExact ==
  ASSUME ClockInv, pending
  PROVE  Left = 0
<1>1. /\ interval \in Nat \ {0} /\ phase \in 0 .. interval - 1 /\ carry \in Nat /\ elapsed \in Nat
      /\ uncounted \in Nat /\ stalled \in BOOLEAN /\ (stalled => uncounted = 0)
  BY ClockAssumption DEF ClockInv, TypeOK, CounterOK
<1>2. CASE elapsed >= StallGap
  BY <1>2 DEF Left
<1>3. CASE stalled
  BY <1>1, <1>3 DEF Left, Reported
<1>4. CASE ~(elapsed >= StallGap) /\ ~stalled
  <2>1. carry + elapsed = interval * (uncounted + 1) + phase
    BY <1>1, <1>4 DEF ClockInv, CounterOK, Fired
  <2>2. (carry + elapsed) \div interval = uncounted + 1
    BY <1>1, <2>1, DivMod
  <2>3. QED
    BY <1>1, <1>4, <2>2 DEF Left, Reported
<1>5. QED
  BY <1>2, <1>3, <1>4

\* What a taken tick reports is what was lost, and what is carried over is
\* the time since the ticker last fired.
LEMMA TickKeepsInv ==
  ASSUME ClockInv, Tick
  PROVE  ClockInv'
<1>1. /\ interval \in Nat \ {0} /\ phase \in 0 .. interval - 1 /\ carry \in Nat /\ elapsed \in Nat
      /\ uncounted \in Nat /\ stalled \in BOOLEAN /\ pending
  BY ClockAssumption DEF Tick, ClockInv, TypeOK, CounterOK
<1>2. UNCHANGED <<interval, phase>> /\ elapsed' = 0 /\ pending' = FALSE
  BY DEF Tick
<1> DEFINE Typed == CounterTyped' /\ stalled' \in BOOLEAN
<1>3. Typed => TypeOK'
  <2>1. UNCHANGED <<settings, capFPS, engFPS>> /\ readerInterval' \in Intervals /\ pending' \in BOOLEAN
    BY DEF Tick, ClockInv, TypeOK
  <2>2. QED
    BY <2>1, CounterTypes DEF ClockInv
<1>4. CASE elapsed >= StallGap
  <2>1. carry' = 0 /\ uncounted' = 0 /\ stalled' = TRUE
    BY <1>1, <1>4, ReportIsExact DEF Tick, Observe
  <2>2. TypeOK'
    <3>1. CounterTyped'
      BY <1>1, <1>2, <2>1, ClockAssumption DEF ClockInv, TypeOK, CounterTyped
    <3>2. stalled' \in BOOLEAN
      BY <2>1, Zenon
    <3>3. QED
      BY <1>3, <3>1, <3>2
  <2>3. QED
    BY <2>1, <2>2 DEF ClockInv, CounterOK
<1>5. CASE ~(elapsed >= StallGap)
  <2> DEFINE ticks == (carry + elapsed) \div interval
  <2>1. /\ carry' = (carry + elapsed) % interval
        /\ uncounted' = uncounted - (IF ticks <= 1 \/ stalled THEN 0 ELSE ticks - 1)
        /\ stalled' = stalled
    BY <1>5 DEF Tick, Observe, Left, Reported
  <2>2. carry' \in 0 .. interval - 1
    BY <1>1, <2>1, ModRange
  <2>3. CASE stalled
    <3>1. uncounted' = 0
      BY <1>1, <2>1, <2>3 DEF ClockInv, CounterOK
    <3>2. TypeOK'
      <4>1. CounterTyped'
        BY <1>1, <1>2, <2>1, <2>2, <3>1, ClockAssumption DEF ClockInv, TypeOK, CounterTyped
      <4>2. stalled' \in BOOLEAN
        BY <1>1, <2>1, Zenon
      <4>3. QED
        BY <1>3, <4>1, <4>2
    <3>3. QED
      BY <2>1, <2>3, <3>1, <3>2 DEF ClockInv, CounterOK
  <2>4. CASE ~stalled
    <3>1. carry + elapsed = interval * (uncounted + 1) + phase
      BY <1>1, <2>4 DEF ClockInv, CounterOK, Fired
    <3>2. ticks = uncounted + 1 /\ carry' = phase
      BY <1>1, <2>1, <3>1, DivMod
    <3>3. uncounted' = 0
      BY <1>1, <2>1, <2>4, <3>2
    <3>4. TypeOK'
      <4>1. CounterTyped'
        BY <1>1, <1>2, <2>1, <2>2, <3>3, ClockAssumption DEF ClockInv, TypeOK, CounterTyped
      <4>2. stalled' \in BOOLEAN
        BY <1>1, <2>1, Zenon
      <4>3. QED
        BY <1>3, <4>1, <4>2
    <3>5. Fired' = 0
      BY <1>2, <3>3 DEF Fired
    <3>6. carry' + elapsed' = interval' * Fired' + phase'
      BY <1>1, <1>2, <3>2, <3>5
    <3>7. QED
      BY <3>3, <3>4, <3>6 DEF ClockInv, CounterOK
  <2>5. QED
    BY <2>3, <2>4
<1>6. QED
  BY <1>4, <1>5

LEMMA RebasedKeepsInv ==
  ASSUME ClockInv, Rebased, uncounted' = 0, UNCHANGED <<settings, capFPS, engFPS>>, readerInterval' \in Intervals
  PROVE  ClockInv'
<1>1. interval' \in Nat \ {0} /\ interval' \in Intervals
  BY ClockAssumption DEF Rebased, ClockInv, TypeOK
<1>2. TypeOK'
  <2>1. pending' \in BOOLEAN /\ stalled' \in BOOLEAN
    BY Zenon DEF Rebased
  <2>2. carry' \in 0 .. interval' - 1 /\ phase' \in 0 .. interval' - 1 /\ elapsed' \in 0 .. MaxGap /\ uncounted' \in Int
    BY <1>1, ClockAssumption DEF Rebased
  <2>3. saved' = saved /\ handler' = handler /\ alone' = alone /\ capFPS' = capFPS /\ engFPS' = engFPS
    BY DEF settings
  <2>4. QED
    BY <1>1, <2>1, <2>2, <2>3, Zenon DEF ClockInv, TypeOK
<1>3. QED
  BY <1>1, <1>2 DEF Rebased, ClockInv, CounterOK, Fired

LEMMA NextKeepsInv ==
  ASSUME ClockInv, [Next]_vars
  PROVE  ClockInv'
<1>1. CASE \E h \in Handlers : Handle(h) \/ \E i \in Intervals : Saves(h, i)
  BY <1>1, HandleKeepsInv, SavesKeepsInv
<1>2. CASE ReaderTick
  BY <1>2, ReaderTickKeepsInv
<1>3. CASE Elapse
  BY <1>3, ElapseKeepsInv
<1>4. CASE Tick
  BY <1>4, TickKeepsInv
<1>5. CASE TickAdopts
  BY <1>5, RebasedKeepsInv, ReportIsExact DEF TickAdopts, ClockInv, TypeOK
<1>6. CASE Restart
  BY <1>6, RebasedKeepsInv DEF Restart, ClockInv, TypeOK
<1>7. CASE UNCHANGED vars
  BY <1>7 DEF vars, settings, counter, ClockInv, TypeOK, CounterOK, Fired
<1>8. QED
  BY <1>1, <1>2, <1>3, <1>4, <1>5, <1>6, <1>7 DEF Next

\* The drop counter's span is the ticks fired and the time since the last,
\* for any rates and any gaps.
THEOREM ClockInvariant == Spec => []ClockInv
<1>1. ClockInv /\ [Next]_vars => ClockInv'
  BY NextKeepsInv
<1>2. QED
  BY InitEstablishesInv, <1>1, PTL DEF Spec

\* dropCounter reports exactly the ticks the ticker lost, until a gap is
\* discarded.
THEOREM DropsAreExact == Spec => []DropsAreLostTicks
<1>1. ClockInv => DropsAreLostTicks
  <2> SUFFICES ASSUME ClockInv, elapsed = 0, ~stalled PROVE uncounted = 0
    BY DEF DropsAreLostTicks
  <2>1. /\ interval \in Nat \ {0} /\ phase \in Nat /\ carry \in 0 .. interval - 1
        /\ uncounted \in Nat /\ Fired \in Nat /\ Fired >= uncounted
    BY ClockAssumption DEF ClockInv, TypeOK, CounterOK, Fired
  <2>2. interval * Fired + phase = carry
    BY <2>1 DEF ClockInv, CounterOK
  <2>3. interval * Fired + phase < interval
    BY <2>1, <2>2
  <2>4. Fired = 0
    BY <2>1, <2>3, LessThanOneTick
  <2>5. QED
    BY <2>1, <2>4
<1>2. QED
  BY ClockInvariant, <1>1, PTL

-----------------------------------------------------------------------------
(* SetSyncSettings.                                                        *)

LEMMA SavesKeepsLastCall ==
  ASSUME ClockInv, NEW h \in Handlers, NEW i \in Intervals, Saves(h, i)
  PROVE  LastCallOK'
<1> SUFFICES ASSUME alone' PROVE LastCallOK'
  BY DEF LastCallOK
<1>1. Others(h) /\ saved' = i
  BY DEF Saves
<1>2. handler' = [handler EXCEPT ![h] = At("capturer", i)] /\ handler \in [Handlers -> {Idle} \cup [step : {"capturer", "engine"}, interval : Intervals]]
  BY DEF Saves, ClockInv, TypeOK
<1>3. handler'[h] = At("capturer", i) /\ \A o \in Handlers \ {h} : handler'[o] = Idle
  BY <1>1, <1>2 DEF Others
<1>4. handler'[h] # Idle
  BY <1>3 DEF At, Idle
<1>5. QED
  BY <1>1, <1>3, <1>4 DEF LastCallOK, RatesAgree, Others, At

LEMMA HandleKeepsLastCall ==
  ASSUME ClockInv, LastCallOK, NEW h \in Handlers, Handle(h)
  PROVE  LastCallOK'
<1> SUFFICES ASSUME alone' PROVE LastCallOK'
  BY DEF LastCallOK
<1>1. alone /\ UNCHANGED saved
  BY DEF Handle, SetsCapturer, SetsEngine
<1>2. handler[h] # Idle
  <2>1. Idle.step = "idle"
    BY DEF Idle, At
  <2>2. handler[h].step = "capturer" \/ handler[h].step = "engine"
    BY DEF Handle, SetsCapturer, SetsEngine
  <2>3. QED
    BY <2>1, <2>2
<1>3. handler \in [Handlers -> {Idle} \cup [step : {"capturer", "engine"}, interval : Intervals]]
  BY DEF ClockInv, TypeOK
<1>4. handler[h] \in [step : {"capturer", "engine"}, interval : Intervals]
  BY <1>2, <1>3
<1>5. /\ Others(h) /\ handler[h].interval = saved
      /\ handler[h].step = "engine" => capFPS = saved
  BY <1>1, <1>2 DEF LastCallOK
<1>6. CASE SetsCapturer(h)
  <2>1. /\ handler'[h] = [handler[h] EXCEPT !.step = "engine"] /\ capFPS' = saved
        /\ \A o \in Handlers \ {h} : handler'[o] = Idle
    BY <1>3, <1>5, <1>6 DEF SetsCapturer, Others
  <2>2. handler'[h].interval = saved /\ handler'[h] # Idle
    BY <1>4, <1>5, <2>1 DEF Idle, At
  <2>3. QED
    BY <1>1, <2>1, <2>2 DEF LastCallOK, RatesAgree, Others
<1>7. CASE SetsEngine(h)
  <2>1. \A o \in Handlers : handler'[o] = Idle
    BY <1>3, <1>5, <1>7 DEF SetsEngine, Others
  <2>2. capFPS' = saved /\ engFPS' = saved
    BY <1>5, <1>7 DEF SetsEngine
  <2>3. QED
    BY <1>1, <2>1, <2>2 DEF LastCallOK, RatesAgree
<1>8. QED
  BY <1>6, <1>7 DEF Handle

LEMMA NextKeepsLastCall ==
  ASSUME ClockInv, LastCallOK, [Next]_vars
  PROVE  LastCallOK'
<1>1. CASE \E h \in Handlers : Handle(h) \/ \E i \in Intervals : Saves(h, i)
  BY <1>1, HandleKeepsLastCall, SavesKeepsLastCall
<1>2. CASE ReaderTick \/ Elapse \/ Tick \/ TickAdopts \/ Restart \/ UNCHANGED vars
  <2>1. UNCHANGED <<saved, handler, alone, capFPS, engFPS>>
    BY <1>2 DEF ReaderTick, Elapse, Tick, TickAdopts, Restart, vars, settings
  <2>2. QED
    BY <2>1 DEF LastCallOK, RatesAgree, Others
<1>3. QED
  BY <1>1, <1>2 DEF Next

\* A SetSyncSettings that overlaps no other leaves the capturer and the engine
\* at the rate it saved, for any number of handlers and any calls before it.
THEOREM RatesAlwaysAgree == Spec => []RatesAgree
<1>1. Init => LastCallOK
  BY DEF Init, LastCallOK, RatesAgree, Idle
<1>2. ClockInv /\ LastCallOK /\ [Next]_vars => LastCallOK'
  BY NextKeepsLastCall
<1>3. LastCallOK => RatesAgree
  BY DEF LastCallOK, RatesAgree
<1>4. QED
  BY <1>1, <1>2, <1>3, ClockInvariant, PTL DEF Spec
=============================================================================
