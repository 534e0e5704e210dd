-------------------------- MODULE NightLight_proofs --------------------------
(***************************************************************************)
(* Theorems about NightLight for any number of sessions.                   *)
(***************************************************************************)
EXTENDS NightLight, TLAPS

LEMMA InitEstablishesInv == Init => NightInv
<1> SUFFICES ASSUME Init PROVE NightInv
  OBVIOUS
<1>1. held \subseteq Reasons /\ cookie \in 0 .. MaxInhibits /\ kwin \subseteq Cookies /\ granted \in 0 .. MaxInhibits
  BY NightAssumption DEF Init
<1>2. TypeOK
  BY <1>1, Zenon DEF Init, TypeOK
<1>3. QED
  BY <1>2 DEF Init, NightInv, InhibitedWhileHeld

LEMMA SessionStartsKeepsInv ==
  ASSUME NightInv, NEW reason \in Reasons, SessionStarts(reason)
  PROVE  NightInv'
<1> USE NightAssumption DEF NightInv, InhibitedWhileHeld, SessionStarts
<1>1. CASE suspend[reason] /\ held # {}
  <2>1. held' = held \cup {reason} /\ UNCHANGED <<cookie, kwin, granted, missed>> /\ promised' = TRUE
    BY <1>1 DEF Acquire
  <2>2. TypeOK'
    BY <2>1 DEF TypeOK, Reasons
  <2>3. missed
    BY <1>1 DEF TypeOK, Reasons
  <2>4. QED
    BY <1>1, <2>1, <2>2, <2>3 DEF Reasons
<1>2. CASE suspend[reason] /\ held = {}
  <2>1. Inhibit({reason})
    BY <1>2 DEF Acquire
  <2>2. CASE /\ granted < MaxInhibits /\ granted' = granted + 1 /\ held' = {reason}
             /\ kwin' = kwin \cup {granted'} /\ cookie' = granted'
             /\ promised' = TRUE /\ UNCHANGED missed
    <3>1. granted' \in Cookies /\ kwin = {}
      BY <1>2, <2>2 DEF TypeOK, Cookies
    <3>2. TypeOK'
      BY <2>2, <3>1 DEF TypeOK, Reasons, Cookies
    <3>3. QED
      BY <2>2, <3>1, <3>2 DEF Reasons
  <2>3. CASE promised' = FALSE /\ UNCHANGED <<held, cookie, kwin, granted, missed>>
    <3>1. TypeOK'
      BY <2>3 DEF TypeOK, Reasons
    <3>2. QED
      BY <1>2, <2>3, <3>1
  <2>4. QED
    BY <2>1, <2>2, <2>3 DEF Inhibit
<1>3. CASE ~suspend[reason]
  <2>1. UNCHANGED <<held, cookie, kwin, granted, missed>> /\ promised' = FALSE
    BY <1>3 DEF Untouched
  <2>2. TypeOK'
    BY <2>1 DEF TypeOK, Reasons
  <2>3. ~missed => held = {}
    BY DEF TypeOK, Reasons
  <2>4. QED
    BY <2>1, <2>2, <2>3
<1>4. QED
  BY <1>1, <1>2, <1>3

LEMMA SessionEndsKeepsInv ==
  ASSUME NightInv, SessionEnds
  PROVE  NightInv'
<1> USE NightAssumption DEF NightInv, TypeOK, Reasons, Cookies, InhibitedWhileHeld, SessionEnds
<1>1. CASE session \notin held
  BY <1>1 DEF Release, Untouched
<1>2. CASE session \in held /\ held # {session}
  BY <1>2 DEF Release
<1>3. CASE held = {session}
  BY <1>3 DEF Release, Uninhibit
<1>4. QED
  BY <1>1, <1>2, <1>3

LEMMA ReleaseAllKeepsInv ==
  ASSUME NightInv, ReleaseAll
  PROVE  NightInv'
<1> USE NightAssumption DEF NightInv, TypeOK, Reasons, Cookies, InhibitedWhileHeld, ReleaseAll
<1>1. CASE held = {}
  BY <1>1 DEF Untouched
<1>2. CASE held # {}
  BY <1>2 DEF Uninhibit
<1>3. QED
  BY <1>1, <1>2

\* NightInv holds in every reachable state.
THEOREM NightInvariant == Spec => []NightInv
<1>1. NightInv /\ [Next]_vars => NightInv'
  <2> SUFFICES ASSUME NightInv, [Next]_vars PROVE NightInv'
    OBVIOUS
  <2>1. CASE SetNightLightSuspend \/ Exit \/ UNCHANGED vars
    BY <2>1 DEF SetNightLightSuspend, Exit, vars, NightInv, TypeOK, InhibitedWhileHeld
  <2>2. QED
    BY <2>1, SessionStartsKeepsInv, SessionEndsKeepsInv, ReleaseAllKeepsInv DEF Next
<1>2. QED
  BY <1>1, InitEstablishesInv, PTL DEF Spec

\* Acquire and Release never leave an inhibition whose cookie is lost.
THEOREM NoInhibitionLost == Spec => []InhibitedWhileHeld
<1>1. NightInv => InhibitedWhileHeld
  BY DEF NightInv
<1>2. QED
  BY <1>1, NightInvariant, PTL

\* A session that suspended the night light keeps it suspended.
THEOREM StaysSuspended == Spec => []SuspendedWhileRunning
<1>1. NightInv => SuspendedWhileRunning
  BY DEF NightInv, InhibitedWhileHeld, SuspendedWhileRunning
<1>2. QED
  BY <1>1, NightInvariant, PTL

\* A session's end frees the night light, unless KWin refused.
THEOREM FreedBetweenSessions == Spec => []FreeBetweenSessions
<1>1. NightInv => FreeBetweenSessions
  BY DEF NightInv, TypeOK, Reasons, InhibitedWhileHeld, FreeBetweenSessions
<1>2. QED
  BY <1>1, NightInvariant, PTL
=============================================================================
