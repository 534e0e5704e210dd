------------------------------ MODULE NightLight ------------------------------
(***************************************************************************)
(* Suspending the KDE night light while a session runs: the inhibitor      *)
(* (backend/internal/nightlight/nightlight.go), driven by the engine's     *)
(* session observer, the settings and the shutdown                         *)
(* (backend/internal/dbus/service.go).                                     *)
(*                                                                         *)
(* The observer runs with e.mu held, so sessions start and end one at a    *)
(* time (SyncEngine's ReportsAlternate).  i.mu is held across the call to  *)
(* KWin, which makes each use of the inhibitor one step.                   *)
(***************************************************************************)
EXTENDS Integers, FiniteSets

CONSTANTS
  MaxInhibits,  \* bound: inhibitions KWin grants
  CallsMayFail  \* whether a call to KWin can fail, having done nothing

ASSUME NightAssumption == MaxInhibits \in Nat \ {0} /\ CallsMayFail \in BOOLEAN

Reasons == {"sync", "gaming"}
Cookies == 1 .. MaxInhibits

VARIABLES
  held,      \* i.held
  cookie,    \* i.cookie
  kwin,      \* the inhibitions KWin knows
  granted,   \* how many it has granted
  suspend,   \* SuspendNightLight of each kind of session, in the configuration
  session,   \* "none" or the reason of the running session
  phase,     \* of the program: "up", "released" by Service.Stop, "exited"
  promised,  \* history: the running session acquired the inhibition
  missed     \* history: an uninhibit has failed since KWin was last free

vars == <<held, cookie, kwin, granted, suspend, session, phase, promised, missed>>

TypeOK ==
  /\ held \subseteq Reasons /\ cookie \in 0 .. MaxInhibits /\ kwin \subseteq Cookies
  /\ granted \in 0 .. MaxInhibits
  /\ suspend \in [Reasons -> BOOLEAN]
  /\ session \in Reasons \cup {"none"}
  /\ phase \in {"up", "released", "exited"}
  /\ promised \in BOOLEAN /\ missed \in BOOLEAN

Init ==
  /\ held = {} /\ cookie = 0 /\ kwin = {} /\ granted = 0
  /\ suspend \in [Reasons -> BOOLEAN]
  /\ session = "none" /\ phase = "up"
  /\ promised = FALSE /\ missed = FALSE

-----------------------------------------------------------------------------
(* The inhibitor.                                                          *)

\* KWin answers with a fresh cookie, or the call fails.
Inhibit(reasons) ==
  \/ /\ granted < MaxInhibits
     /\ granted' = granted + 1
     /\ kwin' = kwin \cup {granted'} /\ cookie' = granted'
     /\ held' = reasons
     /\ promised' = TRUE
     /\ UNCHANGED missed
  \/ /\ CallsMayFail
     /\ promised' = FALSE
     /\ UNCHANGED <<held, cookie, kwin, granted, missed>>

\* KWin forgets the cookie, or the call fails and the reasons stay held.
Uninhibit(reasons) ==
  \/ /\ kwin' = kwin \ {cookie}
     /\ held' = reasons
     /\ missed' = FALSE
     /\ UNCHANGED <<cookie, granted>>
  \/ /\ CallsMayFail
     /\ missed' = TRUE
     /\ UNCHANGED <<held, cookie, kwin, granted>>

Untouched == UNCHANGED <<held, cookie, kwin, granted, missed>>

\* Mutant: the inhibition is taken for every reason.
AcquireEach(reason) == Inhibit(held \cup {reason})

Acquire(reason) ==
  IF held # {}
    THEN /\ held' = held \cup {reason}
         /\ promised' = TRUE
         /\ UNCHANGED <<cookie, kwin, granted, missed>>
    ELSE Inhibit({reason})

\* Mutant: the first reason to go lifts the inhibition.
ReleaseAny(reason) == IF reason \in held THEN Uninhibit(held \ {reason}) ELSE Untouched

Release(reason) ==
  CASE reason \notin held -> Untouched
    [] reason \in held /\ held # {reason} ->
         held' = held \ {reason} /\ UNCHANGED <<cookie, kwin, granted, missed>>
    [] OTHER -> Uninhibit({})

-----------------------------------------------------------------------------
(* The service.                                                            *)

\* onSyncSessionChanged(true).
SessionStarts(reason) ==
  /\ session = "none" /\ phase # "exited"
  /\ session' = reason
  /\ IF suspend[reason] THEN Acquire(reason) ELSE Untouched /\ promised' = FALSE
  /\ UNCHANGED <<suspend, phase>>

\* Mutant: the setting is read again at the end.
SessionEndsBySetting ==
  /\ session # "none" /\ phase # "exited"
  /\ session' = "none" /\ promised' = FALSE
  /\ IF suspend[session] THEN Release(session) ELSE Untouched
  /\ UNCHANGED <<suspend, phase>>

\* onSyncSessionChanged(false).
SessionEnds ==
  /\ session # "none" /\ phase # "exited"
  /\ session' = "none" /\ promised' = FALSE
  /\ Release(session)
  /\ UNCHANGED <<suspend, phase>>

\* SetNightLightSuspend.
SetNightLightSuspend ==
  /\ phase = "up"
  /\ suspend' \in [Reasons -> BOOLEAN]
  /\ UNCHANGED <<held, cookie, kwin, granted, session, phase, promised, missed>>

\* Stop lifts whatever is held, and does not stop the engine.
ReleaseAll ==
  /\ phase = "up"
  /\ phase' = "released"
  /\ IF held = {} THEN Untouched ELSE Uninhibit({})
  /\ promised' = FALSE
  /\ UNCHANGED <<suspend, session>>

Exit ==
  /\ phase = "released"
  /\ phase' = "exited"
  /\ UNCHANGED <<held, cookie, kwin, granted, suspend, session, promised, missed>>

Next ==
  \/ \E reason \in Reasons : SessionStarts(reason)
  \/ SessionEnds \/ SetNightLightSuspend \/ ReleaseAll \/ Exit

Spec == Init /\ [][Next]_vars

-----------------------------------------------------------------------------
(* Properties.                                                             *)

\* One inhibition at most, the one whose cookie the service has, and only while
\* it holds a reason: none is ever left that nothing can lift.
InhibitedWhileHeld == kwin = IF held = {} THEN {} ELSE {cookie}

\* A session that suspended the night light keeps it suspended for as long as it
\* runs, whatever an earlier session's failed release left behind.
SuspendedWhileRunning == promised => kwin # {}

\* Between sessions the night light is free, whatever was reconfigured while
\* they ran, unless KWin refused to let go.
FreeBetweenSessions == session = "none" => kwin = {} \/ missed

\* The inductive invariant: only an uninhibit that failed leaves a reason held
\* that is not the running session's.
NightInv ==
  /\ TypeOK
  /\ InhibitedWhileHeld
  /\ promised => held # {} /\ session # "none"
  /\ ~missed => held \subseteq {session}
=============================================================================
