---------------------------- MODULE SessionControl ----------------------------
(***************************************************************************)
(* What the sync engine (backend/internal/sync/engine.go) promises the     *)
(* goroutines that drive it: one session at a time, started and stopped    *)
(* under e.mu, with `running` and `lastFailure` published so that a reader *)
(* without the lock can tell a session that failed from one that was       *)
(* stopped.  Capture, the bridge and the sync loop are hidden; SyncEngine  *)
(* is the detailed specification and is shown to implement this one.       *)
(***************************************************************************)
EXTENDS Integers

CONSTANTS
  Callers,      \* goroutines that call the engine
  MaxSessions,  \* bound: sessions a behaviour may start
  None          \* e.mu is free

ASSUME SessionAssumption ==
  /\ MaxSessions \in Nat \ {0}
  /\ None \notin Callers \cup (1 .. MaxSessions)
  /\ Callers \cap (1 .. MaxSessions) = {}

\* A session is known by its generation; so is the sync loop that runs it.
Loops == 1 .. MaxSessions
Procs == Callers \cup Loops

Origins == {"manual", "gaming"}

\* lastFailure: why the last session ended or failed to start, "none" for nil.
Causes == {"none", "capture", "connect", "lost"}

\* What the goroutine holding e.mu is doing.
Steps == {"free", "starting", "launched", "stopping", "ended"}

VARIABLES
  holder,    \* the goroutine holding e.mu
  step,      \* what it is doing with the session
  running,   \* e.running, read without the lock
  failure,   \* e.lastFailure, read without the lock
  session,   \* e.generation
  origin,    \* e.origin
  reported   \* the last call the session observer received

controlVars == <<holder, step, running, failure, session, origin, reported>>

NoReport == [running |-> FALSE, origin |-> "manual"]

ControlTypeOK ==
  /\ holder \in Procs \cup {None}
  /\ step \in Steps
  /\ running \in BOOLEAN
  /\ failure \in Causes
  /\ session \in 0 .. MaxSessions
  /\ origin \in Origins
  /\ reported \in [running : BOOLEAN, origin : Origins]

ControlInit ==
  /\ holder = None /\ step = "free"
  /\ running = FALSE /\ failure = "none"
  /\ session = 0 /\ origin = "manual"
  /\ reported = NoReport

Free == holder = None

Take(p, what) == holder' = p /\ step' = what
Release == holder' = None /\ step' = "free"

\* Nothing the lock-free readers and the observer see.
Unseen == UNCHANGED <<running, session, origin, reported>>

-----------------------------------------------------------------------------
(* StartSession.  A start that finds a session running returns             *)
(* ErrAlreadyRunning and changes nothing.                                  *)

BeginStart(p) ==
  /\ Free /\ ~running
  /\ session < MaxSessions
  /\ Take(p, "starting")
  /\ UNCHANGED failure /\ Unseen

\* Capture or the bridge refused: the cause is recorded.  Declining the
\* portal dialog is recorded as a deliberate stop would be.
FailStart(p, cause) ==
  /\ holder = p /\ step = "starting"
  /\ failure' = cause
  /\ Release
  /\ Unseen

\* launchLoopLocked up to generation++.
Launch(p, o) ==
  /\ holder = p /\ step = "starting"
  /\ running' = TRUE
  /\ origin' = o
  /\ session' = session + 1
  /\ step' = "launched"
  /\ UNCHANGED <<holder, failure, reported>>

\* The rest of launchLoopLocked, and the return that gives e.mu back.
Publish(p) ==
  /\ holder = p /\ step = "launched"
  /\ failure' = "none"
  /\ reported' = [running |-> TRUE, origin |-> origin]
  /\ Release
  /\ UNCHANGED <<running, session, origin>>

-----------------------------------------------------------------------------
(* Stop, StopSession and endSession.                                       *)

\* Stop clears the failure whether or not anything is running.
BeginStop(p) ==
  /\ Free
  /\ failure' = "none"
  /\ IF running THEN Take(p, "stopping") ELSE UNCHANGED <<holder, step>>
  /\ Unseen

\* Only session g, only while it runs; otherwise ErrNotRunning and no change.
BeginStopSession(p, g) ==
  /\ Free /\ running /\ session = g
  /\ failure' = "none"
  /\ Take(p, "stopping")
  /\ Unseen

\* The session's own loop gives up because capture stopped for good.
BeginEnd ==
  /\ Free /\ running
  /\ failure' = "lost"
  /\ Take(session, "stopping")
  /\ Unseen

\* stopLocked: the loop has left and the devices are closed.
ClearRunning(p) ==
  /\ holder = p /\ step = "stopping"
  /\ running' = FALSE
  /\ step' = "ended"
  /\ UNCHANGED <<holder, failure, session, origin, reported>>

EndNotified(p) ==
  /\ holder = p /\ step = "ended"
  /\ reported' = [running |-> FALSE, origin |-> origin]
  /\ Release
  /\ UNCHANGED <<running, failure, session, origin>>

-----------------------------------------------------------------------------
ControlNext ==
  \/ \E c \in Callers :
       \/ BeginStart(c)
       \/ \E cause \in {"none", "capture", "connect"} : FailStart(c, cause)
       \/ \E o \in Origins : Launch(c, o)
       \/ Publish(c)
       \/ BeginStop(c)
       \/ \E g \in Loops : BeginStopSession(c, g)
  \/ BeginEnd
  \/ \E p \in Procs : ClearRunning(p) \/ EndNotified(p)

ControlSpec == ControlInit /\ [][ControlNext]_controlVars

\* The lock is held exactly while something is being done with the session, a
\* start is only under way with none running, and one that runs has a generation.
ControlInv ==
  /\ ControlTypeOK
  /\ Free <=> step = "free"
  /\ step = "starting" => ~running /\ session < MaxSessions
  /\ running => session > 0
=============================================================================
