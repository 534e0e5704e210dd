------------------------------ MODULE SyncEngine ------------------------------
(***************************************************************************)
(* The screen-sync engine, backend/internal/sync/engine.go, with the two   *)
(* devices it owns: the screen capturer and the DTLS client to the bridge. *)
(*                                                                         *)
(* Goroutines are the callers of StartSession, Stop and StopSession (D-Bus *)
(* handlers, gaming callbacks, gaming supervisors) and one sync loop per   *)
(* session, named by the session's generation.  Each runs to its next      *)
(* blocking point or to its next write that a goroutine without e.mu can   *)
(* read: those are the steps.  `pc` is the place each one has reached.     *)
(***************************************************************************)
EXTENDS Integers

CONSTANTS
  Callers,      \* goroutines that call the engine
  MaxSessions,  \* bound: sessions a behaviour may start
  MaxRetries,   \* bound: refused handshakes one start retries, which the code
                \* bounds by streamConnectTimeout over streamRetryInterval
  None          \* e.mu is free

ASSUME EngineAssumption ==
  /\ MaxSessions \in Nat \ {0}
  /\ MaxRetries \in Nat
  /\ None \notin Callers \cup (1 .. MaxSessions)
  /\ Callers \cap (1 .. MaxSessions) = {}

Loops == 1 .. MaxSessions
Procs == Callers \cup Loops
Origins == {"manual", "gaming"}
Causes == {"none", "capture", "connect", "lost"}

VARIABLES
  mu,          \* the goroutine holding e.mu
  pc,          \* where each goroutine is
  mine,        \* the generation each caller's last StartSession returned
  running,     \* e.running, atomic
  failure,     \* e.lastFailure, atomic; "none" is nil
  generation,  \* e.generation
  origin,      \* e.origin
  cancelled,   \* the sessions whose context has been cancelled
  capture,     \* the capturer: "stopped", "reading", or "lost" once captureErr is set
  stream,      \* the entertainment client's `connected`
  accepted,    \* activateErr was nil in this round of connectStream
  retries,     \* refused handshakes retried by this connectStream
  reported     \* the last call the session observer received

vars == <<mu, pc, mine, running, failure, generation, origin, cancelled,
          capture, stream, accepted, retries, reported>>

devices == <<capture, stream, accepted, retries>>
sessionVars == <<running, generation, origin, cancelled, reported>>

\* A caller waits for e.mu in "start", "stop" or "undo" (StopSession), is in
\* the middle of StartSession in the next four places, and in stopLocked in the
\* last four, which a loop that gave up reaches too.
Waiting  == {"start", "stop", "undo"}
Starting == {"capture", "activate", "dial", "launch", "publish"}
Stopping == {"drain", "teardown", "clear", "notify"}
LoopPlaces == {"unborn", "stream", "giveUp", "done"} \cup Stopping
CallerPlaces == {"idle"} \cup Waiting \cup Starting \cup Stopping

TypeOK ==
  /\ mu \in Procs \cup {None}
  /\ pc \in [Procs -> CallerPlaces \cup LoopPlaces]
  /\ mine \in [Callers -> 0 .. MaxSessions]
  /\ running \in BOOLEAN
  /\ failure \in Causes
  /\ generation \in 0 .. MaxSessions
  /\ origin \in Origins
  /\ cancelled \subseteq Loops
  /\ capture \in {"stopped", "reading", "lost"}
  /\ stream \in BOOLEAN
  /\ accepted \in BOOLEAN
  /\ retries \in 0 .. MaxRetries
  /\ reported \in [running : BOOLEAN, origin : Origins]

Init ==
  /\ mu = None
  /\ pc = [p \in Procs |-> IF p \in Callers THEN "idle" ELSE "unborn"]
  /\ mine = [c \in Callers |-> 0]
  /\ running = FALSE /\ failure = "none"
  /\ generation = 0 /\ origin = "manual" /\ cancelled = {}
  /\ capture = "stopped" /\ stream = FALSE
  /\ accepted = FALSE /\ retries = 0
  /\ reported = [running |-> FALSE, origin |-> "manual"]

Free == mu = None
Goto(p, place) == pc' = [pc EXCEPT ![p] = place]
Return(p) == IF p \in Callers THEN "idle" ELSE "done"

-----------------------------------------------------------------------------
(* A call arrives and queues for e.mu.                                     *)

Call(c) ==
  /\ pc[c] = "idle"
  /\ \E place \in Waiting :
       /\ place = "start" => generation < MaxSessions
       /\ place = "undo" => mine[c] # 0
       /\ Goto(c, place)
  /\ UNCHANGED <<mu, mine, failure, devices, sessionVars>>

-----------------------------------------------------------------------------
(* StartSession.                                                           *)

\* ErrAlreadyRunning, or the bound on sessions was reached while waiting.
StartRefused(c) ==
  /\ pc[c] = "start" /\ Free
  /\ running \/ generation = MaxSessions
  /\ Goto(c, "idle")
  /\ UNCHANGED <<mu, mine, failure, devices, sessionVars>>

\* Mutant: a session that runs already does not refuse the call.
StartUnchecked(c) ==
  /\ pc[c] = "start" /\ Free
  /\ generation < MaxSessions
  /\ mu' = c
  /\ Goto(c, "capture")
  /\ UNCHANGED <<mine, failure, devices, sessionVars>>

StartAdmitted(c) ==
  /\ pc[c] = "start" /\ Free
  /\ ~running /\ generation < MaxSessions
  /\ mu' = c
  /\ Goto(c, "capture")
  /\ UNCHANGED <<mine, failure, devices, sessionVars>>

CaptureStarts(c) ==
  /\ mu = c /\ pc[c] = "capture"
  /\ capture' = "reading"
  /\ retries' = 0
  /\ Goto(c, "activate")
  /\ UNCHANGED <<mu, mine, failure, stream, accepted, sessionVars>>

\* A declined portal dialog is recorded as a deliberate stop would be.
StartCause(declined) == IF declined THEN "none" ELSE "capture"

CaptureRefuses(c) ==
  /\ mu = c /\ pc[c] = "capture"
  /\ \E declined \in BOOLEAN : failure' = StartCause(declined)
  /\ mu' = None
  /\ Goto(c, "idle")
  /\ UNCHANGED <<mine, devices, sessionVars>>

-----------------------------------------------------------------------------
(* connectStream, still holding e.mu.                                      *)

Activate(c) ==
  /\ mu = c /\ pc[c] = "activate"
  /\ accepted' \in BOOLEAN
  /\ Goto(c, "dial")
  /\ UNCHANGED <<mu, mine, failure, capture, stream, retries, sessionVars>>

\* client.Connect refuses a client that is already connected.
DialSucceeds(c) ==
  /\ mu = c /\ pc[c] = "dial"
  /\ ~stream
  /\ stream' = TRUE
  /\ Goto(c, "launch")
  /\ UNCHANGED <<mu, mine, failure, capture, accepted, retries, sessionVars>>

\* Variant: the deadline is never looked at.
RetryForever == accepted
MayRetry == accepted /\ retries < MaxRetries

\* Variant: the deadline is taken again on every round.
DialRefusedAfresh(c) ==
  /\ mu = c /\ pc[c] = "dial"
  /\ MayRetry
  /\ retries' = 0
  /\ Goto(c, "activate")
  /\ UNCHANGED <<mu, mine, failure, capture, stream, accepted, sessionVars>>

\* ECONNREFUSED after an activation the bridge accepted, deadline not passed.
DialRefused(c) ==
  /\ mu = c /\ pc[c] = "dial"
  /\ MayRetry
  /\ retries' = retries + 1
  /\ Goto(c, "activate")
  /\ UNCHANGED <<mu, mine, failure, capture, stream, accepted, sessionVars>>

\* Variant: the failed start leaves capture running.
DialFailsCapturing(c) ==
  /\ mu = c /\ pc[c] = "dial"
  /\ failure' = "connect"
  /\ mu' = None
  /\ Goto(c, "idle")
  /\ UNCHANGED <<mine, devices, sessionVars>>

\* Any other error, an unanswered activation, or the deadline: the start gives
\* up, stops capture and records why.
DialFails(c) ==
  /\ mu = c /\ pc[c] = "dial"
  /\ capture' = "stopped"
  /\ failure' = "connect"
  /\ mu' = None
  /\ Goto(c, "idle")
  /\ UNCHANGED <<mine, stream, accepted, retries, sessionVars>>

-----------------------------------------------------------------------------
(* launchLoopLocked.                                                       *)

Launch(c) ==
  /\ mu = c /\ pc[c] = "launch"
  /\ generation < MaxSessions
  /\ running' = TRUE
  /\ origin' \in Origins
  /\ generation' = generation + 1
  /\ Goto(c, "publish")
  /\ UNCHANGED <<mu, mine, failure, cancelled, reported, devices>>

Publish(c) ==
  /\ mu = c /\ pc[c] = "publish"
  /\ failure' = "none"
  /\ reported' = [running |-> TRUE, origin |-> origin]
  /\ mine' = [mine EXCEPT ![c] = generation]
  /\ mu' = None
  /\ pc' = [pc EXCEPT ![c] = "idle", ![generation] = "stream"]
  /\ UNCHANGED <<running, generation, origin, cancelled, devices>>

-----------------------------------------------------------------------------
(* Stop, StopSession, endSession: each records its verdict, then stopLocked *)
(* cancels the running loop.                                               *)

Cancel(p) ==
  /\ mu' = p
  /\ cancelled' = cancelled \cup {generation}
  /\ Goto(p, "drain")

Stop(c) ==
  /\ pc[c] = "stop" /\ Free
  /\ failure' = "none"
  /\ IF running THEN Cancel(c) ELSE Goto(c, "idle") /\ UNCHANGED <<mu, cancelled>>
  /\ UNCHANGED <<mine, running, generation, origin, reported, devices>>

\* Variants: one half of the check is missing.
CurrentGeneration(g) == generation = g
CurrentRunning(g) == running

\* Session g is the one running.
Current(g) == running /\ generation = g

\* Variant: the loop is cancelled before the session is compared.
StopSessionCancelsFirst(c) ==
  /\ pc[c] = "undo" /\ Free
  /\ IF Current(mine[c])
       THEN failure' = "none" /\ Cancel(c)
       ELSE /\ Goto(c, "idle")
            /\ cancelled' = cancelled \cup {generation}
            /\ UNCHANGED <<mu, failure>>
  /\ UNCHANGED <<mine, running, generation, origin, reported, devices>>

StopSession(c) ==
  /\ pc[c] = "undo" /\ Free
  /\ IF Current(mine[c])
       THEN failure' = "none" /\ Cancel(c)
       ELSE Goto(c, "idle") /\ UNCHANGED <<mu, cancelled, failure>>
  /\ UNCHANGED <<mine, running, generation, origin, reported, devices>>

\* Variant: the cause is left for later than the teardown.
EndSessionUnrecorded(g) ==
  /\ pc[g] = "giveUp" /\ Free
  /\ IF Current(g) THEN Cancel(g) ELSE Goto(g, "done") /\ UNCHANGED <<mu, cancelled>>
  /\ UNCHANGED <<mine, failure, running, generation, origin, reported, devices>>

\* A loop that has decided to give up may find its session stopped, or stopped
\* and replaced, by the time it gets e.mu.
EndSession(g) ==
  /\ pc[g] = "giveUp" /\ Free
  /\ IF Current(g)
       THEN failure' = "lost" /\ Cancel(g)
       ELSE Goto(g, "done") /\ UNCHANGED <<mu, cancelled, failure>>
  /\ UNCHANGED <<mine, running, generation, origin, reported, devices>>

-----------------------------------------------------------------------------
(* stopLocked after the cancel.                                            *)

\* Variant: stopLocked does not wait for the loop.
LoopsIgnored == TRUE

\* syncLoopWg: a loop calls Done before it asks for e.mu.
LoopsLeft == \A g \in Loops : pc[g] # "stream"

Drain(p) ==
  /\ mu = p /\ pc[p] = "drain"
  /\ LoopsLeft
  /\ Goto(p, "teardown")
  /\ UNCHANGED <<mu, mine, failure, devices, sessionVars>>

Teardown(p) ==
  /\ mu = p /\ pc[p] = "teardown"
  /\ capture' = "stopped"
  /\ stream' = FALSE
  /\ Goto(p, "clear")
  /\ UNCHANGED <<mu, mine, failure, accepted, retries, sessionVars>>

ClearRunning(p) ==
  /\ mu = p /\ pc[p] = "clear"
  /\ running' = FALSE
  /\ Goto(p, "notify")
  /\ UNCHANGED <<mu, mine, failure, generation, origin, cancelled, reported, devices>>

\* Variant: only the callers of Stop tell the observer.
NotifyCallersOnly(p) ==
  /\ mu = p /\ pc[p] = "notify"
  /\ reported' = IF p \in Callers THEN [running |-> FALSE, origin |-> origin] ELSE reported
  /\ mu' = None
  /\ Goto(p, Return(p))
  /\ UNCHANGED <<mine, failure, running, generation, origin, cancelled, devices>>

Notify(p) ==
  /\ mu = p /\ pc[p] = "notify"
  /\ reported' = [running |-> FALSE, origin |-> origin]
  /\ mu' = None
  /\ Goto(p, Return(p))
  /\ UNCHANGED <<mine, failure, running, generation, origin, cancelled, devices>>

-----------------------------------------------------------------------------
(* The sync loop and the capturer it reads.                                *)

\* ctx.Done: the loop leaves without a cause.
LoopLeaves(g) ==
  /\ pc[g] = "stream" /\ g \in cancelled
  /\ Goto(g, "done")
  /\ UNCHANGED <<mu, mine, failure, devices, sessionVars>>

\* Variant: the loop that gives up forgets endSession.
LoopVanishes(g) ==
  /\ pc[g] = "stream" /\ capture = "lost"
  /\ Goto(g, "done")
  /\ UNCHANGED <<mu, mine, failure, devices, sessionVars>>

\* CaptureFrame returned ErrCaptureStopped; every other error is retried on
\* the next tick.  (NewExtractor cannot fail: Validate and SetSyncSettings keep
\* the width it checks in range.)
LoopGivesUp(g) ==
  /\ pc[g] = "stream" /\ capture = "lost"
  /\ Goto(g, "giveUp")
  /\ UNCHANGED <<mu, mine, failure, devices, sessionVars>>

\* The frame reader gives capture up for good (failCapture).
CaptureLost ==
  /\ capture = "reading"
  /\ capture' = "lost"
  /\ UNCHANGED <<mu, pc, mine, failure, stream, accepted, retries, sessionVars>>

-----------------------------------------------------------------------------
Acquire(p) ==
  \/ p \in Callers /\ (StartRefused(p) \/ StartAdmitted(p) \/ Stop(p) \/ StopSession(p))
  \/ p \in Loops /\ EndSession(p)

Hold(p) ==
  \/ p \in Callers /\ \/ CaptureStarts(p) \/ CaptureRefuses(p)
                       \/ Activate(p)
                       \/ DialSucceeds(p) \/ DialRefused(p) \/ DialFails(p)
                       \/ Launch(p) \/ Publish(p)
  \/ Drain(p) \/ Teardown(p) \/ ClearRunning(p) \/ Notify(p)

Next ==
  \/ \E c \in Callers : Call(c)
  \/ \E p \in Procs : Acquire(p) \/ Hold(p)
  \/ \E g \in Loops : LoopLeaves(g) \/ LoopGivesUp(g)
  \/ CaptureLost

Spec == Init /\ [][Next]_vars

(* sync.Mutex hands the lock to a waiter that has waited a millisecond, so  *)
(* no caller starves: strong fairness of Acquire.  Whoever holds e.mu keeps *)
(* running: the portal dialog has a two-minute timeout, the dial and the    *)
(* activation have theirs.  A running loop keeps ticking.                   *)
Fairness ==
  /\ \A p \in Procs : SF_vars(Acquire(p)) /\ WF_vars(Hold(p))
  /\ \A g \in Loops : WF_vars(LoopLeaves(g)) /\ WF_vars(LoopGivesUp(g))

FairSpec == Spec /\ Fairness

-----------------------------------------------------------------------------
(* Properties.                                                             *)

\* Whenever e.mu is free, a session holds both devices or neither is in use:
\* no failed start and no end of a session, deliberate or not, leaves the
\* capturer or the DTLS connection open behind it.
DevicesFollowSession ==
  Free => (running <=> stream) /\ (running <=> capture # "stopped")

\* A sync loop that still streams belongs to the running session, and the
\* capturer and the client it uses are open: stopLocked waits for the loop
\* before tearing them down, and there is never a second loop.
LoopOwnsDevices ==
  \A g \in Loops :
    pc[g] = "stream" => running /\ generation = g /\ stream /\ capture # "stopped"

\* A session reported as running has a loop that streams, or that is about to
\* end it: nothing cancels the loop and leaves the session marked running.
NoStrandedSession ==
  Free /\ running => pc[generation] \in {"stream", "giveUp"} /\ generation \notin cancelled

\* Between calls the observer has been told exactly what runs, so a session's
\* end carries the origin its start was reported under (onSyncSessionChanged
\* chooses the night light reason by it).
ObserverInStep == Free => reported = [running |-> running, origin |-> origin]

\* The inductive invariant: what holds at each place of the goroutine holding
\* e.mu, and where the loops can be meanwhile.
PlacesOK ==
  /\ \A c \in Callers : pc[c] \in CallerPlaces
  /\ \A g \in Loops : pc[g] \in LoopPlaces
  /\ \A p \in Procs : mu = p <=> pc[p] \in Starting \cup Stopping

Open == stream /\ capture # "stopped"
Shut == ~stream /\ capture = "stopped"

LoopsOK ==
  /\ cancelled \subseteq 1 .. generation
  /\ \A g \in Loops :
       /\ g > generation => pc[g] = "unborn"
       /\ pc[g] = "stream" =>
            /\ g = generation /\ running /\ Open
            /\ (mu # None => pc[mu] = "drain")

FreeOK ==
  /\ reported = [running |-> running, origin |-> origin]
  /\ running =>
       /\ Open /\ generation > 0
       /\ pc[generation] \in {"stream", "giveUp"} /\ generation \notin cancelled
  /\ ~running => Shut

StartingOK(place) ==
  /\ place # "publish" => ~running /\ reported = [running |-> FALSE, origin |-> origin]
  /\ place = "capture" => Shut
  /\ place \in {"activate", "dial"} => ~stream /\ capture # "stopped"
  /\ place = "launch" => Open
  /\ place = "publish" =>
       running /\ Open /\ generation > 0 /\ generation \notin cancelled

StoppingOK(place) ==
  /\ failure = "none" <=> mu \in Callers
  /\ place \in {"drain", "teardown"} => running /\ Open
  /\ place = "clear" => running /\ Shut
  /\ place = "notify" => ~running /\ Shut

EngineInv ==
  /\ TypeOK /\ PlacesOK /\ LoopsOK
  /\ mu = None => FreeOK
  /\ mu # None /\ pc[mu] \in Starting => StartingOK(pc[mu])
  /\ mu # None /\ pc[mu] \in Stopping => StoppingOK(pc[mu])

\* e.mu is held across two waits.  stopLocked waits in syncLoopWg.Wait for the
\* loop, and a loop that is neither cancelled nor without frames streams on for
\* ever: whoever drains has cancelled the loop it waits for, so the two never
\* wait for each other and nobody queues behind them for good.  (The second
\* conjunct is the model's: a start never runs out of sessions midway.)
NoMutualWait ==
  mu # None =>
    /\ pc[mu] = "drain" => \A g \in Loops : pc[g] = "stream" => g \in cancelled
    /\ pc[mu] = "launch" => generation < MaxSessions

\* What makes NoMutualWait inductive: stopLocked cancels before it drains, and
\* no other start is admitted while one is on its way.
CancelsBeforeDrain == mu # None /\ pc[mu] = "drain" => generation \in cancelled
RoomForStart ==
  mu # None /\ pc[mu] \in {"capture", "activate", "dial", "launch"} => generation < MaxSessions

\* When `running` is cleared the failure is already there, and it is there
\* exactly when the session's own loop ended it: a reader without e.mu never
\* sees a lost session as one that was stopped, nor a stopped one as lost.
FailureBeforeEnd == [][running /\ ~running' => (failure = "none" <=> mu \in Callers)]_vars

\* Once cleared, a failure is recorded again only by a start that holds e.mu
\* or by the loop of the session then running: a loop that lost its race with
\* Stop neither has the session restarted nor ends the next one.
StopStands ==
  [][failure = "none" /\ failure' # "none" =>
       (mu \in Callers /\ ~running) \/ (running /\ mu' = generation)]_vars

\* Every call returns, whatever the bridge and the portal answer and whoever
\* else is queued for e.mu.
CallsReturn == \A c \in Callers : pc[c] # "idle" ~> pc[c] = "idle"

\* Capture that was lost does not stay with its session for ever.
LostCaptureIsClosed == capture = "lost" ~> capture = "stopped"

\* The observer hears of sessions one after the other: a start only when the
\* last it heard was an end, and an end under the origin that start had.  It is
\* what NightLight relies on, which holds one reason for one session.
ReportsAlternate ==
  [][/\ \A c \in Callers : Publish(c) => ~reported.running
     /\ \A p \in Procs : Notify(p) => reported = [running |-> TRUE, origin |-> origin]]_vars

\* What makes it so: a start is admitted after the last end was reported, and
\* nobody but a start writes the origin.
ReportPending ==
  /\ mu # None /\ pc[mu] \in Starting => ~reported.running
  /\ mu # None /\ pc[mu] \in Stopping => reported = [running |-> TRUE, origin |-> origin]

\* What the goroutine holding e.mu does, as SessionControl names it.
HolderStep ==
  IF Free THEN "free"
  ELSE CASE pc[mu] \in {"capture", "activate", "dial", "launch"} -> "starting"
         [] pc[mu] = "publish" -> "launched"
         [] pc[mu] \in {"drain", "teardown", "clear"} -> "stopping"
         [] OTHER -> "ended"

Control == INSTANCE SessionControl WITH
  holder <- mu, step <- HolderStep, session <- generation

\* The engine implements SessionControl: hiding the devices, the bridge and
\* the loops, every step is one of its steps or changes nothing it shows.
ImplementsControl == Control!ControlSpec
=============================================================================
