------------------------------ MODULE GamingSync ------------------------------
(***************************************************************************)
(* Gaming mode: the detectors (backend/internal/gaming/detector.go), the   *)
(* callbacks they spawn, the supervisors that bring a lost session back    *)
(* and the D-Bus handlers (backend/internal/dbus/service.go), driving the  *)
(* engine through SessionControl, which SyncEngine implements.             *)
(*                                                                         *)
(* Goroutines: a D-Bus handler per user, a callback per report in flight,  *)
(* a supervisor per context.  The critical sections under s.mu do not      *)
(* block, so each is one step; a call to the engine is as many steps as    *)
(* SessionControl gives it, plus the wait for e.mu.                        *)
(***************************************************************************)
EXTENDS SessionControl, Sequences

CONSTANTS
  Users,        \* D-Bus handler goroutines; Main also runs the start-up code
  Main,
  Callbacks,    \* bound: callbacks past s.mu at one time
  Contexts,     \* bound: supervisor contexts in use at one time
  Detectors,    \* bound: detectors in use at one time
  MaxReports,   \* bound: callbacks spawned and not yet past s.mu
  MaxAttempts,  \* gamingRestartAttempts
  Settings,     \* the values SetGamingMode is called with
  Commands,     \* which of StartSync and StopSync users call
  SaveMayFail,  \* whether writing config.yaml can fail
  MayLackMethods \* whether NewDetector can find no way to detect a game

ASSUME GamingAssumption ==
  /\ Callers = Users \cup Callbacks \cup Contexts
  /\ Users \cap Callbacks = {} /\ Users \cap Contexts = {} /\ Callbacks \cap Contexts = {}
  /\ Main \in Users
  /\ None \notin Contexts \cup Detectors
  /\ MaxReports \in Nat /\ MaxAttempts \in Nat
  /\ SaveMayFail \in BOOLEAN /\ MayLackMethods \in BOOLEAN
  /\ Settings \subseteq BOOLEAN /\ Commands \subseteq {"start", "stop"}

VARIABLES
  game,       \* a game runs on the machine
  enabled,    \* config.GamingMode.Enabled, in memory
  active,     \* s.gamingModeActive
  detector,   \* s.gamingDetector, None for nil
  canceller,  \* s.stopGamingSupervisor, as the context it cancels; None for nil
  setter,     \* the handler holding setGamingModeMu
  watch,      \* each detector: its run, currentState, and the check in flight
  reports,    \* callbacks spawned and not yet past s.mu, oldest first
  history,    \* history variable: how many of them a later one has overtaken,
              \* whether the service goes by a callback that came too late, and
              \* whether a game's supervisor was replaced since the game started
  pc,         \* where each goroutine is
  gen,        \* the generation its last StartSession returned
  job,        \* each callback's local variables
  ctx,        \* each context: unused, live, or why it was cancelled
  attempts    \* each supervisor's count of restarts

gamingVars == <<game, enabled, active, detector, canceller, setter, watch,
                reports, history, pc, gen, job, ctx, attempts>>
vars == <<controlVars, gamingVars>>

serviceVars == <<enabled, active, detector, canceller>>

Places ==
  {"idle", "boot", "enable", "disable",              \* users
   "cancel", "check", "spawn",                       \* callbacks
   "none", "tick", "look", "gone",                   \* supervisors
   "start", "starting", "stop", "stopping", "undo"}  \* all: calls to the engine

NoJob == [super |-> None, stop |-> FALSE, cancels |-> None]

ServiceTypeOK ==
  /\ active \in BOOLEAN
  /\ detector \in Detectors \cup {None} /\ canceller \in Contexts \cup {None}
  /\ setter \in Users \cup {None}
  /\ watch \in [Detectors -> [run : {"unborn", "running", "closed"},
                              current : BOOLEAN,
                              probe : {"none", "on", "off"}]]
  /\ reports \in Seq([src : Detectors, on : BOOLEAN])
  /\ pc \in [Callers -> Places]
  /\ job \in [Callbacks -> [super : Contexts \cup {None}, stop : BOOLEAN,
                            cancels : Contexts \cup {None}]]
  /\ ctx \in [Contexts -> {"unused", "live", "ended", "replaced"}]

TypeOK ==
  /\ ControlTypeOK /\ ServiceTypeOK
  /\ game \in BOOLEAN /\ enabled \in BOOLEAN
  /\ Len(reports) <= MaxReports
  /\ history \in [ahead : 0 .. Len(reports), late : BOOLEAN, replaced : BOOLEAN]
  /\ gen \in [Callers -> 0 .. MaxSessions]
  /\ attempts \in [Contexts -> 0 .. MaxAttempts]

Unborn == [run |-> "unborn", current |-> FALSE, probe |-> "none"]

Init ==
  /\ ControlInit
  /\ game \in BOOLEAN /\ enabled \in BOOLEAN
  /\ active = FALSE /\ detector = None /\ canceller = None /\ setter = None
  /\ watch = [d \in Detectors |-> Unborn]
  /\ reports = <<>> /\ history = [ahead |-> 0, late |-> FALSE, replaced |-> FALSE]
  /\ pc = [p \in Callers |-> IF p = Main THEN "boot"
                             ELSE IF p \in Contexts THEN "none" ELSE "idle"]
  /\ gen = [p \in Callers |-> 0]
  /\ job = [b \in Callbacks |-> NoJob]
  /\ ctx = [k \in Contexts |-> "unused"]
  /\ attempts = [k \in Contexts |-> 0]

Goto(p, place) == pc' = [pc EXCEPT ![p] = place]

\* A callback that is done drops its local variables.
Leave(p, place) ==
  /\ Goto(p, place)
  /\ job' = IF p \in Callbacks /\ place = "idle" THEN [job EXCEPT ![p] = NoJob] ELSE job

-----------------------------------------------------------------------------
(* Detectors.  The debounce is GamingDetector's subject: here a check that *)
(* sees a state other than the reported one may report it.                 *)

GameToggles ==
  /\ game' = ~game
  /\ UNCHANGED <<controlVars, serviceVars, setter, watch, reports, history, pc, gen, job, ctx, attempts>>

\* detectGaming runs without d.mu.  A closed detector may look once more: its
\* stop channel and its ticker can both be ready.
Probe(d) ==
  /\ watch[d].run # "unborn" /\ watch[d].probe = "none"
  /\ watch' = [watch EXCEPT ![d].probe = IF game THEN "on" ELSE "off"]
  /\ UNCHANGED <<controlVars, serviceVars, game, setter, reports, history, pc, gen, job, ctx, attempts>>

\* The rest of checkGamingState.  Close does not wait for it.  tells says which
\* states are worth a callback: both of them.
JudgeTelling(d, tells) ==
  LET seen == watch[d].probe = "on"
      after == [watch[d] EXCEPT !.probe = "none"]
  IN /\ watch[d].probe # "none"
     /\ Len(reports) < MaxReports
     /\ watch' = [watch EXCEPT ![d] = [after EXCEPT !.current = seen]]
     /\ reports' = IF seen # watch[d].current /\ seen \in tells
                     THEN Append(reports, [src |-> d, on |-> seen]) ELSE reports
     /\ UNCHANGED <<controlVars, serviceVars, game, setter, history, pc, gen, job, ctx, attempts>>

\* Mutant: only the start of a game is reported.
JudgeStartsOnly(d) == JudgeTelling(d, {TRUE})

Judge(d) == JudgeTelling(d, BOOLEAN)

-----------------------------------------------------------------------------
(* Reconfiguring gaming mode, under s.mu.                                  *)

\* Mutants: the old detector is forgotten but left running; its supervisor too.
ClosedWatchLeft == watch
ReplacedCtxLeft == ctx

\* stopGamingModeLocked, as what it makes of the detectors and the contexts.
ClosedWatch ==
  IF detector = None THEN watch ELSE [watch EXCEPT ![detector].run = "closed"]
ReplacedCtx ==
  IF canceller = None THEN ctx ELSE [ctx EXCEPT ![canceller] = "replaced"]

\* For the history: a new detector is seeded with what the service goes by, so the
\* service is not late; a supervisor at work is replaced.
Reconfigured(late) ==
  history' = [history EXCEPT !.late = late, !.replaced = @ \/ canceller # None]

StartWatching(d) ==
  watch' = [ClosedWatch EXCEPT ![d] = [run |-> "running", current |-> active, probe |-> "none"]]

\* initGamingModeLocked after stopGamingModeLocked.  A detector that replaces
\* one mid-game is seeded with the game and reports nothing, so the supervisor
\* is recreated here.
InitGaming(p) ==
  \/ /\ ~enabled \/ MayLackMethods
     /\ watch' = ClosedWatch /\ detector' = None
     /\ ctx' = ReplacedCtx /\ canceller' = None
     /\ Goto(p, "idle")
     /\ UNCHANGED attempts
  \/ /\ enabled
     /\ \E d \in Detectors :
          /\ watch[d] = Unborn
          /\ StartWatching(d)
          /\ detector' = d
     /\ IF active
          THEN \E k \in Contexts :
                 /\ ctx[k] = "unused"
                 /\ ctx' = [ReplacedCtx EXCEPT ![k] = "live"]
                 /\ canceller' = k
                 /\ attempts' = [attempts EXCEPT ![k] = 0]
                 /\ pc' = [pc EXCEPT ![p] = "idle", ![k] = "tick"]
          ELSE /\ ctx' = ReplacedCtx /\ canceller' = None
               /\ Goto(p, "idle")
               /\ UNCHANGED attempts

\* cmd/hue-sync/main.go starts gaming mode with the bus already served.
Boot ==
  /\ pc[Main] = "boot"
  /\ InitGaming(Main)
  /\ Reconfigured(FALSE)
  /\ UNCHANGED <<controlVars, game, enabled, active, setter, reports, gen, job>>

\* SetGamingMode takes setGamingModeMu and writes the config.  A write that
\* fails is reported, and leaves the new value in memory: the revert is nil.
Save(u, guard, holds) ==
  /\ pc[u] = "idle" /\ guard
  /\ \E on \in Settings :
       /\ enabled' = on
       /\ \/ setter' = holds /\ Goto(u, IF on THEN "enable" ELSE "disable")
          \/ SaveMayFail /\ UNCHANGED <<setter, pc>>
  /\ UNCHANGED <<controlVars, game, active, detector, canceller, watch, reports, history,
                 gen, job, ctx, attempts>>

\* Mutant: no setGamingModeMu.
SaveUnlocked(u) == Save(u, TRUE, None)

SaveGamingMode(u) == Save(u, setter = None, u)

EnableGaming(u) ==
  /\ pc[u] = "enable"
  /\ InitGaming(u)
  /\ setter' = None
  /\ Reconfigured(FALSE)
  /\ UNCHANGED <<controlVars, game, enabled, active, reports, gen, job>>

Disable(u, left, kept) ==
  /\ pc[u] = "disable"
  /\ watch' = ClosedWatch /\ detector' = None
  /\ ctx' = left /\ canceller' = kept
  /\ Reconfigured(history.late)
  /\ active' = FALSE
  /\ setter' = None
  /\ Goto(u, "idle")
  /\ UNCHANGED <<controlVars, game, enabled, reports, gen, job, attempts>>

\* Mutant: the detector goes, its supervisor stays.
DisableDetectorOnly(u) == Disable(u, ctx, canceller)

\* disableGamingMode: the session is left to the user, and gaming mode no
\* longer owns it.
DisableGaming(u) == Disable(u, ReplacedCtx, None)

\* The monitor loop of a closed detector has left; once its callbacks are past
\* s.mu nothing is heard of it any more.
Forget(d) ==
  /\ watch[d].run = "closed" /\ watch[d].probe = "none"
  /\ \A i \in DOMAIN reports : reports[i].src # d
  /\ watch' = [watch EXCEPT ![d] = Unborn]
  /\ UNCHANGED <<controlVars, serviceVars, game, setter, reports, history, pc, gen, job, ctx, attempts>>

-----------------------------------------------------------------------------
(* onGamingStateChanged.                                                   *)

Without(i) == SubSeq(reports, 1, i - 1) \o SubSeq(reports, i + 1, Len(reports))

\* The first history.ahead reports are older than one the service has heeded; a
\* replaced detector's are older than its successor, which was seeded with what
\* the service went by.  Heeding one of either kind makes the service late if it
\* changes its mind.
Overtaken(i) == i <= history.ahead
Outdated(i) == Overtaken(i) \/ reports[i].src # detector

AheadWithout(i) == IF Overtaken(i) THEN history.ahead - 1 ELSE history.ahead
Heeded(i, late, replaced) ==
  IF late THEN [ahead |-> AheadWithout(i), late |-> history.late \/ reports[i].on # active,
                replaced |-> replaced]
          ELSE [ahead |-> i - 1, late |-> FALSE, replaced |-> replaced]

\* A game that starts when no replaced supervisor is left begins afresh: whatever
\* session runs is its own from then on.
StillReplaced == history.replaced /\ \E k \in Contexts : ctx[k] = "replaced"

\* Mutant: a start that failed has nothing to supervise.
SpawningAfterSuccess(j) == IF j.super # None /\ failure = "none" THEN "spawn" ELSE "idle"

\* Where a callback goes when it has nothing (more) to start.
Spawning(j) == IF j.super # None THEN "spawn" ELSE "idle"

\* Mutant: heeded from any detector.
IgnoredNever(r) == FALSE

\* A game starting is heeded only from the current detector.
Ignored(r) == r.on /\ r.src # detector

DropReport ==
  /\ \E i \in DOMAIN reports :
       /\ Ignored(reports[i])
       /\ reports' = Without(i) /\ history' = [history EXCEPT !.ahead = AheadWithout(i)]
  /\ UNCHANGED <<controlVars, serviceVars, game, setter, watch, pc, gen, job, ctx, attempts>>

\* A game has started: start a session if none was started for it yet, and
\* make the supervisor's context in the same critical section.
GameStarted(b) ==
  /\ b \in Callbacks /\ pc[b] = "idle"
  /\ \E i \in DOMAIN reports :
       /\ reports[i].on /\ ~Ignored(reports[i])
       /\ reports' = Without(i) /\ history' = Heeded(i, Overtaken(i), StillReplaced)
  /\ active' = TRUE
  /\ IF canceller = None
       THEN \E k \in Contexts :
              /\ ctx[k] = "unused"
              /\ ctx' = [ctx EXCEPT ![k] = "live"]
              /\ canceller' = k
              /\ job' = [job EXCEPT ![b] = [NoJob EXCEPT !.super = k]]
       ELSE /\ job' = [job EXCEPT ![b] = NoJob]
            /\ UNCHANGED <<ctx, canceller>>
  /\ Goto(b, IF active THEN Spawning(job'[b]) ELSE "start")
  /\ UNCHANGED <<controlVars, game, enabled, detector, setter, watch, gen, attempts>>

\* A game has ended, whichever detector says so.
GameEnded(b) ==
  /\ b \in Callbacks /\ pc[b] = "idle"
  /\ \E i \in DOMAIN reports :
       /\ ~reports[i].on
       /\ reports' = Without(i) /\ history' = Heeded(i, Outdated(i), history.replaced)
  /\ active' = FALSE /\ canceller' = None
  /\ job' = [job EXCEPT ![b] = [super |-> None, stop |-> active, cancels |-> canceller]]
  /\ Goto(b, IF canceller # None THEN "cancel" ELSE IF active THEN "stop" ELSE "idle")
  /\ UNCHANGED <<controlVars, game, enabled, detector, setter, watch, gen, ctx, attempts>>

\* After s.mu is released, and before the session is stopped.
CancelSupervisor(b) ==
  /\ pc[b] = "cancel"
  /\ ctx' = [ctx EXCEPT ![job[b].cancels] = "ended"]
  /\ Leave(b, IF job[b].stop THEN "stop" ELSE "idle")
  /\ UNCHANGED <<controlVars, serviceVars, game, setter, watch, reports, history, gen, attempts>>

\* The supervisor starts watching only after the callback's own start.
SpawnSupervisor(b) ==
  /\ pc[b] = "spawn"
  /\ attempts' = [attempts EXCEPT ![job[b].super] = 0]
  /\ pc' = [pc EXCEPT ![b] = "idle", ![job[b].super] = "tick"]
  /\ UNCHANGED <<controlVars, serviceVars, game, setter, watch, reports, history, gen, job, ctx>>

-----------------------------------------------------------------------------
(* Calls to the engine, by whichever goroutine makes them.                 *)

local == <<game, serviceVars, setter, watch, reports, history, ctx>>

\* StartSync and StopSync.
UserCalls(u) ==
  /\ pc[u] = "idle"
  /\ \E place \in Commands : Goto(u, place)
  /\ UNCHANGED <<controlVars, local, gen, job, attempts>>

\* Where p goes once its start is over and stands, and once it has undone one.
AfterStart(p) ==
  IF p \in Users THEN "idle" ELSE IF p \in Callbacks THEN Spawning(job[p]) ELSE "tick"
AfterStop(p) ==
  IF p \in Users THEN "idle" ELSE IF p \in Callbacks THEN Spawning(job[p]) ELSE "gone"

OriginOf(p) == IF p \in Users THEN "manual" ELSE "gaming"

StartBegins(p) ==
  /\ pc[p] = "start"
  /\ BeginStart(p)
  /\ Goto(p, "starting")
  /\ UNCHANGED <<local, gen, job, attempts>>

\* ErrAlreadyRunning (or the bound on sessions).  A supervisor takes its attempt
\* back.
StartRefused(p) ==
  /\ pc[p] = "start"
  /\ Free /\ (running \/ session = MaxSessions)
  /\ Leave(p, AfterStart(p))
  /\ attempts' = IF p \in Contexts THEN [attempts EXCEPT ![p] = @ - 1] ELSE attempts
  /\ UNCHANGED <<controlVars, local, gen>>

StartFails(p) ==
  /\ pc[p] = "starting"
  /\ \E cause \in {"none", "capture", "connect"} : FailStart(p, cause)
  /\ Leave(p, AfterStart(p))
  /\ UNCHANGED <<local, gen, attempts>>

StartLaunches(p) ==
  /\ pc[p] = "starting"
  /\ Launch(p, OriginOf(p))
  /\ UNCHANGED gamingVars

StartReturns(p) ==
  /\ pc[p] = "starting"
  /\ Publish(p)
  /\ gen' = [gen EXCEPT ![p] = IF p \in Users THEN 0 ELSE session]
  /\ Goto(p, IF p \in Users THEN "idle" ELSE "check")
  /\ UNCHANGED <<local, job, attempts>>

\* The context under which a callback or a supervisor starts a session.
ContextOf(p) == IF p \in Callbacks THEN job[p].super ELSE p

\* gamingEnded(ctx): only the game ending undoes the start.
GamingEnded(p) == ContextOf(p) # None /\ ctx[ContextOf(p)] = "ended"

Check(p, undone) ==
  /\ pc[p] = "check"
  /\ IF undone
       THEN Goto(p, "undo") /\ UNCHANGED <<gen, job>>
       ELSE Leave(p, AfterStart(p)) /\ gen' = [gen EXCEPT ![p] = 0]
  /\ UNCHANGED <<controlVars, local, attempts>>

\* Mutant: the session is kept whatever became of the game.
StartKept(p) == Check(p, FALSE)

StartChecked(p) == Check(p, GamingEnded(p))

Undo(p, g) ==
  /\ pc[p] = "undo" /\ Free
  /\ IF running /\ session = g
       THEN BeginStopSession(p, g) /\ Goto(p, "stopping") /\ UNCHANGED job
       ELSE UNCHANGED controlVars /\ Leave(p, AfterStop(p))
  /\ gen' = [gen EXCEPT ![p] = 0]
  /\ UNCHANGED <<local, attempts>>

\* Mutant: whatever session is running is stopped.
StartUndonePlainStop(p) == Undo(p, session)

\* StopSession of the generation this goroutine started.
StartUndone(p) == Undo(p, gen[p])

StopBegins(p) ==
  /\ pc[p] = "stop"
  /\ BeginStop(p)
  /\ IF running THEN Goto(p, "stopping") /\ UNCHANGED job ELSE Leave(p, "idle")
  /\ UNCHANGED <<local, gen, attempts>>

StopClears(p) == pc[p] = "stopping" /\ ClearRunning(p) /\ UNCHANGED gamingVars

StopReturns(p) ==
  /\ pc[p] = "stopping"
  /\ EndNotified(p)
  /\ Leave(p, AfterStop(p))
  /\ UNCHANGED <<local, gen, attempts>>

\* Capture gives up; the session's loop ends it.
SessionLost == (BeginEnd \/ (\E g \in Loops : ClearRunning(g) \/ EndNotified(g)))
               /\ UNCHANGED gamingVars

-----------------------------------------------------------------------------
(* superviseGamingSync.  Its context and its ticker can both be ready, so a *)
(* cancelled supervisor may go round once more.                             *)

SupervisorLeaves(k) ==
  /\ \/ pc[k] = "tick" /\ ctx[k] \in {"ended", "replaced"}
     \/ pc[k] = "gone"
  /\ Goto(k, "none")
  /\ ctx' = [ctx EXCEPT ![k] = "unused"]
  /\ attempts' = [attempts EXCEPT ![k] = 0]
  /\ UNCHANGED <<controlVars, serviceVars, game, setter, watch, reports, history, gen, job>>

\* IsRunning.  A session that has held up for a minute restores the budget.
SupervisorTicks(k) ==
  /\ pc[k] = "tick"
  /\ \/ running /\ attempts' = [attempts EXCEPT ![k] = 0] /\ UNCHANGED pc
     \/ ~running /\ Goto(k, "look") /\ UNCHANGED attempts
  /\ UNCHANGED <<controlVars, local, gen, job>>

\* LastFailure and decideRestart.  Waiting also stands for the backoff.
SupervisorWaits(k) ==
  /\ pc[k] = "look"
  /\ Goto(k, "tick")
  /\ UNCHANGED <<controlVars, local, gen, job, attempts>>

SupervisorRestarts(k) ==
  /\ pc[k] = "look"
  /\ failure # "none" /\ attempts[k] < MaxAttempts
  /\ attempts' = [attempts EXCEPT ![k] = @ + 1]
  /\ Goto(k, "start")
  /\ UNCHANGED <<controlVars, local, gen, job>>

-----------------------------------------------------------------------------
EngineCall(p) ==
  \/ StartBegins(p) \/ StartRefused(p) \/ StartFails(p) \/ StartLaunches(p)
  \/ StartReturns(p) \/ StartChecked(p) \/ StartUndone(p)
  \/ StopBegins(p) \/ StopClears(p) \/ StopReturns(p)

Callback(b) ==
  GameStarted(b) \/ GameEnded(b) \/ CancelSupervisor(b) \/ SpawnSupervisor(b)

Supervisor(k) ==
  \/ SupervisorLeaves(k) \/ SupervisorTicks(k)
  \/ SupervisorWaits(k) \/ SupervisorRestarts(k)

Next ==
  \/ GameToggles \/ SessionLost \/ DropReport \/ Boot
  \/ \E d \in Detectors : Probe(d) \/ Judge(d) \/ Forget(d)
  \/ \E u \in Users :
       UserCalls(u) \/ SaveGamingMode(u) \/ EnableGaming(u) \/ DisableGaming(u)
  \/ \E b \in Callbacks : Callback(b)
  \/ \E k \in Contexts : Supervisor(k)
  \/ \E p \in Callers : EngineCall(p)

Spec == Init /\ [][Next]_vars

\* A goroutine that can go on does; e.mu goes to each of those waiting for it in
\* turn; the backoff runs out.  Nothing obliges a game to start or end, a user
\* to call, or a session to be lost.
Fairness ==
  /\ WF_vars(Boot) /\ \A u \in Users : WF_vars(EnableGaming(u) \/ DisableGaming(u))
  /\ WF_vars(DropReport) /\ WF_vars(\E b \in Callbacks : GameStarted(b) \/ GameEnded(b))
  /\ \A d \in Detectors : WF_vars(Probe(d)) /\ WF_vars(Judge(d))
  /\ \A b \in Callbacks : WF_vars(CancelSupervisor(b) \/ SpawnSupervisor(b))
  /\ \A k \in Contexts : WF_vars(Supervisor(k)) /\ SF_vars(SupervisorRestarts(k))
  /\ \A p \in Callers : SF_vars(EngineCall(p))
  /\ \A g \in Loops : WF_vars((ClearRunning(g) \/ EndNotified(g)) /\ UNCHANGED gamingVars)

FairSpec == Spec /\ Fairness

-----------------------------------------------------------------------------
(* Properties.                                                             *)

\* The field's own contract: a canceller is only held while a game is on, and
\* it cancels a context nobody has cancelled yet.
CancellerHasGame == canceller # None => active /\ ctx[canceller] = "live"

\* A supervisor that may still restart a session can be told to stop: its
\* context is the one the service would cancel, or a callback is about to.
NoOrphanSupervisor ==
  \A k \in Contexts :
    ctx[k] = "live" =>
      \/ canceller = k
      \/ \E b \in Callbacks : pc[b] = "cancel" /\ job[b].cancels = k

\* A game is never left without its supervisor: a context nobody has cancelled is
\* watched, or the callback that made it is about to have it watched.
LiveIsSupervised ==
  \A k \in Contexts :
    ctx[k] = "live" =>
      \/ pc[k] # "none"
      \/ \E b \in Callbacks : pc[b] # "idle" /\ job[b].super = k

\* With gaming mode switched off nothing restarts a session: a supervisor goes
\* with the detector that can report the end of its game.
SupervisorHasDetector == canceller # None => detector # None

\* Only the service's current detector watches for games.
OneDetector == \A d \in Detectors : watch[d].run = "running" <=> detector = d

\* With no handler on its way, gaming mode is switched on in the config exactly
\* when a detector runs: two handlers never leave each other's half behind.  (A
\* machine without any way to detect a game never has a detector.)
DetectorFollowsConfig ==
  (\A u \in Users : pc[u] \notin {"boot", "enable", "disable"}) => (enabled <=> detector # None)

\* Undoing a start stops that session and no other: one started by somebody
\* else while the undo was queued survives it.
UndoStopsOwnSession ==
  [][\A p \in Callers : pc[p] = "undo" /\ pc'[p] = "stopping" =>
       running /\ session = gen[p] /\ origin = OriginOf(p)]_vars

\* Nothing is on its way: every report has been handled and every call has
\* returned, and the detector has seen what the machine does.
Settled ==
  /\ reports = <<>> /\ Free
  /\ \A p \in Callers : pc[p] \in {"idle", "none", "tick"}
  /\ detector # None /\ watch[detector].current = game
  /\ \A d \in Detectors : watch[d].probe # "none" => d = detector /\ (watch[d].probe = "on") = game

\* Once everything has been dealt with, the service agrees with the machine, in
\* whatever order the callbacks came and whoever reconfigured gaming mode: unless
\* it goes by a callback that a later one had overtaken, or that came from a
\* detector since replaced.  The next callback in turn sets it right.
ActiveFollowsGame == Settled /\ ~history.late => active = game

\* And a session gaming mode started is then one of a game that is on: nothing
\* but a report out of turn keeps one beyond its game, unless gaming mode was
\* reconfigured during it, which leaves its session alone (service.go:1445).
EndedGameLeavesNoSession ==
  Settled /\ running /\ origin = "gaming" /\ ~history.replaced =>
    active /\ (game \/ history.late)

\* What onGamingStateChanged says of itself: a game-ended callback that overtakes
\* a slow game-started one still ends the game's session.
OvertakingEndIsHeeded == Settled /\ ~game => ~(running /\ origin = "gaming")

\* A session lost while a game is on comes back, unless the user intervenes, the
\* game ends or the supervisor's budget (or the model's) runs out.  It holds
\* although the first start of a game may itself have failed.
LostSessionComesBack ==
  \A k \in Contexts :
    canceller = k /\ ~running /\ failure # "none" ~>
      \/ running \/ failure = "none" \/ ctx[k] # "live"
      \/ attempts[k] = MaxAttempts \/ session = MaxSessions

-----------------------------------------------------------------------------
(* The inductive invariant (proved in GamingSync_proofs).                  *)

\* A live context has one canceller: the service, or the one callback that took
\* it from the service.  A supervisor only undoes a start when its game is over.
ContextsOK ==
  /\ CancellerHasGame /\ NoOrphanSupervisor
  /\ \A b \in Callbacks :
       pc[b] = "cancel" => LET k == job[b].cancels IN
         /\ k \in Contexts /\ k # canceller /\ ctx[k] = "live"
         /\ \A c \in Callbacks : pc[c] = "cancel" /\ job[c].cancels = k => c = b
  /\ \A k \in Contexts :
       pc[k] # "stop" /\ (pc[k] \in {"undo", "stopping", "gone"} => ctx[k] = "ended")

DetectorsOK == OneDetector /\ SupervisorHasDetector

\* The handler that holds setGamingModeMu applies what it saved.
SetterOK ==
  \A u \in Users :
    /\ setter = u <=> pc[u] \in {"enable", "disable"}
    /\ (pc[u] = "enable" => enabled) /\ (pc[u] = "disable" => ~enabled)

\* Whoever is about to undo the session that runs has started it.
OriginOK ==
  /\ session \in Nat /\ gen \in [Callers -> Nat] /\ \A p \in Callers : gen[p] <= session
  /\ step = "launched" => holder \in Callers /\ origin = OriginOf(holder)
  /\ \A p \in Callers : pc[p] \in {"check", "undo"} /\ gen[p] = session => origin = OriginOf(p)

GamingInv == ServiceTypeOK /\ ContextsOK /\ DetectorsOK /\ SetterOK /\ OriginOK

\* A context is used by one goroutine at a time: first by the callback that made
\* it, whose start it may undo, then by its supervisor, which counts an attempt
\* before it starts anything.  A callback starts a session only under a context,
\* and one that cancels a context stops the session afterwards.
ContextUse(k) ==
  /\ ctx[k] = "unused" => pc[k] = "none"
  /\ pc[k] = "start" => attempts[k] > 0

CallbackUse(b) ==
  /\ pc[b] \in {"start", "starting", "check", "undo", "spawn"} => job[b].super # None
  /\ pc[b] = "cancel" => job[b].stop
  /\ pc[b] # "idle" /\ job[b].super # None =>
       /\ pc[job[b].super] = "none" /\ ctx[job[b].super] # "unused"
       /\ \A c \in Callbacks : pc[c] # "idle" /\ job[c].super = job[b].super => c = b

UseOK ==
  /\ \A k \in Contexts : ContextUse(k)
  /\ \A b \in Callbacks : CallbackUse(b)

\* A callback that stops a session has no supervisor to spawn afterwards, so none
\* is done while it still has.
SupervisedOK ==
  /\ LiveIsSupervised
  /\ \A b \in Callbacks : pc[b] \in {"cancel", "stop"} => job[b].super = None

\* Once a game is over, the session started for it is about to be stopped: by the
\* callback of the game's end, or by the goroutine whose start came too late for
\* that, which will find its context cancelled.
WillStop(b) == pc[b] \in {"cancel", "stop"}
WillUndo(p) ==
  /\ ContextOf(p) # None /\ ctx[ContextOf(p)] = "ended"
  /\ \/ step = "launched" /\ holder = p /\ pc[p] = "starting"
     \/ pc[p] \in {"check", "undo"} /\ gen[p] = session

SessionOwned ==
  running /\ origin = "gaming" =>
    \/ active \/ step = "stopping"
    \/ \E b \in Callbacks : WillStop(b)
    \/ \E p \in Callbacks \cup Contexts : WillUndo(p)

\* Until a game's supervisor is replaced, every context is lost by its game ending.
OwnedOK ==
  ~history.replaced =>
    /\ SessionOwned
    /\ active => canceller # None
    /\ \A k \in Contexts : ctx[k] # "replaced"

\* No report is of a detector yet to come.
UnbornOK ==
  \A d \in Detectors : watch[d].run = "unborn" =>
    watch[d].probe = "none" /\ \A i \in DOMAIN reports : reports[i].src # d

\* What the detector holds is what its newest report says, or, when that is past
\* s.mu or there has been none, what the service does.
ReportsOK ==
  detector # None =>
    /\ \A i \in DOMAIN reports :
         ~Outdated(i) /\ (\A j \in DOMAIN reports : j > i => Outdated(j)) =>
           reports[i].on = watch[detector].current
    /\ (\A i \in DOMAIN reports : Outdated(i)) /\ ~history.late =>
         active = watch[detector].current

OrderOK ==
  /\ history \in [ahead : 0 .. Len(reports), late : BOOLEAN, replaced : BOOLEAN]
  /\ UnbornOK /\ ReportsOK
=============================================================================
