# Verification of khuey

TLA+ models of khuey, the backend and tray application that drive Philips Hue
lights from KDE and stream screen colours to a Hue entertainment area. TLC
checks the models on small instances; TLAPS proves the main results for every
value of the constants. Paths below are relative to the repository
(`backend/...`, `trayapp/...`).

## The system

khuey is two processes on one session bus. The backend (Go,
`backend/cmd/hue-sync`) serves `org.kde.plasma.hue`; the tray (C++/Qt,
`trayapp`) is one of its clients. godbus runs every method call on a goroutine
of its own, so the handlers run concurrently with each other and with the
goroutines the backend starts itself.

| Component | State | Operations | What is hard, and what makes it correct |
|---|---|---|---|
| Sync engine (`backend/internal/sync/engine.go`) | `running`, `origin`, `generation`, `failure`, the session observer, `e.mu` | StartSession, Stop, StopSession, the sync loop, endSession, SetFPS, ResetCaptureSource | Sessions start and end from several goroutines and from their own loop; `running` and `failure` are read without `e.mu`. Devices open exactly while a session runs, one loop, no session without a loop, a stop is never mistaken for a loss |
| Gaming mode (`backend/internal/dbus/service.go`, `backend/internal/gaming`) | `gamingModeActive`, `gamingDetector`, `stopGamingSupervisor`, each detector's `currentState` | SetGamingMode, detector checks, onGamingStateChanged, superviseGamingSync | Callbacks run in no particular order, starts take minutes, gaming mode is reconfigured mid-game. A game that ended leaves no session, no supervisor outlives its game, a user's stop is respected |
| Screen-share grant (`capture.go`, `engine.go`, `config.go`) | the capturer's copy and its generation, the configuration's copy, `config.yaml` | Start, updateRestoreToken, ResetCaptureSource, any save | Late portal answers, late saves, failed writes, restarts. A reset is never undone; the newest grant wins |
| Night light (`backend/internal/nightlight`) | held reasons, KWin's cookie | Acquire, Release, ReleaseAll | KWin may refuse a call; settings change mid-session. No inhibition without its cookie; free between sessions |
| Configuration (`backend/internal/config`) | the values in memory, the file | Load, View, Update | A write that fails after the change, or after the file was replaced |
| Screen capture (`backend/internal/capture`) | portal session, reader loop, native double buffer, buffer pool, stall clocks | Start, Stop, CaptureFrame, publishFrame | Frames shared between a PipeWire thread and Go; deciding that capture is lost. No image has two users, every frame is whole and of its session, capture is given up for trouble that lasted and only for that |
| Colour extraction (`backend/internal/color`) | none | zone averages | Numeric |
| Entertainment client (`backend/internal/entertainment`) | DTLS connection, sequence number | Connect, Send, Close | The bridge admits one stream and refuses a handshake after an activation |
| Bridge client and status (`backend/internal/hue`, `service.go`) | last known reachability, its observer | every bridge call, the reachability supervisor, the signal | Calls record outcomes concurrently; signals race to the bus. The last signal says what is recorded, a bridge that is back is noticed |
| D-Bus service, the rest (`service.go`) | configuration, bridge | lights, scenes, rooms, settings, icons | Settings kept in several places: a saved frame rate becomes everybody's |
| Tray panel (`trayapp/main.cpp`) | light write queue, refresh and poll flags, connection state, popups | user edits, refresh, pollStatus, signals | Replies that predate an edit or a signal; order of writes. An open panel ends up showing what is recorded |
| Settings dialog (`trayapp/settingsdialog.cpp`) | form | load, save | Replies after the dialog is closed |
| Command-line tools, helpers, test doubles | none | - | - |

How they interact: a D-Bus handler or a gaming callback calls the engine, which
holds `e.mu` for the whole of a start (portal dialog, bridge activation, DTLS
handshake) or stop (waiting for the loop). The engine calls back: the capturer
announces a new grant on a goroutine of its own, and the session observer runs
under `e.mu` and takes the night light's lock. Detectors spawn a goroutine per
change of state. Everything that is saved goes through `config.Update`, under
`config.mu`. The tray hears of the backend by polling, by replies and by one
signal, `ConnectionStateChanged`.

## Modules

| Module | Models | Rests on |
|---|---|---|
| `SessionControl` | the engine as its users see it: who holds `e.mu`, and `running`, `session`, `origin`, `failure` as the steps change them. The abstract specification, and the engine inside `GamingSync` | - |
| `SyncEngine` | the engine in detail: a step per wait or per store another goroutine can see; capture, the DTLS connection, the bridge's refusals, cancelled contexts, each session's loop | implements `SessionControl` |
| `GamingSync` | detectors, their callbacks, the D-Bus handlers and the supervisors | extends `SessionControl` |
| `RestoreToken` | the three copies of the grant | - |
| `NightLight` | the inhibitor and its three users | `SyncEngine`'s `ReportsAlternate` says why sessions reach it one at a time |
| `FrameBuffers` | the native double buffer, the image pool, the reader, the sync loop's copies and Stop | `SyncEngine`'s `LoopOwnsDevices` says why no loop runs past its session |
| `CaptureHealth` | the reader's verdicts: what a poll returns, and the clocks that end a session | - |
| `FrameClock` | the frame rate's copies, the two loops' ticks and the drop counter | - |
| `StatusFeed` | what the daemon promises a tray about the bridge: the abstract specification of the signals | - |
| `BridgeStatus` | what calls record, the observer, `emitMu`, the signal and the reachability supervisor | implements `StatusFeed` |
| `TrayPanel` | what the panel shows: signals, polls, refreshes and retries | extends `StatusFeed` |
| `*_proofs` | theorems | the module they name |
| `MC*` | symmetry and derived constants for TLC | the module they name |

An action is named for the function it translates, or for the part of it
between two points where another goroutine can interfere. Operators marked
"Mutant" are not part of `Next`: each is an action with one plausible mistake,
kept beside the right one to show that a property notices it.

### SyncEngine

`mu` is the goroutine that holds `e.mu`; `pc` is where each goroutine is.
`StartSession` is StartRefused or StartAdmitted, then CaptureStarts or
CaptureRefuses (the portal, with a declined dialog recorded as no failure),
Activate and DialSucceeds, DialRefused (which goes round once more,
`MayRetry`) or DialFails, then Launch (`running`, `origin`, `generation`,
`failure`) and Publish (observer, loop). `stopLocked` is Cancel, Drain (wait for
the loop), Teardown, ClearRunning and Notify; `Stop` and `StopSession` enter it
with the failure cleared, `EndSession`, called by a loop that gave up, with the
failure recorded. Loops are processes named by their session, so the old
session's loop and the new one can both be about. An engine without a capturer
(the constructor given nil, which only tests do) is not modelled.

### GamingSync

A process per D-Bus handler, per callback past `s.mu` and per supervisor
context. Critical sections under `s.mu` do not block and are one step each; a
call to the engine is `SessionControl`'s steps. A detector's check is two steps
(Probe, without `d.mu`, and Judge), since closing a detector does not wait for
it. Reports are kept in the order they were spawned and heeded in any:
`go d.callback(...)` guarantees none. The debounce is left out: a check may
report what it sees at once, which only adds behaviours. The backoff is a
supervisor that goes on waiting.

`history` is not in the code and restrains no step; it records what the
properties have to tell apart. `ahead` is how many of the reports on their way a
later one has overtaken; `late` says that what the service goes by came from a
callback out of turn, one overtaken or of a replaced detector's, which changed
its mind, and becomes false with the next callback in turn or the next detector;
`replaced` says that a reconfiguration took a game's supervisor from it, which
leaves that game's session alone (service.go:1445), and becomes false when a game
starts with no replaced supervisor left. `ActiveFollowsGame` excuses `late`, and
`EndedGameLeavesNoSession` both: whatever else happens, in whatever order, the
service and its session follow the machine.

### RestoreToken

A `Start` is known by its ordinal and so is the grant it receives, so "older"
and "newer" can be said. The two uses of `tokenMutex` in `Start` are two steps
with the portal in between; `updateRestoreToken` waits for `config.mu`, checks
under it and writes; a write may fail before or after the file is replaced;
`Restart` loads the file.

### NightLight

Each use of the inhibitor is one step, since `i.mu` is held over the call to
KWin. A call that fails does nothing; a call that times out and takes effect
later is outside the model. Session starts and ends come in the order
`ReportsAlternate` guarantees.

### FrameBuffers

`slot`, `front` and `ready` are the two native frames; `reader`, `loop` and
`stopper` say where the reader goroutine, the sync loop and `Stop` are; `pool`
is `imageBufferPool`, from which the garbage collector may take images
(`PoolDrained`). An image is its bounds and two halves, each labelled with the
frame its pixels are from and the size they were laid out for, and every copy
and conversion fills the top and then the bottom: whoever writes an image
meanwhile is seen. The PipeWire callbacks and `pw_get_frame` exclude each other
and are one step each. A format is the bytes of a row and the rows, so that a
stride too short and a slot too small can be told.

### CaptureHealth

Each outcome of `GetFrame` is one action of the reader: the stream's own failure
(PollFailed), the failures GetFrame judges (PollJudged), no new frame
(PollIdle), no frame yet (PollAwaiting), any other error (PollError), a frame
(PollFrame). Clocks are ages in whole units, with the program's own deadlines in
seconds; the reader polls at least once in a unit, which it does many times
over. What `pipewire_native.c` counts (`unusable_run`, its first and last time)
is kept as the run's length, its span and the age of its last buffer. `downAge`
is not in the code: it is how long the stream has been down, so that "noticed in
time" can be said, and proved, without fairness.

### FrameClock

A rate is known by its interval. `Saves`, `SetsCapturer` and `SetsEngine` are
the three places one `SetSyncSettings` call writes it to; `ReaderTick` and
`TickAdopts` are the loops taking it up. The ticker is external: it fires every
interval, keeps one tick for a loop that is behind and loses the rest. `Observe`
is the drop counter's arithmetic. `uncounted` is not in the code: it counts the
ticks the ticker lost less the drops reported.

### StatusFeed, BridgeStatus, TrayPanel

A bridge call is Asks, Hears (the bridge's answer at that moment), Records
(`setConnectionState`, under the client's lock) and, for a change,
EmissionBegins and EmissionSent under `emitMu`. `Verdict` is what each kind of
call records: a failed call for lights records nothing, an activation that is
refused records that the bridge answers. `StatusFeed` abstracts from all of that:
changes, a signal owed, a signal under way. `TrayPanel` runs the panel's event
loop on it; a reply is what was recorded when it was read, sent later, and a
poll or refresh is applied when the slowest of its replies has come (the reply
that carries the status is Held until then).

## Runs

| Run | Question | Instance |
|---|---|---|
| `engine` | Do sessions replace each other cleanly, does every call return, is a lost session closed, and does the engine implement `SessionControl`? | 2 callers, 3 sessions, 1 retry; 103,000 states |
| `gaming_game` | With callbacks in any order and a user who stops sync, does a game that ended leave no session, unless its end was overtaken? | 1 user, 2 callbacks, 2 contexts, 1 detector, 2 sessions, 1 restart; 3.7 M states |
| `gaming_reconfig` | Is any detector or supervisor ever left behind by reconfigurations, in any order of callbacks, does the last saved setting win, and does the service agree with the machine in the end, unless it goes by a callback out of turn? | 2 users, 1 callback, 2 contexts, 2 detectors, 1 session; 2.3 M states |
| `gaming_live` | Does an undone start stop only its own session, and does a session lost mid-game come back, users starting and stopping sync, switching gaming mode off and failing to save meanwhile, on a machine that may have no way to detect games? | 1 user, 1 callback, 1 context, 2 sessions, 2 restarts; 340,000 states |
| `gaming_reordered` | Does a game's end that overtakes its start still end the session, as `onGamingStateChanged` says? (ends in a counterexample) | as `gaming_game`, with a user who also starts sync |
| `token` | Is a reset ever undone, does the newest grant win, is it saved at last? | 4 starts, 2 resets |
| `night_sessions` | Is the night light suspended exactly when it should be? | 3 inhibitions granted |
| `capture_frames` | Can a frame be torn, stale, out of bounds or shared? Can a dead reader go unreported? | 4 images, 2 formats, 2 strides, 3 frames |
| `capture_health` | Is capture given up within its deadlines, and only for trouble that lasted? | the program's deadlines, in seconds; 3.0 M states |
| `bridge_status` | Does the last signal say what is recorded, is a bridge that is back noticed, and is this `StatusFeed`? | 2 callers and the supervisor; 44,600 states |
| `tray_panel` | Does an open panel end up showing what is recorded? | 2 signals unread; 1.2 M states |
| `frame_clock` | Are the drops reported the ticks that were lost, and does a saved rate become everybody's? | 2 handlers, intervals 2, 3 and 5, gaps up to 9, stall gap 8; 804,000 states |

**Bounds.** Sessions: a third is needed for a loop that is late by one session
to meet a successor that is ending. Callers: one that holds `e.mu` and one that
waits, next to the loops; the theorems are for any number. Two callbacks are the
game-ended that overtakes the game-started; two contexts a supervisor replaced
by another; two detectors one replaced by another. Reports in flight are
bounded by 2, restarts by 1 or 2 (5 in the code: the counter is only compared
with its limit). When a bound is reached the action that would go beyond it
waits, except that a start beyond the bound on sessions is refused like
`ErrAlreadyRunning`, so that nobody holding `e.mu` waits for the bound. Four
starts and two resets let a late answer and a late save straddle a reset, and a
restart follow. Four images are one more than the holders there can be while
another is taken (converting, published, copied); three frames fill both slots
and overwrite one; two formats and two strides make every mismatch. The
intervals share no divisor, so that ticks and gaps meet in every remainder;
a gap of 9 is beyond the stall gap and loses up to three ticks. Two unread
signals (`MaxUnread`) can contradict each other.

The deadlock check is off in `night_sessions`, where the program exits, and in
`capture_health`, where the reader ends; everywhere else it is on. No fairness
is needed in `capture_health`: time does not go on until the reader has polled.

**Fairness.** Liveness assumes what the Go runtime and the code give: a
goroutine that can take its next step takes it (weak fairness); `sync.Mutex`
hands itself to a waiter after a millisecond, so a goroutine that keeps
finding it free gets it at last (strong fairness on the steps that take a
mutex); calls to the portal and the bridge end, each having a timeout; tickers
and timers fire (in `FrameClock` the reader's and the sync loop's, elsewhere the
reachability supervisor's and the panel's while it is visible); the panel's
event loop turns. Nothing is assumed of users, games, losses of capture, the
bridge, or failures.

## Known disagreements

The code does otherwise than one of its comments says. The first is a run; the
others were found with variants of the modules' instances, and the properties
that are checked allow for them.

* **A game's end overtakes its start** (`gaming_reordered`, `detector.go:206`,
  `service.go:1551-1554`). The game-ended callback finds nothing to cancel, and
  the game-started one then starts a session for a game that is over. It runs
  until the next callback in turn: `ActiveFollowsGame` and
  `EndedGameLeavesNoSession` say that no other order of events gets there.
* **A start whose context was replaced** (`service.go:1467`, against 1451-1452).
  Gaming mode is saved again while a game's start is under way; its context is
  cancelled as *replaced*. The game then ends, the start asks that context
  whether the game ended, and keeps its session. `EndedGameLeavesNoSession`
  excuses a game whose supervisor a reconfiguration replaced, for this reason.
* **A user's stop answered by a restart** (`service.go:1511`, against
  `engine.go:118-120` and `343-344`). The supervisor reads a failure; the user
  stops sync, which clears it; the supervisor starts sync all the same.
* **A setting that could not be saved** (`service.go:1239`, against 1231-1233).
  `SetGamingMode` fails to write and changes no detector, while the new value
  stays in memory and is reported. `DetectorFollowsConfig` is checked, and
  proved, for saves that succeed.
* **A failed uninhibit forgotten** (`nightlight.go:101`, against 91-92). It leaves
  the reason of a manual session held; a gaming session comes and goes, its
  release only drops its own reason, and the night light stays suspended.
  `FreeBetweenSessions` excuses a night light KWin has refused to free.
* **Overlapping `SetSyncSettings` calls** (`engine.go:531-533`). Nothing orders
  what they save and what they apply: the configuration, the engine and the
  capturer can be left at different rates. `RatesSettle` is about the last call
  when it overlapped no other.
* **A hidden panel with a stale status** (`main.cpp:1150-1154`). A reply read
  before the last signal and applied after it stands until the panel is opened
  again: `VisiblePanelAgrees` is about an open one.

Noted while modelling, without a property of their own: the client's comment on
light calls (`client.go:523-526`) counts a refused call as an answer although
such calls record nothing; the constructor starts the panel's poll timer, so a
panel that was never opened polls until it is first hidden; a frame that does not
convert on a screen that then stands still ends the session after five seconds,
since nothing newer replaces it; after a gap the drop counter has discarded, its
phase is no longer the ticker's and it may over-report by one under jitter.

## Proofs

`TLAPS` checks every theorem; none is assumed. Each follows the same argument: an
inductive invariant, checked by TLC first as an invariant of a run, shown to
hold initially and to be kept by each action in a lemma of its own; the
properties then follow from it. The only assumptions are the modules' own, on
their constants (bounds are naturals, the sets of processes are disjoint).

* `SyncEngine_proofs`: `EngineInv` says,
  for every place the holder of `e.mu` can be at, what is open and what the
  observer knows (`StartingOK`, `StoppingOK`, `FreeOK`), and where loops may be
  meanwhile (`LoopsOK`): none of the properties is inductive alone, since
  between two calls they depend on what the holder had done so far. From it:
  `TypeOK`, `DevicesFollowSession`, `LoopOwnsDevices`, `NoStrandedSession`,
  `ObserverInStep`, `FailureBeforeEnd`, `StopStands`, and `ImplementsControl`,
  the refinement: the initial states map to `ControlInit` and every step to a
  step of `SessionControl` or to a stutter. Two more say what liveness and
  `NightLight` rest on: `NoMutualWait`, that whoever waits for the loop with
  `e.mu` held has cancelled that loop, so the two never wait for each other (the
  safety half of `CallsReturn`); and `ReportsAlternate`, that the observer hears
  of a start only after an end, and of the end under the origin it still holds.
* `GamingSync_proofs`, with callbacks in any order and no bound on reports:
  `GamingInv` says that a live context has exactly one canceller, the service
  or one callback that took it (`ContextsOK`); that a supervisor undoes a start
  only when its game is over; that only the current detector runs
  (`DetectorsOK`); that the handler holding `setGamingModeMu` applies what it
  saved (`SetterOK`); and that whoever is about to undo the session that runs
  has started it (`OriginOK`). From it: `CancellerHasGame`,
  `NoOrphanSupervisor`, `OneDetector`, `SupervisorHasDetector`,
  `UndoStopsOwnSession`, and, where saves succeed and games can be detected,
  `DetectorFollowsConfig`. `UsesEngine` says that every step uses the engine as
  `SessionControl` allows, so that the engine in `GamingSync` is the one
  `SyncEngine` implements. Four invariants on top of `GamingInv`:
  * `UseOK`: a context has one user at a time, first the callback that made it
    and then its supervisor. From it, `TypeOK`: a supervisor takes back only
    an attempt it has counted and never exceeds its budget.
  * `SupervisedOK`: a callback goes idle only when it has no supervisor to spawn.
    From it, `LiveIsSupervised`: a context nobody has cancelled is watched or
    about to be, in any order of callbacks and through any reconfiguration (the
    safety half of `LostSessionComesBack`).
  * `OrderOK`: of the reports on their way that still count, the newest says what
    the detector holds (`ReportsOK`); when none is left, the service goes by what
    the detector holds, or by a callback out of turn. Nothing is of a detector yet
    to come (`UnbornOK`). From it, `ActiveFollowsGame`, with no hypothesis.
  * `OwnedOK`: once the service holds that no game is on, gaming mode's session is
    being stopped, or a callback is going to stop it, or the goroutine whose
    start came too late finds its own context ended and undoes it, until a
    reconfiguration replaces a game's supervisor. From it,
    `NoSessionWithoutGame`: settled and without a game, no such session runs. The
    two together give `EndedGameLeavesNoSession`, again with no hypothesis.
* `RestoreToken_proofs`: `TokenInv` orders the copies by the ordinals of their
  starts and says that a start whose generation is current began after the last
  reset. From it: `ResetForgets`, `RevokedNotOnDisk`, `CopiesAgree`,
  `NewestGrantWins`.
* `NightLight_proofs`: `NightInv` says that a reason other than the running
  session's is held only after a failed uninhibit. From it:
  `InhibitedWhileHeld`, `SuspendedWhileRunning`, `FreeBetweenSessions`.
* `FrameBuffers_proofs`: `BufferInv` says what the slots hold (`SlotsOK`), what
  the reader has in hand at each of its places (`ReaderOK`), that the published
  image stands still under the read lock (`LoopOK`) and what a Stop has taken
  down so far (`StopOK`). From it, for any images, formats and strides:
  `SoleOwners`, `FrameIntact`, `ReadsInBounds`, `FrozenImageIsReported`.
* `BridgeStatus_proofs`: `BridgeInv` says that unless a change is still to be
  signalled, the emission under way or else the last one has read what is
  recorded. From it: `LastSignalIsRecorded`, and that every step is a step of
  `StatusFeed` or a stutter (the feed's fairness stays with TLC).
* `CaptureHealth_proofs`: `HealthInv` says that no clock of the code is ahead of
  the trouble it times (`ClocksOK`), and that a reader that has polled in this
  unit of time without ever having had a frame has some of its budget left
  (`FrameOK`). From it, for any deadlines: `DeadAirBounded`,
  `VerdictNeedsTrouble`. `LossOK` says the converse for a stream that is down:
  nothing a poll can be handed meanwhile sets back the clock that will end the
  session. From it: `LossNoticedInTime`.
* `FrameClock_proofs`: `ClockInv` says that the time the counter has yet to
  reckon with is the ticks that fired since and the time since the last of them.
  From it, for any intervals and gaps: `DropsAreLostTicks`. `LastCallOK` says that
  a call which overlaps no other carries the rate that is saved, to the copies it
  has reached. From it: `RatesAgree`, the safety half of `RatesSettle`.

`NoMutualWait`, `ObserverInStep`, `LiveIsSupervised`, `RatesAgree`,
`GamingSync`'s `TypeOK` and `NoSessionWithoutGame`'s `SettledLeavesNoSession` are
proved and in no run; TLC checked the first five, with the invariants they follow
from, on the runs' instances before they were proved.

Only model-checked is what needs reasoning about fairness and ENABLED, which TLAPS
does not do: the liveness properties (`CallsReturn`, `LostCaptureIsClosed`,
`LostSessionComesBack`, `GrantIsSaved`, `RecordedRecovers`, `VisiblePanelAgrees`,
`RatesSettle`) and the fairness of `ImplementsFeed`. `TrayPanel` has only a
liveness property. Every safety property of the runs is proved.

## Plan

Done, in this order: `SessionControl`, `SyncEngine`, `GamingSync`,
`RestoreToken`, `NightLight`; then `FrameBuffers`, `CaptureHealth`,
`StatusFeed`, `BridgeStatus`, `TrayPanel`, `FrameClock`, and the proofs about
gaming mode and capture's clocks; then the rest of the safety properties, and
the safety half of what is only checked as liveness.

Left:

1. `PanelWrites`: the debounce, the light write queue, refreshes gone stale. The
   bridge ends up with what the user did last; a reply never overrides an edit
   made after it was asked for.
2. The detector's debounce, as a refinement of `Judge`.
3. The configuration's defaults and validation, and the partition of the screen
   into zones, as functions checked against their definitions.

## Simplifications

* `CaptureHealth` lets PipeWire deliver a buffer only while the stream is
  streaming. `on_stream_process` checks no state: that none comes otherwise is an
  assumption about PipeWire.
* `FrameClock` takes the reset of the ticker and the moment the drop counter
  reckons from for one instant; the code reads the clock twice
  (`engine.go:564` and `566`, `589` and `614`), microseconds apart.
* `TrayPanel` has neither the refresh button nor the refreshes after a light
  write: they send the same calls as the refreshes it has, and polls repair what
  their replies would change.
* The order of the two checks in `capture.go:301-305` is the guard of one action
  of `FrameBuffers`, so `FrozenImageIsReported` shows what it is good for, and not
  that the two could not be swapped.
* `RatesSettle` excuses overlapping `SetSyncSettings` calls (Known disagreements).
* An attempt a supervisor failed to take back would only make its budget run out
  sooner, which `LostSessionComesBack` excuses; that it takes back none it has not
  counted is proved (`TypeOK`).

## Not modelled

Portal, PipeWire, DTLS, the Hue API and KWin are external: their outcomes are
choices. Colour extraction is floating-point arithmetic on pixels. The
settings dialog, the tray's tooltip and menu, its scenes, popups and light
writes, the command-line tools and test doubles are not modelled.

The engine always asks for native capture (`engine.go:149-155`), so the reader
loops for GStreamer and for screenshots, and the mock frames, are never started
and have no model. (The GStreamer loop reads two file names in turn although
`multifilesink` goes on counting.) `calculatePercentile` and the metrics window
only feed a log line. A `Start` that fails after the portal session was opened
leaves that session open at the portal, which is outside the model.

Not covered either: a process
killed while it is writing `config.yaml` (the file is truncated first, and the
model writes it in one step), KWin calls that time out and still take effect,
the shutdown, which does not stop the engine, racing a session that starts
(what becomes of its inhibition is KWin's affair), and lock order (`e.mu`, then
the night light's or `config.mu`, then `tokenMutex`; `s.mu`, then `config.mu` or
a detector's lock), which is the same on every path.
