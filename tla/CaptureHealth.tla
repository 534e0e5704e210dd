---------------------------- MODULE CaptureHealth ----------------------------
(***************************************************************************)
(* When a capture session gives up: the reader's polls of the native       *)
(* capture (backend/internal/capture/capture.go, nativeFrameReaderLoop,    *)
(* and pipewire_native.go, GetFrame) and what the PipeWire thread reports  *)
(* to them (pipewire_native.c).                                            *)
(*                                                                         *)
(* A screen sends frames only when something on it changes, so silence is  *)
(* no fault by itself.  Every clock of the code is an age here, in whole   *)
(* time units; the reader polls at least once in each unit (its period is  *)
(* a frame's, far below a second), and as often as it likes.               *)
(***************************************************************************)
EXTENDS Integers

CONSTANTS
  CaptureGrace,     \* captureGrace: a run of failed polls this long ends capture
  FirstFrameGrace,  \* firstFrameGrace: the whole budget for a first frame
  StallDeadline,    \* streamStallDeadline: out of the streaming state this long is dead
  RunLimit,         \* unusableRunLimit: unusable buffers in a row ...
  RunSpan,          \* unusableRunSpan: ... over at least this time ...
  RunGap            \* UNUSABLE_RUN_GAP_NS: ... each within this time of the one before

ASSUME HealthAssumption ==
  {CaptureGrace, FirstFrameGrace, StallDeadline, RunLimit, RunSpan, RunGap} \subseteq Nat \ {0}

Never == -1   \* a time.Time that is zero

VARIABLES
  streaming,    \* ud->streaming
  streamFailed, \* ud->stream_failed
  ready,        \* the slot at ready_idx: "none", "new" or "bad" (unread, converts or not), "served"
  runCount,     \* ud->unusable_run, up to RunLimit
  runSpan,      \* from the first unusable buffer of the run to the last, up to RunSpan
  runLast,      \* age of the last, up to RunGap + 1
  started,      \* age of startedAt
  firstErr,     \* age of firstErrAt, or Never
  left,         \* age of health.leftStreamingAt, or Never
  haveFrame,    \* haveFrame of the reader
  verdict,      \* "none" while the reader polls, then why it ended
  polled,       \* the reader has polled in this unit of time
  wellAge,      \* history: age of the last poll that was not an error
  seenAge,      \* history: age of the last poll that found the stream streaming
  usableAge,    \* history: age of the last usable buffer or format change
  downAge       \* history: whole units the stream has not been streaming for

producer == <<streaming, streamFailed, ready, runCount, runSpan, runLast, usableAge, downAge>>
reader == <<started, firstErr, left, haveFrame, verdict, polled, wellAge, seenAge>>
vars == <<producer, reader>>

Smaller(m, n) == IF m <= n THEN m ELSE n
Longest == IF StallDeadline >= CaptureGrace THEN StallDeadline ELSE CaptureGrace
Older(age, cap) == IF age = Never THEN Never ELSE Smaller(age + 1, cap)

Verdicts == {"none", "stopped", "failed", "stalled", "unusable", "noFrame", "errors"}

TypeOK ==
  /\ streaming \in BOOLEAN /\ streamFailed \in BOOLEAN
  /\ ready \in {"none", "new", "bad", "served"}
  /\ runCount \in 0 .. RunLimit /\ runSpan \in 0 .. RunSpan /\ runLast \in 0 .. RunGap + 1
  /\ started \in 0 .. FirstFrameGrace + 1
  /\ firstErr \in Never .. CaptureGrace /\ left \in Never .. StallDeadline
  /\ haveFrame \in BOOLEAN /\ verdict \in Verdicts /\ polled \in BOOLEAN
  /\ wellAge \in 0 .. CaptureGrace /\ seenAge \in 0 .. StallDeadline
  /\ usableAge \in 0 .. RunSpan /\ downAge \in 0 .. Longest + 2

Init ==
  /\ streaming = FALSE /\ streamFailed = FALSE /\ ready = "none"
  /\ runCount = 0 /\ runSpan = 0 /\ runLast = 0
  /\ started = 0 /\ firstErr = Never /\ left = Never
  /\ haveFrame = FALSE /\ verdict = "none" /\ polled = FALSE
  /\ wellAge = 0 /\ seenAge = 0 /\ usableAge = 0 /\ downAge = 0

-----------------------------------------------------------------------------
(* The PipeWire thread.  Buffers come only while the stream is streaming:  *)
(* on_stream_process checks no state, so this is taken of PipeWire.        *)

StateChanges ==
  /\ ~streamFailed
  /\ streaming' = ~streaming
  /\ downAge' = IF streaming' THEN 0 ELSE downAge
  /\ UNCHANGED <<streamFailed, ready, runCount, runSpan, runLast, usableAge>>

StreamErrs ==
  /\ streaming' = FALSE /\ streamFailed' = TRUE
  /\ UNCHANGED <<ready, runCount, runSpan, runLast, usableAge, downAge>>

\* on_stream_param_changed: drops so far were about the format being replaced.
FormatChanges ==
  /\ runCount' = 0 /\ usableAge' = 0
  /\ UNCHANGED <<streaming, streamFailed, ready, runSpan, runLast, downAge>>

\* A full frame is published.  It may still not convert: its stride is the
\* buffer's own and its width the negotiated one.
Publish(converts) ==
  /\ streaming
  /\ ready' = IF converts THEN "new" ELSE "bad"
  /\ runCount' = 0 /\ usableAge' = 0
  /\ UNCHANGED <<streaming, streamFailed, runSpan, runLast, downAge>>

\* An unusable buffer joins the run, or starts one when the last is long ago.
RejectBuffer ==
  /\ streaming
  /\ LET joins == runCount > 0 /\ runLast <= RunGap IN
     /\ runCount' = IF joins THEN Smaller(runCount + 1, RunLimit) ELSE 1
     /\ runSpan' = IF joins THEN Smaller(runSpan + runLast, RunSpan) ELSE 0
  /\ runLast' = 0
  /\ UNCHANGED <<streaming, streamFailed, ready, usableAge, downAge>>

\* Once the reader has ended nobody looks at the stream again.
Producer ==
  /\ verdict = "none"
  /\ \/ StateChanges \/ StreamErrs \/ FormatChanges \/ RejectBuffer
     \/ \E converts \in BOOLEAN : Publish(converts)
  /\ UNCHANGED reader

-----------------------------------------------------------------------------
(* The reader.                                                             *)

Tripped(age, grace) == age # Never /\ age >= grace

StreamStalled(age) == Tripped(age, StallDeadline)

RunFailed == runCount >= RunLimit /\ runSpan >= RunSpan

\* Mutant: every poll out of the streaming state restarts the clock.
FaultNow(healthy, since) == IF healthy THEN Never ELSE 0

FaultSince(healthy, since) ==
  IF healthy THEN Never ELSE IF since = Never THEN 0 ELSE since

\* GetFrame gets past the stream's failure and observes its state.
Observe ==
  /\ verdict = "none" /\ ~streamFailed
  /\ left' = FaultSince(streaming, left)
  /\ seenAge' = IF streaming THEN 0 ELSE seenAge
  /\ polled' = TRUE
  /\ UNCHANGED <<streaming, streamFailed, runCount, runSpan, runLast, usableAge, downAge, started>>

ConsecutiveErrsCleared == firstErr' = Never /\ wellAge' = 0

\* ErrStreamFailed from the stream itself: nothing to wait out.
PollFailed ==
  /\ verdict = "none" /\ streamFailed
  /\ verdict' = "failed" /\ polled' = TRUE
  /\ UNCHANGED <<producer, started, firstErr, left, haveFrame, wellAge, seenAge>>

\* ErrStreamFailed from GetFrame's judgement of what it was handed.
PollJudged ==
  /\ Observe
  /\ \/ ready = "served" /\ StreamStalled(left') /\ verdict' = "stalled"
     \/ ready = "served" /\ ~StreamStalled(left') /\ RunFailed /\ verdict' = "unusable"
     \/ ready = "none" /\ RunFailed /\ verdict' = "unusable"
  /\ UNCHANGED <<ready, firstErr, haveFrame, wellAge>>

\* ErrNoNewFrame: the last frame stands.
PollIdle ==
  /\ Observe
  /\ ready = "served" /\ ~StreamStalled(left') /\ ~RunFailed
  /\ ConsecutiveErrsCleared
  /\ UNCHANGED <<ready, haveFrame, verdict>>

\* Mutant: a stream that came up leaves the streak of errors standing.
PollAwaitingKeepsStreak ==
  /\ Observe
  /\ ready = "none" /\ ~RunFailed /\ streaming
  /\ wellAge' = 0
  /\ verdict' = IF Tripped(started, FirstFrameGrace) THEN "noFrame" ELSE "none"
  /\ UNCHANGED <<ready, firstErr, haveFrame>>

\* ErrAwaitingFirstFrame draws on the first frame's budget.
PollAwaiting ==
  /\ Observe
  /\ ready = "none" /\ ~RunFailed /\ streaming
  /\ ConsecutiveErrsCleared
  /\ verdict' = IF Tripped(started, FirstFrameGrace) THEN "noFrame" ELSE "none"
  /\ UNCHANGED <<ready, haveFrame>>

\* Mutant: before the first frame an error is timed by its own clock only.
PollErrorOwnClock ==
  /\ Observe
  /\ \/ ready = "bad"
     \/ ready = "none" /\ ~RunFailed /\ ~streaming
  /\ firstErr' = IF firstErr = Never THEN 0 ELSE firstErr
  /\ verdict' = IF Tripped(firstErr', CaptureGrace) THEN "errors" ELSE "none"
  /\ UNCHANGED <<ready, haveFrame, wellAge>>

\* Any other error: a frame that does not convert, or no frame on a stream
\* that is not up.
PollError ==
  /\ Observe
  /\ \/ ready = "bad"
     \/ ready = "none" /\ ~RunFailed /\ ~streaming
  /\ firstErr' = IF firstErr = Never THEN 0 ELSE firstErr
  /\ verdict' = CASE ~haveFrame /\ Tripped(started, FirstFrameGrace) -> "noFrame"
                  [] (haveFrame \/ ~Tripped(started, FirstFrameGrace))
                       /\ Tripped(firstErr', CaptureGrace) -> "errors"
                  [] OTHER -> "none"
  /\ UNCHANGED <<ready, haveFrame, wellAge>>

\* A frame that converts is published.
PollFrame ==
  /\ Observe
  /\ ready = "new"
  /\ ConsecutiveErrsCleared
  /\ haveFrame' = TRUE /\ ready' = "served"
  /\ UNCHANGED verdict

Poll == PollFailed \/ PollJudged \/ PollIdle \/ PollAwaiting \/ PollError \/ PollFrame

\* The session's context is cancelled.
Cancelled ==
  /\ verdict = "none"
  /\ verdict' = "stopped"
  /\ UNCHANGED <<producer, started, firstErr, left, haveFrame, polled, wellAge, seenAge>>

Tick ==
  /\ verdict = "none" /\ polled
  /\ polled' = FALSE
  /\ started' = Older(started, FirstFrameGrace + 1)
  /\ firstErr' = Older(firstErr, CaptureGrace) /\ left' = Older(left, StallDeadline)
  /\ wellAge' = Older(wellAge, CaptureGrace) /\ seenAge' = Older(seenAge, StallDeadline)
  /\ runLast' = Older(runLast, RunGap + 1) /\ usableAge' = Older(usableAge, RunSpan)
  /\ downAge' = IF streaming THEN 0 ELSE Older(downAge, Longest + 2)
  /\ UNCHANGED <<streaming, streamFailed, ready, runCount, runSpan, haveFrame, verdict>>

Next == Producer \/ Poll \/ Cancelled \/ Tick

Spec == Init /\ [][Next]_vars

-----------------------------------------------------------------------------
(* Properties.                                                             *)

\* A session that never gets a frame has nothing to send, and the bridge
\* leaves streaming mode: however the stream bounces between its states, the
\* reader has given up by the end of the first frame's budget.
DeadAirBounded ==
  verdict = "none" /\ ~haveFrame => started <= FirstFrameGrace

\* Capture ends for trouble that lasted: never for errors with a good or an
\* idle poll between them, never for a stream seen streaming within the
\* deadline, never for a burst of unusable buffers.
VerdictNeedsTrouble ==
  /\ verdict = "errors" => wellAge >= CaptureGrace
  /\ verdict = "stalled" => seenAge >= StallDeadline
  /\ verdict = "unusable" => usableAge >= RunSpan
  /\ verdict = "noFrame" => ~haveFrame /\ started >= FirstFrameGrace
  /\ verdict = "failed" => streamFailed

\* A stream that leaves the streaming state and stays out ends the session,
\* rather than leaving the lights on its last frame, and does so in time: within
\* the stall deadline once its last frame has been served, within captureGrace
\* when there is none or it does not convert, and a unit more for the poll.
LossNoticedInTime ==
  verdict = "none" =>
    /\ ready = "served" => downAge <= StallDeadline + 1
    /\ ready \in {"none", "bad"} => downAge <= CaptureGrace + 1
    /\ ready = "new" => downAge <= 1

-----------------------------------------------------------------------------
(* The inductive invariant (proved in CaptureHealth_proofs): no clock of   *)
(* the code is ahead of the trouble it times, and whoever has polled in    *)
(* this unit of time has found the first frame's budget not yet used up.   *)

FrameOK ==
  /\ ready = "served" => haveFrame
  /\ ready = "none" => ~haveFrame
  /\ verdict = "none" /\ ~haveFrame /\ polled => started < FirstFrameGrace

ClocksOK ==
  /\ firstErr # Never => wellAge >= firstErr
  /\ left # Never => seenAge >= left
  /\ runCount > 0 => usableAge >= Smaller(runSpan + runLast, RunSpan)

\* The stream down for k units, the clock that will end the session is past
\* k - 1: nothing a poll can be handed meanwhile sets it back.
Seen == downAge > 0 /\ (polled \/ downAge > 1)

LossOK ==
  /\ downAge > 0 => ~streaming
  /\ verdict = "none" /\ Seen =>
       /\ left # Never /\ left >= Smaller(downAge - 1, StallDeadline)
       /\ ready # "new"
       /\ ready \in {"none", "bad"} =>
            firstErr # Never /\ firstErr >= Smaller(downAge - 1, CaptureGrace)
       /\ polled /\ ready = "served" => downAge <= StallDeadline
       /\ polled /\ ready # "served" => downAge <= CaptureGrace

HealthInv == TypeOK /\ FrameOK /\ ClocksOK /\ DeadAirBounded /\ VerdictNeedsTrouble
=============================================================================
