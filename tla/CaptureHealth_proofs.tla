--------------------------- MODULE CaptureHealth_proofs ---------------------------
(***************************************************************************)
(* Theorems about CaptureHealth for any deadlines, however often the       *)
(* reader polls and whatever the producer does.                            *)
(***************************************************************************)
EXTENDS CaptureHealth, TLAPS

LEMMA Deadlines ==
  /\ CaptureGrace \in Nat /\ CaptureGrace > 0
  /\ FirstFrameGrace \in Nat /\ FirstFrameGrace > 0
  /\ StallDeadline \in Nat /\ StallDeadline > 0
  /\ RunLimit \in Nat /\ RunLimit > 0
  /\ RunSpan \in Nat /\ RunSpan > 0
  /\ RunGap \in Nat /\ RunGap > 0
  /\ Longest \in Nat /\ Longest >= StallDeadline /\ Longest >= CaptureGrace
BY HealthAssumption DEF Longest

LEMMA InitEstablishesInv == Init => HealthInv
<1> SUFFICES ASSUME Init PROVE HealthInv
  OBVIOUS
<1>1. TypeOK
  <2>1. Never \in Never .. CaptureGrace /\ Never \in Never .. StallDeadline
    BY Deadlines DEF Never
  <2>2. /\ 0 \in 0 .. RunLimit /\ 0 \in 0 .. RunSpan /\ 0 \in 0 .. RunGap + 1
        /\ 0 \in 0 .. FirstFrameGrace + 1 /\ 0 \in 0 .. CaptureGrace /\ 0 \in 0 .. StallDeadline
        /\ 0 \in 0 .. Longest + 2
    BY Deadlines
  <2>3. QED
    BY <2>1, <2>2 DEF Init, TypeOK, Verdicts
<1>2. FrameOK
  BY Deadlines DEF Init, FrameOK
<1>3. ClocksOK
  BY DEF Init, ClocksOK
<1>4. DeadAirBounded
  BY Deadlines DEF Init, DeadAirBounded
<1>5. VerdictNeedsTrouble
  BY DEF Init, VerdictNeedsTrouble
<1>6. QED
  BY <1>1, <1>2, <1>3, <1>4, <1>5 DEF HealthInv

-----------------------------------------------------------------------------
(* The PipeWire thread.                                                    *)

LEMMA RejectKeepsClocks ==
  ASSUME TypeOK, ClocksOK, RejectBuffer, UNCHANGED reader
  PROVE  ClocksOK' /\ runCount' \in 0 .. RunLimit /\ runSpan' \in 0 .. RunSpan
<1>1. /\ runCount \in 0 .. RunLimit /\ runSpan \in 0 .. RunSpan /\ runLast \in 0 .. RunGap + 1
      /\ usableAge \in 0 .. RunSpan
  BY DEF TypeOK
<1>2. /\ UNCHANGED <<firstErr, wellAge, left, seenAge, usableAge>> /\ runLast' = 0
  BY DEF RejectBuffer, reader
<1>3. CASE runCount > 0 /\ runLast <= RunGap
  BY <1>1, <1>2, <1>3, Deadlines DEF RejectBuffer, ClocksOK, Smaller
<1>4. CASE ~(runCount > 0 /\ runLast <= RunGap)
  BY <1>1, <1>2, <1>4, Deadlines DEF RejectBuffer, ClocksOK, Smaller
<1>5. QED
  BY <1>3, <1>4

LEMMA ProducerKeepsInv ==
  ASSUME HealthInv, Producer
  PROVE  HealthInv'
<1>1. UNCHANGED reader /\ verdict = "none"
  BY DEF Producer
<1>2. TypeOK' /\ ClocksOK'
  <2>1. CASE StateChanges
    BY <1>1, <2>1, Deadlines DEF StateChanges, reader, HealthInv, TypeOK, ClocksOK
  <2>2. CASE StreamErrs
    BY <1>1, <2>2 DEF StreamErrs, reader, HealthInv, TypeOK, ClocksOK
  <2>3. CASE FormatChanges
    BY <1>1, <2>3, Deadlines DEF FormatChanges, reader, HealthInv, TypeOK, ClocksOK
  <2>4. CASE RejectBuffer
    BY <1>1, <2>4, RejectKeepsClocks, Deadlines DEF RejectBuffer, reader, HealthInv, TypeOK
  <2>5. ASSUME NEW converts \in BOOLEAN, Publish(converts)
        PROVE  TypeOK' /\ ClocksOK'
    BY <1>1, <2>5, Deadlines DEF Publish, reader, HealthInv, TypeOK, ClocksOK
  <2>6. QED
    BY <2>1, <2>2, <2>3, <2>4, <2>5 DEF Producer
<1>3. ready' = ready \/ ready' \in {"new", "bad"}
  BY DEF Producer, StateChanges, StreamErrs, FormatChanges, RejectBuffer, Publish
<1>4. FrameOK'
  BY <1>1, <1>3 DEF reader, HealthInv, FrameOK
<1>5. DeadAirBounded' /\ VerdictNeedsTrouble'
  BY <1>1 DEF reader, HealthInv, DeadAirBounded, VerdictNeedsTrouble
<1>6. QED
  BY <1>2, <1>4, <1>5 DEF HealthInv

-----------------------------------------------------------------------------
(* The reader.                                                             *)

\* What every poll that gets past the stream's own failure does to its clock.
LEMMA ObserveKeepsClocks ==
  ASSUME HealthInv, Observe
  PROVE  /\ left' \in Never .. StallDeadline /\ seenAge' \in 0 .. StallDeadline
         /\ left' # Never => seenAge' >= left'
         /\ UNCHANGED <<streaming, streamFailed, runCount, runSpan, runLast, usableAge, downAge, started>>
         /\ polled' = TRUE /\ verdict = "none"
<1>1. left \in Never .. StallDeadline /\ seenAge \in 0 .. StallDeadline /\ streaming \in BOOLEAN
      /\ (left # Never => seenAge >= left)
  BY DEF HealthInv, TypeOK, ClocksOK
<1>2. CASE streaming
  BY <1>1, <1>2, Deadlines DEF Observe, FaultSince, Never
<1>3. CASE ~streaming
  BY <1>1, <1>3, Deadlines DEF Observe, FaultSince, Never
<1>4. QED
  BY <1>2, <1>3

LEMMA ObserveKeepsRun ==
  ASSUME HealthInv, Observe
  PROVE  runCount' > 0 => usableAge' >= Smaller(runSpan' + runLast', RunSpan')
BY DEF Observe, HealthInv, ClocksOK

LEMMA FailedKeepsInv ==
  ASSUME HealthInv, PollFailed \/ Cancelled
  PROVE  HealthInv'
<1>1. /\ UNCHANGED <<producer, started, firstErr, left, haveFrame, wellAge, seenAge>>
      /\ polled' \in BOOLEAN
      /\ verdict' \in {"failed", "stopped"} /\ (verdict' = "failed" => streamFailed)
  BY DEF PollFailed, Cancelled, HealthInv, TypeOK
<1>2. TypeOK'
  BY <1>1 DEF producer, HealthInv, TypeOK, Verdicts
<1>3. FrameOK' /\ ClocksOK'
  BY <1>1 DEF producer, HealthInv, FrameOK, ClocksOK
<1>4. DeadAirBounded' /\ VerdictNeedsTrouble'
  BY <1>1 DEF producer, DeadAirBounded, VerdictNeedsTrouble
<1>5. QED
  BY <1>2, <1>3, <1>4 DEF HealthInv

LEMMA JudgedKeepsInv ==
  ASSUME HealthInv, PollJudged
  PROVE  HealthInv'
<1>1. /\ Observe /\ UNCHANGED <<ready, firstErr, haveFrame, wellAge>>
      /\ \/ StreamStalled(left') /\ verdict' = "stalled"
         \/ RunFailed /\ verdict' = "unusable"
  BY DEF PollJudged
<1>2. /\ left' \in Never .. StallDeadline /\ seenAge' \in 0 .. StallDeadline
      /\ left' # Never => seenAge' >= left'
      /\ UNCHANGED <<streaming, streamFailed, runCount, runSpan, runLast, usableAge, downAge, started>>
      /\ polled' = TRUE /\ verdict = "none"
  BY <1>1, ObserveKeepsClocks
<1>3. TypeOK'
  BY <1>1, <1>2 DEF HealthInv, TypeOK, Verdicts
<1>4. FrameOK' /\ ClocksOK'
  BY <1>1, <1>2 DEF HealthInv, FrameOK, ClocksOK
<1>5. VerdictNeedsTrouble'
  <2>1. CASE StreamStalled(left') /\ verdict' = "stalled"
    BY <1>2, <2>1, Deadlines DEF StreamStalled, Tripped, VerdictNeedsTrouble, Never
  <2>2. CASE RunFailed /\ verdict' = "unusable"
    <3>1. usableAge >= Smaller(runSpan + runLast, RunSpan)
      BY <2>2, Deadlines DEF RunFailed, HealthInv, TypeOK, ClocksOK
    <3>2. usableAge >= RunSpan
      BY <2>2, <3>1, Deadlines DEF RunFailed, HealthInv, TypeOK, Smaller
    <3>3. QED
      BY <1>2, <2>2, <3>2 DEF VerdictNeedsTrouble
  <2>3. QED
    BY <1>1, <2>1, <2>2
<1>6. DeadAirBounded'
  BY <1>1 DEF DeadAirBounded
<1>7. QED
  BY <1>3, <1>4, <1>5, <1>6 DEF HealthInv

\* A poll that is no error clears the streak.
LEMMA WellKeepsInv ==
  ASSUME HealthInv, PollIdle \/ PollAwaiting \/ PollFrame
  PROVE  HealthInv'
<1>1. /\ Observe /\ firstErr' = Never /\ wellAge' = 0
      /\ \/ ready = "served" /\ UNCHANGED <<ready, haveFrame, verdict>>
         \/ /\ ready = "none" /\ UNCHANGED <<ready, haveFrame>>
            /\ verdict' = IF Tripped(started, FirstFrameGrace) THEN "noFrame" ELSE "none"
         \/ haveFrame' = TRUE /\ ready' = "served" /\ UNCHANGED verdict
  BY DEF PollIdle, PollAwaiting, PollFrame, ConsecutiveErrsCleared
<1>2. /\ left' \in Never .. StallDeadline /\ seenAge' \in 0 .. StallDeadline
      /\ left' # Never => seenAge' >= left'
      /\ UNCHANGED <<streaming, streamFailed, runCount, runSpan, runLast, usableAge, downAge, started>>
      /\ polled' = TRUE /\ verdict = "none"
  BY <1>1, ObserveKeepsClocks
<1>3. started \in 0 .. FirstFrameGrace + 1 /\ (Tripped(started, FirstFrameGrace) <=> started >= FirstFrameGrace)
  BY Deadlines DEF HealthInv, TypeOK, Tripped, Never
<1>4. TypeOK'
  <2>1. /\ ready' \in {"none", "new", "bad", "served"} /\ haveFrame' \in BOOLEAN
        /\ verdict' \in Verdicts
    BY <1>1, <1>2 DEF HealthInv, TypeOK, Verdicts
  <2>2. firstErr' \in Never .. CaptureGrace /\ wellAge' \in 0 .. CaptureGrace
    BY <1>1, Deadlines DEF Never
  <2>3. QED
    BY <1>2, <2>1, <2>2 DEF HealthInv, TypeOK
<1>5. ClocksOK'
  BY <1>1, <1>2 DEF HealthInv, ClocksOK
<1>6. FrameOK' /\ DeadAirBounded' /\ VerdictNeedsTrouble'
  <2>1. CASE ready = "served" /\ UNCHANGED <<ready, haveFrame, verdict>>
    BY <1>2, <2>1 DEF HealthInv, FrameOK, DeadAirBounded, VerdictNeedsTrouble
  <2>2. CASE /\ ready = "none" /\ UNCHANGED <<ready, haveFrame>>
             /\ verdict' = IF Tripped(started, FirstFrameGrace) THEN "noFrame" ELSE "none"
    <3>1. ~haveFrame
      BY <2>2 DEF HealthInv, FrameOK
    <3>2. CASE started >= FirstFrameGrace
      BY <1>2, <1>3, <2>2, <3>1, <3>2 DEF FrameOK, DeadAirBounded, VerdictNeedsTrouble
    <3>3. CASE started < FirstFrameGrace
      BY <1>2, <1>3, <2>2, <3>1, <3>3, Deadlines DEF FrameOK, DeadAirBounded, VerdictNeedsTrouble
    <3>4. QED
      BY <1>3, <3>2, <3>3, Deadlines
  <2>3. CASE haveFrame' = TRUE /\ ready' = "served" /\ UNCHANGED verdict
    BY <1>2, <2>3 DEF HealthInv, FrameOK, DeadAirBounded, VerdictNeedsTrouble
  <2>4. QED
    BY <1>1, <2>1, <2>2, <2>3
<1>7. QED
  BY <1>4, <1>5, <1>6 DEF HealthInv

LEMMA ErrorKeepsInv ==
  ASSUME HealthInv, PollError
  PROVE  HealthInv'
<1>1. /\ Observe /\ ready \in {"bad", "none"}
      /\ firstErr' = IF firstErr = Never THEN 0 ELSE firstErr
      /\ UNCHANGED <<ready, haveFrame, wellAge>>
  BY DEF PollError
<1>2. /\ left' \in Never .. StallDeadline /\ seenAge' \in 0 .. StallDeadline
      /\ left' # Never => seenAge' >= left'
      /\ UNCHANGED <<streaming, streamFailed, runCount, runSpan, runLast, usableAge, downAge, started>>
      /\ polled' = TRUE /\ verdict = "none"
  BY <1>1, ObserveKeepsClocks
<1>3. /\ started \in 0 .. FirstFrameGrace + 1 /\ wellAge \in 0 .. CaptureGrace
      /\ firstErr \in Never .. CaptureGrace /\ haveFrame \in BOOLEAN
      /\ firstErr # Never => wellAge >= firstErr
  BY DEF HealthInv, TypeOK, ClocksOK
<1>4. firstErr' \in 0 .. CaptureGrace /\ wellAge' >= firstErr'
  BY <1>1, <1>3, Deadlines DEF Never
<1>5. \/ ~haveFrame /\ started >= FirstFrameGrace /\ verdict' = "noFrame"
      \/ (haveFrame \/ started < FirstFrameGrace) /\ firstErr' >= CaptureGrace /\ verdict' = "errors"
      \/ (haveFrame \/ started < FirstFrameGrace) /\ verdict' = "none"
  <2>1. /\ Tripped(started, FirstFrameGrace) <=> started >= FirstFrameGrace
        /\ Tripped(firstErr', CaptureGrace) <=> firstErr' >= CaptureGrace
    BY <1>3, <1>4, Deadlines DEF Tripped, Never
  <2>2. verdict' = CASE ~haveFrame /\ Tripped(started, FirstFrameGrace) -> "noFrame"
                     [] (haveFrame \/ ~Tripped(started, FirstFrameGrace))
                          /\ Tripped(firstErr', CaptureGrace) -> "errors"
                     [] OTHER -> "none"
    BY DEF PollError
  <2>3. started >= FirstFrameGrace \/ started < FirstFrameGrace
    BY <1>3, Deadlines
  <2>4. QED
    BY <2>1, <2>2, <2>3
<1>6. TypeOK'
  <2>1. verdict' \in Verdicts
    BY <1>5 DEF Verdicts
  <2>2. firstErr' \in Never .. CaptureGrace
    BY <1>4, Deadlines DEF Never
  <2>3. QED
    BY <1>1, <1>2, <2>1, <2>2 DEF HealthInv, TypeOK
<1>7. ClocksOK'
  BY <1>1, <1>2, <1>4 DEF HealthInv, ClocksOK
<1>8. FrameOK' /\ DeadAirBounded'
  BY <1>1, <1>2, <1>3, <1>5, Deadlines DEF HealthInv, FrameOK, DeadAirBounded
<1>9. VerdictNeedsTrouble'
  BY <1>1, <1>2, <1>3, <1>4, <1>5, Deadlines DEF VerdictNeedsTrouble
<1>10. QED
  BY <1>6, <1>7, <1>8, <1>9 DEF HealthInv

-----------------------------------------------------------------------------
(* The clock.                                                              *)

\* Two ages that grow together keep their order.
LEMMA OlderOrdered ==
  ASSUME NEW cap \in Nat, NEW a \in Never .. cap, NEW b \in 0 .. cap, a # Never => b >= a
  PROVE  /\ Older(a, cap) \in Never .. cap /\ Older(b, cap) \in 0 .. cap
         /\ Older(a, cap) # Never => Older(b, cap) >= Older(a, cap)
BY DEF Older, Smaller, Never

LEMMA TickKeepsInv ==
  ASSUME HealthInv, Tick
  PROVE  HealthInv'
<1>1. TypeOK /\ FrameOK /\ ClocksOK
  BY DEF HealthInv
<1>2. /\ started' \in 0 .. FirstFrameGrace + 1
      /\ started < FirstFrameGrace => started' <= FirstFrameGrace
  BY <1>1, Deadlines DEF Tick, TypeOK, Older, Smaller, Never
<1>3. /\ firstErr' \in Never .. CaptureGrace /\ wellAge' \in 0 .. CaptureGrace
      /\ firstErr' # Never => wellAge' >= firstErr'
  <2>1. firstErr \in Never .. CaptureGrace /\ wellAge \in 0 .. CaptureGrace
        /\ (firstErr # Never => wellAge >= firstErr)
    BY <1>1 DEF TypeOK, ClocksOK
  <2>2. QED
    BY <2>1, OlderOrdered, Deadlines DEF Tick
<1>4. /\ left' \in Never .. StallDeadline /\ seenAge' \in 0 .. StallDeadline
      /\ left' # Never => seenAge' >= left'
  <2>1. left \in Never .. StallDeadline /\ seenAge \in 0 .. StallDeadline
        /\ (left # Never => seenAge >= left)
    BY <1>1 DEF TypeOK, ClocksOK
  <2>2. QED
    BY <2>1, OlderOrdered, Deadlines DEF Tick
<1>5. /\ runLast' \in 0 .. RunGap + 1 /\ usableAge' \in 0 .. RunSpan
      /\ runCount' > 0 => usableAge' >= Smaller(runSpan' + runLast', RunSpan)
  <2>1. /\ runLast \in 0 .. RunGap + 1 /\ usableAge \in 0 .. RunSpan
        /\ runSpan \in 0 .. RunSpan /\ runCount \in 0 .. RunLimit
        /\ runCount > 0 => usableAge >= Smaller(runSpan + runLast, RunSpan)
    BY <1>1 DEF TypeOK, ClocksOK
  <2>2. /\ runLast' = Smaller(runLast + 1, RunGap + 1)
        /\ usableAge' = Smaller(usableAge + 1, RunSpan)
        /\ runSpan' = runSpan /\ runCount' = runCount
    BY <2>1, Deadlines DEF Tick, Older, Never
  <2>3. QED
    BY <2>1, <2>2, Deadlines DEF Smaller
<1>6. TypeOK'
  <2>1. downAge' \in 0 .. Longest + 2
    BY <1>1, Deadlines DEF Tick, TypeOK, Older, Smaller, Never
  <2>2. QED
    BY <1>1, <1>2, <1>3, <1>4, <1>5, <2>1 DEF Tick, TypeOK
<1>7. ClocksOK'
  BY <1>3, <1>4, <1>5 DEF ClocksOK
<1>8. verdict = "none" /\ verdict' = "none" /\ polled /\ ~polled' /\ UNCHANGED <<ready, haveFrame>>
  BY DEF Tick
<1>9. FrameOK' /\ DeadAirBounded'
  BY <1>1, <1>2, <1>8 DEF FrameOK, DeadAirBounded
<1>10. VerdictNeedsTrouble'
  BY <1>8 DEF VerdictNeedsTrouble
<1>11. QED
  BY <1>6, <1>7, <1>9, <1>10 DEF HealthInv

LEMMA NextKeepsInv ==
  ASSUME HealthInv, [Next]_vars
  PROVE  HealthInv'
<1>1. CASE UNCHANGED vars
  BY <1>1 DEF vars, producer, reader, HealthInv, TypeOK, FrameOK, ClocksOK, DeadAirBounded,
              VerdictNeedsTrouble
<1>2. CASE Next
  BY <1>2, ProducerKeepsInv, FailedKeepsInv, JudgedKeepsInv, WellKeepsInv, ErrorKeepsInv, TickKeepsInv
  DEF Next, Poll
<1>3. QED
  BY <1>1, <1>2

-----------------------------------------------------------------------------
(* The results.                                                            *)

\* The clocks of the native reader loop, in order, for any deadlines.
THEOREM HealthInvariant == Spec => []HealthInv
<1>1. HealthInv /\ [Next]_vars => HealthInv'
  BY NextKeepsInv
<1>2. QED
  BY InitEstablishesInv, <1>1, PTL DEF Spec

\* A session without a first frame is given up by the end of its budget,
\* whatever the stream does meanwhile.
THEOREM DeadAirIsBounded == Spec => []DeadAirBounded
<1>1. HealthInv => DeadAirBounded
  BY DEF HealthInv
<1>2. QED
  BY HealthInvariant, <1>1, PTL

\* Capture is given up only for trouble that lasted its whole deadline.
THEOREM VerdictsNeedTrouble == Spec => []VerdictNeedsTrouble
<1>1. HealthInv => VerdictNeedsTrouble
  BY DEF HealthInv
<1>2. QED
  BY HealthInvariant, <1>1, PTL

-----------------------------------------------------------------------------
(* A stream that goes down and stays down.                                 *)

LossInv == LossOK /\ LossNoticedInTime

\* While the stream has not been down for a whole unit nothing is claimed of
\* the clocks, and no deadline is shorter than that.
LEMMA UpKeepsLoss ==
  ASSUME downAge' = 0
  PROVE  LossInv'
BY Deadlines DEF LossInv, LossOK, LossNoticedInTime, Seen

LEMMA ProducerKeepsLoss ==
  ASSUME HealthInv, LossInv, Producer
  PROVE  LossInv'
<1>1. downAge \in Nat /\ UNCHANGED <<verdict, left, firstErr, polled>>
  BY Deadlines DEF HealthInv, TypeOK, Producer, reader
<1>2. downAge > 0 => ~streaming
  BY DEF LossInv, LossOK
<1>3. CASE downAge' = 0
  BY <1>3, UpKeepsLoss
<1>4. CASE downAge' # 0
  <2>1. ~streaming' /\ UNCHANGED <<downAge, ready>>
    <3>1. CASE StateChanges
      BY <1>1, <1>2, <1>4, <3>1 DEF StateChanges
    <3>2. CASE StreamErrs
      BY <3>2 DEF StreamErrs
    <3>3. CASE FormatChanges
      BY <1>1, <1>2, <1>4, <3>3 DEF FormatChanges
    <3>4. CASE RejectBuffer \/ \E converts \in BOOLEAN : Publish(converts)
      BY <1>1, <1>2, <1>4, <3>4 DEF RejectBuffer, Publish
    <3>5. QED
      BY <3>1, <3>2, <3>3, <3>4 DEF Producer
  <2>2. QED
    BY <1>1, <2>1 DEF LossInv, LossOK, LossNoticedInTime, Seen
<1>5. QED
  BY <1>3, <1>4

\* Every poll finds a stream that is down, and leaves its clock running.
LEMMA DownIsObserved ==
  ASSUME HealthInv, LossInv, Observe, downAge # 0
  PROVE  /\ ~streaming /\ downAge' = downAge /\ downAge \in Nat \ {0}
         /\ left' \in 0 .. StallDeadline /\ left' >= Smaller(downAge - 1, StallDeadline)
         /\ ready = "new" => downAge = 1
<1>1. /\ downAge \in Nat /\ left \in Never .. StallDeadline /\ verdict = "none"
      /\ streaming \in BOOLEAN /\ polled \in BOOLEAN
  BY Deadlines DEF HealthInv, TypeOK, Observe
<1>2. ~streaming /\ downAge' = downAge
  BY <1>1 DEF LossInv, LossOK, Observe
<1>3. left' = IF left = Never THEN 0 ELSE left
  BY <1>2 DEF Observe, FaultSince
<1>4. CASE downAge = 1
  BY <1>1, <1>2, <1>3, <1>4, Deadlines DEF Smaller, Never
<1>5. CASE downAge # 1
  <2>1. Seen
    BY <1>1, <1>5 DEF Seen
  <2>2. left # Never /\ left >= Smaller(downAge - 1, StallDeadline) /\ ready # "new"
    BY <1>1, <2>1 DEF LossInv, LossOK
  <2>3. QED
    BY <1>1, <1>2, <1>3, <2>2, Deadlines DEF Never
<1>6. QED
  BY <1>4, <1>5

\* The last frame stands only until the stall deadline.
LEMMA ServedKeepsLoss ==
  ASSUME HealthInv, LossInv, PollIdle \/ PollFrame \/ PollAwaiting
  PROVE  LossInv'
<1>1. Observe /\ downAge \in Nat /\ downAge' = downAge /\ polled' = TRUE
  BY Deadlines DEF PollIdle, PollFrame, PollAwaiting, Observe, HealthInv, TypeOK
<1>2. CASE downAge = 0
  BY <1>1, <1>2, UpKeepsLoss
<1>3. CASE downAge # 0
  <2>1. /\ ~streaming /\ downAge \in Nat \ {0}
        /\ left' \in 0 .. StallDeadline /\ left' >= Smaller(downAge - 1, StallDeadline)
        /\ ready = "new" => downAge = 1
    BY <1>1, <1>3, DownIsObserved
  <2>2. ready' = "served" /\ streaming' = streaming
    BY <2>1 DEF PollIdle, PollFrame, PollAwaiting, Observe
  <2>3. downAge <= StallDeadline
    <3>1. CASE PollIdle
      <4>1. left' < StallDeadline
        BY <2>1, <3>1, Deadlines DEF PollIdle, StreamStalled, Tripped, Never
      <4>2. QED
        BY <2>1, <4>1, Deadlines DEF Smaller
    <3>2. CASE PollFrame
      BY <2>1, <3>2, Deadlines DEF PollFrame
    <3>3. QED
      BY <2>1, <3>1, <3>2 DEF PollAwaiting
  <2>4. left' # Never
    BY <2>1, Deadlines DEF Never
  <2>5. QED
    BY <1>1, <2>1, <2>2, <2>3, <2>4, Deadlines DEF LossInv, LossOK, LossNoticedInTime
<1>4. QED
  BY <1>2, <1>3

\* Errors last only until captureGrace.
LEMMA ErrorKeepsLoss ==
  ASSUME HealthInv, LossInv, PollError
  PROVE  LossInv'
<1>1. /\ Observe /\ downAge \in Nat /\ downAge' = downAge /\ polled' = TRUE /\ streaming' = streaming
      /\ verdict = "none" /\ ready \in {"none", "bad"} /\ ready' = ready
      /\ firstErr \in Never .. CaptureGrace /\ firstErr' = IF firstErr = Never THEN 0 ELSE firstErr
  BY Deadlines DEF PollError, Observe, HealthInv, TypeOK
<1>2. CASE downAge = 0
  BY <1>1, <1>2, UpKeepsLoss
<1>3. CASE downAge # 0
  <2>1. /\ ~streaming /\ downAge \in Nat \ {0}
        /\ left' \in 0 .. StallDeadline /\ left' >= Smaller(downAge - 1, StallDeadline)
    BY <1>1, <1>3, DownIsObserved
  <2>2. firstErr' \in 0 .. CaptureGrace /\ firstErr' >= Smaller(downAge - 1, CaptureGrace)
    <3>1. CASE downAge = 1
      BY <1>1, <3>1, Deadlines DEF Smaller, Never
    <3>2. CASE downAge # 1
      <4>1. firstErr # Never /\ firstErr >= Smaller(downAge - 1, CaptureGrace)
        BY <1>1, <2>1, <3>2 DEF LossInv, LossOK, Seen
      <4>2. QED
        BY <1>1, <4>1, Deadlines DEF Never
    <3>3. QED
      BY <3>1, <3>2
  <2>3. verdict' = "none" => downAge <= CaptureGrace
    <3>1. Tripped(firstErr', CaptureGrace) => verdict' # "none"
      BY Zenon DEF PollError
    <3>2. firstErr' < CaptureGrace => downAge <= CaptureGrace
      BY <2>1, <2>2, Deadlines DEF Smaller
    <3>3. ~Tripped(firstErr', CaptureGrace) => firstErr' < CaptureGrace
      BY <2>2, Deadlines DEF Tripped, Never
    <3>4. QED
      BY <3>1, <3>2, <3>3
  <2>4. left' # Never /\ firstErr' # Never
    BY <2>1, <2>2, Deadlines DEF Never
  <2>5. QED
    BY <1>1, <2>1, <2>2, <2>3, <2>4, Deadlines DEF LossInv, LossOK, LossNoticedInTime
<1>4. QED
  BY <1>2, <1>3

\* A clock that has kept up with the trouble still does a unit later.
LEMMA ClockKeepsUp ==
  ASSUME NEW cap \in Nat, NEW a \in 0 .. cap, NEW d \in Nat \ {0}, NEW e \in Nat,
         e <= d + 1, a >= Smaller(d - 1, cap)
  PROVE  Smaller(a + 1, cap) \in 0 .. cap /\ Smaller(a + 1, cap) >= Smaller(e - 1, cap)
BY DEF Smaller

\* A poll of a stream that is down got past the last deadline, so that one more
\* unit is all there is until the next.
LEMMA TickKeepsLoss ==
  ASSUME HealthInv, LossInv, Tick
  PROVE  LossInv'
<1>1. /\ downAge \in Nat /\ left \in Never .. StallDeadline /\ firstErr \in Never .. CaptureGrace
      /\ verdict = "none" /\ polled /\ polled' = FALSE /\ ready \in {"none", "new", "bad", "served"}
      /\ UNCHANGED <<streaming, ready>>
  BY Deadlines DEF Tick, HealthInv, TypeOK
<1>2. CASE streaming
  BY <1>2, UpKeepsLoss DEF Tick
<1>3. CASE ~streaming
  <2>1. downAge' = Smaller(downAge + 1, Longest + 2)
    BY <1>1, <1>3 DEF Tick, Older, Never
  <2>2. downAge' \in Nat /\ downAge' <= downAge + 1
    BY <1>1, <2>1, Deadlines DEF Smaller
  <2>3. CASE downAge = 0
    BY <1>1, <1>3, <2>2, <2>3, Deadlines DEF LossInv, LossOK, LossNoticedInTime, Seen
  <2>4. CASE downAge # 0
    <3>1. Seen
      BY <1>1, <2>4 DEF Seen
    <3>2. /\ left # Never /\ left >= Smaller(downAge - 1, StallDeadline)
          /\ ready # "new"
          /\ ready \in {"none", "bad"} =>
               firstErr # Never /\ firstErr >= Smaller(downAge - 1, CaptureGrace)
          /\ ready = "served" => downAge <= StallDeadline
          /\ ready # "served" => downAge <= CaptureGrace
      BY <1>1, <3>1 DEF LossInv, LossOK
    <3>3. left' = Smaller(left + 1, StallDeadline) /\ left' # Never
      BY <1>1, <3>2, Deadlines DEF Tick, Older, Smaller, Never
    <3>4. left' >= Smaller(downAge' - 1, StallDeadline)
      <4>1. left \in 0 .. StallDeadline
        BY <1>1, <3>2, Deadlines DEF Never
      <4>2. QED
        BY <1>1, <2>2, <2>4, <3>2, <3>3, <4>1, ClockKeepsUp, Deadlines
    <3>5. ready \in {"none", "bad"} =>
            firstErr' # Never /\ firstErr' >= Smaller(downAge' - 1, CaptureGrace)
      <4>1. ready \in {"none", "bad"} => firstErr' = Smaller(firstErr + 1, CaptureGrace)
        BY <3>2 DEF Tick, Older
      <4>2. ready \in {"none", "bad"} => firstErr \in 0 .. CaptureGrace
        BY <1>1, <3>2, Deadlines DEF Never
      <4>3. ready \in {"none", "bad"} =>
              firstErr' \in 0 .. CaptureGrace /\ firstErr' >= Smaller(downAge' - 1, CaptureGrace)
        BY <1>1, <2>2, <2>4, <3>2, <4>1, <4>2, ClockKeepsUp, Deadlines
      <4>4. QED
        BY <4>3, Deadlines DEF Never
    <3>6. LossNoticedInTime'
      BY <1>1, <2>2, <3>2, Deadlines DEF LossNoticedInTime
    <3>7. LossOK'
      BY <1>1, <1>3, <3>2, <3>3, <3>4, <3>5 DEF LossOK
    <3>8. QED
      BY <3>6, <3>7 DEF LossInv
  <2>5. QED
    BY <2>3, <2>4
<1>4. QED
  BY <1>2, <1>3

LEMMA NextKeepsLoss ==
  ASSUME HealthInv, LossInv, [Next]_vars
  PROVE  LossInv'
<1>1. CASE UNCHANGED vars
  BY <1>1 DEF vars, producer, reader, LossInv, LossOK, LossNoticedInTime, Seen
<1>2. CASE PollFailed \/ PollJudged \/ Cancelled
  <2>1. verdict' # "none" /\ UNCHANGED <<streaming, downAge>>
    BY <1>2 DEF PollFailed, PollJudged, Cancelled, Observe, producer
  <2>2. QED
    BY <2>1 DEF LossInv, LossOK, LossNoticedInTime
<1>3. CASE Producer \/ Tick
  BY <1>3, ProducerKeepsLoss, TickKeepsLoss
<1>4. CASE PollIdle \/ PollFrame \/ PollAwaiting \/ PollError
  BY <1>4, ServedKeepsLoss, ErrorKeepsLoss
<1>5. QED
  BY <1>1, <1>2, <1>3, <1>4 DEF Next, Poll

\* A stream that goes down and stays down ends the session within the stall
\* deadline or captureGrace, for any deadlines: no buffer it left behind and no
\* poll sets the clock back that will end it.
THEOREM LossIsNoticedInTime == Spec => []LossNoticedInTime
<1>1. Init => LossInv
  <2> SUFFICES ASSUME Init PROVE LossInv
    OBVIOUS
  <2>1. downAge = 0 /\ streaming = FALSE
    BY DEF Init
  <2>2. QED
    BY <2>1, Deadlines DEF LossInv, LossOK, LossNoticedInTime, Seen
<1>2. HealthInv /\ LossInv /\ [Next]_vars => LossInv'
  BY NextKeepsLoss
<1>3. LossInv => LossNoticedInTime
  BY DEF LossInv
<1>4. QED
  BY <1>1, <1>2, <1>3, HealthInvariant, PTL DEF Spec
=============================================================================
