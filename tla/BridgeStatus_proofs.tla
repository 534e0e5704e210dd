------------------------- MODULE BridgeStatus_proofs -------------------------
(***************************************************************************)
(* Theorems about BridgeStatus for any number of callers.                  *)
(***************************************************************************)
EXTENDS BridgeStatus, TLAPS

LEMMA VerdictTyped ==
  ASSUME NEW k \in Kinds, NEW answer \in {"none", "ok", "refused"}
  PROVE  Verdict(k, answer) \in {"answered", "gone", "unsaid"}
BY DEF Verdict

LEMMA MovesEffect ==
  ASSUME TypeOK, NEW p \in Processes, Moves(p)
  PROVE  /\ at' \in [Processes -> {"idle", "asked", "heard", "noticed", "emitting"}]
         /\ kind' \in [Processes -> Kinds]
         /\ verdict' \in [Processes -> {"answered", "gone", "unsaid"}]
         /\ at'[p] \in {"idle", "asked"}
         /\ \A q \in Processes : q # p => at'[q] = at[q]
BY DEF Moves, TypeOK, Kinds

LEMMA InitEstablishesInv == Init => BridgeInv
BY BridgeAssumption DEF Init, BridgeInv, TypeOK, EmissionOK, Owed, Kinds

LEMMA AsksKeepsInv ==
  ASSUME BridgeInv, NEW p \in Processes, NEW k \in Kinds, Asks(p, k)
  PROVE  BridgeInv'
<1> USE DEF Asks, emission
<1>1. TypeOK'
  BY DEF BridgeInv, TypeOK
<1>2. QED
  BY <1>1 DEF BridgeInv, TypeOK, EmissionOK, Owed

LEMMA HearsKeepsInv ==
  ASSUME BridgeInv, NEW p \in Processes, Hears(p)
  PROVE  BridgeInv'
<1> USE DEF Hears, emission
<1>1. PICK answer \in Answers(kind[p]) : verdict' = [verdict EXCEPT ![p] = Verdict(kind[p], answer)]
  OBVIOUS
<1>2. answer \in {"none", "ok", "refused"} /\ kind[p] \in Kinds
  BY <1>1 DEF Answers, BridgeInv, TypeOK
<1>3. Verdict(kind[p], answer) \in {"answered", "gone", "unsaid"}
  BY <1>2, VerdictTyped
<1>4. TypeOK'
  BY <1>1, <1>3 DEF BridgeInv, TypeOK
<1>5. QED
  BY <1>4 DEF BridgeInv, TypeOK, EmissionOK, Owed

LEMMA UnsaidKeepsInv ==
  ASSUME BridgeInv, NEW p \in Processes, Unsaid(p)
  PROVE  BridgeInv'
<1> USE DEF Unsaid, emission
<1>1. TypeOK'
  BY MovesEffect DEF BridgeInv, TypeOK
<1>2. QED
  BY <1>1, MovesEffect DEF BridgeInv, TypeOK, EmissionOK, Owed

\* A change that is observed is owed a signal; what is recorded is otherwise
\* what it was, or nobody has been signalled yet.
LEMMA RecordsKeepsInv ==
  ASSUME BridgeInv, NEW p \in Processes, Records(p)
  PROVE  BridgeInv'
<1> USE DEF Records, emission
<1>1. CASE observed /\ connected' # connected
  <2>1. /\ at' = [at EXCEPT ![p] = "noticed"] /\ UNCHANGED <<kind, verdict>>
    BY <1>1
  <2>2. TypeOK'
    BY <2>1 DEF BridgeInv, TypeOK
  <2>3. Owed'
    BY <2>1 DEF BridgeInv, TypeOK, Owed
  <2>4. QED
    BY <1>1, <2>1, <2>2, <2>3 DEF BridgeInv, TypeOK, EmissionOK
<1>2. CASE ~(observed /\ connected' # connected)
  <2>1. Moves(p)
    BY <1>2
  <2>2. TypeOK'
    BY <2>1, MovesEffect DEF BridgeInv, TypeOK
  <2>3. Owed' <=> Owed
    BY <2>1, MovesEffect DEF BridgeInv, Owed
  <2>4. \A q \in Processes : at'[q] = "emitting" <=> emitter' = q
    BY <2>1, MovesEffect DEF BridgeInv, EmissionOK
  <2>5. ~observed => lastSignal = {}
    BY DEF BridgeInv, EmissionOK
  <2>6. QED
    BY <1>2, <2>2, <2>3, <2>4, <2>5 DEF BridgeInv, EmissionOK
<1>3. QED
  BY <1>1, <1>2

LEMMA EmissionBeginsKeepsInv ==
  ASSUME BridgeInv, NEW p \in Processes, EmissionBegins(p)
  PROVE  BridgeInv'
<1> USE BridgeAssumption DEF EmissionBegins
<1>1. TypeOK'
  BY DEF BridgeInv, TypeOK
<1>2. QED
  BY <1>1 DEF BridgeInv, TypeOK, EmissionOK, Owed

LEMMA EmissionSentKeepsInv ==
  ASSUME BridgeInv, NEW p \in Processes, EmissionSent(p)
  PROVE  BridgeInv'
<1> USE BridgeAssumption DEF EmissionSent
<1>1. TypeOK'
  BY MovesEffect DEF BridgeInv, TypeOK
<1>2. emitter = p /\ (Owed' <=> Owed)
  BY MovesEffect DEF BridgeInv, EmissionOK, Owed
<1>3. QED
  BY <1>1, <1>2, MovesEffect DEF BridgeInv, TypeOK, EmissionOK

LEMMA NextKeepsInv ==
  ASSUME BridgeInv, [Next]_vars
  PROVE  BridgeInv'
<1>1. CASE BridgeFlips
  BY <1>1 DEF BridgeFlips, calls, emission, BridgeInv, TypeOK, EmissionOK, Owed
<1>2. CASE ObserverSet
  BY <1>2 DEF ObserverSet, calls, emission, BridgeInv, TypeOK, EmissionOK, Owed
<1>3. CASE Supervises
  BY <1>3, AsksKeepsInv DEF Supervises, Processes, Kinds
<1>4. CASE \E p \in Callers, k \in Kinds : Asks(p, k)
  BY <1>4, AsksKeepsInv DEF Processes
<1>5. CASE \E p \in Processes : Step(p)
  BY <1>5, HearsKeepsInv, UnsaidKeepsInv, RecordsKeepsInv, EmissionBeginsKeepsInv, EmissionSentKeepsInv DEF Step
<1>6. CASE UNCHANGED vars
  BY <1>6 DEF vars, calls, emission, BridgeInv, TypeOK, EmissionOK, Owed
<1>7. QED
  BY <1>1, <1>2, <1>3, <1>4, <1>5, <1>6 DEF Next

\* emitMu has one holder, and what is on its way or was sent last is what is
\* recorded unless a change is still to be signalled.
THEOREM BridgeInvariant == Spec => []BridgeInv
<1>1. BridgeInv /\ [Next]_vars => BridgeInv'
  BY NextKeepsInv
<1>2. QED
  BY InitEstablishesInv, <1>1, PTL DEF Spec

\* However many calls race, the last signal a tray receives carries what is
\* recorded (emitConnectionState).
THEOREM LastSignalHolds == Spec => []LastSignalIsRecorded
<1>1. BridgeInv => LastSignalIsRecorded
  BY DEF BridgeInv, EmissionOK, LastSignalIsRecorded
<1>2. QED
  BY BridgeInvariant, <1>1, PTL

\* The refinement mapping, unfolded.
Carrying == IF emitter = NoOne THEN {} ELSE {snap}

LEMMA FeedUnfolded ==
  /\ Feed!feed = <<connected, observed, Owed, Carrying, lastSignal>>
  /\ Feed!Watched <=> /\ ~observed /\ observed'
                      /\ UNCHANGED <<connected, Owed, Carrying, lastSignal>>
  /\ Feed!Changes <=> /\ connected' = ~connected /\ Owed' = (Owed \/ observed)
                      /\ UNCHANGED <<observed, Carrying, lastSignal>>
  /\ Feed!SignalBegins <=> /\ Owed /\ Carrying = {} /\ Carrying' = {connected} /\ Owed' \in BOOLEAN
                           /\ UNCHANGED <<connected, observed, lastSignal>>
  /\ Feed!SignalSent <=> /\ Carrying # {} /\ lastSignal' = Carrying /\ Carrying' = {}
                         /\ UNCHANGED <<connected, observed, Owed>>
BY DEF Feed!feed, Feed!Watched, Feed!Changes, Feed!SignalBegins, Feed!SignalSent, Carrying

LEMMA FeedStepUnfolded ==
  [Feed!FeedNext]_(Feed!feed) <=>
    \/ Feed!Watched \/ Feed!Changes \/ Feed!SignalBegins \/ Feed!SignalSent
    \/ UNCHANGED <<connected, observed, Owed, Carrying, lastSignal>>
BY FeedUnfolded DEF Feed!FeedNext, Feed!feed, Carrying

LEMMA NextImplementsFeed ==
  ASSUME BridgeInv, [Next]_vars
  PROVE  [Feed!FeedNext]_(Feed!feed)
<1>1. CASE BridgeFlips
  BY <1>1, FeedStepUnfolded DEF BridgeFlips, calls, emission, Owed, Carrying
<1>2. CASE ObserverSet
  BY <1>2, FeedStepUnfolded, FeedUnfolded DEF ObserverSet, calls, emission, Owed, Carrying
<1>3. ASSUME NEW p \in Processes, NEW k \in Kinds, Asks(p, k)
      PROVE  [Feed!FeedNext]_(Feed!feed)
  <2>1. Owed' <=> Owed
    BY <1>3 DEF Asks, Owed, BridgeInv, TypeOK
  <2>2. QED
    BY <1>3, <2>1, FeedStepUnfolded DEF Asks, emission, Carrying, Owed
<1>4. ASSUME NEW p \in Processes, Step(p)
      PROVE  [Feed!FeedNext]_(Feed!feed)
  <2>1. CASE Hears(p)
    <3>1. Owed' <=> Owed
      BY <2>1 DEF Hears, Owed, BridgeInv, TypeOK
    <3>2. QED
      BY <2>1, <3>1, FeedStepUnfolded DEF Hears, emission, Carrying, Owed
  <2>2. CASE Unsaid(p)
    <3>1. Owed' <=> Owed
      BY <2>2, MovesEffect DEF Unsaid, Owed, BridgeInv
    <3>2. QED
      BY <2>2, <3>1, FeedStepUnfolded DEF Unsaid, emission, Carrying, Owed
  <2>3. CASE Records(p)
    <3>1. CASE observed /\ connected' # connected
      <4>1. Owed' /\ connected' = ~connected
        BY <2>3, <3>1 DEF Records, Owed, BridgeInv, TypeOK
      <4>2. QED
        BY <2>3, <3>1, <4>1, FeedStepUnfolded, FeedUnfolded DEF Records, emission, Carrying, Owed
    <3>2. CASE ~(observed /\ connected' # connected)
      <4>1. Moves(p)
        BY <2>3, <3>2 DEF Records
      <4>2. Owed' <=> Owed
        BY <2>3, <4>1, MovesEffect DEF Records, Owed, BridgeInv
      <4>3. connected' = connected \/ (connected' = ~connected /\ ~observed)
        BY <2>3, <3>2 DEF Records, BridgeInv, TypeOK
      <4>4. QED
        BY <2>3, <4>2, <4>3, FeedStepUnfolded, FeedUnfolded DEF Records, emission, Carrying, Owed
    <3>3. QED
      BY <3>1, <3>2
  <2>4. CASE EmissionBegins(p)
    <3>1. Owed /\ p # NoOne /\ Owed' \in BOOLEAN
      BY <2>4, BridgeAssumption DEF EmissionBegins, Owed
    <3>2. QED
      BY <2>4, <3>1, FeedStepUnfolded, FeedUnfolded DEF EmissionBegins, Carrying, Owed
  <2>5. CASE EmissionSent(p)
    <3>1. emitter = p /\ p # NoOne /\ (Owed' <=> Owed)
      BY <2>5, MovesEffect, BridgeAssumption DEF EmissionSent, BridgeInv, EmissionOK, Owed
    <3>2. QED
      BY <2>5, <3>1, FeedStepUnfolded, FeedUnfolded DEF EmissionSent, Carrying, Owed
  <2>6. QED
    BY <1>4, <2>1, <2>2, <2>3, <2>4, <2>5 DEF Step
<1>5. CASE UNCHANGED vars
  BY <1>5, FeedStepUnfolded DEF vars, calls, emission, Owed, Carrying
<1>6. QED
  BY <1>1, <1>2, <1>3, <1>4, <1>5 DEF Next, Supervises, Processes, Kinds

\* The safety half of ImplementsFeed: calls, client and service behave to a
\* tray as StatusFeed says, for any number of callers.
THEOREM BridgeRefinesFeed == Spec => Feed!FeedSpec
<1>1. Init => Feed!FeedInit
  BY BridgeAssumption DEF Init, Feed!FeedInit, Owed
<1>2. BridgeInv /\ [Next]_vars => [Feed!FeedNext]_(Feed!feed)
  BY NextImplementsFeed
<1>3. QED
  BY BridgeInvariant, <1>1, <1>2, PTL DEF Spec, Feed!FeedSpec
=============================================================================
