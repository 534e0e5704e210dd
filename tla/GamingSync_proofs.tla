---------------------------- MODULE GamingSync_proofs ----------------------------
(***************************************************************************)
(* Theorems about GamingSync for any number of handlers, callbacks,        *)
(* contexts, detectors and sessions, with callbacks in any order.          *)
(***************************************************************************)
EXTENDS GamingSync, SequenceTheorems, TLAPS

Report == [src : Detectors, on : BOOLEAN]

LEMMA Disjoint ==
  /\ Users \subseteq Callers /\ Callbacks \subseteq Callers /\ Contexts \subseteq Callers
  /\ Main \in Users /\ None \notin Callers /\ None \notin Detectors /\ None \notin Contexts
  /\ None \notin Users
  /\ \A p \in Callers : p \in Users \/ p \in Callbacks \/ p \in Contexts
  /\ \A p \in Users : p \notin Callbacks /\ p \notin Contexts
  /\ \A p \in Callbacks : p \notin Contexts
BY GamingAssumption, SessionAssumption

\* A report taken out of the queue leaves a queue of reports.
LEMMA WithoutTyped ==
  ASSUME reports \in Seq(Report), NEW i \in DOMAIN reports
  PROVE  /\ Without(i) \in Seq(Report)
         /\ reports[i] \in Report
<1>1. i \in 1 .. Len(reports)
  OBVIOUS
<1>2. SubSeq(reports, 1, i - 1) \in Seq(Report)
  BY <1>1, SubSeqProperties
<1>3. SubSeq(reports, i + 1, Len(reports)) \in Seq(Report)
  BY <1>1, SubSeqProperties
<1>4. QED
  BY <1>1, <1>2, <1>3, ConcatProperties DEF Without

-----------------------------------------------------------------------------
(* What leaves a part of the invariant alone.                              *)

LEMMA SetterKept ==
  ASSUME SetterOK, UNCHANGED <<setter, enabled>>,
         \A u \in Users : \/ pc'[u] = pc[u]
                          \/ {pc[u], pc'[u]} \cap {"enable", "disable"} = {}
  PROVE  SetterOK'
BY DEF SetterOK

LEMMA OriginKept ==
  ASSUME OriginOK, UNCHANGED <<controlVars, gen>>,
         \A p \in Callers : pc'[p] \in {"check", "undo"} => pc[p] = pc'[p]
  PROVE  OriginOK'
BY DEF OriginOK, OriginOf, controlVars

LEMMA DetectorsKept ==
  ASSUME DetectorsOK, detector' = detector, canceller' # None => canceller # None \/ detector # None,
         \A d \in Detectors : watch'[d].run = "running" <=> watch[d].run = "running"
  PROVE  DetectorsOK'
BY DEF DetectorsOK, OneDetector, SupervisorHasDetector

\* The contexts are left alone by a step that changes none and takes no
\* callback to or from its cancelling, nor a supervisor to an undo.
ContextsLeft ==
  /\ UNCHANGED <<active, canceller, ctx>>
  /\ \A b \in Callbacks : /\ pc'[b] = "cancel" <=> pc[b] = "cancel"
                          /\ pc[b] = "cancel" => job'[b] = job[b]
  /\ \A k \in Contexts : /\ pc'[k] # "stop"
                         /\ pc'[k] \in {"undo", "stopping", "gone"} => ctx[k] = "ended"

LEMMA ContextsKept ==
  ASSUME ContextsOK, ContextsLeft
  PROVE  ContextsOK'
<1> USE DEF ContextsLeft
<1>1. CancellerHasGame'
  BY DEF ContextsOK, CancellerHasGame
<1>2. NoOrphanSupervisor'
  BY DEF ContextsOK, NoOrphanSupervisor
<1>3. ASSUME NEW b \in Callbacks, pc'[b] = "cancel"
      PROVE  LET k == job'[b].cancels IN
             /\ k \in Contexts /\ k # canceller' /\ ctx'[k] = "live"
             /\ \A c \in Callbacks : pc'[c] = "cancel" /\ job'[c].cancels = k => c = b
  BY <1>3 DEF ContextsOK
<1>4. QED
  BY <1>1, <1>2, <1>3 DEF ContextsOK

-----------------------------------------------------------------------------
LEMMA InitEstablishesInv == Init => GamingInv
<1> SUFFICES ASSUME Init PROVE GamingInv
  OBVIOUS
<1>1. ServiceTypeOK
  <2>1. watch \in [Detectors -> [run : {"unborn", "running", "closed"}, current : BOOLEAN,
                                 probe : {"none", "on", "off"}]]
    BY DEF Init, Unborn
  <2>2. pc \in [Callers -> Places]
    BY DEF Init, Places
  <2>3. job \in [Callbacks -> [super : Contexts \cup {None}, stop : BOOLEAN, cancels : Contexts \cup {None}]]
    BY DEF Init, NoJob
  <2>4. reports \in Seq([src : Detectors, on : BOOLEAN])
    BY DEF Init
  <2>5. QED
    BY <2>1, <2>2, <2>3, <2>4 DEF Init, ServiceTypeOK
<1>2. ContextsOK
  BY Disjoint DEF Init, ContextsOK, CancellerHasGame, NoOrphanSupervisor
<1>3. DetectorsOK
  BY Disjoint DEF Init, DetectorsOK, OneDetector, SupervisorHasDetector, Unborn
<1>4. SetterOK
  BY Disjoint DEF Init, SetterOK
<1>5. OriginOK
  BY DEF Init, ControlInit, OriginOK
<1>6. QED
  BY <1>1, <1>2, <1>3, <1>4, <1>5 DEF GamingInv

-----------------------------------------------------------------------------
(* Calls to the engine.                                                    *)

\* What a call to the engine may do to the goroutine that makes it.
LEMMA EngineMoves ==
  ASSUME GamingInv, NEW p \in Callers, EngineCall(p)
  PROVE  /\ UNCHANGED local
         /\ pc[p] \in {"start", "starting", "check", "undo", "stop", "stopping"}
         /\ \E place \in {"idle", "spawn", "tick", "gone", "starting", "check", "undo", "stopping"} :
              /\ pc' = [pc EXCEPT ![p] = place]
              /\ p \in Contexts /\ place \in {"undo", "stopping", "gone"} => ctx[p] = "ended"
         /\ job' = job \/ (p \in Callbacks /\ job' = [job EXCEPT ![p] = NoJob])
<1> USE DEF Goto, Leave, local
<1>0. pc \in [Callers -> Places]
  BY DEF GamingInv, ServiceTypeOK
<1>1. AfterStart(p) \in {"idle", "spawn", "tick"}
  BY DEF AfterStart, Spawning
<1>2. AfterStop(p) \in {"idle", "spawn", "gone"} /\ (p \in Contexts => AfterStop(p) = "gone" /\ AfterStart(p) = "tick")
  BY Disjoint DEF AfterStop, AfterStart, Spawning
<1>3. p \in Contexts => pc[p] # "stop" /\ (pc[p] \in {"undo", "stopping", "gone"} => ctx[p] = "ended")
  BY DEF GamingInv, ContextsOK
<1>4. CASE StartBegins(p)
  BY <1>4 DEF StartBegins
<1>5. CASE StartRefused(p)
  BY <1>1, <1>2, <1>5 DEF StartRefused
<1>6. CASE StartFails(p)
  BY <1>1, <1>2, <1>6 DEF StartFails
<1>7. CASE StartLaunches(p)
  <2>1. pc' = [pc EXCEPT ![p] = "starting"]
    BY <1>0, <1>7 DEF StartLaunches, gamingVars
  <2>2. QED
    BY <1>7, <2>1 DEF StartLaunches, gamingVars, serviceVars
<1>8. CASE StartReturns(p)
  BY <1>8 DEF StartReturns
<1>9. CASE StartChecked(p)
  <2>1. p \in Contexts /\ GamingEnded(p) => ctx[p] = "ended"
    BY Disjoint DEF GamingEnded, ContextOf
  <2>2. QED
    BY <1>1, <1>2, <1>9, <2>1 DEF StartChecked, Check
<1>10. CASE StartUndone(p)
  BY <1>1, <1>2, <1>3, <1>10 DEF StartUndone, Undo
<1>11. CASE StopBegins(p)
  BY <1>3, <1>11 DEF StopBegins
<1>12. CASE StopClears(p)
  <2>1. pc' = [pc EXCEPT ![p] = "stopping"]
    BY <1>0, <1>12 DEF StopClears, gamingVars
  <2>2. QED
    BY <1>3, <1>12, <2>1 DEF StopClears, gamingVars, serviceVars
<1>13. CASE StopReturns(p)
  BY <1>2, <1>3, <1>13 DEF StopReturns
<1>14. QED
  BY <1>4, <1>5, <1>6, <1>7, <1>8, <1>9, <1>10, <1>11, <1>12, <1>13 DEF EngineCall

\* The generations a call to the engine hands out and takes back.
LEMMA EngineKeepsOrigin ==
  ASSUME GamingInv, NEW p \in Callers, EngineCall(p)
  PROVE  OriginOK'
<1>0. pc \in [Callers -> Places] /\ OriginOK
  BY DEF GamingInv, ServiceTypeOK
<1> USE DEF Goto, Leave, local
<1>1. AfterStart(p) \notin {"check", "undo"} /\ AfterStop(p) \notin {"check", "undo"}
  BY DEF AfterStart, AfterStop, Spawning
<1>2. CASE StartBegins(p)
  BY <1>0, <1>2 DEF StartBegins, BeginStart, Take, Unseen, OriginOK, OriginOf
<1>3. CASE StartRefused(p)
  BY <1>0, <1>1, <1>3, OriginKept DEF StartRefused
<1>4. CASE StartFails(p)
  BY <1>0, <1>1, <1>4 DEF StartFails, FailStart, Release, Unseen, OriginOK, OriginOf
<1>5. CASE StartLaunches(p)
  BY <1>0, <1>5 DEF StartLaunches, Launch, gamingVars, OriginOK, OriginOf
<1>6. CASE StartReturns(p)
  BY <1>0, <1>6, Disjoint DEF StartReturns, Publish, Release, OriginOK, OriginOf
<1>7. CASE StartChecked(p)
  BY <1>0, <1>1, <1>7 DEF StartChecked, Check, controlVars, OriginOK, OriginOf
<1>8. CASE StartUndone(p)
  BY <1>0, <1>1, <1>8 DEF StartUndone, Undo, BeginStopSession, Take, Unseen, controlVars, OriginOK, OriginOf
<1>9. CASE StopBegins(p)
  BY <1>0, <1>9 DEF StopBegins, BeginStop, Take, Unseen, OriginOK, OriginOf
<1>10. CASE StopClears(p)
  BY <1>0, <1>10 DEF StopClears, ClearRunning, gamingVars, OriginOK, OriginOf
<1>11. CASE StopReturns(p)
  BY <1>0, <1>1, <1>11 DEF StopReturns, EndNotified, Release, OriginOK, OriginOf
<1>12. QED
  BY <1>2, <1>3, <1>4, <1>5, <1>6, <1>7, <1>8, <1>9, <1>10, <1>11 DEF EngineCall

LEMMA EngineKeepsInv ==
  ASSUME GamingInv, NEW p \in Callers, EngineCall(p)
  PROVE  GamingInv'
<1>1. /\ UNCHANGED <<game, enabled, active, detector, canceller, setter, watch, reports, ctx>>
      /\ pc[p] \in {"start", "starting", "check", "undo", "stop", "stopping"}
      /\ job' = job \/ (p \in Callbacks /\ job' = [job EXCEPT ![p] = NoJob])
  BY EngineMoves DEF local, serviceVars
<1>2. PICK place \in {"idle", "spawn", "tick", "gone", "starting", "check", "undo", "stopping"} :
        /\ pc' = [pc EXCEPT ![p] = place]
        /\ p \in Contexts /\ place \in {"undo", "stopping", "gone"} => ctx[p] = "ended"
  BY EngineMoves
<1>3. pc \in [Callers -> Places]
  BY DEF GamingInv, ServiceTypeOK
<1>4. ServiceTypeOK'
  <2>1. pc' \in [Callers -> Places]
    BY <1>2, <1>3 DEF Places
  <2>2. job' \in [Callbacks -> [super : Contexts \cup {None}, stop : BOOLEAN, cancels : Contexts \cup {None}]]
    <3>1. job \in [Callbacks -> [super : Contexts \cup {None}, stop : BOOLEAN, cancels : Contexts \cup {None}]]
      BY DEF GamingInv, ServiceTypeOK
    <3>2. NoJob \in [super : Contexts \cup {None}, stop : BOOLEAN, cancels : Contexts \cup {None}]
      BY DEF NoJob
    <3>3. QED
      BY <1>1, <3>1, <3>2
  <2>3. QED
    BY <1>1, <2>1, <2>2 DEF GamingInv, ServiceTypeOK
<1>5. ContextsOK'
  <2>1. \A b \in Callbacks : /\ pc'[b] = "cancel" <=> pc[b] = "cancel"
                             /\ pc[b] = "cancel" => job'[b] = job[b]
    <3>1. job \in [Callbacks -> [super : Contexts \cup {None}, stop : BOOLEAN, cancels : Contexts \cup {None}]]
      BY DEF GamingInv, ServiceTypeOK
    <3>2. QED
      BY <1>1, <1>2, <1>3, <3>1, Disjoint
  <2>2. \A k \in Contexts : /\ pc'[k] # "stop"
                            /\ pc'[k] \in {"undo", "stopping", "gone"} => ctx[k] = "ended"
    <3>1. \A k \in Contexts : pc[k] # "stop" /\ (pc[k] \in {"undo", "stopping", "gone"} => ctx[k] = "ended")
      BY DEF GamingInv, ContextsOK
    <3>2. QED
      BY <1>2, <1>3, <3>1, Disjoint
  <2>3. ContextsLeft
    BY <1>1, <2>1, <2>2 DEF ContextsLeft
  <2>4. QED
    BY <2>3, ContextsKept DEF GamingInv
<1>6. DetectorsOK'
  BY <1>1, DetectorsKept DEF GamingInv
<1>7. SetterOK'
  BY <1>1, <1>2, <1>3, Disjoint, SetterKept DEF GamingInv
<1>8. QED
  BY <1>4, <1>5, <1>6, <1>7, EngineKeepsOrigin DEF GamingInv

\* A session that its own loop ends leaves gaming mode alone.
LEMMA LostKeepsInv ==
  ASSUME GamingInv, SessionLost
  PROVE  GamingInv'
<1>1. UNCHANGED gamingVars
  BY DEF SessionLost
<1>2. OriginOK'
  <2>1. UNCHANGED <<session, origin>> /\ step' # "launched"
    BY DEF SessionLost, BeginEnd, ClearRunning, EndNotified, Take, Release, Unseen
  <2>2. QED
    BY <1>1, <2>1 DEF gamingVars, GamingInv, OriginOK, OriginOf
<1>3. ServiceTypeOK' /\ ContextsOK' /\ DetectorsOK' /\ SetterOK'
  BY <1>1 DEF gamingVars, GamingInv, ServiceTypeOK, ContextsOK, CancellerHasGame, NoOrphanSupervisor,
              DetectorsOK, OneDetector, SupervisorHasDetector, SetterOK
<1>4. QED
  BY <1>2, <1>3 DEF GamingInv

-----------------------------------------------------------------------------
(* Detectors.                                                              *)

\* A check, its verdict and a detector's last breath change no run to or from
\* running.
LEMMA WatchingKeepsInv ==
  ASSUME GamingInv, NEW d \in Detectors, Probe(d) \/ Judge(d) \/ Forget(d)
  PROVE  GamingInv'
<1>1. UNCHANGED <<controlVars, serviceVars, setter, pc, gen, job, ctx>>
  BY DEF Probe, Judge, JudgeTelling, Forget
<1>2. /\ watch' \in [Detectors -> [run : {"unborn", "running", "closed"}, current : BOOLEAN,
                                   probe : {"none", "on", "off"}]]
      /\ \A e \in Detectors : watch'[e].run = "running" <=> watch[e].run = "running"
  <2>1. watch \in [Detectors -> [run : {"unborn", "running", "closed"}, current : BOOLEAN,
                                 probe : {"none", "on", "off"}]]
    BY DEF GamingInv, ServiceTypeOK
  <2>2. CASE Probe(d)
    BY <2>1, <2>2 DEF Probe
  <2>3. CASE Judge(d)
    BY <2>1, <2>3 DEF Judge, JudgeTelling
  <2>4. CASE Forget(d)
    BY <2>1, <2>4 DEF Forget, Unborn
  <2>5. QED
    BY <2>2, <2>3, <2>4
<1>3. reports' \in Seq(Report)
  <2>1. reports \in Seq(Report)
    BY DEF Report, GamingInv, ServiceTypeOK
  <2>2. CASE Judge(d)
    <3>1. [src |-> d, on |-> watch[d].probe = "on"] \in Report
      BY DEF Report
    <3>2. reports' = reports \/ reports' = Append(reports, [src |-> d, on |-> watch[d].probe = "on"])
      BY <2>2 DEF Judge, JudgeTelling
    <3>3. QED
      BY <2>1, <3>1, <3>2
  <2>3. QED
    BY <2>1, <2>2 DEF Probe, Forget
<1>4. ServiceTypeOK'
  BY <1>1, <1>2, <1>3 DEF Report, serviceVars, GamingInv, ServiceTypeOK
<1>5. ContextsOK'
  <2>1. ContextsLeft
    BY <1>1 DEF serviceVars, GamingInv, ContextsOK, ContextsLeft
  <2>2. QED
    BY <2>1, ContextsKept DEF GamingInv
<1>6. DetectorsOK'
  BY <1>1, <1>2, DetectorsKept DEF serviceVars, GamingInv
<1>7. SetterOK' /\ OriginOK'
  BY <1>1, SetterKept, OriginKept DEF serviceVars, GamingInv
<1>8. QED
  BY <1>4, <1>5, <1>6, <1>7 DEF GamingInv

LEMMA QuietKeepsInv ==
  ASSUME GamingInv, GameToggles \/ DropReport \/ UNCHANGED vars
  PROVE  GamingInv'
<1>1. UNCHANGED <<controlVars, serviceVars, setter, watch, pc, gen, job, ctx>>
  BY DEF GameToggles, DropReport, vars, gamingVars, serviceVars
<1>2. reports' \in Seq(Report)
  <2>1. reports \in Seq(Report)
    BY DEF Report, GamingInv, ServiceTypeOK
  <2>2. QED
    BY <2>1, WithoutTyped DEF GameToggles, DropReport, vars, gamingVars
<1>3. ServiceTypeOK'
  BY <1>1, <1>2 DEF Report, serviceVars, GamingInv, ServiceTypeOK
<1>4. ContextsOK'
  <2>1. ContextsLeft
    BY <1>1 DEF serviceVars, GamingInv, ContextsOK, ContextsLeft
  <2>2. QED
    BY <2>1, ContextsKept DEF GamingInv
<1>5. DetectorsOK'
  BY <1>1, DetectorsKept DEF serviceVars, GamingInv
<1>6. SetterOK' /\ OriginOK'
  BY <1>1, SetterKept, OriginKept DEF serviceVars, GamingInv
<1>7. QED
  BY <1>3, <1>4, <1>5, <1>6 DEF GamingInv

-----------------------------------------------------------------------------
(* Reconfiguring.                                                          *)

\* What replacing the detector, or closing it, makes of the contexts: the one
\* the service could cancel is cancelled, and nobody else's is.
LEMMA ReplacedContexts ==
  ASSUME GamingInv
  PROVE  /\ ReplacedCtx \in [Contexts -> {"unused", "live", "ended", "replaced"}]
         /\ \A k \in Contexts : k # canceller => ReplacedCtx[k] = ctx[k]
         /\ canceller # None => ReplacedCtx[canceller] = "replaced" /\ ctx[canceller] = "live"
BY DEF ReplacedCtx, GamingInv, ServiceTypeOK, ContextsOK, CancellerHasGame

LEMMA ClosedDetectors ==
  ASSUME GamingInv
  PROVE  /\ ClosedWatch \in [Detectors -> [run : {"unborn", "running", "closed"}, current : BOOLEAN,
                                           probe : {"none", "on", "off"}]]
         /\ \A d \in Detectors : ClosedWatch[d].run # "running"
<1>1. /\ watch \in [Detectors -> [run : {"unborn", "running", "closed"}, current : BOOLEAN,
                                 probe : {"none", "on", "off"}]]
      /\ detector \in Detectors \cup {None}
      /\ \A d \in Detectors : watch[d].run = "running" => detector = d
  BY DEF GamingInv, ServiceTypeOK, DetectorsOK, OneDetector
<1>2. CASE detector = None
  BY <1>1, <1>2, Disjoint DEF ClosedWatch
<1>3. CASE detector # None
  <2>1. ClosedWatch = [watch EXCEPT ![detector].run = "closed"] /\ detector \in Detectors
    BY <1>1, <1>3 DEF ClosedWatch
  <2>2. QED
    BY <1>1, <2>1
<1>4. QED
  BY <1>2, <1>3

\* The contexts after the service's own is replaced, by none or by a new one
\* that nobody used.
ContextsReplaced ==
  /\ \A b \in Callbacks : /\ pc'[b] = "cancel" <=> pc[b] = "cancel"
                          /\ job'[b] = job[b]
  /\ \A k \in Contexts : pc'[k] = pc[k] \/ pc'[k] = "tick"
  /\ \/ ctx' = ReplacedCtx /\ canceller' = None
     \/ /\ active' /\ canceller' \in Contexts /\ ctx[canceller'] = "unused"
        /\ ctx' = [ReplacedCtx EXCEPT ![canceller'] = "live"]

LEMMA ReplacingKeepsContexts ==
  ASSUME GamingInv, ContextsReplaced
  PROVE  ContextsOK'
<1>1. /\ ReplacedCtx \in [Contexts -> {"unused", "live", "ended", "replaced"}]
      /\ \A k \in Contexts : k # canceller => ReplacedCtx[k] = ctx[k]
      /\ canceller # None => ReplacedCtx[canceller] = "replaced" /\ ctx[canceller] = "live"
  BY ReplacedContexts
<1>2. \A k \in Contexts : ctx'[k] = IF k = canceller' THEN "live" ELSE ReplacedCtx[k]
  BY <1>1, Disjoint DEF ContextsReplaced
<1>3. canceller' # None => canceller' \in Contexts /\ ctx[canceller'] = "unused" /\ canceller' # canceller
  BY <1>1 DEF ContextsReplaced
<1>4. CancellerHasGame'
  BY <1>2, <1>3 DEF ContextsReplaced, CancellerHasGame
<1>5. NoOrphanSupervisor'
  <2>1. \A k \in Contexts : ctx'[k] = "live" /\ k # canceller' => ctx[k] = "live" /\ k # canceller
    BY <1>1, <1>2, Disjoint
  <2>2. NoOrphanSupervisor
    BY DEF GamingInv, ContextsOK
  <2>3. QED
    BY <2>1, <2>2 DEF ContextsReplaced, NoOrphanSupervisor
<1>6. ASSUME NEW b \in Callbacks, pc'[b] = "cancel"
      PROVE  LET k == job'[b].cancels IN
             /\ k \in Contexts /\ k # canceller' /\ ctx'[k] = "live"
             /\ \A c \in Callbacks : pc'[c] = "cancel" /\ job'[c].cancels = k => c = b
  <2>1. pc[b] = "cancel" /\ job'[b].cancels = job[b].cancels
    BY <1>6 DEF ContextsReplaced
  <2>2. /\ job[b].cancels \in Contexts /\ job[b].cancels # canceller /\ ctx[job[b].cancels] = "live"
        /\ \A c \in Callbacks : pc[c] = "cancel" /\ job[c].cancels = job[b].cancels => c = b
    BY <2>1 DEF GamingInv, ContextsOK
  <2>3. job[b].cancels # canceller' /\ ctx'[job[b].cancels] = "live"
    BY <1>1, <1>2, <1>3, <2>2, Disjoint
  <2>4. QED
    BY <2>1, <2>2, <2>3 DEF ContextsReplaced
<1>7. ASSUME NEW k \in Contexts
      PROVE  pc'[k] # "stop" /\ (pc'[k] \in {"undo", "stopping", "gone"} => ctx'[k] = "ended")
  <2>1. pc[k] # "stop" /\ (pc[k] \in {"undo", "stopping", "gone"} => ctx[k] = "ended")
    BY DEF GamingInv, ContextsOK
  <2>2. ctx[k] = "ended" => ctx'[k] = "ended"
    BY <1>1, <1>2, <1>3, Disjoint
  <2>3. QED
    BY <2>1, <2>2 DEF ContextsReplaced
<1>8. QED
  BY <1>4, <1>5, <1>6, <1>7 DEF ContextsOK

\* initGamingModeLocked, for the start-up code and for SetGamingMode alike.
LEMMA InitGamingKeeps ==
  ASSUME GamingInv, NEW u \in Users, pc[u] \in {"boot", "enable"}, InitGaming(u),
         UNCHANGED <<active, reports, job>>, setter' \in Users \cup {None}
  PROVE  /\ ServiceTypeOK' /\ ContextsOK' /\ DetectorsOK'
         /\ pc'[u] = "idle" /\ \A p \in Callers \ {u} : pc'[p] = pc[p] \/ (p \in Contexts /\ pc'[p] = "tick")
         /\ ~MayLackMethods => (enabled <=> detector' # None)
<1>1. pc \in [Callers -> Places] /\ u \in Callers /\ u \notin Contexts /\ u \notin Callbacks
  BY Disjoint DEF GamingInv, ServiceTypeOK
<1>2. \/ watch' = ClosedWatch /\ detector' = None
      \/ \E d \in Detectors : StartWatching(d) /\ detector' = d
  BY DEF InitGaming
<1>3. \/ /\ canceller' = None /\ ctx' = ReplacedCtx /\ pc' = [pc EXCEPT ![u] = "idle"]
      \/ \E k \in Contexts :
           /\ active /\ ctx[k] = "unused" /\ canceller' = k /\ detector' \in Detectors
           /\ ctx' = [ReplacedCtx EXCEPT ![k] = "live"]
           /\ pc' = [pc EXCEPT ![u] = "idle", ![k] = "tick"]
  BY DEF InitGaming, Goto
<1>4. /\ pc' \in [Callers -> Places] /\ pc'[u] = "idle"
      /\ \A p \in Callers \ {u} : pc'[p] = pc[p] \/ (p \in Contexts /\ pc'[p] = "tick")
  <2>1. "idle" \in Places /\ "tick" \in Places
    BY DEF Places
  <2>2. CASE pc' = [pc EXCEPT ![u] = "idle"]
    BY <1>1, <2>1, <2>2
  <2>3. ASSUME NEW k \in Contexts, pc' = [pc EXCEPT ![u] = "idle", ![k] = "tick"]
        PROVE  /\ pc' \in [Callers -> Places] /\ pc'[u] = "idle"
               /\ \A p \in Callers \ {u} : pc'[p] = pc[p] \/ (p \in Contexts /\ pc'[p] = "tick")
    BY <1>1, <2>1, <2>3, Disjoint
  <2>4. QED
    BY <1>3, <2>2, <2>3
<1>5. DetectorsOK' /\ detector' \in Detectors \cup {None}
      /\ watch' \in [Detectors -> [run : {"unborn", "running", "closed"}, current : BOOLEAN,
                                   probe : {"none", "on", "off"}]]
  <2>1. SupervisorHasDetector'
    BY <1>3, Disjoint DEF SupervisorHasDetector
  <2>2. CASE watch' = ClosedWatch /\ detector' = None
    BY <2>1, <2>2, ClosedDetectors, Disjoint DEF DetectorsOK, OneDetector
  <2>3. ASSUME NEW d \in Detectors, StartWatching(d), detector' = d
        PROVE  OneDetector' /\ watch' \in [Detectors -> [run : {"unborn", "running", "closed"},
                                             current : BOOLEAN, probe : {"none", "on", "off"}]]
    <3>1. active \in BOOLEAN
      BY DEF GamingInv, ServiceTypeOK
    <3>2. [run |-> "running", current |-> active, probe |-> "none"]
            \in [run : {"unborn", "running", "closed"}, current : BOOLEAN, probe : {"none", "on", "off"}]
      BY <3>1
    <3>3. QED
      BY <2>3, <3>2, ClosedDetectors DEF StartWatching, OneDetector
  <2>4. QED
    BY <1>2, <2>1, <2>2, <2>3 DEF DetectorsOK
<1>6. ctx' \in [Contexts -> {"unused", "live", "ended", "replaced"}] /\ canceller' \in Contexts \cup {None}
  BY <1>3, ReplacedContexts
<1>7. ServiceTypeOK'
  BY <1>4, <1>5, <1>6 DEF GamingInv, ServiceTypeOK
<1>8. ContextsOK'
  <2>1. \A b \in Callbacks : pc'[b] = pc[b]
    BY <1>1, <1>4, Disjoint
  <2>2. \A k \in Contexts : pc'[k] = pc[k] \/ pc'[k] = "tick"
    BY <1>1, <1>4, Disjoint
  <2>3. \/ ctx' = ReplacedCtx /\ canceller' = None
        \/ /\ active' /\ canceller' \in Contexts /\ ctx[canceller'] = "unused"
           /\ ctx' = [ReplacedCtx EXCEPT ![canceller'] = "live"]
    BY <1>3
  <2>4. ContextsReplaced
    BY <2>1, <2>2, <2>3 DEF ContextsReplaced
  <2>5. QED
    BY <2>4, ReplacingKeepsContexts
<1>9. ~MayLackMethods => (enabled <=> detector' # None)
  BY Disjoint DEF InitGaming
<1>10. QED
  BY <1>4, <1>5, <1>7, <1>8, <1>9

LEMMA BootKeepsInv ==
  ASSUME GamingInv, Boot
  PROVE  GamingInv'
<1>1. Main \in Users /\ pc[Main] = "boot"
  BY Disjoint DEF Boot
<1>2. /\ ServiceTypeOK' /\ ContextsOK' /\ DetectorsOK'
      /\ pc'[Main] = "idle" /\ \A p \in Callers \ {Main} : pc'[p] = pc[p] \/ (p \in Contexts /\ pc'[p] = "tick")
  BY <1>1, InitGamingKeeps DEF Boot, GamingInv, ServiceTypeOK
<1>3. SetterOK' /\ OriginOK'
  BY <1>1, <1>2, Disjoint, SetterKept, OriginKept DEF Boot, GamingInv
<1>4. QED
  BY <1>2, <1>3 DEF GamingInv

LEMMA EnableKeepsInv ==
  ASSUME GamingInv, NEW u \in Users, EnableGaming(u)
  PROVE  GamingInv'
<1>1. pc[u] = "enable" /\ setter' = None /\ enabled' = enabled
  BY DEF EnableGaming
<1>2. /\ ServiceTypeOK' /\ ContextsOK' /\ DetectorsOK'
      /\ pc'[u] = "idle" /\ \A p \in Callers \ {u} : pc'[p] = pc[p] \/ (p \in Contexts /\ pc'[p] = "tick")
  BY <1>1, InitGamingKeeps DEF EnableGaming
<1>3. SetterOK'
  BY <1>1, <1>2, Disjoint DEF GamingInv, SetterOK
<1>4. OriginOK'
  BY <1>2, OriginKept DEF EnableGaming, GamingInv
<1>5. QED
  BY <1>2, <1>3, <1>4 DEF GamingInv

LEMMA DisableKeepsInv ==
  ASSUME GamingInv, NEW u \in Users, DisableGaming(u)
  PROVE  GamingInv'
<1>1. /\ pc[u] = "disable" /\ pc' = [pc EXCEPT ![u] = "idle"] /\ setter' = None
      /\ watch' = ClosedWatch /\ detector' = None /\ ctx' = ReplacedCtx /\ canceller' = None /\ active' = FALSE
      /\ UNCHANGED <<controlVars, enabled, reports, gen, job>>
  BY DEF DisableGaming, Disable, Goto
<1>2. pc \in [Callers -> Places] /\ u \in Callers /\ u \notin Contexts /\ u \notin Callbacks
  BY Disjoint DEF GamingInv, ServiceTypeOK
<1>3. ServiceTypeOK'
  <2>1. pc' \in [Callers -> Places]
    BY <1>1, <1>2 DEF Places
  <2>2. QED
    BY <1>1, <2>1, ReplacedContexts, ClosedDetectors DEF GamingInv, ServiceTypeOK
<1>4. ContextsOK'
  <2>1. ContextsReplaced
    BY <1>1, <1>2, Disjoint DEF ContextsReplaced
  <2>2. QED
    BY <2>1, ReplacingKeepsContexts
<1>5. DetectorsOK'
  BY <1>1, ClosedDetectors, Disjoint DEF DetectorsOK, OneDetector, SupervisorHasDetector
<1>6. SetterOK'
  BY <1>1, <1>2, Disjoint DEF GamingInv, SetterOK
<1>7. OriginOK'
  BY <1>1, <1>2, OriginKept DEF GamingInv
<1>8. QED
  BY <1>3, <1>4, <1>5, <1>6, <1>7 DEF GamingInv

\* What users do but for the reconfiguring itself.
LEMMA UserKeepsInv ==
  ASSUME GamingInv, NEW u \in Users, UserCalls(u) \/ SaveGamingMode(u)
  PROVE  GamingInv'
<1>1. /\ pc[u] = "idle" /\ setter' \in Users \cup {None}
      /\ UNCHANGED <<controlVars, active, detector, canceller, watch, reports, gen, job, ctx>>
  BY DEF UserCalls, SaveGamingMode, Save, local, serviceVars, GamingInv, ServiceTypeOK
<1>2. pc \in [Callers -> Places] /\ u \in Callers /\ u \notin Contexts /\ u \notin Callbacks
  BY Disjoint DEF GamingInv, ServiceTypeOK
<1>3. \E place \in {"idle", "start", "stop", "enable", "disable"} : pc' = [pc EXCEPT ![u] = place]
  <2>1. CASE UserCalls(u)
    BY <2>1, GamingAssumption DEF UserCalls, Goto
  <2>2. CASE SaveGamingMode(u)
    <3>1. pc' = pc => pc' = [pc EXCEPT ![u] = "idle"]
      BY <1>1, <1>2
    <3>2. QED
      BY <2>2, <3>1 DEF SaveGamingMode, Save, Goto
  <2>3. QED
    BY <2>1, <2>2
<1>4. ServiceTypeOK'
  <2>1. pc' \in [Callers -> Places]
    BY <1>2, <1>3 DEF Places
  <2>2. QED
    BY <1>1, <2>1 DEF GamingInv, ServiceTypeOK
<1>5. \A p \in Callers \ {u} : pc'[p] = pc[p]
  BY <1>2, <1>3
<1>6. ContextsOK'
  <2>1. ContextsLeft
    BY <1>1, <1>2, <1>5, Disjoint DEF ContextsLeft, GamingInv, ContextsOK
  <2>2. QED
    BY <2>1, ContextsKept DEF GamingInv
<1>7. DetectorsOK'
  BY <1>1, DetectorsKept DEF GamingInv
<1>8. SetterOK'
  <2>1. CASE UserCalls(u)
    <3>1. pc'[u] \in {"start", "stop"}
      BY <1>2, <2>1, GamingAssumption DEF UserCalls, Goto
    <3>2. QED
      BY <1>1, <1>5, <2>1, <3>1, Disjoint, SetterKept DEF UserCalls, local, serviceVars, GamingInv
  <2>2. CASE SaveGamingMode(u)
    <3>1. setter = None /\ \A v \in Users : pc[v] \notin {"enable", "disable"}
      BY <2>2, Disjoint DEF SaveGamingMode, Save, GamingInv, SetterOK
    <3>2. CASE UNCHANGED <<setter, pc>>
      BY <3>1, <3>2, Disjoint DEF SetterOK
    <3>3. ASSUME NEW on \in Settings, enabled' = on, setter' = u, pc' = [pc EXCEPT ![u] = IF on THEN "enable" ELSE "disable"]
          PROVE  SetterOK'
      BY <1>2, <3>1, <3>3, Disjoint DEF SetterOK
    <3>4. QED
      BY <2>2, <3>2, <3>3 DEF SaveGamingMode, Save, Goto
  <2>3. QED
    BY <2>1, <2>2
<1>9. OriginOK'
  BY <1>1, <1>2, <1>3, OriginKept DEF GamingInv
<1>10. QED
  BY <1>4, <1>6, <1>7, <1>8, <1>9 DEF GamingInv

-----------------------------------------------------------------------------
(* onGamingStateChanged and the supervisors.                               *)

JobOK == [super : Contexts \cup {None}, stop : BOOLEAN, cancels : Contexts \cup {None}]

LEMMA GameStartedKeepsInv ==
  ASSUME GamingInv, NEW b \in Callbacks, GameStarted(b)
  PROVE  GamingInv'
<1>1. /\ pc[b] = "idle" /\ active' = TRUE
      /\ UNCHANGED <<controlVars, enabled, detector, setter, watch, gen>>
  BY DEF GameStarted
<1>2. /\ pc \in [Callers -> Places] /\ b \in Callers /\ b \notin Users /\ b \notin Contexts
      /\ job \in [Callbacks -> JobOK] /\ reports \in Seq(Report)
      /\ ctx \in [Contexts -> {"unused", "live", "ended", "replaced"}]
  BY Disjoint DEF Report, JobOK, GamingInv, ServiceTypeOK
<1>3. reports' \in Seq(Report) /\ detector # None
  <2>1. PICK i \in DOMAIN reports : reports[i].on /\ ~Ignored(reports[i]) /\ reports' = Without(i)
    BY DEF GameStarted
  <2>2. reports' \in Seq(Report) /\ reports[i] \in Report
    BY <1>2, <2>1, WithoutTyped
  <2>3. reports[i].src \in Detectors /\ reports[i].src = detector
    BY <2>1, <2>2 DEF Ignored, Report
  <2>4. QED
    BY <2>2, <2>3, Disjoint
<1>4. \/ /\ canceller = None
         /\ \E k \in Contexts :
              /\ ctx[k] = "unused" /\ ctx' = [ctx EXCEPT ![k] = "live"] /\ canceller' = k
              /\ job' = [job EXCEPT ![b] = [NoJob EXCEPT !.super = k]]
      \/ canceller # None /\ job' = [job EXCEPT ![b] = NoJob] /\ UNCHANGED <<ctx, canceller>>
  BY DEF GameStarted
<1>5. \E place \in {"idle", "spawn", "start"} : pc' = [pc EXCEPT ![b] = place]
  BY DEF GameStarted, Goto, Spawning
<1>6. /\ \A p \in Callers \ {b} : pc'[p] = pc[p]
      /\ pc'[b] \in {"idle", "spawn", "start"} /\ pc' \in [Callers -> Places]
  BY <1>2, <1>5 DEF Places
<1>7. job' \in [Callbacks -> JobOK] /\ \A c \in Callbacks \ {b} : job'[c] = job[c]
  <2>1. NoJob \in JobOK /\ \A k \in Contexts : [NoJob EXCEPT !.super = k] \in JobOK
    BY DEF NoJob, JobOK
  <2>2. QED
    BY <1>2, <1>4, <2>1
<1>8. ServiceTypeOK'
  <2>1. ctx' \in [Contexts -> {"unused", "live", "ended", "replaced"}] /\ canceller' \in Contexts \cup {None}
    BY <1>2, <1>4 DEF GamingInv, ServiceTypeOK
  <2>2. QED
    BY <1>1, <1>3, <1>6, <1>7, <2>1 DEF Report, JobOK, GamingInv, ServiceTypeOK
<1>9. ContextsOK'
  <2>1. /\ canceller' # None => ctx'[canceller'] = "live"
        /\ \A k \in Contexts : k # canceller' => ctx'[k] = ctx[k]
        /\ canceller' = canceller \/ (canceller = None /\ canceller' \in Contexts /\ ctx[canceller'] = "unused")
    BY <1>2, <1>4, Disjoint DEF GamingInv, ContextsOK, CancellerHasGame
  <2>2. CancellerHasGame'
    BY <1>1, <2>1 DEF CancellerHasGame
  <2>3. NoOrphanSupervisor'
    BY <1>1, <1>2, <1>6, <1>7, <2>1, Disjoint DEF NoOrphanSupervisor, GamingInv, ContextsOK
  <2>4. ASSUME NEW c \in Callbacks, pc'[c] = "cancel"
        PROVE  LET k == job'[c].cancels IN
               /\ k \in Contexts /\ k # canceller' /\ ctx'[k] = "live"
               /\ \A e \in Callbacks : pc'[e] = "cancel" /\ job'[e].cancels = k => e = c
    <3>1. c # b /\ pc[c] = "cancel" /\ job'[c].cancels = job[c].cancels
      BY <1>6, <1>7, <2>4, Disjoint
    <3>2. /\ job[c].cancels \in Contexts /\ job[c].cancels # canceller /\ ctx[job[c].cancels] = "live"
          /\ \A e \in Callbacks : pc[e] = "cancel" /\ job[e].cancels = job[c].cancels => e = c
      BY <3>1 DEF GamingInv, ContextsOK
    <3>3. \A e \in Callbacks : pc'[e] = "cancel" => pc[e] = "cancel" /\ job'[e].cancels = job[e].cancels
      BY <1>6, <1>7, Disjoint
    <3>4. job[c].cancels # canceller' /\ ctx'[job[c].cancels] = "live"
      BY <2>1, <3>2
    <3>5. QED
      BY <3>1, <3>2, <3>3, <3>4
  <2>5. ASSUME NEW k \in Contexts
        PROVE  pc'[k] # "stop" /\ (pc'[k] \in {"undo", "stopping", "gone"} => ctx'[k] = "ended")
    <3>1. pc[k] # "stop" /\ (pc[k] \in {"undo", "stopping", "gone"} => ctx[k] = "ended")
      BY DEF GamingInv, ContextsOK
    <3>2. pc'[k] = pc[k] /\ (ctx[k] = "ended" => ctx'[k] = "ended")
      <4>1. k # b /\ k \in Callers
        BY <1>2, Disjoint
      <4>2. k = canceller' => ctx'[k] = ctx[k] \/ ctx[k] = "unused"
        BY <1>4
      <4>3. QED
        BY <1>6, <2>1, <4>1, <4>2
    <3>3. QED
      BY <3>1, <3>2
  <2>6. QED
    BY <2>2, <2>3, <2>4, <2>5 DEF ContextsOK
<1>10. DetectorsOK'
  BY <1>1, <1>3, DetectorsKept DEF GamingInv
<1>11. SetterOK'
  BY <1>1, <1>2, <1>6, Disjoint, SetterKept DEF GamingInv
<1>12. OriginOK'
  BY <1>1, <1>6, OriginKept DEF GamingInv
<1>13. QED
  BY <1>8, <1>9, <1>10, <1>11, <1>12 DEF GamingInv

\* The callback takes the service's context with it, to cancel it.
LEMMA GameEndedKeepsInv ==
  ASSUME GamingInv, NEW b \in Callbacks, GameEnded(b)
  PROVE  GamingInv'
<1>1. /\ pc[b] = "idle" /\ active' = FALSE /\ canceller' = None
      /\ job' = [job EXCEPT ![b] = [super |-> None, stop |-> active, cancels |-> canceller]]
      /\ UNCHANGED <<controlVars, enabled, detector, setter, watch, gen, ctx>>
  BY DEF GameEnded
<1>2. /\ pc \in [Callers -> Places] /\ b \in Callers /\ b \notin Users /\ b \notin Contexts
      /\ job \in [Callbacks -> JobOK] /\ reports \in Seq(Report)
      /\ active \in BOOLEAN /\ canceller \in Contexts \cup {None}
  BY Disjoint DEF Report, JobOK, GamingInv, ServiceTypeOK
<1>3. reports' \in Seq(Report)
  BY <1>2, WithoutTyped DEF GameEnded
<1>4. \E place \in {"cancel", "stop", "idle"} :
        pc' = [pc EXCEPT ![b] = place] /\ (place = "cancel" <=> canceller # None)
  BY DEF GameEnded, Goto
<1>5. /\ \A p \in Callers \ {b} : pc'[p] = pc[p]
      /\ pc'[b] \in {"cancel", "stop", "idle"} /\ (pc'[b] = "cancel" <=> canceller # None)
      /\ pc' \in [Callers -> Places]
  BY <1>2, <1>4 DEF Places
<1>6. /\ job' \in [Callbacks -> JobOK] /\ job'[b].cancels = canceller
      /\ \A c \in Callbacks \ {b} : job'[c] = job[c]
  <2>1. [super |-> None, stop |-> active, cancels |-> canceller] \in JobOK
    BY <1>2 DEF JobOK
  <2>2. QED
    BY <1>1, <1>2, <2>1
<1>7. ServiceTypeOK'
  BY <1>1, <1>3, <1>5, <1>6 DEF Report, JobOK, GamingInv, ServiceTypeOK
<1>8. ContextsOK'
  <2>1. canceller # None => canceller \in Contexts /\ ctx[canceller] = "live"
    BY <1>2 DEF GamingInv, ContextsOK, CancellerHasGame
  <2>2. \A c \in Callbacks : pc[c] = "cancel" =>
          /\ job[c].cancels \in Contexts /\ job[c].cancels # canceller /\ ctx[job[c].cancels] = "live"
          /\ \A e \in Callbacks : pc[e] = "cancel" /\ job[e].cancels = job[c].cancels => e = c
    BY DEF GamingInv, ContextsOK
  <2>3. CancellerHasGame'
    BY <1>1 DEF CancellerHasGame
  <2>4. NoOrphanSupervisor'
    <3>1. ASSUME NEW k \in Contexts, ctx[k] = "live"
          PROVE  \E c \in Callbacks : pc'[c] = "cancel" /\ job'[c].cancels = k
      <4>1. CASE canceller = k
        BY <1>5, <1>6, <4>1, Disjoint
      <4>2. ASSUME NEW c \in Callbacks, pc[c] = "cancel", job[c].cancels = k
            PROVE  pc'[c] = "cancel" /\ job'[c].cancels = k
        BY <1>1, <1>5, <1>6, <4>2, Disjoint
      <4>3. QED
        BY <3>1, <4>1, <4>2 DEF GamingInv, ContextsOK, NoOrphanSupervisor
    <3>2. QED
      BY <1>1, <3>1 DEF NoOrphanSupervisor
  <2>5. ASSUME NEW c \in Callbacks, pc'[c] = "cancel"
        PROVE  LET k == job'[c].cancels IN
               /\ k \in Contexts /\ k # canceller' /\ ctx'[k] = "live"
               /\ \A e \in Callbacks : pc'[e] = "cancel" /\ job'[e].cancels = k => e = c
    <3>1. \A e \in Callbacks \ {b} : pc'[e] = pc[e] /\ job'[e].cancels = job[e].cancels
      BY <1>5, <1>6, Disjoint
    <3>2. CASE c = b
      BY <1>1, <1>5, <1>6, <2>1, <2>2, <2>5, <3>1, <3>2, Disjoint
    <3>3. CASE c # b
      BY <1>1, <1>5, <1>6, <2>1, <2>2, <2>5, <3>1, <3>3, Disjoint
    <3>4. QED
      BY <3>2, <3>3
  <2>6. \A k \in Contexts : pc'[k] # "stop" /\ (pc'[k] \in {"undo", "stopping", "gone"} => ctx'[k] = "ended")
    <3>1. \A k \in Contexts : pc[k] # "stop" /\ (pc[k] \in {"undo", "stopping", "gone"} => ctx[k] = "ended")
      BY DEF GamingInv, ContextsOK
    <3>2. QED
      BY <1>1, <1>2, <1>5, <3>1, Disjoint
  <2>7. QED
    BY <2>3, <2>4, <2>5, <2>6 DEF ContextsOK
<1>9. DetectorsOK'
  BY <1>1, DetectorsKept DEF GamingInv
<1>10. SetterOK'
  BY <1>1, <1>2, <1>5, Disjoint, SetterKept DEF GamingInv
<1>11. OriginOK'
  BY <1>1, <1>5, OriginKept DEF GamingInv
<1>12. QED
  BY <1>7, <1>8, <1>9, <1>10, <1>11 DEF GamingInv

LEMMA CancelKeepsInv ==
  ASSUME GamingInv, NEW b \in Callbacks, CancelSupervisor(b)
  PROVE  GamingInv'
<1> DEFINE k == job[b].cancels
<1>1. /\ pc[b] = "cancel" /\ ctx' = [ctx EXCEPT ![k] = "ended"]
      /\ UNCHANGED <<controlVars, enabled, active, detector, canceller, setter, watch, reports, gen>>
      /\ job' = job \/ job' = [job EXCEPT ![b] = NoJob]
      /\ \E place \in {"stop", "idle"} : pc' = [pc EXCEPT ![b] = place]
  BY DEF CancelSupervisor, Leave, Goto, serviceVars
<1>2. /\ pc \in [Callers -> Places] /\ b \in Callers /\ b \notin Users /\ b \notin Contexts
      /\ job \in [Callbacks -> JobOK]
      /\ ctx \in [Contexts -> {"unused", "live", "ended", "replaced"}]
  BY Disjoint DEF JobOK, GamingInv, ServiceTypeOK
<1>3. /\ k \in Contexts /\ k # canceller /\ ctx[k] = "live"
      /\ \A c \in Callbacks : pc[c] = "cancel" /\ job[c].cancels = k => c = b
  BY <1>1 DEF GamingInv, ContextsOK
<1>4. /\ \A p \in Callers \ {b} : pc'[p] = pc[p]
      /\ pc'[b] \in {"stop", "idle"} /\ pc' \in [Callers -> Places]
  BY <1>1, <1>2 DEF Places
<1>5. job' \in [Callbacks -> JobOK] /\ \A c \in Callbacks \ {b} : job'[c] = job[c]
  <2>1. NoJob \in JobOK
    BY DEF NoJob, JobOK
  <2>2. QED
    BY <1>1, <1>2, <2>1
<1>6. ctx' \in [Contexts -> {"unused", "live", "ended", "replaced"}] /\ ctx'[k] = "ended"
      /\ \A j \in Contexts \ {k} : ctx'[j] = ctx[j]
  BY <1>1, <1>2, <1>3
<1>7. ServiceTypeOK'
  BY <1>1, <1>4, <1>5, <1>6 DEF JobOK, GamingInv, ServiceTypeOK
<1>8. ContextsOK'
  <2>1. CancellerHasGame'
    <3>1. canceller # None => canceller \in Contexts
      BY DEF GamingInv, ServiceTypeOK
    <3>2. QED
      BY <1>1, <1>3, <1>6, <3>1 DEF CancellerHasGame, GamingInv, ContextsOK
  <2>2. \A c \in Callbacks \ {b} : pc'[c] = pc[c] /\ job'[c] = job[c]
    BY <1>4, <1>5, Disjoint
  <2>3. NoOrphanSupervisor'
    <3>1. ASSUME NEW j \in Contexts, ctx'[j] = "live"
          PROVE  canceller' = j \/ \E c \in Callbacks : pc'[c] = "cancel" /\ job'[c].cancels = j
      <4>1. j # k /\ ctx[j] = "live"
        BY <1>6, <3>1
      <4>2. canceller = j \/ \E c \in Callbacks : pc[c] = "cancel" /\ job[c].cancels = j
        BY <4>1 DEF GamingInv, ContextsOK, NoOrphanSupervisor
      <4>3. QED
        BY <1>1, <2>2, <4>1, <4>2
    <3>2. QED
      BY <3>1 DEF NoOrphanSupervisor
  <2>4. ASSUME NEW c \in Callbacks, pc'[c] = "cancel"
        PROVE  LET j == job'[c].cancels IN
               /\ j \in Contexts /\ j # canceller' /\ ctx'[j] = "live"
               /\ \A e \in Callbacks : pc'[e] = "cancel" /\ job'[e].cancels = j => e = c
    <3>1. c # b /\ pc[c] = "cancel" /\ job'[c] = job[c]
      BY <1>4, <2>2, <2>4
    <3>2. /\ job[c].cancels \in Contexts /\ job[c].cancels # canceller /\ ctx[job[c].cancels] = "live"
          /\ \A e \in Callbacks : pc[e] = "cancel" /\ job[e].cancels = job[c].cancels => e = c
      BY <3>1 DEF GamingInv, ContextsOK
    <3>3. job[c].cancels # k
      BY <1>3, <3>1
    <3>4. \A e \in Callbacks : pc'[e] = "cancel" => pc[e] = "cancel" /\ job'[e] = job[e]
      BY <1>4, <2>2
    <3>5. QED
      BY <1>1, <1>6, <3>1, <3>2, <3>3, <3>4
  <2>5. \A j \in Contexts : pc'[j] # "stop" /\ (pc'[j] \in {"undo", "stopping", "gone"} => ctx'[j] = "ended")
    <3>1. \A j \in Contexts : pc[j] # "stop" /\ (pc[j] \in {"undo", "stopping", "gone"} => ctx[j] = "ended")
      BY DEF GamingInv, ContextsOK
    <3>2. QED
      BY <1>2, <1>4, <1>6, <3>1, Disjoint
  <2>6. QED
    BY <2>1, <2>3, <2>4, <2>5 DEF ContextsOK
<1>9. DetectorsOK'
  BY <1>1, DetectorsKept DEF GamingInv
<1>10. SetterOK'
  BY <1>1, <1>2, <1>4, Disjoint, SetterKept DEF GamingInv
<1>11. OriginOK'
  BY <1>1, <1>4, OriginKept DEF GamingInv
<1>12. QED
  BY <1>7, <1>8, <1>9, <1>10, <1>11 DEF GamingInv

LEMMA SpawnKeepsInv ==
  ASSUME GamingInv, NEW b \in Callbacks, SpawnSupervisor(b)
  PROVE  GamingInv'
<1>1. /\ pc[b] = "spawn" /\ pc' = [pc EXCEPT ![b] = "idle", ![job[b].super] = "tick"]
      /\ UNCHANGED <<controlVars, enabled, active, detector, canceller, setter, watch, reports, gen, job, ctx>>
  BY DEF SpawnSupervisor, serviceVars
<1>2. /\ pc \in [Callers -> Places] /\ b \in Callers /\ b \notin Users /\ b \notin Contexts
      /\ job[b].super \in Contexts \cup {None}
  BY Disjoint DEF GamingInv, ServiceTypeOK
<1>3. /\ pc' \in [Callers -> Places] /\ pc'[b] = "idle"
      /\ \A p \in Callers \ {b} : pc'[p] = pc[p] \/ (p \in Contexts /\ pc'[p] = "tick")
  <2>1. "idle" \in Places /\ "tick" \in Places
    BY DEF Places
  <2>2. QED
    BY <1>1, <1>2, <2>1, Disjoint
<1>4. ServiceTypeOK'
  BY <1>1, <1>3 DEF GamingInv, ServiceTypeOK
<1>5. ContextsOK'
  <2>1. \A k \in Contexts : pc[k] # "stop" /\ (pc[k] \in {"undo", "stopping", "gone"} => ctx[k] = "ended")
    BY DEF GamingInv, ContextsOK
  <2>2. ContextsLeft
    BY <1>1, <1>2, <1>3, <2>1, Disjoint DEF ContextsLeft
  <2>3. QED
    BY <2>2, ContextsKept DEF GamingInv
<1>6. DetectorsOK'
  BY <1>1, DetectorsKept DEF GamingInv
<1>7. SetterOK'
  BY <1>1, <1>2, <1>3, Disjoint, SetterKept DEF GamingInv
<1>8. OriginOK'
  BY <1>1, <1>3, OriginKept DEF GamingInv
<1>9. QED
  BY <1>4, <1>5, <1>6, <1>7, <1>8 DEF GamingInv

LEMMA SupervisorKeepsInv ==
  ASSUME GamingInv, NEW k \in Contexts, Supervisor(k)
  PROVE  GamingInv'
<1>1. /\ pc[k] \in {"tick", "look", "gone"}
      /\ UNCHANGED <<controlVars, enabled, active, detector, canceller, setter, watch, reports, gen, job>>
      /\ \/ ctx' = ctx
         \/ ctx[k] \in {"ended", "replaced"} /\ ctx' = [ctx EXCEPT ![k] = "unused"] /\ pc' = [pc EXCEPT ![k] = "none"]
      /\ pc' = pc \/ \E place \in {"none", "tick", "look", "start"} : pc' = [pc EXCEPT ![k] = place]
  <2>1. pc[k] = "gone" => ctx[k] = "ended"
    BY DEF GamingInv, ContextsOK
  <2>2. CASE SupervisorLeaves(k)
    BY <2>1, <2>2 DEF SupervisorLeaves, Goto, serviceVars
  <2>3. CASE SupervisorTicks(k)
    BY <2>3 DEF SupervisorTicks, Goto, local, serviceVars
  <2>4. CASE SupervisorWaits(k)
    BY <2>4 DEF SupervisorWaits, Goto, local, serviceVars
  <2>5. CASE SupervisorRestarts(k)
    BY <2>5 DEF SupervisorRestarts, Goto, local, serviceVars
  <2>6. QED
    BY <2>2, <2>3, <2>4, <2>5 DEF Supervisor
<1>2. /\ pc \in [Callers -> Places] /\ k \in Callers /\ k \notin Users /\ k \notin Callbacks
      /\ ctx \in [Contexts -> {"unused", "live", "ended", "replaced"}]
  BY Disjoint DEF GamingInv, ServiceTypeOK
<1>3. /\ pc' \in [Callers -> Places] /\ pc'[k] \in {"none", "tick", "look", "gone", "start"}
      /\ \A p \in Callers \ {k} : pc'[p] = pc[p]
  BY <1>1, <1>2 DEF Places
<1>4. /\ ctx' \in [Contexts -> {"unused", "live", "ended", "replaced"}]
      /\ \A j \in Contexts : ctx'[j] = ctx[j] \/ (j = k /\ ctx[j] # "live" /\ ctx'[j] = "unused" /\ pc'[j] = "none")
  BY <1>1, <1>2
<1>5. ServiceTypeOK'
  BY <1>1, <1>3, <1>4 DEF GamingInv, ServiceTypeOK
<1>6. ContextsOK'
  <2>1. \A j \in Contexts : ctx'[j] = "live" <=> ctx[j] = "live"
    BY <1>4
  <2>2. \A c \in Callbacks : pc'[c] = pc[c] /\ job'[c] = job[c]
    BY <1>1, <1>2, <1>3, Disjoint
  <2>3. CancellerHasGame'
    <3>1. canceller # None => canceller \in Contexts
      BY DEF GamingInv, ServiceTypeOK
    <3>2. canceller # None => active /\ ctx[canceller] = "live"
      BY DEF GamingInv, ContextsOK, CancellerHasGame
    <3>3. QED
      BY <1>1, <2>1, <3>1, <3>2 DEF CancellerHasGame
  <2>4. NoOrphanSupervisor'
    BY <1>1, <2>1, <2>2 DEF NoOrphanSupervisor, GamingInv, ContextsOK
  <2>5. ASSUME NEW c \in Callbacks, pc'[c] = "cancel"
        PROVE  LET j == job'[c].cancels IN
               /\ j \in Contexts /\ j # canceller' /\ ctx'[j] = "live"
               /\ \A e \in Callbacks : pc'[e] = "cancel" /\ job'[e].cancels = j => e = c
    <3>1. /\ job[c].cancels \in Contexts /\ job[c].cancels # canceller /\ ctx[job[c].cancels] = "live"
          /\ \A e \in Callbacks : pc[e] = "cancel" /\ job[e].cancels = job[c].cancels => e = c
      BY <2>2, <2>5 DEF GamingInv, ContextsOK
    <3>2. QED
      BY <1>1, <2>1, <2>2, <3>1
  <2>6. \A j \in Contexts : pc'[j] # "stop" /\ (pc'[j] \in {"undo", "stopping", "gone"} => ctx'[j] = "ended")
    <3>1. \A j \in Contexts : pc[j] # "stop" /\ (pc[j] \in {"undo", "stopping", "gone"} => ctx[j] = "ended")
      BY DEF GamingInv, ContextsOK
    <3>2. pc'[k] = "gone" => pc[k] = "gone" /\ ctx'[k] = ctx[k]
      BY <1>1, <1>2, <1>4
    <3>3. QED
      BY <1>2, <1>3, <1>4, <3>1, <3>2, Disjoint
  <2>7. QED
    BY <2>3, <2>4, <2>5, <2>6 DEF ContextsOK
<1>7. DetectorsOK'
  BY <1>1, DetectorsKept DEF GamingInv
<1>8. SetterOK'
  BY <1>1, <1>2, <1>3, Disjoint, SetterKept DEF GamingInv
<1>9. OriginOK'
  BY <1>1, <1>3, OriginKept DEF GamingInv
<1>10. QED
  BY <1>5, <1>6, <1>7, <1>8, <1>9 DEF GamingInv

LEMMA NextKeepsInv ==
  ASSUME GamingInv, [Next]_vars
  PROVE  GamingInv'
BY QuietKeepsInv, LostKeepsInv, BootKeepsInv, WatchingKeepsInv, UserKeepsInv, EnableKeepsInv,
   DisableKeepsInv, GameStartedKeepsInv, GameEndedKeepsInv, CancelKeepsInv, SpawnKeepsInv,
   SupervisorKeepsInv, EngineKeepsInv DEF Next, Callback

\* Who holds which context, which detector is watched and whose session runs,
\* for any number of goroutines and detectors and callbacks in any order.
THEOREM GamingInvariant == Spec => []GamingInv
<1>1. GamingInv /\ [Next]_vars => GamingInv'
  BY NextKeepsInv
<1>2. QED
  BY InitEstablishesInv, <1>1, PTL DEF Spec

\* stopGamingSupervisor is held only during a game, and cancels a context that
\* nobody has cancelled.
THEOREM CancellersHaveGames == Spec => []CancellerHasGame
<1>1. GamingInv => CancellerHasGame
  BY DEF GamingInv, ContextsOK
<1>2. QED
  BY GamingInvariant, <1>1, PTL

\* Every supervisor that may still restart a session can be told to stop.
THEOREM NoOrphans == Spec => []NoOrphanSupervisor
<1>1. GamingInv => NoOrphanSupervisor
  BY DEF GamingInv, ContextsOK
<1>2. QED
  BY GamingInvariant, <1>1, PTL

\* The service's own detector is the only one that watches for games.
THEOREM OneDetectorWatches == Spec => []OneDetector
<1>1. GamingInv => OneDetector
  BY DEF GamingInv, DetectorsOK
<1>2. QED
  BY GamingInvariant, <1>1, PTL

\* A supervisor goes with the detector that can end its game.
THEOREM SupervisorsHaveDetectors == Spec => []SupervisorHasDetector
<1>1. GamingInv => SupervisorHasDetector
  BY DEF GamingInv, DetectorsOK
<1>2. QED
  BY GamingInvariant, <1>1, PTL

-----------------------------------------------------------------------------
(* Undoing a start.                                                        *)

\* Only StartUndone takes a goroutine from its undo to a stop.
LEMMA OnlyUndoStops ==
  ASSUME GamingInv, [Next]_vars, NEW p \in Callers, pc[p] = "undo", pc'[p] = "stopping"
  PROVE  StartUndone(p)
<1>0. pc \in [Callers -> Places]
  BY DEF GamingInv, ServiceTypeOK
<1>1. CASE GameToggles \/ SessionLost \/ DropReport \/ UNCHANGED vars
  BY <1>1 DEF GameToggles, SessionLost, DropReport, vars, gamingVars
<1>2. ASSUME NEW u \in Users, InitGaming(u), pc[u] \in {"boot", "enable"}
      PROVE  FALSE
  BY <1>0, <1>2, Disjoint DEF InitGaming, Goto
<1>3. CASE Boot
  BY <1>2, <1>3, Disjoint DEF Boot
<1>4. ASSUME NEW d \in Detectors, Probe(d) \/ Judge(d) \/ Forget(d)
      PROVE  FALSE
  BY <1>4 DEF Probe, Judge, JudgeTelling, Forget
<1>5. ASSUME NEW u \in Users,
             UserCalls(u) \/ SaveGamingMode(u) \/ EnableGaming(u) \/ DisableGaming(u)
      PROVE  FALSE
  <2>1. CASE EnableGaming(u)
    BY <1>2, <2>1 DEF EnableGaming
  <2>2. CASE UserCalls(u) \/ SaveGamingMode(u) \/ DisableGaming(u)
    <3>1. pc[u] \in {"idle", "disable"}
      BY <2>2 DEF UserCalls, SaveGamingMode, Save, DisableGaming, Disable
    <3>2. pc' = pc \/ \E place \in Places : pc' = [pc EXCEPT ![u] = place]
      <4>1. CASE UserCalls(u)
        <5>1. Commands \subseteq Places
          BY GamingAssumption DEF Places
        <5>2. QED
          BY <4>1, <5>1 DEF UserCalls, Goto
      <4>2. CASE SaveGamingMode(u)
        BY <4>2 DEF SaveGamingMode, Save, Goto, Places
      <4>3. CASE DisableGaming(u)
        BY <4>3 DEF DisableGaming, Disable, Goto, Places
      <4>4. QED
        BY <2>2, <4>1, <4>2, <4>3
    <3>3. QED
      BY <1>0, <3>1, <3>2
  <2>3. QED
    BY <1>5, <2>1, <2>2
<1>6. ASSUME NEW b \in Callbacks, Callback(b)
      PROVE  FALSE
  <2>1. b \in Callers
    BY Disjoint
  <2>2. CASE GameStarted(b)
    BY <1>0, <2>1, <2>2 DEF GameStarted, Goto
  <2>3. CASE GameEnded(b)
    BY <1>0, <2>1, <2>3 DEF GameEnded, Goto
  <2>4. CASE CancelSupervisor(b)
    BY <1>0, <2>1, <2>4 DEF CancelSupervisor, Leave, Goto
  <2>5. CASE SpawnSupervisor(b)
    BY <1>0, <2>1, <2>5 DEF SpawnSupervisor
  <2>6. QED
    BY <1>6, <2>2, <2>3, <2>4, <2>5 DEF Callback
<1>7. ASSUME NEW k \in Contexts, Supervisor(k)
      PROVE  FALSE
  BY <1>0, <1>7, Disjoint DEF Supervisor, SupervisorLeaves, SupervisorTicks, SupervisorWaits,
                              SupervisorRestarts, Goto
<1>8. ASSUME NEW q \in Callers, EngineCall(q)
      PROVE  StartUndone(p)
  <2>1. q = p
    <3>1. \E place : pc' = [pc EXCEPT ![q] = place]
      BY <1>8, EngineMoves
    <3>2. QED
      BY <1>0, <3>1
  <2>2. pc[p] = "undo"
    OBVIOUS
  <2>3. QED
    BY <1>8, <2>1, <2>2 DEF EngineCall, StartBegins, StartRefused, StartFails, StartLaunches,
                            StartReturns, StartChecked, Check, StopBegins, StopClears, StopReturns
<1>9. QED
  BY <1>1, <1>3, <1>4, <1>5, <1>6, <1>7, <1>8 DEF Next

\* A start that is undone stops the session it began and no other, for any
\* number of callers: the generation it keeps is this caller's own.
THEOREM UndoIsOwn == Spec => UndoStopsOwnSession
<1>1. ASSUME GamingInv, [Next]_vars, NEW p \in Callers, pc[p] = "undo", pc'[p] = "stopping"
      PROVE  running /\ session = gen[p] /\ origin = OriginOf(p)
  <2>1. StartUndone(p) /\ pc \in [Callers -> Places]
    BY <1>1, OnlyUndoStops DEF GamingInv, ServiceTypeOK
  <2>2. running /\ session = gen[p]
    BY <1>1, <2>1 DEF StartUndone, Undo, Leave, Goto, AfterStop, Spawning
  <2>3. QED
    BY <1>1, <2>2 DEF GamingInv, OriginOK
<1>2. GamingInv /\ [Next]_vars =>
        [\A p \in Callers : pc[p] = "undo" /\ pc'[p] = "stopping" =>
           running /\ session = gen[p] /\ origin = OriginOf(p)]_vars
  BY <1>1
<1>3. QED
  BY GamingInvariant, <1>2, PTL DEF Spec, UndoStopsOwnSession

-----------------------------------------------------------------------------
(* The setting and the detector.                                           *)

\* A step that changes neither the setting nor the detector, and takes no
\* handler from its reconfiguring.
LEMMA FollowsKept ==
  ASSUME DetectorFollowsConfig, UNCHANGED <<enabled, detector>>,
         \A u \in Users : pc[u] \in {"boot", "enable", "disable"} => pc'[u] = pc[u]
  PROVE  DetectorFollowsConfig'
BY DEF DetectorFollowsConfig

LEMMA NextKeepsFollowing ==
  ASSUME ~SaveMayFail, ~MayLackMethods, GamingInv, DetectorFollowsConfig, [Next]_vars
  PROVE  DetectorFollowsConfig'
<1>0. pc \in [Callers -> Places] /\ Users \subseteq Callers
  BY Disjoint DEF GamingInv, ServiceTypeOK
<1>1. CASE GameToggles \/ SessionLost \/ DropReport \/ UNCHANGED vars
  BY <1>1, FollowsKept DEF GameToggles, SessionLost, DropReport, vars, gamingVars, serviceVars
<1>2. CASE Boot
  <2>1. enabled <=> detector' # None
    BY <1>2, InitGamingKeeps, Disjoint DEF Boot, GamingInv, ServiceTypeOK
  <2>2. QED
    BY <1>2, <2>1 DEF Boot, DetectorFollowsConfig
<1>3. ASSUME NEW d \in Detectors, Probe(d) \/ Judge(d) \/ Forget(d)
      PROVE  DetectorFollowsConfig'
  BY <1>3, FollowsKept DEF Probe, Judge, JudgeTelling, Forget, serviceVars
<1>4. ASSUME NEW u \in Users,
             UserCalls(u) \/ SaveGamingMode(u) \/ EnableGaming(u) \/ DisableGaming(u)
      PROVE  DetectorFollowsConfig'
  <2>1. CASE UserCalls(u)
    <3>1. UNCHANGED <<enabled, detector>> /\ \A w \in Users : pc[w] # "idle" => pc'[w] = pc[w]
      BY <1>0, <2>1 DEF UserCalls, Goto, local, serviceVars
    <3>2. QED
      BY <3>1, FollowsKept
  <2>2. CASE SaveGamingMode(u)
    <3>1. pc'[u] \in {"enable", "disable"}
      BY <1>0, <2>2 DEF SaveGamingMode, Save, Goto
    <3>2. QED
      BY <3>1 DEF DetectorFollowsConfig
  <2>3. CASE EnableGaming(u)
    <3>1. enabled <=> detector' # None
      BY <2>3, InitGamingKeeps DEF EnableGaming
    <3>2. QED
      BY <2>3, <3>1 DEF EnableGaming, DetectorFollowsConfig
  <2>4. CASE DisableGaming(u)
    BY <2>4 DEF DisableGaming, Disable, DetectorFollowsConfig, GamingInv, SetterOK
  <2>5. QED
    BY <1>4, <2>1, <2>2, <2>3, <2>4
<1>5. ASSUME NEW b \in Callbacks, Callback(b)
      PROVE  DetectorFollowsConfig'
  <2>1. /\ UNCHANGED <<enabled, detector>>
        /\ \A w \in Users : pc'[w] = pc[w]
    <3>1. b \notin Users /\ (job[b].super \notin Users)
      BY Disjoint DEF GamingInv, ServiceTypeOK
    <3>2. CASE GameStarted(b)
      BY <1>0, <3>1, <3>2 DEF GameStarted, Goto
    <3>3. CASE GameEnded(b)
      BY <1>0, <3>1, <3>3 DEF GameEnded, Goto
    <3>4. CASE CancelSupervisor(b)
      BY <1>0, <3>1, <3>4 DEF CancelSupervisor, Leave, Goto, serviceVars
    <3>5. CASE SpawnSupervisor(b)
      BY <1>0, <3>1, <3>5 DEF SpawnSupervisor, serviceVars
    <3>6. QED
      BY <1>5, <3>2, <3>3, <3>4, <3>5 DEF Callback
  <2>2. QED
    BY <2>1, FollowsKept
<1>6. ASSUME NEW k \in Contexts, Supervisor(k)
      PROVE  DetectorFollowsConfig'
  <2>1. UNCHANGED <<enabled, detector>> /\ \A w \in Users : pc'[w] = pc[w]
    BY <1>0, <1>6, Disjoint DEF Supervisor, SupervisorLeaves, SupervisorTicks, SupervisorWaits,
                                SupervisorRestarts, Goto, local, serviceVars
  <2>2. QED
    BY <2>1, FollowsKept
<1>7. ASSUME NEW p \in Callers, EngineCall(p)
      PROVE  DetectorFollowsConfig'
  <2>1. /\ UNCHANGED <<enabled, detector>>
        /\ pc[p] \notin {"boot", "enable", "disable"}
        /\ \E place : pc' = [pc EXCEPT ![p] = place]
    BY <1>7, EngineMoves DEF local, serviceVars
  <2>2. QED
    BY <1>0, <2>1, FollowsKept
<1>8. QED
  BY <1>1, <1>2, <1>3, <1>4, <1>5, <1>6, <1>7 DEF Next

\* Where config.yaml can be written and games can be detected, the last setting
\* saved decides whether a detector runs, however many handlers race.
THEOREM SettingApplies ==
  ASSUME ~SaveMayFail, ~MayLackMethods
  PROVE  Spec => []DetectorFollowsConfig
<1>1. Init => DetectorFollowsConfig
  BY Disjoint DEF Init, DetectorFollowsConfig
<1>2. GamingInv /\ DetectorFollowsConfig /\ [Next]_vars => DetectorFollowsConfig'
  BY NextKeepsFollowing
<1>3. QED
  BY GamingInvariant, <1>1, <1>2, PTL DEF Spec
-----------------------------------------------------------------------------
(* The engine, as SessionControl has it: whatever gaming mode and its users *)
(* do, they only do to it what SyncEngine's callers may.                    *)

LEMMA ControlInitKeeps == ControlInit => ControlInv
<1> SUFFICES ASSUME ControlInit PROVE ControlInv
  OBVIOUS
<1>2. reported \in [running : BOOLEAN, origin : Origins]
  BY DEF ControlInit, NoReport, Origins
<1>3. session \in 0 .. MaxSessions
  BY SessionAssumption DEF ControlInit
<1>4. QED
  BY <1>2, <1>3 DEF ControlInit, ControlInv, ControlTypeOK, Free, Steps, Causes, Origins

LEMMA ControlStepKeeps ==
  ASSUME ControlInv, [ControlNext]_controlVars
  PROVE  ControlInv'
<1> USE DEF ControlInv, ControlTypeOK, Free, Steps, Causes, Origins, Take, Release, Unseen
<1>0. /\ Callers \subseteq Procs /\ None \notin Procs /\ MaxSessions \in Nat
      /\ (session > 0 => session \in Procs)
  BY SessionAssumption DEF Procs, Loops
<1>1. ASSUME NEW c \in Callers, BeginStart(c) \/ \E cause \in {"none", "capture", "connect"} : FailStart(c, cause)
      PROVE  ControlInv'
  BY <1>0, <1>1 DEF BeginStart, FailStart
<1>2. ASSUME NEW c \in Callers, \E o \in Origins : Launch(c, o)
      PROVE  ControlInv'
  BY <1>0, <1>2 DEF Launch
<1>3. ASSUME NEW c \in Callers, Publish(c)
      PROVE  ControlInv'
  BY <1>0, <1>3 DEF Publish
<1>4. ASSUME NEW c \in Callers, BeginStop(c) \/ \E g \in Loops : BeginStopSession(c, g)
      PROVE  ControlInv'
  BY <1>0, <1>4 DEF BeginStop, BeginStopSession
<1>5. CASE BeginEnd
  BY <1>0, <1>5 DEF BeginEnd
<1>6. ASSUME NEW p \in Procs, ClearRunning(p) \/ EndNotified(p)
      PROVE  ControlInv'
  <2>1. CASE ClearRunning(p)
    BY <1>0, <2>1 DEF ClearRunning
  <2>2. CASE EndNotified(p)
    <3>1. reported' \in [running : BOOLEAN, origin : Origins]
      BY <2>2 DEF EndNotified
    <3>2. QED
      BY <1>0, <2>2, <3>1 DEF EndNotified
  <2>3. QED
    BY <1>6, <2>1, <2>2
<1>7. CASE UNCHANGED controlVars
  BY <1>7 DEF controlVars
<1>8. QED
  BY <1>1, <1>2, <1>3, <1>4, <1>5, <1>6, <1>7 DEF ControlNext

\* A call gaming mode or a user makes, or a session that is lost, is a step of
\* the engine's; StopSession is only reached with a generation in use.
LEMMA GamingStepsEngine ==
  ASSUME ControlInv, [Next]_vars
  PROVE  [ControlNext]_controlVars
<1>0. Callers \subseteq Procs /\ Loops \subseteq Procs
  BY DEF Procs
<1>1. ASSUME NEW p \in Callers, EngineCall(p)
      PROVE  [ControlNext]_controlVars
  <2>1. CASE StartUndone(p) /\ running /\ session = gen[p]
    <3>1. gen[p] \in Loops /\ BeginStopSession(p, gen[p])
      BY <2>1 DEF StartUndone, Undo, ControlInv, ControlTypeOK, Loops
    <3>2. QED
      BY <3>1 DEF ControlNext
  <2>2. CASE StartUndone(p) /\ ~(running /\ session = gen[p])
    BY <2>2 DEF StartUndone, Undo
  <2>3. CASE StartLaunches(p)
    BY <2>3 DEF StartLaunches, OriginOf, ControlNext, Origins
  <2>4. CASE StopClears(p) \/ StopReturns(p)
    BY <1>0, <2>4 DEF StopClears, StopReturns, ControlNext
  <2>5. CASE StartBegins(p) \/ StartFails(p) \/ StartReturns(p) \/ StopBegins(p)
    BY <2>5 DEF StartBegins, StartFails, StartReturns, StopBegins, ControlNext
  <2>6. CASE StartRefused(p) \/ StartChecked(p)
    BY <2>6 DEF StartRefused, StartChecked, Check
  <2>7. QED
    BY <1>1, <2>1, <2>2, <2>3, <2>4, <2>5, <2>6 DEF EngineCall
<1>2. CASE SessionLost
  BY <1>0, <1>2 DEF SessionLost, ControlNext
<1>3. CASE GameToggles \/ DropReport \/ Boot \/ UNCHANGED vars
  BY <1>3 DEF GameToggles, DropReport, Boot, vars
<1>4. ASSUME NEW d \in Detectors, Probe(d) \/ Judge(d) \/ Forget(d)
      PROVE  UNCHANGED controlVars
  BY <1>4 DEF Probe, Judge, JudgeTelling, Forget
<1>5. ASSUME NEW u \in Users,
             UserCalls(u) \/ SaveGamingMode(u) \/ EnableGaming(u) \/ DisableGaming(u)
      PROVE  UNCHANGED controlVars
  BY <1>5 DEF UserCalls, SaveGamingMode, Save, EnableGaming, DisableGaming, Disable
<1>6. ASSUME NEW b \in Callbacks, Callback(b)
      PROVE  UNCHANGED controlVars
  BY <1>6 DEF Callback, GameStarted, GameEnded, CancelSupervisor, SpawnSupervisor
<1>7. ASSUME NEW k \in Contexts, Supervisor(k)
      PROVE  UNCHANGED controlVars
  BY <1>7 DEF Supervisor, SupervisorLeaves, SupervisorTicks, SupervisorWaits, SupervisorRestarts
<1>8. QED
  BY <1>1, <1>2, <1>3, <1>4, <1>5, <1>6, <1>7 DEF Next

LEMMA ControlInvariant == Spec => []ControlInv
<1>1. Init => ControlInv
  BY ControlInitKeeps DEF Init
<1>2. ControlInv /\ [Next]_vars => ControlInv'
  BY GamingStepsEngine, ControlStepKeeps
<1>3. QED
  BY <1>1, <1>2, PTL DEF Spec

\* Gaming mode and its users drive the engine only as SessionControl's callers
\* do, so that what SyncEngine is proved to promise its callers it promises them.
THEOREM UsesEngine == Spec => ControlSpec
<1>1. Init => ControlInit
  BY DEF Init
<1>2. ControlInv /\ [Next]_vars => [ControlNext]_controlVars
  BY GamingStepsEngine
<1>3. QED
  BY ControlInvariant, <1>1, <1>2, PTL DEF Spec, ControlSpec

-----------------------------------------------------------------------------
(* Who uses a context, and the budget of restarts.                         *)

\* What a callback's call to the engine makes of it.
LEMMA EngineMovesCallback ==
  ASSUME GamingInv, NEW b \in Callbacks, EngineCall(b)
  PROVE  \/ pc'[b] = "idle"
         \/ /\ job' = job /\ pc'[b] \in {"starting", "check", "undo", "stopping", "spawn"}
            /\ pc'[b] = "spawn" => job[b].super # None
            /\ pc'[b] \in {"starting", "check", "undo"} => pc[b] \in {"start", "starting", "check"}
<1> USE DEF Goto, Leave, local
<1>0. pc \in [Callers -> Places] /\ b \in Callers /\ b \notin Users
  BY Disjoint DEF GamingInv, ServiceTypeOK
<1>1. /\ AfterStart(b) = "idle" \/ (AfterStart(b) = "spawn" /\ job[b].super # None)
      /\ AfterStop(b) = "idle" \/ (AfterStop(b) = "spawn" /\ job[b].super # None)
  BY <1>0 DEF AfterStart, AfterStop, Spawning
<1>2. CASE StartBegins(b) \/ StartReturns(b)
  BY <1>0, <1>2 DEF StartBegins, StartReturns
<1>3. CASE StartLaunches(b) \/ StopClears(b)
  BY <1>0, <1>3 DEF StartLaunches, StopClears, gamingVars
<1>4. CASE StartRefused(b) \/ StartFails(b)
  BY <1>0, <1>1, <1>4 DEF StartRefused, StartFails
<1>5. CASE StartChecked(b)
  BY <1>0, <1>1, <1>5 DEF StartChecked, Check
<1>6. CASE StartUndone(b)
  BY <1>0, <1>1, <1>6 DEF StartUndone, Undo
<1>7. CASE StopBegins(b) \/ StopReturns(b)
  BY <1>0, <1>1, <1>7 DEF StopBegins, StopReturns
<1>8. QED
  BY <1>2, <1>3, <1>4, <1>5, <1>6, <1>7 DEF EngineCall

\* Only a supervisor whose start is refused takes an attempt back.
LEMMA EngineBudget ==
  ASSUME NEW p \in Callers, EngineCall(p)
  PROVE  \/ attempts' = attempts
         \/ p \in Contexts /\ pc[p] = "start" /\ attempts' = [attempts EXCEPT ![p] = @ - 1]
BY DEF EngineCall, StartBegins, StartRefused, StartFails, StartLaunches, StartReturns, StartChecked,
       Check, StartUndone, Undo, StopBegins, StopClears, StopReturns, gamingVars

\* A step that takes no context into or out of use and moves neither a callback
\* nor a supervisor.
LEMMA UseKept ==
  ASSUME UseOK, UNCHANGED <<job, attempts>>,
         \A p \in Callbacks \cup Contexts : pc'[p] = pc[p],
         GamingInv, \A k \in Contexts : ctx'[k] = "unused" <=> ctx[k] = "unused"
  PROVE  UseOK'
<1>1. ASSUME NEW k \in Contexts PROVE ContextUse(k)'
  BY DEF UseOK, ContextUse
<1>2. ASSUME NEW b \in Callbacks PROVE CallbackUse(b)'
  <2>1. CallbackUse(b) /\ job[b].super \in Contexts \cup {None}
    BY DEF UseOK, GamingInv, ServiceTypeOK
  <2>2. QED
    BY <2>1 DEF CallbackUse
<1>3. QED
  BY <1>1, <1>2 DEF UseOK

LEMMA EngineKeepsUse ==
  ASSUME GamingInv, UseOK, NEW p \in Callers, EngineCall(p)
  PROVE  UseOK'
<1>1. /\ pc[p] \in {"start", "starting", "check", "undo", "stop", "stopping"} /\ ctx' = ctx
      /\ \E place \in {"idle", "spawn", "tick", "gone", "starting", "check", "undo", "stopping"} :
           pc' = [pc EXCEPT ![p] = place]
      /\ job' = job \/ (p \in Callbacks /\ job' = [job EXCEPT ![p] = NoJob])
  BY EngineMoves DEF local
<1>2. /\ pc \in [Callers -> Places] /\ job \in [Callbacks -> JobOK]
  BY DEF GamingInv, ServiceTypeOK, JobOK
<1>3. /\ \A q \in Callers \ {p} : pc'[q] = pc[q]
      /\ pc'[p] \in {"idle", "spawn", "tick", "gone", "starting", "check", "undo", "stopping"}
      /\ \A c \in Callbacks \ {p} : job'[c] = job[c]
  BY <1>1, <1>2
<1>4. ASSUME NEW k \in Contexts PROVE ContextUse(k)'
  <2>1. ContextUse(k) /\ k \in Callers
    BY Disjoint DEF UseOK
  <2>2. pc'[k] = "start" => k # p /\ pc[k] = "start"
    BY <1>3, <2>1
  <2>3. pc'[k] = "start" => attempts'[k] = attempts[k]
    <3>1. CASE attempts' = attempts
      BY <3>1
    <3>2. CASE attempts' = [attempts EXCEPT ![p] = @ - 1]
      BY <2>2, <3>2
    <3>3. QED
      BY <3>1, <3>2, EngineBudget
  <2>4. ctx'[k] = "unused" => pc'[k] = "none"
    BY <1>1, <1>3, <2>1 DEF ContextUse
  <2>5. QED
    BY <2>1, <2>2, <2>3, <2>4 DEF ContextUse
<1>5. \A k \in Contexts : pc[k] = "none" => pc'[k] = "none"
  BY <1>1, <1>3, Disjoint
<1>6. \A c \in Callbacks : pc'[c] # "idle" => pc[c] # "idle" /\ job'[c] = job[c]
  <2>1. ASSUME NEW c \in Callbacks, pc'[c] # "idle" PROVE pc[c] # "idle" /\ job'[c] = job[c]
    <3>1. CASE c = p
      BY <1>1, <2>1, <3>1, EngineMovesCallback
    <3>2. CASE c # p
      BY <1>3, <2>1, <3>2, Disjoint
    <3>3. QED
      BY <3>1, <3>2
  <2>2. QED
    BY <2>1
<1>7. ASSUME NEW b \in Callbacks PROVE CallbackUse(b)'
  <2>1. CallbackUse(b)
    BY DEF UseOK
  <2>2. CASE pc'[b] = "idle"
    BY <2>2 DEF CallbackUse
  <2>3. CASE pc'[b] # "idle"
    <3>1. pc[b] # "idle" /\ job'[b] = job[b] /\ job[b].super \in Contexts \cup {None}
      BY <1>2, <1>6, <2>3 DEF JobOK
    <3>2. pc'[b] \in {"start", "starting", "check", "undo", "spawn"} => job[b].super # None
      <4>1. CASE b = p
        BY <1>1, <1>3, <2>1, <2>3, <4>1, EngineMovesCallback DEF CallbackUse
      <4>2. CASE b # p
        BY <1>3, <2>1, <4>2, Disjoint DEF CallbackUse
      <4>3. QED
        BY <4>1, <4>2
    <3>3. pc'[b] = "cancel" => job[b].stop
      BY <1>3, <2>1, Disjoint DEF CallbackUse
    <3>4. job[b].super # None =>
            /\ pc'[job[b].super] = "none" /\ ctx'[job[b].super] # "unused"
            /\ \A c \in Callbacks : pc'[c] # "idle" /\ job'[c].super = job[b].super => c = b
      BY <1>1, <1>5, <1>6, <2>1, <3>1 DEF CallbackUse
    <3>5. QED
      BY <3>1, <3>2, <3>3, <3>4 DEF CallbackUse
  <2>4. QED
    BY <2>2, <2>3
<1>8. QED
  BY <1>4, <1>7 DEF UseOK

\* initGamingModeLocked gives a new supervisor a context of its own.
LEMMA InitGamingKeepsUse ==
  ASSUME GamingInv, UseOK, NEW u \in Users, InitGaming(u), job' = job
  PROVE  UseOK'
<1>1. /\ pc \in [Callers -> Places] /\ u \in Callers /\ u \notin Contexts /\ u \notin Callbacks
      /\ job \in [Callbacks -> JobOK] /\ ctx \in [Contexts -> {"unused", "live", "ended", "replaced"}]
      /\ \A k \in Contexts : ReplacedCtx[k] = "unused" <=> ctx[k] = "unused"
  BY Disjoint, ReplacedContexts DEF GamingInv, ServiceTypeOK, JobOK
<1>2. CASE ctx' = ReplacedCtx /\ pc' = [pc EXCEPT ![u] = "idle"] /\ attempts' = attempts
  BY <1>1, <1>2, UseKept, Disjoint
<1>3. ASSUME NEW k \in Contexts, ctx[k] = "unused", ctx' = [ReplacedCtx EXCEPT ![k] = "live"],
             attempts' = [attempts EXCEPT ![k] = 0], pc' = [pc EXCEPT ![u] = "idle", ![k] = "tick"]
      PROVE  UseOK'
  <2>1. /\ \A p \in Callers \ {u, k} : pc'[p] = pc[p]
        /\ pc'[k] = "tick" /\ ctx'[k] = "live" /\ \A j \in Contexts \ {k} : ctx'[j] = ReplacedCtx[j]
        /\ \A j \in Contexts \ {k} : attempts'[j] = attempts[j]
    BY <1>1, <1>3, ReplacedContexts, Disjoint
  <2>2. ASSUME NEW j \in Contexts PROVE ContextUse(j)'
    <3>1. ContextUse(j) /\ j \in Callers /\ j # u
      BY <1>1, Disjoint DEF UseOK
    <3>2. QED
      BY <1>1, <2>1, <3>1 DEF ContextUse
  <2>3. ASSUME NEW b \in Callbacks PROVE CallbackUse(b)'
    <3>1. CallbackUse(b) /\ job[b].super \in Contexts \cup {None} /\ \A c \in Callbacks : pc'[c] = pc[c]
      BY <1>1, <2>1, Disjoint DEF UseOK, JobOK
    <3>2. pc[b] # "idle" /\ job[b].super # None =>
            job[b].super # k /\ pc'[job[b].super] = "none" /\ ctx'[job[b].super] # "unused"
      BY <1>1, <1>3, <2>1, <3>1, Disjoint DEF CallbackUse
    <3>3. QED
      BY <3>1, <3>2 DEF CallbackUse
  <2>4. QED
    BY <2>2, <2>3 DEF UseOK
<1>4. QED
  BY <1>2, <1>3 DEF InitGaming, Goto

LEMMA GameStartedKeepsUse ==
  ASSUME GamingInv, UseOK, NEW b \in Callbacks, GameStarted(b)
  PROVE  UseOK'
<1>1. /\ pc \in [Callers -> Places] /\ b \in Callers /\ b \notin Contexts
      /\ job \in [Callbacks -> JobOK] /\ ctx \in [Contexts -> {"unused", "live", "ended", "replaced"}]
      /\ pc[b] = "idle" /\ attempts' = attempts
      /\ (canceller # None => active)
  BY Disjoint DEF GamingInv, ServiceTypeOK, JobOK, GameStarted, ContextsOK, CancellerHasGame
<1>2. \/ /\ canceller = None
         /\ \E k \in Contexts :
              /\ ctx[k] = "unused" /\ ctx' = [ctx EXCEPT ![k] = "live"]
              /\ job' = [job EXCEPT ![b] = [NoJob EXCEPT !.super = k]]
      \/ canceller # None /\ job' = [job EXCEPT ![b] = NoJob] /\ ctx' = ctx
  BY DEF GameStarted
<1>3. /\ pc' = [pc EXCEPT ![b] = IF active THEN Spawning(job'[b]) ELSE "start"]
      /\ \A p \in Callers \ {b} : pc'[p] = pc[p]
  BY <1>1 DEF GameStarted, Goto
<1>4. \A c \in Callbacks \ {b} : pc'[c] = pc[c] /\ job'[c] = job[c]
  BY <1>1, <1>2, <1>3, Disjoint
<1>5. \A k \in Contexts : pc'[k] = pc[k] /\ (ctx'[k] = "unused" => ctx[k] = "unused")
  BY <1>1, <1>2, <1>3, Disjoint
<1>6. ASSUME NEW k \in Contexts PROVE ContextUse(k)'
  BY <1>1, <1>5 DEF UseOK, ContextUse
<1>7. CASE canceller # None
  <2>1. pc'[b] = "idle"
    <3>1. job'[b] = NoJob
      BY <1>1, <1>2, <1>7
    <3>2. QED
      BY <1>1, <1>3, <1>7, <3>1 DEF Spawning, NoJob
  <2>2. ASSUME NEW c \in Callbacks PROVE CallbackUse(c)'
    <3>1. CASE c = b
      BY <2>1, <3>1 DEF CallbackUse
    <3>2. CASE c # b
      <4>1. CallbackUse(c) /\ job[c].super \in Contexts \cup {None}
        BY <1>1 DEF UseOK, JobOK
      <4>2. QED
        BY <1>4, <1>5, <2>1, <3>2, <4>1 DEF CallbackUse
    <3>3. QED
      BY <3>1, <3>2
  <2>3. QED
    BY <1>6, <2>2 DEF UseOK
<1>8. ASSUME NEW k \in Contexts, ctx[k] = "unused", ctx' = [ctx EXCEPT ![k] = "live"],
             job' = [job EXCEPT ![b] = [NoJob EXCEPT !.super = k]]
      PROVE  UseOK'
  <2>1. job'[b].super = k /\ ctx'[k] = "live" /\ pc[k] = "none"
    <3>1. job'[b] = [NoJob EXCEPT !.super = k]
      BY <1>1, <1>8
    <3>2. QED
      BY <1>1, <1>8, <3>1 DEF NoJob, UseOK, ContextUse
  <2>2. pc'[b] \in {"start", "spawn"} /\ k # None
    BY <1>1, <1>3, <2>1, Disjoint DEF Spawning
  <2>3. \A c \in Callbacks \ {b} : pc[c] # "idle" => job[c].super # k
    BY <1>8, <2>2 DEF UseOK, CallbackUse
  <2>4. ASSUME NEW c \in Callbacks PROVE CallbackUse(c)'
    <3>1. CASE c = b
      BY <1>4, <1>5, <2>1, <2>2, <2>3, <3>1 DEF CallbackUse
    <3>2. CASE c # b
      <4>1. CallbackUse(c) /\ job[c].super \in Contexts \cup {None}
        BY <1>1 DEF UseOK, JobOK
      <4>2. pc[c] # "idle" /\ job[c].super # None => job[c].super # k
        BY <2>3, <3>2
      <4>3. QED
        BY <1>4, <1>5, <2>1, <3>2, <4>1, <4>2 DEF CallbackUse
    <3>3. QED
      BY <3>1, <3>2
  <2>5. QED
    BY <1>6, <2>4 DEF UseOK
<1>9. QED
  BY <1>2, <1>7, <1>8

\* The callback of a game's end uses no context of its own; it stops the session
\* if it cancels one, because a context is only held during a game.
LEMMA GameEndedKeepsUse ==
  ASSUME GamingInv, UseOK, NEW b \in Callbacks, GameEnded(b)
  PROVE  UseOK'
<1>1. /\ pc \in [Callers -> Places] /\ b \in Callers /\ b \notin Contexts
      /\ job \in [Callbacks -> JobOK] /\ attempts' = attempts /\ ctx' = ctx
      /\ (canceller # None => active) /\ active \in BOOLEAN
      /\ job' = [job EXCEPT ![b] = [super |-> None, stop |-> active, cancels |-> canceller]]
  BY Disjoint DEF GamingInv, ServiceTypeOK, JobOK, GameEnded, ContextsOK, CancellerHasGame
<1>2. \E place \in {"cancel", "stop", "idle"} :
        pc' = [pc EXCEPT ![b] = place] /\ (place = "cancel" => active)
  BY <1>1 DEF GameEnded, Goto
<1>3. /\ \A p \in Callers \ {b} : pc'[p] = pc[p]
      /\ pc'[b] \in {"cancel", "stop", "idle"} /\ (pc'[b] = "cancel" => active)
  BY <1>1, <1>2
<1>4. job'[b].super = None /\ job'[b].stop = active /\ \A c \in Callbacks \ {b} : pc'[c] = pc[c] /\ job'[c] = job[c]
  BY <1>1, <1>3, Disjoint
<1>5. ASSUME NEW k \in Contexts PROVE ContextUse(k)' /\ pc'[k] = pc[k]
  BY <1>1, <1>3, Disjoint DEF UseOK, ContextUse
<1>6. ASSUME NEW c \in Callbacks PROVE CallbackUse(c)'
  <2>1. CASE c = b
    BY <1>3, <1>4, <2>1 DEF CallbackUse
  <2>2. CASE c # b
    <3>1. CallbackUse(c) /\ job[c].super \in Contexts \cup {None}
      BY <1>1 DEF UseOK, JobOK
    <3>2. QED
      BY <1>1, <1>4, <1>5, <2>2, <3>1 DEF CallbackUse
  <2>3. QED
    BY <2>1, <2>2
<1>7. QED
  BY <1>5, <1>6 DEF UseOK

LEMMA CancelKeepsUse ==
  ASSUME GamingInv, UseOK, NEW b \in Callbacks, CancelSupervisor(b)
  PROVE  UseOK'
<1>1. /\ pc \in [Callers -> Places] /\ b \in Callers /\ b \notin Contexts
      /\ job \in [Callbacks -> JobOK] /\ ctx \in [Contexts -> {"unused", "live", "ended", "replaced"}]
      /\ pc[b] = "cancel" /\ job[b].cancels \in Contexts /\ ctx[job[b].cancels] = "live"
  BY Disjoint DEF CancelSupervisor, GamingInv, ServiceTypeOK, JobOK, ContextsOK
<1>2. /\ ctx' = [ctx EXCEPT ![job[b].cancels] = "ended"] /\ attempts' = attempts
      /\ \/ pc' = [pc EXCEPT ![b] = "stop"] /\ job' = job
         \/ pc' = [pc EXCEPT ![b] = "idle"] /\ job' = [job EXCEPT ![b] = NoJob]
  BY DEF CancelSupervisor, Leave, Goto
<1>3. /\ \A k \in Contexts : pc'[k] = pc[k] /\ (ctx'[k] = "unused" <=> ctx[k] = "unused")
      /\ \A c \in Callbacks \ {b} : pc'[c] = pc[c] /\ job'[c] = job[c]
      /\ pc'[b] = "idle" \/ (pc'[b] = "stop" /\ job'[b] = job[b])
  BY <1>1, <1>2, Disjoint
<1>4. ASSUME NEW k \in Contexts PROVE ContextUse(k)'
  BY <1>2, <1>3 DEF UseOK, ContextUse
<1>5. ASSUME NEW c \in Callbacks PROVE CallbackUse(c)'
  <2>1. CallbackUse(c) /\ job[c].super \in Contexts \cup {None}
    BY <1>1 DEF UseOK, JobOK
  <2>2. QED
    BY <1>1, <1>3, <2>1 DEF CallbackUse
<1>6. QED
  BY <1>4, <1>5 DEF UseOK

\* The callback hands its context over to the supervisor.
LEMMA SpawnKeepsUse ==
  ASSUME GamingInv, UseOK, NEW b \in Callbacks, SpawnSupervisor(b)
  PROVE  UseOK'
<1> DEFINE j == job[b].super
<1>1. /\ pc \in [Callers -> Places] /\ b \in Callers /\ b \notin Contexts
      /\ job \in [Callbacks -> JobOK] /\ pc[b] = "spawn" /\ job' = job /\ ctx' = ctx
      /\ j \in Contexts /\ pc[j] = "none" /\ ctx[j] # "unused"
      /\ \A c \in Callbacks : pc[c] # "idle" /\ job[c].super = j => c = b
  <2>1. job \in [Callbacks -> JobOK] /\ pc[b] = "spawn" /\ CallbackUse(b)
    BY DEF SpawnSupervisor, GamingInv, ServiceTypeOK, JobOK, UseOK
  <2>2. QED
    BY <2>1, Disjoint DEF SpawnSupervisor, GamingInv, ServiceTypeOK, JobOK, CallbackUse
<1>2. pc' = [pc EXCEPT ![b] = "idle", ![j] = "tick"] /\ attempts' = [attempts EXCEPT ![j] = 0]
  BY DEF SpawnSupervisor
<1>3. /\ pc'[b] = "idle" /\ pc'[j] = "tick" /\ \A p \in Callers \ {b, j} : pc'[p] = pc[p]
      /\ \A k \in Contexts \ {j} : attempts'[k] = attempts[k]
  BY <1>1, <1>2, Disjoint
<1>4. ASSUME NEW k \in Contexts PROVE ContextUse(k)'
  <2>1. ContextUse(k) /\ k \in Callers /\ k # b
    BY <1>1, Disjoint DEF UseOK
  <2>2. QED
    BY <1>1, <1>3, <2>1 DEF ContextUse
<1>5. ASSUME NEW c \in Callbacks PROVE CallbackUse(c)'
  <2>1. CallbackUse(c) /\ job[c].super \in Contexts \cup {None}
    BY <1>1 DEF UseOK, JobOK
  <2>2. CASE c = b
    BY <1>3, <2>2 DEF CallbackUse
  <2>3. CASE c # b
    <3>1. \A e \in Callbacks \ {b} : pc'[e] = pc[e]
      BY <1>1, <1>3, Disjoint
    <3>2. pc[c] # "idle" /\ job[c].super # None => job[c].super # j /\ pc'[job[c].super] = pc[job[c].super]
      BY <1>1, <1>3, <2>1, <2>3, Disjoint
    <3>3. QED
      BY <1>1, <1>3, <2>1, <2>3, <3>1, <3>2 DEF CallbackUse
  <2>4. QED
    BY <2>2, <2>3
<1>6. QED
  BY <1>4, <1>5 DEF UseOK

\* A supervisor that leaves is the last to use its context.
LEMMA SupervisorKeepsUse ==
  ASSUME GamingInv, UseOK, NEW j \in Contexts, Supervisor(j), attempts \in [Contexts -> Nat]
  PROVE  UseOK'
<1>1. /\ pc \in [Callers -> Places] /\ j \in Callers /\ j \notin Callbacks
      /\ job \in [Callbacks -> JobOK] /\ ctx \in [Contexts -> {"unused", "live", "ended", "replaced"}]
      /\ ContextUse(j)
  BY Disjoint DEF GamingInv, ServiceTypeOK, JobOK, UseOK
<1>2. /\ pc[j] \in {"tick", "look", "gone"} /\ job' = job
      /\ \/ ctx' = ctx /\ \E place \in {"tick", "look", "start"} : pc' = [pc EXCEPT ![j] = place]
         \/ ctx' = [ctx EXCEPT ![j] = "unused"] /\ pc' = [pc EXCEPT ![j] = "none"]
      /\ \A k \in Contexts \ {j} : attempts'[k] = attempts[k]
      /\ pc'[j] = "start" => attempts'[j] > 0
  <2>1. CASE SupervisorLeaves(j)
    BY <1>1, <2>1 DEF SupervisorLeaves, Goto
  <2>2. CASE SupervisorTicks(j)
    <3>1. pc' = pc => pc' = [pc EXCEPT ![j] = "tick"]
      BY <1>1, <2>2 DEF SupervisorTicks
    <3>2. pc[j] = "tick" /\ pc'[j] # "start"
      BY <1>1, <2>2 DEF SupervisorTicks, Goto
    <3>3. QED
      BY <1>1, <2>2, <3>1, <3>2 DEF SupervisorTicks, Goto, local
  <2>3. CASE SupervisorWaits(j)
    BY <1>1, <2>3 DEF SupervisorWaits, Goto, local
  <2>4. CASE SupervisorRestarts(j)
    BY <1>1, <2>4 DEF SupervisorRestarts, Goto, local
  <2>5. QED
    BY <2>1, <2>2, <2>3, <2>4 DEF Supervisor
<1>3. \A p \in Callers \ {j} : pc'[p] = pc[p]
  BY <1>1, <1>2
<1>4. \A k \in Contexts : ctx'[k] = "unused" => pc'[k] = "none" \/ ctx[k] = "unused"
  BY <1>1, <1>2
<1>5. ASSUME NEW k \in Contexts PROVE ContextUse(k)'
  <2>1. ContextUse(k) /\ k \in Callers
    BY Disjoint DEF UseOK
  <2>2. CASE k = j
    BY <1>1, <1>2, <1>4, <2>2 DEF ContextUse
  <2>3. CASE k # j
    BY <1>2, <1>3, <1>4, <2>1, <2>3 DEF ContextUse
  <2>4. QED
    BY <2>2, <2>3
<1>6. ASSUME NEW c \in Callbacks PROVE CallbackUse(c)'
  <2>1. CallbackUse(c) /\ job[c].super \in Contexts \cup {None} /\ \A e \in Callbacks : pc'[e] = pc[e]
    BY <1>1, <1>3, Disjoint DEF UseOK, JobOK
  <2>2. pc[c] # "idle" /\ job[c].super # None =>
          job[c].super # j /\ pc'[job[c].super] = "none" /\ ctx'[job[c].super] # "unused"
    BY <1>1, <1>2, <1>3, <2>1, Disjoint DEF CallbackUse
  <2>3. QED
    BY <1>2, <2>1, <2>2 DEF CallbackUse
<1>7. QED
  BY <1>5, <1>6 DEF UseOK

\* The part of the type invariant that the rest of the invariant depends on the
\* least: what is bounded stays within its bound.
Bounded ==
  /\ game \in BOOLEAN /\ enabled \in BOOLEAN
  /\ Len(reports) <= MaxReports
  /\ attempts \in [Contexts -> 0 .. MaxAttempts]

LEMMA WithoutShorter ==
  ASSUME reports \in Seq(Report), NEW i \in DOMAIN reports
  PROVE  Len(Without(i)) = Len(reports) - 1
<1>1. i \in 1 .. Len(reports)
  OBVIOUS
<1> DEFINE before == SubSeq(reports, 1, i - 1)
           after == SubSeq(reports, i + 1, Len(reports))
<1>2. before \in Seq(Report) /\ Len(before) = i - 1
  BY <1>1, SubSeqProperties
<1>3. after \in Seq(Report) /\ Len(after) = Len(reports) - i
  BY <1>1, SubSeqProperties
<1>4. Without(i) = before \o after
  BY DEF Without
<1>5. Len(reports) \in Nat /\ i \in Nat
  BY <1>1
<1> HIDE DEF before, after
<1>6. Len(before \o after) = Len(before) + Len(after)
  BY <1>2, <1>3, ConcatProperties
<1>7. QED
  BY <1>2, <1>3, <1>4, <1>5, <1>6

LEMMA NextKeepsUse ==
  ASSUME GamingInv, UseOK, attempts \in [Contexts -> 0 .. MaxAttempts], [Next]_vars
  PROVE  UseOK'
<1>0. pc \in [Callers -> Places] /\ attempts \in [Contexts -> Nat]
  BY GamingAssumption DEF GamingInv, ServiceTypeOK
<1>1. CASE GameToggles \/ SessionLost \/ DropReport \/ UNCHANGED vars
  BY <1>1, UseKept DEF GameToggles, SessionLost, DropReport, vars, gamingVars
<1>2. CASE Boot
  BY <1>2, InitGamingKeepsUse, Disjoint DEF Boot
<1>3. ASSUME NEW d \in Detectors, Probe(d) \/ Judge(d) \/ Forget(d)
      PROVE  UseOK'
  BY <1>3, UseKept DEF Probe, Judge, JudgeTelling, Forget
<1>4. ASSUME NEW u \in Users,
             UserCalls(u) \/ SaveGamingMode(u) \/ EnableGaming(u) \/ DisableGaming(u)
      PROVE  UseOK'
  <2>0. u \in Callers /\ u \notin Callbacks /\ u \notin Contexts
    BY Disjoint
  <2>1. CASE EnableGaming(u)
    BY <2>1, InitGamingKeepsUse DEF EnableGaming
  <2>2. CASE UserCalls(u) \/ SaveGamingMode(u)
    <3>1. /\ UNCHANGED <<job, attempts, ctx>>
          /\ pc' = pc \/ \E place : pc' = [pc EXCEPT ![u] = place]
      BY <2>2 DEF UserCalls, SaveGamingMode, Save, Goto, local
    <3>2. QED
      BY <1>0, <2>0, <3>1, UseKept, Disjoint
  <2>3. CASE DisableGaming(u)
    <3>1. UNCHANGED <<job, attempts>> /\ ctx' = ReplacedCtx /\ pc' = [pc EXCEPT ![u] = "idle"]
      BY <2>3 DEF DisableGaming, Disable, Goto
    <3>2. QED
      BY <1>0, <2>0, <3>1, ReplacedContexts, UseKept, Disjoint
  <2>4. QED
    BY <1>4, <2>1, <2>2, <2>3
<1>5. ASSUME NEW b \in Callbacks, Callback(b)
      PROVE  UseOK'
  BY <1>5, GameStartedKeepsUse, GameEndedKeepsUse, CancelKeepsUse, SpawnKeepsUse DEF Callback
<1>6. ASSUME NEW k \in Contexts, Supervisor(k)
      PROVE  UseOK'
  BY <1>0, <1>6, SupervisorKeepsUse
<1>7. ASSUME NEW p \in Callers, EngineCall(p)
      PROVE  UseOK'
  BY <1>7, EngineKeepsUse
<1>8. QED
  BY <1>1, <1>2, <1>3, <1>4, <1>5, <1>6, <1>7 DEF Next

LEMMA NextKeepsBounded ==
  ASSUME GamingInv, UseOK, Bounded, [Next]_vars
  PROVE  Bounded'
<1>0. /\ reports \in Seq(Report) /\ MaxAttempts \in Nat /\ MaxReports \in Nat /\ Settings \subseteq BOOLEAN
      /\ attempts \in [Contexts -> 0 .. MaxAttempts] /\ Len(reports) <= MaxReports
  BY GamingAssumption DEF GamingInv, ServiceTypeOK, Report, Bounded
<1>1. game' \in BOOLEAN /\ enabled' \in BOOLEAN
  BY <1>0 DEF Bounded, Next, GameToggles, SessionLost, DropReport, Boot, Probe, Judge, JudgeTelling, Forget,
     UserCalls, SaveGamingMode, Save, EnableGaming, DisableGaming, Disable, Callback, GameStarted, GameEnded,
     CancelSupervisor, SpawnSupervisor, Supervisor, SupervisorLeaves, SupervisorTicks, SupervisorWaits,
     SupervisorRestarts, EngineCall, StartBegins, StartRefused, StartFails, StartLaunches, StartReturns,
     StartChecked, Check, StartUndone, Undo, StopBegins, StopClears, StopReturns,
     local, serviceVars, gamingVars, vars
<1>2. ASSUME NEW k \in Contexts, attempts' = [attempts EXCEPT ![k] = 0]
      PROVE  attempts' \in [Contexts -> 0 .. MaxAttempts]
  BY <1>0, <1>2
<1>3. CASE GameToggles \/ SessionLost \/ UNCHANGED vars
  BY <1>0, <1>1, <1>3 DEF Bounded, GameToggles, SessionLost, vars, gamingVars
<1>4. CASE DropReport
  BY <1>0, <1>1, <1>4, WithoutShorter DEF Bounded, DropReport
<1>5. CASE Boot
  BY <1>0, <1>1, <1>2, <1>5 DEF Bounded, Boot, InitGaming
<1>6. ASSUME NEW d \in Detectors, Probe(d) \/ Judge(d) \/ Forget(d)
      PROVE  Bounded'
  <2>1. CASE Judge(d)
    BY <1>0, <1>1, <2>1 DEF Bounded, Judge, JudgeTelling
  <2>2. CASE Probe(d) \/ Forget(d)
    BY <1>0, <1>1, <2>2 DEF Bounded, Probe, Forget
  <2>3. QED
    BY <1>6, <2>1, <2>2
<1>7. ASSUME NEW u \in Users,
             UserCalls(u) \/ SaveGamingMode(u) \/ EnableGaming(u) \/ DisableGaming(u)
      PROVE  Bounded'
  <2>1. CASE EnableGaming(u)
    BY <1>0, <1>1, <1>2, <2>1 DEF Bounded, EnableGaming, InitGaming
  <2>2. CASE UserCalls(u) \/ SaveGamingMode(u) \/ DisableGaming(u)
    BY <1>0, <1>1, <2>2 DEF Bounded, UserCalls, SaveGamingMode, Save, DisableGaming, Disable, local
  <2>3. QED
    BY <1>7, <2>1, <2>2
<1>8. ASSUME NEW b \in Callbacks, Callback(b)
      PROVE  Bounded'
  <2>1. CASE GameStarted(b)
    BY <1>0, <1>1, <2>1, WithoutShorter DEF Bounded, GameStarted
  <2>2. CASE GameEnded(b)
    BY <1>0, <1>1, <2>2, WithoutShorter DEF Bounded, GameEnded
  <2>3. CASE CancelSupervisor(b)
    BY <1>0, <1>1, <2>3 DEF Bounded, CancelSupervisor
  <2>4. CASE SpawnSupervisor(b)
    <3>1. job[b].super \in Contexts
      BY <2>4 DEF SpawnSupervisor, UseOK, CallbackUse, GamingInv, ServiceTypeOK
    <3>2. attempts' \in [Contexts -> 0 .. MaxAttempts]
      BY <1>2, <2>4, <3>1 DEF SpawnSupervisor
    <3>3. QED
      BY <1>0, <1>1, <2>4, <3>2 DEF Bounded, SpawnSupervisor
  <2>5. QED
    BY <1>8, <2>1, <2>2, <2>3, <2>4 DEF Callback
<1>9. ASSUME NEW k \in Contexts, Supervisor(k)
      PROVE  Bounded'
  <2>1. CASE SupervisorRestarts(k)
    <3>1. attempts[k] + 1 \in 0 .. MaxAttempts
      BY <1>0, <2>1 DEF SupervisorRestarts
    <3>2. QED
      BY <1>0, <1>1, <2>1, <3>1 DEF Bounded, SupervisorRestarts, local
  <2>2. CASE SupervisorLeaves(k) \/ SupervisorTicks(k) \/ SupervisorWaits(k)
    BY <1>0, <1>1, <1>2, <2>2 DEF Bounded, SupervisorLeaves, SupervisorTicks, SupervisorWaits, local
  <2>3. QED
    BY <1>9, <2>1, <2>2 DEF Supervisor
<1>10. ASSUME NEW p \in Callers, EngineCall(p)
       PROVE  Bounded'
  <2>1. reports' = reports
    BY <1>10, EngineMoves DEF local
  <2>2. CASE p \in Contexts /\ pc[p] = "start" /\ attempts' = [attempts EXCEPT ![p] = @ - 1]
    <3>1. attempts[p] - 1 \in 0 .. MaxAttempts
      BY <1>0, <2>2 DEF UseOK, ContextUse
    <3>2. QED
      BY <1>0, <1>1, <2>1, <2>2, <3>1 DEF Bounded
  <2>3. QED
    BY <1>0, <1>1, <1>10, <2>1, <2>2, EngineBudget DEF Bounded
<1>11. QED
  BY <1>3, <1>4, <1>5, <1>6, <1>7, <1>8, <1>9, <1>10 DEF Next

LEMMA UseInvariant == Spec => [](UseOK /\ Bounded)
<1>1. Init => UseOK
  <2>1. ASSUME Init, NEW k \in Contexts PROVE ContextUse(k)
    BY <2>1, Disjoint DEF Init, ContextUse
  <2>2. ASSUME Init, NEW b \in Callbacks PROVE CallbackUse(b)
    BY <2>2, Disjoint DEF Init, CallbackUse
  <2>3. QED
    BY <2>1, <2>2 DEF UseOK
<1>2. Init => Bounded
  BY GamingAssumption DEF Init, Bounded
<1>3. GamingInv /\ UseOK /\ Bounded /\ [Next]_vars => UseOK' /\ Bounded'
  BY NextKeepsUse, NextKeepsBounded DEF Bounded
<1>4. QED
  BY GamingInvariant, <1>1, <1>2, <1>3, PTL DEF Spec

-----------------------------------------------------------------------------
(* What the reports on their way say, in whatever order they are heeded.   *)

LEMMA WithoutElements ==
  ASSUME reports \in Seq(Report), NEW i \in DOMAIN reports
  PROVE  /\ Without(i) \in Seq(Report) /\ Len(Without(i)) = Len(reports) - 1
         /\ DOMAIN Without(i) = 1 .. Len(reports) - 1
         /\ \A j \in 1 .. Len(reports) - 1 :
              Without(i)[j] = IF j < i THEN reports[j] ELSE reports[j + 1]
<1> DEFINE n == Len(reports)
           before == SubSeq(reports, 1, i - 1)
           after == SubSeq(reports, i + 1, n)
<1>1. n \in Nat /\ i \in 1 .. n /\ i \in Nat
  OBVIOUS
<1>2. before \in Seq(Report) /\ Len(before) = i - 1 /\ \A j \in 1 .. i - 1 : before[j] = reports[j]
  BY <1>1, SubSeqProperties
<1>3. after \in Seq(Report) /\ Len(after) = n - i /\ \A j \in 1 .. n - i : after[j] = reports[i + j]
  BY <1>1, SubSeqProperties
<1>4. Without(i) = before \o after
  BY DEF Without
<1> HIDE DEF before, after
<1>5. /\ before \o after \in Seq(Report) /\ Len(before \o after) = n - 1
      /\ \A j \in 1 .. n - 1 :
           (before \o after)[j] = IF j <= i - 1 THEN before[j] ELSE after[j - (i - 1)]
  <2>1. /\ before \o after \in Seq(Report) /\ Len(before \o after) = Len(before) + Len(after)
        /\ \A j \in 1 .. Len(before) + Len(after) :
             (before \o after)[j] = IF j <= Len(before) THEN before[j] ELSE after[j - Len(before)]
    BY <1>2, <1>3, ConcatProperties
  <2>2. Len(before) + Len(after) = n - 1
    BY <1>1, <1>2, <1>3
  <2>3. QED
    BY <1>2, <2>1, <2>2
<1>6. ASSUME NEW j \in 1 .. n - 1
      PROVE  (before \o after)[j] = IF j < i THEN reports[j] ELSE reports[j + 1]
  <2>1. CASE j < i
    <3>1. j \in 1 .. i - 1 /\ j <= i - 1
      BY <1>1, <2>1
    <3>2. QED
      BY <1>2, <1>5, <2>1, <3>1
  <2>2. CASE ~(j < i)
    <3>1. ~(j <= i - 1) /\ j - (i - 1) \in 1 .. n - i /\ i + (j - (i - 1)) = j + 1
      BY <1>1, <2>2
    <3>2. QED
      BY <1>3, <1>5, <2>2, <3>1
  <2>3. QED
    BY <2>1, <2>2
<1>7. QED
  BY <1>1, <1>4, <1>5, <1>6

LEMMA UnbornKept ==
  ASSUME UnbornOK, watch' = watch,
         \A j \in DOMAIN reports' : \E k \in DOMAIN reports : reports'[j] = reports[k]
  PROVE  UnbornOK'
<1>1. ASSUME NEW d \in Detectors, watch'[d].run = "unborn", NEW j \in DOMAIN reports'
      PROVE  reports'[j].src # d
  <2>1. PICK k \in DOMAIN reports : reports'[j] = reports[k]
    BY <1>1
  <2>2. reports[k].src # d
    BY <1>1 DEF UnbornOK
  <2>3. QED
    BY <2>1, <2>2
<1>2. QED
  BY <1>1 DEF UnbornOK

\* A report heeded in its turn is the newest that counts, unless there is one
\* on its way that does.
LEMMA InTurnKeepsOrder ==
  ASSUME GamingInv, OrderOK, UNCHANGED <<detector, watch>>,
         NEW i \in DOMAIN reports, ~Outdated(i), reports' = Without(i),
         active' = reports[i].on, NEW replaced \in BOOLEAN,
         history' = [ahead |-> i - 1, late |-> FALSE, replaced |-> replaced]
  PROVE  OrderOK'
<1> DEFINE n == Len(reports)
<1>1. /\ reports \in Seq(Report) /\ n \in Nat /\ i \in 1 .. n /\ DOMAIN reports = 1 .. n
      /\ history.ahead \in 0 .. n
  BY DEF GamingInv, ServiceTypeOK, Report, OrderOK
<1>2. /\ Len(reports') = n - 1 /\ DOMAIN reports' = 1 .. n - 1
      /\ \A j \in 1 .. n - 1 : reports'[j] = IF j < i THEN reports[j] ELSE reports[j + 1]
  BY <1>1, WithoutElements
<1>3. i > history.ahead /\ reports[i].src = detector
  BY <1>1 DEF Outdated, Overtaken
<1>4. history' \in [ahead : 0 .. Len(reports'), late : BOOLEAN, replaced : BOOLEAN]
  BY <1>1, <1>2
<1>5. UnbornOK'
  <2>1. ASSUME NEW j \in DOMAIN reports'
        PROVE  \E k \in DOMAIN reports : reports'[j] = reports[k]
    <3>1. j \in DOMAIN reports /\ j + 1 \in DOMAIN reports
      BY <1>1, <1>2
    <3>2. reports'[j] = reports[j] \/ reports'[j] = reports[j + 1]
      BY <1>2
    <3>3. QED
      BY <3>1, <3>2
  <2>2. QED
    BY <2>1, UnbornKept DEF OrderOK
\* A report behind i is in force after the step exactly if it was before.
<1>6. ASSUME NEW k \in i + 1 .. n
      PROVE  /\ k - 1 \in DOMAIN reports' /\ reports'[k - 1] = reports[k]
             /\ Outdated(k - 1)' <=> Outdated(k)
  <2>1. k - 1 \in 1 .. n - 1 /\ ~(k - 1 < i) /\ (k - 1) + 1 = k /\ k > history.ahead /\ ~(k - 1 <= i - 1)
    BY <1>1, <1>3
  <2>2. k - 1 \in DOMAIN reports' /\ reports'[k - 1] = reports[k]
    BY <1>2, <2>1
  <2>3. history'.ahead = i - 1 /\ ~(k <= history.ahead)
    BY <1>1, <2>1
  <2>4. QED
    BY <2>1, <2>2, <2>3 DEF Outdated, Overtaken
<1>7. ASSUME detector # None, NEW j \in DOMAIN reports', ~Outdated(j)',
             \A k \in DOMAIN reports' : k > j => Outdated(k)'
      PROVE  reports'[j].on = watch[detector].current
  <2>1. j \in 1 .. n - 1 /\ ~(j <= i - 1)
    BY <1>2, <1>7 DEF Outdated, Overtaken
  <2>2. j + 1 \in i + 1 .. n /\ (j + 1) - 1 = j
    BY <1>1, <2>1
  <2>3. ~Outdated(j + 1) /\ reports'[j] = reports[j + 1]
    BY <1>6, <1>7, <2>2
  <2>4. ASSUME NEW k \in DOMAIN reports, k > j + 1 PROVE Outdated(k)
    <3>1. k \in i + 1 .. n /\ k - 1 > j
      BY <1>1, <2>1, <2>4
    <3>2. QED
      BY <1>6, <1>7, <3>1
  <2>5. j + 1 \in DOMAIN reports
    BY <1>1, <2>2
  <2>6. QED
    BY <1>7, <2>3, <2>4, <2>5 DEF OrderOK, ReportsOK
<1>8. ASSUME detector # None, \A k \in DOMAIN reports' : Outdated(k)'
      PROVE  reports[i].on = watch[detector].current
  <2>1. ASSUME NEW k \in DOMAIN reports, k > i PROVE Outdated(k)
    <3>1. k \in i + 1 .. n
      BY <1>1, <2>1
    <3>2. QED
      BY <1>6, <1>8, <3>1
  <2>2. QED
    BY <1>8, <2>1 DEF OrderOK, ReportsOK
<1>9. ReportsOK'
  BY <1>7, <1>8 DEF ReportsOK
<1>10. QED
  BY <1>4, <1>5, <1>9 DEF OrderOK

\* One that comes too late changes nothing about the others; if it changes the
\* service's mind, the service is late.
LEMMA OutOfTurnKeepsOrder ==
  ASSUME GamingInv, OrderOK, UNCHANGED <<detector, watch>>,
         NEW i \in DOMAIN reports, Outdated(i), reports' = Without(i),
         NEW late \in BOOLEAN, NEW replaced \in BOOLEAN,
         history' = [ahead |-> AheadWithout(i), late |-> late, replaced |-> replaced],
         ~late => ~history.late /\ active' = active
  PROVE  OrderOK'
<1> DEFINE n == Len(reports)
<1>1. /\ reports \in Seq(Report) /\ n \in Nat /\ i \in 1 .. n /\ DOMAIN reports = 1 .. n
      /\ history.ahead \in 0 .. n /\ history'.ahead = AheadWithout(i) /\ history'.late = late
  BY DEF GamingInv, ServiceTypeOK, Report, OrderOK
<1>2. /\ Len(reports') = n - 1 /\ DOMAIN reports' = 1 .. n - 1
      /\ \A j \in 1 .. n - 1 : reports'[j] = IF j < i THEN reports[j] ELSE reports[j + 1]
  BY <1>1, WithoutElements
<1>3. AheadWithout(i) \in 0 .. n - 1
  BY <1>1 DEF AheadWithout, Overtaken
<1>4. history' \in [ahead : 0 .. Len(reports'), late : BOOLEAN, replaced : BOOLEAN]
  BY <1>2, <1>3
<1>5. UnbornOK'
  <2>1. ASSUME NEW j \in DOMAIN reports'
        PROVE  \E k \in DOMAIN reports : reports'[j] = reports[k]
    <3>1. j \in DOMAIN reports /\ j + 1 \in DOMAIN reports
      BY <1>1, <1>2
    <3>2. reports'[j] = reports[j] \/ reports'[j] = reports[j + 1]
      BY <1>2
    <3>3. QED
      BY <3>1, <3>2
  <2>2. QED
    BY <2>1, UnbornKept DEF OrderOK
\* Where a report stood before the step.
<1> DEFINE Was(j) == IF j < i THEN j ELSE j + 1
<1>6. ASSUME NEW j \in DOMAIN reports'
      PROVE  /\ Was(j) \in DOMAIN reports /\ reports'[j] = reports[Was(j)]
             /\ Outdated(j)' <=> Outdated(Was(j))
  <2>1. j \in 1 .. n - 1 /\ reports'[j] = reports[Was(j)]
    BY <1>2
  <2>2. Was(j) \in DOMAIN reports
    BY <1>1, <2>1
  <2>3. j <= AheadWithout(i) <=> Was(j) <= history.ahead
    BY <1>1, <2>1 DEF AheadWithout, Overtaken
  <2>4. QED
    BY <1>1, <2>1, <2>2, <2>3 DEF Outdated, Overtaken
<1>7. ASSUME NEW k \in DOMAIN reports, k # i
      PROVE  \E j \in DOMAIN reports' : Was(j) = k /\ \A e \in DOMAIN reports' : k > Was(e) => j > e
  <2>1. CASE k < i
    <3>1. k \in 1 .. n - 1 /\ Was(k) = k
      BY <1>1, <2>1
    <3>2. QED
      BY <1>1, <1>2, <2>1, <3>1
  <2>2. CASE k > i
    <3>1. k - 1 \in 1 .. n - 1 /\ Was(k - 1) = k
      BY <1>1, <2>2
    <3>2. ASSUME NEW e \in 1 .. n - 1, k > Was(e) PROVE k - 1 > e
      BY <1>1, <2>2, <3>2
    <3>3. QED
      BY <1>2, <3>1, <3>2
  <2>3. k < i \/ k > i
    BY <1>1, <1>7
  <2>4. QED
    BY <2>1, <2>2, <2>3
<1> HIDE DEF Was
<1>8. ASSUME detector # None, NEW j \in DOMAIN reports', ~Outdated(j)',
             \A k \in DOMAIN reports' : k > j => Outdated(k)'
      PROVE  reports'[j].on = watch[detector].current
  <2>1. ASSUME NEW k \in DOMAIN reports, k > Was(j) PROVE Outdated(k)
    <3>1. CASE k = i
      BY <3>1
    <3>2. CASE k # i
      BY <1>6, <1>7, <1>8, <2>1, <3>2
    <3>3. QED
      BY <3>1, <3>2
  <2>2. QED
    BY <1>6, <1>8, <2>1 DEF OrderOK, ReportsOK
<1>9. ASSUME detector # None, \A k \in DOMAIN reports' : Outdated(k)', ~late
      PROVE  active' = watch[detector].current
  <2>1. ASSUME NEW k \in DOMAIN reports PROVE Outdated(k)
    BY <1>6, <1>7, <1>9
  <2>2. QED
    BY <1>9, <2>1 DEF OrderOK, ReportsOK
<1>10. ReportsOK'
  BY <1>1, <1>8, <1>9 DEF ReportsOK
<1>11. QED
  BY <1>4, <1>5, <1>10 DEF OrderOK

LEMMA OrderKept ==
  ASSUME OrderOK, UNCHANGED <<detector, watch, reports, history, active>>
  PROVE  OrderOK'
BY DEF OrderOK, UnbornOK, ReportsOK, Outdated, Overtaken

\* A detector that looks, or is forgotten, moves no report.
LEMMA LookingKeepsOrder ==
  ASSUME GamingInv, OrderOK, NEW d \in Detectors, Probe(d) \/ Forget(d)
  PROVE  OrderOK'
<1>1. /\ UNCHANGED <<detector, reports, history, active>> /\ detector \in Detectors \cup {None}
      /\ watch \in [Detectors -> [run : {"unborn", "running", "closed"}, current : BOOLEAN,
                                  probe : {"none", "on", "off"}]]
  BY DEF GamingInv, ServiceTypeOK, Probe, Forget, serviceVars
<1>2. /\ detector # None => watch'[detector].current = watch[detector].current
      /\ UnbornOK'
  <2>1. CASE Probe(d)
    BY <1>1, <2>1 DEF Probe, OrderOK, UnbornOK
  <2>2. CASE Forget(d)
    <3>1. d # detector
      BY <2>2 DEF Forget, GamingInv, DetectorsOK, OneDetector
    <3>2. watch' = [watch EXCEPT ![d] = Unborn] /\ \A i \in DOMAIN reports : reports[i].src # d
      BY <2>2 DEF Forget
    <3>3. detector # None => watch'[detector].current = watch[detector].current
      BY <1>1, <3>1, <3>2
    <3>4. watch'[d].probe = "none" /\ \A e \in Detectors \ {d} : watch'[e] = watch[e]
      BY <1>1, <3>2 DEF Unborn
    <3>5. QED
      BY <1>1, <3>2, <3>3, <3>4 DEF OrderOK, UnbornOK
  <2>3. QED
    BY <2>1, <2>2
<1>3. QED
  BY <1>1, <1>2 DEF OrderOK, ReportsOK, Outdated, Overtaken

\* The newest report of the current detector says what it holds.
LEMMA JudgingKeepsOrder ==
  ASSUME GamingInv, OrderOK, NEW d \in Detectors, Judge(d)
  PROVE  OrderOK'
<1>0. PICK n \in Nat : n = Len(reports)
  BY DEF GamingInv, ServiceTypeOK
<1> DEFINE seen == watch[d].probe = "on"
           r == [src |-> d, on |-> seen]
<1>1. /\ UNCHANGED <<detector, history, active>> /\ detector \in Detectors \cup {None}
      /\ watch \in [Detectors -> [run : {"unborn", "running", "closed"}, current : BOOLEAN,
                                  probe : {"none", "on", "off"}]]
      /\ reports \in Seq(Report) /\ DOMAIN reports = 1 .. n /\ history.ahead \in 0 .. n
  BY <1>0 DEF GamingInv, ServiceTypeOK, Report, Judge, JudgeTelling, serviceVars, OrderOK
<1>2. /\ watch'[d].current = seen /\ watch'[d].run = watch[d].run /\ watch[d].run # "unborn"
      /\ \A e \in Detectors \ {d} : watch'[e] = watch[e]
  BY <1>1 DEF Judge, JudgeTelling, OrderOK, UnbornOK
<1>3. CASE seen = watch[d].current
  <2>1. reports' = reports
    BY <1>3 DEF Judge, JudgeTelling
  <2>2. \A e \in Detectors : watch'[e].current = watch[e].current
    BY <1>2, <1>3
  <2>3. UnbornOK'
    BY <1>2, <2>1 DEF OrderOK, UnbornOK
  <2>4. QED
    BY <1>1, <2>1, <2>2, <2>3 DEF OrderOK, ReportsOK, Outdated, Overtaken
<1>4. CASE seen # watch[d].current
  <2>1. reports' = Append(reports, r) /\ r \in Report
    BY <1>4 DEF Judge, JudgeTelling, Report
  <2>2. /\ DOMAIN reports' = 1 .. n + 1 /\ Len(reports') = n + 1
        /\ \A i \in 1 .. n : reports'[i] = reports[i]
        /\ reports'[n + 1] = r
    BY <1>0, <1>1, <2>1
  <2>3. history' \in [ahead : 0 .. Len(reports'), late : BOOLEAN, replaced : BOOLEAN]
    <3>1. history \in [ahead : 0 .. n, late : BOOLEAN, replaced : BOOLEAN] /\ 0 .. n \subseteq 0 .. n + 1
      BY <1>0, <1>1 DEF OrderOK
    <3>2. QED
      BY <1>1, <2>2, <3>1
  <2>4. UnbornOK'
    <3>1. ASSUME NEW e \in Detectors, watch'[e].run = "unborn"
          PROVE  watch'[e].probe = "none" /\ \A i \in 1 .. n + 1 : reports'[i].src # e
      <4>1. e # d /\ watch[e].run = "unborn"
        BY <1>2, <3>1
      <4>2. watch[e].probe = "none" /\ \A i \in 1 .. n : reports[i].src # e
        BY <1>1, <4>1 DEF OrderOK, UnbornOK
      <4>3. \A i \in 1 .. n + 1 : i \in 1 .. n \/ i = n + 1
        BY <1>1
      <4>4. QED
        BY <1>2, <2>2, <4>1, <4>2, <4>3
    <3>2. QED
      BY <2>2, <3>1 DEF UnbornOK
  <2>5. /\ \A i \in 1 .. n : Outdated(i)' <=> Outdated(i)
        /\ Outdated(n + 1)' <=> d # detector
    <3>1. ~(n + 1 <= history.ahead)
      BY <1>1
    <3>2. Outdated(n + 1)' <=> d # detector
      BY <1>1, <2>2, <3>1 DEF Outdated, Overtaken
    <3>3. ASSUME NEW i \in 1 .. n
          PROVE  Outdated(i)' <=> Outdated(i)
      BY <1>1, <2>2 DEF Outdated, Overtaken
    <3>4. QED
      BY <3>2, <3>3
  <2>6. ReportsOK'
    <3>1. CASE d = detector
      <4>1. ASSUME NEW i \in DOMAIN reports', ~Outdated(i)',
                   \A j \in DOMAIN reports' : j > i => Outdated(j)'
            PROVE  reports'[i].on = watch'[detector].current
        <5>1. n + 1 \in DOMAIN reports' /\ ~Outdated(n + 1)'
          BY <1>1, <2>2, <2>5, <3>1
        <5>2. ~(n + 1 > i)
          BY <4>1, <5>1
        <5>3. i = n + 1
          BY <1>1, <2>2, <5>2
        <5>4. QED
          BY <1>2, <2>2, <3>1, <5>3
      <4>2. ~(\A i \in DOMAIN reports' : Outdated(i)')
        BY <1>1, <2>2, <2>5, <3>1
      <4>3. QED
        BY <1>1, <4>1, <4>2 DEF ReportsOK
    <3>2. CASE d # detector
      <4>1. detector # None => watch'[detector].current = watch[detector].current
        BY <1>1, <1>2, <3>2
      <4>2. ASSUME detector # None, NEW i \in DOMAIN reports', ~Outdated(i)',
                   \A j \in DOMAIN reports' : j > i => Outdated(j)'
            PROVE  reports'[i].on = watch[detector].current
        <5>1. i \in 1 .. n
          <6>1. i # n + 1
            BY <2>5, <3>2, <4>2
          <6>2. QED
            BY <1>1, <2>2, <6>1
        <5>2. \A j \in 1 .. n : j \in DOMAIN reports'
          BY <1>1, <2>2
        <5>3. ~Outdated(i) /\ \A j \in 1 .. n : j > i => Outdated(j)
          BY <2>5, <4>2, <5>1, <5>2
        <5>4. QED
          BY <1>1, <2>2, <4>2, <5>1, <5>3 DEF OrderOK, ReportsOK
      <4>3. ASSUME detector # None, \A i \in DOMAIN reports' : Outdated(i)', ~history.late
            PROVE  active = watch[detector].current
        <5>1. \A i \in 1 .. n : i \in DOMAIN reports'
          BY <1>1, <2>2
        <5>2. \A i \in 1 .. n : Outdated(i)
          BY <2>5, <4>3, <5>1
        <5>3. QED
          BY <1>1, <4>3, <5>2 DEF OrderOK, ReportsOK
      <4>4. QED
        BY <1>1, <4>1, <4>2, <4>3 DEF ReportsOK
    <3>3. QED
      BY <3>1, <3>2
  <2>7. QED
    BY <2>3, <2>4, <2>6 DEF OrderOK
<1>5. QED
  BY <1>3, <1>4

\* A detector that goes leaves its reports; one that comes was seeded with what
\* the service goes by, and has none yet.
LEMMA ReplacingKeepsOrder ==
  ASSUME GamingInv, OrderOK, UNCHANGED reports, detector' # None => active' = active,
         Reconfigured(FALSE) \/ Reconfigured(history.late),
         \/ watch' = ClosedWatch /\ detector' = None
         \/ \E d \in Detectors : watch[d] = Unborn /\ StartWatching(d) /\ detector' = d
  PROVE  OrderOK'
<1>1. /\ watch \in [Detectors -> [run : {"unborn", "running", "closed"}, current : BOOLEAN,
                                  probe : {"none", "on", "off"}]]
      /\ detector \in Detectors \cup {None} /\ active \in BOOLEAN
      /\ history \in [ahead : 0 .. Len(reports), late : BOOLEAN, replaced : BOOLEAN] /\ UnbornOK
  BY DEF GamingInv, ServiceTypeOK, OrderOK
<1>2. history' \in [ahead : 0 .. Len(reports'), late : BOOLEAN, replaced : BOOLEAN]
  <2>1. (history.replaced \/ canceller # None) \in BOOLEAN
    BY <1>1
  <2>2. PICK late \in BOOLEAN, replaced \in BOOLEAN :
          history' = [history EXCEPT !.late = late, !.replaced = replaced]
    BY <1>1, <2>1 DEF Reconfigured
  <2>3. QED
    BY <1>1, <2>2
<1>3. /\ ClosedWatch \in [Detectors -> [run : {"unborn", "running", "closed"}, current : BOOLEAN,
                                        probe : {"none", "on", "off"}]]
      /\ \A d \in Detectors : /\ ClosedWatch[d].run = "unborn" => watch[d].run = "unborn"
                              /\ ClosedWatch[d].probe = watch[d].probe
  BY <1>1, ClosedDetectors DEF ClosedWatch
<1>4. CASE watch' = ClosedWatch /\ detector' = None
  BY <1>1, <1>2, <1>3, <1>4 DEF OrderOK, UnbornOK, ReportsOK
<1>5. ASSUME NEW d \in Detectors, watch[d] = Unborn, StartWatching(d), detector' = d
      PROVE  OrderOK'
  <2>1. /\ watch'[d].run = "running" /\ watch'[d].current = active
        /\ \A e \in Detectors \ {d} : watch'[e] = ClosedWatch[e]
    BY <1>3, <1>5 DEF StartWatching
  <2>2. \A i \in DOMAIN reports : reports[i].src # d
    BY <1>1, <1>5 DEF Unborn, UnbornOK
  <2>3. UnbornOK'
    BY <1>1, <1>3, <2>1 DEF UnbornOK
  <2>4. \A i \in DOMAIN reports' : Outdated(i)'
    BY <1>5, <2>2 DEF Outdated
  <2>5. ReportsOK'
    BY <1>5, <2>1, <2>4 DEF ReportsOK
  <2>6. QED
    BY <1>2, <2>3, <2>5 DEF OrderOK
<1>6. QED
  BY <1>4, <1>5

LEMMA NextKeepsOrder ==
  ASSUME GamingInv, OrderOK, [Next]_vars
  PROVE  OrderOK'
<1>0. /\ active \in BOOLEAN /\ reports \in Seq(Report)
      /\ \A i \in DOMAIN reports : reports[i] \in Report
      /\ history \in [ahead : 0 .. Len(reports), late : BOOLEAN, replaced : BOOLEAN]
  <2>1. active \in BOOLEAN /\ reports \in Seq(Report)
    BY DEF GamingInv, ServiceTypeOK, Report
  <2>2. history \in [ahead : 0 .. Len(reports), late : BOOLEAN, replaced : BOOLEAN]
    BY DEF OrderOK
  <2>3. ASSUME NEW i \in DOMAIN reports PROVE reports[i] \in Report
    BY <2>1, WithoutTyped
  <2>4. QED
    BY <2>1, <2>2, <2>3
<1>1. CASE GameToggles \/ SessionLost \/ UNCHANGED vars
  BY <1>1, OrderKept DEF GameToggles, SessionLost, vars, gamingVars, serviceVars
<1>2. CASE DropReport
  <2>1. PICK i \in DOMAIN reports : /\ Ignored(reports[i]) /\ reports' = Without(i)
                                    /\ history' = [history EXCEPT !.ahead = AheadWithout(i)]
    BY <1>2 DEF DropReport
  <2>2. Outdated(i)
    BY <2>1 DEF Ignored, Outdated
  <2>3. history' = [ahead |-> AheadWithout(i), late |-> history.late, replaced |-> history.replaced]
        /\ history.late \in BOOLEAN /\ history.replaced \in BOOLEAN
    BY <1>0, <2>1
  <2>4. UNCHANGED <<detector, watch, active>>
    BY <1>2 DEF DropReport, serviceVars
  <2>5. QED
    BY <2>1, <2>2, <2>3, <2>4, OutOfTurnKeepsOrder
<1>3. CASE Boot
  BY <1>3, ReplacingKeepsOrder DEF Boot, InitGaming
<1>4. ASSUME NEW d \in Detectors, Probe(d) \/ Judge(d) \/ Forget(d)
      PROVE  OrderOK'
  BY <1>4, LookingKeepsOrder, JudgingKeepsOrder
<1>5. ASSUME NEW u \in Users,
             UserCalls(u) \/ SaveGamingMode(u) \/ EnableGaming(u) \/ DisableGaming(u)
      PROVE  OrderOK'
  <2>1. CASE EnableGaming(u)
    BY <2>1, ReplacingKeepsOrder DEF EnableGaming, InitGaming
  <2>2. CASE DisableGaming(u)
    BY <2>2, ReplacingKeepsOrder DEF DisableGaming, Disable
  <2>3. CASE UserCalls(u) \/ SaveGamingMode(u)
    BY <2>3, OrderKept DEF UserCalls, SaveGamingMode, Save, local, serviceVars
  <2>4. QED
    BY <1>5, <2>1, <2>2, <2>3
<1>6. ASSUME NEW b \in Callbacks, GameStarted(b) \/ GameEnded(b)
      PROVE  OrderOK'
  <2>1. UNCHANGED <<detector, watch>>
    BY <1>6 DEF GameStarted, GameEnded
  <2>2. PICK i \in DOMAIN reports, late \in BOOLEAN, replaced \in BOOLEAN :
           /\ reports' = Without(i) /\ history' = Heeded(i, late, replaced)
           /\ active' = reports[i].on /\ (late <=> Outdated(i))
    <3>1. CASE GameStarted(b)
      <4>1. PICK i \in DOMAIN reports :
              /\ reports[i].on /\ ~Ignored(reports[i])
              /\ reports' = Without(i) /\ history' = Heeded(i, Overtaken(i), StillReplaced)
        BY <3>1 DEF GameStarted
      <4>2. reports[i].on = TRUE /\ active' = TRUE
        BY <1>0, <3>1, <4>1 DEF GameStarted, Report
      <4>3. Overtaken(i) \in BOOLEAN /\ (Overtaken(i) <=> Outdated(i))
        BY <4>1 DEF Ignored, Outdated, Overtaken
      <4>4. StillReplaced \in BOOLEAN
        BY <1>0 DEF StillReplaced
      <4>5. QED
        BY <4>1, <4>2, <4>3, <4>4
    <3>2. CASE GameEnded(b)
      <4>1. PICK i \in DOMAIN reports :
              /\ ~reports[i].on
              /\ reports' = Without(i) /\ history' = Heeded(i, Outdated(i), history.replaced)
        BY <3>2 DEF GameEnded
      <4>2. reports[i].on = FALSE /\ active' = FALSE
        BY <1>0, <3>2, <4>1 DEF GameEnded, Report
      <4>3. Outdated(i) \in BOOLEAN /\ history.replaced \in BOOLEAN
        BY <1>0 DEF Outdated, Overtaken
      <4>4. QED
        BY <4>1, <4>2, <4>3
    <3>3. QED
      BY <1>6, <3>1, <3>2
  <2>3. CASE late
    <3>1. history' = [ahead |-> AheadWithout(i), late |-> history.late \/ reports[i].on # active,
                      replaced |-> replaced]
      BY <2>2, <2>3 DEF Heeded
    <3>2. (history.late \/ reports[i].on # active) \in BOOLEAN
      BY <1>0
    <3>3. ~(history.late \/ reports[i].on # active) => ~history.late /\ active' = active
      BY <2>2
    <3>4. QED
      BY <2>1, <2>2, <2>3, <3>1, <3>2, <3>3, OutOfTurnKeepsOrder
  <2>4. CASE ~late
    <3>1. history' = [ahead |-> i - 1, late |-> FALSE, replaced |-> replaced]
      BY <2>2, <2>4 DEF Heeded
    <3>2. QED
      BY <2>1, <2>2, <2>4, <3>1, InTurnKeepsOrder
  <2>5. QED
    BY <2>3, <2>4
<1>7. ASSUME NEW b \in Callbacks, CancelSupervisor(b) \/ SpawnSupervisor(b)
      PROVE  OrderOK'
  BY <1>7, OrderKept DEF CancelSupervisor, SpawnSupervisor, serviceVars
<1>8. ASSUME NEW k \in Contexts, Supervisor(k)
      PROVE  OrderOK'
  BY <1>8, OrderKept DEF Supervisor, SupervisorLeaves, SupervisorTicks, SupervisorWaits,
                         SupervisorRestarts, local, serviceVars
<1>9. ASSUME NEW p \in Callers, EngineCall(p)
      PROVE  OrderOK'
  BY <1>9, EngineMoves, OrderKept DEF local, serviceVars
<1>10. QED
  BY <1>1, <1>2, <1>3, <1>4, <1>5, <1>6, <1>7, <1>8, <1>9 DEF Next, Callback

LEMMA OrderInvariant == Spec => []OrderOK
<1>1. Init => OrderOK
  BY DEF Init, Unborn, OrderOK, UnbornOK, ReportsOK
<1>2. GamingInv /\ OrderOK /\ [Next]_vars => OrderOK'
  BY NextKeepsOrder
<1>3. QED
  BY GamingInvariant, <1>1, <1>2, PTL DEF Spec

\* For callbacks in any order, any reconfiguration and any bounds: once everything
\* has been dealt with the service agrees with the machine, unless it goes by a
\* callback that came too late.
THEOREM ActiveFollows == Spec => []ActiveFollowsGame
<1>1. ServiceTypeOK /\ OrderOK => ActiveFollowsGame
  BY DEF ServiceTypeOK, OrderOK, ReportsOK, ActiveFollowsGame, Settled
<1>2. GamingInv => ServiceTypeOK
  BY DEF GamingInv
<1>3. QED
  BY GamingInvariant, OrderInvariant, <1>1, <1>2, PTL

-----------------------------------------------------------------------------
(* Types.                                                                  *)

\* Every variable keeps its type, for any bounds.  It is not a matter of shape:
\* a supervisor that takes its attempt back has counted one, its count stays
\* within gamingRestartAttempts, and a generation handed out is one in use.
THEOREM GamingTypeCorrect == Spec => []TypeOK
<1>1. GamingInv /\ ControlInv /\ UseOK /\ Bounded /\ OrderOK => TypeOK
  <2>1. ASSUME GamingInv, ControlInv PROVE gen \in [Callers -> 0 .. MaxSessions]
    BY <2>1, SessionAssumption DEF GamingInv, OriginOK, ControlInv, ControlTypeOK
  <2>2. QED
    BY <2>1 DEF GamingInv, ControlInv, Bounded, OrderOK, TypeOK
<1>2. QED
  BY GamingInvariant, ControlInvariant, UseInvariant, OrderInvariant, <1>1, PTL

-----------------------------------------------------------------------------
(* The session started for a game that has ended.                          *)

LEMMA EngineOrigin ==
  ASSUME GamingInv, NEW p \in Callers, EngineCall(p)
  PROVE  /\ origin' = origin \/ origin' = OriginOf(p)
         /\ \A q \in Callers \ {p} : gen'[q] = gen[q]
<1>1. gen \in [Callers -> Nat]
  BY DEF GamingInv, OriginOK
<1>2. origin' = origin \/ origin' = OriginOf(p)
  BY DEF EngineCall, StartBegins, StartRefused, StartFails, StartLaunches, StartReturns, StartChecked,
     Check, StartUndone, Undo, StopBegins, StopClears, StopReturns, controlVars, BeginStart, FailStart,
     Launch, Publish, BeginStop, BeginStopSession, ClearRunning, EndNotified, Unseen
<1>3. gen' = gen \/ \E g : gen' = [gen EXCEPT ![p] = g]
  BY DEF EngineCall, StartBegins, StartRefused, StartFails, StartLaunches, StartReturns, StartChecked,
     Check, StartUndone, Undo, StopBegins, StopClears, StopReturns, gamingVars
<1>4. QED
  BY <1>1, <1>2, <1>3

\* A step that leaves the engine alone and takes nobody who will stop the
\* session from doing so.
LEMMA OwnedKept ==
  ASSUME GamingInv, SessionOwned, UNCHANGED controlVars, active => active' = TRUE,
         \A b \in Callbacks : WillStop(b) => pc'[b] \in {"cancel", "stop"},
         \A p \in Callbacks \cup Contexts : WillUndo(p) =>
           /\ pc'[p] = pc[p] /\ gen'[p] = gen[p]
           /\ ContextOf(p)' = ContextOf(p) /\ ctx'[ContextOf(p)] = "ended"
  PROVE  SessionOwned'
<1>1. UNCHANGED <<running, origin, step, holder, session>>
  BY DEF controlVars
<1>2. ASSUME NEW b \in Callbacks, WillStop(b) PROVE WillStop(b)'
  BY <1>2 DEF WillStop
<1>3. ASSUME NEW p \in Callbacks \cup Contexts, WillUndo(p) PROVE WillUndo(p)'
  <2>1. /\ pc'[p] = pc[p] /\ gen'[p] = gen[p]
        /\ ContextOf(p)' = ContextOf(p) /\ ctx'[ContextOf(p)] = "ended"
    BY <1>3
  <2>2. QED
    BY <1>1, <1>3, <2>1 DEF WillUndo
<1>4. QED
  BY <1>1, <1>2, <1>3 DEF SessionOwned

\* The context of a start that is under way: nobody has taken it out of use, so
\* it is live, with somebody to cancel it, or its game has ended.
LEMMA StarterContext ==
  ASSUME GamingInv, UseOK, \A k \in Contexts : ctx[k] # "replaced",
         NEW p \in Callbacks \cup Contexts, pc[p] \in {"start", "starting", "check", "undo"}
  PROVE  /\ ContextOf(p) \in Contexts
         /\ ctx[ContextOf(p)] = "ended" \/ active \/ \E b \in Callbacks : pc[b] = "cancel"
<1>1. ctx \in [Contexts -> {"unused", "live", "ended", "replaced"}] /\ job \in [Callbacks -> JobOK]
  BY DEF GamingInv, ServiceTypeOK, JobOK
<1>2. ContextOf(p) \in Contexts /\ ctx[ContextOf(p)] # "unused"
  <2>1. CASE p \in Callbacks
    <3>1. job[p].super # None /\ ctx[job[p].super] # "unused" /\ job[p].super \in Contexts \cup {None}
      BY <1>1, <2>1 DEF UseOK, CallbackUse, JobOK
    <3>2. QED
      BY <2>1, <3>1 DEF ContextOf
  <2>2. CASE p \notin Callbacks
    BY <2>2 DEF ContextOf, UseOK, ContextUse
  <2>3. QED
    BY <2>1, <2>2
<1>3. ctx[ContextOf(p)] \in {"live", "ended"}
  BY <1>1, <1>2
<1>4. CASE ctx[ContextOf(p)] = "live"
  <2>1. canceller = ContextOf(p) \/ \E b \in Callbacks : pc[b] = "cancel"
    BY <1>2, <1>4 DEF GamingInv, ContextsOK, NoOrphanSupervisor
  <2>2. canceller # None => active
    BY DEF GamingInv, ContextsOK, CancellerHasGame
  <2>3. QED
    BY <1>2, <2>1, <2>2, Disjoint
<1>5. QED
  BY <1>2, <1>3, <1>4

\* Everybody but the caller is where he was after a call to the engine.
LEMMA EngineLeavesOthers ==
  ASSUME GamingInv, NEW p \in Callers, EngineCall(p),
         NEW q \in Callbacks \cup Contexts, q # p
  PROVE  pc'[q] = pc[q] /\ gen'[q] = gen[q] /\ ContextOf(q)' = ContextOf(q)
<1>1. /\ pc \in [Callers -> Places] /\ job \in [Callbacks -> JobOK] /\ q \in Callers
  BY Disjoint DEF GamingInv, ServiceTypeOK, JobOK
<1>2. /\ \E place : pc' = [pc EXCEPT ![p] = place]
      /\ job' = job \/ (p \in Callbacks /\ job' = [job EXCEPT ![p] = NoJob])
  BY EngineMoves
<1>3. pc'[q] = pc[q] /\ gen'[q] = gen[q] /\ (q \in Callbacks => job'[q] = job[q])
  BY <1>1, <1>2, EngineOrigin
<1>4. QED
  BY <1>3 DEF ContextOf

LEMMA EngineKeepsOwned ==
  ASSUME GamingInv, UseOK, SessionOwned, \A k \in Contexts : ctx[k] # "replaced",
         NEW p \in Callers, EngineCall(p)
  PROVE  SessionOwned'
<1> SUFFICES ASSUME running', origin' = "gaming"
             PROVE  \/ active' \/ step' = "stopping"
                    \/ \E b \in Callbacks : WillStop(b)'
                    \/ \E q \in Callbacks \cup Contexts : WillUndo(q)'
  BY DEF SessionOwned
<1>0. /\ pc \in [Callers -> Places] /\ gen \in [Callers -> Nat]
      /\ UNCHANGED <<active, ctx>>
      /\ p \in Users \/ p \in Callbacks \cup Contexts
      /\ p \in Callbacks \cup Contexts => p \notin Users
      /\ None \notin Callers /\ None \notin Contexts
  BY EngineMoves, Disjoint DEF GamingInv, ServiceTypeOK, OriginOK, local, serviceVars
<1>1. ASSUME NEW b \in Callbacks, WillStop(b), b # p PROVE WillStop(b)'
  BY <1>1, EngineLeavesOthers DEF WillStop
\* Who is to undo the session, other than the caller, still is, as long as the
\* session is the same.
<1>2. ASSUME NEW q \in Callbacks \cup Contexts, q # p, WillUndo(q),
             session' = session,
             step = "launched" /\ holder = q => step' = "launched" /\ holder' = q
      PROVE  WillUndo(q)'
  <2>1. pc'[q] = pc[q] /\ gen'[q] = gen[q] /\ ContextOf(q)' = ContextOf(q)
    BY <1>2, EngineLeavesOthers
  <2>2. QED
    BY <1>0, <1>2, <2>1 DEF WillUndo
<1>3. CASE StartBegins(p)
  BY <1>3 DEF StartBegins, BeginStart, Unseen
<1>4. CASE StartRefused(p)
  <2>1. pc[p] = "start" /\ UNCHANGED <<running, origin, session, step, holder>> /\ SessionOwned
    BY <1>4 DEF StartRefused, controlVars
  <2>2. ~WillStop(p) /\ ~WillUndo(p)
    BY <2>1 DEF WillStop, WillUndo
  <2>3. QED
    BY <1>0, <1>1, <1>2, <2>1, <2>2 DEF SessionOwned
<1>5. CASE StartFails(p)
  <2>1. /\ pc[p] = "starting" /\ UNCHANGED <<running, origin, session>> /\ step = "starting"
    BY <1>5 DEF StartFails, FailStart, Unseen
  <2>2. ~WillStop(p) /\ ~WillUndo(p)
    BY <2>1 DEF WillStop, WillUndo
  <2>3. QED
    BY <1>0, <1>1, <1>2, <2>1, <2>2 DEF SessionOwned
<1>6. CASE StartLaunches(p)
  <2>1. /\ pc[p] = "starting" /\ holder' = p /\ step' = "launched" /\ origin' = OriginOf(p)
        /\ UNCHANGED <<pc, job>>
    BY <1>6 DEF StartLaunches, Launch, gamingVars
  <2>2. p \in Callbacks \cup Contexts
    BY <1>0, <2>1 DEF OriginOf
  <2>3. ContextOf(p) \in Contexts /\ (ctx[ContextOf(p)] = "ended" \/ active \/ \E b \in Callbacks : pc[b] = "cancel")
    BY <2>1, <2>2, StarterContext
  <2>4. ASSUME NEW b \in Callbacks, pc[b] = "cancel" PROVE WillStop(b)'
    BY <2>1, <2>4 DEF WillStop
  <2>5. ContextOf(p)' = ContextOf(p)
    BY <2>1 DEF ContextOf
  <2>6. ctx[ContextOf(p)] = "ended" => WillUndo(p)'
    BY <1>0, <2>1, <2>3, <2>5 DEF WillUndo
  <2>7. QED
    BY <1>0, <2>2, <2>3, <2>4, <2>6
<1>7. CASE StartReturns(p)
  <2>1. /\ pc[p] = "starting" /\ holder = p /\ step = "launched" /\ job' = job
        /\ UNCHANGED <<running, origin, session>>
    BY <1>7 DEF StartReturns, Publish
  <2>2. p \in Callbacks \cup Contexts
    BY <1>0, <2>1 DEF OriginOf, GamingInv, OriginOK
  <2>3. pc' = [pc EXCEPT ![p] = "check"] /\ gen' = [gen EXCEPT ![p] = session]
    BY <1>0, <1>7, <2>2 DEF StartReturns, Goto
  <2>4. WillUndo(p) => WillUndo(p)'
    <3>1. pc'[p] = "check" /\ gen'[p] = session
      BY <1>0, <2>3
    <3>2. ContextOf(p)' = ContextOf(p)
      BY <2>1 DEF ContextOf
    <3>3. QED
      BY <1>0, <2>1, <3>1, <3>2 DEF WillUndo
  <2>5. ~WillStop(p) /\ step # "stopping"
    BY <2>1 DEF WillStop
  <2>6. ASSUME NEW q \in Callbacks \cup Contexts, q # p, WillUndo(q) PROVE WillUndo(q)'
    BY <1>2, <2>1, <2>6
  <2>7. QED
    BY <1>0, <1>1, <2>1, <2>2, <2>4, <2>5, <2>6 DEF SessionOwned
<1>8. CASE StartChecked(p)
  <2>1. pc[p] = "check" /\ UNCHANGED <<running, origin, session, step, holder>>
    BY <1>8 DEF StartChecked, Check, controlVars
  <2>2. p \in Callbacks \cup Contexts /\ WillUndo(p) => WillUndo(p)'
    <3>1. ASSUME WillUndo(p) PROVE pc' = [pc EXCEPT ![p] = "undo"] /\ UNCHANGED <<gen, job>>
      BY <1>8, <3>1 DEF StartChecked, Check, GamingEnded, WillUndo, Goto
    <3>2. ASSUME WillUndo(p) PROVE ContextOf(p)' = ContextOf(p)
      BY <3>1, <3>2 DEF ContextOf
    <3>3. ASSUME WillUndo(p) PROVE pc'[p] = "undo" /\ gen'[p] = gen[p]
      BY <1>0, <3>1, <3>3
    <3>4. QED
      BY <1>0, <2>1, <3>2, <3>3 DEF WillUndo
  <2>3. ~WillStop(p)
    BY <2>1 DEF WillStop
  <2>4. QED
    BY <1>0, <1>1, <1>2, <2>1, <2>2, <2>3 DEF SessionOwned
<1>9. CASE StartUndone(p)
  <2>1. CASE running /\ session = gen[p]
    BY <1>9, <2>1 DEF StartUndone, Undo, BeginStopSession, Take
  <2>2. CASE ~(running /\ session = gen[p])
    <3>1. pc[p] = "undo" /\ UNCHANGED <<running, origin, session, step, holder>>
      BY <1>9, <2>2 DEF StartUndone, Undo, controlVars
    <3>2. ~WillStop(p) /\ ~WillUndo(p)
      BY <2>2, <3>1 DEF WillStop, WillUndo
    <3>3. QED
      BY <1>0, <1>1, <1>2, <3>1, <3>2 DEF SessionOwned
  <2>3. QED
    BY <2>1, <2>2
<1>10. CASE StopBegins(p)
  BY <1>10 DEF StopBegins, BeginStop, Take, Unseen
<1>11. CASE StopClears(p)
  BY <1>11 DEF StopClears, ClearRunning
<1>12. CASE StopReturns(p)
  <2>1. pc[p] = "stopping" /\ step = "ended" /\ UNCHANGED <<running, origin, session>>
    BY <1>12 DEF StopReturns, EndNotified
  <2>2. ~WillStop(p) /\ ~WillUndo(p)
    BY <2>1 DEF WillStop, WillUndo
  <2>3. QED
    BY <1>0, <1>1, <1>2, <2>1, <2>2 DEF SessionOwned
<1>13. QED
  BY <1>3, <1>4, <1>5, <1>6, <1>7, <1>8, <1>9, <1>10, <1>11, <1>12 DEF EngineCall

LEMMA LostKeepsOwned ==
  ASSUME SessionOwned, SessionLost
  PROVE  SessionOwned'
<1>1. UNCHANGED <<active, pc, gen, job, ctx>>
  BY DEF SessionLost, gamingVars
<1>2. CASE BeginEnd
  BY <1>2 DEF BeginEnd, Take, SessionOwned
<1>3. ASSUME NEW g \in Loops, ClearRunning(g)
      PROVE  SessionOwned'
  BY <1>3 DEF ClearRunning, SessionOwned
<1>4. ASSUME NEW g \in Loops, EndNotified(g)
      PROVE  SessionOwned'
  <2>1. UNCHANGED <<running, origin, session>> /\ step = "ended"
    BY <1>4 DEF EndNotified
  <2>2. ASSUME NEW b \in Callbacks, WillStop(b) PROVE WillStop(b)'
    BY <1>1, <2>2 DEF WillStop
  <2>3. ASSUME NEW p \in Callbacks \cup Contexts, WillUndo(p) PROVE WillUndo(p)'
    BY <1>1, <2>1, <2>3 DEF WillUndo, ContextOf
  <2>4. QED
    BY <1>1, <2>1, <2>2, <2>3 DEF SessionOwned
<1>5. QED
  BY <1>2, <1>3, <1>4 DEF SessionLost

LEMMA CallbackKeepsOwned ==
  ASSUME GamingInv, UseOK, SessionOwned, NEW b \in Callbacks, Callback(b)
  PROVE  SessionOwned'
<1>0. /\ pc \in [Callers -> Places] /\ job \in [Callbacks -> JobOK] /\ active \in BOOLEAN
      /\ ctx \in [Contexts -> {"unused", "live", "ended", "replaced"}]
      /\ b \in Callers /\ b \notin Contexts /\ UNCHANGED <<controlVars, gen>>
      /\ Callbacks \subseteq Callers /\ Contexts \subseteq Callers
  BY Disjoint DEF GamingInv, ServiceTypeOK, JobOK, Callback, GameStarted, GameEnded,
                  CancelSupervisor, SpawnSupervisor
\* The rest of the callbacks, and whoever undoes a start, are left alone.
<1>1. ASSUME NEW place, pc' = [pc EXCEPT ![b] = place], pc[b] \in {"idle", "cancel"},
             \A c \in Callbacks \ {b} : job'[c] = job[c],
             NEW p \in Callbacks \cup Contexts, WillUndo(p)
      PROVE  /\ pc'[p] = pc[p] /\ gen'[p] = gen[p] /\ ContextOf(p)' = ContextOf(p)
             /\ ctx[ContextOf(p)] = "ended" /\ ContextOf(p) \in Contexts
  <2>1. p # b /\ ctx[ContextOf(p)] = "ended" /\ ContextOf(p) # None
    BY <1>1 DEF WillUndo
  <2>2. pc'[p] = pc[p] /\ gen'[p] = gen[p]
    BY <1>0, <1>1, <2>1
  <2>3. ContextOf(p)' = ContextOf(p) /\ ContextOf(p) \in Contexts
    BY <1>0, <1>1, <2>1, Disjoint DEF ContextOf, JobOK
  <2>4. QED
    BY <2>1, <2>2, <2>3
<1>2. CASE GameStarted(b)
  <2>1. /\ pc[b] = "idle" /\ active' = TRUE
        /\ \E place : pc' = [pc EXCEPT ![b] = place]
        /\ \E j : job' = [job EXCEPT ![b] = j]
        /\ ctx' = ctx \/ \E k \in Contexts : ctx[k] = "unused" /\ ctx' = [ctx EXCEPT ![k] = "live"]
    BY <1>2 DEF GameStarted, Goto
  <2>2. active' = TRUE /\ UNCHANGED <<running, origin>>
    BY <1>0, <2>1 DEF controlVars
  <2>3. QED
    BY <2>2 DEF SessionOwned
<1>3. CASE GameEnded(b)
  <2>1. /\ pc[b] = "idle" /\ ctx' = ctx
        /\ pc' = [pc EXCEPT ![b] = IF canceller # None THEN "cancel" ELSE IF active THEN "stop" ELSE "idle"]
        /\ \E j : job' = [job EXCEPT ![b] = j]
    BY <1>3 DEF GameEnded, Goto
  <2>2. CASE active
    <3>1. pc'[b] \in {"cancel", "stop"}
      BY <1>0, <2>1, <2>2
    <3>2. QED
      BY <3>1 DEF SessionOwned, WillStop
  <2>3. CASE ~active
    <3>1. \A c \in Callbacks : WillStop(c) => pc'[c] \in {"cancel", "stop"}
      BY <1>0, <2>1 DEF WillStop
    <3>2. \A c \in Callbacks \ {b} : job'[c] = job[c]
      BY <1>0, <2>1
    <3>3. \A p \in Callbacks \cup Contexts : WillUndo(p) =>
            /\ pc'[p] = pc[p] /\ gen'[p] = gen[p]
            /\ ContextOf(p)' = ContextOf(p) /\ ctx'[ContextOf(p)] = "ended"
      BY <1>1, <2>1, <3>2
    <3>4. QED
      BY <1>0, <2>3, <3>1, <3>3, OwnedKept
  <2>4. QED
    BY <2>2, <2>3
<1>4. CASE CancelSupervisor(b)
  <2>1. /\ pc[b] = "cancel" /\ job[b].stop /\ job[b].cancels \in Contexts
        /\ ctx' = [ctx EXCEPT ![job[b].cancels] = "ended"]
        /\ active' = active
    BY <1>4 DEF CancelSupervisor, UseOK, CallbackUse, GamingInv, ContextsOK, serviceVars
  <2>2. pc' = [pc EXCEPT ![b] = "stop"] /\ job' = job
    BY <1>4, <2>1 DEF CancelSupervisor, Leave, Goto
  <2>3. pc'[b] = "stop"
    BY <1>0, <2>2
  <2>4. QED
    BY <2>3 DEF SessionOwned, WillStop
<1>5. CASE SpawnSupervisor(b)
  <2>1. /\ pc[b] = "spawn" /\ pc' = [pc EXCEPT ![b] = "idle", ![job[b].super] = "tick"]
        /\ UNCHANGED <<active, ctx, job>>
    BY <1>5 DEF SpawnSupervisor, serviceVars
  <2>2. job[b].super \in Contexts /\ pc[job[b].super] = "none"
    BY <1>0, <2>1 DEF UseOK, CallbackUse, JobOK
  <2>3. \A p \in Callers : p # b /\ p # job[b].super => pc'[p] = pc[p]
    BY <1>0, <2>1
  <2>4. \A c \in Callbacks : WillStop(c) => pc'[c] \in {"cancel", "stop"}
    BY <1>0, <2>1, <2>2, <2>3, Disjoint DEF WillStop
  <2>5. ASSUME NEW p \in Callbacks \cup Contexts, WillUndo(p)
        PROVE  /\ pc'[p] = pc[p] /\ gen'[p] = gen[p]
               /\ ContextOf(p)' = ContextOf(p) /\ ctx'[ContextOf(p)] = "ended"
    <3>1. p # b /\ p # job[b].super /\ ctx[ContextOf(p)] = "ended"
      BY <2>1, <2>2, <2>5 DEF WillUndo
    <3>2. ContextOf(p)' = ContextOf(p)
      BY <2>1 DEF ContextOf
    <3>3. QED
      BY <1>0, <2>1, <2>3, <3>1, <3>2
  <2>6. active => active' = TRUE
    BY <1>0, <2>1
  <2>7. QED
    BY <1>0, <2>4, <2>5, <2>6, OwnedKept
<1>6. QED
  BY <1>2, <1>3, <1>4, <1>5 DEF Callback

\* A supervisor that leaves takes no context with it that a start still needs.
LEMMA SupervisorKeepsOwned ==
  ASSUME GamingInv, UseOK, SessionOwned, NEW k \in Contexts, Supervisor(k)
  PROVE  SessionOwned'
<1>0. /\ pc \in [Callers -> Places] /\ active \in BOOLEAN /\ job \in [Callbacks -> JobOK]
      /\ ctx \in [Contexts -> {"unused", "live", "ended", "replaced"}]
      /\ k \in Callers /\ k \notin Callbacks
  BY Disjoint DEF GamingInv, ServiceTypeOK, JobOK
<1>1. /\ pc[k] \in {"tick", "look", "gone"} /\ UNCHANGED <<controlVars, active, gen, job>>
      /\ pc' = pc \/ \E place : pc' = [pc EXCEPT ![k] = place]
      /\ ctx' = ctx \/ ctx' = [ctx EXCEPT ![k] = "unused"]
  BY DEF Supervisor, SupervisorLeaves, SupervisorTicks, SupervisorWaits, SupervisorRestarts, Goto,
         local, serviceVars
<1>2. \A p \in Callers \ {k} : pc'[p] = pc[p]
  BY <1>0, <1>1
<1>3. \A c \in Callbacks : WillStop(c) => pc'[c] \in {"cancel", "stop"}
  BY <1>0, <1>2, Disjoint DEF WillStop
<1>4. ASSUME NEW p \in Callbacks \cup Contexts, WillUndo(p)
      PROVE  /\ pc'[p] = pc[p] /\ gen'[p] = gen[p]
             /\ ContextOf(p)' = ContextOf(p) /\ ctx'[ContextOf(p)] = "ended"
  <2>1. p # k /\ pc[p] # "idle" /\ ctx[ContextOf(p)] = "ended" /\ ContextOf(p) # None
    BY <1>1, <1>4 DEF WillUndo
  <2>2. ContextOf(p)' = ContextOf(p)
    BY <1>1 DEF ContextOf
  <2>3. ContextOf(p) # k
    BY <1>1, <2>1 DEF ContextOf, UseOK, CallbackUse
  <2>4. ContextOf(p) \in Contexts
    BY <1>0, <2>1 DEF ContextOf, JobOK
  <2>5. QED
    BY <1>0, <1>1, <1>2, <2>1, <2>2, <2>3, <2>4, Disjoint
<1>5. active => active' = TRUE
  BY <1>0, <1>1
<1>6. QED
  BY <1>1, <1>3, <1>4, <1>5, OwnedKept

\* A step of the detectors or of the users that is no reconfiguration.
LEMMA QuietKeepsOwned ==
  ASSUME GamingInv, SessionOwned, UNCHANGED <<controlVars, active, gen, job, ctx>>,
         \A p \in Callbacks \cup Contexts : pc'[p] = pc[p]
  PROVE  SessionOwned'
<1>1. active => active' = TRUE
  BY DEF GamingInv, ServiceTypeOK
<1>2. \A b \in Callbacks : WillStop(b) => pc'[b] \in {"cancel", "stop"}
  BY DEF WillStop
<1>3. ASSUME NEW p \in Callbacks \cup Contexts, WillUndo(p)
      PROVE  /\ pc'[p] = pc[p] /\ gen'[p] = gen[p]
             /\ ContextOf(p)' = ContextOf(p) /\ ctx'[ContextOf(p)] = "ended"
  BY <1>3 DEF WillUndo, ContextOf
<1>4. QED
  BY <1>1, <1>2, <1>3, OwnedKept

\* A reconfiguration between games replaces no supervisor.
LEMMA ReconfiguringKeepsOwned ==
  ASSUME GamingInv, OrderOK, OwnedOK, ~history'.replaced, NEW u \in Users,
         (Boot /\ u = Main) \/ EnableGaming(u) \/ DisableGaming(u)
  PROVE  SessionOwned' /\ ~active' /\ ctx' = ctx /\ ~history.replaced
<1>0. /\ pc \in [Callers -> Places] /\ active \in BOOLEAN
      /\ history \in [ahead : 0 .. Len(reports), late : BOOLEAN, replaced : BOOLEAN]
      /\ u \in Callers /\ \A p \in Callbacks \cup Contexts : p \in Callers /\ p # u
  BY Disjoint DEF GamingInv, ServiceTypeOK, OrderOK
<1>1. Reconfigured(FALSE) \/ Reconfigured(history.late)
  BY DEF Boot, EnableGaming, DisableGaming, Disable
<1>2. ~history.replaced /\ canceller = None
  BY <1>0, <1>1 DEF Reconfigured
<1>3. SessionOwned /\ active = FALSE
  BY <1>0, <1>2 DEF OwnedOK
<1>4. (InitGaming(u) /\ active' = active) \/ DisableGaming(u)
  BY DEF Boot, EnableGaming
<1>5. /\ active' = FALSE /\ ctx' = ctx /\ pc' = [pc EXCEPT ![u] = "idle"]
      /\ UNCHANGED <<controlVars, gen, job>>
  <2>1. UNCHANGED <<controlVars, gen, job>>
    BY DEF Boot, EnableGaming, DisableGaming, Disable
  <2>2. CASE InitGaming(u) /\ active' = active
    BY <1>2, <1>3, <2>1, <2>2 DEF InitGaming, ReplacedCtx, Goto
  <2>3. CASE DisableGaming(u)
    BY <1>2, <2>1, <2>3 DEF DisableGaming, Disable, ReplacedCtx, Goto
  <2>4. QED
    BY <1>4, <2>2, <2>3
<1>6. \A p \in Callbacks \cup Contexts : pc'[p] = pc[p]
  BY <1>0, <1>5
<1>7. QED
  BY <1>2, <1>3, <1>5, <1>6, QuietKeepsOwned

\* A game that starts takes over whatever session runs, and has its supervisor.
LEMMA GameStartedOwns ==
  ASSUME GamingInv, OrderOK, OwnedOK, ~history'.replaced, NEW b \in Callbacks, GameStarted(b)
  PROVE  SessionOwned' /\ canceller' # None /\ \A k \in Contexts : ctx'[k] # "replaced"
<1>1. SessionOwned'
  BY DEF GameStarted, SessionOwned
<1>2. history'.replaced = StillReplaced
  BY DEF GameStarted, Heeded
<1>3. \A k \in Contexts : ctx[k] # "replaced"
  BY <1>2 DEF StillReplaced, OwnedOK
<1>4. /\ ctx \in [Contexts -> {"unused", "live", "ended", "replaced"}]
      /\ ctx' = ctx \/ \E k \in Contexts : ctx' = [ctx EXCEPT ![k] = "live"]
      /\ canceller' # None
  BY Disjoint DEF GamingInv, ServiceTypeOK, GameStarted
<1>5. QED
  BY <1>1, <1>3, <1>4

LEMMA NextKeepsOwned ==
  ASSUME GamingInv, UseOK, OrderOK, OwnedOK, [Next]_vars
  PROVE  OwnedOK'
<1> DEFINE Owned == /\ SessionOwned /\ (active => canceller # None)
                    /\ \A k \in Contexts : ctx[k] # "replaced"
<1> SUFFICES ASSUME ~history'.replaced
             PROVE  Owned'
  BY DEF OwnedOK
<1>0. /\ pc \in [Callers -> Places] /\ ctx \in [Contexts -> {"unused", "live", "ended", "replaced"}]
      /\ \A p \in Callbacks \cup Contexts : p \in Callers /\ p \notin Users
      /\ Users \subseteq Callers
      /\ history \in [ahead : 0 .. Len(reports), late : BOOLEAN, replaced : BOOLEAN]
  BY Disjoint DEF GamingInv, ServiceTypeOK, OrderOK
<1>1. ~history.replaced => Owned
  BY DEF OwnedOK
<1>2. CASE GameToggles \/ DropReport \/ UNCHANGED vars
  <2>1. UNCHANGED <<controlVars, active, canceller, gen, job, ctx, pc>>
    BY <1>2 DEF GameToggles, DropReport, vars, gamingVars, serviceVars
  <2>2. history'.replaced = history.replaced
    BY <1>0, <1>2 DEF GameToggles, DropReport, vars, gamingVars
  <2>3. QED
    BY <1>1, <2>1, <2>2, QuietKeepsOwned
<1>3. CASE SessionLost
  BY <1>1, <1>3, LostKeepsOwned DEF SessionLost, gamingVars
<1>4. ASSUME NEW d \in Detectors, Probe(d) \/ Judge(d) \/ Forget(d)
      PROVE  Owned'
  <2>1. UNCHANGED <<controlVars, active, canceller, gen, job, ctx, pc, history>>
    BY <1>4 DEF Probe, Judge, JudgeTelling, Forget, serviceVars
  <2>2. QED
    BY <1>1, <2>1, QuietKeepsOwned
<1>5. CASE Boot
  BY <1>5, ReconfiguringKeepsOwned, Disjoint DEF OwnedOK
<1>6. ASSUME NEW u \in Users,
             UserCalls(u) \/ SaveGamingMode(u) \/ EnableGaming(u) \/ DisableGaming(u)
      PROVE  Owned'
  <2>1. CASE EnableGaming(u) \/ DisableGaming(u)
    BY <2>1, ReconfiguringKeepsOwned DEF OwnedOK
  <2>2. CASE UserCalls(u) \/ SaveGamingMode(u)
    <3>1. /\ UNCHANGED <<controlVars, active, canceller, gen, job, ctx, history>>
          /\ pc' = pc \/ \E place : pc' = [pc EXCEPT ![u] = place]
      BY <2>2 DEF UserCalls, SaveGamingMode, Save, Goto, local, serviceVars
    <3>2. \A p \in Callbacks \cup Contexts : pc'[p] = pc[p]
      BY <1>0, <3>1
    <3>3. QED
      BY <1>1, <3>1, <3>2, QuietKeepsOwned
  <2>3. QED
    BY <1>6, <2>1, <2>2
<1>7. ASSUME NEW b \in Callbacks, Callback(b)
      PROVE  Owned'
  <2>1. CASE GameStarted(b)
    BY <2>1, GameStartedOwns
  <2>2. CASE GameEnded(b)
    <3>1. history'.replaced = history.replaced /\ active' = FALSE /\ ctx' = ctx
      BY <2>2 DEF GameEnded, Heeded
    <3>2. QED
      BY <1>1, <1>7, <3>1, CallbackKeepsOwned
  <2>3. CASE CancelSupervisor(b) \/ SpawnSupervisor(b)
    <3>1. UNCHANGED <<history, active, canceller>>
      BY <2>3 DEF CancelSupervisor, SpawnSupervisor, serviceVars
    <3>2. ctx' = ctx \/ \E k \in Contexts : ctx' = [ctx EXCEPT ![k] = "ended"]
      BY <2>3 DEF CancelSupervisor, SpawnSupervisor, GamingInv, ContextsOK
    <3>3. \A k \in Contexts : ctx'[k] # "replaced"
      BY <1>0, <1>1, <3>1, <3>2
    <3>4. QED
      BY <1>1, <1>7, <3>1, <3>3, CallbackKeepsOwned
  <2>4. QED
    BY <1>7, <2>1, <2>2, <2>3 DEF Callback
<1>8. ASSUME NEW k \in Contexts, Supervisor(k)
      PROVE  Owned'
  <2>1. ctx' = ctx \/ ctx' = [ctx EXCEPT ![k] = "unused"]
    BY <1>8 DEF Supervisor, SupervisorLeaves, SupervisorTicks, SupervisorWaits, SupervisorRestarts, local
  <2>2. UNCHANGED <<history, active, canceller>>
    BY <1>8 DEF Supervisor, SupervisorLeaves, SupervisorTicks, SupervisorWaits, SupervisorRestarts, local,
                serviceVars
  <2>3. \A j \in Contexts : ctx'[j] # "replaced"
    BY <1>0, <1>1, <2>1, <2>2
  <2>4. QED
    BY <1>1, <1>8, <2>2, <2>3, SupervisorKeepsOwned
<1>9. ASSUME NEW p \in Callers, EngineCall(p)
      PROVE  Owned'
  <2>1. UNCHANGED <<history, active, canceller, ctx>>
    BY <1>9, EngineMoves DEF local, serviceVars
  <2>2. QED
    BY <1>1, <1>9, <2>1, EngineKeepsOwned
<1>10. QED
  BY <1>2, <1>3, <1>4, <1>5, <1>6, <1>7, <1>8, <1>9 DEF Next

LEMMA OwnedInvariant == Spec => []OwnedOK
<1>1. Init => OwnedOK
  BY DEF Init, ControlInit, OwnedOK, SessionOwned
<1>2. GamingInv /\ UseOK /\ OrderOK /\ OwnedOK /\ [Next]_vars => OwnedOK'
  BY NextKeepsOwned
<1>3. QED
  BY GamingInvariant, UseInvariant, OrderInvariant, <1>1, <1>2, PTL DEF Spec

\* The half of EndedGameLeavesNoSession that no order of the callbacks breaks.
SettledLeavesNoSession ==
  Settled /\ ~active /\ ~history.replaced => ~(running /\ origin = "gaming")

\* Whatever the order in which the callbacks reach s.mu: once nothing is on its
\* way and the service holds that no game is on, no session of gaming mode's runs,
\* be it started, restarted or being undone when the game ended, unless a
\* reconfiguration took a game's supervisor from it.
THEOREM NoSessionWithoutGame == Spec => []SettledLeavesNoSession
<1>1. ASSUME ControlInv, OwnedOK PROVE SettledLeavesNoSession
  <2>1. SUFFICES ASSUME Settled, ~active, ~history.replaced, running, origin = "gaming"
                 PROVE  FALSE
    BY DEF SettledLeavesNoSession
  <2>2. step = "free" /\ SessionOwned
    BY <1>1, <2>1 DEF Settled, ControlInv, OwnedOK
  <2>3. \A p \in Callers : pc[p] \in {"idle", "none", "tick"}
    BY <2>1 DEF Settled
  <2>4. QED
    BY <2>1, <2>2, <2>3, Disjoint DEF SessionOwned, WillStop, WillUndo
<1>2. QED
  BY ControlInvariant, OwnedInvariant, <1>1, PTL

\* The end of a game, for callbacks in any order and any reconfiguration: once
\* everything has been dealt with, a session gaming mode started runs only while
\* the service holds that a game is on, and a game is.  What is left out is left
\* out by what has happened, not by assumption: a callback heeded out of turn, and
\* a reconfiguration during a game, which leaves its session alone
\* (service.go:1445).
THEOREM GameEndEndsSession == Spec => []EndedGameLeavesNoSession
<1>1. ServiceTypeOK /\ ActiveFollowsGame /\ SettledLeavesNoSession => EndedGameLeavesNoSession
  BY DEF ServiceTypeOK, ActiveFollowsGame, SettledLeavesNoSession, EndedGameLeavesNoSession
<1>2. GamingInv => ServiceTypeOK
  BY DEF GamingInv
<1>3. QED
  BY GamingInvariant, ActiveFollows, NoSessionWithoutGame, <1>1, <1>2, PTL

-----------------------------------------------------------------------------
(* Every context nobody has cancelled is watched.                          *)

\* A step that gives no context to be watched, takes no goroutine off one that
\* stays live, and begins no stop.
LEMMA SupervisedKept ==
  ASSUME SupervisedOK,
         \A k \in Contexts : ctx'[k] = "live" =>
           ctx[k] = "live" /\ (pc[k] # "none" => pc'[k] # "none"),
         \A b \in Callbacks : /\ pc[b] # "idle" /\ job[b].super # None =>
                                   pc'[b] # "idle" /\ job'[b].super = job[b].super
                              /\ pc'[b] \in {"cancel", "stop"} =>
                                   pc[b] \in {"cancel", "stop"} /\ job'[b].super = job[b].super
  PROVE  SupervisedOK'
<1>1. ASSUME NEW k \in Contexts, ctx'[k] = "live"
      PROVE  pc'[k] # "none" \/ \E b \in Callbacks : pc'[b] # "idle" /\ job'[b].super = k
  BY <1>1, Disjoint DEF SupervisedOK, LiveIsSupervised
<1>2. \A b \in Callbacks : pc'[b] \in {"cancel", "stop"} => job'[b].super = None
  BY DEF SupervisedOK
<1>3. QED
  BY <1>1, <1>2 DEF SupervisedOK, LiveIsSupervised

\* A callback's call to the engine does not end it while it has a supervisor to
\* spawn.
LEMMA EngineKeepsCallback ==
  ASSUME GamingInv, UseOK, SupervisedOK, NEW b \in Callbacks, EngineCall(b), pc'[b] = "idle"
  PROVE  job[b].super = None
<1> USE DEF Goto, Leave, local
<1>0. pc \in [Callers -> Places] /\ b \in Callers /\ b \notin Users /\ b \notin Contexts
  BY Disjoint DEF GamingInv, ServiceTypeOK
<1>1. /\ AfterStart(b) = "idle" => job[b].super = None
      /\ AfterStop(b) = "idle" => job[b].super = None
  BY <1>0 DEF AfterStart, AfterStop, Spawning
<1>2. CASE StartBegins(b) \/ StartReturns(b)
  BY <1>0, <1>2 DEF StartBegins, StartReturns
<1>3. CASE StartLaunches(b) \/ StopClears(b)
  BY <1>0, <1>3 DEF StartLaunches, StopClears, gamingVars
<1>4. CASE StartRefused(b) \/ StartFails(b)
  BY <1>0, <1>1, <1>4 DEF StartRefused, StartFails
<1>5. CASE StartChecked(b)
  BY <1>0, <1>1, <1>5 DEF StartChecked, Check
<1>6. CASE StartUndone(b)
  BY <1>0, <1>1, <1>6 DEF StartUndone, Undo
<1>7. CASE StopBegins(b)
  BY <1>7 DEF StopBegins, SupervisedOK
<1>8. CASE StopReturns(b)
  BY <1>0, <1>1, <1>8 DEF StopReturns
<1>9. QED
  BY <1>2, <1>3, <1>4, <1>5, <1>6, <1>7, <1>8 DEF EngineCall

LEMMA EngineKeepsSupervised ==
  ASSUME GamingInv, UseOK, SupervisedOK, NEW p \in Callers, EngineCall(p)
  PROVE  SupervisedOK'
<1>1. /\ ctx' = ctx /\ pc \in [Callers -> Places] /\ job \in [Callbacks -> JobOK]
      /\ \E place \in {"idle", "spawn", "tick", "gone", "starting", "check", "undo", "stopping"} :
           pc' = [pc EXCEPT ![p] = place]
      /\ job' = job \/ (p \in Callbacks /\ job' = [job EXCEPT ![p] = NoJob])
  BY EngineMoves DEF local, GamingInv, ServiceTypeOK, JobOK
<1>2. /\ \A q \in Callers \ {p} : pc'[q] = pc[q]
      /\ pc'[p] \in {"idle", "spawn", "tick", "gone", "starting", "check", "undo", "stopping"}
      /\ \A c \in Callbacks \ {p} : job'[c] = job[c]
  BY <1>1
<1>3. \A k \in Contexts : pc[k] # "none" => pc'[k] # "none"
  BY <1>1, <1>2, Disjoint
<1>4. ASSUME NEW b \in Callbacks
      PROVE  /\ pc[b] # "idle" /\ job[b].super # None =>
                  pc'[b] # "idle" /\ job'[b].super = job[b].super
             /\ pc'[b] \in {"cancel", "stop"} =>
                  pc[b] \in {"cancel", "stop"} /\ job'[b].super = job[b].super
  <2>1. CASE b = p
    <3>1. pc'[b] # "idle" => job' = job
      BY <1>1, <2>1, EngineMovesCallback
    <3>2. pc'[b] = "idle" => job[b].super = None
      BY <2>1, EngineKeepsCallback
    <3>3. QED
      BY <1>2, <2>1, <3>1, <3>2
  <2>2. CASE b # p
    BY <1>2, <2>2, Disjoint
  <2>3. QED
    BY <2>1, <2>2
<1>5. QED
  BY <1>1, <1>3, <1>4, SupervisedKept

\* A replaced detector's supervisor is told to go, and the new one starts to
\* watch at once.
LEMMA InitGamingKeepsSupervised ==
  ASSUME GamingInv, SupervisedOK, NEW u \in Users, InitGaming(u), job' = job
  PROVE  SupervisedOK'
<1>1. /\ pc \in [Callers -> Places] /\ u \in Callers /\ u \notin Contexts /\ u \notin Callbacks
      /\ ReplacedCtx \in [Contexts -> {"unused", "live", "ended", "replaced"}]
      /\ \A k \in Contexts : ReplacedCtx[k] = "live" => ctx[k] = "live"
  BY Disjoint, ReplacedContexts DEF GamingInv, ServiceTypeOK
<1>2. CASE ctx' = ReplacedCtx /\ pc' = [pc EXCEPT ![u] = "idle"]
  BY <1>1, <1>2, SupervisedKept, Disjoint
<1>3. ASSUME NEW k \in Contexts, ctx' = [ReplacedCtx EXCEPT ![k] = "live"],
             pc' = [pc EXCEPT ![u] = "idle", ![k] = "tick"]
      PROVE  SupervisedOK'
  <2>1. /\ pc'[k] = "tick" /\ \A p \in Callers \ {u, k} : pc'[p] = pc[p]
        /\ \A j \in Contexts \ {k} : ctx'[j] = ReplacedCtx[j]
        /\ \A c \in Callbacks : pc'[c] = pc[c]
    BY <1>1, <1>3, Disjoint
  <2>2. ASSUME NEW j \in Contexts, ctx'[j] = "live"
        PROVE  pc'[j] # "none" \/ \E b \in Callbacks : pc'[b] # "idle" /\ job'[b].super = j
    <3>1. CASE j = k
      BY <2>1, <3>1
    <3>2. CASE j # k
      <4>1. ctx[j] = "live" /\ pc'[j] = pc[j]
        BY <1>1, <2>1, <2>2, <3>2, Disjoint
      <4>2. QED
        BY <2>1, <4>1 DEF SupervisedOK, LiveIsSupervised
    <3>3. QED
      BY <3>1, <3>2
  <2>3. \A b \in Callbacks : pc'[b] \in {"cancel", "stop"} => job'[b].super = None
    BY <2>1 DEF SupervisedOK
  <2>4. QED
    BY <2>2, <2>3 DEF SupervisedOK, LiveIsSupervised
<1>4. QED
  BY <1>2, <1>3 DEF InitGaming, Goto

\* A callback makes a context and keeps it until it spawns the supervisor; the
\* one that cancels has none.
LEMMA CallbackKeepsSupervised ==
  ASSUME GamingInv, UseOK, SupervisedOK, NEW b \in Callbacks, Callback(b)
  PROVE  SupervisedOK'
<1>1. /\ pc \in [Callers -> Places] /\ b \in Callers /\ b \notin Contexts
      /\ job \in [Callbacks -> JobOK] /\ ctx \in [Contexts -> {"unused", "live", "ended", "replaced"}]
      /\ CallbackUse(b)
  BY Disjoint DEF GamingInv, ServiceTypeOK, JobOK, UseOK
<1>2. CASE GameStarted(b)
  <2>1. /\ pc[b] = "idle"
        /\ \/ /\ \E k \in Contexts :
                   /\ ctx' = [ctx EXCEPT ![k] = "live"]
                   /\ job' = [job EXCEPT ![b] = [NoJob EXCEPT !.super = k]]
           \/ job' = [job EXCEPT ![b] = NoJob] /\ ctx' = ctx
        /\ pc' = [pc EXCEPT ![b] = IF active THEN Spawning(job'[b]) ELSE "start"]
    BY <1>2 DEF GameStarted, Goto
  <2>2. /\ \A p \in Callers \ {b} : pc'[p] = pc[p]
        /\ \A c \in Callbacks \ {b} : pc'[c] = pc[c] /\ job'[c] = job[c]
        /\ \A k \in Contexts : pc'[k] = pc[k]
    BY <1>1, <2>1, Disjoint
  <2>3. pc'[b] \notin {"cancel", "stop"} /\ (pc'[b] = "idle" => job'[b].super = None)
    BY <1>1, <2>1 DEF Spawning
  <2>4. ASSUME NEW k \in Contexts, ctx'[k] = "live", ctx[k] # "live"
        PROVE  job'[b].super = k
    <3>1. job'[b] = [NoJob EXCEPT !.super = k]
      BY <1>1, <2>1, <2>4
    <3>2. QED
      BY <3>1 DEF NoJob
  <2>5. ASSUME NEW k \in Contexts, ctx'[k] = "live"
        PROVE  pc'[k] # "none" \/ \E c \in Callbacks : pc'[c] # "idle" /\ job'[c].super = k
    <3>1. CASE ctx[k] = "live"
      BY <2>1, <2>2, <3>1 DEF SupervisedOK, LiveIsSupervised
    <3>2. CASE ctx[k] # "live"
      BY <2>3, <2>4, <2>5, <3>2, Disjoint
    <3>3. QED
      BY <3>1, <3>2
  <2>6. ASSUME NEW c \in Callbacks, pc'[c] \in {"cancel", "stop"} PROVE job'[c].super = None
    BY <2>2, <2>3, <2>6 DEF SupervisedOK
  <2>7. QED
    BY <2>5, <2>6 DEF SupervisedOK, LiveIsSupervised
<1>3. CASE GameEnded(b)
  <2>1. /\ pc[b] = "idle" /\ ctx' = ctx
        /\ job' = [job EXCEPT ![b] = [super |-> None, stop |-> active, cancels |-> canceller]]
        /\ \E place : pc' = [pc EXCEPT ![b] = place]
    BY <1>3 DEF GameEnded, Goto
  <2>2. /\ job'[b].super = None
        /\ \A c \in Callbacks \ {b} : pc'[c] = pc[c] /\ job'[c] = job[c]
        /\ \A k \in Contexts : pc'[k] = pc[k]
    BY <1>1, <2>1, Disjoint
  <2>3. ASSUME NEW k \in Contexts, ctx'[k] = "live"
        PROVE  pc'[k] # "none" \/ \E c \in Callbacks : pc'[c] # "idle" /\ job'[c].super = k
    BY <2>1, <2>2, <2>3 DEF SupervisedOK, LiveIsSupervised
  <2>4. ASSUME NEW c \in Callbacks, pc'[c] \in {"cancel", "stop"} PROVE job'[c].super = None
    BY <2>2, <2>4 DEF SupervisedOK
  <2>5. QED
    BY <2>3, <2>4 DEF SupervisedOK, LiveIsSupervised
<1>4. CASE CancelSupervisor(b)
  <2>1. /\ pc[b] = "cancel" /\ job[b].super = None
        /\ ctx' = [ctx EXCEPT ![job[b].cancels] = "ended"]
        /\ \/ pc' = [pc EXCEPT ![b] = "stop"] /\ job' = job
           \/ pc' = [pc EXCEPT ![b] = "idle"] /\ job' = [job EXCEPT ![b] = NoJob]
    BY <1>4 DEF CancelSupervisor, Leave, Goto, SupervisedOK
  <2>2. /\ \A k \in Contexts : pc'[k] = pc[k] /\ (ctx'[k] = "live" => ctx[k] = "live")
        /\ \A c \in Callbacks \ {b} : pc'[c] = pc[c] /\ job'[c] = job[c]
        /\ pc'[b] = "idle" \/ (pc'[b] = "stop" /\ job'[b] = job[b])
    BY <1>1, <2>1, Disjoint
  <2>3. QED
    BY <2>1, <2>2, SupervisedKept
<1>5. CASE SpawnSupervisor(b)
  <2>1. /\ pc[b] = "spawn" /\ job' = job /\ ctx' = ctx /\ job[b].super \in Contexts
        /\ pc' = [pc EXCEPT ![b] = "idle", ![job[b].super] = "tick"]
    BY <1>1, <1>5, Disjoint DEF SpawnSupervisor, CallbackUse, JobOK
  <2>2. /\ pc'[job[b].super] = "tick" /\ pc'[b] = "idle"
        /\ \A p \in Callers \ {b, job[b].super} : pc'[p] = pc[p]
        /\ \A c \in Callbacks \ {b} : pc'[c] = pc[c]
    BY <1>1, <2>1, Disjoint
  <2>3. ASSUME NEW k \in Contexts, ctx'[k] = "live"
        PROVE  pc'[k] # "none" \/ \E c \in Callbacks : pc'[c] # "idle" /\ job'[c].super = k
    <3>1. CASE k = job[b].super
      BY <2>2, <3>1
    <3>2. CASE k # job[b].super
      <4>1. pc'[k] = pc[k] /\ ctx[k] = "live"
        BY <1>1, <2>1, <2>2, <2>3, <3>2, Disjoint
      <4>2. QED
        BY <2>1, <2>2, <3>2, <4>1 DEF SupervisedOK, LiveIsSupervised
    <3>3. QED
      BY <3>1, <3>2
  <2>4. \A c \in Callbacks : pc'[c] \in {"cancel", "stop"} => job'[c].super = None
    BY <2>1, <2>2 DEF SupervisedOK
  <2>5. QED
    BY <2>3, <2>4 DEF SupervisedOK, LiveIsSupervised
<1>6. QED
  BY <1>2, <1>3, <1>4, <1>5 DEF Callback

\* A supervisor leaves a context only when it is no longer live.
LEMMA SupervisorKeepsSupervised ==
  ASSUME GamingInv, SupervisedOK, NEW j \in Contexts, Supervisor(j)
  PROVE  SupervisedOK'
<1>1. /\ pc \in [Callers -> Places] /\ j \in Callers /\ j \notin Callbacks
      /\ ctx \in [Contexts -> {"unused", "live", "ended", "replaced"}]
  BY Disjoint DEF GamingInv, ServiceTypeOK
<1>2. /\ job' = job
      /\ \/ /\ ctx' = ctx
            /\ pc' = pc \/ \E place \in {"tick", "look", "start"} : pc' = [pc EXCEPT ![j] = place]
         \/ ctx' = [ctx EXCEPT ![j] = "unused"] /\ pc' = [pc EXCEPT ![j] = "none"]
  BY DEF Supervisor, SupervisorLeaves, SupervisorTicks, SupervisorWaits, SupervisorRestarts, Goto, local
<1>3. \A k \in Contexts : ctx'[k] = "live" =>
        ctx[k] = "live" /\ (pc[k] # "none" => pc'[k] # "none")
  BY <1>1, <1>2, Disjoint
<1>4. \A b \in Callbacks : pc'[b] = pc[b]
  BY <1>1, <1>2, Disjoint
<1>5. QED
  BY <1>2, <1>3, <1>4, SupervisedKept

LEMMA NextKeepsSupervised ==
  ASSUME GamingInv, UseOK, SupervisedOK, [Next]_vars
  PROVE  SupervisedOK'
<1>0. pc \in [Callers -> Places] /\ \A q \in Callbacks \cup Contexts : q \in Callers /\ q \notin Users
  BY Disjoint DEF GamingInv, ServiceTypeOK
<1>1. CASE GameToggles \/ SessionLost \/ DropReport \/ UNCHANGED vars
  BY <1>1, SupervisedKept DEF GameToggles, SessionLost, DropReport, vars, gamingVars
<1>2. CASE Boot
  BY <1>2, InitGamingKeepsSupervised, Disjoint DEF Boot
<1>3. ASSUME NEW d \in Detectors, Probe(d) \/ Judge(d) \/ Forget(d)
      PROVE  SupervisedOK'
  BY <1>3, SupervisedKept DEF Probe, Judge, JudgeTelling, Forget
<1>4. ASSUME NEW u \in Users,
             UserCalls(u) \/ SaveGamingMode(u) \/ EnableGaming(u) \/ DisableGaming(u)
      PROVE  SupervisedOK'
  <2>1. CASE EnableGaming(u)
    BY <2>1, InitGamingKeepsSupervised DEF EnableGaming
  <2>2. CASE UserCalls(u) \/ SaveGamingMode(u)
    <3>1. /\ UNCHANGED <<job, ctx>>
          /\ pc' = pc \/ \E place : pc' = [pc EXCEPT ![u] = place]
      BY <2>2 DEF UserCalls, SaveGamingMode, Save, Goto, local
    <3>2. \A q \in Callbacks \cup Contexts : pc'[q] = pc[q]
      BY <1>0, <3>1
    <3>3. QED
      BY <3>1, <3>2, SupervisedKept
  <2>3. CASE DisableGaming(u)
    <3>1. job' = job /\ ctx' = ReplacedCtx /\ pc' = [pc EXCEPT ![u] = "idle"]
      BY <2>3 DEF DisableGaming, Disable, Goto
    <3>2. \A q \in Callbacks \cup Contexts : pc'[q] = pc[q]
      BY <1>0, <3>1
    <3>3. \A k \in Contexts : ReplacedCtx[k] = "live" => ctx[k] = "live"
      BY ReplacedContexts, Disjoint
    <3>4. QED
      BY <3>1, <3>2, <3>3, SupervisedKept
  <2>4. QED
    BY <1>4, <2>1, <2>2, <2>3
<1>5. ASSUME NEW b \in Callbacks, Callback(b)
      PROVE  SupervisedOK'
  BY <1>5, CallbackKeepsSupervised
<1>6. ASSUME NEW k \in Contexts, Supervisor(k)
      PROVE  SupervisedOK'
  BY <1>6, SupervisorKeepsSupervised
<1>7. ASSUME NEW p \in Callers, EngineCall(p)
      PROVE  SupervisedOK'
  BY <1>7, EngineKeepsSupervised
<1>8. QED
  BY <1>1, <1>2, <1>3, <1>4, <1>5, <1>6, <1>7 DEF Next

\* A game is never left without its supervisor, for callbacks in any order and
\* however often gaming mode is reconfigured: what is true of a lost session at
\* every moment for it to come back at last (LostSessionComesBack).
THEOREM LiveContextsAreWatched == Spec => []LiveIsSupervised
<1>1. Init => SupervisedOK
  BY Disjoint DEF Init, SupervisedOK, LiveIsSupervised
<1>2. GamingInv /\ UseOK /\ SupervisedOK /\ [Next]_vars => SupervisedOK'
  BY NextKeepsSupervised
<1>3. SupervisedOK => LiveIsSupervised
  BY DEF SupervisedOK
<1>4. QED
  BY GamingInvariant, UseInvariant, <1>1, <1>2, <1>3, PTL DEF Spec
=============================================================================
