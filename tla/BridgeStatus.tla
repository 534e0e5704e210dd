------------------------------ MODULE BridgeStatus ------------------------------
(***************************************************************************)
(* Whether the bridge answers, as the daemon records and signals it: the   *)
(* outcome every bridge call records (backend/internal/hue/client.go), the *)
(* signal a change puts on the bus and the supervisor that re-checks a     *)
(* bridge recorded unreachable (backend/internal/dbus/service.go).         *)
(*                                                                         *)
(* A call hears the bridge, records what it heard and tells the observer   *)
(* in separate steps, so an outcome may be recorded after the bridge, or   *)
(* what another call recorded, has changed.                                *)
(***************************************************************************)
CONSTANTS
  Callers,      \* goroutines that serve method calls
  Supervisor,   \* superviseBridgeReachability
  NoOne

Processes == Callers \cup {Supervisor}

ASSUME BridgeAssumption == Supervisor \notin Callers /\ NoOne \notin Processes

\* GetScenes lists the rooms too; Ping and IsReachable ask for the bridge
\* itself; the calls for lights record no failure.
Kinds == {"scenes", "activate", "lights", "check"}

VARIABLES
  up,          \* the bridge answers, and in time
  \* hue.Client
  connected,   \* connStatus.Connected
  observed,    \* connObserver is set
  at,          \* where each process is
  kind,        \* the call it makes
  verdict,     \* what the answer says of the bridge
  \* dbus.Service
  emitter,     \* who holds emitMu
  snap,        \* the status its emission has read
  lastSignal   \* history: what the last signal on the bus says, if there is one

calls == <<at, kind, verdict>>
emission == <<emitter, snap, lastSignal>>
vars == <<up, connected, observed, calls, emission>>

TypeOK ==
  /\ up \in BOOLEAN /\ connected \in BOOLEAN /\ observed \in BOOLEAN
  /\ at \in [Processes -> {"idle", "asked", "heard", "noticed", "emitting"}]
  /\ kind \in [Processes -> Kinds] /\ verdict \in [Processes -> {"answered", "gone", "unsaid"}]
  /\ emitter \in Processes \cup {NoOne} /\ snap \in BOOLEAN
  /\ lastSignal \in SUBSET BOOLEAN

\* NewClient has recorded its first check.
Init ==
  /\ up \in BOOLEAN /\ connected = up /\ observed = FALSE
  /\ at = [p \in Processes |-> "idle"] /\ kind = [p \in Processes |-> "check"]
  /\ verdict = [p \in Processes |-> "unsaid"]
  /\ emitter = NoOne /\ snap = FALSE /\ lastSignal = {}

-----------------------------------------------------------------------------
(* The bridge and the calls to it.                                         *)

BridgeFlips ==
  /\ up' = ~up
  /\ UNCHANGED <<connected, observed, calls, emission>>

\* startBridgeSupervisor, after the name is taken and calls can come in.
ObserverSet ==
  /\ ~observed
  /\ observed' = TRUE
  /\ UNCHANGED <<up, connected, calls, emission>>

Asks(p, k) ==
  /\ at[p] = "idle"
  /\ at' = [at EXCEPT ![p] = "asked"] /\ kind' = [kind EXCEPT ![p] = k]
  /\ UNCHANGED <<up, connected, observed, verdict, emission>>

\* Mutant: the check is made of a bridge recorded reachable.
SupervisesReachable == observed /\ connected /\ Asks(Supervisor, "check")

\* superviseBridgeReachability, at a tick.
Supervises == observed /\ ~connected /\ Asks(Supervisor, "check")

\* A bridge that is up takes the key, and may refuse what a call names.
Answers(k) ==
  IF ~up THEN {"none"} ELSE IF k \in {"activate", "lights"} THEN {"ok", "refused"} ELSE {"ok"}

Verdict(k, answer) ==
  CASE answer = "ok" -> "answered"
    [] k = "lights" /\ answer # "ok" -> "unsaid"
    [] k = "activate" /\ answer = "refused" -> "answered"
    [] OTHER -> "gone"

Hears(p) ==
  /\ at[p] = "asked"
  /\ \E answer \in Answers(kind[p]) : verdict' = [verdict EXCEPT ![p] = Verdict(kind[p], answer)]
  /\ at' = [at EXCEPT ![p] = "heard"]
  /\ UNCHANGED <<up, connected, observed, kind, emission>>

\* GetScenes that got the scenes goes on to resolve the rooms.
Moves(p) ==
  LET rooms == kind[p] = "scenes" /\ verdict[p] = "answered" IN
  /\ at' = [at EXCEPT ![p] = IF rooms THEN "asked" ELSE "idle"]
  /\ kind' = [kind EXCEPT ![p] = IF rooms THEN "lights" ELSE "check"]
  /\ verdict' = [verdict EXCEPT ![p] = "unsaid"]

Unsaid(p) ==
  /\ at[p] = "heard" /\ verdict[p] = "unsaid"
  /\ Moves(p)
  /\ UNCHANGED <<up, connected, observed, emission>>

\* Mutant: the observer is only told that the bridge is gone.
RecordsLossOnly(p) ==
  /\ at[p] = "heard" /\ verdict[p] # "unsaid"
  /\ connected' = (verdict[p] = "answered")
  /\ IF observed /\ connected /\ ~connected'
     THEN at' = [at EXCEPT ![p] = "noticed"] /\ UNCHANGED <<kind, verdict>>
     ELSE Moves(p)
  /\ UNCHANGED <<up, observed, emission>>

\* setConnectionState: the observer hears of a change, outside the lock.
Records(p) ==
  /\ at[p] = "heard" /\ verdict[p] # "unsaid"
  /\ connected' = (verdict[p] = "answered")
  /\ IF observed /\ connected' # connected
     THEN at' = [at EXCEPT ![p] = "noticed"] /\ UNCHANGED <<kind, verdict>>
     ELSE Moves(p)
  /\ UNCHANGED <<up, observed, emission>>

-----------------------------------------------------------------------------
(* emitConnectionState.                                                    *)

\* Mutant: the status is read before emitMu is taken, for whoever emits.
EmissionReadEarly(p) ==
  /\ at[p] = "noticed" /\ emitter = NoOne
  /\ emitter' = p /\ snap' = (verdict[p] = "answered")
  /\ at' = [at EXCEPT ![p] = "emitting"]
  /\ UNCHANGED <<up, connected, observed, kind, verdict, lastSignal>>

\* emitMu is taken before the status is read.
EmissionBegins(p) ==
  /\ at[p] = "noticed" /\ emitter = NoOne
  /\ emitter' = p /\ snap' = connected
  /\ at' = [at EXCEPT ![p] = "emitting"]
  /\ UNCHANGED <<up, connected, observed, kind, verdict, lastSignal>>

EmissionSent(p) ==
  /\ at[p] = "emitting"
  /\ lastSignal' = {snap} /\ snap' = FALSE /\ emitter' = NoOne
  /\ Moves(p)
  /\ UNCHANGED <<up, connected, observed>>

-----------------------------------------------------------------------------
Step(p) == Hears(p) \/ Unsaid(p) \/ Records(p) \/ EmissionBegins(p) \/ EmissionSent(p)

Next ==
  \/ BridgeFlips \/ ObserverSet \/ Supervises
  \/ \E p \in Callers, k \in Kinds : Asks(p, k)
  \/ \E p \in Processes : Step(p)

Spec == Init /\ [][Next]_vars

\* The supervisor's timer fires, and a call that has been made ends: the HTTP
\* client has timeouts, and godbus takes a signal.  Nobody has to call, and
\* the bridge comes and goes.
Fairness ==
  /\ WF_vars(ObserverSet) /\ WF_vars(Supervises)
  /\ \A p \in Processes : WF_vars(Step(p))

FairSpec == Spec /\ Fairness

-----------------------------------------------------------------------------
(* Properties.                                                             *)

Owed == \E p \in Processes : at[p] = "noticed"

\* emitConnectionState: "the last signal a tray receives always carries the
\* state the bridge is actually in".  Once every change has been signalled,
\* the last signal agrees with what is recorded, however the calls raced.
LastSignalIsRecorded == ~Owed /\ emitter = NoOne => lastSignal \subseteq {connected}

\* superviseBridgeReachability: a bridge that stays up is in the end recorded
\* reachable for good, though calls that heard otherwise record it late and
\* nobody calls again.
RecordedRecovers == <>[]up => <>[]connected

\* The calls, the client and the service together are the feed that
\* TrayPanel relies on: no change goes unsignalled, no signal is out of date
\* when it is begun.
Feed == INSTANCE StatusFeed WITH
  owed <- Owed, carrying <- IF emitter = NoOne THEN {} ELSE {snap}
ImplementsFeed == Feed!FeedFairSpec

-----------------------------------------------------------------------------
(* The inductive invariant (proved in BridgeStatus_proofs): emitMu has one *)
(* holder, and unless a change is still to be signalled the emission under *)
(* way, or else the last one, has read what is recorded.                   *)

EmissionOK ==
  /\ \A p \in Processes : at[p] = "emitting" <=> emitter = p
  /\ Owed \/ emitter # NoOne \/ lastSignal # {} => observed
  /\ ~Owed => IF emitter = NoOne THEN lastSignal \subseteq {connected} ELSE snap = connected

BridgeInv == TypeOK /\ EmissionOK
=============================================================================
