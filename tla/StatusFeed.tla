------------------------------- MODULE StatusFeed -------------------------------
(***************************************************************************)
(* What the daemon promises a tray about the bridge: whenever what it      *)
(* records changes a signal follows, signals go out one at a time, each    *)
(* says what was recorded when it was begun, and one begun before a later  *)
(* change is followed by another (backend/internal/dbus/service.go,        *)
(* emitConnectionState).  BridgeStatus implements it; TrayPanel is what    *)
(* the tray makes of it.                                                   *)
(***************************************************************************)
VARIABLES
  connected,   \* what the daemon records
  observed,    \* changes are signalled from now on
  owed,        \* a change has not been signalled
  carrying,    \* what the signal on its way says, if there is one
  lastSignal   \* what the last signal said, if there was one

feed == <<connected, observed, owed, carrying, lastSignal>>

FeedTypeOK ==
  /\ connected \in BOOLEAN /\ observed \in BOOLEAN /\ owed \in BOOLEAN
  /\ carrying \in {{}} \cup {{b} : b \in BOOLEAN}
  /\ lastSignal \in {{}} \cup {{b} : b \in BOOLEAN}

FeedInit ==
  /\ connected \in BOOLEAN /\ observed = FALSE
  /\ owed = FALSE /\ carrying = {} /\ lastSignal = {}

Watched ==
  /\ ~observed /\ observed' = TRUE
  /\ UNCHANGED <<connected, owed, carrying, lastSignal>>

Changes ==
  /\ connected' = ~connected
  /\ owed' = (owed \/ observed)
  /\ UNCHANGED <<observed, carrying, lastSignal>>

\* Two changes may be signalled twice over.
SignalBegins ==
  /\ owed /\ carrying = {}
  /\ carrying' = {connected} /\ owed' \in BOOLEAN
  /\ UNCHANGED <<connected, observed, lastSignal>>

SignalSent ==
  /\ carrying # {}
  /\ lastSignal' = carrying /\ carrying' = {}
  /\ UNCHANGED <<connected, observed, owed>>

FeedNext == Watched \/ Changes \/ SignalBegins \/ SignalSent

FeedSpec == FeedInit /\ [][FeedNext]_feed

\* A change is signalled in the end.
FeedFairSpec == FeedSpec /\ WF_feed(Watched) /\ WF_feed(SignalBegins \/ SignalSent)
=============================================================================
