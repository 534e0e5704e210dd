------------------------------- MODULE TrayPanel -------------------------------
(***************************************************************************)
(* The bridge status as the tray panel shows it (trayapp/main.cpp): the    *)
(* signals of StatusFeed, the polls and refreshes whose replies were read  *)
(* some time before they apply, and the user's retries.  The refresh button*)
(* and the refreshes after a write send the same calls and are left out.   *)
(* The backend is on the bus throughout.                                   *)
(***************************************************************************)
EXTENDS StatusFeed, Naturals, Sequences

CONSTANT MaxUnread  \* bound: signals the panel has not handled

ASSUME PanelAssumption == MaxUnread \in Nat

\* Calls the panel has at most one of under way.
Jobs == {"poll", "refresh", "retry"}

VARIABLES
  inbox,     \* signals and replies the panel has not handled, in order
  visible,
  polling,   \* connectionTimer runs
  shown,     \* connectionState
  job,       \* where each of the calls is
  reading,   \* the status it has read
  queued     \* refreshQueued

panel == <<inbox, visible, polling, shown, job, reading, queued>>
vars == <<feed, panel>>

TypeOK ==
  /\ FeedTypeOK
  /\ inbox \in Seq([what : {"signal"} \cup Jobs, connected : BOOLEAN])
  /\ visible \in BOOLEAN /\ polling \in BOOLEAN
  /\ shown \in {"CONNECTING", "CONNECTED", "ERROR"}
  /\ job \in [Jobs -> {"none", "asked", "read", "sent", "held"}]
  /\ reading \in [Jobs -> BOOLEAN] /\ queued \in BOOLEAN

\* The panel has been made, hidden and polling, and asks for its first refresh.
Init ==
  /\ FeedInit
  /\ inbox = <<>> /\ visible = FALSE /\ polling = TRUE /\ shown = "CONNECTED"
  /\ job = [j \in Jobs |-> IF j = "refresh" THEN "asked" ELSE "none"]
  /\ reading = [j \in Jobs |-> FALSE] /\ queued = FALSE

-----------------------------------------------------------------------------
(* What the daemon sends.                                                  *)

FeedStep ==
  /\ Watched \/ Changes \/ SignalBegins
  /\ UNCHANGED panel

Unread == Len(SelectSeq(inbox, LAMBDA m : m.what = "signal"))

SignalArrives ==
  /\ SignalSent
  /\ Unread < MaxUnread
  /\ \E b \in carrying : inbox' = Append(inbox, [what |-> "signal", connected |-> b])
  /\ UNCHANGED <<visible, polling, shown, job, reading, queued>>

\* GetConnectionStatus reads what is recorded, and so does the check of
\* RetryConnection once it has recorded its outcome; the reply is sent later.
StatusRead(j) ==
  /\ job[j] = "asked"
  /\ job' = [job EXCEPT ![j] = "read"]
  /\ reading' = [reading EXCEPT ![j] = connected]
  /\ UNCHANGED <<feed, inbox, visible, polling, shown, queued>>

StatusReplied(j) ==
  /\ job[j] = "read"
  /\ job' = [job EXCEPT ![j] = "sent"]
  /\ inbox' = Append(inbox, [what |-> j, connected |-> reading[j]])
  /\ UNCHANGED <<feed, visible, polling, shown, reading, queued>>

-----------------------------------------------------------------------------
(* The panel, one event at a time.                                         *)

\* applyConnectionStatus shows the status and says whether the bridge is back.
Shows(b) == shown' = IF b THEN "CONNECTED" ELSE "ERROR"
BackAgain(b) == b /\ shown = "ERROR"

\* A call that has been applied is forgotten.
Ends(j) == [job EXCEPT ![j] = "none"]
Forgets(j) == reading' = [reading EXCEPT ![j] = FALSE]

\* refresh: one at a time, and one more after it if asked for meanwhile.
RefreshAsked(jobNow) ==
  IF jobNow["refresh"] = "none"
  THEN job' = [jobNow EXCEPT !["refresh"] = "asked"] /\ UNCHANGED queued
  ELSE job' = jobNow /\ queued' = TRUE

RefreshIf(back, jobNow) == IF back THEN RefreshAsked(jobNow) ELSE job' = jobNow /\ UNCHANGED queued

Message == Head(inbox)

\* onConnectionStateChanged.
HearsSignal ==
  /\ inbox # <<>> /\ Message.what = "signal"
  /\ inbox' = Tail(inbox)
  /\ Shows(Message.connected) /\ RefreshIf(BackAgain(Message.connected), job)
  /\ UNCHANGED <<feed, visible, polling, reading>>

\* retryConnection's answer.
HearsRetried ==
  /\ inbox # <<>> /\ Message.what = "retry"
  /\ inbox' = Tail(inbox)
  /\ Shows(Message.connected) /\ RefreshIf(Message.connected, Ends("retry"))
  /\ Forgets("retry")
  /\ UNCHANGED <<feed, visible, polling>>

\* A status reply waits for the other replies of its poll or refresh.
HearsStatus ==
  /\ inbox # <<>> /\ Message.what \in {"poll", "refresh"}
  /\ inbox' = Tail(inbox)
  /\ job' = [job EXCEPT ![Message.what] = "held"]
  /\ UNCHANGED <<feed, visible, polling, shown, reading, queued>>

PollTick ==
  /\ polling /\ job["poll"] = "none"
  /\ job' = [job EXCEPT !["poll"] = "asked"]
  /\ UNCHANGED <<feed, inbox, visible, polling, shown, reading, queued>>

\* Mutant: a poll that finds the bridge back returns with pollPending set.
PollLeftPending ==
  /\ job["poll"] = "held"
  /\ Shows(reading["poll"]) /\ Forgets("poll")
  /\ IF BackAgain(reading["poll"])
     THEN RefreshAsked([job EXCEPT !["poll"] = "sent"])
     ELSE job' = Ends("poll") /\ UNCHANGED queued
  /\ UNCHANGED <<feed, inbox, visible, polling>>

\* pollStatus, once all its replies have come.
PollApplied ==
  /\ job["poll"] = "held"
  /\ Shows(reading["poll"]) /\ Forgets("poll")
  /\ RefreshIf(BackAgain(reading["poll"]), Ends("poll"))
  /\ UNCHANGED <<feed, inbox, visible, polling>>

\* refresh, once the slowest of its replies, GetScenes, has come.
RefreshApplied ==
  /\ job["refresh"] = "held"
  /\ Shows(reading["refresh"]) /\ Forgets("refresh")
  /\ job' = [job EXCEPT !["refresh"] = IF queued THEN "asked" ELSE "none"]
  /\ queued' = FALSE
  /\ UNCHANGED <<feed, inbox, visible, polling>>

\* showEvent and hideEvent.
Opened ==
  /\ ~visible
  /\ visible' = TRUE /\ polling' = TRUE
  /\ RefreshAsked(job)
  /\ UNCHANGED <<feed, inbox, shown, reading>>

Hidden ==
  /\ visible
  /\ visible' = FALSE /\ polling' = FALSE
  /\ UNCHANGED <<feed, inbox, shown, job, reading, queued>>

\* The button shows in ERROR and is disabled until the retry is answered.
RetryClicked ==
  /\ visible /\ shown = "ERROR" /\ job["retry"] = "none"
  /\ shown' = "CONNECTING" /\ job' = [job EXCEPT !["retry"] = "asked"]
  /\ UNCHANGED <<feed, inbox, visible, polling, reading, queued>>

-----------------------------------------------------------------------------
Hears == HearsSignal \/ HearsRetried \/ HearsStatus

Next ==
  \/ FeedStep \/ SignalArrives
  \/ \E j \in Jobs : StatusRead(j) \/ StatusReplied(j)
  \/ Hears \/ PollTick \/ PollApplied \/ RefreshApplied
  \/ Opened \/ Hidden \/ RetryClicked

Spec == Init /\ [][Next]_vars

\* The feed signals changes (BridgeStatus's ImplementsFeed), the daemon
\* answers, the panel's timer fires and its event loop turns.  Nobody has to
\* open the panel or to retry.
Fairness ==
  /\ WF_vars(Watched /\ UNCHANGED panel)
  /\ WF_vars((SignalBegins /\ UNCHANGED panel) \/ SignalArrives)
  /\ \A j \in Jobs : WF_vars(StatusRead(j) \/ StatusReplied(j))
  /\ WF_vars(Hears) /\ WF_vars(PollTick) /\ WF_vars(PollApplied) /\ WF_vars(RefreshApplied)

FairSpec == Spec /\ Fairness

-----------------------------------------------------------------------------
(* Properties.                                                             *)

\* An open panel ends up showing what is recorded, whatever stale replies,
\* signals and retries it has heard.
VisiblePanelAgrees ==
  \A b \in BOOLEAN :
    <>[](visible /\ connected = b /\ job["retry"] = "none")
      => <>[](shown = IF b THEN "CONNECTED" ELSE "ERROR")
=============================================================================
