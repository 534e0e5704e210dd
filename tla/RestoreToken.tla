----------------------------- MODULE RestoreToken -----------------------------
(***************************************************************************)
(* The screen-share grant the portal hands over when a session starts: the *)
(* capturer's copy under tokenMutex (backend/internal/capture/capture.go), *)
(* the copy in the configuration under config.mu, and config.yaml, written *)
(* by the goroutine each new grant starts (updateRestoreToken), by         *)
(* ResetCaptureSource (backend/internal/sync/engine.go) and by every other *)
(* setting that is saved (backend/internal/config/config.go).              *)
(*                                                                         *)
(* e.mu allows one Start at a time.  A Start is known by its ordinal, and  *)
(* so is the grant it is handed; 0 is no grant, the empty token.           *)
(***************************************************************************)
EXTENDS Integers

CONSTANTS
  MaxStarts,  \* bound: sessions started, across restarts of the program
  MaxResets   \* bound: resets in the life of one process

ASSUME TokenAssumption == MaxStarts \in Nat /\ MaxResets \in Nat

VARIABLES
  mem,      \* sc.restoreToken
  epoch,    \* sc.tokenGeneration
  cfg,      \* config.Sync.RestoreToken, in memory
  disk,     \* the grant in config.yaml
  start,    \* the Start in progress, between its two uses of tokenMutex
  saves,    \* grants whose updateRestoreToken waits for config.mu
  writer,   \* who holds config.mu, about to write the file
  starts,   \* history: the Starts so far
  cleared,  \* history: the last Start begun when this process last reset
  revoked   \* history: the same, for the last reset that reported success

vars == <<mem, epoch, cfg, disk, start, saves, writer, starts, cleared, revoked>>

Grants == 0 .. MaxStarts
Writers == {"none", "grant", "reset", "setting"}

TypeOK ==
  /\ mem \in Grants /\ cfg \in Grants /\ disk \in Grants
  /\ epoch \in 0 .. MaxResets
  /\ start \in [asking : BOOLEAN, sent : Grants, at : 0 .. MaxResets]
  /\ saves \subseteq 1 .. MaxStarts
  /\ writer \in Writers
  /\ starts \in Grants /\ cleared \in Grants /\ revoked \in Grants

NotStarting == [asking |-> FALSE, sent |-> 0, at |-> 0]

Init ==
  /\ mem = 0 /\ epoch = 0 /\ cfg = 0 /\ disk = 0
  /\ start = NotStarting
  /\ saves = {} /\ writer = "none"
  /\ starts = 0 /\ cleared = 0 /\ revoked = 0

-----------------------------------------------------------------------------
(* ScreenCapture.Start.                                                    *)

\* The grant that selectSources sends, and the generation it was read under.
StartReads ==
  /\ ~start.asking /\ starts < MaxStarts
  /\ starts' = starts + 1
  /\ start' = [asking |-> TRUE, sent |-> mem, at |-> epoch]
  /\ UNCHANGED <<mem, epoch, cfg, disk, saves, writer, cleared, revoked>>

\* The portal refuses, or the user declines: nothing was changed.
StartFails ==
  /\ start.asking
  /\ start' = NotStarting
  /\ UNCHANGED <<mem, epoch, cfg, disk, saves, writer, starts, cleared, revoked>>

\* Mutant: the generation is not compared.
ResetUnnoticed == FALSE

\* The share was reset while this Start was asking.
ResetMeanwhile == start.at # epoch

\* The portal answers with no grant, the one it was sent, or a new one.  A new
\* one is remembered and a goroutine is started to save it.  (Whether the
\* stream then opens makes no difference to the grant.)
StartAnswered ==
  /\ start.asking
  /\ \E token \in {0, start.sent, starts} :
       IF ~ResetMeanwhile /\ token # 0 /\ token # mem
         THEN mem' = token /\ saves' = saves \cup {token}
         ELSE UNCHANGED <<mem, saves>>
  /\ start' = NotStarting
  /\ UNCHANGED <<epoch, cfg, disk, writer, starts, cleared, revoked>>

-----------------------------------------------------------------------------
(* Config.Update: the change, then the write, under config.mu.             *)

\* Mutant: whatever grant the goroutine was started for is the current one.
AlwaysCurrent(token) == TRUE

\* TokenIsCurrent, asked under config.mu.
Current(token) == mem = token

\* Mutant: the goroutine does not wait for config.mu.
SaveGrantIfFree(token) ==
  /\ token \in saves
  /\ saves' = saves \ {token}
  /\ cfg' = IF writer = "none" /\ Current(token) THEN token ELSE cfg
  /\ writer' = IF writer = "none" THEN "grant" ELSE writer
  /\ UNCHANGED <<mem, epoch, disk, start, starts, cleared, revoked>>

\* updateRestoreToken.
SaveGrant(token) ==
  /\ token \in saves /\ writer = "none"
  /\ saves' = saves \ {token}
  /\ cfg' = IF Current(token) THEN token ELSE cfg
  /\ writer' = "grant"
  /\ UNCHANGED <<mem, epoch, disk, start, starts, cleared, revoked>>

\* Mutant: the capturer is left to forget the grant with its next session.
ResetConfigOnly ==
  /\ writer = "none" /\ epoch < MaxResets
  /\ cfg' = 0
  /\ epoch' = epoch + 1
  /\ writer' = "reset"
  /\ cleared' = starts
  /\ UNCHANGED <<mem, disk, start, saves, starts, revoked>>

\* ResetCaptureSource forgets both copies under the one lock.
Reset ==
  /\ writer = "none" /\ epoch < MaxResets
  /\ cfg' = 0
  /\ mem' = 0 /\ epoch' = epoch + 1
  /\ writer' = "reset"
  /\ cleared' = starts
  /\ UNCHANGED <<disk, start, saves, starts, revoked>>

\* Any other setting is saved: the whole configuration goes to the file.
SaveSetting ==
  /\ writer = "none"
  /\ writer' = "setting"
  /\ UNCHANGED <<mem, epoch, cfg, disk, start, saves, starts, cleared, revoked>>

\* saveLocked: the file is written and made private; either may fail, and only
\* a reset's caller is told.  None of these changes is reverted.
Write ==
  /\ writer # "none"
  /\ \E written, private \in BOOLEAN :
       /\ disk' = IF written THEN cfg ELSE disk
       /\ revoked' = IF writer = "reset" /\ written /\ private THEN cleared ELSE revoked
  /\ writer' = "none"
  /\ UNCHANGED <<mem, epoch, cfg, start, saves, starts, cleared>>

\* The process dies and is started again: Load, then NewScreenCapture.
Restart ==
  /\ mem' = disk /\ cfg' = disk
  /\ epoch' = 0
  /\ start' = NotStarting
  /\ saves' = {} /\ writer' = "none"
  /\ cleared' = revoked
  /\ UNCHANGED <<disk, starts, revoked>>

Next ==
  \/ StartReads \/ StartFails \/ StartAnswered
  \/ \E token \in 1 .. MaxStarts : SaveGrant(token)
  \/ Reset \/ SaveSetting \/ Write \/ Restart

Spec == Init /\ [][Next]_vars

\* Whoever holds config.mu writes and lets go, and a goroutine waiting for it
\* gets it (sync.Mutex starves nobody).
Fairness ==
  WF_vars(Write) /\ \A token \in 1 .. MaxStarts : SF_vars(SaveGrant(token))

FairSpec == Spec /\ Fairness

-----------------------------------------------------------------------------
(* Properties.                                                             *)

\* Once ResetCaptureSource has cleared the grant, neither copy in memory holds
\* one that a Start begun before it was handed, however late the portal answers
\* and however late the grant is saved.
ResetForgets == mem \notin 1 .. cleared /\ cfg \notin 1 .. cleared

\* After a reset that reported success no such grant is in the file either, so
\* none comes back with the next process.
RevokedNotOnDisk == disk \notin 1 .. revoked

\* With no save outstanding the configuration holds the capturer's grant: the
\* grant of the latest session is not lost to a stale one or to a reset.
CopiesAgree == saves = {} => cfg = mem

\* The file never goes back to the grant of an earlier session.
NewestGrantWins == [][disk' = 0 \/ disk' >= disk]_vars

\* A grant the capturer goes on holding reaches the configuration.
GrantIsSaved ==
  \A token \in 1 .. MaxStarts : mem = token ~> cfg = token \/ mem # token

\* The inductive invariant.  A Start whose generation is current began after
\* the last reset; a grant that is not in the configuration yet is still to be
\* saved; a reset holds config.mu until the file is written.
TokenInv ==
  /\ TypeOK
  /\ ResetForgets /\ RevokedNotOnDisk
  /\ revoked <= cleared /\ cleared <= starts
  /\ mem <= starts /\ disk <= starts /\ start.at <= epoch
  /\ start.asking =>
       /\ starts > 0 /\ mem < starts /\ disk < starts
       /\ ~ResetMeanwhile => cleared < starts /\ start.sent = mem
  /\ cfg # mem => mem \in saves
  /\ writer = "reset" => cfg = 0
  /\ cfg # 0 => disk <= cfg
  /\ mem # 0 => disk <= mem /\ cfg <= mem
=============================================================================
