------------------------- MODULE RestoreToken_proofs -------------------------
(***************************************************************************)
(* Theorems about RestoreToken for any number of sessions and resets.      *)
(* TokenInv carries them: it says of a Start still waiting for the portal  *)
(* whether its grant may be used, and of a grant not yet in the            *)
(* configuration that somebody is about to put it there.                   *)
(***************************************************************************)
EXTENDS RestoreToken, TLAPS

LEMMA InitEstablishesInv == Init => TokenInv
BY TokenAssumption
   DEF Init, TokenInv, TypeOK, Grants, Writers, NotStarting, ResetForgets, RevokedNotOnDisk

LEMMA StartKeepsInv ==
  ASSUME TokenInv, StartReads \/ StartFails \/ StartAnswered
  PROVE  TokenInv'
<1> USE TokenAssumption DEF TokenInv, TypeOK, Grants, NotStarting, ResetForgets, RevokedNotOnDisk
<1>1. CASE StartReads
  BY <1>1 DEF StartReads, ResetMeanwhile
<1>2. CASE StartFails
  BY <1>2 DEF StartFails
<1>3. CASE StartAnswered
  <2>1. PICK token \in {0, start.sent, starts} :
          IF ~ResetMeanwhile /\ token # 0 /\ token # mem
            THEN mem' = token /\ saves' = saves \cup {token}
            ELSE UNCHANGED <<mem, saves>>
    BY <1>3 DEF StartAnswered
  <2>2. /\ start' = NotStarting /\ ~start'.asking /\ start'.at = 0 /\ start.asking
        /\ UNCHANGED <<epoch, cfg, disk, writer, starts, cleared, revoked>>
    BY <1>3 DEF StartAnswered
  <2>3. CASE ~ResetMeanwhile /\ token # 0 /\ token # mem
    <3>1. token = starts /\ cleared < starts /\ disk < starts /\ mem < starts /\ cfg <= mem
      BY <2>1, <2>2, <2>3
    <3>2. mem' = starts /\ saves' = saves \cup {starts}
      BY <2>1, <2>3, <3>1
    <3>3. TypeOK'
      BY <2>2, <3>1, <3>2 DEF Writers
    <3>4. QED
      BY <2>2, <3>1, <3>2, <3>3
  <2>4. CASE ~(~ResetMeanwhile /\ token # 0 /\ token # mem)
    <3>1. UNCHANGED <<mem, saves>>
      BY <2>1, <2>4
    <3>2. QED
      BY <2>2, <3>1
  <2>5. QED
    BY <2>3, <2>4
<1>4. QED
  BY <1>1, <1>2, <1>3

LEMMA SaveGrantKeepsInv ==
  ASSUME TokenInv, NEW token \in 1 .. MaxStarts, SaveGrant(token)
  PROVE  TokenInv'
<1> USE TokenAssumption
    DEF TokenInv, TypeOK, Grants, Writers, ResetForgets, RevokedNotOnDisk, SaveGrant, ResetMeanwhile
<1>1. CASE Current(token)
  BY <1>1 DEF Current
<1>2. CASE ~Current(token)
  BY <1>2 DEF Current
<1>3. QED
  BY <1>1, <1>2

LEMMA ResetKeepsInv ==
  ASSUME TokenInv, Reset
  PROVE  TokenInv'
BY TokenAssumption
   DEF TokenInv, TypeOK, Grants, Writers, ResetForgets, RevokedNotOnDisk, Reset, ResetMeanwhile

LEMMA SaveSettingKeepsInv ==
  ASSUME TokenInv, SaveSetting
  PROVE  TokenInv'
BY DEF TokenInv, TypeOK, Writers, ResetForgets, RevokedNotOnDisk, SaveSetting, ResetMeanwhile

LEMMA WriteKeepsInv ==
  ASSUME TokenInv, Write
  PROVE  TokenInv'
<1>1. PICK written \in BOOLEAN, private \in BOOLEAN :
        /\ disk' = IF written THEN cfg ELSE disk
        /\ revoked' = IF writer = "reset" /\ written /\ private THEN cleared ELSE revoked
  BY DEF Write
<1>2. CASE written
  BY <1>1, <1>2, TokenAssumption
     DEF TokenInv, TypeOK, Grants, Writers, ResetForgets, RevokedNotOnDisk, Write, ResetMeanwhile
<1>3. CASE ~written
  BY <1>1, <1>3 DEF TokenInv, TypeOK, Writers, ResetForgets, RevokedNotOnDisk, Write, ResetMeanwhile
<1>4. QED
  BY <1>2, <1>3

LEMMA RestartKeepsInv ==
  ASSUME TokenInv, Restart
  PROVE  TokenInv'
BY TokenAssumption
   DEF TokenInv, TypeOK, Grants, Writers, NotStarting, ResetForgets, RevokedNotOnDisk, Restart, ResetMeanwhile

\* TokenInv holds in every reachable state.
THEOREM TokenInvariant == Spec => []TokenInv
<1>1. TokenInv /\ [Next]_vars => TokenInv'
  <2> SUFFICES ASSUME TokenInv, [Next]_vars PROVE TokenInv'
    OBVIOUS
  <2>1. CASE UNCHANGED vars
    BY <2>1 DEF vars, TokenInv, TypeOK, ResetForgets, RevokedNotOnDisk, ResetMeanwhile
  <2>2. QED
    BY <2>1, StartKeepsInv, SaveGrantKeepsInv, ResetKeepsInv, SaveSettingKeepsInv,
       WriteKeepsInv, RestartKeepsInv DEF Next
<1>2. QED
  BY <1>1, InitEstablishesInv, PTL DEF Spec

\* ResetCaptureSource clears both copies in memory under config.mu, and neither a
\* late answer of the portal nor a late save brings an earlier grant back.
THEOREM ResetsForget == Spec => []ResetForgets
<1>1. TokenInv => ResetForgets
  BY DEF TokenInv
<1>2. QED
  BY <1>1, TokenInvariant, PTL

\* A reset that reported success is durable: no earlier grant is in config.yaml,
\* through any number of later writes, failed writes and restarts.
THEOREM RevokedStayOffDisk == Spec => []RevokedNotOnDisk
<1>1. TokenInv => RevokedNotOnDisk
  BY DEF TokenInv
<1>2. QED
  BY <1>1, TokenInvariant, PTL

\* With no save outstanding the configuration and the capturer agree.
THEOREM CopiesAlwaysAgree == Spec => []CopiesAgree
<1>1. TokenInv => CopiesAgree
  BY DEF TokenInv, CopiesAgree
<1>2. QED
  BY <1>1, TokenInvariant, PTL

\* Saves that run in any order never leave an older session's grant in the file.
THEOREM NewestWins == Spec => NewestGrantWins
<1>1. TokenInv /\ [Next]_vars => [disk' = 0 \/ disk' >= disk]_vars
  <2> SUFFICES ASSUME TokenInv, Next PROVE disk' = 0 \/ disk' >= disk
    OBVIOUS
  <2>1. disk \in Int /\ cfg \in Int
    BY TokenAssumption DEF TokenInv, TypeOK, Grants
  <2>2. CASE Write
    BY <2>1, <2>2 DEF Write, TokenInv
  <2>3. CASE disk' = disk
    BY <2>1, <2>3
  <2>4. QED
    BY <2>2, <2>3 DEF Next, StartReads, StartFails, StartAnswered, SaveGrant, Reset, SaveSetting, Restart
<1>2. QED
  BY <1>1, TokenInvariant, PTL DEF Spec, NewestGrantWins
=============================================================================
