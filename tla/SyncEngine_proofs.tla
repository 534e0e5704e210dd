--------------------------- MODULE SyncEngine_proofs ---------------------------
(***************************************************************************)
(* Theorems about SyncEngine for any set of callers and any bounds.  The   *)
(* argument is one inductive invariant, EngineInv: a fact for each place   *)
(* the goroutine holding e.mu can be at, and what the loops can be doing   *)
(* meanwhile.                                                              *)
(***************************************************************************)
EXTENDS SyncEngine, TLAPS

LEMMA InitEstablishesInv == Init => EngineInv
<1> SUFFICES ASSUME Init PROVE EngineInv
  OBVIOUS
<1> USE EngineAssumption DEF Init, Procs, Loops, Waiting, Starting, Stopping
<1>1. TypeOK
  <2>1. pc \in [Procs -> CallerPlaces \cup LoopPlaces]
    BY DEF CallerPlaces, LoopPlaces
  <2>2. mine \in [Callers -> 0 .. MaxSessions] /\ generation \in 0 .. MaxSessions
    OBVIOUS
  <2>3. reported \in [running : BOOLEAN, origin : Origins]
    BY DEF Origins
  <2>4. cancelled \subseteq Loops /\ retries \in 0 .. MaxRetries
    OBVIOUS
  <2>5. QED
    BY <2>1, <2>2, <2>3, <2>4 DEF TypeOK, Origins, Causes
<1>2. PlacesOK
  BY DEF PlacesOK, CallerPlaces, LoopPlaces
<1>3. LoopsOK
  BY DEF LoopsOK
<1>4. FreeOK
  BY DEF FreeOK, Shut
<1>5. QED
  BY <1>1, <1>2, <1>3, <1>4 DEF EngineInv

LEMMA CallKeepsInv ==
  ASSUME EngineInv, NEW c \in Callers, Call(c)
  PROVE  EngineInv'
<1> USE EngineAssumption DEF Procs, Loops, Waiting, Starting, Stopping
<1> USE DEF EngineInv, Call, Goto, devices, sessionVars, Free
<1>1. TypeOK'
  BY DEF TypeOK, Origins, Causes, PlacesOK, CallerPlaces, LoopPlaces
<1>2. PlacesOK'
  BY DEF TypeOK, PlacesOK, CallerPlaces, LoopPlaces
<1>3. LoopsOK'
  BY DEF TypeOK, PlacesOK, CallerPlaces, LoopPlaces, LoopsOK, StartingOK, StoppingOK, FreeOK, Open, Shut
<1>4. mu' = None => FreeOK'
  BY DEF TypeOK, PlacesOK, CallerPlaces, LoopPlaces, LoopsOK, StartingOK, StoppingOK, FreeOK, Open, Shut
<1>5. mu' # None /\ pc'[mu'] \in Starting => StartingOK(pc[mu])'
  BY DEF TypeOK, PlacesOK, CallerPlaces, LoopPlaces, LoopsOK, StartingOK, StoppingOK, FreeOK, Open, Shut
<1>6. mu' # None /\ pc'[mu'] \in Stopping => StoppingOK(pc[mu])'
  BY DEF TypeOK, PlacesOK, CallerPlaces, LoopPlaces, LoopsOK, StartingOK, StoppingOK, FreeOK, Open, Shut
<1>7. QED
  BY <1>1, <1>2, <1>3, <1>4, <1>5, <1>6 DEF EngineInv

LEMMA StartRefusedKeepsInv ==
  ASSUME EngineInv, NEW c \in Callers, StartRefused(c)
  PROVE  EngineInv'
<1> USE EngineAssumption DEF Procs, Loops, Waiting, Starting, Stopping
<1> USE DEF EngineInv, StartRefused, Goto, devices, sessionVars, Free
<1>1. TypeOK'
  BY DEF TypeOK, Origins, Causes, PlacesOK, CallerPlaces, LoopPlaces
<1>2. PlacesOK'
  BY DEF TypeOK, PlacesOK, CallerPlaces, LoopPlaces
<1>3. LoopsOK'
  BY DEF TypeOK, PlacesOK, CallerPlaces, LoopPlaces, LoopsOK, StartingOK, StoppingOK, FreeOK, Open, Shut
<1>4. mu' = None => FreeOK'
  BY DEF TypeOK, PlacesOK, CallerPlaces, LoopPlaces, LoopsOK, StartingOK, StoppingOK, FreeOK, Open, Shut
<1>5. mu' # None /\ pc'[mu'] \in Starting => StartingOK(pc[mu])'
  BY DEF TypeOK, PlacesOK, CallerPlaces, LoopPlaces, LoopsOK, StartingOK, StoppingOK, FreeOK, Open, Shut
<1>6. mu' # None /\ pc'[mu'] \in Stopping => StoppingOK(pc[mu])'
  BY DEF TypeOK, PlacesOK, CallerPlaces, LoopPlaces, LoopsOK, StartingOK, StoppingOK, FreeOK, Open, Shut
<1>7. QED
  BY <1>1, <1>2, <1>3, <1>4, <1>5, <1>6 DEF EngineInv

LEMMA StartAdmittedKeepsInv ==
  ASSUME EngineInv, NEW c \in Callers, StartAdmitted(c)
  PROVE  EngineInv'
<1> USE EngineAssumption DEF Procs, Loops, Waiting, Starting, Stopping
<1> USE DEF EngineInv, StartAdmitted, Goto, devices, sessionVars, Free
<1>1. TypeOK'
  BY DEF TypeOK, Origins, Causes, PlacesOK, CallerPlaces, LoopPlaces
<1>2. PlacesOK'
  BY DEF TypeOK, PlacesOK, CallerPlaces, LoopPlaces
<1>3. LoopsOK'
  <2>1. \A g \in Loops : pc[g] # "stream"
    BY DEF LoopsOK
  <2>2. \A g \in Loops : pc'[g] = pc[g]
    BY DEF TypeOK
  <2>3. QED
    BY <2>1, <2>2 DEF LoopsOK, TypeOK
<1>4. mu' = None => FreeOK'
  BY DEF TypeOK, PlacesOK, CallerPlaces, LoopPlaces, LoopsOK, StartingOK, StoppingOK, FreeOK, Open, Shut
<1>5. mu' # None /\ pc'[mu'] \in Starting => StartingOK(pc[mu])'
  BY DEF TypeOK, PlacesOK, CallerPlaces, LoopPlaces, LoopsOK, StartingOK, StoppingOK, FreeOK, Open, Shut
<1>6. mu' # None /\ pc'[mu'] \in Stopping => StoppingOK(pc[mu])'
  BY DEF TypeOK, PlacesOK, CallerPlaces, LoopPlaces, LoopsOK, StartingOK, StoppingOK, FreeOK, Open, Shut
<1>7. QED
  BY <1>1, <1>2, <1>3, <1>4, <1>5, <1>6 DEF EngineInv

LEMMA CaptureStartsKeepsInv ==
  ASSUME EngineInv, NEW c \in Callers, CaptureStarts(c)
  PROVE  EngineInv'
<1> USE EngineAssumption DEF Procs, Loops, Waiting, Starting, Stopping
<1> USE DEF EngineInv, CaptureStarts, Goto, devices, sessionVars, Free
<1>1. TypeOK'
  BY DEF TypeOK, Origins, Causes, PlacesOK, CallerPlaces, LoopPlaces
<1>2. PlacesOK'
  BY DEF TypeOK, PlacesOK, CallerPlaces, LoopPlaces
<1>3. LoopsOK'
  BY DEF TypeOK, PlacesOK, CallerPlaces, LoopPlaces, LoopsOK, StartingOK, StoppingOK, FreeOK, Open, Shut
<1>4. mu' = None => FreeOK'
  BY DEF TypeOK, PlacesOK, CallerPlaces, LoopPlaces, LoopsOK, StartingOK, StoppingOK, FreeOK, Open, Shut
<1>5. mu' # None /\ pc'[mu'] \in Starting => StartingOK(pc[mu])'
  BY DEF TypeOK, PlacesOK, CallerPlaces, LoopPlaces, LoopsOK, StartingOK, StoppingOK, FreeOK, Open, Shut
<1>6. mu' # None /\ pc'[mu'] \in Stopping => StoppingOK(pc[mu])'
  BY DEF TypeOK, PlacesOK, CallerPlaces, LoopPlaces, LoopsOK, StartingOK, StoppingOK, FreeOK, Open, Shut
<1>7. QED
  BY <1>1, <1>2, <1>3, <1>4, <1>5, <1>6 DEF EngineInv

LEMMA CaptureRefusesKeepsInv ==
  ASSUME EngineInv, NEW c \in Callers, CaptureRefuses(c)
  PROVE  EngineInv'
<1> USE EngineAssumption DEF Procs, Loops, Waiting, Starting, Stopping
<1> USE DEF EngineInv, CaptureRefuses, Goto, devices, sessionVars, Free, StartCause
<1>1. TypeOK'
  BY DEF TypeOK, Origins, Causes, PlacesOK, CallerPlaces, LoopPlaces
<1>2. PlacesOK'
  BY DEF TypeOK, PlacesOK, CallerPlaces, LoopPlaces
<1>3. LoopsOK'
  BY DEF TypeOK, PlacesOK, CallerPlaces, LoopPlaces, LoopsOK, StartingOK, StoppingOK, FreeOK, Open, Shut
<1>4. mu' = None => FreeOK'
  BY DEF TypeOK, PlacesOK, CallerPlaces, LoopPlaces, LoopsOK, StartingOK, StoppingOK, FreeOK, Open, Shut
<1>5. mu' # None /\ pc'[mu'] \in Starting => StartingOK(pc[mu])'
  BY DEF TypeOK, PlacesOK, CallerPlaces, LoopPlaces, LoopsOK, StartingOK, StoppingOK, FreeOK, Open, Shut
<1>6. mu' # None /\ pc'[mu'] \in Stopping => StoppingOK(pc[mu])'
  BY DEF TypeOK, PlacesOK, CallerPlaces, LoopPlaces, LoopsOK, StartingOK, StoppingOK, FreeOK, Open, Shut
<1>7. QED
  BY <1>1, <1>2, <1>3, <1>4, <1>5, <1>6 DEF EngineInv

LEMMA ActivateKeepsInv ==
  ASSUME EngineInv, NEW c \in Callers, Activate(c)
  PROVE  EngineInv'
<1> USE EngineAssumption DEF Procs, Loops, Waiting, Starting, Stopping
<1> USE DEF EngineInv, Activate, Goto, devices, sessionVars, Free
<1>1. TypeOK'
  BY DEF TypeOK, Origins, Causes, PlacesOK, CallerPlaces, LoopPlaces
<1>2. PlacesOK'
  BY DEF TypeOK, PlacesOK, CallerPlaces, LoopPlaces
<1>3. LoopsOK'
  BY DEF TypeOK, PlacesOK, CallerPlaces, LoopPlaces, LoopsOK, StartingOK, StoppingOK, FreeOK, Open, Shut
<1>4. mu' = None => FreeOK'
  BY DEF TypeOK, PlacesOK, CallerPlaces, LoopPlaces, LoopsOK, StartingOK, StoppingOK, FreeOK, Open, Shut
<1>5. mu' # None /\ pc'[mu'] \in Starting => StartingOK(pc[mu])'
  BY DEF TypeOK, PlacesOK, CallerPlaces, LoopPlaces, LoopsOK, StartingOK, StoppingOK, FreeOK, Open, Shut
<1>6. mu' # None /\ pc'[mu'] \in Stopping => StoppingOK(pc[mu])'
  BY DEF TypeOK, PlacesOK, CallerPlaces, LoopPlaces, LoopsOK, StartingOK, StoppingOK, FreeOK, Open, Shut
<1>7. QED
  BY <1>1, <1>2, <1>3, <1>4, <1>5, <1>6 DEF EngineInv

LEMMA DialSucceedsKeepsInv ==
  ASSUME EngineInv, NEW c \in Callers, DialSucceeds(c)
  PROVE  EngineInv'
<1> USE EngineAssumption DEF Procs, Loops, Waiting, Starting, Stopping
<1> USE DEF EngineInv, DialSucceeds, Goto, devices, sessionVars, Free
<1>1. TypeOK'
  BY DEF TypeOK, Origins, Causes, PlacesOK, CallerPlaces, LoopPlaces
<1>2. PlacesOK'
  BY DEF TypeOK, PlacesOK, CallerPlaces, LoopPlaces
<1>3. LoopsOK'
  BY DEF TypeOK, PlacesOK, CallerPlaces, LoopPlaces, LoopsOK, StartingOK, StoppingOK, FreeOK, Open, Shut
<1>4. mu' = None => FreeOK'
  BY DEF TypeOK, PlacesOK, CallerPlaces, LoopPlaces, LoopsOK, StartingOK, StoppingOK, FreeOK, Open, Shut
<1>5. mu' # None /\ pc'[mu'] \in Starting => StartingOK(pc[mu])'
  BY DEF TypeOK, PlacesOK, CallerPlaces, LoopPlaces, LoopsOK, StartingOK, StoppingOK, FreeOK, Open, Shut
<1>6. mu' # None /\ pc'[mu'] \in Stopping => StoppingOK(pc[mu])'
  BY DEF TypeOK, PlacesOK, CallerPlaces, LoopPlaces, LoopsOK, StartingOK, StoppingOK, FreeOK, Open, Shut
<1>7. QED
  BY <1>1, <1>2, <1>3, <1>4, <1>5, <1>6 DEF EngineInv

LEMMA DialRefusedKeepsInv ==
  ASSUME EngineInv, NEW c \in Callers, DialRefused(c)
  PROVE  EngineInv'
<1> USE EngineAssumption DEF Procs, Loops, Waiting, Starting, Stopping
<1> USE DEF EngineInv, DialRefused, Goto, devices, sessionVars, Free, MayRetry
<1>1. TypeOK'
  BY DEF TypeOK, Origins, Causes, PlacesOK, CallerPlaces, LoopPlaces
<1>2. PlacesOK'
  BY DEF TypeOK, PlacesOK, CallerPlaces, LoopPlaces
<1>3. LoopsOK'
  BY DEF TypeOK, PlacesOK, CallerPlaces, LoopPlaces, LoopsOK, StartingOK, StoppingOK, FreeOK, Open, Shut
<1>4. mu' = None => FreeOK'
  BY DEF TypeOK, PlacesOK, CallerPlaces, LoopPlaces, LoopsOK, StartingOK, StoppingOK, FreeOK, Open, Shut
<1>5. mu' # None /\ pc'[mu'] \in Starting => StartingOK(pc[mu])'
  BY DEF TypeOK, PlacesOK, CallerPlaces, LoopPlaces, LoopsOK, StartingOK, StoppingOK, FreeOK, Open, Shut
<1>6. mu' # None /\ pc'[mu'] \in Stopping => StoppingOK(pc[mu])'
  BY DEF TypeOK, PlacesOK, CallerPlaces, LoopPlaces, LoopsOK, StartingOK, StoppingOK, FreeOK, Open, Shut
<1>7. QED
  BY <1>1, <1>2, <1>3, <1>4, <1>5, <1>6 DEF EngineInv

LEMMA DialFailsKeepsInv ==
  ASSUME EngineInv, NEW c \in Callers, DialFails(c)
  PROVE  EngineInv'
<1> USE EngineAssumption DEF Procs, Loops, Waiting, Starting, Stopping
<1> USE DEF EngineInv, DialFails, Goto, devices, sessionVars, Free
<1>1. TypeOK'
  BY DEF TypeOK, Origins, Causes, PlacesOK, CallerPlaces, LoopPlaces
<1>2. PlacesOK'
  BY DEF TypeOK, PlacesOK, CallerPlaces, LoopPlaces
<1>3. LoopsOK'
  BY DEF TypeOK, PlacesOK, CallerPlaces, LoopPlaces, LoopsOK, StartingOK, StoppingOK, FreeOK, Open, Shut
<1>4. mu' = None => FreeOK'
  BY DEF TypeOK, PlacesOK, CallerPlaces, LoopPlaces, LoopsOK, StartingOK, StoppingOK, FreeOK, Open, Shut
<1>5. mu' # None /\ pc'[mu'] \in Starting => StartingOK(pc[mu])'
  BY DEF TypeOK, PlacesOK, CallerPlaces, LoopPlaces, LoopsOK, StartingOK, StoppingOK, FreeOK, Open, Shut
<1>6. mu' # None /\ pc'[mu'] \in Stopping => StoppingOK(pc[mu])'
  BY DEF TypeOK, PlacesOK, CallerPlaces, LoopPlaces, LoopsOK, StartingOK, StoppingOK, FreeOK, Open, Shut
<1>7. QED
  BY <1>1, <1>2, <1>3, <1>4, <1>5, <1>6 DEF EngineInv

LEMMA LaunchKeepsInv ==
  ASSUME EngineInv, NEW c \in Callers, Launch(c)
  PROVE  EngineInv'
<1> USE EngineAssumption DEF Procs, Loops, Waiting, Starting, Stopping
<1> USE DEF EngineInv, Launch, Goto, devices, sessionVars, Free
<1>1. TypeOK'
  BY DEF TypeOK, Origins, Causes, PlacesOK, CallerPlaces, LoopPlaces
<1>2. PlacesOK'
  BY DEF TypeOK, PlacesOK, CallerPlaces, LoopPlaces
<1>3. LoopsOK'
  BY DEF TypeOK, PlacesOK, CallerPlaces, LoopPlaces, LoopsOK, StartingOK, StoppingOK, FreeOK, Open, Shut
<1>4. mu' = None => FreeOK'
  BY DEF TypeOK, PlacesOK, CallerPlaces, LoopPlaces, LoopsOK, StartingOK, StoppingOK, FreeOK, Open, Shut
<1>5. mu' # None /\ pc'[mu'] \in Starting => StartingOK(pc[mu])'
  BY DEF TypeOK, PlacesOK, CallerPlaces, LoopPlaces, LoopsOK, StartingOK, StoppingOK, FreeOK, Open, Shut
<1>6. mu' # None /\ pc'[mu'] \in Stopping => StoppingOK(pc[mu])'
  BY DEF TypeOK, PlacesOK, CallerPlaces, LoopPlaces, LoopsOK, StartingOK, StoppingOK, FreeOK, Open, Shut
<1>7. QED
  BY <1>1, <1>2, <1>3, <1>4, <1>5, <1>6 DEF EngineInv

LEMMA PublishKeepsInv ==
  ASSUME EngineInv, NEW c \in Callers, Publish(c)
  PROVE  EngineInv'
<1> USE EngineAssumption DEF Procs, Loops, Waiting, Starting, Stopping
<1> USE DEF EngineInv, Publish, devices, Free
<1>1. generation \in Loops /\ generation # c /\ running /\ Open /\ generation \notin cancelled
  BY DEF TypeOK, StartingOK
<1>2. \A p \in Procs :
        pc'[p] = IF p = generation THEN "stream" ELSE IF p = c THEN "idle" ELSE pc[p]
  BY <1>1 DEF TypeOK
<1>3. TypeOK'
  BY <1>1 DEF TypeOK, Origins, Causes, CallerPlaces, LoopPlaces
<1>4. PlacesOK'
  BY <1>1, <1>2 DEF PlacesOK, CallerPlaces, LoopPlaces, TypeOK
<1>5. LoopsOK'
  BY <1>1, <1>2 DEF LoopsOK, TypeOK, Open
<1>6. FreeOK'
  BY <1>1, <1>2 DEF FreeOK, TypeOK, Open
<1>7. QED
  BY <1>3, <1>4, <1>5, <1>6 DEF EngineInv

LEMMA StopKeepsInv ==
  ASSUME EngineInv, NEW c \in Callers, Stop(c)
  PROVE  EngineInv'
<1> USE EngineAssumption DEF Procs, Loops, Waiting, Starting, Stopping
<1> USE DEF EngineInv, Stop, devices, Free
<1>1. CASE running
  <2>1. running /\ Cancel(c) /\ Open /\ generation \in Loops
    BY <1>1 DEF FreeOK, TypeOK
  <2>2. \A p \in Procs : pc'[p] = IF p = c THEN "drain" ELSE pc[p]
    BY <2>1 DEF Cancel, Goto, TypeOK
  <2>3. cancelled' \subseteq 1 .. generation /\ cancelled' \subseteq Loops
    BY <2>1 DEF Cancel, LoopsOK, TypeOK
  <2>4. TypeOK'
    BY <1>1, <2>1, <2>3 DEF TypeOK, Cancel, Goto, Causes, CallerPlaces, LoopPlaces
  <2>5. PlacesOK'
    BY <2>1, <2>2 DEF Cancel, PlacesOK, CallerPlaces, LoopPlaces, TypeOK
  <2>6. LoopsOK'
    BY <2>1, <2>2, <2>3 DEF Cancel, LoopsOK, Open, TypeOK
  <2>7. mu' = c /\ pc'[c] = "drain" /\ StoppingOK("drain")'
    BY <1>1, <2>1, <2>2 DEF Cancel, StoppingOK, Open
  <2>8. QED
    BY <2>4, <2>5, <2>6, <2>7 DEF EngineInv
<1>2. CASE ~running
  <2>1. mu' = None /\ cancelled' = cancelled /\ failure' \in Causes
    BY <1>2 DEF TypeOK, Causes
  <2>2. \A p \in Procs : pc'[p] = IF p = c THEN "idle" ELSE pc[p]
    BY <1>2 DEF Goto, TypeOK
  <2>3. pc' \in [Procs -> CallerPlaces \cup LoopPlaces]
    BY <1>2 DEF TypeOK, Goto, CallerPlaces, LoopPlaces
  <2>4. TypeOK'
    BY <2>1, <2>3 DEF TypeOK
  <2>5. PlacesOK'
    BY <2>1, <2>2 DEF PlacesOK, CallerPlaces, LoopPlaces, TypeOK
  <2>6. LoopsOK'
    BY <2>1, <2>2 DEF LoopsOK, Open, TypeOK
  <2>7. FreeOK'
    BY <1>2, <2>1, <2>2 DEF FreeOK, Open, Shut, TypeOK
  <2>8. QED
    BY <2>1, <2>4, <2>5, <2>6, <2>7 DEF EngineInv
<1>3. QED
  BY <1>1, <1>2

LEMMA StopSessionKeepsInv ==
  ASSUME EngineInv, NEW c \in Callers, StopSession(c)
  PROVE  EngineInv'
<1> USE EngineAssumption DEF Procs, Loops, Waiting, Starting, Stopping
<1> USE DEF EngineInv, StopSession, devices, Free
<1>1. CASE Current(mine[c])
  <2>1. running /\ Cancel(c) /\ Open /\ generation \in Loops
    BY <1>1 DEF FreeOK, TypeOK, Current
  <2>2. \A p \in Procs : pc'[p] = IF p = c THEN "drain" ELSE pc[p]
    BY <2>1 DEF Cancel, Goto, TypeOK
  <2>3. cancelled' \subseteq 1 .. generation /\ cancelled' \subseteq Loops
    BY <2>1 DEF Cancel, LoopsOK, TypeOK
  <2>4. TypeOK'
    BY <1>1, <2>1, <2>3 DEF TypeOK, Cancel, Goto, Causes, CallerPlaces, LoopPlaces
  <2>5. PlacesOK'
    BY <2>1, <2>2 DEF Cancel, PlacesOK, CallerPlaces, LoopPlaces, TypeOK
  <2>6. LoopsOK'
    BY <2>1, <2>2, <2>3 DEF Cancel, LoopsOK, Open, TypeOK
  <2>7. mu' = c /\ pc'[c] = "drain" /\ StoppingOK("drain")'
    BY <1>1, <2>1, <2>2 DEF Cancel, StoppingOK, Open
  <2>8. QED
    BY <2>4, <2>5, <2>6, <2>7 DEF EngineInv
<1>2. CASE ~Current(mine[c])
  <2>1. mu' = None /\ cancelled' = cancelled /\ failure' \in Causes
    BY <1>2 DEF TypeOK, Causes
  <2>2. \A p \in Procs : pc'[p] = IF p = c THEN "idle" ELSE pc[p]
    BY <1>2 DEF Goto, TypeOK
  <2>3. pc' \in [Procs -> CallerPlaces \cup LoopPlaces]
    BY <1>2 DEF TypeOK, Goto, CallerPlaces, LoopPlaces
  <2>4. TypeOK'
    BY <2>1, <2>3 DEF TypeOK
  <2>5. PlacesOK'
    BY <2>1, <2>2 DEF PlacesOK, CallerPlaces, LoopPlaces, TypeOK
  <2>6. LoopsOK'
    BY <2>1, <2>2 DEF LoopsOK, Open, TypeOK
  <2>7. FreeOK'
    BY <1>2, <2>1, <2>2 DEF FreeOK, Open, Shut, TypeOK, Current
  <2>8. QED
    BY <2>1, <2>4, <2>5, <2>6, <2>7 DEF EngineInv
<1>3. QED
  BY <1>1, <1>2

LEMMA EndSessionKeepsInv ==
  ASSUME EngineInv, NEW g \in Loops, EndSession(g)
  PROVE  EngineInv'
<1> USE EngineAssumption DEF Procs, Loops, Waiting, Starting, Stopping
<1> USE DEF EngineInv, EndSession, devices, Free
<1>1. CASE Current(g)
  <2>1. running /\ Cancel(g) /\ Open /\ generation \in Loops
    BY <1>1 DEF FreeOK, TypeOK, Current
  <2>2. \A p \in Procs : pc'[p] = IF p = g THEN "drain" ELSE pc[p]
    BY <2>1 DEF Cancel, Goto, TypeOK
  <2>3. cancelled' \subseteq 1 .. generation /\ cancelled' \subseteq Loops
    BY <2>1 DEF Cancel, LoopsOK, TypeOK
  <2>4. TypeOK'
    BY <1>1, <2>1, <2>3 DEF TypeOK, Cancel, Goto, Causes, CallerPlaces, LoopPlaces
  <2>5. PlacesOK'
    BY <2>1, <2>2 DEF Cancel, PlacesOK, CallerPlaces, LoopPlaces, TypeOK
  <2>6. LoopsOK'
    BY <2>1, <2>2, <2>3 DEF Cancel, LoopsOK, Open, TypeOK
  <2>7. mu' = g /\ pc'[g] = "drain" /\ StoppingOK("drain")'
    BY <1>1, <2>1, <2>2 DEF Cancel, StoppingOK, Open
  <2>8. QED
    BY <2>4, <2>5, <2>6, <2>7 DEF EngineInv
<1>2. CASE ~Current(g)
  <2>1. mu' = None /\ cancelled' = cancelled /\ failure' \in Causes
    BY <1>2 DEF TypeOK, Causes
  <2>2. \A p \in Procs : pc'[p] = IF p = g THEN "done" ELSE pc[p]
    BY <1>2 DEF Goto, TypeOK
  <2>3. pc' \in [Procs -> CallerPlaces \cup LoopPlaces]
    BY <1>2 DEF TypeOK, Goto, CallerPlaces, LoopPlaces
  <2>4. TypeOK'
    BY <2>1, <2>3 DEF TypeOK
  <2>5. PlacesOK'
    BY <2>1, <2>2 DEF PlacesOK, CallerPlaces, LoopPlaces, TypeOK
  <2>6. LoopsOK'
    BY <2>1, <2>2 DEF LoopsOK, Open, TypeOK
  <2>7. FreeOK'
    BY <1>2, <2>1, <2>2 DEF FreeOK, Open, Shut, TypeOK, Current
  <2>8. QED
    BY <2>1, <2>4, <2>5, <2>6, <2>7 DEF EngineInv
<1>3. QED
  BY <1>1, <1>2

LEMMA DrainKeepsInv ==
  ASSUME EngineInv, NEW p \in Procs, Drain(p)
  PROVE  EngineInv'
<1> USE EngineAssumption DEF Procs, Loops, Waiting, Starting, Stopping
<1> USE DEF EngineInv, Drain, Goto, devices, sessionVars, Free, LoopsLeft
<1>1. TypeOK'
  BY DEF TypeOK, Origins, Causes, PlacesOK, CallerPlaces, LoopPlaces
<1>2. PlacesOK'
  BY DEF TypeOK, PlacesOK, CallerPlaces, LoopPlaces
<1>3. LoopsOK'
  BY DEF TypeOK, PlacesOK, CallerPlaces, LoopPlaces, LoopsOK, StartingOK, StoppingOK, FreeOK, Open, Shut
<1>4. mu' = None => FreeOK'
  BY DEF TypeOK, PlacesOK, CallerPlaces, LoopPlaces, LoopsOK, StartingOK, StoppingOK, FreeOK, Open, Shut
<1>5. mu' # None /\ pc'[mu'] \in Starting => StartingOK(pc[mu])'
  BY DEF TypeOK, PlacesOK, CallerPlaces, LoopPlaces, LoopsOK, StartingOK, StoppingOK, FreeOK, Open, Shut
<1>6. mu' # None /\ pc'[mu'] \in Stopping => StoppingOK(pc[mu])'
  BY DEF TypeOK, PlacesOK, CallerPlaces, LoopPlaces, LoopsOK, StartingOK, StoppingOK, FreeOK, Open, Shut
<1>7. QED
  BY <1>1, <1>2, <1>3, <1>4, <1>5, <1>6 DEF EngineInv

LEMMA TeardownKeepsInv ==
  ASSUME EngineInv, NEW p \in Procs, Teardown(p)
  PROVE  EngineInv'
<1> USE EngineAssumption DEF Procs, Loops, Waiting, Starting, Stopping
<1> USE DEF EngineInv, Teardown, Goto, devices, sessionVars, Free
<1>1. TypeOK'
  BY DEF TypeOK, Origins, Causes, PlacesOK, CallerPlaces, LoopPlaces
<1>2. PlacesOK'
  BY DEF TypeOK, PlacesOK, CallerPlaces, LoopPlaces
<1>3. LoopsOK'
  BY DEF TypeOK, PlacesOK, CallerPlaces, LoopPlaces, LoopsOK, StartingOK, StoppingOK, FreeOK, Open, Shut
<1>4. mu' = None => FreeOK'
  BY DEF TypeOK, PlacesOK, CallerPlaces, LoopPlaces, LoopsOK, StartingOK, StoppingOK, FreeOK, Open, Shut
<1>5. mu' # None /\ pc'[mu'] \in Starting => StartingOK(pc[mu])'
  BY DEF TypeOK, PlacesOK, CallerPlaces, LoopPlaces, LoopsOK, StartingOK, StoppingOK, FreeOK, Open, Shut
<1>6. mu' # None /\ pc'[mu'] \in Stopping => StoppingOK(pc[mu])'
  BY DEF TypeOK, PlacesOK, CallerPlaces, LoopPlaces, LoopsOK, StartingOK, StoppingOK, FreeOK, Open, Shut
<1>7. QED
  BY <1>1, <1>2, <1>3, <1>4, <1>5, <1>6 DEF EngineInv

LEMMA ClearRunningKeepsInv ==
  ASSUME EngineInv, NEW p \in Procs, ClearRunning(p)
  PROVE  EngineInv'
<1> USE EngineAssumption DEF Procs, Loops, Waiting, Starting, Stopping
<1> USE DEF EngineInv, ClearRunning, Goto, devices, sessionVars, Free
<1>1. TypeOK'
  BY DEF TypeOK, Origins, Causes, PlacesOK, CallerPlaces, LoopPlaces
<1>2. PlacesOK'
  BY DEF TypeOK, PlacesOK, CallerPlaces, LoopPlaces
<1>3. LoopsOK'
  BY DEF TypeOK, PlacesOK, CallerPlaces, LoopPlaces, LoopsOK, StartingOK, StoppingOK, FreeOK, Open, Shut
<1>4. mu' = None => FreeOK'
  BY DEF TypeOK, PlacesOK, CallerPlaces, LoopPlaces, LoopsOK, StartingOK, StoppingOK, FreeOK, Open, Shut
<1>5. mu' # None /\ pc'[mu'] \in Starting => StartingOK(pc[mu])'
  BY DEF TypeOK, PlacesOK, CallerPlaces, LoopPlaces, LoopsOK, StartingOK, StoppingOK, FreeOK, Open, Shut
<1>6. mu' # None /\ pc'[mu'] \in Stopping => StoppingOK(pc[mu])'
  BY DEF TypeOK, PlacesOK, CallerPlaces, LoopPlaces, LoopsOK, StartingOK, StoppingOK, FreeOK, Open, Shut
<1>7. QED
  BY <1>1, <1>2, <1>3, <1>4, <1>5, <1>6 DEF EngineInv

LEMMA NotifyKeepsInv ==
  ASSUME EngineInv, NEW p \in Procs, Notify(p)
  PROVE  EngineInv'
<1> USE EngineAssumption DEF Procs, Loops, Waiting, Starting, Stopping
<1> USE DEF EngineInv, Notify, Goto, devices, sessionVars, Free, Return
<1>1. TypeOK'
  BY DEF TypeOK, Origins, Causes, PlacesOK, CallerPlaces, LoopPlaces
<1>2. PlacesOK'
  BY DEF TypeOK, PlacesOK, CallerPlaces, LoopPlaces
<1>3. LoopsOK'
  BY DEF TypeOK, PlacesOK, CallerPlaces, LoopPlaces, LoopsOK, StartingOK, StoppingOK, FreeOK, Open, Shut
<1>4. mu' = None => FreeOK'
  BY DEF TypeOK, PlacesOK, CallerPlaces, LoopPlaces, LoopsOK, StartingOK, StoppingOK, FreeOK, Open, Shut
<1>5. mu' # None /\ pc'[mu'] \in Starting => StartingOK(pc[mu])'
  BY DEF TypeOK, PlacesOK, CallerPlaces, LoopPlaces, LoopsOK, StartingOK, StoppingOK, FreeOK, Open, Shut
<1>6. mu' # None /\ pc'[mu'] \in Stopping => StoppingOK(pc[mu])'
  BY DEF TypeOK, PlacesOK, CallerPlaces, LoopPlaces, LoopsOK, StartingOK, StoppingOK, FreeOK, Open, Shut
<1>7. QED
  BY <1>1, <1>2, <1>3, <1>4, <1>5, <1>6 DEF EngineInv

LEMMA LoopLeavesKeepsInv ==
  ASSUME EngineInv, NEW g \in Loops, LoopLeaves(g)
  PROVE  EngineInv'
<1> USE EngineAssumption DEF Procs, Loops, Waiting, Starting, Stopping
<1> USE DEF EngineInv, LoopLeaves, Goto, devices, sessionVars, Free
<1>1. TypeOK'
  BY DEF TypeOK, Origins, Causes, PlacesOK, CallerPlaces, LoopPlaces
<1>2. PlacesOK'
  BY DEF TypeOK, PlacesOK, CallerPlaces, LoopPlaces
<1>3. LoopsOK'
  BY DEF TypeOK, PlacesOK, CallerPlaces, LoopPlaces, LoopsOK, StartingOK, StoppingOK, FreeOK, Open, Shut
<1>4. mu' = None => FreeOK'
  BY DEF TypeOK, PlacesOK, CallerPlaces, LoopPlaces, LoopsOK, StartingOK, StoppingOK, FreeOK, Open, Shut
<1>5. mu' # None /\ pc'[mu'] \in Starting => StartingOK(pc[mu])'
  BY DEF TypeOK, PlacesOK, CallerPlaces, LoopPlaces, LoopsOK, StartingOK, StoppingOK, FreeOK, Open, Shut
<1>6. mu' # None /\ pc'[mu'] \in Stopping => StoppingOK(pc[mu])'
  BY DEF TypeOK, PlacesOK, CallerPlaces, LoopPlaces, LoopsOK, StartingOK, StoppingOK, FreeOK, Open, Shut
<1>7. QED
  BY <1>1, <1>2, <1>3, <1>4, <1>5, <1>6 DEF EngineInv

LEMMA LoopGivesUpKeepsInv ==
  ASSUME EngineInv, NEW g \in Loops, LoopGivesUp(g)
  PROVE  EngineInv'
<1> USE EngineAssumption DEF Procs, Loops, Waiting, Starting, Stopping
<1> USE DEF EngineInv, LoopGivesUp, Goto, devices, sessionVars, Free
<1>1. TypeOK'
  BY DEF TypeOK, Origins, Causes, PlacesOK, CallerPlaces, LoopPlaces
<1>2. PlacesOK'
  BY DEF TypeOK, PlacesOK, CallerPlaces, LoopPlaces
<1>3. LoopsOK'
  BY DEF TypeOK, PlacesOK, CallerPlaces, LoopPlaces, LoopsOK, StartingOK, StoppingOK, FreeOK, Open, Shut
<1>4. mu' = None => FreeOK'
  BY DEF TypeOK, PlacesOK, CallerPlaces, LoopPlaces, LoopsOK, StartingOK, StoppingOK, FreeOK, Open, Shut
<1>5. mu' # None /\ pc'[mu'] \in Starting => StartingOK(pc[mu])'
  BY DEF TypeOK, PlacesOK, CallerPlaces, LoopPlaces, LoopsOK, StartingOK, StoppingOK, FreeOK, Open, Shut
<1>6. mu' # None /\ pc'[mu'] \in Stopping => StoppingOK(pc[mu])'
  BY DEF TypeOK, PlacesOK, CallerPlaces, LoopPlaces, LoopsOK, StartingOK, StoppingOK, FreeOK, Open, Shut
<1>7. QED
  BY <1>1, <1>2, <1>3, <1>4, <1>5, <1>6 DEF EngineInv

LEMMA CaptureLostKeepsInv ==
  ASSUME EngineInv, CaptureLost
  PROVE  EngineInv'
<1> USE EngineAssumption DEF Procs, Loops, Waiting, Starting, Stopping
<1> USE DEF EngineInv, CaptureLost, Goto, devices, sessionVars, Free
<1>1. TypeOK'
  BY DEF TypeOK, Origins, Causes, PlacesOK, CallerPlaces, LoopPlaces
<1>2. PlacesOK'
  BY DEF TypeOK, PlacesOK, CallerPlaces, LoopPlaces
<1>3. LoopsOK'
  BY DEF TypeOK, PlacesOK, CallerPlaces, LoopPlaces, LoopsOK, StartingOK, StoppingOK, FreeOK, Open, Shut
<1>4. mu' = None => FreeOK'
  BY DEF TypeOK, PlacesOK, CallerPlaces, LoopPlaces, LoopsOK, StartingOK, StoppingOK, FreeOK, Open, Shut
<1>5. mu' # None /\ pc'[mu'] \in Starting => StartingOK(pc[mu])'
  BY DEF TypeOK, PlacesOK, CallerPlaces, LoopPlaces, LoopsOK, StartingOK, StoppingOK, FreeOK, Open, Shut
<1>6. mu' # None /\ pc'[mu'] \in Stopping => StoppingOK(pc[mu])'
  BY DEF TypeOK, PlacesOK, CallerPlaces, LoopPlaces, LoopsOK, StartingOK, StoppingOK, FreeOK, Open, Shut
<1>7. QED
  BY <1>1, <1>2, <1>3, <1>4, <1>5, <1>6 DEF EngineInv

-----------------------------------------------------------------------------

LEMMA NextKeepsInv == EngineInv /\ [Next]_vars => EngineInv'
<1> SUFFICES ASSUME EngineInv, [Next]_vars PROVE EngineInv'
  OBVIOUS
<1>1. ASSUME NEW c \in Callers, Call(c) PROVE EngineInv'
  BY <1>1, CallKeepsInv
<1>2. ASSUME NEW p \in Procs, Acquire(p) PROVE EngineInv'
  BY <1>2, StartRefusedKeepsInv, StartAdmittedKeepsInv, StopKeepsInv, StopSessionKeepsInv, EndSessionKeepsInv DEF Acquire
<1>3. ASSUME NEW p \in Procs, Hold(p) PROVE EngineInv'
  <2>1. ASSUME p \in Callers, CaptureStarts(p) \/ CaptureRefuses(p) \/ Activate(p) PROVE EngineInv'
    BY <2>1, CaptureStartsKeepsInv, CaptureRefusesKeepsInv, ActivateKeepsInv
  <2>2. ASSUME p \in Callers, DialSucceeds(p) \/ DialRefused(p) \/ DialFails(p) PROVE EngineInv'
    BY <2>2, DialSucceedsKeepsInv, DialRefusedKeepsInv, DialFailsKeepsInv
  <2>3. ASSUME p \in Callers, Launch(p) \/ Publish(p) PROVE EngineInv'
    BY <2>3, LaunchKeepsInv, PublishKeepsInv
  <2>4. ASSUME Drain(p) \/ Teardown(p) \/ ClearRunning(p) \/ Notify(p) PROVE EngineInv'
    BY <2>4, DrainKeepsInv, TeardownKeepsInv, ClearRunningKeepsInv, NotifyKeepsInv
  <2>5. QED
    BY <1>3, <2>1, <2>2, <2>3, <2>4 DEF Hold
<1>4. ASSUME NEW g \in Loops, LoopLeaves(g) \/ LoopGivesUp(g) PROVE EngineInv'
  BY <1>4, LoopLeavesKeepsInv, LoopGivesUpKeepsInv
<1>5. CASE CaptureLost
  BY <1>5, CaptureLostKeepsInv
<1>6. CASE UNCHANGED vars
  BY <1>6 DEF vars, EngineInv, TypeOK, PlacesOK, LoopsOK, FreeOK, StartingOK, StoppingOK, Open, Shut
<1>7. QED
  BY <1>1, <1>2, <1>3, <1>4, <1>5, <1>6 DEF Next

\* EngineInv holds in every reachable state: whoever holds e.mu, the devices,
\* the atomics and the loops are as its place in the code says.
THEOREM EngineInvariant == Spec => []EngineInv
<1>1. Init => EngineInv
  BY InitEstablishesInv
<1>2. EngineInv /\ [Next]_vars => EngineInv'
  BY NextKeepsInv
<1>3. QED
  BY <1>1, <1>2, PTL DEF Spec

\* Every variable keeps its type; in particular a start never retries the
\* handshake beyond its deadline.
THEOREM TypeCorrect == Spec => []TypeOK
<1>1. EngineInv => TypeOK
  BY DEF EngineInv
<1>2. QED
  BY <1>1, EngineInvariant, PTL

\* The capturer and the DTLS connection are open exactly while a session runs,
\* whenever nobody is inside the engine: stopLocked and the error path of
\* StartSession close both.
THEOREM DevicesFollow == Spec => []DevicesFollowSession
<1>1. EngineInv => DevicesFollowSession
  BY DEF EngineInv, DevicesFollowSession, FreeOK, Open, Shut, Free, TypeOK
<1>2. QED
  BY <1>1, EngineInvariant, PTL

\* syncLoopWg.Wait in stopLocked: no loop ever streams over devices that are
\* closed, or that belong to another session.
THEOREM LoopOwns == Spec => []LoopOwnsDevices
<1>1. EngineInv => LoopOwnsDevices
  BY DEF EngineInv, LoopOwnsDevices, LoopsOK, Open
<1>2. QED
  BY <1>1, EngineInvariant, PTL

\* A session reported running while nobody is inside the engine has a loop.
THEOREM NoneStranded == Spec => []NoStrandedSession
<1>1. EngineInv => NoStrandedSession
  BY DEF EngineInv, NoStrandedSession, FreeOK, Free
<1>2. QED
  BY <1>1, EngineInvariant, PTL

\* The session observer is never behind or ahead between calls.
THEOREM ObserverStaysInStep == Spec => []ObserverInStep
<1>1. EngineInv => ObserverInStep
  BY DEF EngineInv, ObserverInStep, FreeOK, Free
<1>2. QED
  BY <1>1, EngineInvariant, PTL

-----------------------------------------------------------------------------
(* Action properties: what EngineInv says of the state a step starts from.   *)

LEMMA OnlyClearRunningEnds ==
  ASSUME EngineInv, Next, running, ~running'
  PROVE  \E p \in Procs : ClearRunning(p)
BY DEF Next, Acquire, Hold, Call, StartRefused, StartAdmitted, CaptureStarts, CaptureRefuses,
       Activate, DialSucceeds, DialRefused, DialFails, Launch, Publish, Stop, StopSession,
       EndSession, Drain, Teardown, Notify, LoopLeaves, LoopGivesUp, CaptureLost, sessionVars

LEMMA EndIsRecorded ==
  ASSUME EngineInv, Next, running, ~running'
  PROVE  failure = "none" <=> mu \in Callers
<1>1. PICK p \in Procs : ClearRunning(p)
  BY OnlyClearRunningEnds
<1>2. mu = p /\ pc[mu] = "clear" /\ mu # None
  BY <1>1, EngineAssumption DEF ClearRunning, Procs, Loops
<1>3. StoppingOK(pc[mu])
  BY <1>2 DEF EngineInv, Stopping
<1>4. QED
  BY <1>3 DEF StoppingOK

\* A reader of the two atomics never takes a lost session for a stopped one, nor
\* a stopped one for a lost one: the cause is in place when running is cleared.
THEOREM FailureIsBeforeEnd == Spec => FailureBeforeEnd
<1>1. EngineInv /\ [Next]_vars => [running /\ ~running' => (failure = "none" <=> mu \in Callers)]_vars
  BY EndIsRecorded
<1>2. QED
  BY <1>1, EngineInvariant, PTL DEF Spec, FailureBeforeEnd

\* The actions that write a cause, as opposed to clearing it.
Records == \/ \E c \in Callers : CaptureRefuses(c) \/ DialFails(c)
           \/ \E g \in Loops : EndSession(g)

LEMMA OnlyRecordsRecord ==
  ASSUME EngineInv, Next, failure = "none", failure' # "none"
  PROVE  Records
BY DEF Records, Next, Acquire, Hold, Call, StartRefused, StartAdmitted, CaptureStarts,
       Activate, DialSucceeds, DialRefused, Launch, Publish, Stop, StopSession,
       Drain, Teardown, ClearRunning, Notify, LoopLeaves, LoopGivesUp, CaptureLost

LEMMA RecordedByItsOwner ==
  ASSUME EngineInv, Next, failure = "none", failure' # "none"
  PROVE  (mu \in Callers /\ ~running) \/ (running /\ mu' = generation)
<1>1. Records
  BY OnlyRecordsRecord
<1>2. ASSUME NEW c \in Callers, CaptureRefuses(c) \/ DialFails(c)
      PROVE  mu \in Callers /\ ~running
  <2>1. mu = c /\ pc[mu] \in {"capture", "dial"} /\ mu # None
    BY <1>2, EngineAssumption DEF CaptureRefuses, DialFails
  <2>2. StartingOK(pc[mu])
    BY <2>1 DEF EngineInv, Starting
  <2>3. QED
    BY <2>1, <2>2 DEF StartingOK
<1>3. ASSUME NEW g \in Loops, EndSession(g) PROVE running /\ mu' = generation
  BY <1>3 DEF EndSession, Current, Cancel
<1>4. QED
  BY <1>1, <1>2, <1>3 DEF Records

\* A failure once cleared comes back only from a start under e.mu or from the
\* loop of the running session: no late loop undoes a Stop.
THEOREM StopsStand == Spec => StopStands
<1>1. EngineInv /\ [Next]_vars =>
        [failure = "none" /\ failure' # "none" =>
           (mu \in Callers /\ ~running) \/ (running /\ mu' = generation)]_vars
  BY RecordedByItsOwner
<1>2. QED
  BY <1>1, EngineInvariant, PTL DEF Spec, StopStands

-----------------------------------------------------------------------------
(* Refinement: each step of the engine is a step of SessionControl, or shows  *)
(* nothing it speaks of.                                                      *)

LEMMA HolderStepByPlace ==
  /\ mu = None => HolderStep = "free"
  /\ mu # None /\ pc[mu] \in {"capture", "activate", "dial", "launch"} => HolderStep = "starting"
  /\ mu # None /\ pc[mu] = "publish" => HolderStep = "launched"
  /\ mu # None /\ pc[mu] \in {"drain", "teardown", "clear"} => HolderStep = "stopping"
  /\ mu # None /\ pc[mu] = "notify" => HolderStep = "ended"
BY DEF HolderStep, Free

LEMMA HolderStepByPlaceNext ==
  /\ mu' = None => HolderStep' = "free"
  /\ mu' # None /\ pc'[mu'] \in {"capture", "activate", "dial", "launch"} => HolderStep' = "starting"
  /\ mu' # None /\ pc'[mu'] = "publish" => HolderStep' = "launched"
  /\ mu' # None /\ pc'[mu'] \in {"drain", "teardown", "clear"} => HolderStep' = "stopping"
  /\ mu' # None /\ pc'[mu'] = "notify" => HolderStep' = "ended"
BY DEF HolderStep, Free

\* A goroutine that does not hold e.mu moves: what the holder does is unchanged.
LEMMA OthersMoveUnseen ==
  ASSUME EngineInv, NEW p \in Procs, NEW place, mu # p, mu' = mu,
         pc' = [pc EXCEPT ![p] = place]
  PROVE  HolderStep' = HolderStep
<1>1. mu # None => pc'[mu] = pc[mu]
  BY DEF EngineInv, TypeOK
<1>2. QED
  BY <1>1 DEF HolderStep, Free

\* The steps of a goroutine that holds e.mu to start a session.
StartHold(c) ==
  \/ CaptureStarts(c) \/ CaptureRefuses(c) \/ Activate(c) \/ DialSucceeds(c)
  \/ DialRefused(c) \/ DialFails(c) \/ Launch(c) \/ Publish(c)

LEMMA InitImplements == Init => Control!ControlInit
BY DEF Init, Control!ControlInit, Control!NoReport, HolderStep, Free

LEMMA StepImplements ==
  EngineInv /\ [Next]_vars => [Control!ControlNext]_(Control!controlVars)
<1> SUFFICES ASSUME EngineInv, [Next]_vars
             PROVE  [Control!ControlNext]_(Control!controlVars)
  OBVIOUS
<1> DEFINE Hidden == UNCHANGED <<mu, HolderStep, running, failure, generation, origin, reported>>
<1>a. Hidden => UNCHANGED Control!controlVars
  BY DEF Control!controlVars
<1>b. /\ pc \in [Procs -> CallerPlaces \cup LoopPlaces]
      /\ \A p \in Procs : mu = p <=> pc[p] \in Starting \cup Stopping
      /\ None \notin Procs
  BY EngineAssumption DEF EngineInv, TypeOK, PlacesOK, Procs, Loops
<1>1. ASSUME NEW c \in Callers, Call(c) PROVE Hidden
  <2>1. mu # c
    BY <1>1, <1>b DEF Call, Procs, Starting, Stopping
  <2>2. PICK place : pc' = [pc EXCEPT ![c] = place]
    BY <1>1 DEF Call, Goto
  <2>3. HolderStep' = HolderStep
    BY <1>1, <2>1, <2>2, OthersMoveUnseen DEF Call, Procs
  <2>4. QED
    BY <1>1, <2>3 DEF Call, sessionVars
<1>2. ASSUME NEW c \in Callers, Acquire(c) PROVE Hidden \/ Control!ControlNext
  <2>0. c \in Procs /\ mu # c /\ c \notin Loops
    BY <1>2, <1>b, EngineAssumption
       DEF Acquire, StartRefused, StartAdmitted, Stop, StopSession, EndSession, Free, Procs, Starting, Stopping, Loops
  <2>1. CASE StartRefused(c)
    BY <2>0, <2>1, OthersMoveUnseen DEF StartRefused, Goto, sessionVars
  <2>2. CASE StartAdmitted(c)
    <3>1. HolderStep = "free" /\ HolderStep' = "starting"
      BY <2>0, <2>2, <1>b, HolderStepByPlace, HolderStepByPlaceNext DEF StartAdmitted, Goto, Free
    <3>2. Control!BeginStart(c)
      BY <2>2, <3>1 DEF StartAdmitted, Free, sessionVars, Control!BeginStart, Control!Free,
                        Control!Take, Control!Unseen
    <3>3. QED
      BY <3>2 DEF Control!ControlNext
  <2>3. CASE Stop(c)
    <3>1. CASE running
      <4>1. HolderStep' = "stopping"
        BY <2>0, <2>3, <3>1, <1>b, HolderStepByPlaceNext DEF Stop, Cancel, Goto
      <4>2. Control!BeginStop(c)
        BY <2>3, <3>1, <4>1 DEF Stop, Cancel, Free, Control!BeginStop, Control!Free, Control!Take, Control!Unseen
      <4>3. QED
        BY <4>2 DEF Control!ControlNext
    <3>2. CASE ~running
      <4>1. HolderStep' = HolderStep
        BY <2>0, <2>3, <3>2, OthersMoveUnseen DEF Stop, Goto
      <4>2. Control!BeginStop(c)
        BY <2>3, <3>2, <4>1 DEF Stop, Free, Control!BeginStop, Control!Free, Control!Unseen
      <4>3. QED
        BY <4>2 DEF Control!ControlNext
    <3>3. QED
      BY <3>1, <3>2
  <2>4. CASE StopSession(c)
    <3>1. CASE Current(mine[c])
      <4>1. HolderStep' = "stopping"
        BY <2>0, <2>4, <3>1, <1>b, HolderStepByPlaceNext DEF StopSession, Cancel, Goto
      <4>2. mine[c] \in Control!Loops
        BY <2>4, <3>1, EngineAssumption
           DEF StopSession, Free, Current, EngineInv, TypeOK, FreeOK, Control!Loops
      <4>3. Control!BeginStopSession(c, mine[c])
        BY <2>4, <3>1, <4>1
           DEF StopSession, Current, Cancel, Free, Control!BeginStopSession, Control!Free, Control!Take, Control!Unseen
      <4>4. QED
        BY <4>2, <4>3 DEF Control!ControlNext
    <3>2. CASE ~Current(mine[c])
      BY <2>0, <2>4, <3>2, OthersMoveUnseen DEF StopSession, Goto
    <3>3. QED
      BY <3>1, <3>2
  <2>5. QED
    BY <1>2, <2>0, <2>1, <2>2, <2>3, <2>4 DEF Acquire
<1>3. ASSUME NEW g \in Loops, Acquire(g) PROVE Hidden \/ Control!ControlNext
  <2>0. g \in Procs /\ mu # g /\ EndSession(g)
    BY <1>3, <1>b, EngineAssumption DEF Acquire, EndSession, Free, Procs, Starting, Stopping, Loops
  <2>1. CASE Current(g)
    <3>1. HolderStep' = "stopping"
      BY <2>0, <2>1, <1>b, HolderStepByPlaceNext DEF EndSession, Cancel, Goto
    <3>2. Control!BeginEnd
      BY <2>0, <2>1, <3>1
         DEF EndSession, Current, Cancel, Free, Control!BeginEnd, Control!Free, Control!Take, Control!Unseen
    <3>3. QED
      BY <3>2 DEF Control!ControlNext
  <2>2. CASE ~Current(g)
    BY <2>0, <2>2, OthersMoveUnseen DEF EndSession, Goto
  <2>3. QED
    BY <2>1, <2>2
<1>4. ASSUME NEW c \in Callers, mu = c, StartHold(c) PROVE Hidden \/ Control!ControlNext
  <2>0. c \in Procs /\ c # None
    BY <1>b DEF Procs
  <2>1. CASE CaptureStarts(c) \/ Activate(c) \/ DialSucceeds(c) \/ DialRefused(c)
    <3>1. HolderStep = "starting" /\ HolderStep' = "starting"
      BY <2>0, <2>1, <1>b, HolderStepByPlace, HolderStepByPlaceNext
         DEF CaptureStarts, Activate, DialSucceeds, DialRefused, Goto
    <3>2. QED
      BY <2>1, <3>1 DEF CaptureStarts, Activate, DialSucceeds, DialRefused, sessionVars
  <2>2. CASE CaptureRefuses(c) \/ DialFails(c)
    <3>1. HolderStep = "starting" /\ HolderStep' = "free"
      BY <2>0, <2>2, HolderStepByPlace, HolderStepByPlaceNext DEF CaptureRefuses, DialFails
    <3>2. \E cause \in {"none", "capture", "connect"} : Control!FailStart(c, cause)
      BY <1>4, <2>2, <3>1 DEF CaptureRefuses, StartCause, DialFails, sessionVars,
                              Control!FailStart, Control!Release, Control!Unseen
    <3>3. QED
      BY <3>2 DEF Control!ControlNext
  <2>3. CASE Launch(c)
    <3>1. HolderStep = "starting" /\ HolderStep' = "launched"
      BY <2>0, <2>3, <1>b, HolderStepByPlace, HolderStepByPlaceNext DEF Launch, Goto
    <3>2. origin' \in Control!Origins /\ Control!Launch(c, origin')
      BY <1>4, <2>3, <3>1 DEF Launch, Origins, Control!Origins, Control!Launch
    <3>3. QED
      BY <3>2 DEF Control!ControlNext
  <2>4. CASE Publish(c)
    <3>1. HolderStep = "launched" /\ HolderStep' = "free"
      BY <2>0, <2>4, HolderStepByPlace, HolderStepByPlaceNext DEF Publish
    <3>2. Control!Publish(c)
      BY <1>4, <2>4, <3>1 DEF Publish, Control!Publish, Control!Release
    <3>3. QED
      BY <3>2 DEF Control!ControlNext
  <2>5. QED
    BY <1>4, <2>1, <2>2, <2>3, <2>4 DEF StartHold
<1>5. ASSUME NEW p \in Procs, Drain(p) \/ Teardown(p) \/ ClearRunning(p) \/ Notify(p)
      PROVE  Hidden \/ Control!ControlNext
  <2>0. mu = p /\ p # None /\ p \in Control!Procs
    BY <1>5, <1>b DEF Drain, Teardown, ClearRunning, Notify, Procs, Loops, Control!Procs, Control!Loops
  <2>1. CASE Drain(p) \/ Teardown(p)
    <3>1. HolderStep = "stopping" /\ HolderStep' = "stopping"
      BY <2>0, <2>1, <1>b, HolderStepByPlace, HolderStepByPlaceNext DEF Drain, Teardown, Goto
    <3>2. QED
      BY <2>1, <3>1 DEF Drain, Teardown, sessionVars
  <2>2. CASE ClearRunning(p)
    <3>1. HolderStep = "stopping" /\ HolderStep' = "ended"
      BY <2>0, <2>2, <1>b, HolderStepByPlace, HolderStepByPlaceNext DEF ClearRunning, Goto
    <3>2. Control!ClearRunning(p)
      BY <2>0, <2>2, <3>1 DEF ClearRunning, Control!ClearRunning
    <3>3. QED
      BY <2>0, <3>2 DEF Control!ControlNext
  <2>3. CASE Notify(p)
    <3>1. HolderStep = "ended" /\ HolderStep' = "free"
      BY <2>0, <2>3, HolderStepByPlace, HolderStepByPlaceNext DEF Notify
    <3>2. Control!EndNotified(p)
      BY <2>0, <2>3, <3>1 DEF Notify, Control!EndNotified, Control!Release
    <3>3. QED
      BY <2>0, <3>2 DEF Control!ControlNext
  <2>4. QED
    BY <1>5, <2>1, <2>2, <2>3
<1>6. ASSUME NEW g \in Loops, LoopLeaves(g) \/ LoopGivesUp(g) PROVE Hidden
  <2>1. g \in Procs /\ mu # g
    BY <1>6, <1>b DEF LoopLeaves, LoopGivesUp, Procs, Starting, Stopping
  <2>2. HolderStep' = HolderStep
    BY <1>6, <2>1, OthersMoveUnseen DEF LoopLeaves, LoopGivesUp, Goto
  <2>3. QED
    BY <1>6, <2>2 DEF LoopLeaves, LoopGivesUp, sessionVars
<1>7. CASE CaptureLost
  BY <1>a, <1>7 DEF CaptureLost, sessionVars, HolderStep, Free
<1>8. CASE UNCHANGED vars
  BY <1>a, <1>8 DEF vars, devices, sessionVars, HolderStep, Free
<1>9. ASSUME NEW p \in Procs, Hold(p) PROVE Hidden \/ Control!ControlNext
  <2>1. ASSUME p \in Callers, StartHold(p) PROVE mu = p
    BY <2>1 DEF StartHold, CaptureStarts, CaptureRefuses, Activate, DialSucceeds, DialRefused,
                DialFails, Launch, Publish
  <2>2. QED
    BY <1>4, <1>5, <1>9, <2>1 DEF Hold, StartHold
<1>10. QED
  BY <1>a, <1>1, <1>2, <1>3, <1>6, <1>7, <1>8, <1>9 DEF Next, Procs

\* The engine implements its abstract specification.
THEOREM EngineImplementsControl == Spec => ImplementsControl
<1>1. QED
  BY InitImplements, StepImplements, EngineInvariant, PTL DEF Spec, ImplementsControl, Control!ControlSpec

-----------------------------------------------------------------------------
(* Waiting with e.mu held.                                                 *)

\* A step of anyone but the holder leaves the holder where it is, and the
\* running session and its context alone.
LEMMA OthersLeaveHolder ==
  ASSUME EngineInv, NEW p \in Procs, p # mu, NEW place, Goto(p, place),
         UNCHANGED <<mu, generation, cancelled>>, CancelsBeforeDrain, RoomForStart
  PROVE  CancelsBeforeDrain' /\ RoomForStart'
<1>1. mu # None => pc'[mu] = pc[mu]
  BY DEF EngineInv, TypeOK, Goto
<1>2. QED
  BY <1>1 DEF CancelsBeforeDrain, RoomForStart

\* The holder that moves on within a start, or leaves the drain behind, keeps
\* both facts.
LEMMA HolderMoves ==
  ASSUME EngineInv, NEW p \in Procs, mu = p, NEW place, Goto(p, place),
         UNCHANGED <<generation, cancelled>>, CancelsBeforeDrain, RoomForStart,
         mu' = p \/ mu' = None,
         place # "drain",
         place \in {"capture", "activate", "dial", "launch"} =>
           pc[p] \in {"capture", "activate", "dial", "launch"}
  PROVE  CancelsBeforeDrain' /\ RoomForStart'
<1>1. pc'[p] = place /\ mu # None
  BY EngineAssumption DEF EngineInv, TypeOK, Goto, Procs, Loops
<1>2. QED
  BY <1>1 DEF CancelsBeforeDrain, RoomForStart

\* Whoever cancels drains the session it cancelled.
LEMMA CancelDrains ==
  ASSUME EngineInv, NEW p \in Procs, Cancel(p), UNCHANGED generation
  PROVE  CancelsBeforeDrain' /\ RoomForStart'
<1>1. mu' = p /\ pc'[p] = "drain" /\ generation' \in cancelled'
  BY DEF EngineInv, TypeOK, Cancel, Goto
<1>2. QED
  BY <1>1 DEF CancelsBeforeDrain, RoomForStart

LEMMA AcquireKeepsWait ==
  ASSUME EngineInv, CancelsBeforeDrain, RoomForStart, NEW p \in Procs, Acquire(p)
  PROVE  CancelsBeforeDrain' /\ RoomForStart'
<1>0. Free => p # mu
  BY EngineAssumption DEF Free, Procs, Loops
<1>1. CASE StartRefused(p)
  <2>1. Goto(p, "idle") /\ UNCHANGED <<mu, generation, cancelled>> /\ Free
    BY <1>1 DEF StartRefused, sessionVars
  <2>2. QED
    BY <1>0, <2>1, OthersLeaveHolder
<1>2. CASE StartAdmitted(p)
  <2>1. mu' = p /\ pc'[p] = "capture" /\ generation' = generation /\ generation < MaxSessions
    BY <1>2 DEF StartAdmitted, sessionVars, Goto, EngineInv, TypeOK
  <2>2. QED
    BY <2>1 DEF CancelsBeforeDrain, RoomForStart
<1>3. CASE Stop(p)
  <2>1. UNCHANGED generation /\ Free
    BY <1>3 DEF Stop
  <2>2. CASE running
    BY <1>3, <2>1, <2>2, CancelDrains DEF Stop
  <2>3. CASE ~running
    <3>1. Goto(p, "idle") /\ UNCHANGED <<mu, generation, cancelled>>
      BY <1>3, <2>3 DEF Stop
    <3>2. QED
      BY <1>0, <2>1, <3>1, OthersLeaveHolder
  <2>4. QED
    BY <2>2, <2>3
<1>4. CASE StopSession(p)
  <2>1. UNCHANGED generation /\ Free
    BY <1>4 DEF StopSession
  <2>2. CASE Current(mine[p])
    BY <1>4, <2>1, <2>2, CancelDrains DEF StopSession
  <2>3. CASE ~Current(mine[p])
    <3>1. Goto(p, "idle") /\ UNCHANGED <<mu, generation, cancelled>>
      BY <1>4, <2>3 DEF StopSession
    <3>2. QED
      BY <1>0, <2>1, <3>1, OthersLeaveHolder
  <2>4. QED
    BY <2>2, <2>3
<1>5. CASE EndSession(p)
  <2>1. UNCHANGED generation /\ Free
    BY <1>5 DEF EndSession
  <2>2. CASE Current(p)
    BY <1>5, <2>1, <2>2, CancelDrains DEF EndSession
  <2>3. CASE ~Current(p)
    <3>1. Goto(p, "done") /\ UNCHANGED <<mu, generation, cancelled>>
      BY <1>5, <2>3 DEF EndSession
    <3>2. QED
      BY <1>0, <2>1, <3>1, OthersLeaveHolder
  <2>4. QED
    BY <2>2, <2>3
<1>6. QED
  BY <1>1, <1>2, <1>3, <1>4, <1>5 DEF Acquire

LEMMA HoldKeepsWait ==
  ASSUME EngineInv, CancelsBeforeDrain, RoomForStart, NEW p \in Procs, Hold(p)
  PROVE  CancelsBeforeDrain' /\ RoomForStart'
<1>1. CASE CaptureStarts(p) \/ Activate(p) \/ DialSucceeds(p) \/ DialRefused(p)
  <2>1. /\ mu = p /\ UNCHANGED <<mu, generation, cancelled>>
        /\ pc[p] \in {"capture", "activate", "dial"}
        /\ Goto(p, "activate") \/ Goto(p, "dial") \/ Goto(p, "launch")
    BY <1>1 DEF CaptureStarts, Activate, DialSucceeds, DialRefused, sessionVars
  <2>2. QED
    BY <2>1, HolderMoves
<1>2. CASE CaptureRefuses(p) \/ DialFails(p)
  <2>1. mu = p /\ mu' = None /\ Goto(p, "idle") /\ UNCHANGED <<generation, cancelled>>
    BY <1>2 DEF CaptureRefuses, DialFails, sessionVars
  <2>2. QED
    BY <2>1, HolderMoves
<1>3. CASE Launch(p)
  <2>1. mu' = p /\ pc'[p] = "publish"
    BY <1>3 DEF Launch, Goto, EngineInv, TypeOK
  <2>2. QED
    BY <2>1 DEF CancelsBeforeDrain, RoomForStart
<1>4. CASE Publish(p)
  BY <1>4 DEF Publish, CancelsBeforeDrain, RoomForStart
<1>5. CASE Drain(p) \/ Teardown(p) \/ ClearRunning(p)
  <2>1. /\ mu = p /\ UNCHANGED <<mu, generation, cancelled>>
        /\ Goto(p, "teardown") \/ Goto(p, "clear") \/ Goto(p, "notify")
    BY <1>5 DEF Drain, Teardown, ClearRunning, sessionVars
  <2>2. QED
    BY <2>1, HolderMoves
<1>6. CASE Notify(p)
  BY <1>6 DEF Notify, CancelsBeforeDrain, RoomForStart
<1>7. QED
  BY <1>1, <1>2, <1>3, <1>4, <1>5, <1>6 DEF Hold

LEMMA NextKeepsWait ==
  ASSUME EngineInv, CancelsBeforeDrain, RoomForStart, [Next]_vars
  PROVE  CancelsBeforeDrain' /\ RoomForStart'
<1>1. ASSUME NEW c \in Callers, Call(c) PROVE CancelsBeforeDrain' /\ RoomForStart'
  <2>1. PICK place \in Waiting : Goto(c, place)
    BY <1>1 DEF Call
  <2>2. c \in Procs /\ c # mu /\ UNCHANGED <<mu, generation, cancelled>>
    BY <1>1 DEF Call, sessionVars, Procs, EngineInv, PlacesOK, Starting, Stopping
  <2>3. QED
    BY <2>1, <2>2, OthersLeaveHolder
<1>2. ASSUME NEW p \in Procs, Acquire(p) \/ Hold(p) PROVE CancelsBeforeDrain' /\ RoomForStart'
  BY <1>2, AcquireKeepsWait, HoldKeepsWait
<1>3. ASSUME NEW g \in Loops, LoopLeaves(g) \/ LoopGivesUp(g)
      PROVE  CancelsBeforeDrain' /\ RoomForStart'
  <2>1. /\ g \in Procs /\ g # mu /\ UNCHANGED <<mu, generation, cancelled>>
        /\ Goto(g, "done") \/ Goto(g, "giveUp")
    BY <1>3 DEF LoopLeaves, LoopGivesUp, sessionVars, Procs, EngineInv, PlacesOK, Starting, Stopping
  <2>2. QED
    BY <2>1, OthersLeaveHolder
<1>4. CASE CaptureLost \/ UNCHANGED vars
  <2>1. UNCHANGED <<mu, pc, generation, cancelled>>
    BY <1>4 DEF CaptureLost, sessionVars, vars
  <2>2. QED
    BY <2>1 DEF CancelsBeforeDrain, RoomForStart
<1>5. QED
  BY <1>1, <1>2, <1>3, <1>4 DEF Next

\* The engine cannot deadlock: whoever holds e.mu in stopLocked has cancelled
\* the loop it waits for, and every other place of a holder waits for nobody.
THEOREM NeverMutualWait == Spec => []NoMutualWait
<1>1. Init => CancelsBeforeDrain /\ RoomForStart
  BY DEF Init, CancelsBeforeDrain, RoomForStart
<1>2. EngineInv /\ CancelsBeforeDrain /\ RoomForStart /\ [Next]_vars
      => (CancelsBeforeDrain /\ RoomForStart)'
  BY NextKeepsWait
<1>3. EngineInv /\ CancelsBeforeDrain /\ RoomForStart => NoMutualWait
  BY DEF EngineInv, LoopsOK, CancelsBeforeDrain, RoomForStart, NoMutualWait
<1>4. QED
  BY <1>1, <1>2, <1>3, EngineInvariant, PTL DEF Spec

-----------------------------------------------------------------------------
(* What the observer is told.                                              *)

\* A step of anyone but the holder leaves the holder and the reports alone.
LEMMA OthersLeaveReports ==
  ASSUME EngineInv, NEW p \in Procs, p # mu, NEW place, Goto(p, place),
         UNCHANGED <<mu, origin, reported>>, ReportPending
  PROVE  ReportPending'
<1>1. mu # None => pc'[mu] = pc[mu]
  BY DEF EngineInv, TypeOK, Goto
<1>2. QED
  BY <1>1 DEF ReportPending

\* So does the holder that goes on with the same start or the same stop.
LEMMA HolderLeavesReports ==
  ASSUME EngineInv, NEW p \in Procs, mu = p, NEW place, Goto(p, place),
         UNCHANGED <<mu, reported>>, ReportPending,
         place \in Starting => pc[p] \in Starting,
         place \in Stopping => pc[p] \in Stopping /\ UNCHANGED origin
  PROVE  ReportPending'
<1>1. pc'[p] = place /\ mu # None
  BY EngineAssumption DEF EngineInv, TypeOK, Goto, Procs, Loops
<1>2. QED
  BY <1>1 DEF ReportPending

\* Whoever takes e.mu finds the last report true.
LEMMA TakenInStep ==
  ASSUME EngineInv, Free, NEW p \in Procs, NEW place, Goto(p, place), mu' = p,
         UNCHANGED <<origin, reported>>,
         \/ place = "capture" /\ ~running
         \/ place = "drain" /\ running
  PROVE  ReportPending'
<1>1. reported = [running |-> running, origin |-> origin]
  BY DEF EngineInv, FreeOK, Free
<1>2. pc'[p] = place
  BY DEF EngineInv, TypeOK, Goto
<1>3. CASE place = "capture" /\ ~running
  BY <1>1, <1>2, <1>3 DEF ReportPending, Starting, Stopping
<1>4. CASE place = "drain" /\ running
  <2>1. reported' = [running |-> TRUE, origin |-> origin']
    BY <1>1, <1>4 DEF EngineInv, TypeOK
  <2>2. QED
    BY <1>2, <1>4, <2>1 DEF ReportPending, Starting, Stopping
<1>5. QED
  BY <1>3, <1>4

LEMMA AcquireKeepsReports ==
  ASSUME EngineInv, ReportPending, NEW p \in Procs, Acquire(p)
  PROVE  ReportPending'
<1>1. Free => p # mu
  BY EngineAssumption DEF Free, Procs, Loops
<1>2. Free /\ UNCHANGED <<origin, reported>>
  BY DEF Acquire, StartRefused, StartAdmitted, Stop, StopSession, EndSession, sessionVars
<1>3. CASE mu' = mu
  <2>1. Goto(p, "idle") \/ Goto(p, "done")
    BY <1>1, <1>2, <1>3 DEF Acquire, StartRefused, StartAdmitted, Stop, StopSession, EndSession, Cancel
  <2>2. QED
    BY <1>1, <1>2, <1>3, <2>1, OthersLeaveReports
<1>4. CASE mu' # mu
  <2>1. mu' = p
    BY <1>4 DEF Acquire, StartRefused, StartAdmitted, Stop, StopSession, EndSession, Cancel
  <2>2. (Goto(p, "capture") /\ ~running) \/ (Goto(p, "drain") /\ running)
    BY <1>4 DEF Acquire, StartRefused, StartAdmitted, Stop, StopSession, EndSession, Cancel, Current
  <2>3. QED
    BY <1>2, <2>1, <2>2, TakenInStep
<1>5. QED
  BY <1>3, <1>4

LEMMA HoldKeepsReports ==
  ASSUME EngineInv, ReportPending, NEW p \in Procs, Hold(p)
  PROVE  ReportPending'
<1>1. CASE CaptureStarts(p) \/ Activate(p) \/ DialSucceeds(p) \/ DialRefused(p) \/ Launch(p)
  <2>1. /\ mu = p /\ UNCHANGED <<mu, reported>> /\ pc[p] \in Starting
        /\ Goto(p, "activate") \/ Goto(p, "dial") \/ Goto(p, "launch") \/ Goto(p, "publish")
    BY <1>1 DEF CaptureStarts, Activate, DialSucceeds, DialRefused, Launch, sessionVars, Starting
  <2>2. QED
    BY <2>1, HolderLeavesReports DEF Starting, Stopping
<1>2. CASE Drain(p) \/ Teardown(p) \/ ClearRunning(p)
  <2>1. /\ mu = p /\ UNCHANGED <<mu, origin, reported>> /\ pc[p] \in Stopping
        /\ Goto(p, "teardown") \/ Goto(p, "clear") \/ Goto(p, "notify")
    BY <1>2 DEF Drain, Teardown, ClearRunning, sessionVars, Stopping
  <2>2. QED
    BY <2>1, HolderLeavesReports DEF Starting, Stopping
<1>3. CASE CaptureRefuses(p) \/ DialFails(p) \/ Publish(p) \/ Notify(p)
  BY <1>3 DEF CaptureRefuses, DialFails, Publish, Notify, ReportPending
<1>4. QED
  BY <1>1, <1>2, <1>3 DEF Hold

LEMMA NextKeepsReports ==
  ASSUME EngineInv, ReportPending, [Next]_vars
  PROVE  ReportPending'
<1>1. ASSUME NEW c \in Callers, Call(c) PROVE ReportPending'
  <2>1. PICK place \in Waiting : Goto(c, place)
    BY <1>1 DEF Call
  <2>2. c \in Procs /\ c # mu /\ UNCHANGED <<mu, origin, reported>>
    BY <1>1 DEF Call, sessionVars, Procs, EngineInv, PlacesOK, Starting, Stopping
  <2>3. QED
    BY <2>1, <2>2, OthersLeaveReports
<1>2. ASSUME NEW p \in Procs, Acquire(p) \/ Hold(p) PROVE ReportPending'
  BY <1>2, AcquireKeepsReports, HoldKeepsReports
<1>3. ASSUME NEW g \in Loops, LoopLeaves(g) \/ LoopGivesUp(g) PROVE ReportPending'
  <2>1. /\ g \in Procs /\ g # mu /\ UNCHANGED <<mu, origin, reported>>
        /\ Goto(g, "done") \/ Goto(g, "giveUp")
    BY <1>3 DEF LoopLeaves, LoopGivesUp, sessionVars, Procs, EngineInv, PlacesOK, Starting, Stopping
  <2>2. QED
    BY <2>1, OthersLeaveReports
<1>4. CASE CaptureLost \/ UNCHANGED vars
  <2>1. UNCHANGED <<mu, pc, origin, reported>>
    BY <1>4 DEF CaptureLost, sessionVars, vars
  <2>2. QED
    BY <2>1 DEF ReportPending
<1>5. QED
  BY <1>1, <1>2, <1>3, <1>4 DEF Next

\* The session observer hears starts and ends in turn, each end under its
\* start's origin, for any callers and any number of sessions.
THEOREM ReportsAlwaysAlternate == Spec => ReportsAlternate
<1> DEFINE Told == /\ \A c \in Callers : Publish(c) => ~reported.running
                   /\ \A p \in Procs : Notify(p) => reported = [running |-> TRUE, origin |-> origin]
<1>1. Init => ReportPending
  BY DEF Init, ReportPending
<1>2. EngineInv /\ ReportPending /\ [Next]_vars => ReportPending'
  BY NextKeepsReports
<1>3. ReportPending /\ [Next]_vars => [Told]_vars
  <2> SUFFICES ASSUME ReportPending PROVE Told
    OBVIOUS
  <2>1. ASSUME NEW c \in Callers, Publish(c) PROVE ~reported.running
    BY <2>1, EngineAssumption DEF Publish, ReportPending, Starting
  <2>2. ASSUME NEW p \in Procs, Notify(p) PROVE reported = [running |-> TRUE, origin |-> origin]
    BY <2>2, EngineAssumption DEF Notify, ReportPending, Stopping, Procs, Loops
  <2>3. QED
    BY <2>1, <2>2
<1>4. Spec => [][Told]_vars
  BY <1>1, <1>2, <1>3, EngineInvariant, PTL DEF Spec
<1>5. QED
  BY <1>4 DEF ReportsAlternate
=============================================================================
