----------------------------- MODULE FrameBuffers -----------------------------
(***************************************************************************)
(* How a frame gets from the PipeWire thread to the sync loop, and whose   *)
(* each buffer is meanwhile: the native double buffer                      *)
(* (backend/internal/capture/pipewire_native.c and .go), the image pool,   *)
(* the reader goroutine, CaptureFrame, publishFrame and Stop               *)
(* (backend/internal/capture/capture.go), and the sync loop that borrows a *)
(* frame per tick (backend/internal/sync/engine.go, streamFrames).         *)
(*                                                                         *)
(* Copying and converting an image takes two steps here, its top and its   *)
(* bottom, so that anything that could write it meanwhile does.  The       *)
(* callbacks of the PipeWire thread and pw_get_frame exclude each other    *)
(* (the loop's lock) and are one step each.                                *)
(***************************************************************************)
EXTENDS Integers

CONSTANTS
  Buffers,    \* the images there can be
  Sizes,      \* negotiated formats: records of the bytes in a row and the rows
  Strides,    \* strides a producer may use
  MaxFrames,  \* bound: frames produced
  NoBuffer    \* a nil image

ASSUME BufferAssumption ==
  /\ NoBuffer \notin Buffers
  /\ Sizes \subseteq [row : Nat, rows : Nat] /\ Strides \subseteq Nat
  /\ MaxFrames \in Nat

Frames == 0 .. MaxFrames
NoSize == [row |-> 0, rows |-> 0]
AnySize == Sizes \cup {NoSize}

\* Half an image holds the pixels of a frame, laid out for the frame's size.
Pixels == [frame : Frames, size : AnySize]
Blank == [frame |-> 0, size |-> NoSize]

VARIABLES
  \* the native capture: struct user_data
  open,        \* userData has been allocated and not freed
  format,      \* frame_width, frame_height, frame_format; NoSize until negotiated
  slot,        \* frame[0] and frame[1]
  front, ready,
  \* NativePipeWireCapture and nativeFrameReaderLoop
  reader,      \* where the reader is
  claim,       \* what pw_get_frame handed out
  lastSeq,
  conv,        \* the image being converted into, or about to be published
  old,         \* the image a publication replaced, on its way to the pool
  \* ScreenCapture
  frameBuffer, captureErr,
  cancelled,   \* sc.ctx is done
  pool,        \* imageBufferPool
  img,         \* the images: their bounds and the two halves of their pixels
  \* the sync loop and Stop
  loop,        \* where the sync loop is
  copyOf,      \* the image CaptureFrame copies, under the read lock
  copy,        \* the image the sync loop borrowed
  stopper,     \* where Stop is
  \* history
  made,        \* frames produced so far; a frame is known by its number
  base         \* frames produced before this session

native == <<open, format, slot, front, ready, made>>
readerVars == <<reader, claim, lastSeq, conv, old>>
loopVars == <<loop, copyOf, copy>>
shared == <<frameBuffer, captureErr, cancelled, pool, img>>
vars == <<native, readerVars, shared, loopVars, stopper, base>>

Claims == [slot : 0 .. 1, frame : Frames, size : AnySize, stride : Strides \cup {0}]
Slots == [frame : Frames, size : AnySize, stride : Strides \cup {0}, capacity : Nat]
EmptySlot == [frame |-> 0, size |-> NoSize, stride |-> 0, capacity |-> 0]
NoClaim == [slot |-> 0, frame |-> 0, size |-> NoSize, stride |-> 0]

TypeOK ==
  /\ open \in BOOLEAN /\ format \in AnySize
  /\ slot \in [0 .. 1 -> Slots] /\ front \in 0 .. 1 /\ ready \in -1 .. 1
  /\ reader \in {"off", "poll", "top", "bottom", "publish", "recycle", "failing"}
  /\ claim \in Claims /\ lastSeq \in Frames
  /\ {conv, old, frameBuffer, copyOf, copy} \subseteq Buffers \cup {NoBuffer}
  /\ captureErr \in BOOLEAN /\ cancelled \in BOOLEAN
  /\ pool \subseteq Buffers
  /\ img \in [Buffers -> [dim : AnySize, top : Pixels, bottom : Pixels]]
  /\ loop \in {"off", "tick", "copyTop", "copyBottom", "extract"}
  /\ stopper \in {"off", "wait", "native", "clear", "recycle"}
  /\ made \in Frames /\ base \in Frames

Init ==
  /\ open = FALSE /\ format = NoSize /\ made = 0 /\ base = 0
  /\ slot = [i \in 0 .. 1 |-> EmptySlot] /\ front = 0 /\ ready = -1
  /\ reader = "off" /\ claim = NoClaim /\ lastSeq = 0
  /\ conv = NoBuffer /\ old = NoBuffer /\ frameBuffer = NoBuffer
  /\ captureErr = FALSE /\ cancelled = FALSE /\ pool = {}
  /\ img = [b \in Buffers |-> [dim |-> NoSize, top |-> Blank, bottom |-> Blank]]
  /\ loop = "off" /\ copyOf = NoBuffer /\ copy = NoBuffer
  /\ stopper = "off"

-----------------------------------------------------------------------------
(* The PipeWire thread.                                                    *)

Extent(stride, size) == stride * size.rows

Renegotiated(size) ==
  /\ open
  /\ format' = size
  /\ UNCHANGED <<open, slot, front, ready, made, readerVars, shared, loopVars, stopper, base>>

\* A full frame is copied into the slot Go does not hold, with the geometry
\* it was sent in: its own stride, and the size negotiated by then.
OnStreamProcess(stride) ==
  /\ open /\ made < MaxFrames
  /\ stride > 0 /\ format.rows > 0
  /\ LET back == 1 - front
         grown == Extent(stride, format) IN
     /\ slot' = [slot EXCEPT ![back] =
          [frame |-> made + 1, size |-> format, stride |-> stride,
           capacity |-> IF @.capacity < grown THEN grown ELSE @.capacity]]
     /\ ready' = back
  /\ made' = made + 1
  /\ UNCHANGED <<open, format, front, readerVars, shared, loopVars, stopper, base>>

-----------------------------------------------------------------------------
(* The image pool.                                                         *)

Held == {conv, old, frameBuffer, copy}

\* The runtime may hand out any pooled image or make one.  One of the wrong
\* size is dropped for a new one.
GetImageBuffer(b, size) ==
  \/ /\ b \in pool /\ img[b].dim = size
     /\ pool' = pool \ {b}
     /\ UNCHANGED img
  \/ /\ b \in Buffers \ (pool \cup Held)
     /\ img' = [img EXCEPT ![b] = [dim |-> size, top |-> Blank, bottom |-> Blank]]
     /\ \/ UNCHANGED pool
        \/ \E m \in pool : img[m].dim # size /\ pool' = pool \ {m}

PutImageBuffer(b) == pool' = pool \cup ({b} \ {NoBuffer})

\* Between two collections the runtime may drop what is pooled.
PoolDrained(b) ==
  /\ b \in pool
  /\ pool' = pool \ {b}
  /\ UNCHANGED <<native, readerVars, frameBuffer, captureErr, cancelled, img, loopVars, stopper, base>>

-----------------------------------------------------------------------------
(* The reader.                                                             *)

ReadLocked == loop \in {"copyTop", "copyBottom"}

\* Mutant: the geometry is the one negotiated by now.
PwGetFrameAsNegotiated ==
  claim' = [slot |-> ready, frame |-> slot[ready].frame, size |-> format,
            stride |-> slot[ready].stride]

\* pw_get_frame: the slot completed last, which Go holds from now on.
PwGetFrame ==
  claim' = [slot |-> ready, frame |-> slot[ready].frame, size |-> slot[ready].size,
            stride |-> slot[ready].stride]

ReaderPolls == reader = "poll" /\ ready # -1 /\ front' = ready

\* validateFrameGeometry.
Convertible(c) == c.size.row > 0 /\ c.size.rows > 0 /\ c.stride >= c.size.row

\* The frame served last, or one that does not convert.
PollWithoutFrame ==
  /\ ReaderPolls
  /\ PwGetFrame
  /\ slot[ready].frame = lastSeq \/ ~Convertible(claim')
  /\ UNCHANGED <<open, format, slot, ready, made, reader, lastSeq, conv, old, shared, loopVars, stopper, base>>

ConvertBegins(b) ==
  /\ ReaderPolls
  /\ PwGetFrame
  /\ slot[ready].frame # lastSeq /\ Convertible(claim')
  /\ GetImageBuffer(b, claim'.size)
  /\ conv' = b /\ reader' = "top"
  /\ UNCHANGED <<open, format, slot, ready, made, lastSeq, old, frameBuffer, captureErr, cancelled,
                 loopVars, stopper, base>>

\* What the memory of the slot in hand holds by now.
Source == [frame |-> slot[claim.slot].frame, size |-> slot[claim.slot].size]

ConvertTop ==
  /\ reader = "top"
  /\ img' = [img EXCEPT ![conv].top = Source]
  /\ reader' = "bottom"
  /\ UNCHANGED <<native, claim, lastSeq, conv, old, frameBuffer, captureErr, cancelled, pool,
                 loopVars, stopper, base>>

ConvertBottom ==
  /\ reader = "bottom"
  /\ img' = [img EXCEPT ![conv].bottom = Source]
  /\ lastSeq' = claim.frame
  /\ reader' = "publish"
  /\ UNCHANGED <<native, claim, conv, old, frameBuffer, captureErr, cancelled, pool,
                 loopVars, stopper, base>>

\* Mutant: publishing takes the read lock only.
PublishUnderReadLock ==
  /\ reader = "publish"
  /\ frameBuffer' = conv /\ old' = frameBuffer /\ conv' = NoBuffer
  /\ reader' = "recycle"
  /\ UNCHANGED <<native, claim, lastSeq, captureErr, cancelled, pool, img, loopVars, stopper, base>>

\* publishFrame: the write lock waits for whoever is copying.
Publish ==
  /\ reader = "publish" /\ ~ReadLocked
  /\ frameBuffer' = conv /\ old' = frameBuffer /\ conv' = NoBuffer
  /\ reader' = "recycle"
  /\ UNCHANGED <<native, claim, lastSeq, captureErr, cancelled, pool, img, loopVars, stopper, base>>

Recycle ==
  /\ reader = "recycle"
  /\ PutImageBuffer(old) /\ old' = NoBuffer
  /\ reader' = "poll"
  /\ UNCHANGED <<native, claim, lastSeq, conv, frameBuffer, captureErr, cancelled, img,
                 loopVars, stopper, base>>

\* Mutant: the reader gives up without recording why.
FailQuietly ==
  /\ reader = "poll" /\ ~ReadLocked
  /\ reader' = "failing"
  /\ UNCHANGED <<native, claim, lastSeq, conv, old, shared, loopVars, stopper, base>>

\* The reader gives up (CaptureHealth says when): the reason first.
FailCapture ==
  /\ reader = "poll" /\ ~ReadLocked
  /\ captureErr' = TRUE
  /\ reader' = "failing"
  /\ UNCHANGED <<native, claim, lastSeq, conv, old, frameBuffer, cancelled, pool, img,
                 loopVars, stopper, base>>

ReaderEnds ==
  /\ reader = "failing" \/ (reader = "poll" /\ cancelled)
  /\ reader' = "off" /\ cancelled' = TRUE
  /\ UNCHANGED <<native, claim, lastSeq, conv, old, frameBuffer, captureErr, pool, img,
                 loopVars, stopper, base>>

-----------------------------------------------------------------------------
(* The sync loop.                                                          *)

\* The engine launches a session's loop once its capture has started.
LoopStarts ==
  /\ open /\ stopper = "off" /\ loop = "off"
  /\ loop' = "tick"
  /\ UNCHANGED <<native, readerVars, shared, copyOf, copy, stopper, base>>

\* The session is cancelled, or CaptureFrame says that capture has stopped.
LoopEnds ==
  /\ loop = "tick"
  /\ loop' = "off"
  /\ UNCHANGED <<native, readerVars, shared, copyOf, copy, stopper, base>>

\* Mutant: the caller gets the frame itself.
CaptureFrameUncopied(b) ==
  /\ loop = "tick" /\ ~captureErr /\ frameBuffer # NoBuffer
  /\ b = frameBuffer
  /\ copy' = b
  /\ loop' = "extract"
  /\ UNCHANGED <<native, readerVars, shared, copyOf, stopper, base>>

\* CaptureFrame: the error first, since the last frame outlives the reader.
CaptureFrame(b) ==
  /\ loop = "tick" /\ ~captureErr /\ frameBuffer # NoBuffer
  /\ GetImageBuffer(b, img[frameBuffer].dim)
  /\ copyOf' = frameBuffer /\ copy' = b
  /\ loop' = "copyTop"
  /\ UNCHANGED <<native, readerVars, frameBuffer, captureErr, cancelled, stopper, base>>

CopyTop ==
  /\ loop = "copyTop"
  /\ img' = [img EXCEPT ![copy].top = img[copyOf].top]
  /\ loop' = "copyBottom"
  /\ UNCHANGED <<native, readerVars, frameBuffer, captureErr, cancelled, pool, copyOf, copy, stopper, base>>

CopyBottom ==
  /\ loop = "copyBottom"
  /\ img' = [img EXCEPT ![copy].bottom = img[copyOf].bottom]
  /\ copyOf' = NoBuffer
  /\ loop' = "extract"
  /\ UNCHANGED <<native, readerVars, frameBuffer, captureErr, cancelled, pool, copy, stopper, base>>

\* ExtractColors has read the frame, and it goes back to the pool.
Extracted ==
  /\ loop = "extract"
  /\ PutImageBuffer(copy) /\ copy' = NoBuffer
  /\ loop' = "tick"
  /\ UNCHANGED <<native, readerVars, frameBuffer, captureErr, cancelled, img, copyOf, stopper, base>>

-----------------------------------------------------------------------------
(* Start and Stop.  The engine calls them one at a time and never while a  *)
(* session's loop runs (SyncEngine's LoopOwnsDevices).                     *)

StartBegins == ~open /\ stopper = "off" /\ loop = "off"

\* A new native capture and a new reader.
Start ==
  /\ StartBegins
  /\ captureErr' = FALSE /\ cancelled' = FALSE
  /\ open' = TRUE /\ format' = NoSize /\ base' = made
  /\ slot' = [i \in 0 .. 1 |-> EmptySlot] /\ front' = 0 /\ ready' = -1
  /\ lastSeq' = 0 /\ reader' = "poll"
  /\ UNCHANGED <<made, claim, conv, old, frameBuffer, pool, img, loopVars, stopper>>

\* The portal refuses, or PipeWire does and the native capture is released.
\* A context made for this start is cancelled again, any other left as it is.
StartFails ==
  /\ StartBegins
  /\ captureErr' = FALSE
  /\ UNCHANGED <<native, readerVars, frameBuffer, cancelled, pool, img, loopVars, stopper, base>>

StopBegins ==
  /\ open /\ stopper = "off" /\ loop = "off"
  /\ cancelled' = TRUE /\ stopper' = "wait"
  /\ UNCHANGED <<native, readerVars, frameBuffer, captureErr, pool, img, loopVars, base>>

\* frameReaderWg.Wait.
StopWaits ==
  /\ stopper = "wait" /\ reader = "off"
  /\ stopper' = "native"
  /\ UNCHANGED <<native, readerVars, shared, loopVars, base>>

\* nativeCapture.Stop frees the slots; a GetFrame under way holds shutdownMutex.
StopNative ==
  /\ stopper = "native" /\ reader \notin {"top", "bottom"}
  /\ open' = FALSE
  /\ slot' = [i \in 0 .. 1 |-> EmptySlot] /\ ready' = -1
  /\ stopper' = "clear"
  /\ UNCHANGED <<format, front, made, readerVars, shared, loopVars, base>>

\* publishFrame(nil).
StopClears ==
  /\ stopper = "clear" /\ ~ReadLocked
  /\ frameBuffer' = NoBuffer /\ old' = frameBuffer
  /\ stopper' = "recycle"
  /\ UNCHANGED <<native, reader, claim, lastSeq, conv, captureErr, cancelled, pool, img, loopVars, base>>

StopReturns ==
  /\ stopper = "recycle"
  /\ PutImageBuffer(old) /\ old' = NoBuffer
  /\ stopper' = "off"
  /\ UNCHANGED <<native, reader, claim, lastSeq, conv, frameBuffer, captureErr, cancelled, img, loopVars, base>>

-----------------------------------------------------------------------------
PipeWireThread == (\E size \in Sizes : Renegotiated(size)) \/ (\E stride \in Strides : OnStreamProcess(stride))

Reader ==
  \/ PollWithoutFrame \/ ConvertTop \/ ConvertBottom \/ Publish \/ Recycle
  \/ FailCapture \/ ReaderEnds
  \/ \E b \in Buffers : ConvertBegins(b)

SyncLoop ==
  \/ LoopStarts \/ LoopEnds \/ CopyTop \/ CopyBottom \/ Extracted
  \/ \E b \in Buffers : CaptureFrame(b)

StartStop == Start \/ StartFails \/ StopBegins \/ StopWaits \/ StopNative \/ StopClears \/ StopReturns

Next ==
  \/ PipeWireThread \/ Reader \/ SyncLoop \/ StartStop
  \/ \E b \in Buffers : PoolDrained(b)

Spec == Init /\ [][Next]_vars

-----------------------------------------------------------------------------
(* Properties.                                                             *)

Distinct(S, T) == S = NoBuffer \/ S # T

\* Nobody shares an image but under the read lock: the image being converted
\* into, the published one, the replaced one and the sync loop's are four, and
\* none of them is in the pool to be handed out again.
SoleOwners ==
  /\ Held \cap pool = {}
  /\ Distinct(conv, old) /\ Distinct(conv, frameBuffer) /\ Distinct(conv, copy)
  /\ Distinct(old, frameBuffer) /\ Distinct(old, copy) /\ Distinct(frameBuffer, copy)

\* b holds one frame of this session, whole, in bounds of that frame's size.
Intact(b) ==
  /\ img[b].top = img[b].bottom
  /\ img[b].top.frame > base /\ img[b].dim = img[b].top.size

\* The colours sent to the lights come from one whole frame of this session,
\* never from two halves, from a session before or in another's bounds.
FrameIntact == loop = "extract" => Intact(copy)

\* The converter stays inside the slot's memory, which it indexes by what it
\* was told: an overrun takes the daemon down.
ReadsInBounds ==
  reader \in {"top", "bottom"} =>
    /\ open
    /\ claim.size.row <= claim.stride
    /\ Extent(claim.stride, claim.size) <= slot[claim.slot].capacity

\* While a session is open an error stands exactly when its reader has given
\* up: no session streams a frozen image with nothing reported, and none is
\* ended by the one before.
FrozenImageIsReported ==
  open /\ stopper = "off" => (captureErr <=> reader \in {"failing", "off"})

-----------------------------------------------------------------------------
(* The inductive invariant (proved in FrameBuffers_proofs): what the slots *)
(* hold, and where everybody may be meanwhile.                             *)

\* The slots describe what they hold, and what is ready is of this session.
SlotsOK ==
  /\ \A i \in 0 .. 1 : Extent(slot[i].stride, slot[i].size) <= slot[i].capacity
  /\ ready # -1 => open /\ slot[ready].frame > base
  /\ base <= made

\* While the reader converts, the producer does not write the slot in hand.
ReaderOK ==
  /\ reader \in {"top", "bottom"} =>
       /\ claim = [slot |-> front, frame |-> slot[front].frame,
                   size |-> slot[front].size, stride |-> slot[front].stride]
       /\ claim.frame > base /\ Convertible(claim)
       /\ conv # NoBuffer /\ img[conv].dim = claim.size
  /\ reader = "bottom" => img[conv].top = Source
  /\ reader = "publish" => conv # NoBuffer /\ Intact(conv)
  /\ reader \in {"off", "poll", "recycle", "failing"} => conv = NoBuffer
  /\ reader # "off" => open

\* The published image stands still under the read lock.
LoopOK ==
  /\ loop # "off" => open /\ stopper = "off"
  /\ ReadLocked => copyOf = frameBuffer /\ copyOf # NoBuffer /\ img[copy].dim = img[copyOf].dim
  /\ loop = "copyBottom" => img[copy].top = img[copyOf].top
  /\ loop \in {"off", "tick"} <=> copy = NoBuffer
  /\ frameBuffer # NoBuffer => Intact(frameBuffer) /\ (open \/ stopper = "clear")
  /\ FrameIntact

StopOK ==
  /\ old # NoBuffer => reader = "recycle" \/ stopper = "recycle"
  /\ stopper \in {"native", "clear", "recycle"} => reader = "off"
  /\ stopper \in {"wait", "native"} => open
  /\ stopper \in {"clear", "recycle"} => ~open
  /\ open /\ stopper = "off" /\ cancelled => reader = "off"
  /\ FrozenImageIsReported

BufferInv == TypeOK /\ SoleOwners /\ SlotsOK /\ ReaderOK /\ LoopOK /\ StopOK
=============================================================================
