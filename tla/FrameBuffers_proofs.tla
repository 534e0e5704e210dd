------------------------- MODULE FrameBuffers_proofs -------------------------
(***************************************************************************)
(* Theorems about FrameBuffers for any number of images, frames and sizes. *)
(***************************************************************************)
EXTENDS FrameBuffers, TLAPS

LEMMA ExtentIsNat ==
  ASSUME NEW stride \in Nat, NEW size \in [row : Nat, rows : Nat]
  PROVE  Extent(stride, size) \in Nat
BY DEF Extent

LEMMA SizesAreSizes == AnySize \subseteq [row : Nat, rows : Nat]
BY BufferAssumption DEF AnySize, NoSize

LEMMA InitEstablishesInv == Init => BufferInv
<1> SUFFICES ASSUME Init PROVE BufferInv
  OBVIOUS
<1> USE DEF Init
<1>1. TypeOK
  <2>1. NoSize \in AnySize /\ 0 \in Frames /\ Blank \in Pixels /\ EmptySlot \in Slots /\ NoClaim \in Claims
    BY BufferAssumption DEF AnySize, NoSize, Frames, Blank, Pixels, EmptySlot, Slots, NoClaim, Claims
  <2>2. img \in [Buffers -> [dim : AnySize, top : Pixels, bottom : Pixels]]
    BY <2>1
  <2>3. format \in AnySize /\ slot \in [0 .. 1 -> Slots] /\ claim \in Claims /\ lastSeq \in Frames
        /\ made \in Frames /\ base \in Frames
    BY <2>1
  <2>4. pool \subseteq Buffers /\ {conv, old, frameBuffer, copyOf, copy} \subseteq Buffers \cup {NoBuffer}
    OBVIOUS
  <2>5. front \in 0 .. 1 /\ ready \in -1 .. 1
    BY SMT
  <2>6. open \in BOOLEAN /\ captureErr \in BOOLEAN /\ cancelled \in BOOLEAN
    BY Zenon
  <2>7. QED
    BY <2>2, <2>3, <2>4, <2>5, <2>6, Zenon DEF TypeOK
<1>2. SlotsOK
  BY DEF SlotsOK, EmptySlot, Extent, NoSize
<1>3. QED
  BY <1>1, <1>2 DEF BufferInv, SoleOwners, Held, Distinct, ReaderOK, LoopOK, ReadLocked, StopOK,
                    FrameIntact, FrozenImageIsReported

LEMMA RenegotiatedKeepsInv ==
  ASSUME BufferInv, NEW size \in Sizes, Renegotiated(size)
  PROVE  BufferInv'
<1> USE DEF Renegotiated, native, readerVars, shared, loopVars
<1>1. TypeOK'
  BY DEF BufferInv, TypeOK, AnySize
<1>2. QED
  BY <1>1 DEF BufferInv, SoleOwners, Held, Distinct, SlotsOK, ReaderOK, LoopOK, ReadLocked, StopOK, Source,
              FrameIntact, FrozenImageIsReported, Intact, Convertible

LEMMA OnStreamProcessKeepsInv ==
  ASSUME BufferInv, NEW stride \in Strides, OnStreamProcess(stride)
  PROVE  BufferInv'
<1> USE DEF OnStreamProcess, native, readerVars, shared, loopVars
<1> DEFINE back == 1 - front
           grown == Extent(stride, format)
<1>1. back \in 0 .. 1 /\ back # front /\ slot[back].capacity \in Nat
  BY DEF BufferInv, TypeOK, Slots
<1>2. grown \in Nat
  BY BufferAssumption, SizesAreSizes, ExtentIsNat DEF BufferInv, TypeOK
<1>3. slot'[back] = [frame |-> made + 1, size |-> format, stride |-> stride,
                     capacity |-> IF slot[back].capacity < grown THEN grown ELSE slot[back].capacity]
  BY <1>1 DEF BufferInv, TypeOK
<1>4. \A i \in 0 .. 1 : i # back => slot'[i] = slot[i]
  BY DEF BufferInv, TypeOK
<1>5. made + 1 \in Frames /\ made + 1 > base
  BY BufferAssumption DEF BufferInv, TypeOK, SlotsOK, Frames
<1>6. TypeOK'
  <2>1. slot'[back] \in Slots
    BY <1>1, <1>2, <1>3, <1>5 DEF Slots, BufferInv, TypeOK
  <2>2. slot' \in [0 .. 1 -> Slots]
    BY <2>1 DEF BufferInv, TypeOK
  <2>3. QED
    BY <1>1, <1>5, <2>2 DEF BufferInv, TypeOK
<1>7. SlotsOK'
  <2>1. Extent(slot'[back].stride, slot'[back].size) <= slot'[back].capacity
    <3>1. slot'[back].stride = stride /\ slot'[back].size = format
      BY <1>3
    <3>2. slot'[back].capacity >= grown
      BY <1>1, <1>2, <1>3
    <3>3. QED
      BY <1>2, <3>1, <3>2 DEF Extent
  <2>2. ready' = back /\ slot'[ready'].frame > base' /\ base' <= made' /\ open'
    BY <1>3, <1>5 DEF BufferInv, TypeOK, Frames
  <2>3. \A i \in 0 .. 1 : i # back => Extent(slot'[i].stride, slot'[i].size) <= slot'[i].capacity
    BY <1>4 DEF BufferInv, SlotsOK
  <2>4. QED
    BY <2>1, <2>2, <2>3 DEF SlotsOK, Extent
<1>8. ReaderOK'
  BY <1>1, <1>4 DEF BufferInv, TypeOK, ReaderOK, Source, Intact, Convertible
<1>9. QED
  BY <1>6, <1>7, <1>8 DEF BufferInv, SoleOwners, Held, Distinct, LoopOK, ReadLocked, StopOK,
              FrameIntact, FrozenImageIsReported, Intact

LEMMA GetImageBufferEffect ==
  ASSUME TypeOK, NEW b \in Buffers, NEW size \in AnySize, GetImageBuffer(b, size)
  PROVE  /\ img' \in [Buffers -> [dim : AnySize, top : Pixels, bottom : Pixels]]
         /\ img'[b].dim = size
         /\ \A x \in Buffers : x # b => img'[x] = img[x]
         /\ pool' \subseteq pool /\ b \notin pool'
         /\ Held \cap pool = {} => b \notin Held
<1>1. Blank \in Pixels
  BY BufferAssumption DEF Blank, Pixels, AnySize, Frames
<1>2. CASE b \in pool /\ img[b].dim = size /\ pool' = pool \ {b} /\ UNCHANGED img
  BY <1>2 DEF TypeOK
<1>3. CASE /\ b \in Buffers \ (pool \cup Held)
           /\ img' = [img EXCEPT ![b] = [dim |-> size, top |-> Blank, bottom |-> Blank]]
           /\ pool' \subseteq pool
  BY <1>1, <1>3 DEF TypeOK
<1>4. QED
  BY <1>2, <1>3 DEF GetImageBuffer

LEMMA PoolDrainedKeepsInv ==
  ASSUME BufferInv, NEW b \in Buffers, PoolDrained(b)
  PROVE  BufferInv'
<1> USE BufferAssumption DEF PoolDrained, native, readerVars, shared, loopVars
<1>1. TypeOK'
  BY DEF BufferInv, TypeOK
<1>2. QED
  BY <1>1 DEF BufferInv, SoleOwners, Held, Distinct, SlotsOK, ReaderOK, LoopOK, ReadLocked, StopOK, Source,
              FrameIntact, FrozenImageIsReported, Intact, Convertible

LEMMA PublishKeepsInv ==
  ASSUME BufferInv, Publish
  PROVE  BufferInv'
<1> USE BufferAssumption DEF Publish, native, readerVars, shared, loopVars
<1>1. TypeOK'
  BY DEF BufferInv, TypeOK
<1>2. QED
  BY <1>1 DEF BufferInv, SoleOwners, Held, Distinct, SlotsOK, ReaderOK, LoopOK, ReadLocked, StopOK, Source,
              FrameIntact, FrozenImageIsReported, Intact, Convertible

LEMMA RecycleKeepsInv ==
  ASSUME BufferInv, Recycle
  PROVE  BufferInv'
<1> USE BufferAssumption DEF Recycle, native, readerVars, shared, loopVars, PutImageBuffer
<1>1. TypeOK'
  BY DEF BufferInv, TypeOK
<1>2. QED
  BY <1>1 DEF BufferInv, SoleOwners, Held, Distinct, SlotsOK, ReaderOK, LoopOK, ReadLocked, StopOK, Source,
              FrameIntact, FrozenImageIsReported, Intact, Convertible

LEMMA FailCaptureKeepsInv ==
  ASSUME BufferInv, FailCapture
  PROVE  BufferInv'
<1> USE BufferAssumption DEF FailCapture, native, readerVars, shared, loopVars
<1>1. TypeOK'
  BY DEF BufferInv, TypeOK
<1>2. QED
  BY <1>1 DEF BufferInv, SoleOwners, Held, Distinct, SlotsOK, ReaderOK, LoopOK, ReadLocked, StopOK, Source,
              FrameIntact, FrozenImageIsReported, Intact, Convertible

LEMMA ReaderEndsKeepsInv ==
  ASSUME BufferInv, ReaderEnds
  PROVE  BufferInv'
<1> USE BufferAssumption DEF ReaderEnds, native, readerVars, shared, loopVars
<1>1. TypeOK'
  BY DEF BufferInv, TypeOK
<1>2. QED
  BY <1>1 DEF BufferInv, SoleOwners, Held, Distinct, SlotsOK, ReaderOK, LoopOK, ReadLocked, StopOK, Source,
              FrameIntact, FrozenImageIsReported, Intact, Convertible

LEMMA LoopStartsKeepsInv ==
  ASSUME BufferInv, LoopStarts
  PROVE  BufferInv'
<1> USE BufferAssumption DEF LoopStarts, native, readerVars, shared, loopVars
<1>1. TypeOK'
  BY DEF BufferInv, TypeOK
<1>2. QED
  BY <1>1 DEF BufferInv, SoleOwners, Held, Distinct, SlotsOK, ReaderOK, LoopOK, ReadLocked, StopOK, Source,
              FrameIntact, FrozenImageIsReported, Intact, Convertible

LEMMA LoopEndsKeepsInv ==
  ASSUME BufferInv, LoopEnds
  PROVE  BufferInv'
<1> USE BufferAssumption DEF LoopEnds, native, readerVars, shared, loopVars
<1>1. TypeOK'
  BY DEF BufferInv, TypeOK
<1>2. QED
  BY <1>1 DEF BufferInv, SoleOwners, Held, Distinct, SlotsOK, ReaderOK, LoopOK, ReadLocked, StopOK, Source,
              FrameIntact, FrozenImageIsReported, Intact, Convertible

LEMMA ExtractedKeepsInv ==
  ASSUME BufferInv, Extracted
  PROVE  BufferInv'
<1> USE BufferAssumption DEF Extracted, native, readerVars, shared, loopVars, PutImageBuffer
<1>1. TypeOK'
  BY DEF BufferInv, TypeOK
<1>2. QED
  BY <1>1 DEF BufferInv, SoleOwners, Held, Distinct, SlotsOK, ReaderOK, LoopOK, ReadLocked, StopOK, Source,
              FrameIntact, FrozenImageIsReported, Intact, Convertible

LEMMA StartFailsKeepsInv ==
  ASSUME BufferInv, StartFails
  PROVE  BufferInv'
<1> USE BufferAssumption DEF StartFails, native, readerVars, shared, loopVars, StartBegins
<1>1. TypeOK'
  BY DEF BufferInv, TypeOK
<1>2. QED
  BY <1>1 DEF BufferInv, SoleOwners, Held, Distinct, SlotsOK, ReaderOK, LoopOK, ReadLocked, StopOK, Source,
              FrameIntact, FrozenImageIsReported, Intact, Convertible

LEMMA StopBeginsKeepsInv ==
  ASSUME BufferInv, StopBegins
  PROVE  BufferInv'
<1> USE BufferAssumption DEF StopBegins, native, readerVars, shared, loopVars
<1>1. TypeOK'
  BY DEF BufferInv, TypeOK
<1>2. QED
  BY <1>1 DEF BufferInv, SoleOwners, Held, Distinct, SlotsOK, ReaderOK, LoopOK, ReadLocked, StopOK, Source,
              FrameIntact, FrozenImageIsReported, Intact, Convertible

LEMMA StopWaitsKeepsInv ==
  ASSUME BufferInv, StopWaits
  PROVE  BufferInv'
<1> USE BufferAssumption DEF StopWaits, native, readerVars, shared, loopVars
<1>1. TypeOK'
  BY DEF BufferInv, TypeOK
<1>2. QED
  BY <1>1 DEF BufferInv, SoleOwners, Held, Distinct, SlotsOK, ReaderOK, LoopOK, ReadLocked, StopOK, Source,
              FrameIntact, FrozenImageIsReported, Intact, Convertible

LEMMA StopClearsKeepsInv ==
  ASSUME BufferInv, StopClears
  PROVE  BufferInv'
<1> USE BufferAssumption DEF StopClears, native, readerVars, shared, loopVars
<1>1. TypeOK'
  BY DEF BufferInv, TypeOK
<1>2. QED
  BY <1>1 DEF BufferInv, SoleOwners, Held, Distinct, SlotsOK, ReaderOK, LoopOK, ReadLocked, StopOK, Source,
              FrameIntact, FrozenImageIsReported, Intact, Convertible

LEMMA StopReturnsKeepsInv ==
  ASSUME BufferInv, StopReturns
  PROVE  BufferInv'
<1> USE BufferAssumption DEF StopReturns, native, readerVars, shared, loopVars, PutImageBuffer
<1>1. TypeOK'
  BY DEF BufferInv, TypeOK
<1>2. QED
  BY <1>1 DEF BufferInv, SoleOwners, Held, Distinct, SlotsOK, ReaderOK, LoopOK, ReadLocked, StopOK, Source,
              FrameIntact, FrozenImageIsReported, Intact, Convertible

LEMMA PwGetFrameClaims ==
  ASSUME TypeOK, ready # -1, PwGetFrame
  PROVE  claim' \in Claims
BY DEF TypeOK, PwGetFrame, Claims, Slots

LEMMA PollWithoutFrameKeepsInv ==
  ASSUME BufferInv, PollWithoutFrame
  PROVE  BufferInv'
<1> USE BufferAssumption DEF PollWithoutFrame, ReaderPolls, native, readerVars, shared, loopVars
<1>1. claim' \in Claims
  BY PwGetFrameClaims DEF BufferInv
<1>2. TypeOK'
  BY <1>1 DEF BufferInv, TypeOK
<1>3. QED
  BY <1>2 DEF BufferInv, SoleOwners, Held, Distinct, SlotsOK, ReaderOK, LoopOK, ReadLocked, StopOK, Source,
              FrameIntact, FrozenImageIsReported, Intact, Convertible

LEMMA ConvertBeginsKeepsInv ==
  ASSUME BufferInv, NEW b \in Buffers, ConvertBegins(b)
  PROVE  BufferInv'
<1> USE BufferAssumption DEF ConvertBegins, ReaderPolls, native, readerVars, shared, loopVars
<1>1. claim' \in Claims
  BY PwGetFrameClaims DEF BufferInv
<1>2. claim'.size \in AnySize
  BY <1>1 DEF Claims
<1>3. /\ img' \in [Buffers -> [dim : AnySize, top : Pixels, bottom : Pixels]]
      /\ img'[b].dim = claim'.size
      /\ \A x \in Buffers : x # b => img'[x] = img[x]
      /\ pool' \subseteq pool /\ b \notin pool' /\ b \notin Held
  BY <1>2, GetImageBufferEffect DEF BufferInv, SoleOwners
<1>4. TypeOK'
  BY <1>1, <1>3 DEF BufferInv, TypeOK
<1>5. claim' = [slot |-> front', frame |-> slot[front'].frame, size |-> slot[front'].size,
                stride |-> slot[front'].stride] /\ claim'.frame > base
  BY DEF PwGetFrame, BufferInv, TypeOK, SlotsOK
<1>6. ReaderOK'
  BY <1>3, <1>5 DEF BufferInv, TypeOK, ReaderOK, Convertible
<1>7. SoleOwners'
  BY <1>3 DEF BufferInv, TypeOK, SoleOwners, Held, Distinct, ReaderOK
<1>8. LoopOK'
  BY <1>3, <1>4 DEF BufferInv, TypeOK, LoopOK, ReadLocked, FrameIntact, Intact, Held
<1>9. QED
  BY <1>4, <1>6, <1>7, <1>8 DEF BufferInv, SlotsOK, StopOK, FrozenImageIsReported

LEMMA ConvertTopKeepsInv ==
  ASSUME BufferInv, ConvertTop
  PROVE  BufferInv'
<1> USE BufferAssumption DEF ConvertTop, native, readerVars, shared, loopVars
<1>1. Source \in Pixels /\ conv \in Buffers
  BY DEF BufferInv, TypeOK, ReaderOK, Source, Pixels, Claims, Slots
<1>2. TypeOK'
  BY <1>1 DEF BufferInv, TypeOK
<1>3. /\ img'[conv].top = Source /\ img'[conv].dim = img[conv].dim
      /\ \A x \in Buffers : x # conv => img'[x] = img[x]
  BY <1>1 DEF BufferInv, TypeOK
<1>4. ReaderOK'
  BY <1>1, <1>3 DEF BufferInv, ReaderOK, Source, Convertible
<1>5. LoopOK'
  BY <1>1, <1>2, <1>3 DEF BufferInv, TypeOK, SoleOwners, Held, Distinct, LoopOK, ReadLocked, FrameIntact, Intact
<1>6. QED
  BY <1>2, <1>4, <1>5 DEF BufferInv, SoleOwners, Held, Distinct, SlotsOK, StopOK, FrozenImageIsReported

LEMMA ConvertBottomKeepsInv ==
  ASSUME BufferInv, ConvertBottom
  PROVE  BufferInv'
<1> USE BufferAssumption DEF ConvertBottom, native, readerVars, shared, loopVars
<1>1. Source \in Pixels /\ conv \in Buffers /\ claim.frame \in Frames
  BY DEF BufferInv, TypeOK, ReaderOK, Source, Pixels, Claims, Slots
<1>2. TypeOK'
  BY <1>1 DEF BufferInv, TypeOK
<1>3. /\ img'[conv].bottom = Source /\ img'[conv].dim = img[conv].dim /\ img'[conv].top = img[conv].top
      /\ \A x \in Buffers : x # conv => img'[x] = img[x]
  BY <1>1 DEF BufferInv, TypeOK
<1>4. ReaderOK'
  BY <1>1, <1>3 DEF BufferInv, ReaderOK, Source, Convertible, Intact
<1>5. LoopOK'
  BY <1>1, <1>2, <1>3 DEF BufferInv, TypeOK, SoleOwners, Held, Distinct, LoopOK, ReadLocked, FrameIntact, Intact
<1>6. QED
  BY <1>2, <1>4, <1>5 DEF BufferInv, SoleOwners, Held, Distinct, SlotsOK, StopOK, FrozenImageIsReported

LEMMA CaptureFrameKeepsInv ==
  ASSUME BufferInv, NEW b \in Buffers, CaptureFrame(b)
  PROVE  BufferInv'
<1> USE BufferAssumption DEF CaptureFrame, native, readerVars, shared, loopVars
<1>1. frameBuffer \in Buffers /\ img[frameBuffer].dim \in AnySize
  BY DEF BufferInv, TypeOK
<1>2. /\ img' \in [Buffers -> [dim : AnySize, top : Pixels, bottom : Pixels]]
      /\ img'[b].dim = img[frameBuffer].dim
      /\ \A x \in Buffers : x # b => img'[x] = img[x]
      /\ pool' \subseteq pool /\ b \notin pool' /\ b \notin Held
  BY <1>1, GetImageBufferEffect DEF BufferInv, SoleOwners
<1>3. TypeOK'
  BY <1>1, <1>2 DEF BufferInv, TypeOK
<1>4. SoleOwners'
  BY <1>2 DEF BufferInv, TypeOK, SoleOwners, Held, Distinct, LoopOK
<1>5. ReaderOK'
  BY <1>2, <1>3 DEF BufferInv, TypeOK, ReaderOK, Source, Convertible, Intact, Held
<1>6. LoopOK'
  BY <1>1, <1>2, <1>3 DEF BufferInv, TypeOK, LoopOK, ReadLocked, FrameIntact, Intact, Held
<1>7. QED
  BY <1>3, <1>4, <1>5, <1>6 DEF BufferInv, SlotsOK, StopOK, FrozenImageIsReported

LEMMA CopyTopKeepsInv ==
  ASSUME BufferInv, CopyTop
  PROVE  BufferInv'
<1> USE BufferAssumption DEF CopyTop, native, readerVars, shared, loopVars
<1>1. copy \in Buffers /\ copyOf \in Buffers /\ copyOf = frameBuffer /\ copy # frameBuffer
  BY DEF BufferInv, TypeOK, LoopOK, ReadLocked, SoleOwners, Distinct
<1>2. TypeOK'
  BY <1>1 DEF BufferInv, TypeOK
<1>3. /\ img'[copy].top = img[copyOf].top /\ img'[copy].dim = img[copy].dim
      /\ \A x \in Buffers : x # copy => img'[x] = img[x]
  BY <1>1 DEF BufferInv, TypeOK
<1>4. ReaderOK'
  BY <1>1, <1>2, <1>3 DEF BufferInv, TypeOK, SoleOwners, Distinct, ReaderOK, Source, Convertible, Intact
<1>5. LoopOK'
  BY <1>1, <1>2, <1>3 DEF BufferInv, LoopOK, ReadLocked, FrameIntact, Intact
<1>6. QED
  BY <1>2, <1>4, <1>5 DEF BufferInv, SoleOwners, Held, Distinct, SlotsOK, StopOK, FrozenImageIsReported

LEMMA CopyBottomKeepsInv ==
  ASSUME BufferInv, CopyBottom
  PROVE  BufferInv'
<1> USE BufferAssumption DEF CopyBottom, native, readerVars, shared, loopVars
<1>1. copy \in Buffers /\ copyOf \in Buffers /\ copyOf = frameBuffer /\ copy # frameBuffer
  BY DEF BufferInv, TypeOK, LoopOK, ReadLocked, SoleOwners, Distinct
<1>2. TypeOK'
  BY <1>1 DEF BufferInv, TypeOK
<1>3. /\ img'[copy].bottom = img[copyOf].bottom /\ img'[copy].dim = img[copy].dim
      /\ img'[copy].top = img[copy].top
      /\ \A x \in Buffers : x # copy => img'[x] = img[x]
  BY <1>1 DEF BufferInv, TypeOK
<1>4. ReaderOK'
  BY <1>1, <1>2, <1>3 DEF BufferInv, TypeOK, SoleOwners, Distinct, ReaderOK, Source, Convertible, Intact
<1>5. Intact(copy)'
  BY <1>1, <1>3 DEF BufferInv, LoopOK, ReadLocked, Intact
<1>6. LoopOK'
  BY <1>1, <1>2, <1>3, <1>5 DEF BufferInv, LoopOK, ReadLocked, FrameIntact, Intact
<1>7. QED
  BY <1>2, <1>4, <1>6 DEF BufferInv, SoleOwners, Held, Distinct, SlotsOK, StopOK, FrozenImageIsReported

LEMMA EmptySlots ==
  /\ EmptySlot \in Slots /\ NoSize \in AnySize /\ 0 \in Frames
  /\ Extent(EmptySlot.stride, EmptySlot.size) <= EmptySlot.capacity
BY BufferAssumption DEF EmptySlot, Slots, AnySize, NoSize, Frames, Extent

LEMMA StartKeepsInv ==
  ASSUME BufferInv, Start
  PROVE  BufferInv'
<1> USE BufferAssumption DEF Start, StartBegins, native, readerVars, shared, loopVars
<1>1. TypeOK'
  <2>1. slot' \in [0 .. 1 -> Slots] /\ format' \in AnySize /\ lastSeq' \in Frames /\ base' \in Frames
    BY EmptySlots DEF BufferInv, TypeOK
  <2>2. front' \in 0 .. 1 /\ ready' \in -1 .. 1
    BY SMT
  <2>3. open' \in BOOLEAN /\ captureErr' \in BOOLEAN /\ cancelled' \in BOOLEAN
    BY Zenon
  <2>4. QED
    BY <2>1, <2>2, <2>3, Zenon DEF BufferInv, TypeOK
<1>2. SlotsOK'
  BY EmptySlots DEF SlotsOK, Extent, BufferInv, TypeOK, Frames
<1>3. frameBuffer = NoBuffer /\ conv = NoBuffer /\ copy = NoBuffer
  BY DEF BufferInv, ReaderOK, LoopOK
<1>4. QED
  BY <1>1, <1>2, <1>3 DEF BufferInv, SoleOwners, Held, Distinct, ReaderOK, LoopOK, ReadLocked, StopOK,
              FrameIntact, FrozenImageIsReported, Intact

LEMMA StopNativeKeepsInv ==
  ASSUME BufferInv, StopNative
  PROVE  BufferInv'
<1> USE BufferAssumption DEF StopNative, native, readerVars, shared, loopVars
<1>1. TypeOK'
  <2>1. slot' \in [0 .. 1 -> Slots]
    BY EmptySlots
  <2>2. ready' \in -1 .. 1
    BY SMT
  <2>3. open' \in BOOLEAN /\ stopper' \in {"off", "wait", "native", "clear", "recycle"}
    BY Zenon
  <2>4. QED
    BY <2>1, <2>2, <2>3, Zenon DEF BufferInv, TypeOK
<1>2. SlotsOK'
  BY EmptySlots DEF SlotsOK, Extent, BufferInv
<1>3. reader = "off" /\ loop = "off"
  BY DEF BufferInv, StopOK, LoopOK
<1>4. QED
  BY <1>1, <1>2, <1>3 DEF BufferInv, SoleOwners, Held, Distinct, ReaderOK, LoopOK, ReadLocked, StopOK,
              FrameIntact, FrozenImageIsReported, Intact

LEMMA NextKeepsInv ==
  ASSUME BufferInv, [Next]_vars
  PROVE  BufferInv'
<1>1. CASE PipeWireThread
  BY <1>1, RenegotiatedKeepsInv, OnStreamProcessKeepsInv DEF PipeWireThread
<1>2. CASE Reader
  BY <1>2, PollWithoutFrameKeepsInv, ConvertBeginsKeepsInv, ConvertTopKeepsInv, ConvertBottomKeepsInv,
     PublishKeepsInv, RecycleKeepsInv, FailCaptureKeepsInv, ReaderEndsKeepsInv DEF Reader
<1>3. CASE SyncLoop
  BY <1>3, LoopStartsKeepsInv, LoopEndsKeepsInv, CaptureFrameKeepsInv, CopyTopKeepsInv, CopyBottomKeepsInv,
     ExtractedKeepsInv DEF SyncLoop
<1>4. CASE StartStop
  BY <1>4, StartKeepsInv, StartFailsKeepsInv, StopBeginsKeepsInv, StopWaitsKeepsInv, StopNativeKeepsInv,
     StopClearsKeepsInv, StopReturnsKeepsInv DEF StartStop
<1>5. CASE \E b \in Buffers : PoolDrained(b)
  BY <1>5, PoolDrainedKeepsInv
<1>6. CASE UNCHANGED vars
  BY <1>6 DEF vars, native, readerVars, shared, loopVars, BufferInv, TypeOK, SoleOwners, Held, Distinct, SlotsOK,
     ReaderOK, LoopOK, ReadLocked, StopOK, Source, FrameIntact, FrozenImageIsReported, Intact, Convertible
<1>7. QED
  BY <1>1, <1>2, <1>3, <1>4, <1>5, <1>6 DEF Next

\* The inductive invariant holds of every reachable state: of the double
\* buffer, the pool, the reader, the sync loop and Start and Stop together.
THEOREM BufferInvariant == Spec => []BufferInv
<1>1. BufferInv /\ [Next]_vars => BufferInv'
  BY NextKeepsInv
<1>2. QED
  BY InitEstablishesInv, <1>1, PTL DEF Spec

\* Every variable keeps its type (the declarations of pipewire_native.c and
\* capture.go).
THEOREM TypeCorrect == Spec => []TypeOK
<1>1. BufferInv => TypeOK
  BY DEF BufferInv
<1>2. QED
  BY BufferInvariant, <1>1, PTL

\* However many images there are, none is ever in two hands, or in a hand and
\* in the pool (getImageBuffer, putImageBuffer, publishFrame, CaptureFrame).
THEOREM ImagesHaveSoleOwners == Spec => []SoleOwners
<1>1. BufferInv => SoleOwners
  BY DEF BufferInv
<1>2. QED
  BY BufferInvariant, <1>1, PTL

\* The sync loop only ever reads whole frames of its own session, through
\* renegotiations, restarts and any number of frames.
THEOREM FramesStayIntact == Spec => []FrameIntact
<1>1. BufferInv => FrameIntact
  BY DEF BufferInv, LoopOK
<1>2. QED
  BY BufferInvariant, <1>1, PTL

\* The converter never leaves the memory of its slot, whatever sizes and
\* strides the producer negotiates (convertFrameToRGBA over the double buffer).
THEOREM ReadsStayInBounds == Spec => []ReadsInBounds
<1>1. BufferInv => ReadsInBounds
  BY DEF BufferInv, TypeOK, SlotsOK, ReaderOK, ReadsInBounds, Convertible
<1>2. QED
  BY BufferInvariant, <1>1, PTL

\* A stopped reader always leaves its reason where CaptureFrame looks
\* (failCapture before the context ends, startCaptureLocked's reset before the
\* next reader).
THEOREM FrozenImagesAreReported == Spec => []FrozenImageIsReported
<1>1. BufferInv => FrozenImageIsReported
  BY DEF BufferInv, StopOK
<1>2. QED
  BY BufferInvariant, <1>1, PTL
=============================================================================
