SPECIFICATION Spec
CONSTANTS
  Buffers = {i1, i2, i3, i4}
  Sizes <- MCSizes
  Strides = {1, 2}
  MaxFrames = 3
  NoBuffer = NoBuffer
SYMMETRY BufferSymmetry
INVARIANTS
  SoleOwners
  FrameIntact
  ReadsInBounds
  FrozenImageIsReported
