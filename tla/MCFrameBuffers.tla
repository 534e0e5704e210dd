---------------------------- MODULE MCFrameBuffers ----------------------------
(* Two sizes that need different strides, and producers that use either.     *)
EXTENDS FrameBuffers, TLC

MCSizes == {[row |-> 1, rows |-> 2], [row |-> 2, rows |-> 1]}
BufferSymmetry == Permutations(Buffers)
=============================================================================
