\* What the header promises of the command buffers.
SPECIFICATION Spec
CONSTANTS
  c1 = c1
  c2 = c2
  c3 = c3
  i1 = i1
  Chunk <- MCChunk
  Index <- MCIndex
  MaxSubmit = 2
  MaxWork = 2
  NoSlot = NoSlot
INVARIANT CommandBuffersAreDone
