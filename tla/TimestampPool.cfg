\* Three slots, each of a chunk of its own: the pool grows, reuses indices, and needs its reaper to go on.
SPECIFICATION FairSpec
CONSTANTS
  c1 = c1
  c2 = c2
  c3 = c3
  i1 = i1
  Chunk <- MCChunk
  Index <- MCIndex
  MaxSubmit = 2
  MaxWork = 2
  NoSlot = NoSlot
INVARIANTS
  TypeOK
  NoWriteToFreeSlot
  OneOwner
  OnlySubmittedWorkIsTracked
  NothingIsLeftBehind
PROPERTIES
  LeaseContract
  DroppedHandleIsRecycled
  AwaitedFrameCompletes
  DestructionCompletes
