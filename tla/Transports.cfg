CONSTANTS
  i1 = i1
  i2 = i2
  MaxResponseBytes = 2
  ChunkBytes = {1, 2}
  Iteration = {i1, i2}
  Nobody = Nobody
  Chunk <- Chunks
  Rest <- Rests
  MaxWireChunks = 2
SPECIFICATION FairSpec
INVARIANTS
  CompleteIsWhole
  OneIterationDelivers
  ResultIsBounded
PROPERTIES
  NothingSentLate
  EveryCallSettles
CHECK_DEADLOCK FALSE
