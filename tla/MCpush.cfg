\* Three nodes in two blocks, two holders, two chunks, two passes.
CONSTANTS
  n1 = n1  n2 = n2  n3 = n3
  Nodes = {n1, n2, n3}  BlockOf <- InBlocks
  Passes = 2  Total = 2  MinHolders = 2  ChunkRetries = 1  SaveEvery = 2
SPECIFICATION Spec
INVARIANTS
  DoneHasEveryChunk HoldersAreApart
PROPERTIES PushEnds ImplementsReplication
CHECK_DEADLOCK FALSE
