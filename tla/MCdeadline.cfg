SPECIFICATION Spec
CONSTANTS
  Books = {b1}
  Nodes = {n1}
  AnchorDepth = 1
  MaxReorg = 2
  MaxLag = 2
  MaxHeight = 6
  Chunks = {c1, c2, c3}
  Portions = {{}, {c1}, {c1, c2}}
  Sample = {c1, c2}
  Ends = {c1}
  MinHolders = 1
  Confirmations = 3
  DropMargin = 1
  ExpiryGrace = 1
  RepostEvery = 2
  VerifyMissesAllowed = 2
  MaxParallelPush = 1
  Batch = 1
  RegistrationsPerTick = 1
  ReplicationPerPass = 1
  LastUploadHeight = 1
  MaxFaults = 1
  CommitsMayBeLost = TRUE
INVARIANTS TypeOK DroppedNeverMined StoredIsSettled StoredOnEnoughNodes SpoolOutlivesPending RegisteredOnlyIfStored
PROPERTY ImplementsLifecycle
