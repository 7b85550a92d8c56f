SPECIFICATION FairSpec
CONSTANTS
  Books = {b1, b2}
  Nodes = {n1}
  AnchorDepth = 1
  MaxReorg = 0
  MaxLag = 0
  MaxHeight = 3
  Chunks = {c1}
  Portions = {{}, {c1}}
  Sample = {c1}
  Ends = {c1}
  MinHolders = 1
  Confirmations = 1
  DropMargin = 0
  ExpiryGrace = 0
  RepostEvery = 2
  VerifyMissesAllowed = 1
  MaxParallelPush = 1
  Batch = 1
  RegistrationsPerTick = 1
  ReplicationPerPass = 1
  LastUploadHeight = 1
  MaxFaults = 0
  CommitsMayBeLost = FALSE
PROPERTY EveryRowGetsAPass
