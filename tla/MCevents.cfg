SPECIFICATION FairSpec
CONSTANTS
  Books = {b1}
  Confirmations = 2
  MaxChunk = 2
  MinChunk = 1
  MaxReorg = 1
  MaxLag = 2
  NewStatus = {"challenged", "approved"}
  Prices = {"p1"}
  LogIndexes = {1}
  MaxHeight = 6
  MaxEvents = 3
  MaxFaults = 1
INVARIANTS NothingMissed NothingInvented RowsFollowChain
PROPERTY CatchesUp
