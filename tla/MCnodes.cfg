\* Two honest nodes and a liar, two discoveries, two callers.
CONSTANTS
  p1 = p1  p2 = p2  liar = liar  d1 = d1  d2 = d2   r1 = r1  r2 = r2
  Peers = {p1, p2, liar}  Liars = {liar}  Seeds = {p1}
  Discoveries = {d1, d2}  Requests = {r1, r2}
  MedianMin = 3  Quorum = 3  MaxAttempts = 4  MaxLag = 2
  Tip = 10  Heights = {10, 99}
  Prices = {1, 99}  HonestPrices = {10}  Cap = 50
SPECIFICATION SelectionSpec
INVARIANTS
  LiarsDoNotSetPrices HonestNodesAreKept OneDiscoveryForAll
PROPERTY UnavailabilityEnds
CHECK_DEADLOCK FALSE
