\* The uploader, a librarian and a reader; three changes of the chain.
CONSTANTS
  w1 = w1  w2 = w2  w3 = w3  r1 = r1
  Nobody = Nobody
  Wallets = {w1, w2, w3}  Uploader = w1  Librarians = {w2}
  Requests = {r1}
  Messages <- Signed
  MaxWindow = 2  MaxSkew = 1
  MaxTime = 3  MaxMoves = 3
SPECIFICATION Spec
INVARIANTS
  OpenedForReadersOnly TurnedAwayAtEveryDoor SignatureIsShortLived
CHECK_DEADLOCK FALSE
