SPECIFICATION Spec
CONSTANTS
  Wallets = {up, l1, l2, l3, l4}
  Uploader = up
  Librarians = {l1, l2, l3, l4}
  Nobody = nobody
  Requests = {r1, r2}
  Visitor = r1
  KindsOf <- Calls
  ReviewCount = 2
SYMMETRY Symmetry
INVARIANTS ReviewsWithinCap VerdictIsFinal ReviewersAreIndependent LateReviewsRaced QueueIsChallengeable
