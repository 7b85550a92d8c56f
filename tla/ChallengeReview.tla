--------------------------- MODULE ChallengeReview ---------------------------
(***************************************************************************)
(* controller/librarian.controller.js for one book: the queue of books a   *)
(* librarian may challenge, and the reviews librarians give on a book that *)
(* was challenged.  Rows come from the index, stakes and challenges from   *)
(* the chain, each at its own await; only the review itself is recorded    *)
(* under a lock.                                                           *)
(***************************************************************************)
EXTENDS Integers, FiniteSets

CONSTANTS
  Wallets, Uploader, Nobody,
  Librarians,          \* wallets that are active librarians throughout
  Requests,            \* requests that run at the same time
  KindsOf,             \* the handlers each of them may be a call of
  ReviewCount          \* REVIEW_COUNT

Kinds == {"queue", "challenges", "submit"}

ASSUME ReviewAssumption ==
  /\ Uploader \in Wallets /\ Nobody \notin Wallets /\ Nobody \notin Requests
  /\ IsFiniteSet(Wallets) /\ Librarians \subseteq Wallets
  /\ KindsOf \in [Requests -> SUBSET Kinds]
  /\ ReviewCount \in Nat \ {0}

VARIABLES
  chain, behind,  \* the contracts, and what a provider one change behind tells of them
  over,           \* the time to challenge the book is over
  row,            \* Upload.status
  reviews,        \* table ChallengeReview
  lock,           \* the request that holds the row of the book, or Nobody
  at, call, read, \* requests: the await, the arguments, what the chain told
  could,          \* history: the caller could challenge the book while the request ran
  listed, told    \* history: could of the last queue with the book, the last answer about reviews

indexVars == <<row, reviews, lock>>
requestVars == <<at, call, read>>
history == <<could, listed, told>>

vars == <<chain, behind, over, indexVars, requestVars, history>>

Votes == {"uphold", "dismiss"}
Hidden == -1
Unread == [info |-> {}, challenge |-> {}]
Idle == [kind |-> "none", wallet |-> Nobody, late |-> FALSE]

Contracts == [staker : Wallets \cup {Nobody}, active : BOOLEAN,
              challenger : Wallets \cup {Nobody}, resolved : BOOLEAN]

TypeOK ==
  /\ chain \in Contracts /\ behind \in Contracts /\ over \in BOOLEAN
  /\ row \in {"pending", "challenged", "decided"}
  /\ reviews \in SUBSET [librarian : Wallets, vote : Votes, late : BOOLEAN]
  /\ lock \in Requests \cup {Nobody}
  /\ at \in [Requests -> {"ready", "row", "chain", "lock", "count", "insert",
                          "answer", "votes"}]
  /\ call \in [Requests -> [kind : Kinds \cup {"none"}, wallet : Wallets \cup {Nobody},
                            late : BOOLEAN]]
  /\ read \in [Requests ->
       [info : SUBSET [staker : Wallets \cup {Nobody}, active : BOOLEAN],
        challenge : SUBSET [challenger : Wallets \cup {Nobody}, resolved : BOOLEAN]]]
  /\ could \in [Requests -> BOOLEAN] /\ listed \in BOOLEAN
  /\ told \in [submitted : Nat, uphold : Nat \cup {Hidden}]

Init ==
  /\ chain = [staker |-> Nobody, active |-> FALSE, challenger |-> Nobody,
              resolved |-> FALSE]
  /\ behind = chain /\ over = FALSE
  /\ row = "pending" /\ reviews = {} /\ lock = Nobody
  /\ at = [r \in Requests |-> "ready"]
  /\ call = [r \in Requests |-> Idle]
  /\ read = [r \in Requests |-> Unread]
  /\ could = [r \in Requests |-> FALSE] /\ listed = TRUE
  /\ told = [submitted |-> 0, uphold |-> Hidden]

-----------------------------------------------------------------------------
(* The contracts, and the row that follows them.                           *)

CanChallenge(c, w) ==
  /\ c.active /\ c.staker # w /\ c.challenger = Nobody /\ ~over

Running == {r \in Requests : at[r] # "ready"}

ChainMoves(c) ==
  /\ chain' = c /\ behind' = chain
  /\ could' = [r \in Requests |->
       could[r] \/ (r \in Running /\ call[r].kind = "queue" /\ CanChallenge(c, call[r].wallet))]
  /\ UNCHANGED <<over, indexVars, requestVars, listed, told>>

StakeBook(w) ==
  /\ chain.staker = Nobody
  /\ ChainMoves([chain EXCEPT !.staker = w, !.active = TRUE])

Challenge(w) ==
  /\ CanChallenge(chain, w) /\ w \in Librarians
  /\ ChainMoves([chain EXCEPT !.challenger = w])

Resolve ==
  /\ chain.challenger # Nobody /\ ~chain.resolved
  /\ ChainMoves([chain EXCEPT !.resolved = TRUE])

Unstake ==
  /\ chain.active /\ over /\ chain.challenger = Nobody
  /\ ChainMoves([chain EXCEPT !.active = FALSE])

\* Every provider has the newest block.
CatchUp ==
  /\ behind # chain /\ behind' = chain
  /\ UNCHANGED <<chain, over, indexVars, requestVars, history>>

PeriodEnds ==
  /\ chain.staker # Nobody /\ ~over /\ over' = TRUE
  /\ UNCHANGED <<chain, behind, indexVars, requestVars, history>>

RowFollows ==
  /\ \/ row = "pending" /\ chain.challenger # Nobody /\ row' = "challenged"
     \/ row = "challenged" /\ chain.resolved /\ row' = "decided"
  /\ UNCHANGED <<chain, behind, over, reviews, lock, requestVars, history>>

ChainStep ==
  \/ \E w \in Wallets : StakeBook(w) \/ Challenge(w)
  \/ Resolve \/ Unstake \/ CatchUp \/ PeriodEnds \/ RowFollows

-----------------------------------------------------------------------------
(* What all three handlers begin with.                                     *)

Go(r, point) == at' = [at EXCEPT ![r] = point]

Reply(r) ==
  /\ Go(r, "ready")
  /\ call' = [call EXCEPT ![r] = Idle] /\ could' = [could EXCEPT ![r] = FALSE]

\* Continue at point if the check passes, else answer.
Check(r, passes, point) ==
  IF passes THEN Go(r, point) /\ UNCHANGED <<call, could>> ELSE Reply(r)

Unlock(r) == lock' = IF lock = r THEN Nobody ELSE lock

Arrive(r) ==
  /\ at[r] = "ready" /\ Go(r, "row")
  /\ \E k \in KindsOf[r], w \in Wallets :
       /\ call' = [call EXCEPT ![r] = [kind |-> k, wallet |-> w,
                                       late |-> k = "submit" /\ behind.resolved]]
       /\ could' = [could EXCEPT ![r] =
                      k = "queue" /\ (CanChallenge(chain, w) \/ CanChallenge(behind, w))]
  /\ UNCHANGED <<chain, behind, over, indexVars, read, listed, told>>

\* WHERE status = ...: books of the queue, books whose challenge is pending.
Wanted(r) == IF call[r].kind = "queue" THEN {"pending"} ELSE {"challenged"}

ReadRow(r) ==
  /\ at[r] = "row"
  /\ Check(r, row \in Wanted(r), "chain")
  /\ UNCHANGED <<chain, behind, over, indexVars, read, listed, told>>

\* getStakeStatus(): two of its calls, answered in any order and by any provider.
ReadChain(r) ==
  /\ at[r] = "chain"
  /\ \E view \in {chain, behind} :
       \/ /\ read[r].info = {}
          /\ read' = [read EXCEPT ![r].info = {[staker |-> view.staker, active |-> view.active]}]
       \/ /\ read[r].challenge = {}
          /\ read' = [read EXCEPT ![r].challenge =
                        {[challenger |-> view.challenger, resolved |-> view.resolved]}]
  /\ UNCHANGED <<chain, behind, over, indexVars, at, call, history>>

\* The challenge in the answer of getStakeStatus(): none for a book without a stake.
SeenChallenge(r) ==
  {c \in read[r].challenge : c.challenger # Nobody /\ \A i \in read[r].info : i.staker # Nobody}

Told(r, kind) ==
  /\ at[r] = "chain" /\ call[r].kind = kind
  /\ read[r].info # {} /\ read[r].challenge # {}
  /\ read' = [read EXCEPT ![r] = Unread]

\* An input that does not pass, a query that fails, a restart; of a transaction,
\* whatever it has not committed is undone.
Fails(r) ==
  /\ r \in Running
  /\ Reply(r) /\ Unlock(r)
  /\ read' = [read EXCEPT ![r] = Unread]
  /\ UNCHANGED <<chain, behind, over, row, reviews, listed, told>>

-----------------------------------------------------------------------------
(* getReviewQueue()                                                        *)

\* Bug: that the book was challenged is left to its status in the index.
IsChallengeableByRow(r) ==
  \A i \in read[r].info : i.active /\ i.staker # call[r].wallet /\ ~over

\* isChallengeable(): the period is compared with the clock when all answers are in.
IsChallengeable(r) ==
  /\ \A i \in read[r].info : i.active /\ i.staker # call[r].wallet /\ ~over
  /\ SeenChallenge(r) = {}

ListQueue(r) ==
  /\ Told(r, "queue")
  /\ Reply(r)
  /\ listed' = IF IsChallengeable(r) THEN could[r] ELSE listed
  /\ UNCHANGED <<chain, behind, over, indexVars, told>>

-----------------------------------------------------------------------------
(* submitChallengeReview()                                                 *)

\* Bug: a challenge that was resolved still takes reviews.
PendingOnce(r) == SeenChallenge(r) # {}

Pending(r) == \E c \in SeenChallenge(r) : ~c.resolved

\* Bug: the challenger is only kept out by the frontend.
ConflictedByStake(r) ==
  {Uploader} \cup {i.staker : i \in read[r].info}

Conflicted(r) ==
  {Uploader} \cup {i.staker : i \in read[r].info}
             \cup {c.challenger : c \in read[r].challenge}

CheckReviewer(r) ==
  /\ Told(r, "submit")
  /\ Check(r, /\ call[r].wallet \in Librarians /\ Pending(r)
              /\ call[r].wallet \notin Conflicted(r), "lock")
  /\ UNCHANGED <<chain, behind, over, indexVars, listed, told>>

\* Bug: the row is only read.
LockNothing(r) ==
  /\ at[r] = "lock" /\ lock' = lock /\ Go(r, "count")
  /\ UNCHANGED <<chain, behind, over, row, reviews, call, read, history>>

\* SELECT ... FOR UPDATE
LockRow(r) ==
  /\ at[r] = "lock" /\ lock = Nobody
  /\ lock' = r /\ Go(r, "count")
  /\ UNCHANGED <<chain, behind, over, row, reviews, call, read, history>>

By(w) == {v \in reviews : v.librarian = w}

\* findUnique() and count(): already_submitted, reviews_complete, or go on.
CountReviews(r) ==
  /\ at[r] = "count"
  /\ LET free == By(call[r].wallet) = {} /\ Cardinality(reviews) < ReviewCount
     IN  Check(r, free, "insert") /\ IF free THEN lock' = lock ELSE Unlock(r)
  /\ UNCHANGED <<chain, behind, over, row, reviews, read, listed, told>>

\* The insert and its commit; of two with the same librarian the unique index refuses
\* one (P2002), and the reply may be lost.
Create(r) ==
  /\ at[r] = "insert" /\ By(call[r].wallet) = {}
  /\ \E v \in Votes : reviews' = reviews \cup
       {[librarian |-> call[r].wallet, vote |-> v, late |-> call[r].late]}
  /\ Unlock(r)
  /\ \E replied \in BOOLEAN : Check(r, replied, "answer")
  /\ UNCHANGED <<chain, behind, over, row, read, listed, told>>

-----------------------------------------------------------------------------
(* services/challengeReview.service.js: what an answer says of reviews.    *)

Upholding(S) == Cardinality({v \in S : v.vote = "uphold"})

\* Bug: votes are shown once enough agree.
SummaryAtConsensus(S) ==
  [submitted |-> Cardinality(S),
   uphold |-> IF 2 * Upholding(S) >= ReviewCount THEN Upholding(S) ELSE Hidden]

\* summarizeReviews()
Summary(S) ==
  [submitted |-> Cardinality(S),
   uphold |-> IF Cardinality(S) < ReviewCount THEN Hidden ELSE Upholding(S)]

\* isStoredChallengeReviewValid() on the columns a query selects.
Checked == {"arweaveHash", "librarian", "vote", "rationale", "signedMessage", "signature"}
Selected == {"arweaveHash", "librarian", "vote", "rationale", "reviewedAt"}

Valid(S) == IF Checked \subseteq Selected THEN S ELSE {}

AnswerReview(r) ==
  /\ at[r] = "answer" /\ Reply(r)
  /\ told' = Summary(reviews)
  /\ UNCHANGED <<chain, behind, over, indexVars, read, listed>>

\* getChallengeReviews()
CheckChallenge(r) ==
  /\ Told(r, "challenges")
  /\ Check(r, Pending(r), "votes")
  /\ UNCHANGED <<chain, behind, over, indexVars, listed, told>>

AnswerChallenges(r) ==
  /\ at[r] = "votes" /\ Reply(r)
  /\ told' = Summary(Valid(reviews))
  /\ UNCHANGED <<chain, behind, over, indexVars, read, listed>>

RequestStep(r) ==
  \/ Arrive(r) \/ ReadRow(r) \/ ReadChain(r) \/ Fails(r)
  \/ ListQueue(r)
  \/ CheckReviewer(r) \/ LockRow(r) \/ CountReviews(r) \/ Create(r) \/ AnswerReview(r)
  \/ CheckChallenge(r) \/ AnswerChallenges(r)

Next == ChainStep \/ \E r \in Requests : RequestStep(r)

Spec == Init /\ [][Next]_vars

-----------------------------------------------------------------------------
(* Properties                                                              *)

\* A challenge gets at most REVIEW_COUNT reviews, one from each librarian, however many
\* requests pass the checks at the same time (librarian.controller.js:403-427).
ReviewsWithinCap ==
  /\ Cardinality(reviews) <= ReviewCount
  /\ \A u, v \in reviews : u.librarian = v.librarian => u = v

\* Votes are revealed only when all reviews are in, and what was revealed stays the
\* result: no answer shows a count of votes that a later review changes
\* (librarian.controller.js:279-281, challengeReview.service.js:55-70).
VerdictIsFinal ==
  told.uphold # Hidden =>
    told.uphold = Upholding(reviews) /\ Cardinality(reviews) = ReviewCount

\* Neither the uploader nor the staker nor the challenger reviews a challenge, although
\* who they are is read from providers that may be behind (librarian.controller.js:394-399).
ReviewersAreIndependent ==
  \A v \in reviews : v.librarian \notin {Uploader, chain.staker, chain.challenger}

\* A review is recorded after the challenge was resolved only if that happened while the
\* request ran or a provider was behind (librarian.controller.js:387-396).
LateReviewsRaced == \A v \in reviews : ~v.late

\* A book in a librarian's queue could be challenged by that librarian at some moment
\* of the request, although its status and three facts of the contracts are read one by
\* one (librarian.controller.js:7-24, 171-178).
QueueIsChallengeable == listed

\* Librarians see how many reviews are in, and the votes once they all are: the promise
\* of GET /api/librarian/challenges (librarian.controller.js:278-281).
ProgressIsShown ==
  [][told' # told => told'.submitted = Cardinality(reviews)]_vars
=============================================================================
