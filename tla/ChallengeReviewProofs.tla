------------------------ MODULE ChallengeReviewProofs ------------------------
(***************************************************************************)
(* Proofs about ChallengeReview, for any number of requests, wallets and   *)
(* reviews: the cap and the verdict rest on the lock of the book's row,    *)
(* the independence of reviewers and the truth of the queue on what a      *)
(* provider that is one change behind can tell.                            *)
(***************************************************************************)
EXTENDS ChallengeReview, FiniteSetTheorems, TLAPS

-----------------------------------------------------------------------------
(* 1. Type correctness.                                                    *)

\* Types, and what they leave out: reviews are finitely many, callers have a wallet.
CallType ==
  /\ at \in [Requests -> {"ready", "row", "chain", "lock", "count", "insert", "answer", "votes"}]
  /\ call \in [Requests -> [kind : Kinds \cup {"none"}, wallet : Wallets \cup {Nobody},
                            late : BOOLEAN]]
  /\ could \in [Requests -> BOOLEAN]
  /\ \A r \in Requests : at[r] # "ready" => call[r].wallet \in Wallets

Typed == TypeOK /\ CallType /\ IsFiniteSet(reviews)

Points == {"row", "chain", "lock", "count", "insert", "answer", "votes"}

LEMMA GoType ==
  ASSUME CallType, NEW r \in Requests, at[r] # "ready", NEW p \in Points,
         Go(r, p), UNCHANGED <<call, could>>
  PROVE  CallType'
  BY DEF CallType, Go, Points

LEMMA ReplyType ==
  ASSUME CallType, NEW r \in Requests, Reply(r)
  PROVE  CallType'
<1>1. Idle \in [kind : Kinds \cup {"none"}, wallet : Wallets \cup {Nobody}, late : BOOLEAN]
  BY DEF Idle
<1> QED
  BY <1>1 DEF CallType, Reply, Go

LEMMA CheckType ==
  ASSUME CallType, NEW r \in Requests, at[r] # "ready", NEW p \in Points,
         NEW passes, Check(r, passes, p)
  PROVE  CallType'
  BY GoType, ReplyType DEF Check

LEMMA ArriveType ==
  ASSUME CallType, TypeOK, NEW r \in Requests, Arrive(r)
  PROVE  CallType'
<1>1. PICK k \in KindsOf[r], w \in Wallets :
        /\ call' = [call EXCEPT ![r] = [kind |-> k, wallet |-> w,
                                        late |-> k = "submit" /\ behind.resolved]]
        /\ could' = [could EXCEPT ![r] =
                       k = "queue" /\ (CanChallenge(chain, w) \/ CanChallenge(behind, w))]
  BY DEF Arrive
<1>2. k \in Kinds
  BY ReviewAssumption
<1>3. [kind |-> k, wallet |-> w, late |-> k = "submit" /\ behind.resolved]
        \in [kind : Kinds \cup {"none"}, wallet : Wallets \cup {Nobody}, late : BOOLEAN]
  BY <1>2
<1>4. (k = "queue" /\ (CanChallenge(chain, w) \/ CanChallenge(behind, w))) \in BOOLEAN
  OBVIOUS
<1>5. call' \in [Requests -> [kind : Kinds \cup {"none"}, wallet : Wallets \cup {Nobody},
                              late : BOOLEAN]]
  BY <1>1, <1>3 DEF CallType
<1>6. could' \in [Requests -> BOOLEAN]
  BY <1>1, <1>4 DEF CallType
<1>7. at' \in [Requests -> {"ready", "row", "chain", "lock", "count", "insert", "answer", "votes"}]
  BY DEF Arrive, Go, CallType
<1>8. \A q \in Requests : at'[q] # "ready" => call'[q].wallet \in Wallets
  BY <1>1 DEF Arrive, Go, CallType
<1> QED
  BY <1>5, <1>6, <1>7, <1>8 DEF CallType

\* What the requests do to their own variables.
LEMMA CallStep ==
  ASSUME Typed, NEW r \in Requests, RequestStep(r)
  PROVE  CallType'
<1> USE DEF Typed, Points
<1>1. CASE Arrive(r)
  BY <1>1, ArriveType
<1>2. CASE ReadRow(r)
  BY <1>2, CheckType DEF ReadRow
<1>3. CASE Fails(r)
  BY <1>3, ReplyType DEF Fails
<1>4. CASE ReadChain(r)
  BY <1>4 DEF ReadChain, CallType, history
<1>5. CASE ListQueue(r)
  BY <1>5, ReplyType DEF ListQueue
<1>6. CASE CheckReviewer(r)
  BY <1>6, CheckType DEF CheckReviewer, Told
<1>7. CASE CheckChallenge(r)
  BY <1>7, CheckType DEF CheckChallenge, Told
<1>8. CASE LockRow(r)
  BY <1>8, GoType DEF LockRow, history
<1>9. CASE CountReviews(r)
  BY <1>9, CheckType DEF CountReviews
<1>10. CASE Create(r)
  BY <1>10, CheckType DEF Create
<1>11. CASE AnswerReview(r) \/ AnswerChallenges(r)
  BY <1>11, ReplyType DEF AnswerReview, AnswerChallenges
<1> QED
  BY <1>1, <1>2, <1>3, <1>4, <1>5, <1>6, <1>7, <1>8, <1>9, <1>10, <1>11 DEF RequestStep

\* What they do to the rest.
SharedType ==
  /\ chain \in Contracts /\ behind \in Contracts /\ over \in BOOLEAN
  /\ row \in {"pending", "challenged", "decided"}

IndexType ==
  /\ reviews \in SUBSET [librarian : Wallets, vote : Votes, late : BOOLEAN]
  /\ lock \in Requests \cup {Nobody}
  /\ IsFiniteSet(reviews)

ReadType ==
  read \in [Requests ->
    [info : SUBSET [staker : Wallets \cup {Nobody}, active : BOOLEAN],
     challenge : SUBSET [challenger : Wallets \cup {Nobody}, resolved : BOOLEAN]]]

AnswerType ==
  listed \in BOOLEAN /\ told \in [submitted : Nat, uphold : Nat \cup {Hidden}]

LEMMA TypeParts == Typed <=> SharedType /\ IndexType /\ ReadType /\ AnswerType /\ CallType
  BY DEF Typed, TypeOK, SharedType, IndexType, ReadType, AnswerType, CallType

LEMMA ReadStep ==
  ASSUME Typed, NEW r \in Requests, RequestStep(r)
  PROVE  ReadType'
<1>1. ReadType /\ SharedType
  BY TypeParts
<1>2. Unread \in [info : SUBSET [staker : Wallets \cup {Nobody}, active : BOOLEAN],
                  challenge : SUBSET [challenger : Wallets \cup {Nobody}, resolved : BOOLEAN]]
  BY DEF Unread
<1>3. CASE UNCHANGED read
  BY <1>1, <1>3 DEF ReadType
<1>4. CASE read' = [read EXCEPT ![r] = Unread]
  BY <1>1, <1>2, <1>4 DEF ReadType
<1>5. CASE ReadChain(r)
  BY <1>1, <1>5 DEF ReadChain, ReadType, SharedType, Contracts
<1> QED
  BY <1>3, <1>4, <1>5 DEF RequestStep, Arrive, ReadRow, Fails, ListQueue, CheckReviewer, LockRow,
     CountReviews, Create, AnswerReview, CheckChallenge, AnswerChallenges, Told

\* A review is added by Create only, and the lock is taken by LockRow only.
LEMMA IndexStep ==
  ASSUME Typed, NEW r \in Requests, RequestStep(r)
  PROVE  IndexType'
<1>1. IndexType
  BY TypeParts
<1>2. CASE UNCHANGED reviews /\ lock' \in {lock, Nobody, r}
  BY <1>1, <1>2 DEF IndexType
<1>3. CASE Create(r)
  <2>1. PICK v \in Votes : reviews' = reviews \cup
          {[librarian |-> call[r].wallet, vote |-> v, late |-> call[r].late]}
    BY <1>3 DEF Create
  <2>2. call[r].wallet \in Wallets /\ call[r].late \in BOOLEAN
    BY <1>3 DEF Create, Typed, CallType
  <2>3. IsFiniteSet(reviews')
    BY <1>1, <2>1, FS_AddElement DEF IndexType
  <2>4. lock' \in {lock, Nobody}
    BY <1>3 DEF Create, Unlock
  <2> QED
    BY <1>1, <2>1, <2>2, <2>3, <2>4 DEF IndexType
<1> QED
  BY <1>2, <1>3 DEF RequestStep, Arrive, ReadRow, ReadChain, Fails, ListQueue, CheckReviewer,
     LockRow, CountReviews, AnswerReview, CheckChallenge, AnswerChallenges, Unlock, indexVars

LEMMA SummaryType ==
  ASSUME NEW S, IsFiniteSet(S)
  PROVE  Summary(S) \in [submitted : Nat, uphold : Nat \cup {Hidden}]
<1>1. Cardinality(S) \in Nat
  BY FS_CardinalityType
<1>2. Upholding(S) \in Nat
  BY FS_Subset, FS_CardinalityType DEF Upholding
<1> QED
  BY <1>1, <1>2 DEF Summary

LEMMA AnswerStep ==
  ASSUME Typed, NEW r \in Requests, RequestStep(r)
  PROVE  AnswerType'
<1>1. AnswerType /\ IndexType /\ CallType
  BY TypeParts
<1>2. CASE UNCHANGED <<listed, told>>
  BY <1>1, <1>2 DEF AnswerType
<1>3. CASE ListQueue(r)
  BY <1>1, <1>3 DEF ListQueue, AnswerType, CallType
<1>4. CASE AnswerReview(r) \/ AnswerChallenges(r)
  <2>1. IsFiniteSet(reviews) /\ IsFiniteSet(Valid(reviews))
    BY <1>1, FS_EmptySet DEF IndexType, Valid
  <2> QED
    BY <1>1, <1>4, <2>1, SummaryType DEF AnswerReview, AnswerChallenges, AnswerType
<1> QED
  BY <1>2, <1>3, <1>4 DEF RequestStep, Arrive, ReadRow, ReadChain, Fails, CheckReviewer,
     LockRow, CountReviews, Create, CheckChallenge, history

LEMMA ChainStepType ==
  ASSUME Typed, ChainStep
  PROVE  Typed'
<1>1. SharedType /\ IndexType /\ ReadType /\ AnswerType /\ CallType
  BY TypeParts
<1>2. ASSUME NEW c \in Contracts, ChainMoves(c) PROVE Typed'
  <2>1. SharedType'
    BY <1>1, <1>2 DEF ChainMoves, SharedType, indexVars
  <2>2. could' \in [Requests -> BOOLEAN]
    BY <1>2 DEF ChainMoves
  <2>3. UNCHANGED <<row, reviews, lock, at, call, read, listed, told>>
    BY <1>2 DEF ChainMoves, indexVars, requestVars
  <2>4. CallType'
    BY <1>1, <2>2, <2>3 DEF CallType
  <2>5. IndexType' /\ ReadType' /\ AnswerType'
    BY <1>1, <2>3 DEF IndexType, ReadType, AnswerType
  <2> QED
    BY <2>1, <2>4, <2>5
       DEF Typed, TypeOK, SharedType, IndexType, ReadType, AnswerType, CallType
<1>3. ASSUME NEW w \in Wallets, StakeBook(w) PROVE Typed'
  BY <1>1, <1>2, <1>3 DEF StakeBook, SharedType, Contracts
<1>4. ASSUME NEW w \in Wallets, Challenge(w) PROVE Typed'
  BY <1>1, <1>2, <1>4 DEF Challenge, SharedType, Contracts
<1>5. CASE Resolve \/ Unstake
  BY <1>1, <1>2, <1>5 DEF Resolve, Unstake, SharedType, Contracts
<1>6. CASE CatchUp \/ PeriodEnds \/ RowFollows
  <2>1. UNCHANGED <<reviews, lock, at, call, read, could, listed, told>>
    BY <1>6 DEF CatchUp, PeriodEnds, RowFollows, indexVars, requestVars, history
  <2>2. SharedType'
    BY <1>1, <1>6 DEF CatchUp, PeriodEnds, RowFollows, indexVars, SharedType
  <2>3. CallType'
    BY <1>1, <2>1 DEF CallType
  <2>4. IndexType' /\ ReadType' /\ AnswerType'
    BY <1>1, <2>1 DEF IndexType, ReadType, AnswerType
  <2> QED
    BY <2>2, <2>3, <2>4
       DEF Typed, TypeOK, SharedType, IndexType, ReadType, AnswerType, CallType
<1> QED
  BY <1>3, <1>4, <1>5, <1>6 DEF ChainStep

LEMMA RequestStepType ==
  ASSUME Typed, NEW r \in Requests, RequestStep(r)
  PROVE  Typed'
<1>1. UNCHANGED <<chain, behind, over, row>>
  BY DEF RequestStep, Arrive, ReadRow, ReadChain, Fails, ListQueue,
     CheckReviewer, LockRow, CountReviews, Create, AnswerReview, CheckChallenge,
     AnswerChallenges, indexVars
<1>2. SharedType'
  BY <1>1, TypeParts DEF SharedType
<1> QED
  BY <1>2, CallStep, ReadStep, IndexStep, AnswerStep
     DEF Typed, TypeOK, SharedType, IndexType, ReadType, AnswerType, CallType

LEMMA TypedInit == Init => Typed
<1> SUFFICES ASSUME Init PROVE Typed
  OBVIOUS
<1>1. SharedType
  BY DEF Init, SharedType, Contracts
<1>2. IndexType
  BY FS_EmptySet DEF Init, IndexType
<1>3. ReadType
  BY DEF Init, ReadType, Unread
<1>4. CallType
  BY DEF Init, CallType, Idle
<1>5. AnswerType
  BY DEF Init, AnswerType
<1> QED
  BY <1>1, <1>2, <1>3, <1>4, <1>5, TypeParts

LEMMA TypedInvariant == Spec => []Typed
<1>1. Typed /\ [Next]_vars => Typed'
  <2>1. CASE UNCHANGED vars
    BY <2>1 DEF vars, indexVars, requestVars, history, Typed, TypeOK, CallType
  <2> QED
    BY <2>1, ChainStepType, RequestStepType DEF Next
<1> QED
  BY <1>1, TypedInit, PTL DEF Spec

\* Every variable keeps its type, for any number of requests and wallets.
THEOREM TypeCorrect == Spec => []TypeOK
  BY TypedInvariant, PTL DEF Typed

-----------------------------------------------------------------------------
(* 2. The row of the book is locked while reviews are counted and added.   *)

Locked == \A r \in Requests : at[r] \in {"count", "insert"} <=> lock = r

Room ==
  \A r \in Requests : at[r] = "insert" =>
    Cardinality(reviews) < ReviewCount /\ By(call[r].wallet) = {}

VotesInv == Locked /\ Room /\ ReviewsWithinCap /\ VerdictIsFinal

\* Other requests keep their place and their arguments.
LEMMA OthersKeep ==
  ASSUME Typed, NEW r \in Requests, RequestStep(r), NEW q \in Requests, q # r
  PROVE  at'[q] = at[q] /\ call'[q] = call[q]
<1>1. CallType
  BY TypeParts
<1> QED
  BY <1>1 DEF RequestStep, Arrive, ReadRow, ReadChain, Fails, ListQueue, CheckReviewer, LockRow,
     CountReviews, Create, AnswerReview, CheckChallenge, AnswerChallenges, Check, Reply, Go,
     CallType, history

LEMMA LockedStep ==
  ASSUME Typed, Locked, NEW r \in Requests, RequestStep(r)
  PROVE  Locked'
<1>1. CallType /\ lock \in Requests \cup {Nobody} /\ Nobody \notin Requests
  BY TypeParts, ReviewAssumption DEF IndexType
<1>2. SUFFICES /\ at'[r] \in {"count", "insert"} <=> lock' = r
               /\ lock' # lock => lock \in {r, Nobody} /\ lock' \in {r, Nobody}
  BY <1>1, OthersKeep DEF Locked
<1>3. CASE at[r] \notin {"lock", "count", "insert"}
  BY <1>1, <1>3 DEF Locked, RequestStep, Arrive, ReadRow, ReadChain, Fails, ListQueue,
     CheckReviewer, LockRow, CountReviews, Create, AnswerReview, CheckChallenge,
     AnswerChallenges, Check, Reply, Go, Unlock, CallType, history, indexVars, Told
<1>4. CASE at[r] = "lock"
  BY <1>1, <1>4 DEF Locked, RequestStep, Arrive, ReadRow, ReadChain, Fails, ListQueue,
     CheckReviewer, LockRow, CountReviews, Create, AnswerReview, CheckChallenge,
     AnswerChallenges, Reply, Go, Unlock, CallType, Told
<1>5. CASE at[r] = "count"
  BY <1>1, <1>5 DEF Locked, RequestStep, Arrive, ReadRow, ReadChain, Fails, ListQueue,
     CheckReviewer, LockRow, CountReviews, Create, AnswerReview, CheckChallenge,
     AnswerChallenges, Check, Reply, Go, Unlock, CallType, Told
<1>6. CASE at[r] = "insert"
  BY <1>1, <1>6 DEF Locked, RequestStep, Arrive, ReadRow, ReadChain, Fails, ListQueue,
     CheckReviewer, LockRow, CountReviews, Create, AnswerReview, CheckChallenge,
     AnswerChallenges, Check, Reply, Go, Unlock, CallType, Told
<1> QED
  BY <1>3, <1>4, <1>5, <1>6

\* Who adds a review held the lock, found room and no review of the same librarian.
LEMMA CreateAdds ==
  ASSUME Typed, VotesInv, NEW r \in Requests, Create(r)
  PROVE  /\ lock = r /\ Cardinality(reviews) < ReviewCount
         /\ Cardinality(reviews') = Cardinality(reviews) + 1
         /\ ReviewsWithinCap'
<1>1. PICK v \in Votes : reviews' = reviews \cup
        {[librarian |-> call[r].wallet, vote |-> v, late |-> call[r].late]}
  BY DEF Create
<1>2. /\ at[r] = "insert" /\ lock = r /\ Cardinality(reviews) < ReviewCount
      /\ By(call[r].wallet) = {}
  BY DEF Create, VotesInv, Locked, Room
<1> DEFINE new == [librarian |-> call[r].wallet, vote |-> v, late |-> call[r].late]
<1>3. IsFiniteSet(reviews) /\ new \notin reviews
  BY <1>2, TypeParts DEF IndexType, By
<1>4. Cardinality(reviews') = Cardinality(reviews) + 1 /\ Cardinality(reviews) \in Nat
  BY <1>1, <1>3, FS_AddElement, FS_CardinalityType
<1>5. \A u, w \in reviews' : u.librarian = w.librarian => u = w
  BY <1>1, <1>2 DEF By, VotesInv, ReviewsWithinCap
<1> QED
  BY <1>2, <1>4, <1>5, ReviewAssumption DEF ReviewsWithinCap

LEMMA AnswerIsFinal ==
  ASSUME Typed, VotesInv, NEW S, S = reviews \/ S = {}
  PROVE  Summary(S).uphold # Hidden =>
           Summary(S).uphold = Upholding(reviews) /\ Cardinality(reviews) = ReviewCount
<1>1. Cardinality({}) = 0 /\ Cardinality(reviews) \in Nat
  BY FS_EmptySet, FS_CardinalityType, TypeParts DEF IndexType
<1> QED
  BY <1>1, ReviewAssumption DEF Summary, VotesInv, ReviewsWithinCap

LEMMA VotesStep ==
  ASSUME Typed, VotesInv, NEW r \in Requests, RequestStep(r)
  PROVE  VotesInv'
<1>1. Locked'
  BY LockedStep DEF VotesInv
<1>2. CASE Create(r)
  <2>1. Cardinality(reviews) # ReviewCount /\ UNCHANGED told
    BY <1>2, CreateAdds, FS_CardinalityType, TypeParts, ReviewAssumption DEF Create, IndexType
  <2>2. VerdictIsFinal'
    BY <2>1 DEF VotesInv, VerdictIsFinal
  <2>3. at'[r] # "insert"
    BY <1>2, TypeParts DEF Create, Check, Reply, Go, CallType
  <2>4. ASSUME NEW q \in Requests, at'[q] = "insert" PROVE FALSE
    BY <1>2, <2>3, <2>4, OthersKeep, CreateAdds DEF VotesInv, Locked
  <2> QED
    BY <1>1, <1>2, <2>2, <2>4, CreateAdds DEF VotesInv, Room
<1>3. CASE ~Create(r)
  <2>1. UNCHANGED reviews
    BY <1>3 DEF RequestStep, Arrive, ReadRow, ReadChain, Fails, ListQueue, CheckReviewer,
       LockRow, CountReviews, AnswerReview, CheckChallenge, AnswerChallenges, indexVars
  <2>2. at'[r] = "insert" => Cardinality(reviews) < ReviewCount /\ By(call'[r].wallet) = {}
    BY <1>3, TypeParts DEF RequestStep, Arrive, ReadRow, ReadChain, Fails, ListQueue,
       CheckReviewer, LockRow, CountReviews, AnswerReview, CheckChallenge, AnswerChallenges,
       Check, Reply, Go, CallType, Told, history
  <2>3. Room'
    <3>1. ASSUME NEW q \in Requests, at'[q] = "insert"
          PROVE  Cardinality(reviews) < ReviewCount /\ By(call'[q].wallet) = {}
      BY <2>2, <3>1, OthersKeep DEF VotesInv, Room
    <3> QED
      BY <2>1, <3>1 DEF Room, By
  <2>4. UNCHANGED told \/ told' = Summary(reviews) \/ told' = Summary({})
    BY <1>3 DEF RequestStep, Arrive, ReadRow, ReadChain, Fails, ListQueue, CheckReviewer,
       LockRow, CountReviews, AnswerReview, CheckChallenge, AnswerChallenges, Valid, history
  <2>5. VerdictIsFinal'
    BY <2>1, <2>4, AnswerIsFinal DEF VotesInv, VerdictIsFinal, Upholding
  <2> QED
    BY <1>1, <2>1, <2>3, <2>5 DEF VotesInv, ReviewsWithinCap
<1> QED
  BY <1>2, <1>3

LEMMA VotesInvariant == Spec => []VotesInv
<1>1. Init => VotesInv
  BY FS_EmptySet, ReviewAssumption
     DEF Init, VotesInv, Locked, Room, ReviewsWithinCap, VerdictIsFinal
<1>2. ASSUME Typed, VotesInv, [Next]_vars PROVE VotesInv'
  <2>1. CASE UNCHANGED <<at, call, lock, reviews, told>>
    BY <1>2, <2>1 DEF VotesInv, Locked, Room, ReviewsWithinCap, VerdictIsFinal, By, Upholding
  <2>2. CASE ChainStep
    BY <2>1, <2>2 DEF ChainStep, StakeBook, Challenge, Resolve, Unstake, CatchUp, PeriodEnds,
       RowFollows, ChainMoves, indexVars, requestVars, history
  <2>3. CASE UNCHANGED vars
    BY <2>1, <2>3 DEF vars, indexVars, requestVars, history
  <2> QED
    BY <1>2, <2>2, <2>3, VotesStep DEF Next
<1> QED
  BY <1>1, <1>2, TypedInvariant, PTL DEF Spec

\* A challenge gets at most ReviewCount reviews and one per librarian, for any number of
\* requests at a time, because they are counted under the lock of the row.
THEOREM CapHolds == Spec => []ReviewsWithinCap
  BY VotesInvariant, PTL DEF VotesInv

\* What an answer reveals of the votes is their final count.
THEOREM VerdictStands == Spec => []VerdictIsFinal
  BY VotesInvariant, PTL DEF VotesInv

-----------------------------------------------------------------------------
(* 3. What a provider that is one change behind can tell.                  *)

\* Stakers and challengers stay who they are; only a staked book is challenged, and only
\* a challenge is resolved.
Versions ==
  /\ behind.staker \in {Nobody, chain.staker}
  /\ behind.challenger \in {Nobody, chain.challenger}
  /\ chain.challenger # Nobody => chain.active
  /\ chain.active => chain.staker # Nobody
  /\ behind.active => behind.staker # Nobody
  /\ behind.challenger # Nobody => behind.active
  /\ chain.challenger # Nobody => behind.active /\ behind.staker = chain.staker
  /\ behind.resolved => chain.resolved

\* What a request has read of them.
Seen(r) ==
  /\ at[r] # "chain" => read[r] = Unread
  /\ \A i \in read[r].info : i.staker \in {Nobody, chain.staker}
  /\ \A c \in read[r].challenge : c.challenger \in {Nobody, chain.challenger}
  /\ call[r].late => behind.resolved /\ \A c \in read[r].challenge : c.resolved

\* What it knows when it is allowed to review.
Admitted(r) ==
  at[r] \in {"lock", "count", "insert"} =>
    /\ call[r].wallet \notin {Uploader, chain.staker, chain.challenger}
    /\ chain.staker # Nobody /\ chain.challenger # Nobody /\ ~call[r].late

ViewInv ==
  /\ Versions
  /\ \A r \in Requests : Seen(r) /\ Admitted(r)
  /\ ReviewersAreIndependent /\ LateReviewsRaced
  /\ reviews # {} => chain.staker # Nobody /\ chain.challenger # Nobody

LEMMA ViewChainStep ==
  ASSUME Typed, ViewInv, ChainStep
  PROVE  ViewInv'
<1>1. SharedType /\ Nobody \notin Wallets
  BY TypeParts, ReviewAssumption
<1>2. UNCHANGED <<reviews, at, call, read>>
  BY DEF ChainStep, StakeBook, Challenge, Resolve, Unstake, CatchUp, PeriodEnds, RowFollows,
     ChainMoves, indexVars, requestVars, history
<1>3. /\ Versions'
      /\ chain'.staker = chain.staker \/ chain.staker = Nobody
      /\ chain'.challenger = chain.challenger \/ chain.challenger = Nobody
      /\ behind.resolved => behind'.resolved
  <2>1. ASSUME NEW w \in Wallets, StakeBook(w) PROVE <1>3!:
    BY <1>1, <2>1 DEF StakeBook, ChainMoves, ViewInv, Versions, SharedType, Contracts
  <2>2. ASSUME NEW w \in Wallets, Challenge(w) PROVE <1>3!:
    BY <1>1, <2>2 DEF Challenge, CanChallenge, ChainMoves, ViewInv, Versions, SharedType, Contracts
  <2>3. CASE Resolve \/ Unstake
    BY <1>1, <2>3 DEF Resolve, Unstake, ChainMoves, ViewInv, Versions, SharedType, Contracts
  <2>4. CASE CatchUp \/ PeriodEnds \/ RowFollows
    BY <1>1, <2>4 DEF CatchUp, PeriodEnds, RowFollows, ViewInv, Versions
  <2> QED
    BY <2>1, <2>2, <2>3, <2>4 DEF ChainStep
<1>4. ASSUME NEW r \in Requests PROVE Seen(r)' /\ Admitted(r)'
  BY <1>2, <1>3 DEF ViewInv, Seen, Admitted
<1>5. ReviewersAreIndependent' /\ LateReviewsRaced'
      /\ (reviews' # {} => chain'.staker # Nobody /\ chain'.challenger # Nobody)
  BY <1>2, <1>3 DEF ViewInv, ReviewersAreIndependent, LateReviewsRaced
<1> QED
  BY <1>3, <1>4, <1>5 DEF ViewInv

LEMMA ViewRequestStep ==
  ASSUME Typed, ViewInv, NEW r \in Requests, RequestStep(r)
  PROVE  ViewInv'
<1>1. SharedType /\ CallType /\ ReadType /\ Nobody \notin Wallets
  BY TypeParts, ReviewAssumption
<1>2. UNCHANGED <<chain, behind>>
  BY DEF RequestStep, Arrive, ReadRow, ReadChain, Fails, ListQueue, CheckReviewer, LockRow,
     CountReviews, Create, AnswerReview, CheckChallenge, AnswerChallenges
<1>3. Versions'
  BY <1>2 DEF ViewInv, Versions
<1>4. ASSUME NEW q \in Requests, q # r PROVE Seen(q)' /\ Admitted(q)'
  <2>1. read'[q] = read[q]
    BY <1>1, <1>4 DEF RequestStep, Arrive, ReadRow, ReadChain, Fails, ListQueue, CheckReviewer,
       LockRow, CountReviews, Create, AnswerReview, CheckChallenge, AnswerChallenges, Told,
       ReadType, history
  <2> QED
    BY <1>2, <1>4, <2>1, OthersKeep DEF ViewInv, Seen, Admitted
<1>5. Seen(r)'
  <2> USE DEF ViewInv, Seen, CallType, ReadType
  <2>1. CASE Arrive(r)
    BY <1>1, <1>2, <2>1 DEF Arrive, Go, Unread
  <2>2. CASE ReadRow(r)
    BY <1>1, <1>2, <2>2 DEF ReadRow, Check, Reply, Go, Unread, Idle
  <2>3. CASE ReadChain(r)
    <3>1. PICK view \in {chain, behind} :
            \/ read' = [read EXCEPT ![r].info =
                          {[staker |-> view.staker, active |-> view.active]}]
            \/ read' = [read EXCEPT ![r].challenge =
                          {[challenger |-> view.challenger, resolved |-> view.resolved]}]
      BY <2>3 DEF ReadChain
    <3>2. view.staker \in {Nobody, chain.staker} /\ view.challenger \in {Nobody, chain.challenger}
          /\ (behind.resolved => view.resolved)
      BY <3>1 DEF Versions
    <3> QED
      BY <1>1, <1>2, <2>3, <3>1, <3>2 DEF ReadChain, history
  <2>4. CASE Fails(r) \/ ListQueue(r) \/ CheckReviewer(r) \/ CheckChallenge(r)
    <3>1. read'[r] = Unread /\ Unread.info = {} /\ Unread.challenge = {}
      BY <1>1, <2>4 DEF Fails, ListQueue, CheckReviewer, CheckChallenge, Told, Unread
    <3>2. call'[r] = call[r] \/ call'[r].late = FALSE
      BY <1>1, <2>4 DEF Fails, ListQueue, CheckReviewer, CheckChallenge, Check, Reply, Idle, Told
    <3> QED
      BY <1>2, <3>1, <3>2
  <2>5. CASE LockRow(r) \/ CountReviews(r) \/ Create(r) \/ AnswerReview(r) \/ AnswerChallenges(r)
    <3>1. read' = read /\ read[r] = Unread
      BY <1>1, <2>5 DEF LockRow, CountReviews, Create, AnswerReview, AnswerChallenges
    <3>2. call'[r] = call[r] \/ call'[r].late = FALSE
      BY <1>1, <2>5 DEF LockRow, CountReviews, Create, AnswerReview, AnswerChallenges, Check,
         Reply, Idle
    <3>3. Unread.info = {} /\ Unread.challenge = {}
      BY DEF Unread
    <3> QED
      BY <1>2, <3>1, <3>2, <3>3
  <2> QED
    BY <2>1, <2>2, <2>3, <2>4, <2>5 DEF RequestStep
<1>6. Admitted(r)'
  <2>1. CASE CheckReviewer(r)
    <3>1. CASE call[r].wallet \in Librarians /\ Pending(r) /\ call[r].wallet \notin Conflicted(r)
      <4>1. PICK c \in read[r].challenge :
              /\ c.challenger # Nobody /\ ~c.resolved
              /\ \A i \in read[r].info : i.staker # Nobody
        BY <3>1 DEF Pending, SeenChallenge
      <4>2. PICK i \in read[r].info : TRUE
        BY <2>1 DEF CheckReviewer, Told
      <4>3. c.challenger = chain.challenger /\ i.staker = chain.staker /\ ~call[r].late
            /\ chain.staker # Nobody /\ chain.challenger # Nobody
        BY <4>1, <4>2 DEF ViewInv, Seen
      <4>4. call[r].wallet \notin {Uploader, chain.staker, chain.challenger}
        BY <3>1, <4>1, <4>2, <4>3 DEF Conflicted
      <4>5. call' = call
        BY <2>1, <3>1 DEF CheckReviewer, Check
      <4> QED
        BY <1>2, <4>3, <4>4, <4>5 DEF Admitted
    <3>2. CASE ~(call[r].wallet \in Librarians /\ Pending(r) /\ call[r].wallet \notin Conflicted(r))
      BY <1>1, <2>1, <3>2 DEF CheckReviewer, Check, Reply, Go, CallType, Admitted
    <3> QED
      BY <3>1, <3>2
  <2>2. CASE ~CheckReviewer(r)
    BY <1>1, <1>2, <2>2 DEF RequestStep, Arrive, ReadRow, ReadChain, Fails, ListQueue, LockRow,
       CountReviews, Create, AnswerReview, CheckChallenge, AnswerChallenges, Check, Reply, Go,
       CallType, history, ViewInv, Admitted
  <2> QED
    BY <2>1, <2>2
<1>7. ReviewersAreIndependent' /\ LateReviewsRaced'
      /\ (reviews' # {} => chain'.staker # Nobody /\ chain'.challenger # Nobody)
  <2>1. CASE Create(r)
    <3>1. PICK v \in Votes : reviews' = reviews \cup
            {[librarian |-> call[r].wallet, vote |-> v, late |-> call[r].late]}
      BY <2>1 DEF Create
    <3>2. Admitted(r) /\ at[r] = "insert"
      BY <2>1 DEF ViewInv, Create
    <3> QED
      BY <1>2, <3>1, <3>2 DEF Admitted, ViewInv, ReviewersAreIndependent, LateReviewsRaced
  <2>2. CASE ~Create(r)
    <3>1. UNCHANGED reviews
      BY <2>2 DEF RequestStep, Arrive, ReadRow, ReadChain, Fails, ListQueue, CheckReviewer,
         LockRow, CountReviews, AnswerReview, CheckChallenge, AnswerChallenges, indexVars
    <3> QED
      BY <1>2, <3>1 DEF ViewInv, ReviewersAreIndependent, LateReviewsRaced
  <2> QED
    BY <2>1, <2>2
<1> QED
  BY <1>3, <1>4, <1>5, <1>6, <1>7 DEF ViewInv

LEMMA ViewInvariant == Spec => []ViewInv
<1>1. Init => ViewInv
  BY ReviewAssumption DEF Init, ViewInv, Versions, Seen, Admitted, Unread, Idle,
     ReviewersAreIndependent, LateReviewsRaced
<1>2. ASSUME ViewInv, UNCHANGED vars PROVE ViewInv'
  BY <1>2 DEF vars, indexVars, requestVars, ViewInv, Versions, Seen, Admitted,
     ReviewersAreIndependent, LateReviewsRaced
<1>3. ASSUME Typed, ViewInv, [Next]_vars PROVE ViewInv'
  BY <1>2, <1>3, ViewChainStep, ViewRequestStep DEF Next
<1> QED
  BY <1>1, <1>3, TypedInvariant, PTL DEF Spec

\* Uploader, staker and challenger review nothing, whatever providers are asked.
THEOREM ReviewersIndependent == Spec => []ReviewersAreIndependent
  BY ViewInvariant, PTL DEF ViewInv

\* Nothing is reviewed after a resolution every provider knew of when the request came.
THEOREM LateOnesRaced == Spec => []LateReviewsRaced
  BY ViewInvariant, PTL DEF ViewInv

-----------------------------------------------------------------------------
(* 4. The queue.  Whatever order its facts are read in: a book that was    *)
(* staked when one was read, and not challenged when the other was, could  *)
(* be challenged in one of the versions of the contracts between the two.  *)

Wants(i, w) == i.active /\ i.staker # w

QueueView(r) ==
  call[r].kind = "queue" /\ at[r] \in {"row", "chain"} /\ ~over =>
    /\ CanChallenge(chain, call[r].wallet) => could[r]
    /\ CanChallenge(behind, call[r].wallet) => could[r]
    /\ \A i \in read[r].info : Wants(i, call[r].wallet) =>
         could[r] \/ chain.challenger # Nobody
    /\ \A c \in read[r].challenge : c.challenger = Nobody =>
         could[r] \/ ~Wants(chain, call[r].wallet)
    /\ \A i \in read[r].info, c \in read[r].challenge :
         Wants(i, call[r].wallet) /\ c.challenger = Nobody => could[r]

StakedInfo == \A r \in Requests : \A i \in read[r].info : i.active => i.staker # Nobody

QueueInv ==
  /\ \A r \in Requests : QueueView(r)
  /\ StakedInfo
  /\ QueueIsChallengeable

LEMMA QueueChainStep ==
  ASSUME Typed, ViewInv, QueueInv, ChainStep
  PROVE  QueueInv'
<1>1. SharedType /\ CallType /\ Nobody \notin Wallets
  BY TypeParts, ReviewAssumption
<1>2. UNCHANGED <<at, call, read, listed>>
  BY DEF ChainStep, StakeBook, Challenge, Resolve, Unstake, CatchUp, PeriodEnds, RowFollows,
     ChainMoves, indexVars, requestVars, history
<1>3. ASSUME NEW r \in Requests PROVE QueueView(r)'
  <2> DEFINE w == call[r].wallet
  <2>1. SUFFICES ASSUME call[r].kind = "queue", at[r] \in {"row", "chain"}, ~over'
                 PROVE  QueueView(r)'
    BY <1>2 DEF QueueView
  <2>2. ~over
    BY <2>1, <1>1 DEF ChainStep, StakeBook, Challenge, Resolve, Unstake, CatchUp, PeriodEnds,
       RowFollows, ChainMoves, SharedType
  <2>3. CASE UNCHANGED <<chain, could>> /\ behind' \in {chain, behind}
    BY <1>2, <2>1, <2>2, <2>3 DEF QueueInv, QueueView, CanChallenge, Wants
  <2>4. ASSUME NEW c, ChainMoves(c), c.challenger = Nobody => chain.challenger = Nobody,
               Wants(c, w) => Wants(chain, w) \/ c.challenger = Nobody
        PROVE  QueueView(r)'
    <3>1. /\ chain' = c /\ behind' = chain /\ UNCHANGED over
          /\ could'[r] = (could[r] \/ CanChallenge(c, w))
      BY <2>1, <2>4, <1>1 DEF ChainMoves, Running, CallType
    <3>2. Wants(c, w) /\ c.challenger = Nobody => could'[r]
      BY <2>2, <3>1 DEF CanChallenge, Wants
    <3> QED
      BY <1>2, <2>1, <2>2, <2>4, <3>1, <3>2 DEF QueueInv, QueueView, CanChallenge, Wants
  <2>5. ASSUME NEW u \in Wallets, StakeBook(u) PROVE QueueView(r)'
    BY <1>1, <2>4, <2>5 DEF StakeBook, Wants, SharedType, Contracts, ViewInv, Versions
  <2>6. ASSUME NEW u \in Wallets, Challenge(u) PROVE QueueView(r)'
    BY <1>1, <2>4, <2>6 DEF Challenge, CanChallenge, Wants, SharedType, Contracts
  <2>7. CASE Resolve
    BY <1>1, <2>4, <2>7 DEF Resolve, Wants, SharedType, Contracts
  <2>8. CASE Unstake
    BY <1>1, <2>4, <2>8 DEF Unstake, Wants, SharedType, Contracts
  <2>9. CASE CatchUp \/ PeriodEnds \/ RowFollows
    BY <2>3, <2>9 DEF CatchUp, PeriodEnds, RowFollows, history
  <2> QED
    BY <2>5, <2>6, <2>7, <2>8, <2>9 DEF ChainStep
<1> QED
  BY <1>2, <1>3 DEF QueueInv, StakedInfo, QueueIsChallengeable

LEMMA QueueRequestStep ==
  ASSUME Typed, ViewInv, QueueInv, NEW r \in Requests, RequestStep(r)
  PROVE  QueueInv'
<1>1. SharedType /\ CallType /\ ReadType /\ Nobody \notin Wallets
  BY TypeParts, ReviewAssumption
<1>2. UNCHANGED <<chain, behind, over>>
  BY DEF RequestStep, Arrive, ReadRow, ReadChain, Fails, ListQueue, CheckReviewer, LockRow,
     CountReviews, Create, AnswerReview, CheckChallenge, AnswerChallenges
<1>3. ASSUME NEW q \in Requests, q # r PROVE QueueView(q)' /\ read'[q] = read[q]
  <2>1. read'[q] = read[q] /\ could'[q] = could[q]
    BY <1>1, <1>3 DEF RequestStep, Arrive, ReadRow, ReadChain, Fails, ListQueue, CheckReviewer,
       LockRow, CountReviews, Create, AnswerReview, CheckChallenge, AnswerChallenges, Told,
       Check, Reply, ReadType, CallType, history
  <2> QED
    BY <1>2, <1>3, <2>1, OthersKeep DEF QueueInv, QueueView, CanChallenge
<1>4. CASE ReadChain(r)
  <2>1. PICK view \in {chain, behind} :
          \/ /\ read[r].info = {}
             /\ read' = [read EXCEPT ![r].info =
                          {[staker |-> view.staker, active |-> view.active]}]
          \/ /\ read[r].challenge = {}
             /\ read' = [read EXCEPT ![r].challenge =
                          {[challenger |-> view.challenger, resolved |-> view.resolved]}]
    BY <1>4 DEF ReadChain
  <2>2. UNCHANGED <<at, call, could, listed>>
    BY <1>4 DEF ReadChain, history
  <2>3. view.active => view.staker # Nobody
    BY <2>1 DEF ViewInv, Versions
  <2>4. StakedInfo'
    BY <1>1, <2>1, <2>3 DEF QueueInv, StakedInfo, ReadType
  <2>5. QueueView(r)'
    <3> DEFINE w == call[r].wallet
    <3>1. SUFFICES ASSUME call[r].kind = "queue", at[r] = "chain", ~over PROVE QueueView(r)'
      BY <1>2, <1>4, <2>2 DEF QueueView, ReadChain
    <3>2. QueueView(r) /\ Seen(r) /\ Versions
      BY DEF QueueInv, ViewInv
    <3>3. CASE read' = [read EXCEPT ![r].info =
                          {[staker |-> view.staker, active |-> view.active]}]
      <4>1. read'[r].challenge = read[r].challenge
            /\ read'[r].info = {[staker |-> view.staker, active |-> view.active]}
        BY <1>1, <3>3 DEF ReadType
      <4>2. Wants(view, w) => could[r] \/ chain.challenger # Nobody
        BY <2>1, <3>1, <3>2 DEF QueueView, CanChallenge, Wants, Versions
      <4>3. Wants(view, w) /\ (\E c \in read[r].challenge : c.challenger = Nobody) => could[r]
        <5>1. CASE view = chain
          BY <3>1, <3>2, <5>1 DEF QueueView, Wants
        <5>2. CASE view = behind /\ behind.challenger = Nobody
          BY <3>1, <3>2, <5>2 DEF QueueView, CanChallenge, Wants
        <5>3. CASE view = behind /\ behind.challenger # Nobody
          <6>1. Wants(behind, w) => Wants(chain, w)
            BY <3>2, <5>3 DEF Versions, Wants
          <6> QED
            BY <3>1, <3>2, <5>3, <6>1 DEF QueueView
        <5> QED
          BY <2>1, <5>1, <5>2, <5>3
      <4> QED
        BY <1>2, <2>2, <3>1, <3>2, <4>1, <4>2, <4>3 DEF QueueView, CanChallenge, Wants
    <3>4. CASE read' = [read EXCEPT ![r].challenge =
                          {[challenger |-> view.challenger, resolved |-> view.resolved]}]
      <4>1. read'[r].info = read[r].info /\ read'[r].challenge =
              {[challenger |-> view.challenger, resolved |-> view.resolved]}
        BY <1>1, <3>4 DEF ReadType
      <4>2. view.challenger = Nobody => could[r] \/ ~Wants(chain, w)
        BY <2>1, <3>1, <3>2 DEF QueueView, CanChallenge, Wants, Versions
      <4>3. view.challenger = Nobody /\ (\E i \in read[r].info : Wants(i, w)) => could[r]
        BY <2>1, <3>1, <3>2 DEF QueueView, CanChallenge, Wants, Versions, Seen, QueueInv, StakedInfo
      <4> QED
        BY <1>2, <2>2, <3>1, <3>2, <4>1, <4>2, <4>3 DEF QueueView, CanChallenge, Wants
    <3> QED
      BY <2>1, <3>3, <3>4
  <2> QED
    BY <1>3, <2>2, <2>4, <2>5 DEF QueueInv, QueueIsChallengeable
<1>5. CASE ~ReadChain(r)
  <2>1. read'[r] \in {read[r], Unread}
    BY <1>1, <1>5 DEF RequestStep, Arrive, ReadRow, Fails, ListQueue, CheckReviewer,
       LockRow, CountReviews, Create, AnswerReview, CheckChallenge, AnswerChallenges, Told,
       ReadType, history
  <2>2. StakedInfo'
    BY <1>3, <2>1 DEF QueueInv, StakedInfo, Unread
  <2>3. QueueView(r)'
    <3>1. CASE Arrive(r)
      <4>1. read'[r] = Unread
        BY <3>1 DEF Arrive, ViewInv, Seen
      <4>2. Unread.info = {} /\ Unread.challenge = {}
        BY DEF Unread
      <4>3. PICK k \in KindsOf[r], u \in Wallets :
              /\ call'[r].kind = k /\ call'[r].wallet = u
              /\ could'[r] = (k = "queue" /\ (CanChallenge(chain, u) \/ CanChallenge(behind, u)))
        BY <1>1, <3>1 DEF Arrive, CallType
      <4>4. k = "queue" /\ ~over =>
              /\ CanChallenge(chain, call[r].wallet)' => could'[r]
              /\ CanChallenge(behind, call[r].wallet)' => could'[r]
        BY <1>2, <4>3 DEF CanChallenge
      <4> QED
        <5>1. \A i \in read'[r].info : FALSE
          BY <4>1, <4>2
        <5>2. \A c \in read'[r].challenge : FALSE
          BY <4>1, <4>2
        <5>3. call'[r].kind = k /\ over' = over
          BY <1>2, <4>3
        <5> QED
          BY <4>4, <5>1, <5>2, <5>3 DEF QueueView
    <3>2. CASE ReadRow(r)
      <4>1. read' = read /\ at[r] = "row"
        BY <3>2 DEF ReadRow
      <4>2. CASE row \in Wanted(r)
        <5>1. call' = call /\ could' = could
          BY <3>2, <4>2 DEF ReadRow, Check
        <5> QED
          BY <1>2, <4>1, <5>1 DEF QueueInv, QueueView, CanChallenge
      <4>3. CASE row \notin Wanted(r)
        <5>1. at'[r] = "ready"
          BY <1>1, <3>2, <4>3 DEF ReadRow, Check, Reply, Go, CallType
        <5> QED
          BY <5>1 DEF QueueView
      <4> QED
        BY <4>2, <4>3
    <3>3. CASE ~Arrive(r) /\ ~ReadRow(r)
      <4>1. at'[r] \notin {"row", "chain"}
        BY <1>1, <1>5, <3>3 DEF RequestStep, Fails, ListQueue, CheckReviewer, LockRow,
           CountReviews, Create, AnswerReview, CheckChallenge, AnswerChallenges, Check, Reply,
           Go, CallType
      <4> QED
        BY <4>1 DEF QueueView
    <3> QED
      BY <3>1, <3>2, <3>3
  <2>4. QueueIsChallengeable'
    <3>1. CASE ListQueue(r) /\ IsChallengeable(r)
      <4>1. PICK i \in read[r].info, c \in read[r].challenge : TRUE
        BY <3>1 DEF ListQueue, Told
      <4>2. Wants(i, call[r].wallet) /\ ~over /\ i.staker # Nobody
        BY <3>1, <4>1 DEF IsChallengeable, Wants, QueueInv, StakedInfo
      <4>3. c.challenger = Nobody
        <5>1. i.staker = chain.staker /\ \A j \in read[r].info : j.active
          BY <3>1, <4>1, <4>2 DEF IsChallengeable, ViewInv, Seen
        <5>2. \A j \in read[r].info : j.staker # Nobody
          BY <5>1 DEF QueueInv, StakedInfo
        <5> QED
          BY <3>1, <5>2 DEF IsChallengeable, SeenChallenge
      <4>4. could[r]
        BY <3>1, <4>1, <4>2, <4>3 DEF QueueInv, QueueView, ListQueue, Told
      <4> QED
        BY <3>1, <4>4 DEF ListQueue, QueueIsChallengeable
    <3>2. CASE ~(ListQueue(r) /\ IsChallengeable(r))
      <4>1. listed' = listed
        BY <3>2 DEF RequestStep, Arrive, ReadRow, ReadChain, Fails, ListQueue, CheckReviewer,
           LockRow, CountReviews, Create, AnswerReview, CheckChallenge, AnswerChallenges, history
      <4> QED
        BY <4>1 DEF QueueInv, QueueIsChallengeable
    <3> QED
      BY <3>1, <3>2
  <2> QED
    BY <1>3, <2>2, <2>3, <2>4 DEF QueueInv
<1> QED
  BY <1>4, <1>5

LEMMA QueueInvariant == Spec => []QueueInv
<1>1. Init => QueueInv
  BY DEF Init, QueueInv, QueueView, StakedInfo, QueueIsChallengeable, Unread, Idle
<1>2. ASSUME QueueInv, UNCHANGED vars PROVE QueueInv'
  BY <1>2 DEF vars, indexVars, requestVars, history, QueueInv, QueueView, CanChallenge,
     StakedInfo, QueueIsChallengeable
<1>3. ASSUME Typed, ViewInv, QueueInv, [Next]_vars PROVE QueueInv'
  BY <1>2, <1>3, QueueChainStep, QueueRequestStep DEF Next
<1> QED
  BY <1>1, <1>3, TypedInvariant, ViewInvariant, PTL DEF Spec

\* A listed book could be challenged by the caller at some moment of the request, for any
\* order of the reads and any provider that is at most one change behind.
THEOREM QueueIsTrue == Spec => []QueueIsChallengeable
  BY QueueInvariant, PTL DEF QueueInv
=============================================================================
