---------------------------- MODULE UploadRequest ----------------------------
(***************************************************************************)
(* POST /api/upload, controller/upload.controller.js: several requests at  *)
(* once check the limits of services/uploadQuota.service.js and the money  *)
(* in the storage wallet, and each, many awaits later, makes the row that  *)
(* counts against them and posts the header that may be paid.              *)
(*                                                                         *)
(* A request stands for one call and for the upload it makes: every call   *)
(* signs a header of its own.  What the storage worker, the archivist and  *)
(* the network do to an upload afterwards is kept to what limits and money *)
(* depend on; StorageWorker has the whole of it.                           *)
(***************************************************************************)
EXTENDS Integers, FiniteSets, FiniteSetsExt

CONSTANTS
  Requests,       \* calls of POST /api/upload
  WalletOf,       \* the wallet that signed a request
  FeeOf,          \* the fee signed into its header
  Limits,         \* configurations: [awaiting, day, budget]
  Funds,          \* what the storage wallet holds
  AtOnce,         \* requests running at the same time
  MaxFaults       \* bound

ASSUME RequestAssumption ==
  /\ IsFiniteSet(Requests)
  /\ FeeOf \in [Requests -> Nat] /\ Funds \in Nat
  /\ Limits \subseteq [awaiting : Nat, day : Nat, budget : Nat]
  /\ AtOnce \in Nat \ {0} /\ MaxFaults \in Nat

VARIABLES
  limits,     \* UPLOAD_MAX_AWAITING_STAKE, ..._PER_DAY, UPLOAD_DAILY_BUDGET_AR
  at,         \* the await a request is suspended at
  rows, day,  \* its locals: the rows awaitingStake() read, the uploads in the last day
  balance, committed,  \* its locals: winston, or NotRead
  spool,      \* uploads whose ciphertext is on the disk
  status,     \* table Upload
  recent,     \* rows with an uploadTimestamp in the last 24 hours
  recorded,   \* rows with an arweaveBlockHeight
  staked,     \* books that have been staked
  header,     \* what the network knows of a header
  faults

requestVars == <<at, rows, day, balance, committed>>
rowVars == <<spool, status, recent, recorded>>
worldVars == <<staked, header>>

vars == <<limits, requestVars, rowVars, worldVars, faults>>

NotRead == -1
NoRows == [held |-> {}, asked |-> {}]

\* "unanswered": its row is committed and create() has not returned, nor will it.
\* "rejected": create() has reported an error, "over": it ended in any other way.
Point ==
  {"ready", "quota", "stakes", "room", "funds", "budget", "seal", "spool", "create",
   "unanswered", "post", "over", "rejected"}

Running == {r \in Requests : at[r] \notin {"ready", "over", "rejected"}}

Sum(S) == MapThenSumSet(LAMBDA r : FeeOf[r], S)

\* Headers in a block are paid for; those posted are still owed.
Paid == {r \in Requests : header[r] = "mined"}
Owed == {r \in Requests : header[r] = "posted"}
Balance == Funds - Sum(Paid)

TypeOK ==
  /\ limits \in Limits
  /\ at \in [Requests -> Point]
  /\ rows \in [Requests -> [held : SUBSET Requests, asked : SUBSET Requests]]
  /\ day \in [Requests -> Int]
  /\ balance \in [Requests -> Int] /\ committed \in [Requests -> Int]
  /\ spool \in SUBSET Requests
  /\ status \in [Requests -> {"absent", "pending_confirmation", "storage_failed",
                              "pending_stake", "pending"}]
  /\ recent \in SUBSET Requests /\ recorded \in SUBSET Requests
  /\ staked \in SUBSET Requests
  /\ header \in [Requests -> {"none", "posted", "mined", "dead"}]
  /\ faults \in Nat

Init ==
  /\ limits \in Limits
  /\ at = [r \in Requests |-> "ready"]
  /\ rows = [r \in Requests |-> NoRows]
  /\ day = [r \in Requests |-> NotRead]
  /\ balance = [r \in Requests |-> NotRead]
  /\ committed = [r \in Requests |-> NotRead]
  /\ spool = {} /\ recent = {} /\ recorded = {} /\ staked = {}
  /\ status = [r \in Requests |-> "absent"]
  /\ header = [r \in Requests |-> "none"]
  /\ faults = 0

Fault == faults < MaxFaults /\ faults' = faults + 1

Go(r, point) == at' = [at EXCEPT ![r] = point]

\* Continue at point if the check passes, else answer that the upload is refused.
Check(r, passes, point) == Go(r, IF passes THEN point ELSE "over")

-----------------------------------------------------------------------------
(* services/uploadQuota.service.js: what counts.                           *)

WithStatus(S) == {r \in Requests : status[r] \in S}

Of(r) == {q \in Requests : WalletOf[q] = WalletOf[r]}

\* Bug: uploads that are being stored do not hold a slot yet.
AwaitingOnceStored(r) == Of(r) \cap WithStatus({"pending_stake", "pending"})

\* The rows awaitingStake() reads; which of them are staked it asks afterwards.
AwaitingRows(r) == Of(r) \cap WithStatus({"pending_confirmation", "pending_stake", "pending"})

InLastDay == recent \ WithStatus({"storage_failed"})

\* Bug: uploads that are in a block are left out, as if they were paid already.
SpentUnrecorded == Sum(InLastDay \ recorded)

Spent == Sum(InLastDay)

\* Bug: uploads that are stored are not counted any more.
UploadsOfDayUnstored(r) ==
  Cardinality(Of(r) \cap recent \cap WithStatus({"pending_confirmation"}))

UploadsOfDay(r) == Cardinality(Of(r) \cap InLastDay)

-----------------------------------------------------------------------------
(* createUpload(), from await to await.                                    *)

Arrive(r) ==
  /\ at[r] = "ready"
  /\ Cardinality(Running) < AtOnce
  /\ Go(r, "quota")
  /\ UNCHANGED <<limits, rows, day, balance, committed, rowVars, worldVars, faults>>

\* checkWalletQuota(): the rows that may hold a slot.  Those registered are asked for on
\* the chain, the others are not.
ReadRows(r) ==
  /\ at[r] = "quota"
  /\ LET asked == AwaitingRows(r) \cap WithStatus({"pending"})
     IN  rows' = [rows EXCEPT ![r] = [held |-> AwaitingRows(r) \ asked, asked |-> asked]]
  /\ Go(r, "stakes")
  /\ UNCHANGED <<limits, day, balance, committed, rowVars, worldVars, faults>>

\* At any time meanwhile, uploadsInLastDay() answers.
ReadDay(r) ==
  /\ at[r] \in {"quota", "stakes"} /\ day[r] = NotRead
  /\ day' = [day EXCEPT ![r] = UploadsOfDay(r)]
  /\ UNCHANGED <<limits, at, rows, balance, committed, rowVars, worldVars, faults>>

\* The chain has told of some of the stakes; an unreadable one counts as none.
CheckQuota(r) ==
  /\ at[r] = "stakes" /\ day[r] # NotRead
  /\ \E known \in SUBSET (rows[r].asked \cap staked) :
       Check(r, /\ Cardinality(rows[r].held \cup (rows[r].asked \ known)) < limits.awaiting
                /\ day[r] < limits.day, "room")
  /\ rows' = [rows EXCEPT ![r] = NoRows]
  /\ day' = [day EXCEPT ![r] = NotRead]
  /\ UNCHANGED <<limits, balance, committed, rowVars, worldVars, faults>>

\* Is there any budget left?  What follows, up to the signature, asks nobody else.
CheckRoom(r) ==
  /\ at[r] = "room"
  /\ Check(r, Spent < limits.budget, "funds")
  /\ UNCHANGED <<limits, rows, day, balance, committed, rowVars, worldVars, faults>>

\* getBalance() and committedRewardWinston(), in any order.  One node tells the balance,
\* and it may not have seen the last blocks.
ReadBalance(r) ==
  /\ at[r] = "funds" /\ balance[r] = NotRead
  /\ \E unseen \in SUBSET (Paid \cap WithStatus({"pending_confirmation"})) :
       balance' = [balance EXCEPT ![r] = Balance + Sum(unseen)]
  /\ UNCHANGED <<limits, at, rows, day, committed, rowVars, worldVars, faults>>

ReadCommitted(r) ==
  /\ at[r] = "funds" /\ committed[r] = NotRead
  /\ committed' = [committed EXCEPT ![r] = Sum(WithStatus({"pending_confirmation"}) \ recorded)]
  /\ UNCHANGED <<limits, at, rows, day, balance, rowVars, worldVars, faults>>

CheckFunds(r) ==
  /\ at[r] = "funds" /\ balance[r] # NotRead /\ committed[r] # NotRead
  /\ Check(r, balance[r] - committed[r] >= FeeOf[r], "budget")
  /\ balance' = [balance EXCEPT ![r] = NotRead]
  /\ committed' = [committed EXCEPT ![r] = NotRead]
  /\ UNCHANGED <<limits, rows, day, rowVars, worldVars, faults>>

CheckBudget(r) ==
  /\ at[r] = "budget"
  /\ Check(r, Spent + FeeOf[r] <= limits.budget /\ Spent < limits.budget, "seal")
  /\ UNCHANGED <<limits, rows, day, balance, committed, rowVars, worldVars, faults>>

SealKey(r) ==
  /\ at[r] = "seal"
  /\ Go(r, "spool")
  /\ UNCHANGED <<limits, rows, day, balance, committed, rowVars, worldVars, faults>>

\* Bug: the header is posted before there is a row.
WriteSpoolAndPost(r) ==
  /\ at[r] = "spool"
  /\ spool' = spool \cup {r}
  /\ header' = [header EXCEPT ![r] = "posted"]
  /\ Go(r, "create")
  /\ UNCHANGED <<limits, rows, day, balance, committed, status, recent, recorded, staked, faults>>

WriteSpool(r) ==
  /\ at[r] = "spool"
  /\ spool' = spool \cup {r}
  /\ Go(r, "create")
  /\ UNCHANGED <<limits, rows, day, balance, committed, status, recent, recorded, worldVars, faults>>

\* The row as prisma.upload.create() writes it.
InsertRow(r) ==
  /\ status' = [status EXCEPT ![r] = "pending_confirmation"]
  /\ recent' = recent \cup {r}
  /\ UNCHANGED <<limits, rows, day, balance, committed, spool, recorded, worldVars>>

CreateRow(r) ==
  /\ at[r] = "create"
  /\ InsertRow(r)
  /\ Go(r, "post")
  /\ UNCHANGED faults

\* The row is committed and the reply is lost: others meet the row while the request
\* still waits.
CreateReplyLost(r) ==
  /\ at[r] = "create"
  /\ InsertRow(r)
  /\ Go(r, "unanswered")
  /\ Fault

\* create() reports an error, with or without a row (the same file was uploaded
\* meanwhile, the database is gone): the spool file is removed, if the disk lets it.
CreateFails(r) ==
  /\ \/ at[r] = "create" /\ Fault
     \/ at[r] = "unanswered" /\ UNCHANGED faults
  /\ spool' \in {spool, spool \ {r}}
  /\ Go(r, "rejected")
  /\ UNCHANGED <<limits, rows, day, balance, committed, status, recent, recorded, worldVars>>

\* Some node takes the header, or none does and the worker will try again.  The worker
\* may have posted the same header already.
PostHeader(r) ==
  /\ at[r] = "post"
  /\ header' \in {header, [header EXCEPT ![r] = IF @ = "none" THEN "posted" ELSE @]}
  /\ Go(r, "over")
  /\ UNCHANGED <<limits, rows, day, balance, committed, rowVars, staked, faults>>

\* Any other reason to refuse: signature, validation, a duplicate, no node, no Lit.
Refuse(r) ==
  /\ at[r] \in {"quota", "stakes", "room", "funds", "budget", "seal", "spool"}
  /\ Fault
  /\ Go(r, "over")
  /\ rows' = [rows EXCEPT ![r] = NoRows]
  /\ day' = [day EXCEPT ![r] = NotRead]
  /\ balance' = [balance EXCEPT ![r] = NotRead]
  /\ committed' = [committed EXCEPT ![r] = NotRead]
  /\ UNCHANGED <<limits, rowVars, worldVars>>

\* The process restarts: every request in it is gone.
Crash ==
  /\ Running # {}
  /\ Fault
  /\ at' = [r \in Requests |-> IF r \in Running THEN "over" ELSE at[r]]
  /\ rows' = [r \in Requests |-> NoRows]
  /\ day' = [r \in Requests |-> NotRead]
  /\ balance' = [r \in Requests |-> NotRead]
  /\ committed' = [r \in Requests |-> NotRead]
  /\ UNCHANGED <<limits, rowVars, worldVars>>

-----------------------------------------------------------------------------
(* What becomes of an upload: the storage worker, the archivist, the chain.*)

\* processUpload() re-posts, sees the header mined, stores or fails the book.
WorkerPosts(r) ==
  /\ status[r] = "pending_confirmation" /\ header[r] = "none"
  /\ header' = [header EXCEPT ![r] = "posted"]
  /\ UNCHANGED <<limits, requestVars, rowVars, staked, faults>>

WorkerRecords(r) ==
  /\ status[r] = "pending_confirmation" /\ header[r] = "mined" /\ r \notin recorded
  /\ recorded' = recorded \cup {r}
  /\ UNCHANGED <<limits, requestVars, spool, status, recent, worldVars, faults>>

WorkerStores(r) ==
  /\ status[r] = "pending_confirmation" /\ header[r] = "mined" /\ r \in recorded
  /\ status' = [status EXCEPT ![r] = "pending_stake"]
  /\ spool' = spool \ {r}
  /\ UNCHANGED <<limits, requestVars, recent, recorded, worldVars, faults>>

\* Given up: the header cannot be mined any more, or it is and its data is refused.
WorkerFails(r) ==
  /\ status[r] = "pending_confirmation"
  /\ header[r] = "dead" \/ (header[r] = "mined" /\ r \in recorded)
  /\ status' = [status EXCEPT ![r] = "storage_failed"]
  /\ spool' = spool \ {r}
  /\ UNCHANGED <<limits, requestVars, recent, recorded, worldVars, faults>>

Register(r) ==
  /\ status[r] = "pending_stake"
  /\ status' = [status EXCEPT ![r] = "pending"]
  /\ UNCHANGED <<limits, requestVars, spool, recent, recorded, worldVars, faults>>

Stake(r) ==
  /\ status[r] = "pending" /\ r \notin staked
  /\ staked' = staked \cup {r}
  /\ UNCHANGED <<limits, requestVars, rowVars, header, faults>>

DayPasses(r) ==
  /\ r \in recent
  /\ recent' = recent \ {r}
  /\ UNCHANGED <<limits, requestVars, spool, status, recorded, worldVars, faults>>

\* A header the wallet can pay for gets into a block.
Mine(r) ==
  /\ header[r] = "posted" /\ FeeOf[r] <= Balance
  /\ header' = [header EXCEPT ![r] = "mined"]
  /\ UNCHANGED <<limits, requestVars, rowVars, staked, faults>>

\* The block is replaced by one without it, before the book is stored.
Unmine(r) ==
  /\ header[r] = "mined" /\ status[r] \in {"pending_confirmation", "storage_failed"}
  /\ header' = [header EXCEPT ![r] = "posted"]
  /\ UNCHANGED <<limits, requestVars, rowVars, staked, faults>>

\* Its anchor gets too old for the header to be mined.
Expire(r) ==
  /\ status[r] # "absent" /\ header[r] \in {"none", "posted"}
  /\ header' = [header EXCEPT ![r] = "dead"]
  /\ UNCHANGED <<limits, requestVars, rowVars, staked, faults>>

-----------------------------------------------------------------------------
(* The specification.                                                      *)

RequestStep(r) ==
  \/ Arrive(r) \/ ReadRows(r) \/ ReadDay(r) \/ CheckQuota(r) \/ CheckRoom(r)
  \/ ReadBalance(r) \/ ReadCommitted(r) \/ CheckFunds(r) \/ CheckBudget(r)
  \/ SealKey(r) \/ WriteSpool(r) \/ CreateRow(r) \/ CreateReplyLost(r) \/ CreateFails(r)
  \/ PostHeader(r) \/ Refuse(r)

UploadStep(r) ==
  \/ WorkerPosts(r) \/ WorkerRecords(r) \/ WorkerStores(r) \/ WorkerFails(r)
  \/ Register(r) \/ Stake(r) \/ DayPasses(r) \/ Mine(r) \/ Unmine(r) \/ Expire(r)

Next == Crash \/ \E r \in Requests : RequestStep(r) \/ UploadStep(r)

Spec == Init /\ [][Next]_vars

-----------------------------------------------------------------------------
(* Properties.  A check that passes reserves nothing, so requests that are *)
(* checked at the same instant may all pass ("this closes the common case, *)
(* not that race").  What the race costs is bounded by how many there are. *)

\* Uploads that were not given up.
Live == {r \in Requests : status[r] \notin {"absent", "storage_failed"}}

\* A wallet never has more unstaked uploads than its limit and one for each request
\* that raced the last, although stakes are asked for after the rows were read.
QuotaOverrunBounded ==
  \A r \in Requests :
    Cardinality({q \in Live \ staked : WalletOf[q] = WalletOf[r]}) < limits.awaiting + AtOnce

\* Nor more uploads in a day.
DayOverrunBounded ==
  \A r \in Requests :
    Cardinality({q \in Live \cap recent : WalletOf[q] = WalletOf[r]}) < limits.day + AtOnce

\* What a day costs the storage wallet: every upload whose header is in a block or may
\* get into one, given up or not, and those that have yet to be posted.
Cost == recent \cap (Paid \cup Owed \cup Live)

\* Of these, uploads given up after their header was mined (spool_missing, chunk_fatal).
\* The wallet pays for them, and the budget counts them no more ("storage_failed is
\* excluded: a header that is never mined is never paid for").
PaidForNothing == Cost \ Live

\* All wallets together cost no more in a day than the budget, the fees of requests
\* that raced the last, and the fees of uploads given up after they were mined.  The
\* last are in the bound because the code does not count them: so far the budget does
\* not cap "what the storage wallet can lose".
BudgetOverrunBounded ==
  \E S \in SUBSET Live :
    /\ Cardinality(S) < AtOnce
    /\ Sum(Cost) <= limits.budget + Sum(S) + Sum(PaidForNothing)

\* A header that can be mined, and so paid, belongs to a row, and its ciphertext is on
\* the disk as long as the row is to be stored: whatever fails in between, and
\* although the process may restart anywhere.  The one exception is a row that create()
\* committed and then reported an error about: its request removes the file, and the
\* worker posts the header all the same.
PostedIsKept ==
  \A r \in Requests :
    header[r] # "none" =>
      /\ status[r] # "absent"
      /\ status[r] = "pending_confirmation" => r \in spool \/ at[r] = "rejected"

\* What is owed for posted headers is in the wallet: counting a fee until the block is
\* recorded "can only refuse an upload, never overspend".
NeverOverspends == Sum(Owed) <= Balance
=============================================================================
