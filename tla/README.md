# A TLA+ model of the Alexandria node

The backend under `src/AlexNode/` takes encrypted books from archivists, stores
them on Arweave, indexes them in Postgres, follows the library contracts on
Base Sepolia, and lets readers and librarians at the keys. This directory holds
TLA+ modules of its stateful parts, TLC instances that check them, and TLAPS
proofs of their safety for every value of their parameters.

File names below are relative to `src/AlexNode/`.

## 1. The system

One Node.js process runs three things side by side: the HTTP handlers of
Express, the storage worker (`setInterval`, 30 s) and the event listener (a poll
loop). They share Postgres (table `Upload` above all), a spool directory on the
disk and some process memory (two `Set`s and a `Map` of the worker, caches,
rate-limit windows). Everything else is remote: Arweave nodes, two chain RPC
providers, Lit. Only one handler takes a lock (the review of a challenge); for
the rest, every `await` lets the others run.

The life of a book is the column `Upload.status`:

    (no row) -> pending_confirmation -> storage_failed
                        |
                        +-> pending_stake -> pending -> challenged / approved / rejected

`pending_confirmation`, `storage_failed` and `pending_stake` are the worker's
doing, `pending` is set by whoever sees the registration first, and the statuses
after it come from chain events.

### Inventory

| Component | State it keeps | Operations | Hard behaviour | Correct when | Module |
|---|---|---|---|---|---|
| Storage worker, `services/storage.service.js` | `inFlight`, `registering`, `registrationBackoff`, `ticking`; rows it updates | `tick`, `processUpload`, `failUpload`, `registerStored`, `retryRegistrations`, `monitorReplication` | passes up to an hour long overlap ticks, rows are read long before they are used, margins against lagging nodes and replaced blocks, restarts anywhere | never gives up a header that can still be mined; never calls a book stored that is not; ciphertext is kept as long as it is needed; every upload ends | `StorageWorker` |
| Arweave node client, `controller/arweave.js` | `arweaveUploaderState` through `onState` | `prepareUpload`, `postHeader`, `getTxStatus`, `pushChunks`, `verifyHolders` | per-node retries, parallel uploads that outlive their pass, fatal and transient errors, timeouts | holders that are really spread and really have every chunk | `ChunkPush` under `Replication`, and single steps of `StorageWorker` |
| Arweave network (external) | chain, memory pools, nodes' data | blocks, replaced blocks, answers | nodes lag, lie, lose data | (assumed) | `ArweaveChain` |
| Upload request, `controller/upload.controller.js` | a row, a spool file, the symmetric key in memory | `createUpload`, `retryRegistration` | crash between spool, row and first post; checks long before the create | no row without its ciphertext; budget and quota hold | `UploadRequest`, `Duplicates`, `StorageWorker` |
| Upload limits, `services/uploadQuota.service.js` | none (queries) | `checkWalletQuota`, `checkStorageBudget` | check, then create, by several requests | limits are overrun by no more than what races | `UploadRequest` |
| Spool, `services/spool.service.js` | files named by Arweave id | `write`, `read`, `exists`, `remove` | rename after a partial write, leaks after a crash | a file is whole or absent | `StorageWorker` |
| Registration, `services/registration.service.js` | none; the contract's | `preflight`, `registerOnChain` | a transaction whose receipt never comes, a lost hash, an id taken meanwhile | a book is registered once, by whoever gets there | `StorageWorker` |
| Event listener, `services/eventListener.service.js` | `running`; tables `Event` and `SyncState` (the cursor); the columns of `Upload` that events move | `syncToHead`, `syncRange`, `persist`, `applyStatus`, `applyCatalogue`, `tick` | chunks, replay after a crash, order of events of one book, one item failing | the table converges to the contract's state | `EventListener` |
| Node selection and prices, `config/arweave.js` | the cached discovery, the file of peers | `getNodes`, `selectNodes`, `invalidateNodes`, `getPrice` | lying nodes, even and small numbers of answers, a shared promise that fails | a minority moves no value; callers share a discovery; a failure is not kept | `NodeSelection` |
| Storage wallet, `config/arweave.js` | none | `getBalance`, key file | balance and debts read at different times | no header is posted that cannot be paid | `UploadRequest` |
| Chain reads, `services/blockchain.service.js` | none | `getStakeStatus`, `isActiveLibrarian`, `isRentalActive` | one provider is behind another | fail closed | `ReadAccess`, `ChallengeReview` |
| Read access, `controller/rental.controller.js`, `services/unlockAuth.service.js` | none | `getDecryptParams`, `checkReadAccess`, `getRentalStatus`, `verifyUnlockRequest` | four reads of a chain that moves on, clocks that differ | only readers get in, no reader is turned away, signatures are short-lived | `ReadAccess` |
| Unlock relay, `controller/unlock.controller.js`, `services/unlockRateLimit.service.js` | sliding windows, the cached balance | `unlockKey`, limiter, credit guard | charge at arrival, forward later; the balance is minutes old; uploads spend it too | ceilings hold; the guard catches up | `UnlockRelay` |
| Librarian queue and reviews, `controller/librarian.controller.js`, `services/challengeReview.service.js` | `ChallengeReview` rows | `getReviewQueue`, `getChallengeReviews`, `submitChallengeReview` | checks outside the transaction, last review taken by two at once | at most the cap, independent reviewers, a final verdict | `ChallengeReview` |
| Duplicate detection, `services/dedup.service.js`, `services/simhash.service.js` | bands and digests in `Upload` | `checkExactDuplicate`, `checkNearDuplicate`, `splitBands` | look up, then insert; the band argument at its boundary; rows that failed | one live row per file, near duplicates are found, retries are free | `Duplicates` |
| Validation, security scan, upload signature, Lit, read-only controllers, wiring, scripts | none to speak of | | | | none (section 6) |

How they meet: `createUpload` writes spool and row and posts the header once;
from then on the worker owns the row until it is stored. The worker, `POST
/api/upload/:id/register` and the listener all may move `pending_stake` to
`pending`, each with a guarded `updateMany`. The limits and the duplicate check
read the rows the worker writes. The listener owns the later statuses; reviews
start from them and ask the chain for the rest. Uploads and unlocks spend one
Lit account.

`PROJECT.json` lists every component with its status and every hazard found, at
its line.

## 2. Plan

Written, in this order:

1. **The life of an upload**: `ArweaveChain` (external), `BookLifecycle` (the
   promise), `StorageWorker` (the code) and its proofs.
2. **What the contracts say**: `EventListener` and its proofs.
3. **Requests**: `UploadRequest` (several requests through quota, budget,
   balance, sealing, spool, create) and its proofs; `Duplicates` (what the same
   requests do about the contents) and its proofs.
4. **Arweave, node by node**: `ChunkPush` (what is behind the single step
   `PushNode` of `StorageWorker`), `Replication` (the promise behind it) and
   `NodeSelection`, and their proofs.
5. **Readers and librarians**: `ReadAccess`, `UnlockRelay`, `ChallengeReview`
   and their proofs.

What would come next:

* Worker, listener and contract in one module, for a registration whose block is
  replaced after the row was moved and for a full batch of
  `retryRegistrations()`. Their product has more states than TLC gets through on
  any instance in which the two cases happen.
* Uploads that outlive their pass, in `StorageWorker` itself: it takes a push to
  be over with its pass, `ChunkPush` has what happens when it is not.

## 3. Modules

| Module | What it is |
|---|---|
| `ArweaveChain` | The network as the code meets it: `NextBlock` adds a block and may replace the last `MaxReorg`; a header is valid for `AnchorDepth` blocks after its anchor; a node that answers sees a height at most `MaxLag` old (`View`). External: what the code in `controller/arweave.js` and the fake network of the tests take it to be. |
| `BookLifecycle` | The abstract specification: the network settles or kills a header, once; the backend drops a book as `header_not_mined` only after that, stores it only after it is settled and enough nodes serve back what they are asked for, registers it only after it is stored, and never goes back. |
| `StorageWorker` | `services/storage.service.js`, with the end of `createUpload` and the other writers of the same row. |
| `EventListener` | `services/eventListener.service.js`: the chain it follows, the pass that copies events, and the other writers of a row it moves. |
| `UploadRequest` | `createUpload` with `services/uploadQuota.service.js`: several requests at once, the limits and the storage wallet. |
| `Duplicates` | `services/dedup.service.js` and `services/simhash.service.js` in several uploads at once. |
| `ChunkPush` | `pushChunks`, `findLongTermNodes`, `uploadTo` of `controller/arweave.js`, and what `processUpload` does around them. |
| `Replication` | The abstract specification of a push: nodes come to have the whole book, the row counts some that do and lie apart, and enough of them store it. |
| `NodeSelection` | Discovery, list and prices of `config/arweave.js`. Its definitions carry the name of the component (`SelectionInit`, `SelectionSpec`, ...), so that one module of proofs can extend it and `ChunkPush`. |
| `ReadAccess` | The doors of `controller/rental.controller.js` and the signed message of `services/unlockAuth.service.js`. |
| `UnlockRelay` | `controller/unlock.controller.js` with `services/unlockRateLimit.service.js`. |
| `ChallengeReview` | `controller/librarian.controller.js` with `services/challengeReview.service.js`. |
| `MC...` | `MCUploadRequest`, `MCDuplicates`, `MCChunkPush`, `MCNodeSelection`, `MCReadAccess`, `MCUnlockRelay`, `MCChallengeReview`: the functions and symmetries of the instances. `StorageWorker` and `EventListener` have all their constants in the `.cfg` files. |
| `...Proofs` | `StorageWorkerProofs`, `EventListenerProofs`, `UploadRequestProofs`, `DuplicatesProofs`, `ArweaveProofs` (of `NodeSelection` and `ChunkPush`), `ReadAccessProofs`, `UnlockRelayProofs`, `ChallengeReviewProofs`: the theorems of section 5. |

In all of them an action is the code from one `await` to the next, `at` (`stage` in
`NodeSelection`) names
the await that a request or a pass is suspended at, and what it holds across the
await is in a variable of its own (`call`, `read`, `pass`, ...). Definitions that
begin with `\* Bug:` are mutated forms of the definition after them and are used
by nothing.

### How `StorageWorker` corresponds to the code

*Granularity.* An action is the code from one `await` to the next: JavaScript
runs it without interruption. `pass[b]` is the running `processUpload()` of row
b: `at` names the await it is suspended at, the other fields are its locals
(`seen` the status it was told, `tip`, `state` its private copy of
`arweaveUploaderState`). `pass[b].at = "idle"` is `!inFlight.has(id)`. `tick`
is the body of `tick()`, `tick.at = "idle"` is `!ticking`; `snapshot` holds the
`arweaveUploaderState` of the rows a query returned. `registering[b]` is the
`registering` set, with how far `registerStored()` is; `registrationRetry` is
`registrationBackoff`.

*Rows.* A row read by `findMany` is used by a pass that may start later, when
another pass has changed the row: `TickQuery` and `TickDispatch` are two steps,
and everything the pass writes afterwards is checked only by the `WHERE` of the
update itself (`StillPending`). `save` has no such guard (`SaveState`): the
whole JSON column is overwritten with the pass' copy.

| Code | Actions |
|---|---|
| `createUpload` 252-344 | `WriteSpool`, `CreateRow`, `CreateReplyLost`, `CreateRowFails`, `FirstPost` |
| `processUpload`, header | `ReadStatus`, `ReadTip`, `LastPost`, `Recheck`, `Repost`, `SaveRepost` |
| `processUpload`, data | `SpoolCheck`, `PushNode`, `PushDone`, `PushFails`, `SavePush`, `Verify`, `SaveVerify`, `MarkStored`, `DropSpool`, `PassRegisters` |
| `failUpload` | `FailRow`, `DropFailed` |
| the handlers `tick()` hangs on a pass | `ClearError`, `HandleError`, `PassThrows` |
| `registerStored` | `RegisterMined`, `RegisterReturns`, `RegisterRecorded`, `RegisterRecordThrows` |
| `tick`, `retryRegistrations`, `monitorReplication` | `TickQuery`, `TickDispatch`, `RetryQuery`, `RetryNext`, `RetryEnds`, `MonitorQuery`, `MonitorRow`, `TickThrows`, `BackoffElapses` |
| `retryRegistration` (HTTP), listener | `ApiRegisters`, `RegistrationSeen` |
| blocks, process restarts | `ChainMoves`, `Crash` |

*Faults* are nondeterministic and counted by `faults`: a call that throws, a
best-effort write or removal that does not happen, a crash, and, with
`CommitsMayBeLost`, a database write that was committed although its caller
sees an error: the row of `create()` (`CreateReplyLost`, after which the request
reports the error and removes the file), and the updates that store or fail it.
Lagging answers, replaced blocks, refused posts, nodes that refuse chunk 0, that
answer 200 and keep nothing or only a part, that serve wrong bytes or do not
answer a read-back are not counted: they are possible at any time.

*Data.* A header is its anchor's height. `kept[b][n]` are the chunks of b that
node n keeps, some set of `Portions` whenever it was sent them all; which of them
it has accepted so far is left to `ChunkPush`. A node that refuses the probe with
chunk 0 is put on no record and is asked again by the next pass
(`no_long_term_nodes` comes back as often as nodes like); one that took chunk 0 and
fails later is never asked again. `verifyHolders()` reads back no more than
`VERIFY_SAMPLE` = 10 chunks (`Sample`), and without the file only the first chunk
and the last byte (`Ends`): a node may pass that keeps nothing else. Nodes
are taken to be in a /24 each, so counting nodes is counting networks. `spool_mismatch` behaves as `chunk_fatal`. The failure
`no_header` is left out (no row is made without a header), as are recorded
confirmations, counters and log lines, which no decision reads.
`ApiRegisters` asks nothing of `registering`: it also stands for another wallet
registering the book, or a transaction mined after `tx.wait` threw.

History variable: `verdict[b]`, the reason with which b was failed.

### How `EventListener` corresponds to the code

`running` keeps passes apart, so there is at most one: `sync` holds the locals
of `syncToHead`, `syncRange` and `persist`, and `sync.at` the await it is
suspended at. `sync.batch` is what is left of the sorted events of the chunk;
`persist` works on the oldest, `Current`.

| Code | Actions |
|---|---|
| `tick`, `syncToHead` 451-463 | `SyncToHead` |
| `fetchLogs`, `syncRange` 416-434 | `FetchLogs`, `HalveChunk` |
| `persist`, one event | `RecordEvent` (the upsert), `ApplyStatus`, `ApplyCatalogue` |
| `writeCursor`, `syncRange` 440-443 | `CommitCursor` |
| the `catch` of `tick`, a restart | `SyncFails` |
| `registerStored` 274-280, `retryRegistration` 553-564 | `ReceiptComes`, `RecordRegistration` |
| the chain (external) | `NewBlock`, `Emit`, `Replace` |

A failed pass and a restart are the same step, for both leave only what is in
the database. A write that was committed although its caller sees an error is
the write, then `SyncFails`. An event is identified by its block and index; in
the code it is transaction and log index, which differ only for a transaction
mined again in another block, and no event gets into the table before that has
become impossible (`NothingInvented`). Providers that answer may lag
(`View`), each call by its own measure, for the code asks for a quorum of 1.
The library registers a book once, before anything else happens to it
(`LogOK`); otherwise any event may be in any block. Left out: events that move no
column of `Upload`, such as `Unstaked`, which are recorded and no more (the
contracts tell of changes of status in `UploadStatusChanged`), events of books without a
row, the timestamps of events, `stop()`.

### How `UploadRequest` corresponds to the code

`at[r]` names the await of `createUpload` that request r is suspended at, and
`rows`, `day`, `balance` and `committed` hold what it has read and not yet used.
`checkWalletQuota` runs its two queries in parallel, and `createUpload` the two
reads of money: each is a step of its own, in any order, and the decision comes
when both are there. The stakes are asked for one by one after the rows were
read, of registered rows only (`rows[r].asked`); as stakes are never taken back,
any part of those there are when the last answer comes may be known.

| Code | Actions |
|---|---|
| `checkWalletQuota`, `awaitingStake`, `uploadsInLastDay` | `ReadRows`, `ReadDay`, `CheckQuota` |
| `checkStorageBudget(0n)`, validation, encryption, `prepareUpload` | `CheckRoom` |
| `createUpload` 192-226 | `ReadBalance`, `ReadCommitted`, `CheckFunds`, `CheckBudget` |
| `sealKey`, `spool.write`, `prisma.upload.create`, `postHeader` | `SealKey`, `WriteSpool`, `CreateRow`, `CreateReplyLost`, `CreateFails`, `PostHeader` |
| early returns for any other reason, a restart | `Refuse`, `Crash` |
| worker, registration | `WorkerPosts`, `WorkerRecords`, `WorkerStores`, `WorkerFails`, `Register` |
| the contracts, the clock, the network | `Stake`, `DayPasses`, `Mine`, `Unmine`, `Expire` |

The worker is kept to what limits and money can see of it; `StorageWorker` has
the rest, and the margins by which it takes a header for dead. A refusal by a
limit is not a fault; any other one is, and is counted (`faults`). A request
signs a header of its own, so one name stands for the call and for its upload.
A `create()` that reports an error has made a row or not (`CreateReplyLost`); its
request removes the file either way and is `rejected`. A header that was mined is
paid for, and stays so when the worker gives its upload up. A node that tells the balance may not have seen the
blocks of uploads that are not stored yet, and no others.

### How `Duplicates` corresponds to the code

A file is looked up by its digest (the file itself stands for it) and by the
fingerprint of its text, the set of bits that are 1 in its SimHash:
`ComputeSimHash` takes each bit by the majority of the words, a text without
words has none. `BandOf` says which band a bit is in.

| Code | Actions |
|---|---|
| the request, up to its checks | `Arrive` |
| `checkExactDuplicate` | `CheckExactDuplicate` |
| `checkNearDuplicate` | `CheckNearDuplicate` |
| `prisma.upload.create`, P2002 | `Create`, `Refused` |
| anything else that ends the request | `Fails` |
| `failUpload` of the worker, which frees the digest | `FailUpload` |

The threshold is chosen at the start, within and beyond what the bands
guarantee, since the code drops the bands in the second case (`Prefilter`).
Statuses after `pending_confirmation` are one, for no decision tells them apart.
`call[r].older` and `.gone` are history: the rows there were when r arrived.

### How `ChunkPush` corresponds to the code

A pass has its own copy of the state (`holders[p]`) and an upload per node
(`task[p][n]`). `Promise.all()` ends with the first upload that throws: the pass
goes on to its `catch` while the others keep sending and keep saving the state
of a pass that is over, next to the pass that follows.

| Code | Actions |
|---|---|
| `processUpload` before the push | `Start` |
| `pushChunks` loop | `Loop`, `Pushed` |
| `findLongTermNodes` | `Probe`, `ProbeIsFatal` |
| `uploadTo`, one chunk; `onState` after every tenth | `PostChunk`, `SaveProgress` |
| `Promise.all` | `AllReturned` |
| the `catch` of `processUpload`, its save failing as well | `Caught`, `CaughtUnsaved` |
| the process ends | `Restart` |

Time-outs and every status but 200, 303 and the fatal ones are one outcome: a
try less. `received[n]` are the chunks node n answered with 200. What
`StorageWorker` calls `PushNode` (a node gets the copy) is the last `Accepts` of
a node here, `PushDone` is `Pushed`, `PushFails` is `Caught`. Left out are an
`onState` that throws in the loop itself (after `AllReturned`; that of an upload
is there) and a `getNodes` that throws: both end the pass in its `catch`, where
`no_long_term_nodes` ends too. What the worker may
take from all this is `Replication`, which `ChunkPush` implements
(`ImplementsReplication`): `copies` are the nodes that accepted every chunk
(`Whole`), `counted` are the holders the row calls done. `PushNode` is its
`CopiesAppear`, a save its `Recount`, the end of the push its `Store`. The
read-back of `verifyHolders` is in `StorageWorker`.

### How `NodeSelection` corresponds to the code

`cache` is `_nodes`, a promise: `found[id]` is what it stands for. All nodes may
come and go (`up`); liars say any height and any price.

| Code | Actions |
|---|---|
| `peersFromSeeds`, `readPeerCache` | `AskSeeds` |
| `probeNode` of all, `selectNodes`, `writePeerCache` | `Select`, `NoneHealthy` |
| `getNodes` | `CachedNodes`, `NewDiscovery` |
| `NODE_CACHE_MS`, a promise nobody holds | `GrowsOld`, `Collect` |
| `nodeGetWinston`, `getPrice`, `invalidateNodes` | `Answered`, `NoAnswer`, `Return` |

`RobustAgg` is the lower median, or the highest of fewer than `MedianMin`
values. Which nodes are asked and which of their answers are taken is in
`Answers`: any of them may fail, whether it is gone, answers with an HTTP error
or sends something that is not a number, so that a list may fail as a whole
(`NoAnswer`) while all its nodes are up. The properties look at every answer
there could be.

### How `ReadAccess` corresponds to the code

A request tries the doors one after another, each with its own read of a chain
that moves on in between, answered by a provider that has the newest change or
lacks one (`Views`).

| Code | Actions |
|---|---|
| `getDecryptParams`, `getRentalStatus` | `Arrive` |
| `unlockKey` with `verifyUnlockRequest`, `checkScope`, `decodeSessionKey` | `ArriveSigned` |
| `checkReadAccess` | `ReadRow`, `AskStake` |
| `isRentalActive` | `AskPaused`, `AskRental` |
| `isLibrarianReviewAllowed` | `AskLibrarian`, `AskWindow` |
| the answer, a `ChainError` | `Answer`, `Fails` |
| the contracts, the clock, the row | `Stake`, `Unstake`, `PeriodEnds`, `Rent`, `RentalEnds`, `Pause`, `Joins`, `Leaves`, `CatchUp`, `Registers`, `Tick` |

A message is a record of what it names and who signed it; parsing and recovering
the signer are single facts of it. The door of the review is asked about in two
reads, of the librarian and then of the stake, and either may change between
them. `opened` and `closed` are history: the doors, and the halves of that one
(`ReviewFacts`), that were open, and closed, at some moment of the request, as any
provider could tell. Requests share nothing, so that one slot shows all there is to see.

### How `UnlockRelay` corresponds to the code

Time is an integer. `taken`, `lastHour` and `lastDay` are the limiter's lists,
`reading` is the cached balance with its time. What the chain says of a reader
is in `ReadAccess`; here it passes (`LetIn`) or does not (`TurnedAway`).

| Code | Actions |
|---|---|
| row, message, `takeWallet` | `Arrive` |
| `checkReadAccess`, the CID of the Action | `LetIn`, `TurnedAway`, `CidRefused` |
| `createCreditGuard().check`, `takeGlobal` | `CheckCid`, `ReadBalance`, `Told` |
| the call of Lit | `LitRuns`, `LitFails` |
| uploads that seal a key, somebody who pays, a restart | `UploadSeals`, `TopUp`, `Restart` |

A list is pruned from its front (`DropUpTo`), as the code shifts it while its
oldest time is out of the window. Between the guard and the call there is no
`await`, so `Forward` is one step of
`CheckCid` or of `Told`. Two checks may read the balance at the same time and
the later one to end is kept. `forwarded` and `lowSince` are history.

### How `ChallengeReview` corresponds to the code

One book, several requests. The row follows the contracts later (`RowFollows`),
providers may be one change behind (`behind`).

| Code | Actions |
|---|---|
| all handlers, the row | `Arrive`, `ReadRow`, `Fails` |
| `getStakeStatus`, its two calls in any order | `ReadChain` |
| `getReviewQueue`, `isChallengeable` | `ListQueue` |
| `submitChallengeReview` | `CheckReviewer`, `LockRow`, `CountReviews`, `Create`, `AnswerReview` |
| `getChallengeReviews`, `summarizeReviews`, `isStoredChallengeReviewValid` | `CheckChallenge`, `AnswerChallenges` |
| the contracts, the listener | `StakeBook`, `Challenge`, `Resolve`, `Unstake`, `PeriodEnds`, `CatchUp`, `RowFollows` |

`SELECT ... FOR UPDATE` is `lock`. The validity of a stored review is modelled by
the columns it is computed from (`Checked`) and the ones each query selects
(`Selected`). The book is challenged at most once (external: the record
`getStakeStatus` reads has one challenge per work). `could`, `listed`, `told` and the field `late` are history.

## 4. What the runs check

Passing runs:

| Run | Question | Bounds (what they are for) |
|---|---|---|
| `MCdeadline` | Is a live header ever given up, a replaceable block ever taken for final, a book stored of which too few nodes keep what is read back? Does the ciphertext outlive everything that still needs it, does an unstored book get on-chain, and does the worker implement the lifecycle? `DroppedNeverMined`, `StoredIsSettled`, `StoredOnEnoughNodes`, `SpoolOutlivesPending`, `RegisteredOnlyIfStored`, `ImplementsLifecycle`, `TypeOK` | one book, one node; lag 2 and 2 replaceable blocks with `DropMargin` 1 and `Confirmations` 3, that is the assumptions at their limit; 6 blocks, so that anchor, deadline, grace and a replacement fit; three chunks, two of them in the sample and one read back without the file, of which the node keeps none, one or both, and never the third: whoever passes here is a partial holder; one crash, failing call or lost reply, anywhere |
| `MCends` | Does every upload end, every stored book get registered, and the ciphertext of an ended upload leave the disk? `EveryUploadEnds`, `EveryStoredBookIsRegistered`, `EndedUploadsLeaveNoSpool` | one fault, a lost reply among them, under `FairSpec`; a node that may refuse the book for ever; the last property promises nothing after a fault, since the removal is best effort and tried once, by design |
| `MCevents` | Does the listener miss, invent or misread an event, and does it get on? `NothingMissed`, `NothingInvented`, `RowsFollowChain`, `CatchesUp` | one book, three events, one in a block; 2 confirmations with one replaceable block and providers two blocks behind, that is the assumption at its limit; 6 blocks and chunks of 2, so that a range has two chunks and a second range follows; one fault, at any await |
| `MCrequests` | By how much can limits be overrun, and is a header ever posted that nothing keeps? `QuotaOverrunBounded`, `DayOverrunBounded`, `BudgetOverrunBounded`, `PostedIsKept` | three requests, at most two at a time, so that two race and a third finds what they left; three configurations, in each of which another limit is 1 upload and the others are out of reach; one fault, which may be a `create()` that commits and reports an error; mined uploads may be given up at any time |
| `MCduplicates` | Can one file get two live rows, a near duplicate pass unflagged, or a failed upload block its own retry? `OneLiveRowPerFile`, `FlaggedAgainstOlder`, `RetriesAreFree` | four files: close ones that share a band, close ones that do not, one without text; three rows, two uploads at a time, so that one fails between the checks of another; four bits in two bands with thresholds on both sides of what bands guarantee |
| `MCpush` | Can a node count as a holder that lacks a chunk, can two holders of one state be neighbours, is a book stored on nodes that still lack a part of it, and does a push end? `DoneHasEveryChunk`, `HoldersAreApart`, `ImplementsReplication`, `PushEnds` | three nodes in two blocks, so that one has to be left out; two holders wanted; two passes, so that the uploads of the first go on beside the second; two chunks, a save after the second, one retry; restarts are not limited |
| `MCnodes` | Can a minority of nodes move a price or drive honest nodes out, do callers share a discovery, and is a failure forgotten? `LiarsDoNotSetPrices`, `HonestNodesAreKept`, `OneDiscoveryForAll`, `UnavailabilityEnds` | two honest nodes and a liar with a quorum of three: the least number at which the median is taken; a liar that says too much and too little; two callers, two discoveries, so that one fails after it was replaced; every node may refuse to quote at any time |
| `MCaccess` | Is somebody let in who had no door, turned away who had one, or a signature used too long? `OpenedForReadersOnly`, `TurnedAwayAtEveryDoor`, `SignatureIsShortLived` | three wallets (uploader, librarian, reader), three changes of the contracts, librarians that join and leave among them, three units of time, seven messages, of which one is from a clock that is ahead and one for too long a time; one request slot, for requests share nothing |
| `MCunlocks` | Do the ceilings hold over every window, and does the guard catch up with an account others spend? `WalletShareHolds`, `CeilingsHold`, `GuardCatchesUp` | two wallets, two requests at a time, three units of time with windows of 1, 2 and 3, so that windows overlap and one ends while a request is under way; restarts at any time (the lists are in memory, and the promise is one of this process) |
| `MCreviews` | More reviews than wanted, a review of somebody concerned, a verdict that changes, a late review, a queue that lists what nobody can challenge? `ReviewsWithinCap`, `VerdictIsFinal`, `ReviewersAreIndependent`, `LateReviewsRaced`, `QueueIsChallengeable` | four librarians, two of whose reviews are wanted: staker, challenger and two independent ones at least; two requests, one of them of any kind |

The heights of chains matter only relative to one another, so anchors in the
first blocks of a chain of 3 to 7 blocks meet every order of tip, view, deadline
and block of a book that the margins of the instance distinguish. What bounds
cannot give is in the proofs, which hold for every value of the constants.

Each property is paired with a mutant of the code it is about (an operator
`\* Bug: ...` just before the one it mutates): a deadline without its margin, a
removal before the update, a cursor that jumps, a budget that leaves out what is
recorded, a lock that is only a read, a window pruned one tick early, a door
left out, a chunk that counts when it is sent, a median of two, a digest that
stays with a failed row, and so on.

The code does not limit how many requests run at once (`AtOnce`); "two uploads
checked at the same instant can both pass" is its authors' own remark. The three
bounds say what that costs and that nothing else does: an upload that is made,
stored, staked or failed between two reads of a third request opens no other gap.
With `AtOnce` 1 the bounds are the limits themselves.

### Where the code and its comments disagree

Two runs are expected to end in a violation; each checks a statement of the
repository.

* `MCstarved`, `EveryRowGetsAPass`: "Every row gets a pass", but only of the
  `BATCH` oldest. A mined row fails each push as long as no node answers 200 to
  chunk 0, or for good when its nodes have all been given up on, and stays pending,
  for the deadline concerns rows that are not mined. With a batch of such rows no younger row is looked at.
* `MCballots`, `ProgressIsShown`: `GET /api/librarian/challenges` promises
  independent-review progress. `getChallengeReviews` selects reviews without
  `signedMessage` and `signature`, and `isStoredChallengeReviewValid` takes a
  review without them for invalid: the answer is always that none is in.

More of them were met; their definitions are kept, without a run:

* `StoredKeepsItsHolders`: `findMany` returns a row that is pending; before its
  reply reaches the loop, the running pass stores the book and ends. A second
  pass starts on the row as it was, asks a node that lags, is told `not_found`,
  re-posts, and saves its copy of `arweaveUploaderState`, in which there is no
  `verified`, over the stored row. `monitorReplication()` skips rows without
  `verified`, so the watch that lines 13-14 promise ends. It takes a reply
  slower than what is left of the other pass, which is possible and rare. (The
  same start may clear a final `storageError` on a failed row.)
* `FailedIsNeverPaid`: the daily budget and the quota leave out `storage_failed`
  rows because "a header that is never mined is never paid for". `chunk_fatal`
  and `spool_missing` fail rows whose header is mined. So the budget is not what "caps
  what the storage wallet can lose" (`services/uploadQuota.service.js:14-16`, `:32`):
  `BudgetOverrunBounded` bounds what a day costs by the budget, the requests that
  raced, and the fees of such uploads (`PaidForNothing`), which nothing limits.
* `POST /api/upload` answers "Nothing was stored or paid" when `create()` reports an
  error (`controller/upload.controller.js:316-329`). If the row was committed all
  the same, the worker finds it, posts its header, and fails it as `spool_missing`
  once it is mined and paid. `SpoolOutlivesPending` and `PostedIsKept` except such
  rows, and no others.
* "Each must serve the data back byte for byte" (`ARWEAVE-DIRECT-PLAN.md:289`, D9).
  `verifyHolders()` reads back a sample of at most ten chunks, which is all of a
  small book only, and of a row whose file is gone the first chunk and the last
  byte. `StoredOnEnoughNodes` says what that shows of a stored book, and no more.
* Who is let in as a librarian need not have had the right at any one moment: the
  two reads of `isLibrarianReviewAllowed` (`controller/rental.controller.js:41-44`)
  may find a librarian who leaves before the book is staked. `OpenedForReadersOnly`
  allows it, and only if both halves of the door were open and closed meanwhile.
* `EveryRowGetsAPass` under `FairSpecWithoutReceipts`: `tick()` awaits
  registrations, these await a receipt without a timeout, and while it does not
  come no tick starts.
* `StoredHasNoError`: `registerStored()` "Never throws", but its last update is
  outside the inner `try`, and its error is written as `storageError` onto a
  stored book.
* `NeverOverspends` of `UploadRequest`, requests one after the other: a fee is
  owed until the worker records the block and deducted once a block with the
  header is there, and counting it twice in between "can only refuse an upload,
  never overspend". But the two are read separately. The worker has recorded the
  block; the balance comes from a node that does not have it yet, or was told
  just before it, or (the height recorded is not cleared) after it was replaced
  by another. Then the fee is in neither and both headers are posted. The second
  may stay unpaid until its anchor expires; nothing is lost but the upload.
* `ResumesWhereItStopped` of `ChunkPush`: "calling again with the saved state
  resumes where it stopped". An upload that outlived its pass saves the state
  object of that pass, over what the pass after it has saved: chunks are sent
  again. `DoneHasEveryChunk` says that no more than that is lost.

Seen while modelling and not stated as a property: a crash between
`failUpload`'s update and its removal leaves the ciphertext on the disk for
good, since no later pass looks at a failed row.

### Fairness

`StorageWorker`: liveness is checked under `FairSpec`: weak fairness of
`ChainMoves` (blocks keep coming), of the tick's steps and of each book's
request and pass (Node's event loop runs what is ready, all awaits but one have
timeouts), of the listener and of the backoff timer, and of `RegistrationStep`
(a sent transaction is answered). The last is the one the code does not
guarantee: `tx.wait(1)` has no timeout. `FairSpecWithoutReceipts` leaves it out.
No fairness is assumed of uploads, of `POST /register`, of nodes accepting
anything, or of `PassThrows` and `Crash`, whose number the bound `MaxFaults`
limits: "after the last fault" is part of every liveness statement.
`EveryUploadEnds` excepts uploads whose passes keep finding no node
(`NoNodeAnswers`): nodes that refuse chunk 0 may do so for ever, and a mined book is
never given up for it. That is the state `MCstarved` is about. As the formula is
asked again from every moment, one such pass does not excuse the rest: an upload that
does not end has such passes infinitely often.

`EventListener`: `CatchesUp` is checked under weak fairness of the listener's
own steps (the timer is set again in a `finally`, and calls to providers have
timeouts), with finitely many failures. Nothing is assumed of the chain.

`ChunkPush`: weak fairness of each pass and of each upload, for every request to
a node has a timeout. Nothing is assumed of what nodes answer, and none of
`Restart`, which may come at any time: it ends the push as well.

`NodeSelection`: weak fairness of each discovery and each caller, for the same
reason. Nodes may go or refuse to quote for ever; `UnavailabilityEnds` speaks of when
it has become otherwise: honest nodes stay up, none of those a caller asks refuses
along with all the rest of its list, and discoveries reach nodes among which liars
are too few to drive the honest ones off (`Reliable`). Each premise is needed. With
no honest node in what is discovered, a list of liars that answer `/info` and refuse
`/price` is dropped and found again for good, with every node up. What the property
asks of the code is that whatever was cached before the premises came true, be it a
discovery that failed or a list that does not work, does not stay.

No strong fairness is used. Deadlock is checked in the runs of worker, listener
and reviews, which never stop, and in `MCduplicates`. The runs with a bound that
ends them (`MCrequests`, `MCaccess`, `MCunlocks`, `MCpush`, `MCnodes`) do not
check it.

## 5. What is proved

Eight modules of proofs; each theorem holds for every value of the constants
that satisfies the named assumptions of its module, without the bounds of the
runs.

### The storage worker

`StorageWorkerProofs`, for any finite sets of books and nodes and any values of
the parameters that satisfy the named assumptions, with any number of faults:

| Theorem | Statement |
|---|---|
| `TypeCorrect` | `Spec => []TypeOK` |
| `DropSafe` | `Spec => []DroppedNeverMined` |
| `StoreSafe` | `Spec => []StoredIsSettled` |
| `HoldersSafe` | `Spec => []StoredOnEnoughNodes` |
| `RegisterSafe` | `Spec => []RegisteredOnlyIfStored` |
| `SpoolSafe` | `Spec => []SpoolOutlivesPending` |
| `LifecycleImplemented` | `Spec => ImplementsLifecycle`: `StorageWorker` refines `BookLifecycle` |

Assumptions: `ChainAssumption` and `WorkerAssumption` (the kinds of the
constants) and `MarginAssumption`,

    MaxLag <= DropMargin + 1,  MaxReorg <= DropMargin + 1,  MaxReorg < Confirmations

which is what `DROP_MARGIN = 3` and `ARWEAVE_CONFIRMATIONS = 16` buy: nodes may
lag by four blocks and four blocks may be replaced. The bound is sharp:
`MCdeadline` sits on it, and its mutant without the margin fails.

`SampleAssumption` says that the sample has the ends and that both are chunks.
Nothing is assumed of `Portions`: nodes may keep any part of what they are sent.
`SpoolSafe` and `HoldersSafe` hold with lost commits and all; what these cost is in
the properties themselves (a row whose `create()` reported an error loses its file,
and is read back at its ends).

*The argument.* None of the properties is inductive: a pass may decide on what
it was told many steps ago. `IInv` therefore says, for each book, what every
point a pass can be suspended at still knows. Its heart is `Kept(b)`: four
facts about the outside that no step takes back (a dead header stays dead, a
settled block stays settled, what a node keeps it keeps, a stored row stays stored).
A pass may be as stale as it likes, for all it relies on are kept facts:

* `PassOK`: what was read as `final` is settled, because `Confirmations`
  exceeds `MaxReorg`; a pass about to fail a row as not mined has seen a
  height above the deadline *before* the re-check, so no later block could hold
  the header, and has been told by the re-check that none does, which with
  `MaxLag` within the margin is the truth; a pass about to store has enough
  nodes that keep what they were asked for; a pass about to register finds the row stored.
* `RowInv` ties rows to the kept facts, `RequestInv` and `ChainInv` rows to
  the request and the header, `RegisterInv` and `CallerInv` the registration in
  flight to its caller, `TickInv` the rows a tick still has to do to their
  status, `SpoolInv` pending rows to their file.

There is one lemma per action (or per group of actions that change the same
variables), and `Lemma`s about the chain: `NextBlock` keeps `Dead`, `Settled`
and what a lagging view implies. `IInv` was checked by TLC on the instances of
the runs before it was proved.

Refinement: `fate` is defined from the chain (`Settled`, `Dead`), a block is
`NetworkDecides` or a stutter, `PushNode` is `CopiesMade` (and so is a `create()` that
reports an error, for from then on less is read back), `FailRow`, `MarkStored`
and the three ways to `pending` map to the actions of their names, everything
else stutters. `IInv` supplies the abstract guards.

### The event listener

`EventListenerProofs`, for any books, events, sizes of chunks and number of
failed passes:

| Theorem | Statement |
|---|---|
| `TypeCorrect` | `Spec => []TypeOK` |
| `MissesNothing` | `Spec => []NothingMissed` |
| `InventsNothing` | `Spec => []NothingInvented` |
| `RowsAreTrue` | `Spec => []RowsFollowChain` |

Assumptions: `ListenerAssumption` (the kinds of the constants) and
`ConfirmationsAssumption`,

    MaxReorg < Confirmations,  MaxLag <= Confirmations

`CHAIN_CONFIRMATIONS` is 3 unless configured, so the listener stands two
replaced blocks and providers three blocks behind. The second half is easily
overlooked: the comment at 53-55 speaks of reorgs only, but with a quorum of 1 a
`getLogs` answered by a provider further behind than that loses its events for
good.

*The argument.* `RowsFollowChain` is not inductive, because a row is moved
before the cursor is. The invariant `IInv` replaces "the cursor has passed it"
by `Done(e, c)`: the cursor has passed e, or e is in the chunk and no longer in
the batch, or it is the event being worked on and its status was just applied.
`ColumnInv` says that a column shows the newest event that is done with, or
nothing. `BatchInv` says that the batch is a final part of the chunk, so the
event worked on is newer than all that is done with (`DoneIsBefore`), and that
nothing of the chunk lies outside batch and table. Underneath is depth
(`Deep`): everything done with lies below what the chain can replace
(`DoneIsDeep`, `ChainKeepsDeep`) and below what the most backward provider has
(`FetchLogsKeeps`, `StakeIsKnown`). A failed pass only makes fewer events done
with, which keeps `ColumnInv` (`RowsKept`): that is why replay is harmless. The
one guarded status, `pending`, is harmless because a book's registration is its
first event (`ApplyStatusKeeps`, `RegistrationKeeps`).

### Upload requests

`UploadRequestProofs`, for any requests, wallets, fees and limits, under
`RequestAssumption`:

| Theorem | Statement |
|---|---|
| `TypeCorrect` | `Spec => []TypeOK` |
| `QuotaHolds` | `Spec => []QuotaOverrunBounded` |
| `DayHolds` | `Spec => []DayOverrunBounded` |
| `BudgetHolds` | `Spec => []BudgetOverrunBounded` |
| `KeepsWhatItPosts` | `Spec => []PostedIsKept` |

*The argument.* Both bounds are one: what counts against a limit is read at one
moment and decided on at another. `Race` says, for such a limit, that the
uploads that count can be split in two: those of `old`, which were there when
the request that read last among those that passed had its answer, fewer than
the limit; and those of `race`, made by requests that ran at that moment, at
most `AtOnce` with it. Nothing in the state records
these sets; the invariant says that there are such. `RaceReads`,
`RacePasses` and `RaceGoesOn` say what a read, a decision and any other step do
to it, `RaceBound` that it implies the bound. `QuotaInv` and `DayInv` are its two instances.

The budget needs less and more. Less, for its sum is read and decided on in one
step, so that only requests past the decision and without a row are in nobody's sum:
`BudgetInv` says that what counts, or will (`Spending`), is within the budget but for
requests that ran beside the last one to pass, fewer than `AtOnce`. What is spent on uploads given up after they were mined is
beside it, added on both sides of the bound. More, for fees
add up: `Sum` is a fold, and the provers have no induction over the sets it goes
through. So the fees are laid out as coins. `Coins(S)` has one element for each unit
of each fee, `Worth(S)` is its cardinality, which the library's theorems about finite
sets say how to add (`WorthAdds`, `WorthOfOne`). `WorthFolds` shows that `Worth`
satisfies the equations of the fold, and `FoldsAgree` that nothing else does: a set on
which two solutions differ would have a smallest (`LeastNumber`, from the order of the
numbers, a relation and not an operator, which is what the provers can instantiate), and
one element less of it would be a set on which they differ as well. Hence `SumIsWorth`,
and with it that `committed` is a number, which `TypeCorrect` needs.

### Duplicates

`DuplicatesProofs`, for any files, texts, hashes of words, numbers of bits and
bands and any threshold, under `DuplicatesAssumption`:

| Theorem | Statement |
|---|---|
| `TypeCorrect` | `Spec => []TypeOK` |
| `BandsLoseNone` | fingerprints that differ in fewer bits than there are bands have a band in common |
| `OneLiveRow` | `Spec => []OneLiveRowPerFile` |
| `FlagsWhatWasThere` | `Spec => FlaggedAgainstOlder` |
| `FailedStandsInNobodysWay` | `Spec => RetriesAreFree` |

*The argument.* `BandsLoseNone` is the pigeonhole: were every band to differ, the
differing bits would map onto the bands, and be as many.
`DigestInv` (a live row has its file's digest, no two rows have one) gives the
rest of the first property. For the other two, `HoldsInv` says what a request
knows at each await: rows older than it are still rows, what failed before stays
failed, and what it took for the closest is at least as close as every older row
that has not failed since.

### Chunks, and values of untrusted nodes

`ArweaveProofs`, about `ChunkPush` for any nodes, blocks, passes, chunks and retries
(`PushAssumption`), and about `NodeSelection` for any nodes, liars, heights and prices
(`SelectionAssumption`):

| Theorem | Statement |
|---|---|
| `TypeCorrect` | `Spec => []TypeOK` |
| `HolderHasAll` | `Spec => []DoneHasEveryChunk` |
| `SpreadOut` | `Spec => []HoldersAreApart` |
| `PushImplements` | `Spec => ImplementsReplication`: `ChunkPush` refines `Replication` |
| `StoredIsApart` | `Spec => []Replicated!StoredIsSpread`: a stored book was taken whole by `MinHolders` nodes that lie apart |
| `SelectionTypeCorrect` | `SelectionSpec => []SelectionTypeOK` |
| `MinorityCannotMove` | for any finite non-empty set of answers, `RobustAgg` stays among the honest ones while liars are fewer |
| `PricesAreHonest` | `SelectionSpec => []LiarsDoNotSetPrices` |
| `HonestStay` | `MaxLag >= 1` implies `SelectionSpec => []HonestNodesAreKept` |
| `Shared` | `SelectionSpec => []OneDiscoveryForAll` |

*The push.* `GoodInv` is both properties, strengthened, for the row and for
the state of every pass alike: a holder whose next chunk is k has accepted all
before it, done ones have them all, and the holders that count are apart and not
too many. As nothing in it compares two states, one pass may overwrite the row
with any other's. `TaskInv` ties the uploads that run to their holders.

*Refinement.* A step either receives something and leaves the row (`ReceivedAppears`),
or writes the row, with a state of some pass, and receives nothing (`RowCounts`).
The first is `CopiesAppear`. The second is `Recount`, `Store` or `GiveUp`, because what a
good state calls done may be counted (`GoodCounts`), also in a state that is hours old.
`StoredIsApart` is then an invariant of `Replication`, in which copies are never lost;
of the row it would be false (`StoredKeepsItsHolders`, section 4).

*The selection.* `MinorityCannotMove` is a count: were the lower median above (or
below) all honest values, the answers up to it (or below it) would be liars', and
at least half. The first of the two bounds also holds of the highest of few
answers. `HonestStay` needs its hypothesis: honest nodes may be one block
behind. `SharedInv` says that a discovery that runs is in the cache or was
dropped from it.

### Doors

`ReadAccessProofs`, for any wallets, requests, messages and chains, under
`AccessAssumption`:

| Theorem | Statement |
|---|---|
| `TypeCorrect` | `Spec => []TypeOK` |
| `ReadersOnly` | `Spec => []OpenedForReadersOnly` |
| `EveryDoorTried` | `Spec => []TurnedAwayAtEveryDoor` |
| `ShortLived` | `Spec => []SignatureIsShortLived` |

*The argument.* `DoorsInv` writes down what a request has learned at each await
in terms of `opened` and `closed` (`Learned`), and that these two have what every
provider could tell now: a request that asks learns something that is in them
already. At the door of the review it learns two things at two moments: `HalfOpen`
says that if one half of it was open and the whole door never was, the other half was
closed at some moment, which is all that the exception of `ReadersOnly` allows. `TimesInv` says that a message was first and last accepted within its
own window and skew, and that windows are no longer than `MaxWindow`.

### The unlock relay

`UnlockRelayProofs`, for any wallets, requests, windows, ceilings and shares, any
reserve and any debts of uploads, under `RelayAssumption`:

| Theorem | Statement |
|---|---|
| `TypeCorrect` | `Spec => []TypeOK` |
| `CeilingsAlways` | `Spec => []CeilingsHold` |
| `WalletShareAlways` | `Spec => []WalletShareHolds` |
| `GuardCatches` | `Spec => GuardCatchesUp` |

*The argument.* What a limiter keeps is a list of times, what it promises is about the
calls that were made. `Limited` ties the two, for any limiter: over every window there
are no more events than the limit, and of those since t, for every t that a window
ending now or later can begin with, there are no more than there are times since t in
the list. So if the list has room there was room (`CeilingInv`), and to drop old times
from its front (`DropsTheFront`) changes nothing for such t. Nothing says that the list
is in order, and nothing has to. For the share of a wallet the events are more than the
calls that were forwarded: a request is charged when it arrives and may be forwarded
long after its time has left the list, so that requests under way count at the
time they were charged (`Share`, `ShareInv`); one that is refused only takes an event
away. A restart empties lists and history together: the promise is one of the process.

`GuardInv` says that a reading that suffices for the reserve, be it the cached one or one
just received, was asked for before the credit got low (`Trusts`). So whoever is let
through by it comes within `Refresh` of that moment, although two checks may read
at once and the older answer may be kept.

### Reviews

`ChallengeReviewProofs`, for any wallets, librarians, requests and number of
reviews wanted, under `ReviewAssumption`:

| Theorem | Statement |
|---|---|
| `TypeCorrect` | `Spec => []TypeOK` |
| `CapHolds` | `Spec => []ReviewsWithinCap` |
| `VerdictStands` | `Spec => []VerdictIsFinal` |
| `ReviewersIndependent` | `Spec => []ReviewersAreIndependent` |
| `LateOnesRaced` | `Spec => []LateReviewsRaced` |
| `QueueIsTrue` | `Spec => []QueueIsChallengeable` |

*The argument.* `VotesInv`: who counts holds the lock, and who is about to insert
found room under it. `ViewInv`: a provider that lacks the newest change tells
what was true, and stakers and challengers never change, so that whoever was
not concerned by what was read of a challenge is not concerned by what there is.
`QueueInv` says in which order the facts of the queue can become true and false,
so that whatever the order of the reads, there is a moment at which all held.

### Only model-checked

Every safety property of the passing runs is a theorem. What is left to
TLC is liveness, for fairness and `ENABLED` are beyond the prover (`EveryUploadEnds`,
`EveryStoredBookIsRegistered`, `EndedUploadsLeaveNoSpool`, `CatchesUp`, `PushEnds`,
`UnavailabilityEnds`), and the disagreements of section 4.

## 6. What is not modelled, and why

* *Validation and the security scan* (`services/validation.service.js`,
  `services/securityScan.service.js`): parsing of one file by one request, no shared state.
* *The upload signature*: the checks of an unlock message with other constants,
  once and without state; `ReadAccess` has the shared ones.
* *Lit*: sealing and unsealing are a remote call that may fail and costs money;
  what is encrypted is not modelled.
* *Read-only endpoints* (search, stake, storage and chain `GET`s), among them
  `fetchEncrypted`, which tries node after node until one serves a chunk whose
  proof holds; *routes and start-up*; *scripts*: they change nothing, or are not
  part of the program.
* *`ARWEAVE_NODE_URLS`*, which pins the nodes and skips the discovery; the *wallet's
  key file*; the *`.tmp` files* of the spool; *which failure* a registration met.
* *The worker, the listener and the contract together*: see section 2. Each
  module has the others' effect on its own rows as steps that may come at any
  time (`RegistrationSeen`, `RecordRegistration`, `WorkerStores`, `RowFollows`).

Postgres is assumed to execute each `update` atomically, with its `WHERE`. Times
are modelled only where a window is the question (`ReadAccess`, `UnlockRelay`);
elsewhere a clock that decides (backoff, the replication watch, the age of a
cache, due times) may decide either way.
