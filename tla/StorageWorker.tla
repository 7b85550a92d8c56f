---------------------------- MODULE StorageWorker ----------------------------
(***************************************************************************)
(* services/storage.service.js: the worker that takes an upload from       *)
(* "header posted" to "stored, verified and registered", together with     *)
(* what it shares state with: the tail of POST /api/upload that writes the *)
(* spool file and the row, POST /register, the event listener's status     *)
(* update, the Arweave network (module ArweaveChain) and crashes.          *)
(*                                                                         *)
(* One Node.js process runs everything, so an action is what happens from  *)
(* one await to the next, and other actors move in between.  pass[b] is    *)
(* the processUpload() call running on row b, tick is the body of tick().  *)
(*                                                                         *)
(* Left out, because no decision reads them: the recorded confirmations    *)
(* and block height, the re-post and attempt counters, log lines, and the  *)
(* renamed sha256, which changes together with status "storage_failed".    *)
(***************************************************************************)
EXTENDS ArweaveChain, FiniteSets

CONSTANTS
  Nodes,                \* storage nodes, each in a /24 block of its own
  Chunks,               \* the chunks of a book
  Portions,             \* the sets of chunks a node may keep of those it was sent
  Sample,               \* those verifyHolders() reads back when the spool is there
  Ends,                 \* those it reads back without it: the first and the last
  MinHolders,           \* ARWEAVE_MIN_HOLDERS
  Confirmations,        \* ARWEAVE_CONFIRMATIONS
  DropMargin,           \* DROP_MARGIN
  ExpiryGrace,          \* EXPIRY_GRACE_BLOCKS
  RepostEvery,          \* REPOST_EVERY_BLOCKS
  VerifyMissesAllowed,  \* VERIFY_MISSES_ALLOWED
  MaxParallelPush,      \* MAX_PARALLEL_PUSH
  Batch,                \* BATCH
  RegistrationsPerTick, \* REGISTRATIONS_PER_TICK
  ReplicationPerPass,   \* REPLICATION_PER_PASS
  LastUploadHeight,     \* bound: no upload is signed above this height
  MaxFaults,            \* bound: crashes, failed calls and lost replies
  CommitsMayBeLost      \* may a committed database write report an error?

ASSUME WorkerAssumption ==
  /\ IsFiniteSet(Books) /\ IsFiniteSet(Nodes)
  /\ MinHolders \in Nat \ {0} /\ Confirmations \in Nat \ {0}
  /\ DropMargin \in Nat /\ ExpiryGrace \in Nat /\ RepostEvery \in Nat
  /\ VerifyMissesAllowed \in Nat /\ MaxParallelPush \in Nat
  /\ Batch \in Nat /\ RegistrationsPerTick \in Nat /\ ReplicationPerPass \in Nat
  /\ LastUploadHeight \in Nat /\ MaxFaults \in Nat
  /\ CommitsMayBeLost \in BOOLEAN

\* VERIFY_SAMPLE chunks, the first and the last among them, or all of a small book.
ASSUME SampleAssumption ==
  /\ Ends # {} /\ Ends \subseteq Sample /\ Sample \subseteq Chunks
  /\ Portions \subseteq SUBSET Chunks

\* How far the network may be from what a node says, against the margins of the
\* code: DROP_MARGIN covers a lagging node and a late replacement of the last
\* valid block, ARWEAVE_CONFIRMATIONS a replacement of the block of the book.
ASSUME MarginAssumption ==
  /\ MaxLag <= DropMargin + 1
  /\ MaxReorg <= DropMargin + 1
  /\ MaxReorg < Confirmations

VARIABLES
  \* Postgres, table Upload
  status, storageError, arweaveAnchorHeight, uploaderState, born,
  \* disk
  spool,
  \* the contract library and the storage nodes
  onChain,      \* books registerUpload() has put on-chain
  kept,         \* kept[b][n]: the chunks of b that node n keeps and can serve
  \* process memory
  request,      \* how far POST /api/upload is with b
  pass, tick, snapshot, registering, registrationRetry,
  \* history and bound
  verdict,      \* why b was failed, as written to storageError at that moment
  faults

rowVars == <<status, storageError, arweaveAnchorHeight, uploaderState, born, verdict>>
worldVars == <<onChain, kept>>
tickVars == <<tick, snapshot>>
registrationVars == <<registering, registrationRetry>>

vars == <<chainVars, rowVars, worldVars, spool, request, pass, tickVars,
          registrationVars, faults>>

-----------------------------------------------------------------------------
(* Types.                                                                  *)

FailReason == {"header_not_mined", "spool_missing", "chunk_fatal"}

Status == {"absent", "pending_confirmation", "storage_failed", "pending_stake", "pending"}

\* Upload.arweaveUploaderState.  A node in neither set has not answered 200 to every
\* chunk and was not given up on; one that refused chunk 0 is never put on record.
UploaderState ==
  [lastPost : Nat, done : SUBSET Nodes, failed : SUBSET Nodes,
   misses : [Nodes -> Nat], verified : SUBSET Nodes]

FreshState ==
  [lastPost |-> 0, done |-> {}, failed |-> {},
   misses |-> [n \in Nodes |-> 0], verified |-> {}]

PassPoint ==
  {"idle", "status", "tip", "last_post", "recheck", "repost", "save_repost",
   "spool_check", "push", "save_push", "verify", "save_verify", "mark_stored",
   "drop_spool", "register", "registering", "failing", "drop_failed",
   "clear_error", "handle_error"}

\* The locals of processUpload(): the point it awaits at, the status and the tip
\* it read, whether the last re-post was refused, whether it found the spool file, why
\* it fails, its copy of state.
Pass ==
  [at : PassPoint, seen : {"none", "pending", "not_found", "mined", "final"},
   tip : Nat, refused : BOOLEAN, haveSpool : BOOLEAN,
   why : FailReason \cup {"none"}, state : UploaderState]

NoPass ==
  [at |-> "idle", seen |-> "none", tip |-> 0, refused |-> FALSE,
   haveSpool |-> FALSE, why |-> "none", state |-> FreshState]

\* What each node keeps of one book.
Keeping == [Nodes -> SUBSET Chunks]

TickPoint ==
  {"idle", "dispatch", "retry_query", "retry", "registering", "monitor_query", "monitor"}

\* "unanswered": the row is committed and create() has not returned, nor will it.
RequestPoint == {"none", "spooled", "unanswered", "post", "done", "rejected"}

Tick == [at : TickPoint, todo : SUBSET Books, attempted : Nat]

NoTick == [at |-> "idle", todo |-> {}, attempted |-> 0]

NoSnapshot == [b \in Books |-> FreshState]

WorkerTypeOK ==
  /\ status \in [Books -> Status]
  /\ storageError \in [Books -> FailReason \cup {"none", "transient"}]
  /\ verdict \in [Books -> FailReason \cup {"none"}]
  /\ arweaveAnchorHeight \in [Books -> Nat]
  /\ uploaderState \in [Books -> UploaderState]
  /\ born \in [Books -> Nat]
  /\ spool \in SUBSET Books
  /\ onChain \in SUBSET Books
  /\ kept \in [Books -> Keeping]
  /\ request \in [Books -> RequestPoint]
  /\ pass \in [Books -> Pass]
  /\ tick \in Tick
  /\ snapshot \in [Books -> UploaderState]
  /\ registering \in [Books -> {"no", "call", "record"}]
  /\ registrationRetry \in [Books -> {"now", "backoff", "done"}]
  /\ faults \in Nat

\* Every variable holds a value of its kind, in the chain and in the worker.
TypeOK == ChainTypeOK /\ WorkerTypeOK

Init ==
  /\ ChainInit
  /\ status = [b \in Books |-> "absent"]
  /\ storageError = [b \in Books |-> "none"]
  /\ verdict = [b \in Books |-> "none"]
  /\ arweaveAnchorHeight = [b \in Books |-> 0]
  /\ uploaderState = [b \in Books |-> FreshState]
  /\ born = [b \in Books |-> 0]
  /\ spool = {}
  /\ onChain = {}
  /\ kept = [b \in Books |-> [n \in Nodes |-> {}]]
  /\ request = [b \in Books |-> "none"]
  /\ pass = [b \in Books |-> NoPass]
  /\ tick = NoTick
  /\ snapshot = NoSnapshot
  /\ registering = [b \in Books |-> "no"]
  /\ registrationRetry = [b \in Books |-> "now"]
  /\ faults = 0

-----------------------------------------------------------------------------
(* Helpers.                                                                *)

\* The locals of the pass on b become p.
Continue(b, p) == pass' = [pass EXCEPT ![b] = p]

Go(b, point) == Continue(b, [pass[b] EXCEPT !.at = point])

EndPass(b) == Continue(b, NoPass)

Fault == faults < MaxFaults /\ faults' = faults + 1

\* A best-effort write or removal, `.catch(() => {})`: it is done, or it fails.
BestEffort(done, undone) == (done /\ UNCHANGED faults) \/ (undone /\ Fault)

WithStatus(s) == {b \in Books : status[b] = s}

\* The oldest rows of S, as many as findMany({ orderBy, take: BATCH }) returns.
Oldest(S) == {b \in S : Cardinality({c \in S : born[c] < born[b]}) < Batch}

\* Bug: a deadline that trusts the node asked to be at the tip.
DeadlineWithoutMargin(b) == arweaveAnchorHeight[b] + AnchorDepth

Deadline(b) == arweaveAnchorHeight[b] + AnchorDepth + DropMargin

\* Bug: nodes that accept the header after the deadline are humored for good.
NeverPastGrace(b) == FALSE

PastGrace(b) == pass[b].tip > Deadline(b) + ExpiryGrace

\* Bug: an update whose WHERE names the row only.
StillThere(b) == status[b] # "absent"

\* The WHERE of the updates that end an upload, evaluated with the update itself.
StillPending(b) == status[b] = "pending_confirmation"

Pushing ==
  {b \in Books : \/ pass[b].at \in {"push", "save_push"}
                 \/ pass[b].at \in {"failing", "drop_failed"} /\ pass[b].why = "chunk_fatal"}

\* What getTxStatus() can return when the node that decides sees heights up to v.
StatusAnswers(b, v) ==
  IF minedAt[b] # 0 /\ minedAt[b] <= v
    THEN {IF v - minedAt[b] + 1 >= Confirmations THEN "final" ELSE "mined"}
    ELSE {"not_found"} \cup (IF b \in mempool THEN {"pending"} ELSE {})

RepostDue(b, tip) ==
  LET last == pass[b].state.lastPost
  IN  tip >= (IF last = 0 THEN arweaveAnchorHeight[b] ELSE last) + RepostEvery

HasEnough(holders) == Cardinality(holders) >= MinHolders

-----------------------------------------------------------------------------
(* POST /api/upload, from the spool to the first header post.              *)

\* prepareUpload() and spool.write().  The anchor height the row will get is the
\* anchor block's own, or the tip if that block could not be read.
WriteSpool(b) ==
  /\ request[b] = "none"
  /\ height <= LastUploadHeight
  /\ SignHeader(b)
  /\ \E h \in anchor'[b]..height :
       arweaveAnchorHeight' = [arweaveAnchorHeight EXCEPT ![b] = h]
  /\ spool' = spool \cup {b}
  /\ request' = [request EXCEPT ![b] = "spooled"]
  /\ UNCHANGED <<status, storageError, uploaderState, born, verdict>>
  /\ UNCHANGED <<worldVars, pass, tickVars, registrationVars, faults>>

\* The row as prisma.upload.create() writes it.
InsertRow(b) ==
  /\ status' = [status EXCEPT ![b] = "pending_confirmation"]
  /\ born' = [born EXCEPT ![b] = Cardinality(Books \ WithStatus("absent")) + 1]
  /\ UNCHANGED <<storageError, arweaveAnchorHeight, uploaderState, verdict>>

CreateRow(b) ==
  /\ request[b] = "spooled"
  /\ InsertRow(b)
  /\ request' = [request EXCEPT ![b] = "post"]
  /\ UNCHANGED <<chainVars, worldVars, spool, pass, tickVars, registrationVars, faults>>

\* The row is committed and the reply is lost: the worker finds the row while the
\* request still waits.
CreateReplyLost(b) ==
  /\ CommitsMayBeLost
  /\ request[b] = "spooled"
  /\ InsertRow(b)
  /\ Fault
  /\ request' = [request EXCEPT ![b] = "unanswered"]
  /\ UNCHANGED <<chainVars, worldVars, spool, pass, tickVars, registrationVars>>

\* create() reports an error, with or without a row: the spool file is removed, if
\* the disk lets it.
CreateRowFails(b) ==
  /\ \/ request[b] = "spooled" /\ Fault
     \/ request[b] = "unanswered" /\ UNCHANGED faults
  /\ spool' \in {spool, spool \ {b}}
  /\ request' = [request EXCEPT ![b] = "rejected"]
  /\ UNCHANGED <<chainVars, rowVars, worldVars, pass, tickVars, registrationVars>>

FirstPost(b) ==
  /\ request[b] = "post"
  /\ PostHeader(b)
  /\ request' = [request EXCEPT ![b] = "done"]
  /\ UNCHANGED <<rowVars, worldVars, spool, pass, tickVars, registrationVars, faults>>

-----------------------------------------------------------------------------
(* processUpload(), the header: mined, waiting, or past its deadline.      *)

processVars == <<request, tickVars, registrationVars>>

ReadStatus(b) ==
  /\ pass[b].at = "status"
  /\ \E v \in View : \E s \in StatusAnswers(b, v) :
       Continue(b, [pass[b] EXCEPT !.seen = s,
                      !.at = IF s \in {"mined", "final"} THEN "spool_check" ELSE "tip"])
  /\ UNCHANGED <<chainVars, rowVars, worldVars, spool, processVars, faults>>

ReadTip(b) ==
  /\ pass[b].at = "tip"
  /\ \E v \in View :
       Continue(b, [pass[b] EXCEPT !.tip = v,
                      !.at = IF v > Deadline(b) THEN "last_post"
                             ELSE IF pass[b].seen = "not_found" /\ RepostDue(b, v)
                               THEN "repost" ELSE "clear_error"])
  /\ UNCHANGED <<chainVars, rowVars, worldVars, spool, processVars, faults>>

\* Past the deadline: one more post.  It is refused when a node answers "Invalid
\* anchor" or none accepts; a node with a stale view may still accept.
LastPost(b) ==
  /\ pass[b].at = "last_post"
  /\ PostHeader(b)
  /\ \E refused \in BOOLEAN :
       Continue(b, [pass[b] EXCEPT !.refused = refused, !.at = "recheck"])
  /\ UNCHANGED <<rowVars, worldVars, spool, processVars, faults>>

Recheck(b) ==
  /\ pass[b].at = "recheck"
  /\ \E v \in View : \E s \in StatusAnswers(b, v) :
       IF s \in {"mined", "final"}
         THEN Continue(b, [pass[b] EXCEPT !.seen = s, !.at = "spool_check"])
         ELSE IF pass[b].refused \/ PastGrace(b)
           THEN Continue(b, [pass[b] EXCEPT !.why = "header_not_mined", !.at = "failing"])
           ELSE Go(b, "clear_error")
  /\ UNCHANGED <<chainVars, rowVars, worldVars, spool, processVars, faults>>

Repost(b) ==
  /\ pass[b].at = "repost"
  /\ PostHeader(b)
  /\ \E refused \in BOOLEAN :
       Continue(b, [pass[b] EXCEPT !.refused = refused, !.at = "save_repost",
                                   !.state.lastPost = pass[b].tip])
  /\ UNCHANGED <<rowVars, worldVars, spool, processVars, faults>>

\* `save` writes the whole arweaveUploaderState of the pass, whatever the row is now.
SaveState(b) ==
  /\ uploaderState' = [uploaderState EXCEPT ![b] = pass[b].state]
  /\ UNCHANGED <<status, storageError, arweaveAnchorHeight, born, verdict>>

SaveRepost(b) ==
  /\ pass[b].at = "save_repost"
  /\ SaveState(b)
  /\ IF pass[b].refused THEN EndPass(b) ELSE Go(b, "clear_error")
  /\ UNCHANGED <<chainVars, worldVars, spool, processVars, faults>>

-----------------------------------------------------------------------------
(* processUpload(), the data: push, verify, store.                         *)

\* Bug: a block is taken for final as soon as it is there.
AfterPushAtOnce(b) == "verify"

\* Bug: 200 to every chunk is taken for a copy.
AfterPushUnverified(b) == IF pass[b].seen = "final" THEN "mark_stored" ELSE "clear_error"

\* Where a pass continues once enough holders are done.
AfterPush(b) == IF pass[b].seen = "final" THEN "verify" ELSE "clear_error"

SpoolCheck(b) ==
  /\ pass[b].at = "spool_check"
  /\ LET found == [pass[b] EXCEPT !.haveSpool = b \in spool] IN
     IF HasEnough(pass[b].state.done)
       THEN Continue(b, [found EXCEPT !.at = AfterPush(b)])
       ELSE \/ /\ ~found.haveSpool
               /\ Continue(b, [found EXCEPT !.why = "spool_missing", !.at = "failing"])
            \/ /\ found.haveSpool
               /\ Cardinality(Pushing) >= MaxParallelPush  \* push_queued
               /\ Continue(b, [found EXCEPT !.at = "clear_error"])
            \/ /\ found.haveSpool
               /\ Cardinality(Pushing) < MaxParallelPush
               /\ Continue(b, [found EXCEPT !.at = "push"])
  /\ UNCHANGED <<chainVars, rowVars, worldVars, spool, processVars, faults>>

\* Nodes pushChunks() may still use: it never comes back to one that failed.
Candidates(b) == Nodes \ (pass[b].state.done \cup pass[b].state.failed)

\* One more node answered 200 to chunk 0.  Then it did so to every chunk, keeping what
\* it likes of them, and is done; or it is dropped, and what it keeps counts for
\* nothing.  onState may have written the progress.
PushNode(b) ==
  /\ pass[b].at = "push"
  /\ ~HasEnough(pass[b].state.done)
  /\ \E n \in Candidates(b) :
       \/ /\ Continue(b, [pass[b] EXCEPT !.state.done = @ \cup {n}])
          /\ \E portion \in Portions : kept' = [kept EXCEPT ![b][n] = @ \cup portion]
       \/ /\ Continue(b, [pass[b] EXCEPT !.state.failed = @ \cup {n}])
          /\ UNCHANGED kept
  /\ uploaderState' \in {uploaderState, [uploaderState EXCEPT ![b] = pass'[b].state]}
  /\ UNCHANGED <<status, storageError, arweaveAnchorHeight, born, verdict>>
  /\ UNCHANGED <<chainVars, onChain, spool, processVars, faults>>

PushDone(b) ==
  /\ pass[b].at = "push"
  /\ HasEnough(pass[b].state.done)
  /\ SaveState(b)
  /\ Go(b, AfterPush(b))
  /\ UNCHANGED <<chainVars, worldVars, spool, processVars, faults>>

\* pushChunks() throws: no node is left to try or none of them answers 200 to chunk 0
\* (no_long_term_nodes; they will be asked again), nodes call the chunks themselves
\* wrong (chunk_fatal), or, a fault, the spool cannot be read or the state not saved.
PushFails(b) ==
  /\ pass[b].at = "push"
  /\ \/ /\ ~HasEnough(pass[b].state.done)
        /\ \E why \in {"none", "chunk_fatal"} :
             Continue(b, [pass[b] EXCEPT !.why = why, !.at = "save_push"])
        /\ UNCHANGED faults
     \/ Go(b, "save_push") /\ Fault
  /\ UNCHANGED <<chainVars, rowVars, worldVars, spool, processVars>>

SavePush(b) ==
  /\ pass[b].at = "save_push"
  /\ SaveState(b)
  /\ Go(b, IF pass[b].why = "none" THEN "handle_error" ELSE "failing")
  /\ UNCHANGED <<chainVars, worldVars, spool, processVars, faults>>

Serving(b, chunks) == {n \in Nodes : chunks \subseteq kept[b][n]}

\* What verifyHolders() asks every holder for.
ReadBack(b) == IF pass[b].haveSpool THEN Sample ELSE Ends

\* Holders that keep what they are asked for may still not answer in time; those that
\* do not may be caught serving other bytes.
Served(b) == SUBSET (pass[b].state.done \cap Serving(b, ReadBack(b)))

WrongBytes(b) == SUBSET (pass[b].state.done \ Serving(b, ReadBack(b)))

\* Misses in a row: served resets them, and only a pass that fails counts more.
Misses(b, ok) ==
  [n \in Nodes |->
     IF n \in ok THEN 0
     ELSE IF n \in pass[b].state.done /\ ~HasEnough(ok) THEN pass[b].state.misses[n] + 1
     ELSE pass[b].state.misses[n]]

\* Wrong bytes, or too many misses, and a node stops counting as a holder.
Verify(b) ==
  /\ pass[b].at = "verify"
  /\ \E ok \in Served(b), wrong \in WrongBytes(b) :
       LET misses  == Misses(b, ok)
           dropped == {n \in pass[b].state.done \ ok :
                         n \in wrong \/ misses[n] >= VerifyMissesAllowed}
       IN  IF HasEnough(ok)
             THEN Continue(b, [pass[b] EXCEPT !.at = "mark_stored", !.state.misses = misses,
                                              !.state.verified = ok])
             ELSE Continue(b, [pass[b] EXCEPT !.at = "save_verify", !.state.misses = misses,
                                              !.state.done = @ \ dropped,
                                              !.state.failed = @ \cup dropped])
  /\ UNCHANGED <<chainVars, rowVars, worldVars, spool, processVars, faults>>

SaveVerify(b) ==
  /\ pass[b].at = "save_verify"
  /\ SaveState(b)
  /\ EndPass(b)
  /\ UNCHANGED <<chainVars, worldVars, spool, processVars, faults>>

\* updateMany where the row is still pending; count 0 is 'raced'.
MarkStored(b) ==
  /\ pass[b].at = "mark_stored"
  /\ IF StillPending(b)
       THEN /\ status' = [status EXCEPT ![b] = "pending_stake"]
            /\ uploaderState' = [uploaderState EXCEPT ![b] = pass[b].state]
            /\ storageError' = [storageError EXCEPT ![b] = "none"]
            /\ \/ Go(b, "drop_spool") /\ UNCHANGED faults
               \/ CommitsMayBeLost /\ Go(b, "handle_error") /\ Fault
       ELSE /\ UNCHANGED <<status, uploaderState, storageError, faults>>
            /\ EndPass(b)
  /\ UNCHANGED <<arweaveAnchorHeight, born, verdict>>
  /\ UNCHANGED <<chainVars, worldVars, spool, processVars>>

DropSpool(b) ==
  /\ pass[b].at = "drop_spool"
  /\ BestEffort(spool' = spool \ {b}, spool' = spool)
  /\ Go(b, "register")
  /\ UNCHANGED <<chainVars, rowVars, worldVars, processVars>>

-----------------------------------------------------------------------------
(* failUpload(), and the handlers tick() hangs on a pass.                  *)

\* updateMany where the row is still pending, so that a pass which lost a race
\* fails nothing.
FailRow(b) ==
  /\ pass[b].at = "failing"
  /\ IF StillPending(b)
       THEN /\ status' = [status EXCEPT ![b] = "storage_failed"]
            /\ storageError' = [storageError EXCEPT ![b] = pass[b].why]
            /\ verdict' = [verdict EXCEPT ![b] = pass[b].why]
            /\ \/ Go(b, "drop_failed") /\ UNCHANGED faults
               \/ CommitsMayBeLost /\ Go(b, "handle_error") /\ Fault
       ELSE /\ UNCHANGED <<status, storageError, verdict, faults>>
            /\ EndPass(b)
  /\ UNCHANGED <<arweaveAnchorHeight, uploaderState, born>>
  /\ UNCHANGED <<chainVars, worldVars, spool, processVars>>

\* Bug: the ciphertext of a failed upload is forgotten.
DropFailedForgotten(b) ==
  /\ pass[b].at = "drop_failed"
  /\ EndPass(b)
  /\ UNCHANGED <<chainVars, rowVars, worldVars, spool, processVars, faults>>

DropFailed(b) ==
  /\ pass[b].at = "drop_failed"
  /\ BestEffort(spool' = spool \ {b}, spool' = spool)
  /\ EndPass(b)
  /\ UNCHANGED <<chainVars, rowVars, worldVars, processVars>>

WriteError(b, error) ==
  /\ BestEffort(storageError' = [storageError EXCEPT ![b] = error], UNCHANGED storageError)
  /\ UNCHANGED <<status, arweaveAnchorHeight, uploaderState, born, verdict>>

\* A waiting, confirming, header_reposted or push_queued pass clears the error.
ClearError(b) ==
  /\ pass[b].at = "clear_error"
  /\ WriteError(b, "none")
  /\ EndPass(b)
  /\ UNCHANGED <<chainVars, worldVars, spool, processVars>>

HandleError(b) ==
  /\ pass[b].at = "handle_error"
  /\ WriteError(b, "transient")
  /\ EndPass(b)
  /\ UNCHANGED <<chainVars, worldVars, spool, processVars>>

ThrowingPoints ==
  {"status", "tip", "last_post", "recheck", "repost", "save_repost", "spool_check",
   "save_push", "verify", "save_verify", "mark_stored", "failing"}

\* Bug: failUpload() removes the spool before the update, which may throw.
PassThrowsAfterRemove(b) ==
  /\ pass[b].at \in ThrowingPoints
  /\ spool' = IF pass[b].at = "failing" THEN spool \ {b} ELSE spool
  /\ Go(b, "handle_error")
  /\ Fault
  /\ UNCHANGED <<chainVars, rowVars, worldVars, processVars>>

\* The call a pass awaits throws: node, database or disk.  What pushChunks throws
\* is PushFails, and registerStored() has its own error handling.
PassThrows(b) ==
  /\ pass[b].at \in ThrowingPoints
  /\ Go(b, "handle_error")
  /\ Fault
  /\ UNCHANGED <<chainVars, rowVars, worldVars, spool, processVars>>

-----------------------------------------------------------------------------
(* registerStored(), called by a pass or by retryRegistrations().          *)

PassRegisters(b) ==
  /\ pass[b].at = "register"
  /\ IF registering[b] = "no"
       THEN /\ registering' = [registering EXCEPT ![b] = "call"]
            /\ Go(b, "registering")
       ELSE /\ UNCHANGED registering
            /\ EndPass(b)
  /\ UNCHANGED <<chainVars, rowVars, worldVars, spool, request, tickVars, registrationRetry, faults>>

\* registerStored() has returned to whoever awaits it.
ReturnToCaller(b) ==
  /\ registering' = [registering EXCEPT ![b] = "no"]
  /\ IF pass[b].at = "registering"
       THEN EndPass(b) /\ UNCHANGED tick
       ELSE /\ tick' = [tick EXCEPT !.at = "retry", !.todo = @ \ {b}]
            /\ UNCHANGED pass

\* The transaction of registerOnChain() is mined and did not revert.
RegisterMined(b) ==
  /\ registering[b] = "call"
  /\ b \notin onChain
  /\ onChain' = onChain \cup {b}
  /\ registering' = [registering EXCEPT ![b] = "record"]
  /\ UNCHANGED <<chainVars, rowVars, kept, spool, request, pass, tickVars,
                 registrationRetry, faults>>

\* Bug: a registration that failed once is not tried again.
RegisterGivesUp(b) ==
  /\ registering[b] = "call"
  /\ (b \in onChain /\ UNCHANGED faults) \/ Fault
  /\ registrationRetry' = [registrationRetry EXCEPT ![b] = "done"]
  /\ ReturnToCaller(b)
  /\ UNCHANGED <<chainVars, rowVars, worldVars, spool, request, snapshot>>

\* registerOnChain() fails in one of its ways: preflight() finds no signer, no right to
\* register or no gas, a call reverts, or an RPC does not answer.
RegistrationFails(b) ==
  registrationRetry' = [registrationRetry EXCEPT ![b] = "backoff"] /\ Fault

\* It finds the book on-chain already (no tx hash to record), or it fails.
RegisterReturns(b) ==
  /\ registering[b] = "call"
  /\ \/ /\ b \in onChain
        /\ registrationRetry' = [registrationRetry EXCEPT ![b] = "done"]
        /\ UNCHANGED faults
     \/ RegistrationFails(b)
  /\ ReturnToCaller(b)
  /\ UNCHANGED <<chainVars, rowVars, worldVars, spool, request, snapshot>>

\* Bug: the row is given a status the storage side does not know.
MarkRegisteredWrongly(b) ==
  /\ status' = IF status[b] = "pending_stake"
                 THEN [status EXCEPT ![b] = "registered"] ELSE status
  /\ UNCHANGED <<storageError, arweaveAnchorHeight, uploaderState, born, verdict>>

\* The guarded update to "pending".
MarkRegistered(b) ==
  /\ status' = IF status[b] = "pending_stake"
                 THEN [status EXCEPT ![b] = "pending"] ELSE status
  /\ UNCHANGED <<storageError, arweaveAnchorHeight, uploaderState, born, verdict>>

RegisterRecorded(b) ==
  /\ registering[b] = "record"
  /\ MarkRegistered(b)
  /\ registrationRetry' = [registrationRetry EXCEPT ![b] = "now"]
  /\ ReturnToCaller(b)
  /\ UNCHANGED <<chainVars, worldVars, spool, request, snapshot, faults>>

\* The update after the transaction is not inside the inner try: its error leaves
\* registerStored(), for the pass' handler or for the end of retryRegistrations().
RegisterRecordThrows(b) ==
  /\ registering[b] = "record"
  /\ Fault
  /\ registering' = [registering EXCEPT ![b] = "no"]
  /\ IF pass[b].at = "registering"
       THEN Go(b, "handle_error") /\ UNCHANGED tick
       ELSE /\ tick' = [NoTick EXCEPT !.at = "monitor_query"]
            /\ UNCHANGED pass
  /\ UNCHANGED <<chainVars, rowVars, worldVars, spool, request, snapshot, registrationRetry>>

BackoffElapses(b) ==
  /\ registrationRetry[b] = "backoff"
  /\ registrationRetry' = [registrationRetry EXCEPT ![b] = "now"]
  /\ UNCHANGED <<chainVars, rowVars, worldVars, spool, request, pass, tickVars, registering, faults>>

-----------------------------------------------------------------------------
(* tick().                                                                 *)

TakeSnapshot(S) == snapshot' = [b \in Books |-> IF b \in S THEN uploaderState[b] ELSE FreshState]

\* findMany, evaluated by the database.  Its reply reaches the loop only later.
TickQuery ==
  /\ tick.at = "idle"
  /\ LET rows == Oldest(WithStatus("pending_confirmation")) IN
       /\ tick' = [NoTick EXCEPT !.at = "dispatch", !.todo = rows]
       /\ TakeSnapshot(rows)
  /\ UNCHANGED <<chainVars, rowVars, worldVars, spool, request, pass, registrationVars, faults>>

\* The loop over the rows read: a pass for each one that has none running.
TickDispatch ==
  /\ tick.at = "dispatch"
  /\ pass' = [b \in Books |->
                IF b \in tick.todo /\ pass[b].at = "idle"
                  THEN [NoPass EXCEPT !.at = "status", !.state = snapshot[b]]
                  ELSE pass[b]]
  /\ tick' = [NoTick EXCEPT !.at = "retry_query"]
  /\ snapshot' = NoSnapshot
  /\ UNCHANGED <<chainVars, rowVars, worldVars, spool, request, registrationVars, faults>>

RetryQuery ==
  /\ tick.at = "retry_query"
  /\ tick' = [NoTick EXCEPT !.at = "retry", !.todo = Oldest(WithStatus("pending_stake"))]
  /\ UNCHANGED <<chainVars, rowVars, worldVars, spool, request, pass, snapshot,
                 registrationVars, faults>>

\* One turn of the loop in retryRegistrations(), oldest row first.
RetryNext(b) ==
  /\ tick.at = "retry"
  /\ tick.attempted < RegistrationsPerTick
  /\ b \in tick.todo /\ \A c \in tick.todo : born[b] <= born[c]
  /\ \/ /\ registrationRetry[b] # "now"
        /\ tick' = [tick EXCEPT !.todo = @ \ {b}]
        /\ UNCHANGED registering
     \/ /\ registrationRetry[b] = "now" /\ registering[b] # "no"
        /\ tick' = [tick EXCEPT !.todo = @ \ {b}, !.attempted = @ + 1]
        /\ UNCHANGED registering
     \/ /\ registrationRetry[b] = "now" /\ registering[b] = "no"
        /\ tick' = [tick EXCEPT !.at = "registering", !.attempted = @ + 1]
        /\ registering' = [registering EXCEPT ![b] = "call"]
  /\ UNCHANGED <<chainVars, rowVars, worldVars, spool, request, pass, snapshot,
                 registrationRetry, faults>>

RetryEnds ==
  /\ tick.at = "retry"
  /\ tick.todo = {} \/ tick.attempted >= RegistrationsPerTick
  /\ tick' = [NoTick EXCEPT !.at = "monitor_query"]
  /\ UNCHANGED <<chainVars, rowVars, worldVars, spool, request, pass, snapshot,
                 registrationVars, faults>>

\* Rows monitorReplication() can have due: stored, with verified holders on record.
Watched ==
  {b \in WithStatus("pending_stake") \cup WithStatus("pending") : uploaderState[b].verified # {}}

\* The clock decides which of them are due, if any.
MonitorQuery ==
  /\ tick.at = "monitor_query"
  /\ \E due \in SUBSET Watched :
       /\ Cardinality(due) <= ReplicationPerPass
       /\ tick' = IF due = {} THEN NoTick ELSE [NoTick EXCEPT !.at = "monitor", !.todo = due]
       /\ TakeSnapshot(due)
  /\ UNCHANGED <<chainVars, rowVars, worldVars, spool, request, pass, registrationVars, faults>>

\* One row re-verified: its whole state is written back as it was read.
MonitorRow(b) ==
  /\ tick.at = "monitor"
  /\ b \in tick.todo
  /\ uploaderState' = [uploaderState EXCEPT ![b] = snapshot[b]]
  /\ IF tick.todo = {b}
       THEN tick' = NoTick /\ snapshot' = NoSnapshot
       ELSE tick' = [tick EXCEPT !.todo = @ \ {b}] /\ UNCHANGED snapshot
  /\ UNCHANGED <<status, storageError, arweaveAnchorHeight, born, verdict>>
  /\ UNCHANGED <<chainVars, worldVars, spool, request, pass, registrationVars, faults>>

\* A query or a save of the tick throws: the part it belongs to ends.
TickThrows ==
  /\ tick.at \in {"dispatch", "retry_query", "monitor_query", "monitor"}
  /\ tick' = IF tick.at = "retry_query" THEN [NoTick EXCEPT !.at = "monitor_query"] ELSE NoTick
  /\ snapshot' = NoSnapshot
  /\ Fault
  /\ UNCHANGED <<chainVars, rowVars, worldVars, spool, request, pass, registrationVars>>

-----------------------------------------------------------------------------
(* The others: POST /register, the event listener, the network, crashes.   *)

\* Bug: only a failed upload is refused, not one that is still being stored.
ApiRegistersEarly(b) ==
  /\ status[b] \notin {"absent", "storage_failed"}
  /\ onChain' = onChain \cup {b}
  /\ UNCHANGED <<chainVars, rowVars, kept, spool, request, pass, tickVars, registrationVars, faults>>

\* retryRegistration(): 409 while the bytes are not stored.
ApiRegisters(b) ==
  /\ status[b] \notin {"absent", "pending_confirmation", "storage_failed"}
  /\ onChain' = onChain \cup {b}
  /\ UNCHANGED <<chainVars, rowVars, kept, spool, request, pass, tickVars, registrationVars, faults>>

\* The guarded update of POST /register after its transaction, or of the event
\* listener when it meets UploadRegistered.
RegistrationSeen(b) ==
  /\ b \in onChain
  /\ status[b] = "pending_stake"
  /\ MarkRegistered(b)
  /\ UNCHANGED <<chainVars, worldVars, spool, request, pass, tickVars, registrationVars, faults>>

ChainMoves ==
  /\ NextBlock
  /\ UNCHANGED <<rowVars, worldVars, spool, request, pass, tickVars, registrationVars, faults>>

\* The process dies and starts again: the rows, the spool and the chain remain.
Crash ==
  /\ Fault
  /\ request' = [b \in Books |-> IF request[b] \in {"none", "rejected"} THEN request[b] ELSE "done"]
  /\ pass' = [b \in Books |-> NoPass]
  /\ tick' = NoTick
  /\ snapshot' = NoSnapshot
  /\ registering' = [b \in Books |-> "no"]
  /\ registrationRetry' = [b \in Books |-> "now"]
  /\ UNCHANGED <<chainVars, rowVars, worldVars, spool>>

-----------------------------------------------------------------------------
(* The specification.                                                      *)

RequestStep(b) ==
  \/ WriteSpool(b) \/ CreateRow(b) \/ CreateReplyLost(b) \/ CreateRowFails(b) \/ FirstPost(b)

HeaderStep(b) ==
  \/ ReadStatus(b) \/ ReadTip(b) \/ LastPost(b) \/ Recheck(b)
  \/ Repost(b) \/ SaveRepost(b)

DataStep(b) ==
  \/ SpoolCheck(b) \/ PushNode(b) \/ PushDone(b) \/ PushFails(b) \/ SavePush(b)
  \/ Verify(b) \/ SaveVerify(b) \/ MarkStored(b) \/ DropSpool(b)

OutcomeStep(b) == FailRow(b) \/ DropFailed(b) \/ ClearError(b) \/ HandleError(b)

PassStep(b) == HeaderStep(b) \/ DataStep(b) \/ OutcomeStep(b) \/ PassRegisters(b)

RegistrationStep(b) ==
  RegisterMined(b) \/ RegisterReturns(b) \/ RegisterRecorded(b) \/ RegisterRecordThrows(b)

TickStep ==
  \/ TickQuery \/ TickDispatch \/ RetryQuery \/ RetryEnds \/ MonitorQuery \/ TickThrows
  \/ \E b \in Books : RetryNext(b) \/ MonitorRow(b)

OutsideStep(b) == ApiRegisters(b) \/ RegistrationSeen(b) \/ BackoffElapses(b)

Next ==
  \/ \E b \in Books : \/ RequestStep(b) \/ PassStep(b) \/ PassThrows(b)
                      \/ RegistrationStep(b) \/ OutsideStep(b)
  \/ TickStep \/ ChainMoves \/ Crash

Spec == Init /\ [][Next]_vars

CreateReturns(b) == CreateRow(b) \/ (CreateRowFails(b) /\ request[b] = "unanswered")

\* The event loop runs what is ready, timers fire, blocks keep coming and the
\* listener catches up.  Nobody has to upload or to call POST /register.
Progress ==
  /\ WF_vars(ChainMoves) /\ WF_vars(TickStep)
  /\ \A b \in Books : /\ WF_vars(CreateReturns(b) \/ FirstPost(b) \/ PassStep(b))
                      /\ WF_vars(RegistrationSeen(b) \/ BackoffElapses(b))

\* ... and a registration transaction that was sent is answered.
FairSpec == Spec /\ Progress /\ \A b \in Books : WF_vars(RegistrationStep(b))

\* ... or it may wait forever: tx.wait(1) is given no timeout.
FairSpecWithoutReceipts == Spec /\ Progress

-----------------------------------------------------------------------------
(* The promise, and what it comes down to.                                 *)

Stored(b) == status[b] \in {"pending_stake", "pending"}

Fate == [b \in Books |-> IF Settled(b) THEN "settled" ELSE IF Dead(b) THEN "dead" ELSE "open"]

\* What was read back at least before a book was stored: without the spool, which goes
\* when create() reports an error about a row that is there, only the ends.
ReadAtLeast(b) == IF request[b] = "rejected" THEN Ends ELSE Sample

Holders == [b \in Books |-> Serving(b, ReadAtLeast(b))]

Lifecycle ==
  INSTANCE BookLifecycle WITH
    fate <- Fate, holders <- Holders, HolderSets <- {S \in SUBSET Nodes : HasEnough(S)}

\* The worker, with its stale reads, overlapping passes, lost replies and crashes,
\* takes no step that the lifecycle of a book (module BookLifecycle) does not
\* allow: in particular it never takes a decision back, although every update
\* is made on a row read some awaits earlier.
ImplementsLifecycle == Lifecycle!Spec

\* A book dropped as header_not_mined is in no block and can get into none, so
\* nothing is paid for it and the archivist may upload it again: one lagging
\* answer or a replaced block never costs a live upload (DROP_MARGIN, the re-check).
DroppedNeverMined ==
  \A b \in Books : verdict[b] = "header_not_mined" => Dead(b)

\* The block of a stored book cannot be replaced any more, although its
\* confirmations were counted at the start of a pass that may take an hour.
StoredIsSettled == \A b \in Books : Stored(b) => Settled(b)

\* ARWEAVE_MIN_HOLDERS nodes keep every chunk of a stored book that verifyHolders()
\* samples: answering 200 to every chunk is not enough, and holders counted by a
\* stale pass do not count.  That is the whole book if it has at most VERIFY_SAMPLE
\* chunks; of a larger one a node may keep no more than the sample, and of a row
\* whose create() reported an error no more than the first and the last chunk.
StoredOnEnoughNodes == \A b \in Books : Stored(b) => HasEnough(Serving(b, ReadAtLeast(b)))

\* While a book still has to be stored, its ciphertext is on the disk, whichever
\* pass, crash or failed call comes in between: it cannot be made again, the key
\* was zeroed.  The one exception is a row that create() committed and then reported
\* an error about: the request removes the file of a row it does not know of.
SpoolOutlivesPending ==
  \A b \in Books : status[b] = "pending_confirmation" => b \in spool \/ request[b] = "rejected"

\* Nobody can stake on a book before its bytes are stored: neither a pass that was
\* overtaken, nor a retry, nor POST /register puts an unstored book on-chain.
RegisteredOnlyIfStored == \A b \in Books : b \in onChain => Stored(b)

\* A stored book keeps its verified holders on record, which is all that
\* monitorReplication() watches ("it keeps watching replication for a while").
StoredKeepsItsHolders ==
  \A b \in Books : Stored(b) => HasEnough(uploaderState[b].verified)

\* No failed upload has been mined and thereby paid: what the daily budget and the
\* quota assume when they leave storage_failed rows out.
FailedIsNeverPaid == \A b \in Books : status[b] = "storage_failed" => minedAt[b] = 0

\* No storage error is on record for a book that is fully stored (registerStored()
\* "must not reach tick()'s error handler").
StoredHasNoError == \A b \in Books : Stored(b) => storageError[b] = "none"

-----------------------------------------------------------------------------
(* What must happen in the end.                                            *)

\* A pass has found no further node that answers 200 to chunk 0.
NoNodeAnswers(b) == pass[b].at = "save_push" /\ pass[b].why = "none"

\* An upload does not stay pending_confirmation forever, even if nodes go on
\* accepting its header after the deadline: it is stored or failed, unless its
\* passes keep finding no node that takes the book.  (The code never gives up on a
\* mined book then; as the formula asks again from every later moment, an upload
\* that never ends has such passes again and again.)
EveryUploadEnds ==
  \A b \in Books :
    status[b] = "pending_confirmation"
      ~> (status[b] # "pending_confirmation" \/ NoNodeAnswers(b))

\* A stored book gets registered, whatever failed at first: backoff and retries,
\* the listener for a transaction whose hash was lost, a restart.
EveryStoredBookIsRegistered ==
  \A b \in Books : status[b] = "pending_stake" ~> status[b] = "pending"

\* Every pending row gets a pass.
EveryRowGetsAPass ==
  \A b \in Books :
    status[b] = "pending_confirmation"
      ~> (pass[b].at # "idle" \/ status[b] # "pending_confirmation")

\* The ciphertext of a book that is stored or failed leaves the disk, unless something
\* fails: the removal is tried once, by a pass nobody repeats.
EndedUploadsLeaveNoSpool ==
  \A b \in Books :
    (Stored(b) \/ status[b] = "storage_failed") ~> (b \notin spool \/ faults > 0)
=============================================================================
