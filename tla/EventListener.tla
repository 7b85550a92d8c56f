---------------------------- MODULE EventListener ----------------------------
(***************************************************************************)
(* services/eventListener.service.js: the poll loop that copies the events *)
(* of the Alexandria contracts into Postgres and moves the rows of books   *)
(* after them.                                                             *)
(*                                                                         *)
(* The chain is external.  Its last MaxReorg blocks, and the tip, may      *)
(* still change; a provider that answers may be MaxLag blocks behind, and  *)
(* two calls of one pass may be answered by different providers (the code  *)
(* asks for a quorum of 1).                                                *)
(*                                                                         *)
(* A failed pass and a restart look the same from outside: the memory of   *)
(* the pass is gone, what it has written remains.  Left out: events that   *)
(* move no column of Upload, for they are of no status (Unstaked among     *)
(* them) or of books that have no row, and only fill the table Event;      *)
(* timestamps.                                                             *)
(***************************************************************************)
EXTENDS Integers, FiniteSets

CONSTANTS
  Books,          \* books whose bytes are stored; each has a row
  Confirmations,  \* CHAIN_CONFIRMATIONS
  MaxChunk,       \* CHAIN_LOG_CHUNK, blocks asked for at once
  MinChunk,       \* MIN_CHUNK
  MaxReorg,       \* blocks below the tip the chain may still replace
  MaxLag,         \* blocks a provider that answers may be behind
  NewStatus,      \* statuses UploadStatusChanged may carry
  Prices,         \* prices BookPriceSet may carry
  LogIndexes,     \* positions of events in a block
  MaxHeight, MaxEvents, MaxFaults  \* bounds

ASSUME ListenerAssumption ==
  /\ Confirmations \in Nat /\ MaxReorg \in Nat /\ MaxLag \in Nat
  /\ MinChunk \in Nat \ {0} /\ MaxChunk \in Nat \ {0}
  /\ NewStatus \subseteq {"pending", "challenged", "approved", "rejected"}
  /\ LogIndexes \subseteq Nat
  /\ MaxHeight \in Nat /\ MaxEvents \in Nat /\ MaxFaults \in Nat

\* CHAIN_CONFIRMATIONS must cover what the chain replaces and what providers lag.
ASSUME ConfirmationsAssumption == MaxReorg < Confirmations /\ MaxLag <= Confirmations

VARIABLES
  height, log,     \* the chain: its height, the events in its blocks
  upload,          \* table Upload: the columns events move
  event,           \* table Event
  lastProcessed,   \* table SyncState, 0 before the first commit
  sync,            \* the locals of syncRange(), persist() and tick()
  receipts,        \* books somebody was given the receipt of a registration of
  faults

chainVars == <<height, log>>

vars == <<chainVars, upload, event, lastProcessed, sync, receipts, faults>>

-----------------------------------------------------------------------------
(* Events and columns.                                                     *)

Columns == {"status", "stakedAt", "pricePerDay", "delisted"}

\* The column of the row an event moves, and the values it may give it.
ColumnOf(name) ==
  CASE name \in {"UploadRegistered", "UploadStatusChanged"} -> "status"
    [] name = "Staked" -> "stakedAt"
    [] name = "BookPriceSet" -> "pricePerDay"
    [] name = "BookDelisted" -> "delisted"

Names == {"UploadRegistered", "UploadStatusChanged", "Staked", "BookPriceSet", "BookDelisted"}

ValuesOf(name) ==
  CASE name = "UploadRegistered" -> {"pending"}
    [] name = "UploadStatusChanged" -> NewStatus
    [] name = "BookPriceSet" -> Prices
    [] name \in {"Staked", "BookDelisted"} -> {"yes"}

Values == UNION {ValuesOf(n) : n \in Names}

Event ==
  {e \in [block : Nat, index : LogIndexes, book : Books, name : Names, value : Values] :
     e.block > 0 /\ e.value \in ValuesOf(e.name)}

\* The row of a stored book nothing has happened to on the chain.
Unset == [c \in Columns |-> IF c = "status" THEN "pending_stake" ELSE "unset"]

Before(e, f) == e.block < f.block \/ (e.block = f.block /\ e.index < f.index)

Of(S, b, c) == {e \in S : e.book = b /\ ColumnOf(e.name) = c}

UpTo(S, k) == {e \in S : e.block <= k}

\* What the contracts ensure: a book is registered once, and first.
LogOK(S) ==
  /\ \A e, f \in S : e # f => Before(e, f) \/ Before(f, e)
  /\ \A e, f \in S :
       e.book = f.book /\ f.name = "UploadRegistered" => e = f \/ Before(f, e)
  /\ \A e \in S : \E f \in S : f.book = e.book /\ f.name = "UploadRegistered"

-----------------------------------------------------------------------------
(* Types.                                                                  *)

NoSync == [at |-> "idle", from |-> 0, safeHead |-> 0, chunk |-> MaxChunk, end |-> 0, batch |-> {}]

Sync ==
  [at : {"idle", "fetch", "record", "status", "catalogue", "commit"},
   from : Nat, safeHead : Nat, chunk : Nat \ {0}, end : Nat, batch : SUBSET Event]

\* Every variable keeps a value of its kind, and the log is one the contracts allow.
TypeOK ==
  /\ height \in Nat
  /\ log \in SUBSET Event /\ LogOK(log) /\ \A e \in log : e.block <= height
  /\ upload \in [Books -> [Columns -> Values \cup {"pending_stake", "unset"}]]
  /\ event \in SUBSET Event
  /\ lastProcessed \in Nat
  /\ sync \in Sync
  /\ receipts \subseteq Books
  /\ faults \in Nat

Init ==
  /\ height = 1
  /\ log = {}
  /\ upload = [b \in Books |-> Unset]
  /\ event = {}
  /\ lastProcessed = 0
  /\ sync = NoSync
  /\ receipts = {}
  /\ faults = 0

Fault == faults < MaxFaults /\ faults' = faults + 1

-----------------------------------------------------------------------------
(* The chain and its providers.                                            *)

\* Heights a provider that answers now may be at.
View == {v \in 0..height : v + MaxLag >= height}

NewBlock ==
  /\ height < MaxHeight
  /\ height' = height + 1
  /\ UNCHANGED <<log, upload, event, lastProcessed, sync, receipts, faults>>

\* Blocks whose content may still change.
Soft == {k \in 1..height : k + MaxReorg >= height}

Emit(e) ==
  /\ e.block \in Soft
  /\ Cardinality(log) < MaxEvents
  /\ LogOK(log \cup {e})
  /\ log' = log \cup {e}
  /\ UNCHANGED <<height, upload, event, lastProcessed, sync, receipts, faults>>

\* The last blocks, from k on, are replaced by others, empty ones at first.
Replace(k) ==
  /\ k \in Soft
  /\ log' = UpTo(log, k - 1)
  /\ log' # log
  /\ UNCHANGED <<height, upload, event, lastProcessed, sync, receipts, faults>>

-----------------------------------------------------------------------------
(* tick(), syncToHead(): how far to go.                                    *)

\* Bug: the head is taken for safe.
SafeHeadAtOnce(v) == v

SafeHead(v) == v - Confirmations

\* From the cursor to the head a provider tells, less the confirmations; nothing to
\* do if that is no block.
SyncToHead ==
  /\ sync.at = "idle"
  /\ \E v \in View :
       sync' = IF lastProcessed < SafeHead(v)
                 THEN [NoSync EXCEPT !.at = "fetch", !.from = lastProcessed + 1,
                                     !.safeHead = SafeHead(v)]
                 ELSE sync
  /\ UNCHANGED <<chainVars, upload, event, lastProcessed, receipts, faults>>

\* Bug: the pass that failed keeps `running`, and no other starts.
SyncFailsForGood ==
  /\ sync.at # "idle"
  /\ Fault
  /\ sync' = [NoSync EXCEPT !.at = "dead"]
  /\ UNCHANGED <<chainVars, upload, event, lastProcessed, receipts>>

\* A call of the pass throws, or the process restarts.
SyncFails ==
  /\ sync.at # "idle"
  /\ Fault
  /\ sync' = NoSync
  /\ UNCHANGED <<chainVars, upload, event, lastProcessed, receipts>>

-----------------------------------------------------------------------------
(* syncRange(): chunk by chunk.                                            *)

\* Math.min(cursor + chunk - 1, toBlock)
ChunkEnd ==
  IF sync.from + sync.chunk - 1 <= sync.safeHead
    THEN sync.from + sync.chunk - 1 ELSE sync.safeHead

\* getLogs, answered by a provider that may not have all of the range yet.
FetchLogs ==
  /\ sync.at = "fetch"
  /\ \E v \in View :
       LET logs == {e \in log : sync.from <= e.block /\ e.block <= ChunkEnd /\ e.block <= v}
       IN  sync' = [sync EXCEPT !.end = ChunkEnd, !.batch = logs,
                                !.at = IF logs = {} THEN "commit" ELSE "record"]
  /\ UNCHANGED <<chainVars, upload, event, lastProcessed, receipts, faults>>

\* getLogs fails: a smaller chunk is tried, as long as there is one.
HalveChunk ==
  /\ sync.at = "fetch"
  /\ sync.chunk > MinChunk
  /\ Fault
  /\ sync' = [sync EXCEPT !.chunk = IF @ \div 2 > MinChunk THEN @ \div 2 ELSE MinChunk]
  /\ UNCHANGED <<chainVars, upload, event, lastProcessed, receipts>>

\* Bug: the cursor jumps to the end of the range with the first chunk.
CommittedRange == sync.safeHead

\* What writeCursor() is given after a chunk.
CommittedChunk == sync.end

CommitCursor ==
  /\ sync.at = "commit"
  /\ lastProcessed' = CommittedChunk
  /\ sync' = IF CommittedChunk >= sync.safeHead THEN NoSync
             ELSE [sync EXCEPT !.at = "fetch", !.from = CommittedChunk + 1, !.end = 0]
  /\ UNCHANGED <<chainVars, upload, event, receipts, faults>>

-----------------------------------------------------------------------------
(* persist(): one event of the chunk after the other, oldest first.        *)

\* Bug: the events are taken newest first.
Newest == CHOOSE e \in sync.batch : \A f \in sync.batch : f = e \/ Before(f, e)

Current == CHOOSE e \in sync.batch : \A f \in sync.batch : f = e \/ Before(e, f)

RecordEvent ==
  /\ sync.at = "record"
  /\ event' = event \cup {Current}
  /\ sync' = [sync EXCEPT !.at = "status"]
  /\ UNCHANGED <<chainVars, upload, lastProcessed, receipts, faults>>

Set(b, c, v) == upload' = [upload EXCEPT ![b][c] = v]

ApplyStatus ==
  /\ sync.at = "status"
  /\ LET e == Current IN
       IF \/ e.name = "UploadRegistered" /\ upload[e.book]["status"] = "pending_stake"
          \/ e.name = "UploadStatusChanged"
         THEN Set(e.book, "status", e.value)
         ELSE UNCHANGED upload
  /\ sync' = [sync EXCEPT !.at = "catalogue"]
  /\ UNCHANGED <<chainVars, event, lastProcessed, receipts, faults>>

\* What may be known of the time of a stake: a Staked event without the time of its
\* block is looked up in the contract, at a provider that may know of no stake.
StakeKnown(b) ==
  {TRUE} \cup {\E f \in UpTo(log, v) : f.book = b /\ f.name = "Staked" : v \in View}

ApplyCatalogue ==
  /\ sync.at = "catalogue"
  /\ \E known \in StakeKnown(Current.book) :
       LET e == Current IN
       IF ColumnOf(e.name) # "status" /\ (e.name = "Staked" => known)
         THEN Set(e.book, ColumnOf(e.name), e.value)
         ELSE UNCHANGED upload
  /\ sync' = [sync EXCEPT !.batch = @ \ {Current},
                          !.at = IF sync.batch = {Current} THEN "commit" ELSE "record"]
  /\ UNCHANGED <<chainVars, event, lastProcessed, receipts, faults>>

-----------------------------------------------------------------------------
(* The other writer of a row: registerStored() and POST /register, when    *)
(* the transaction they sent is mined.  They wait for one block, which the *)
(* chain may yet replace.                                                  *)

ReceiptComes(b) ==
  /\ \E e \in log : e.book = b /\ e.name = "UploadRegistered"
  /\ receipts' = receipts \cup {b}
  /\ UNCHANGED <<chainVars, upload, event, lastProcessed, sync, faults>>

RecordRegistration(b) ==
  /\ b \in receipts
  /\ upload[b]["status"] = "pending_stake"
  /\ Set(b, "status", "pending")
  /\ UNCHANGED <<chainVars, event, lastProcessed, sync, receipts, faults>>

-----------------------------------------------------------------------------
(* The specification.                                                      *)

ChainStep ==
  \/ NewBlock
  \/ \E k \in Soft : Replace(k)
  \/ \E k \in Soft, i \in LogIndexes, b \in Books, n \in Names : \E v \in ValuesOf(n) :
       Emit([block |-> k, index |-> i, book |-> b, name |-> n, value |-> v])

ListenerStep ==
  \/ SyncToHead \/ FetchLogs \/ RecordEvent \/ ApplyStatus \/ ApplyCatalogue \/ CommitCursor

Next ==
  \/ ChainStep \/ ListenerStep \/ HalveChunk \/ SyncFails
  \/ \E b \in Books : ReceiptComes(b) \/ RecordRegistration(b)

Spec == Init /\ [][Next]_vars

\* The poll timer fires and calls return; the chain need not do anything.
FairSpec == Spec /\ WF_vars(ListenerStep)

-----------------------------------------------------------------------------
(* Properties.                                                             *)

\* The cursor passes no event by: what lies at or below it is in the table, although
\* passes fail half way, chunks shrink and providers lag.  Nothing below the cursor
\* is ever looked at again.
NothingMissed == UpTo(log, lastProcessed) \subseteq event

\* No event of a block that was replaced gets into the table.
NothingInvented == event \subseteq log

\* e gave column c of b the value it shows, and no event the cursor has passed came
\* after it.
Shows(e, b, c) ==
  /\ upload[b][c] = e.value
  /\ \A f \in Of(UpTo(log, lastProcessed), b, c) : f = e \/ Before(f, e)

\* Nothing has moved column c of b yet, or only the one who registered the book.
Untouched(b, c) ==
  /\ \/ upload[b][c] = Unset[c]
     \/ c = "status" /\ upload[b][c] = "pending"
  /\ Of(UpTo(log, lastProcessed), b, c) = {}

\* A row shows what the contracts say at the cursor or said later, never a state they
\* had left before it and never one they were not in: whatever was replayed, and
\* whoever else moved the row.
RowsFollowChain ==
  \A b \in Books, c \in Columns : Untouched(b, c) \/ \E e \in Of(log, b, c) : Shows(e, b, c)

\* The listener catches up, however many passes failed: the cursor gets to every
\* block that every provider shows deep enough.
CatchesUp ==
  \A k \in 1..MaxHeight : (k + MaxLag + Confirmations <= height) ~> (k <= lastProcessed)
=============================================================================
