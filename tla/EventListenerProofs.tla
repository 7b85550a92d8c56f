------------------------ MODULE EventListenerProofs ------------------------
(***************************************************************************)
(* Proofs about EventListener, for any books, prices and statuses, chunks  *)
(* of any size and any number of failed passes:                            *)
(*                                                                         *)
(*   1. types, and the order of the events of a chunk;                     *)
(*   2. what a pass knows of the range it is working on (RangeInv) and     *)
(*      what a row shows of the events a pass is done with (ColumnInv);    *)
(*   3. no event is missed or invented, and rows follow the chain.         *)
(*                                                                         *)
(* The argument turns on depth: a pass only looks at blocks Confirmations  *)
(* below a head somebody told it.  If the chain cannot replace those and   *)
(* no provider is that far behind, what it reads is complete and final.    *)
(***************************************************************************)
EXTENDS EventListener, WellFoundedInduction, TLAPS

-----------------------------------------------------------------------------
(* 1. Types and order.                                                     *)

\* What an event is made of.
LEMMA EventFields ==
  ASSUME NEW e \in Event
  PROVE  /\ e.block \in Nat /\ e.block > 0 /\ e.index \in Nat /\ e.book \in Books
         /\ e.name \in Names /\ e.value \in Values /\ e.value \in ValuesOf(e.name)
  BY ListenerAssumption DEF Event

\* Every event has a column.
LEMMA ColumnType == \A n \in Names : ColumnOf(n) \in Columns
  BY DEF ColumnOf, Columns, Names

\* A registration sets the status to pending.
LEMMA RegistrationValue ==
  ASSUME NEW e \in Event, e.name = "UploadRegistered"
  PROVE  e.value = "pending" /\ ColumnOf(e.name) = "status"
  BY EventFields DEF ValuesOf, ColumnOf

\* A set of numbers that is not empty has a least one.
LEMMA Least ==
  ASSUME NEW T, T \subseteq Nat, T # {}
  PROVE  \E m \in T : \A n \in T : m <= n
<1>1. PICK m \in T : \A n \in T : ~ (<<n, m>> \in OpToRel(<, Nat))
  BY WFMin, NatLessThanWellFounded
<1>2. \A n \in T : m <= n
  <2>1. SUFFICES ASSUME NEW n \in T, n < m PROVE FALSE
    OBVIOUS
  <2>2. <<n, m>> \in OpToRel(<, Nat)
    BY <2>1 DEF OpToRel
  <2> QED BY <1>1, <2>2
<1> QED BY <1>2

\* The event a pass works on is one of its batch, and the oldest.
LEMMA CurrentIsOldest ==
  ASSUME TypeOK, sync.batch \subseteq log, sync.batch # {}
  PROVE  /\ Current \in sync.batch
         /\ \A f \in sync.batch : f = Current \/ Before(Current, f)
<1>1. sync.batch \subseteq Event /\ LogOK(log)
  BY DEF TypeOK
<1> DEFINE Blocks == {e.block : e \in sync.batch}
<1>2. PICK m \in Blocks : \A n \in Blocks : m <= n
  <2>1. Blocks \subseteq Nat /\ Blocks # {}
    BY <1>1, EventFields
  <2> QED BY <2>1, Least
<1> DEFINE Places == {e.index : e \in {f \in sync.batch : f.block = m}}
<1>3. PICK i \in Places : \A j \in Places : i <= j
  <2>1. Places \subseteq Nat /\ Places # {}
    BY <1>1, <1>2, EventFields
  <2> QED BY <2>1, Least
<1>4. PICK e \in sync.batch : e.block = m /\ e.index = i
  BY <1>3
<1>5. ASSUME NEW f \in sync.batch PROVE f = e \/ Before(e, f)
  <2>1. e \in log /\ f \in log /\ e \in Event /\ f \in Event
    BY <1>1
  <2>2. f = e \/ Before(e, f) \/ Before(f, e)
    BY <1>1, <2>1 DEF LogOK
  <2>3. e.block <= f.block
    BY <1>2, <1>4
  <2>4. e.block = f.block => e.index <= f.index
    BY <1>3, <1>4
  <2>5. ~ Before(f, e)
    BY <2>1, <2>3, <2>4, EventFields DEF Before
  <2> QED BY <2>2, <2>5
<1> QED BY <1>5 DEF Current

\* The registered row starts well typed.
LEMMA UnsetType == Unset \in [Columns -> Values \cup {"pending_stake", "unset"}]
  BY DEF Unset, Columns

\* Setting a column to a value of its kind keeps the rows well typed.
LEMMA SetType ==
  ASSUME TypeOK, NEW b \in Books, NEW c \in Columns, NEW v \in Values, Set(b, c, v)
  PROVE  upload' \in [Books -> [Columns -> Values \cup {"pending_stake", "unset"}]]
  BY DEF TypeOK, Set

\* The locals of a pass keep their types in every update it makes.
LEMMA SyncUpdate ==
  ASSUME NEW s \in Sync, NEW x \in {"fetch", "record", "status", "catalogue", "commit"},
         NEW i \in Nat, NEW j \in Nat, NEW S \in SUBSET Event
  PROVE  /\ NoSync \in Sync
         /\ [NoSync EXCEPT !.at = x, !.from = i, !.safeHead = j] \in Sync
         /\ [s EXCEPT !.end = i, !.batch = S, !.at = x] \in Sync
         /\ i # 0 => [s EXCEPT !.chunk = i] \in Sync
         /\ [s EXCEPT !.at = x, !.from = i, !.end = 0] \in Sync
         /\ [s EXCEPT !.at = x] \in Sync
         /\ [s EXCEPT !.batch = S, !.at = x] \in Sync
  BY ListenerAssumption DEF Sync, NoSync

\* The chain stays one the contracts allow.
LEMMA ChainType ==
  ASSUME TypeOK, ChainStep
  PROVE  /\ height' \in Nat /\ log' \in SUBSET Event /\ LogOK(log')
         /\ \A e \in log' : e.block <= height'
<1> USE DEF TypeOK
<1>1. CASE NewBlock
  BY <1>1, EventFields DEF NewBlock
<1>2. ASSUME NEW k \in Soft, Replace(k)
      PROVE  /\ log' \subseteq log /\ height' = height
             /\ LogOK(log')
  <2>1. log' = {e \in log : e.block <= k - 1} /\ height' = height
    BY <1>2 DEF Replace, UpTo
  <2>2. ASSUME NEW e \in log' PROVE \E f \in log' : f.book = e.book /\ f.name = "UploadRegistered"
    <3>1. PICK f \in log : f.book = e.book /\ f.name = "UploadRegistered"
      BY <2>1 DEF LogOK
    <3>2. e = f \/ Before(f, e)
      BY <2>1, <3>1 DEF LogOK
    <3>3. f.block <= e.block
      BY <2>1, <3>2, EventFields DEF Before
    <3>4. f.block <= k - 1
      BY <1>2, <2>1, <3>3, EventFields DEF Soft
    <3> QED BY <2>1, <3>1, <3>4
  <2>3. \A e, f \in log' : /\ e # f => Before(e, f) \/ Before(f, e)
                           /\ e.book = f.book /\ f.name = "UploadRegistered" => e = f \/ Before(f, e)
    BY <2>1 DEF LogOK
  <2> QED BY <2>1, <2>2, <2>3 DEF LogOK
<1>3. ASSUME NEW k \in Soft, NEW i \in LogIndexes, NEW b \in Books, NEW n \in Names,
             NEW v \in ValuesOf(n),
             Emit([block |-> k, index |-> i, book |-> b, name |-> n, value |-> v])
      PROVE  /\ height' = height /\ LogOK(log')
             /\ log' \in SUBSET Event /\ \A e \in log' : e.block <= height'
  <2> DEFINE x == [block |-> k, index |-> i, book |-> b, name |-> n, value |-> v]
  <2>1. height' = height /\ log' = log \cup {x} /\ LogOK(log')
    BY <1>3 DEF Emit
  <2>2. x \in Event /\ x.block <= height
    BY DEF Event, Values, Soft
  <2> QED BY <2>1, <2>2
<1> QED BY <1>1, <1>2, <1>3 DEF ChainStep

\* The steps of the listener keep the types of the pass, the rows and the cursor.
LEMMA ListenerType ==
  ASSUME TypeOK, ListenerStep, sync.at \in {"record", "status", "catalogue"} => Current \in sync.batch
  PROVE  TypeOK'
<1>0. /\ sync \in Sync /\ event \subseteq Event /\ lastProcessed \in Nat /\ height \in Nat
      /\ log \subseteq Event
      /\ sync.from \in Nat /\ sync.safeHead \in Nat /\ sync.end \in Nat
      /\ sync.chunk \in Nat /\ sync.chunk > 0
      /\ sync.batch \subseteq Event
  BY DEF TypeOK, Sync
<1>1. CASE SyncToHead
  <2>1. PICK v \in View :
          sync' = IF lastProcessed < SafeHead(v)
                    THEN [NoSync EXCEPT !.at = "fetch", !.from = lastProcessed + 1,
                                        !.safeHead = SafeHead(v)]
                    ELSE sync
    BY <1>1 DEF SyncToHead
  <2>2. lastProcessed < SafeHead(v) => SafeHead(v) \in Nat
    BY <1>0, ListenerAssumption DEF SafeHead, View
  <2>3. CASE lastProcessed < SafeHead(v)
    <3>1. SafeHead(v) \in Nat /\ lastProcessed + 1 \in Nat
      BY <1>0, <2>2, <2>3
    <3>2. sync' \in Sync
      BY <2>1, <2>3, <3>1, <1>0, SyncUpdate
    <3> QED BY <1>1, <3>2 DEF SyncToHead, chainVars, TypeOK
  <2>4. CASE ~ (lastProcessed < SafeHead(v))
    BY <1>1, <2>1, <2>4 DEF SyncToHead, chainVars, TypeOK
  <2> QED BY <2>3, <2>4
<1>2. CASE FetchLogs
  <2>1. ChunkEnd \in Nat
    BY <1>0 DEF ChunkEnd
  <2>2. PICK v \in View :
          LET logs == {e \in log : sync.from <= e.block /\ e.block <= ChunkEnd /\ e.block <= v}
          IN  sync' = [sync EXCEPT !.end = ChunkEnd, !.batch = logs,
                                   !.at = IF logs = {} THEN "commit" ELSE "record"]
    BY <1>2 DEF FetchLogs
  <2> DEFINE logs == {e \in log : sync.from <= e.block /\ e.block <= ChunkEnd /\ e.block <= v}
             x == IF logs = {} THEN "commit" ELSE "record"
  <2>3. logs \in SUBSET Event /\ x \in {"fetch", "record", "status", "catalogue", "commit"}
    BY <1>0
  <2>4. sync' = [sync EXCEPT !.end = ChunkEnd, !.batch = logs, !.at = x]
    BY <2>2
  <2> HIDE DEF logs, x
  <2>5. sync' \in Sync
    BY <1>0, <2>1, <2>3, <2>4, SyncUpdate
  <2> QED BY <1>2, <2>5 DEF FetchLogs, chainVars, TypeOK
<1>3. CASE RecordEvent
  <2>1. Current \in Event
    BY <1>0, <1>3 DEF RecordEvent
  <2>2. sync' \in Sync
    BY <1>0, <1>3, SyncUpdate DEF RecordEvent
  <2> QED BY <1>3, <2>1, <2>2 DEF RecordEvent, chainVars, TypeOK
<1>4. CASE ApplyStatus
  <2>1. Current \in Event
    BY <1>0, <1>4 DEF ApplyStatus
  <2>2. sync' \in Sync
    BY <1>0, <1>4, SyncUpdate DEF ApplyStatus
  <2>3. upload' \in [Books -> [Columns -> Values \cup {"pending_stake", "unset"}]]
    <3>1. UNCHANGED upload \/ Set(Current.book, "status", Current.value)
      BY <1>4 DEF ApplyStatus
    <3>2. Current.book \in Books /\ Current.value \in Values /\ "status" \in Columns
      BY <2>1, EventFields DEF Columns
    <3> QED BY <3>1, <3>2, SetType DEF TypeOK
  <2> QED BY <1>4, <2>2, <2>3 DEF ApplyStatus, chainVars, TypeOK
<1>5. CASE ApplyCatalogue
  <2>1. Current \in Event
    BY <1>0, <1>5 DEF ApplyCatalogue
  <2>2. sync' \in Sync
    BY <1>0, <1>5, SyncUpdate DEF ApplyCatalogue
  <2>3. upload' \in [Books -> [Columns -> Values \cup {"pending_stake", "unset"}]]
    <3>1. UNCHANGED upload \/ Set(Current.book, ColumnOf(Current.name), Current.value)
      BY <1>5 DEF ApplyCatalogue
    <3>2. Current.book \in Books /\ Current.value \in Values /\ ColumnOf(Current.name) \in Columns
      BY <2>1, EventFields, ColumnType
    <3> QED BY <3>1, <3>2, SetType DEF TypeOK
  <2> QED BY <1>5, <2>2, <2>3 DEF ApplyCatalogue, chainVars, TypeOK
<1>6. CASE CommitCursor
  <2> DEFINE next == sync.end + 1
  <2>0. next \in Nat /\ {} \in SUBSET Event
    BY <1>0
  <2>2. sync' = NoSync \/ sync' = [sync EXCEPT !.at = "fetch", !.from = next, !.end = 0]
    BY <1>6 DEF CommitCursor, CommittedChunk
  <2> HIDE DEF next
  <2>3. [sync EXCEPT !.at = "fetch", !.from = next, !.end = 0] \in Sync
    BY <1>0, <2>0 DEF Sync
  <2>4. NoSync \in Sync
    BY ListenerAssumption DEF NoSync, Sync
  <2>1. sync' \in Sync
    BY <2>2, <2>3, <2>4
  <2> QED BY <1>0, <1>6, <2>1 DEF CommitCursor, CommittedChunk, chainVars, TypeOK
<1> QED BY <1>1, <1>2, <1>3, <1>4, <1>5, <1>6 DEF ListenerStep

\* So do the failures, and the other writer of a row.
LEMMA OtherType ==
  ASSUME TypeOK,
         HalveChunk \/ SyncFails \/ \E b \in Books : ReceiptComes(b) \/ RecordRegistration(b)
  PROVE  TypeOK'
<1>1. CASE HalveChunk
  <2>1. sync \in Sync /\ sync.chunk \in Nat
    BY DEF TypeOK, Sync
  <2> DEFINE half == IF sync.chunk \div 2 > MinChunk THEN sync.chunk \div 2 ELSE MinChunk
  <2>2. half \in Nat /\ half # 0
    BY <2>1, ListenerAssumption
  <2>3. sync' = [sync EXCEPT !.chunk = half]
    BY <1>1 DEF HalveChunk
  <2> HIDE DEF half
  <2>4. sync' \in Sync
    BY <2>1, <2>2, <2>3, SyncUpdate
  <2> QED BY <1>1, <2>4 DEF HalveChunk, Fault, chainVars, TypeOK
<1>2. CASE SyncFails
  <2>1. NoSync \in Sync
    BY ListenerAssumption DEF NoSync, Sync
  <2> QED BY <1>2, <2>1 DEF SyncFails, Fault, chainVars, TypeOK
<1>3. ASSUME NEW b \in Books, ReceiptComes(b) PROVE TypeOK'
  BY <1>3 DEF ReceiptComes, chainVars, TypeOK
<1>4. ASSUME NEW b \in Books, RecordRegistration(b) PROVE TypeOK'
  <2>1. "pending" \in Values
    BY DEF Values, Names, ValuesOf
  <2>2. upload' \in [Books -> [Columns -> Values \cup {"pending_stake", "unset"}]]
    BY <1>4, <2>1, SetType DEF RecordRegistration, Columns
  <2> QED BY <1>4, <2>2 DEF RecordRegistration, chainVars, TypeOK
<1> QED BY <1>1, <1>2, <1>3, <1>4
-----------------------------------------------------------------------------
(* 2. The invariant.                                                       *)

\* A block nothing replaces any more, and every provider has.
Deep(k) == k + Confirmations <= height

\* The cursor only ever was at deep blocks.
CursorInv == lastProcessed = 0 \/ Deep(lastProcessed)

\* A pass has fetched the logs of a chunk.
HasChunk == sync.at \in {"record", "status", "catalogue", "commit"}

InChunk(e) == HasChunk /\ sync.from <= e.block /\ e.block <= sync.end

\* The range of a pass starts after the cursor and ends at a deep block.
RangeInv ==
  sync.at # "idle" =>
    /\ sync.from = lastProcessed + 1
    /\ sync.from <= sync.safeHead
    /\ Deep(sync.safeHead)

\* What a pass has not worked on yet is a final part of its chunk.
BatchInv ==
  /\ HasChunk => /\ sync.from <= sync.end /\ sync.end <= sync.safeHead
                 /\ sync.batch \subseteq log
                 /\ \A e \in sync.batch : InChunk(e)
  /\ \A e \in log : InChunk(e) => \/ e \in sync.batch
                                  \/ e \in event /\ \A f \in sync.batch : Before(e, f)
  /\ HasChunk => (sync.batch = {} <=> sync.at = "commit")
  /\ sync.at \in {"status", "catalogue"} => Current \in event

\* The table Event holds deep events of the chain, and all of those the cursor passed.
TableInv ==
  /\ \A e \in event : e \in log /\ Deep(e.block)
  /\ NothingMissed

\* The listener is done with what event e means for column c.
Done(e, c) ==
  \/ e.block <= lastProcessed
  \/ InChunk(e) /\ e \notin sync.batch
  \/ sync.at = "catalogue" /\ c = "status" /\ e = Current

\* Column c of b shows nothing, or the newest event the listener is done with.
ColumnInv(b, c) ==
  \/ /\ upload[b][c] = Unset[c] \/ (c = "status" /\ upload[b][c] = "pending")
     /\ \A f \in Of(log, b, c) : ~ Done(f, c)
  \/ \E e \in Of(log, b, c) :
       /\ Deep(e.block)
       /\ upload[b][c] = e.value
       /\ \A f \in Of(log, b, c) : Done(f, c) => f = e \/ Before(f, e)

RowsInv == \A b \in Books, c \in Columns : ColumnInv(b, c)

IInv == CursorInv /\ RangeInv /\ BatchInv /\ TableInv /\ RowsInv

\* The locals of a pass are numbers and events.
LEMMA SyncFields ==
  ASSUME TypeOK
  PROVE  /\ sync.from \in Nat /\ sync.safeHead \in Nat /\ sync.end \in Nat
         /\ sync.chunk \in Nat /\ sync.chunk > 0 /\ sync.batch \subseteq Event
         /\ height \in Nat /\ lastProcessed \in Nat
         /\ log \subseteq Event /\ event \subseteq Event
         /\ Confirmations \in Nat /\ MaxReorg \in Nat /\ MaxLag \in Nat
  BY ListenerAssumption DEF TypeOK, Sync

\* A pass that has something to work on works on the oldest event of its batch.
LEMMA CurrentInBatch ==
  ASSUME TypeOK, BatchInv, sync.at \in {"record", "status", "catalogue"}
  PROVE  /\ Current \in sync.batch /\ Current \in log /\ InChunk(Current)
         /\ \A f \in sync.batch : f = Current \/ Before(Current, f)
<1>1. HasChunk /\ sync.batch \subseteq log /\ sync.batch # {}
  BY DEF BatchInv, HasChunk
<1> QED BY <1>1, CurrentIsOldest DEF BatchInv

\* What is in a chunk is deep, and the cursor has not passed it.
LEMMA ChunkIsDeep ==
  ASSUME TypeOK, RangeInv, BatchInv, NEW e \in Event, InChunk(e)
  PROVE  Deep(e.block) /\ e.block > lastProcessed
<1>1. sync.at # "idle" /\ HasChunk
  BY DEF InChunk, HasChunk
<1> QED BY <1>1, SyncFields, EventFields DEF RangeInv, BatchInv, InChunk, Deep

\* Order is strict.
LEMMA BeforeIsStrict ==
  ASSUME NEW e \in Event, NEW f \in Event, Before(e, f)
  PROVE  ~ Before(f, e) /\ e # f /\ e.block <= f.block
  BY EventFields DEF Before

\* The chain keeps its deep events and adds none to deep blocks.
LEMMA ChainKeepsDeep ==
  ASSUME TypeOK, ChainStep
  PROVE  /\ UNCHANGED <<upload, event, lastProcessed, sync, receipts>>
         /\ height' \in Nat /\ height' >= height
         /\ \A e \in log : Deep(e.block) => e \in log'
         /\ \A e \in log' : Deep(e.block) => e \in log
<1>1. CASE NewBlock
  BY <1>1, SyncFields DEF NewBlock
<1>2. ASSUME NEW k \in Soft, Replace(k)
      PROVE  /\ \A e \in log : Deep(e.block) => e \in log'
             /\ log' \subseteq log /\ height' = height
             /\ UNCHANGED <<upload, event, lastProcessed, sync, receipts>>
  <2>1. k \in 1..height /\ k + MaxReorg >= height
    BY DEF Soft
  <2>2. ASSUME NEW e \in log, Deep(e.block) PROVE e.block <= k - 1
    <3>1. e.block \in Nat
      BY SyncFields, EventFields
    <3> QED BY <2>1, <2>2, <3>1, SyncFields, ConfirmationsAssumption DEF Deep
  <2> QED BY <1>2, <2>2 DEF Replace, UpTo
<1>3. ASSUME NEW k \in Soft, NEW i \in LogIndexes, NEW b \in Books, NEW n \in Names,
             NEW v \in ValuesOf(n),
             Emit([block |-> k, index |-> i, book |-> b, name |-> n, value |-> v])
      PROVE  /\ \A e \in log' : Deep(e.block) => e \in log
             /\ log \subseteq log' /\ height' = height
             /\ UNCHANGED <<upload, event, lastProcessed, sync, receipts>>
  <2> DEFINE x == [block |-> k, index |-> i, book |-> b, name |-> n, value |-> v]
  <2>1. k \in 1..height /\ k + MaxReorg >= height
    BY DEF Soft
  <2>2. ~ Deep(x.block)
    BY <2>1, SyncFields, ConfirmationsAssumption DEF Deep
  <2>3. log' = log \cup {x} /\ UNCHANGED <<height, upload, event, lastProcessed, sync, receipts>>
    BY <1>3 DEF Emit
  <2> QED BY <2>2, <2>3
<1>4. CASE \E k \in Soft : Replace(k)
  BY <1>2, <1>4, SyncFields
<1>5. CASE \E k \in Soft, i \in LogIndexes, b \in Books, n \in Names : \E v \in ValuesOf(n) :
             Emit([block |-> k, index |-> i, book |-> b, name |-> n, value |-> v])
  BY <1>3, <1>5, SyncFields
<1> QED BY <1>1, <1>4, <1>5 DEF ChainStep

\* What the listener is done with is deep.
LEMMA DoneIsDeep ==
  ASSUME TypeOK, CursorInv, RangeInv, BatchInv, NEW e \in Event, NEW c, Done(e, c)
  PROVE  Deep(e.block)
<1>1. CASE e.block <= lastProcessed
  BY <1>1, SyncFields, EventFields DEF CursorInv, Deep
<1>2. CASE InChunk(e)
  BY <1>2, ChunkIsDeep
<1>3. CASE sync.at = "catalogue" /\ e = Current
  BY <1>3, CurrentInBatch, ChunkIsDeep
<1> QED BY <1>1, <1>2, <1>3 DEF Done

\* A column keeps its meaning in a step that leaves it, keeps deep events and does
\* not get done with more events of it.
LEMMA ColumnKept ==
  ASSUME NEW b \in Books, NEW c \in Columns, ColumnInv(b, c),
         upload'[b][c] = upload[b][c],
         \A e \in log : Deep(e.block) => e \in log' /\ Deep(e.block)',
         \A f \in Of(log', b, c) : Done(f, c)' => f \in log /\ Done(f, c)
  PROVE  ColumnInv(b, c)'
<1>1. \A f \in Of(log', b, c) : Done(f, c)' => f \in Of(log, b, c) /\ Done(f, c)
  BY DEF Of
<1>2. \A e \in Of(log, b, c) : Deep(e.block) => e \in Of(log', b, c) /\ Deep(e.block)'
  BY DEF Of
<1>3. CASE /\ upload[b][c] = Unset[c] \/ (c = "status" /\ upload[b][c] = "pending")
           /\ \A f \in Of(log, b, c) : ~ Done(f, c)
  BY <1>1, <1>3 DEF ColumnInv
<1>4. ASSUME NEW e \in Of(log, b, c), Deep(e.block), upload[b][c] = e.value,
             \A f \in Of(log, b, c) : Done(f, c) => f = e \/ Before(f, e)
      PROVE  ColumnInv(b, c)'
  BY <1>1, <1>2, <1>4 DEF ColumnInv
<1> QED BY <1>3, <1>4 DEF ColumnInv

\* A column set to the value of an event, after all others the listener is done with,
\* shows that event.
LEMMA ColumnShows ==
  ASSUME NEW b \in Books, NEW c \in Columns, NEW e \in Of(log', b, c), Deep(e.block)',
         upload'[b][c] = e.value,
         \A f \in Of(log', b, c) : Done(f, c)' => f = e \/ Before(f, e)
  PROVE  ColumnInv(b, c)'
  BY DEF ColumnInv

\* Blocks, events and replaced blocks disturb nothing the listener relies on.
LEMMA ChainKeeps ==
  ASSUME TypeOK, IInv, ChainStep
  PROVE  IInv'
<1> USE DEF IInv
<1>1. /\ UNCHANGED <<upload, event, lastProcessed, sync, receipts>>
      /\ height' \in Nat /\ height' >= height
      /\ \A e \in log : Deep(e.block) => e \in log'
      /\ \A e \in log' : Deep(e.block) => e \in log
  BY ChainKeepsDeep
<1>2. log' \subseteq Event
  BY ChainType
<1>3. \A k \in Nat : Deep(k) => Deep(k)'
  BY <1>1, SyncFields DEF Deep
<1>4. Current' = Current /\ (HasChunk' <=> HasChunk) /\ \A e : InChunk(e)' <=> InChunk(e)
  BY <1>1 DEF Current, HasChunk, InChunk
<1>5. \A e, c : Done(e, c)' <=> Done(e, c)
  BY <1>1, <1>4 DEF Done
<1>6. \A e \in Event : InChunk(e) => Deep(e.block)
  BY ChunkIsDeep
<1>7. \A e \in Event, c \in Columns : Done(e, c) => Deep(e.block)
  BY DoneIsDeep
<1>8. CursorInv' /\ RangeInv'
  BY <1>1, <1>3, SyncFields DEF CursorInv, RangeInv
<1>9. BatchInv'
  <2>1. HasChunk => sync.batch \subseteq log'
    BY <1>1, <1>6, SyncFields DEF BatchInv
  <2>2. \A e \in log' : InChunk(e) => e \in log
    BY <1>1, <1>2, <1>6
  <2> QED BY <1>1, <1>4, <2>1, <2>2 DEF BatchInv
<1>10. TableInv'
  <2>1. \A e \in event : e \in log' /\ Deep(e.block)'
    BY <1>1, <1>3, SyncFields, EventFields DEF TableInv
  <2>2. ASSUME NEW e \in log', e.block <= lastProcessed PROVE e \in event
    <3>1. e \in log
      BY <1>1, <1>2, <1>7, <2>2 DEF Done, Columns
    <3> QED BY <2>2, <3>1 DEF TableInv, NothingMissed, UpTo
  <2> QED BY <1>1, <2>1, <2>2 DEF TableInv, NothingMissed, UpTo
<1>11. RowsInv'
  <2> SUFFICES ASSUME NEW b \in Books, NEW c \in Columns PROVE ColumnInv(b, c)'
    BY DEF RowsInv
  <2>1. \A f \in Of(log', b, c) : Done(f, c)' => f \in log /\ Done(f, c)
    BY <1>1, <1>2, <1>5, <1>7 DEF Of
  <2>2. \A e \in log : Deep(e.block) => e \in log' /\ Deep(e.block)'
    BY <1>1, <1>3, SyncFields, EventFields
  <2>3. ColumnInv(b, c) /\ upload'[b][c] = upload[b][c]
    BY <1>1 DEF RowsInv
  <2> QED BY <2>1, <2>2, <2>3, ColumnKept
<1> QED BY <1>8, <1>9, <1>10, <1>11

\* In a step that leaves the chain and the rows, it is enough to be done with no more.
LEMMA RowsKept ==
  ASSUME RowsInv, UNCHANGED <<chainVars, upload>>,
         \A f \in log, c \in Columns : Done(f, c)' => Done(f, c)
  PROVE  RowsInv'
<1> SUFFICES ASSUME NEW b \in Books, NEW c \in Columns PROVE ColumnInv(b, c)'
  BY DEF RowsInv
<1>1. \A e \in log : Deep(e.block) => e \in log' /\ Deep(e.block)'
  BY DEF Deep, chainVars
<1>2. \A f \in Of(log', b, c) : Done(f, c)' => f \in log /\ Done(f, c)
  BY DEF Of, chainVars
<1>3. ColumnInv(b, c) /\ upload'[b][c] = upload[b][c]
  BY DEF RowsInv
<1> QED BY <1>1, <1>2, <1>3, ColumnKept

\* A pass starts at the cursor and ends at a deep block, whoever told it the head.
LEMMA SyncToHeadKeeps ==
  ASSUME TypeOK, IInv, SyncToHead
  PROVE  IInv'
<1> USE DEF IInv
<1>1. PICK v \in View :
        sync' = IF lastProcessed < SafeHead(v)
                  THEN [NoSync EXCEPT !.at = "fetch", !.from = lastProcessed + 1,
                                      !.safeHead = SafeHead(v)]
                  ELSE sync
  BY DEF SyncToHead
<1>2. UNCHANGED <<chainVars, upload, event, lastProcessed>> /\ UNCHANGED <<height, log>>
  BY DEF SyncToHead, chainVars
<1>3. CASE sync' = sync
  <2>1. UNCHANGED <<height, log, upload, event, lastProcessed, sync>>
    BY <1>2, <1>3
  <2>2. CursorInv' /\ RangeInv' /\ BatchInv' /\ TableInv'
    BY <2>1 DEF CursorInv, RangeInv, BatchInv, TableInv, NothingMissed, UpTo, Deep, Current,
                HasChunk, InChunk
  <2>3. \A f \in log, c \in Columns : Done(f, c)' => Done(f, c)
    BY <2>1 DEF Done, InChunk, HasChunk, Current
  <2> QED BY <1>2, <2>2, <2>3, RowsKept
<1>4. CASE /\ lastProcessed < SafeHead(v)
           /\ sync' = [NoSync EXCEPT !.at = "fetch", !.from = lastProcessed + 1,
                                     !.safeHead = SafeHead(v)]
  <2>1. /\ sync'.at = "fetch" /\ sync'.from = lastProcessed + 1
        /\ sync'.safeHead = SafeHead(v)
    BY <1>4 DEF NoSync
  <2>2. Deep(SafeHead(v))
    BY SyncFields DEF View, SafeHead, Deep
  <2>3. RangeInv' /\ CursorInv'
    <3>1. lastProcessed + 1 <= SafeHead(v)
      BY <1>4, SyncFields DEF View, SafeHead
    <3> QED BY <1>2, <2>1, <2>2, <3>1 DEF RangeInv, CursorInv, Deep
  <2>4. BatchInv'
    BY <2>1 DEF BatchInv, HasChunk, InChunk
  <2>5. TableInv'
    BY <1>2 DEF TableInv, NothingMissed, UpTo, Deep
  <2>6. \A f \in log, c \in Columns : Done(f, c)' => Done(f, c)
    BY <1>2, <2>1 DEF Done, InChunk, HasChunk
  <2> QED BY <1>2, <2>3, <2>4, <2>5, <2>6, RowsKept
<1> QED BY <1>1, <1>3, <1>4

\* What getLogs returns is all there is in the chunk: no provider is far enough behind
\* to leave something out.
LEMMA FetchLogsKeeps ==
  ASSUME TypeOK, IInv, FetchLogs
  PROVE  IInv'
<1> USE DEF IInv
<1> DEFINE logs(v) == {e \in log : sync.from <= e.block /\ e.block <= ChunkEnd /\ e.block <= v}
<1>1. PICK v \in View :
        sync' = [sync EXCEPT !.end = ChunkEnd, !.batch = logs(v),
                             !.at = IF logs(v) = {} THEN "commit" ELSE "record"]
  BY DEF FetchLogs
<1>2. UNCHANGED <<chainVars, upload, event, lastProcessed>> /\ UNCHANGED <<height, log>>
  BY DEF FetchLogs, chainVars
<1>3. /\ sync'.from = sync.from /\ sync'.safeHead = sync.safeHead
      /\ sync'.end = ChunkEnd /\ sync'.batch = logs(v)
      /\ sync'.at = IF logs(v) = {} THEN "commit" ELSE "record"
  BY <1>1 DEF TypeOK, Sync
<1>4. /\ sync.from = lastProcessed + 1 /\ sync.from <= sync.safeHead /\ Deep(sync.safeHead)
  BY DEF FetchLogs, RangeInv
<1>5. ChunkEnd \in Nat /\ sync.from <= ChunkEnd /\ ChunkEnd <= sync.safeHead /\ Deep(ChunkEnd)
  BY <1>4, SyncFields DEF ChunkEnd, Deep
<1>6. ChunkEnd <= v
  BY <1>5, SyncFields, ConfirmationsAssumption DEF View, Deep
<1>7. logs(v) = {e \in log : sync.from <= e.block /\ e.block <= ChunkEnd}
  <2>1. \A e \in log : e.block <= ChunkEnd => e.block <= v
    BY <1>5, <1>6, SyncFields, EventFields DEF View
  <2> QED BY <2>1
<1> HIDE DEF logs
<1>8. RangeInv' /\ CursorInv' /\ TableInv'
  BY <1>2, <1>3, <1>4 DEF RangeInv, CursorInv, TableInv, NothingMissed, UpTo, Deep
<1>9. HasChunk' /\ \A e : InChunk(e)' <=> sync.from <= e.block /\ e.block <= ChunkEnd
  BY <1>3 DEF HasChunk, InChunk
<1>10. BatchInv'
  <2>1. sync'.at \notin {"status", "catalogue"} /\ (sync'.batch = {} <=> sync'.at = "commit")
    BY <1>3
  <2>2. sync'.batch = {e \in log : sync.from <= e.block /\ e.block <= ChunkEnd}
    BY <1>3, <1>7
  <2> QED BY <1>2, <1>3, <1>5, <1>9, <2>1, <2>2 DEF BatchInv
<1>11. \A f \in log, c \in Columns : Done(f, c)' => Done(f, c)
  <2>1. sync'.at # "catalogue" /\ \A f \in log : InChunk(f)' => f \in sync'.batch
    BY <1>3, <1>7, <1>9
  <2> QED BY <1>2, <2>1 DEF Done
<1> QED BY <1>2, <1>8, <1>10, <1>11, RowsKept

\* An event of the chunk is written to the table; nothing else changes its meaning.
LEMMA RecordEventKeeps ==
  ASSUME TypeOK, IInv, RecordEvent
  PROVE  IInv'
<1> USE DEF IInv
<1>1. /\ UNCHANGED <<chainVars, upload, lastProcessed>> /\ UNCHANGED <<height, log>>
      /\ event' = event \cup {Current}
      /\ sync' = [sync EXCEPT !.at = "status"] /\ sync.at = "record"
  BY DEF RecordEvent, chainVars
<1>2. /\ sync'.at = "status" /\ sync'.from = sync.from /\ sync'.safeHead = sync.safeHead
      /\ sync'.end = sync.end /\ sync'.batch = sync.batch
  BY <1>1 DEF TypeOK, Sync
<1>3. Current' = Current /\ HasChunk' /\ HasChunk /\ \A e : InChunk(e)' <=> InChunk(e)
  BY <1>1, <1>2 DEF Current, HasChunk, InChunk
<1>4. Current \in log /\ Deep(Current.block)
  BY <1>1, CurrentInBatch, ChunkIsDeep, SyncFields
<1>5. RangeInv' /\ CursorInv'
  BY <1>1, <1>2 DEF RangeInv, CursorInv, Deep
<1>6. BatchInv'
  BY <1>1, <1>2, <1>3 DEF BatchInv
<1>7. TableInv'
  BY <1>1, <1>4 DEF TableInv, NothingMissed, UpTo, Deep
<1>8. \A f \in log, c \in Columns : Done(f, c)' => Done(f, c)
  BY <1>1, <1>2, <1>3 DEF Done
<1> QED BY <1>1, <1>5, <1>6, <1>7, <1>8, RowsKept

\* All the listener is done with comes before the event it works on.
LEMMA DoneIsBefore ==
  ASSUME TypeOK, IInv, sync.at \in {"record", "status", "catalogue"},
         NEW f \in log, NEW c, Done(f, c)
  PROVE  f = Current \/ Before(f, Current)
<1> USE DEF IInv
<1>1. /\ Current \in sync.batch /\ Current \in Event /\ f \in Event
      /\ Current.block > lastProcessed
  BY CurrentInBatch, ChunkIsDeep, SyncFields
<1>2. CASE f.block <= lastProcessed
  BY <1>1, <1>2, EventFields, SyncFields DEF Before
<1>3. CASE InChunk(f) /\ f \notin sync.batch
  BY <1>1, <1>3 DEF BatchInv
<1> QED BY <1>2, <1>3 DEF Done

\* The event a pass works on moves the status only of its own book, and leaves it at
\* the newest value the pass is done with.
LEMMA ApplyStatusKeeps ==
  ASSUME TypeOK, IInv, ApplyStatus
  PROVE  IInv'
<1> USE DEF IInv
<1>0. PICK e : e = Current
  OBVIOUS
<1> DEFINE moves == \/ e.name = "UploadRegistered" /\ upload[e.book]["status"] = "pending_stake"
                    \/ e.name = "UploadStatusChanged"
<1>1. /\ UNCHANGED <<height, log, event, lastProcessed>>
      /\ sync' = [sync EXCEPT !.at = "catalogue"] /\ sync.at = "status"
      /\ IF moves THEN Set(e.book, "status", e.value) ELSE UNCHANGED upload
  BY <1>0 DEF ApplyStatus, chainVars
<1>2. /\ sync'.at = "catalogue" /\ sync'.from = sync.from /\ sync'.safeHead = sync.safeHead
      /\ sync'.end = sync.end /\ sync'.batch = sync.batch
  BY <1>1 DEF TypeOK, Sync
<1>3. Current' = Current /\ HasChunk' /\ HasChunk /\ \A f : InChunk(f)' <=> InChunk(f)
  BY <1>1, <1>2 DEF Current, HasChunk, InChunk
<1>4. e \in log /\ e \in Event /\ Deep(e.block) /\ e \in sync.batch
  BY <1>0, <1>1, CurrentInBatch, ChunkIsDeep, SyncFields
<1>5. RangeInv' /\ CursorInv' /\ TableInv'
  BY <1>1, <1>2 DEF RangeInv, CursorInv, TableInv, NothingMissed, UpTo, Deep
<1>6. BatchInv'
  BY <1>1, <1>2, <1>3 DEF BatchInv
<1>7. \A f \in log, c \in Columns : Done(f, c)' => Done(f, c) \/ (c = "status" /\ f = e)
  BY <1>0, <1>1, <1>2, <1>3 DEF Done
<1>8. RowsInv'
  <2> SUFFICES ASSUME NEW b \in Books, NEW c \in Columns PROVE ColumnInv(b, c)'
    BY DEF RowsInv
  <2>1. ColumnInv(b, c)
    BY DEF RowsInv
  <2>2. \A f \in log : Deep(f.block) => f \in log' /\ Deep(f.block)'
    BY <1>1 DEF Deep
  <2>3. upload \in [Books -> [Columns -> Values \cup {"pending_stake", "unset"}]]
    BY DEF TypeOK
  <2> HIDE DEF moves
  <2>4. CASE b # e.book \/ c # "status"
    <3>1. upload'[b][c] = upload[b][c]
      BY <1>1, <2>3, <2>4 DEF Set
    <3>2. \A f \in Of(log', b, c) : Done(f, c)' => f \in log /\ Done(f, c)
      BY <1>1, <1>7, <2>4 DEF Of
    <3> QED BY <2>1, <2>2, <3>1, <3>2, ColumnKept
  <2>5. CASE b = e.book /\ c = "status" /\ ColumnOf(e.name) # "status"
    <3>1. upload'[b][c] = upload[b][c]
      BY <1>1, <2>5 DEF moves, ColumnOf
    <3>2. \A f \in Of(log', b, c) : Done(f, c)' => f \in log /\ Done(f, c)
      BY <1>1, <1>7, <2>5 DEF Of
    <3> QED BY <2>1, <2>2, <3>1, <3>2, ColumnKept
  <2>6. CASE b = e.book /\ c = "status" /\ ColumnOf(e.name) = "status"
    <3>1. e \in Of(log', b, c) /\ Deep(e.block)'
      BY <1>1, <1>4, <2>6 DEF Of, Deep
    <3>2. \A f \in Of(log', b, c) : Done(f, c)' => f = e \/ Before(f, e)
      BY <1>0, <1>1, <1>7, DoneIsBefore DEF Of
    <3>3. CASE moves
      <4>1. upload'[b][c] = e.value
        BY <1>1, <2>3, <2>6, <3>3 DEF Set
      <4> QED BY <3>1, <3>2, <4>1, ColumnShows
    <3>4. CASE ~ moves
      <4>1. e.name = "UploadRegistered" /\ upload[b][c] # "pending_stake"
        BY <1>4, <2>6, <3>4, EventFields DEF moves, ColumnOf, Names
      <4>2. upload'[b][c] = upload[b][c]
        BY <1>1, <3>4
      <4>3. CASE upload[b][c] = "pending"
        BY <3>1, <3>2, <4>1, <4>2, <4>3, <1>4, RegistrationValue, ColumnShows
      <4>4. CASE upload[b][c] # "pending"
        <5>1. PICK g \in Of(log, b, c) :
                /\ Deep(g.block)
                /\ upload[b][c] = g.value
                /\ \A f \in Of(log, b, c) : Done(f, c) => f = g \/ Before(f, g)
          BY <2>1, <2>6, <4>1, <4>4 DEF ColumnInv, Unset, Columns
        <5>2. g = e \/ Before(e, g)
          BY <1>4, <2>6, <4>1 DEF Of, TypeOK, LogOK
        <5>3. \A f \in Of(log', b, c) : Done(f, c)' => f = g \/ Before(f, g)
          BY <1>1, <1>7, <5>1, <5>2 DEF Of
        <5>4. g \in Of(log', b, c) /\ Deep(g.block)'
          BY <1>1, <5>1 DEF Of, Deep
        <5> QED BY <4>2, <5>1, <5>3, <5>4, ColumnShows
      <4> QED BY <4>3, <4>4
    <3> QED BY <3>3, <3>4
  <2> QED BY <2>4, <2>5, <2>6
<1> QED BY <1>5, <1>6, <1>8

\* A stake that is deep is known to every provider.
LEMMA StakeIsKnown ==
  ASSUME TypeOK, NEW e \in log, Deep(e.block), e.name = "Staked"
  PROVE  StakeKnown(e.book) = {TRUE}
<1>1. e.block \in Nat /\ height \in Nat
  BY SyncFields, EventFields
<1>2. \A v \in View : e.block <= v
  BY <1>1, SyncFields, ConfirmationsAssumption DEF View, Deep
<1>3. \A v \in View : \E f \in UpTo(log, v) : f.book = e.book /\ f.name = "Staked"
  BY <1>2 DEF UpTo
<1> QED BY <1>3 DEF StakeKnown

\* The event is done with, and its column shows it.
LEMMA ApplyCatalogueKeeps ==
  ASSUME TypeOK, IInv, ApplyCatalogue
  PROVE  IInv'
<1> USE DEF IInv
<1>0. PICK e : e = Current
  OBVIOUS
<1>1. /\ UNCHANGED <<height, log, event, lastProcessed>>
      /\ sync' = [sync EXCEPT !.batch = @ \ {e},
                              !.at = IF sync.batch = {e} THEN "commit" ELSE "record"]
      /\ sync.at = "catalogue"
  BY <1>0 DEF ApplyCatalogue, chainVars
<1>2. /\ sync'.at = (IF sync.batch = {e} THEN "commit" ELSE "record")
      /\ sync'.from = sync.from /\ sync'.safeHead = sync.safeHead
      /\ sync'.end = sync.end /\ sync'.batch = sync.batch \ {e}
  BY <1>1 DEF TypeOK, Sync
<1>3. /\ e \in log /\ e \in Event /\ Deep(e.block) /\ e \in sync.batch /\ e \in event
      /\ \A f \in sync.batch : f = e \/ Before(e, f)
  BY <1>0, <1>1, CurrentInBatch, ChunkIsDeep, SyncFields DEF BatchInv
<1>4. IF ColumnOf(e.name) # "status" THEN Set(e.book, ColumnOf(e.name), e.value)
      ELSE UNCHANGED upload
  <2>1. PICK known \in StakeKnown(e.book) :
          IF ColumnOf(e.name) # "status" /\ (e.name = "Staked" => known)
            THEN Set(e.book, ColumnOf(e.name), e.value) ELSE UNCHANGED upload
    BY <1>0 DEF ApplyCatalogue
  <2>2. e.name = "Staked" => known = TRUE
    BY <1>3, <2>1, StakeIsKnown
  <2> QED BY <2>1, <2>2
<1>5. HasChunk' /\ HasChunk /\ \A f : InChunk(f)' <=> InChunk(f)
  BY <1>1, <1>2 DEF HasChunk, InChunk
<1>6. RangeInv' /\ CursorInv' /\ TableInv'
  BY <1>1, <1>2 DEF RangeInv, CursorInv, TableInv, NothingMissed, UpTo, Deep
<1>7. BatchInv'
  <2>1. (sync'.batch = {} <=> sync'.at = "commit") /\ sync'.at \notin {"status", "catalogue"}
    BY <1>2, <1>3
  <2>2. ASSUME NEW f \in log, InChunk(f)
        PROVE  f \in sync'.batch \/ (f \in event /\ \A g \in sync'.batch : Before(f, g))
    BY <1>2, <1>3, <2>2 DEF BatchInv
  <2> QED BY <1>1, <1>2, <1>5, <2>1, <2>2 DEF BatchInv
<1>8. \A f \in log, c \in Columns : Done(f, c)' => Done(f, c) \/ f = e
  BY <1>1, <1>2, <1>5 DEF Done
<1>9. Done(e, "status")
  BY <1>0, <1>1 DEF Done
<1>10. RowsInv'
  <2> SUFFICES ASSUME NEW b \in Books, NEW c \in Columns PROVE ColumnInv(b, c)'
    BY DEF RowsInv
  <2>1. ColumnInv(b, c)
    BY DEF RowsInv
  <2>2. \A f \in log : Deep(f.block) => f \in log' /\ Deep(f.block)'
    BY <1>1 DEF Deep
  <2>3. upload \in [Books -> [Columns -> Values \cup {"pending_stake", "unset"}]]
    BY DEF TypeOK
  <2>4. CASE b = e.book /\ c = ColumnOf(e.name) /\ c # "status"
    <3>1. upload'[b][c] = e.value
      BY <1>4, <2>3, <2>4 DEF Set
    <3>2. e \in Of(log', b, c) /\ Deep(e.block)'
      BY <1>1, <1>3, <2>4 DEF Of, Deep
    <3>3. \A f \in Of(log', b, c) : Done(f, c)' => f = e \/ Before(f, e)
      BY <1>0, <1>1, <1>8, DoneIsBefore DEF Of
    <3> QED BY <3>1, <3>2, <3>3, ColumnShows
  <2>5. CASE ~ (b = e.book /\ c = ColumnOf(e.name) /\ c # "status")
    <3>1. upload'[b][c] = upload[b][c]
      <4>1. CASE ColumnOf(e.name) = "status"
        BY <1>4, <4>1
      <4>2. CASE ColumnOf(e.name) # "status" /\ Set(e.book, ColumnOf(e.name), e.value)
        BY <2>3, <2>5, <4>2 DEF Set
      <4> QED BY <1>4, <4>1, <4>2
    <3>2. \A f \in Of(log', b, c) : Done(f, c)' => f \in log /\ Done(f, c)
      BY <1>1, <1>8, <1>9, <2>5 DEF Of
    <3> QED BY <2>1, <2>2, <3>1, <3>2, ColumnKept
  <2> QED BY <2>4, <2>5
<1> QED BY <1>6, <1>7, <1>10

\* The cursor passes a chunk all of whose events are in the table.
LEMMA CommitCursorKeeps ==
  ASSUME TypeOK, IInv, CommitCursor
  PROVE  IInv'
<1> USE DEF IInv
<1>1. /\ UNCHANGED <<chainVars, upload, event>> /\ UNCHANGED <<height, log>>
      /\ lastProcessed' = sync.end
      /\ sync' = IF sync.end >= sync.safeHead THEN NoSync
                 ELSE [sync EXCEPT !.at = "fetch", !.from = sync.end + 1, !.end = 0]
      /\ sync.at = "commit"
  BY DEF CommitCursor, CommittedChunk, chainVars
<1>2. \/ sync'.at = "idle"
      \/ /\ sync'.at = "fetch" /\ sync'.from = sync.end + 1
         /\ sync'.safeHead = sync.safeHead /\ sync.end < sync.safeHead
  BY <1>1, SyncFields DEF TypeOK, Sync, NoSync
<1>3. /\ sync.from = lastProcessed + 1 /\ sync.from <= sync.end /\ sync.end <= sync.safeHead
      /\ Deep(sync.safeHead) /\ sync.batch = {} /\ HasChunk
  BY <1>1 DEF RangeInv, BatchInv, HasChunk
<1>4. CursorInv' /\ RangeInv'
  BY <1>1, <1>2, <1>3, SyncFields DEF CursorInv, RangeInv, Deep
<1>5. BatchInv'
  BY <1>2 DEF BatchInv, HasChunk, InChunk
<1>6. \A f \in log : f.block <= sync.end => f.block <= lastProcessed \/ InChunk(f)
  BY <1>3, SyncFields, EventFields DEF InChunk
<1>7. TableInv'
  <2>1. \A f \in log : InChunk(f) => f \in event
    BY <1>3 DEF BatchInv
  <2> QED BY <1>1, <1>6, <2>1 DEF TableInv, NothingMissed, UpTo, Deep
<1>8. \A f \in log, c \in Columns : Done(f, c)' => Done(f, c)
  <2>1. ~ HasChunk' /\ sync'.at # "catalogue"
    BY <1>2 DEF HasChunk
  <2> QED BY <1>1, <1>3, <1>6, <2>1 DEF Done, InChunk
<1> QED BY <1>1, <1>4, <1>5, <1>7, <1>8, RowsKept

\* A pass that fails, at any point, leaves rows and table as true as they were.
LEMMA FailuresKeep ==
  ASSUME TypeOK, IInv, HalveChunk \/ SyncFails
  PROVE  IInv'
<1> USE DEF IInv
<1>1. UNCHANGED <<chainVars, upload, event, lastProcessed>> /\ UNCHANGED <<height, log>>
  BY DEF HalveChunk, SyncFails, chainVars
<1>2. \/ sync'.at = "idle"
      \/ sync'.at = "fetch" /\ sync.at = "fetch" /\ sync'.from = sync.from
         /\ sync'.safeHead = sync.safeHead
  BY DEF HalveChunk, SyncFails, TypeOK, Sync, NoSync
<1>3. CursorInv' /\ RangeInv' /\ TableInv'
  BY <1>1, <1>2 DEF CursorInv, RangeInv, TableInv, NothingMissed, UpTo, Deep
<1>4. BatchInv'
  BY <1>2 DEF BatchInv, HasChunk, InChunk
<1>5. \A f \in log, c \in Columns : Done(f, c)' => Done(f, c)
  BY <1>1, <1>2 DEF Done, InChunk, HasChunk
<1> QED BY <1>1, <1>3, <1>4, <1>5, RowsKept

\* Whoever registered a book moves its row only while nothing on the chain has.
LEMMA RegistrationKeeps ==
  ASSUME TypeOK, IInv, NEW b \in Books, ReceiptComes(b) \/ RecordRegistration(b)
  PROVE  IInv'
<1> USE DEF IInv
<1>1. UNCHANGED <<height, log, event, lastProcessed, sync>>
  BY DEF ReceiptComes, RecordRegistration, chainVars
<1>2. CursorInv' /\ RangeInv' /\ BatchInv' /\ TableInv'
  BY <1>1 DEF CursorInv, RangeInv, BatchInv, TableInv, NothingMissed, UpTo, Deep, Current,
              HasChunk, InChunk
<1>3. \A f, c : Done(f, c)' <=> Done(f, c)
  BY <1>1 DEF Done, InChunk, HasChunk, Current
<1>4. RowsInv'
  <2> SUFFICES ASSUME NEW a \in Books, NEW c \in Columns PROVE ColumnInv(a, c)'
    BY DEF RowsInv
  <2>1. ColumnInv(a, c)
    BY DEF RowsInv
  <2>2. upload \in [Books -> [Columns -> Values \cup {"pending_stake", "unset"}]]
    BY DEF TypeOK
  <2>3. CASE upload'[a][c] = upload[a][c]
    <3>1. \A e \in log : Deep(e.block) => e \in log' /\ Deep(e.block)'
      BY <1>1 DEF Deep
    <3>2. \A f \in Of(log', a, c) : Done(f, c)' => f \in log /\ Done(f, c)
      BY <1>1, <1>3 DEF Of
    <3> QED BY <2>1, <2>3, <3>1, <3>2, ColumnKept
  <2>4. CASE a = b /\ c = "status" /\ upload[a][c] = "pending_stake" /\ upload'[a][c] = "pending"
    <3>1. ASSUME NEW e \in Of(log, a, c) PROVE e.value # "pending_stake"
      <4>1. e \in Event /\ e.name \in {"UploadRegistered", "UploadStatusChanged"}
        BY <2>4, SyncFields, EventFields DEF Of, ColumnOf, Names
      <4>2. e.value \in {"pending"} \cup NewStatus
        BY <4>1, EventFields DEF ValuesOf
      <4> QED BY <4>2, ListenerAssumption
    <3>2. \A f \in Of(log, a, c) : ~ Done(f, c)
      BY <2>1, <2>4, <3>1 DEF ColumnInv
    <3> QED BY <1>1, <1>3, <2>4, <3>2 DEF ColumnInv, Of
  <2>5. \/ upload'[a][c] = upload[a][c]
        \/ a = b /\ c = "status" /\ upload[a][c] = "pending_stake" /\ upload'[a][c] = "pending"
    BY <2>2 DEF ReceiptComes, RecordRegistration, Set
  <2> QED BY <2>3, <2>4, <2>5
<1> QED BY <1>2, <1>4

\* Nothing has happened yet.
LEMMA Initially ==
  ASSUME Init
  PROVE  TypeOK /\ IInv
<1>1. TypeOK
  <2>1. NoSync \in Sync
    BY ListenerAssumption DEF NoSync, Sync
  <2> QED BY <2>1, UnsetType DEF Init, TypeOK, LogOK
<1>2. sync.at = "idle" /\ log = {} /\ event = {} /\ lastProcessed = 0
  BY DEF Init, NoSync
<1>3. CursorInv /\ RangeInv /\ BatchInv /\ TableInv
  BY <1>2 DEF CursorInv, RangeInv, BatchInv, HasChunk, InChunk, TableInv, NothingMissed, UpTo
<1>4. ASSUME NEW b \in Books, NEW c \in Columns PROVE ColumnInv(b, c)
  BY <1>2 DEF Init, ColumnInv, Of
<1> QED BY <1>1, <1>3, <1>4 DEF IInv, RowsInv

\* Every step of the system keeps types and invariant.
LEMMA Step ==
  ASSUME TypeOK, IInv, [Next]_vars
  PROVE  TypeOK' /\ IInv'
<1>1. CASE ChainStep
  <2>1. TypeOK'
    BY <1>1, ChainType, ChainKeepsDeep DEF TypeOK, ChainStep, NewBlock, Replace, Emit
  <2> QED BY <1>1, <2>1, ChainKeeps
<1>2. CASE ListenerStep
  <2>1. TypeOK'
    <3>1. sync.at \in {"record", "status", "catalogue"} => Current \in sync.batch
      BY CurrentInBatch DEF IInv
    <3> QED BY <1>2, <3>1, ListenerType
  <2> QED BY <1>2, <2>1, SyncToHeadKeeps, FetchLogsKeeps, RecordEventKeeps, ApplyStatusKeeps,
             ApplyCatalogueKeeps, CommitCursorKeeps DEF ListenerStep
<1>3. CASE HalveChunk \/ SyncFails
  BY <1>3, OtherType, FailuresKeep
<1>4. ASSUME NEW b \in Books, ReceiptComes(b) \/ RecordRegistration(b) PROVE TypeOK' /\ IInv'
  BY <1>4, OtherType, RegistrationKeeps
<1>5. CASE UNCHANGED vars
  <2>1. UNCHANGED <<height, log, upload, event, lastProcessed, sync, receipts, faults>>
    BY <1>5 DEF vars, chainVars
  <2>2. TypeOK'
    BY <2>1 DEF TypeOK
  <2>3. CursorInv' /\ RangeInv' /\ BatchInv' /\ TableInv'
    BY <2>1 DEF IInv, CursorInv, RangeInv, BatchInv, TableInv, NothingMissed, UpTo, Deep,
                Current, HasChunk, InChunk
  <2>4. \A f \in log, c \in Columns : Done(f, c)' => Done(f, c)
    BY <2>1 DEF Done, InChunk, HasChunk, Current
  <2>5. RowsInv'
    BY <2>1, <2>4, RowsKept DEF IInv, chainVars
  <2> QED BY <2>2, <2>3, <2>5 DEF IInv
<1> QED BY <1>1, <1>2, <1>3, <1>4, <1>5 DEF Next

\* The invariant holds in every reachable state.
LEMMA Invariance == Spec => [](TypeOK /\ IInv)
<1>1. Init => TypeOK /\ IInv BY Initially
<1>2. TypeOK /\ IInv /\ [Next]_vars => (TypeOK /\ IInv)' BY Step
<1> QED BY <1>1, <1>2, PTL DEF Spec

-----------------------------------------------------------------------------
(* 3. The properties.                                                      *)

\* Every variable keeps its type, and the chain stays one the contracts allow.
THEOREM TypeCorrect == Spec => []TypeOK
<1>1. TypeOK /\ IInv => TypeOK OBVIOUS
<1> QED BY <1>1, Invariance, PTL

\* No event at or below the cursor is missing from the table, for chunks of any size
\* and passes that fail anywhere, if CHAIN_CONFIRMATIONS covers the lag of providers.
THEOREM MissesNothing == Spec => []NothingMissed
<1>1. TypeOK /\ IInv => NothingMissed BY DEF IInv, TableInv
<1> QED BY <1>1, Invariance, PTL

\* Every event in the table is on the chain, if CHAIN_CONFIRMATIONS exceeds what the
\* chain may replace.
THEOREM InventsNothing == Spec => []NothingInvented
<1>1. TypeOK /\ IInv => NothingInvented BY DEF IInv, TableInv, NothingInvented
<1> QED BY <1>1, Invariance, PTL

\* Rows never show a state the contracts were not in, nor one they had left before
\* the cursor, whatever is replayed and whoever registers the book.
THEOREM RowsAreTrue == Spec => []RowsFollowChain
<1>1. TypeOK /\ IInv => RowsFollowChain
  <2> SUFFICES ASSUME TypeOK, IInv, NEW b \in Books, NEW c \in Columns
               PROVE  Untouched(b, c) \/ \E e \in Of(log, b, c) : Shows(e, b, c)
    BY DEF RowsFollowChain
  <2>1. ColumnInv(b, c)
    BY DEF IInv, RowsInv
  <2>2. \A f \in Of(UpTo(log, lastProcessed), b, c) : f \in Of(log, b, c) /\ Done(f, c)
    BY DEF Of, UpTo, Done
  <2> QED BY <2>1, <2>2 DEF ColumnInv, Untouched, Shows
<1> QED BY <1>1, Invariance, PTL
=============================================================================
