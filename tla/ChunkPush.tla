------------------------------ MODULE ChunkPush ------------------------------
(***************************************************************************)
(* pushChunks() of controller/arweave.js for one book, node by node and    *)
(* chunk by chunk, as the passes of the worker call it.  A pass ends with  *)
(* the first upload that throws; the uploads beside it go on, with the     *)
(* state object of a pass that is over.                                    *)
(***************************************************************************)
EXTENDS Integers, FiniteSets

CONSTANTS
  Nodes, BlockOf,   \* nodes of the network, and their /24 blocks
  Passes,           \* bound: passes of the worker, 1 .. Passes
  Total,            \* chunks of the book
  MinHolders,       \* ARWEAVE_MIN_HOLDERS
  ChunkRetries,     \* CHUNK_RETRIES
  SaveEvery         \* chunks between two saves of an upload, 10 in the code

ASSUME PushAssumption ==
  /\ IsFiniteSet(Nodes)
  /\ Passes \in Nat /\ ChunkRetries \in Nat
  /\ Total \in Nat \ {0} /\ MinHolders \in Nat \ {0} /\ SaveEvery \in Nat \ {0}

Pass == 1 .. Passes

VARIABLES
  status,    \* of the row
  row,       \* arweaveUploaderState.holders, as saved
  at,        \* passes: where each one is
  holders,   \* passes: state.holders, the object each one works on
  task,      \* passes, nodes: uploadTo(), and the retries of its chunk
  received   \* nodes: chunks answered with 200

vars == <<status, row, at, holders, task, received>>

Chunks == 0 .. Total - 1
Holder == [next : 0 .. Total, is : {"none", "active", "done", "failed"}]
NoHolder == [next |-> 0, is |-> "none"]
NoTask == [at |-> "none", retries |-> 0]

TypeOK ==
  /\ status \in {"pending_confirmation", "pending_stake", "storage_failed"}
  /\ row \in [Nodes -> Holder]
  /\ at \in [Pass -> {"next", "loop", "probe", "uploads", "throws", "fatal", "over"}]
  /\ holders \in [Pass -> [Nodes -> Holder]]
  /\ task \in [Pass -> [Nodes -> [at : {"none", "post", "save", "ended"},
                                  retries : 0 .. ChunkRetries]]]
  /\ received \in [Nodes -> SUBSET Chunks]

Init ==
  /\ status = "pending_confirmation"
  /\ row = [n \in Nodes |-> NoHolder]
  /\ at = [p \in Pass |-> "next"]
  /\ holders = [p \in Pass |-> [n \in Nodes |-> NoHolder]]
  /\ task = [p \in Pass |-> [n \in Nodes |-> NoTask]]
  /\ received = [n \in Nodes |-> {}]

-----------------------------------------------------------------------------
(* Holders of a state object.                                              *)

Those(state, is) == {n \in Nodes : state[n].is = is}

Done(p) == Those(holders[p], "done")
Active(p) == Those(holders[p], "active")

Need(p) == MinHolders - Cardinality(Done(p)) - Cardinality(Active(p))

\* Bug: a block counts as used only once its node has everything.
UsedWhenDone(p) == {BlockOf[n] : n \in Done(p)}

UsedBlocks(p) == {BlockOf[n] : n \in Done(p) \cup Active(p)}

\* Bug: a node that was dropped may be asked again.
CandidatesAgain(p) ==
  {n \in Nodes : holders[p][n].is \in {"none", "failed"} /\ BlockOf[n] \notin UsedBlocks(p)}

\* findLongTermNodes(): nodes never tried, in blocks without a copy.
Candidates(p) ==
  {n \in Nodes : holders[p][n].is = "none" /\ BlockOf[n] \notin UsedBlocks(p)}

Apart(S) == \A m, n \in S : BlockOf[m] = BlockOf[n] => m = n

Smaller(a, b) == IF a < b THEN a ELSE b

-----------------------------------------------------------------------------
(* The pass: processUpload() around pushChunks().                          *)

Go(p, point) == at' = [at EXCEPT ![p] = point]

\* onState(): the whole object, whatever the row is by now.
Save(p) == row' = holders[p]

\* A pass begins when the one before is over, on the state it finds in the row.
Start(p) ==
  /\ status = "pending_confirmation"
  /\ at[p] = "next" /\ \A q \in Pass : q < p => at[q] = "over"
  /\ holders' = [holders EXCEPT ![p] = row]
  /\ Go(p, "loop")
  /\ UNCHANGED <<status, row, task, received>>

\* A holder saved with its last chunk is done without another.
Unfinished(h) == h.is = "active" /\ h.next < Total
Finished(h) == IF h.is = "active" /\ h.next = Total THEN [h EXCEPT !.is = "done"] ELSE h

BeginUploads(p, state) ==
  /\ Go(p, "uploads")
  /\ holders' = [holders EXCEPT ![p] = [n \in Nodes |-> Finished(state[n])]]
  /\ task' = [task EXCEPT ![p] =
       [n \in Nodes |-> IF Unfinished(state[n]) THEN [at |-> "post", retries |-> 0] ELSE NoTask]]

\* Enough holders: the pass stores the book, or leaves that to a later one.
Pushed(p) ==
  /\ Go(p, "over")
  /\ \/ UNCHANGED <<status, row>>
     \/ status = "pending_confirmation" /\ status' = "pending_stake" /\ Save(p)
  /\ UNCHANGED <<holders, task>>

\* Bug: nodes that are still being sent the book are enough.
LoopCountsActive(p) ==
  /\ at[p] = "loop"
  /\ IF Need(p) <= 0 THEN Pushed(p)
     ELSE Go(p, "probe") /\ UNCHANGED <<status, row, holders, task>>
  /\ UNCHANGED received

\* while (done < minHolders)
Loop(p) ==
  /\ at[p] = "loop"
  /\ IF Cardinality(Done(p)) >= MinHolders
       THEN Pushed(p)
     ELSE IF Need(p) > 0
       THEN Go(p, "probe") /\ UNCHANGED <<status, row, holders, task>>
       ELSE BeginUploads(p, holders[p]) /\ UNCHANGED <<status, row>>
  /\ UNCHANGED received

\* The object with the nodes that were found.
With(state, fresh) ==
  [n \in Nodes |-> IF n \in fresh
                     THEN [next |-> 1, is |-> IF Total <= 1 THEN "done" ELSE "active"]
                     ELSE state[n]]

\* Chunk 0 is answered 200 by some candidates; of each block the fastest is taken,
\* and no more than are needed.
Probe(p) ==
  /\ at[p] = "probe"
  /\ \E ok \in SUBSET Candidates(p) : \E fresh \in SUBSET ok :
       /\ Apart(fresh)
       /\ Cardinality(fresh) = Smaller(Need(p), Cardinality({BlockOf[n] : n \in ok}))
       /\ received' = [n \in Nodes |-> received[n] \cup (IF n \in ok THEN {0} ELSE {})]
       /\ IF fresh = {} /\ Active(p) = {}
            THEN Go(p, "throws") /\ UNCHANGED <<holders, task>>      \* no_long_term_nodes
            ELSE BeginUploads(p, With(holders[p], fresh))
  /\ UNCHANGED <<status, row>>

\* Chunk 0 is called invalid by two nodes and accepted by none.
ProbeIsFatal(p) ==
  /\ at[p] = "probe" /\ Cardinality(Candidates(p)) >= 2 /\ Go(p, "fatal")
  /\ UNCHANGED <<status, row, holders, task, received>>

\* Promise.all() of the uploads: all have returned.
AllReturned(p) ==
  /\ at[p] = "uploads" /\ \A n \in Nodes : task[p][n].at \in {"none", "ended"}
  /\ Save(p) /\ Go(p, "loop")
  /\ UNCHANGED <<status, holders, task, received>>

\* catch: what was reached is saved, and the next pass tries again; or the row fails.
Caught(p) ==
  /\ at[p] \in {"throws", "fatal"}
  /\ Save(p) /\ Go(p, "over")
  /\ status' = IF at[p] = "fatal" /\ status = "pending_confirmation" THEN "storage_failed" ELSE status
  /\ UNCHANGED <<holders, task, received>>

\* catch: the save fails as well.
CaughtUnsaved(p) ==
  /\ at[p] \in {"throws", "fatal"} /\ Go(p, "over")
  /\ UNCHANGED <<status, row, holders, task, received>>

-----------------------------------------------------------------------------
(* uploadTo(): one node, its chunks in order.                              *)

SetTask(p, n, point, retries) ==
  task' = [task EXCEPT ![p][n] = [at |-> point, retries |-> retries]]

\* Promise.all() rejects with the first that throws.
Throws(p, n, point) ==
  /\ SetTask(p, n, "ended", 0)
  /\ at' = IF at[p] = "uploads" THEN [at EXCEPT ![p] = point] ELSE at

\* After a chunk: done behind the last one.
Advanced(h, next) == [next |-> next, is |-> IF next = Total THEN "done" ELSE h.is]

\* Bug: a chunk counts when it is sent.
AcceptsSent(p, n) ==
  LET next == holders[p][n].next + 1 IN
  /\ received' \in {received, [received EXCEPT ![n] = @ \cup {next - 1}]}
  /\ holders' = [holders EXCEPT ![p][n] = Advanced(@, next)]
  /\ SetTask(p, n, IF next = Total THEN "ended" ELSE IF next % SaveEvery = 0 THEN "save" ELSE "post", 0)

\* Status 200: the chunk counts, and every tenth is saved.
Accepts(p, n) ==
  LET next == holders[p][n].next + 1 IN
  /\ received' = [received EXCEPT ![n] = @ \cup {next - 1}]
  /\ IF next % SaveEvery = 0
       THEN /\ holders' = [holders EXCEPT ![p][n].next = next]
            /\ SetTask(p, n, "save", 0)
       ELSE /\ holders' = [holders EXCEPT ![p][n] = Advanced(@, next)]
            /\ SetTask(p, n, IF next = Total THEN "ended" ELSE "post", 0)

Drops(p, n) ==
  /\ holders' = [holders EXCEPT ![p][n].is = "failed"]
  /\ SetTask(p, n, "ended", 0)
  /\ UNCHANGED received

\* Status 303 drops the node, as do errors once it has no retry left.
PostChunk(p, n) ==
  /\ task[p][n].at = "post"
  /\ \/ Accepts(p, n) /\ UNCHANGED at
     \/ Drops(p, n) /\ UNCHANGED at
     \/ /\ task[p][n].retries < ChunkRetries
        /\ SetTask(p, n, "post", task[p][n].retries + 1)
        /\ UNCHANGED <<at, holders, received>>
     \/ Throws(p, n, "fatal") /\ UNCHANGED <<holders, received>>
  /\ UNCHANGED <<status, row>>

SaveProgress(p, n) ==
  /\ task[p][n].at = "save"
  /\ \/ /\ Save(p)
        /\ holders' = [holders EXCEPT ![p][n] = Advanced(@, @.next)]
        /\ SetTask(p, n, IF holders[p][n].next = Total THEN "ended" ELSE "post", 0)
        /\ UNCHANGED at
     \/ Throws(p, n, "throws") /\ UNCHANGED <<row, holders>>  \* the update fails
  /\ UNCHANGED <<status, received>>

\* The process ends: its pass and all of its uploads with it.
Restart ==
  /\ \E p \in Pass : at[p] \notin {"next", "over"}
  /\ at' = [p \in Pass |-> IF at[p] = "next" THEN "next" ELSE "over"]
  /\ task' = [p \in Pass |-> [n \in Nodes |-> NoTask]]
  /\ UNCHANGED <<status, row, holders, received>>

PassStep(p) ==
  \/ Start(p) \/ Loop(p) \/ Probe(p) \/ ProbeIsFatal(p) \/ AllReturned(p)
  \/ Caught(p) \/ CaughtUnsaved(p)

TaskStep(p, n) == PostChunk(p, n) \/ SaveProgress(p, n)

Next ==
  \/ \E p \in Pass : PassStep(p) \/ \E n \in Nodes : TaskStep(p, n)
  \/ Restart

\* Every request is answered or times out, and the loop takes up what is answered.
Fairness ==
  /\ \A p \in Pass : WF_vars(PassStep(p))
  /\ \A p \in Pass, n \in Nodes : WF_vars(TaskStep(p, n))

Spec == Init /\ [][Next]_vars /\ Fairness

-----------------------------------------------------------------------------
(* Properties                                                              *)

States == {row} \cup {holders[p] : p \in Pass}

\* A holder that counts as done, in the row or in any pass, was sent and answered
\* 200 to every chunk, by whatever passes, resumed wherever they stopped.
DoneHasEveryChunk ==
  \A s \in States : \A n \in Those(s, "done") : received[n] = Chunks

\* The holders a state counts on are in different /24 blocks, and never more are
\* sent the book than are needed, also when a dropped one was replaced.
HoldersAreApart ==
  \A s \in States :
    LET used == Those(s, "done") \cup Those(s, "active")
    IN  Apart(used) /\ Cardinality(used) <= MinHolders

\* Nodes that have the whole book.
Whole == {n \in Nodes : received[n] = Chunks}

Spread(S) == Apart(S) /\ Cardinality(S) <= MinHolders

Replicated ==
  INSTANCE Replication WITH
    copies <- Whole, counted <- Those(row, "done"),
    SpreadSets <- {S \in SUBSET Nodes : Spread(S)},
    HolderSets <- {S \in SUBSET Nodes : Spread(S) /\ Cardinality(S) = MinHolders}

\* The push, with its chunks, retries, saved states and uploads that outlive their pass,
\* does no more than Replication allows: the row counts only nodes that have the
\* whole book and lie apart, and the book is stored with as many of them as are wanted.
ImplementsReplication == Replicated!Spec

\* A push comes to an end, whatever the nodes answer: with enough holders, or with
\* an error once no node is left that was not tried.
PushEnds == \A p \in Pass : at[p] \notin {"next", "over"} ~> at[p] = "over"

\* "calling again with the saved state resumes where it stopped"
\* (controller/arweave.js:408-409): what a row says was sent is not taken back.
ResumesWhereItStopped ==
  [][\A n \in Nodes : row[n].next <= row'[n].next]_vars
=============================================================================
