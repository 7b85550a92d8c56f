------------------------ MODULE StorageWorkerProofs ------------------------
(***************************************************************************)
(* Proofs about StorageWorker, for any number of books and nodes, any      *)
(* depth of a header, any margins that satisfy MarginAssumption, and any   *)
(* number of crashes and faults.                                           *)
(*                                                                         *)
(*   1. types: TypeOK is inductive;                                        *)
(*   2. the inductive invariant IInv: what a pass, the tick and            *)
(*      registerStored() know stays true while the others move;            *)
(*   3. the lifecycle of a book (module BookLifecycle) is implemented;     *)
(*   4. the safety properties, as consequences of IInv.                    *)
(*                                                                         *)
(* The argument turns on Kept(b): what a pass has learned of a book before *)
(* an await (its header is dead, its block is settled, enough nodes hold   *)
(* it, it is stored) is still so after the await, so that a decision taken *)
(* on it is right however stale the row has become.                        *)
(***************************************************************************)
EXTENDS StorageWorker, FiniteSetTheorems, TLAPS

-----------------------------------------------------------------------------
(* 1. Types.                                                               *)

\* What a pass may have seen of its transaction.
Seen == {"none", "pending", "not_found", "mined", "final"}

\* The updates of its locals that a pass makes keep their types.
LEMMA PassUpdate ==
  ASSUME NEW p \in Pass, NEW x \in PassPoint, NEW s \in Seen, NEW t \in Nat,
         NEW r \in BOOLEAN, NEW w \in FailReason
  PROVE  /\ [p EXCEPT !.at = x] \in Pass
         /\ [p EXCEPT !.seen = s, !.at = x] \in Pass
         /\ [p EXCEPT !.tip = t, !.at = x] \in Pass
         /\ [p EXCEPT !.refused = r, !.at = x] \in Pass
         /\ [p EXCEPT !.why = w, !.at = x] \in Pass
  BY DEF Pass, Seen

\* A pass that has not started, and the state of a new row, are well typed.
LEMMA FreshPass == NoPass \in Pass /\ FreshState \in UploaderState
  BY DEF NoPass, Pass, FreshState, UploaderState, PassPoint

\* So is every pass after one of them goes on with well-typed locals,
LEMMA ContinueType ==
  ASSUME TypeOK, NEW b \in Books, NEW p \in Pass, Continue(b, p)
  PROVE  pass' \in [Books -> Pass]
  BY DEF Continue, TypeOK, WorkerTypeOK

\* or moves to another point,
LEMMA GoType ==
  ASSUME TypeOK, NEW b \in Books, NEW x \in PassPoint, Go(b, x)
  PROVE  pass' \in [Books -> Pass]
  BY PassUpdate, ContinueType DEF Go, Seen, FailReason, TypeOK, WorkerTypeOK

\* or ends.
LEMMA EndPassType ==
  ASSUME TypeOK, NEW b \in Books, EndPass(b)
  PROVE  pass' \in [Books -> Pass]
  BY FreshPass, ContinueType DEF EndPass

\* Counted misses are numbers.
LEMMA MissesType ==
  ASSUME TypeOK, NEW b \in Books, NEW ok
  PROVE  Misses(b, ok) \in [Nodes -> Nat]
  BY DEF Misses, TypeOK, WorkerTypeOK, Pass, UploaderState

\* Every step of a pass leaves well-typed passes.
LEMMA PassType ==
  ASSUME TypeOK, NEW b \in Books, PassStep(b) \/ PassThrows(b)
  PROVE  pass' \in [Books -> Pass]
<1>p. pass[b] \in Pass BY DEF TypeOK, WorkerTypeOK
<1>s. /\ pass[b].state \in UploaderState
      /\ pass[b].state.done \in SUBSET Nodes
      /\ pass[b].state.failed \in SUBSET Nodes
  BY <1>p DEF Pass, UploaderState
<1>1. CASE ReadStatus(b)
  <2>1. PICK s \in Seen : Continue(b, [pass[b] EXCEPT !.seen = s,
                      !.at = IF s \in {"mined", "final"} THEN "spool_check" ELSE "tip"])
    BY <1>1 DEF ReadStatus, StatusAnswers, Seen
  <2> QED BY <2>1, <1>p, PassUpdate, ContinueType DEF FailReason, PassPoint
<1>2. CASE ReadTip(b)
  <2>1. PICK v \in View :
       Continue(b, [pass[b] EXCEPT !.tip = v,
                      !.at = IF v > Deadline(b) THEN "last_post"
                             ELSE IF pass[b].seen = "not_found" /\ RepostDue(b, v)
                               THEN "repost" ELSE "clear_error"])
    BY <1>2 DEF ReadTip
  <2>2. v \in Nat BY DEF View
  <2> QED BY <2>1, <2>2, <1>p, PassUpdate, ContinueType DEF FailReason, Seen, PassPoint
<1>3. CASE LastPost(b)
  BY <1>3, <1>p, PassUpdate, ContinueType DEF LastPost, PassPoint, FailReason, Seen
<1>4. CASE Recheck(b)
  <2>1. \/ \E s \in Seen : Continue(b, [pass[b] EXCEPT !.seen = s, !.at = "spool_check"])
        \/ Continue(b, [pass[b] EXCEPT !.why = "header_not_mined", !.at = "failing"])
        \/ Go(b, "clear_error")
    BY <1>4 DEF Recheck, StatusAnswers, Seen
  <2> QED BY <2>1, <1>p, PassUpdate, ContinueType, GoType DEF FailReason, Seen, PassPoint
<1>5. CASE Repost(b)
  <2>1. PICK r \in BOOLEAN : Continue(b, [pass[b] EXCEPT !.refused = r, !.at = "save_repost",
                                   !.state.lastPost = pass[b].tip])
    BY <1>5 DEF Repost
  <2>2. [pass[b] EXCEPT !.refused = r, !.at = "save_repost", !.state.lastPost = pass[b].tip] \in Pass
    BY <1>p DEF Pass, UploaderState, PassPoint
  <2> QED BY <2>1, <2>2, ContinueType
<1>6. CASE SaveRepost(b)
  BY <1>6, GoType, EndPassType DEF SaveRepost, PassPoint
<1>7. CASE SpoolCheck(b)
  <2> DEFINE p == [pass[b] EXCEPT !.haveSpool = b \in spool]
  <2>1. p \in Pass
    <3>1. \A r \in BOOLEAN : [pass[b] EXCEPT !.haveSpool = r] \in Pass BY <1>p DEF Pass
    <3>2. (b \in spool) \in BOOLEAN OBVIOUS
    <3> QED BY <3>1, <3>2, Zenon
  <2>2. \/ Continue(b, [p EXCEPT !.at = AfterPush(b)])
        \/ Continue(b, [p EXCEPT !.why = "spool_missing", !.at = "failing"])
        \/ Continue(b, [p EXCEPT !.at = "clear_error"])
        \/ Continue(b, [p EXCEPT !.at = "push"])
    BY <1>7 DEF SpoolCheck
  <2> HIDE DEF p
  <2>3. /\ {AfterPush(b), "clear_error", "push", "failing"} \subseteq PassPoint
        /\ "spool_missing" \in FailReason \cup {"none"}
    <3>1. AfterPush(b) = "verify" \/ AfterPush(b) = "clear_error" BY DEF AfterPush
    <3> QED BY <3>1 DEF PassPoint, FailReason
  <2>4. /\ [p EXCEPT !.at = AfterPush(b)] \in Pass
        /\ [p EXCEPT !.why = "spool_missing", !.at = "failing"] \in Pass
        /\ [p EXCEPT !.at = "clear_error"] \in Pass
        /\ [p EXCEPT !.at = "push"] \in Pass
    BY <2>1, <2>3 DEF Pass
  <2> QED BY <2>2, <2>4, ContinueType
<1>8. CASE PushNode(b)
  <2>1. PICK n \in Nodes :
          \/ Continue(b, [pass[b] EXCEPT !.state.done = @ \cup {n}])
          \/ Continue(b, [pass[b] EXCEPT !.state.failed = @ \cup {n}])
    BY <1>8 DEF PushNode, Candidates
  <2>2. [pass[b] EXCEPT !.state.done = @ \cup {n}] \in Pass BY <1>p, <1>s DEF Pass, UploaderState
  <2>3. [pass[b] EXCEPT !.state.failed = @ \cup {n}] \in Pass BY <1>p, <1>s DEF Pass, UploaderState
  <2> QED BY <2>1, <2>2, <2>3, ContinueType
<1>9. CASE PushDone(b) \/ SavePush(b)
  BY <1>9, GoType DEF PushDone, SavePush, PassPoint, AfterPush
<1>10. CASE PushFails(b)
  <2>1. \/ \E why \in {"none", "chunk_fatal"} :
             Continue(b, [pass[b] EXCEPT !.why = why, !.at = "save_push"])
        \/ Go(b, "save_push")
    BY <1>10 DEF PushFails
  <2>2. \A why \in {"none", "chunk_fatal"} :
          [pass[b] EXCEPT !.why = why, !.at = "save_push"] \in Pass
    BY <1>p DEF Pass, PassPoint, FailReason
  <2> QED BY <2>1, <2>2, ContinueType, GoType DEF PassPoint
<1>11. CASE Verify(b)
  <2>1. PICK ok \in Served(b), D \in SUBSET Nodes :
          \/ Continue(b, [pass[b] EXCEPT !.at = "mark_stored", !.state.misses = Misses(b, ok),
                                              !.state.verified = ok])
          \/ Continue(b, [pass[b] EXCEPT !.at = "save_verify", !.state.misses = Misses(b, ok),
                                              !.state.done = @ \ D,
                                              !.state.failed = @ \cup D])
    BY <1>11, <1>s DEF Verify
  <2>2. ok \in SUBSET Nodes BY <1>s DEF Served
  <2>3. Misses(b, ok) \in [Nodes -> Nat] BY MissesType
  <2>4. [pass[b] EXCEPT !.at = "mark_stored", !.state.misses = Misses(b, ok), !.state.verified = ok] \in Pass
    BY <1>p, <2>2, <2>3 DEF Pass, UploaderState, PassPoint
  <2>5. [pass[b] EXCEPT !.at = "save_verify", !.state.misses = Misses(b, ok),
                        !.state.done = @ \ D, !.state.failed = @ \cup D] \in Pass
    BY <1>p, <1>s, <2>3 DEF Pass, UploaderState, PassPoint
  <2> QED BY <2>1, <2>4, <2>5, ContinueType
<1>12. CASE SaveVerify(b) \/ DropFailed(b) \/ ClearError(b) \/ HandleError(b)
  BY <1>12, EndPassType DEF SaveVerify, DropFailed, ClearError, HandleError
<1>13. CASE MarkStored(b)
  BY <1>13, EndPassType, GoType DEF MarkStored, PassPoint
<1>14. CASE FailRow(b)
  BY <1>14, EndPassType, GoType DEF FailRow, PassPoint
<1>15. CASE DropSpool(b) \/ PassRegisters(b) \/ PassThrows(b)
  BY <1>15, EndPassType, GoType DEF DropSpool, PassRegisters, PassThrows, PassPoint
<1> QED
  BY <1>1, <1>2, <1>3, <1>4, <1>5, <1>6, <1>7, <1>8, <1>9, <1>10, <1>11, <1>12, <1>13, <1>14, <1>15
  DEF PassStep, HeaderStep, DataStep, OutcomeStep

\* The updates of the tick keep its type.
LEMMA TickUpdate ==
  ASSUME NEW t \in Tick, NEW x \in TickPoint, NEW S \in SUBSET Books, NEW n \in Nat
  PROVE  /\ NoTick \in Tick
         /\ [t EXCEPT !.at = x] \in Tick
         /\ [t EXCEPT !.todo = S] \in Tick
         /\ [t EXCEPT !.at = x, !.todo = S] \in Tick
         /\ [t EXCEPT !.todo = S, !.attempted = n] \in Tick
         /\ [t EXCEPT !.at = x, !.attempted = n] \in Tick
  BY DEF Tick, NoTick, TickPoint

\* The types hold at the start.
LEMMA TypeInit == Init => TypeOK
<1> SUFFICES ASSUME Init PROVE TypeOK OBVIOUS
<1>1. ChainTypeOK BY DEF Init, ChainInit, ChainTypeOK
<1>2. pass \in [Books -> Pass] /\ uploaderState \in [Books -> UploaderState]
      /\ snapshot \in [Books -> UploaderState]
  BY FreshPass DEF Init, NoSnapshot
<1>3. tick \in Tick BY DEF Init, NoTick, Tick, TickPoint
<1> QED BY <1>1, <1>2, <1>3 DEF Init, TypeOK, WorkerTypeOK, Status, FailReason, RequestPoint, Keeping

\* A view is a height the chain has reached.
LEMMA ViewType == ASSUME TypeOK, NEW v \in View PROVE v \in Nat /\ v <= height
  BY DEF View, TypeOK, ChainTypeOK

\* The types hold after a step of POST /api/upload,
LEMMA RequestType ==
  ASSUME TypeOK, NEW b \in Books, RequestStep(b)
  PROVE  TypeOK'
<1> USE DEF TypeOK, ChainTypeOK, WorkerTypeOK, chainVars, rowVars, worldVars,
            tickVars, registrationVars
<1>1. Cardinality(Books \ WithStatus("absent")) \in Nat
  BY WorkerAssumption, FS_Difference, FS_CardinalityType DEF WorkerAssumption
<1>2. CASE WriteSpool(b) BY <1>2 DEF WriteSpool, SignHeader, RequestPoint
<1>3. CASE CreateRow(b) BY <1>1, <1>3 DEF CreateRow, InsertRow, Status, RequestPoint
<1>6. CASE CreateReplyLost(b)
  BY <1>1, <1>6 DEF CreateReplyLost, InsertRow, Status, RequestPoint, Fault
<1>4. CASE CreateRowFails(b) BY <1>4 DEF CreateRowFails, RequestPoint, Fault
<1>5. CASE FirstPost(b) BY <1>5 DEF FirstPost, PostHeader, RequestPoint
<1> QED BY <1>2, <1>3, <1>4, <1>5, <1>6 DEF RequestStep

\* ... of a pass,
LEMMA PassStepType ==
  ASSUME TypeOK, NEW b \in Books, PassStep(b) \/ PassThrows(b)
  PROVE  TypeOK'
<1> USE DEF TypeOK, ChainTypeOK, WorkerTypeOK, chainVars, rowVars, worldVars,
            tickVars, registrationVars, processVars
<1>p. pass' \in [Books -> Pass] BY PassType
<1>s. pass[b].state \in UploaderState /\ pass[b].why \in FailReason \cup {"none"} BY DEF Pass
<1>1. CASE HeaderStep(b)
  <2>1. CASE ReadStatus(b) \/ ReadTip(b) \/ Recheck(b)
    BY <2>1, <1>p DEF ReadStatus, ReadTip, Recheck
  <2>2. CASE LastPost(b)
    BY <2>2, <1>p DEF LastPost, PostHeader
  <2>3. CASE Repost(b)
    BY <2>3, <1>p DEF Repost, PostHeader
  <2>4. CASE SaveRepost(b)
    BY <2>4, <1>p, <1>s DEF SaveRepost, SaveState
  <2> QED BY <1>1, <2>1, <2>2, <2>3, <2>4 DEF HeaderStep
<1>2. CASE SpoolCheck(b) \/ Verify(b)
  BY <1>2, <1>p DEF SpoolCheck, Verify
<1>9. CASE PushFails(b)
  BY <1>9, <1>p DEF PushFails, Fault
<1>10. CASE PushDone(b) \/ SavePush(b) \/ SaveVerify(b)
  BY <1>10, <1>p, <1>s DEF PushDone, SavePush, SaveVerify, SaveState
<1>3. CASE PushNode(b)
  <2>1. pass'[b].state \in UploaderState BY <1>p DEF Pass
  <2>2. kept' = kept \/ \E n \in Nodes, S \in SUBSET Chunks :
                           kept' = [kept EXCEPT ![b][n] = @ \cup S]
    BY <1>3, SampleAssumption DEF PushNode, Candidates, SampleAssumption
  <2>3. ASSUME NEW n \in Nodes, NEW S \in SUBSET Chunks
        PROVE  [kept EXCEPT ![b][n] = @ \cup S] \in [Books -> Keeping]
    <3>1. kept \in [Books -> Keeping] OBVIOUS
    <3>2. [kept[b] EXCEPT ![n] = @ \cup S] \in Keeping BY <3>1 DEF Keeping
    <3> QED BY <3>1, <3>2
  <2>4. kept' \in [Books -> Keeping] BY <2>2, <2>3
  <2> QED BY <1>3, <1>p, <2>1, <2>4 DEF PushNode
<1>4. CASE MarkStored(b)
  BY <1>4, <1>p, <1>s DEF MarkStored, Fault, Status
<1>5. CASE DropSpool(b)
  BY <1>5, <1>p DEF DropSpool, BestEffort, Fault
<1>6. CASE FailRow(b)
  BY <1>6, <1>p, <1>s DEF FailRow, Fault, Status
<1>7. CASE DropFailed(b) \/ ClearError(b) \/ HandleError(b)
  BY <1>7, <1>p DEF DropFailed, ClearError, HandleError, WriteError, BestEffort, Fault
<1>8. CASE PassRegisters(b) \/ PassThrows(b)
  BY <1>8, <1>p DEF PassRegisters, PassThrows, Fault
<1> QED BY <1>1, <1>2, <1>3, <1>4, <1>5, <1>6, <1>7, <1>8, <1>9, <1>10 DEF PassStep, DataStep, OutcomeStep

\* ... of registerStored(), POST /register or the listener,
LEMMA RegistrationType ==
  ASSUME TypeOK, NEW b \in Books, RegistrationStep(b) \/ OutsideStep(b)
  PROVE  TypeOK'
<1> USE DEF TypeOK, ChainTypeOK, WorkerTypeOK, chainVars, rowVars, worldVars,
            tickVars, registrationVars
<1>1. CASE RegisterMined(b) \/ ApiRegisters(b) \/ BackoffElapses(b)
  BY <1>1 DEF RegisterMined, ApiRegisters, BackoffElapses
<1>2. CASE RegistrationSeen(b)
  BY <1>2 DEF RegistrationSeen, MarkRegistered, Status
<1>3. ASSUME ReturnToCaller(b) PROVE pass' \in [Books -> Pass] /\ tick' \in Tick
             /\ registering' \in [Books -> {"no", "call", "record"}]
  <2>1. [tick EXCEPT !.at = "retry", !.todo = @ \ {b}] \in Tick BY DEF Tick, TickPoint
  <2> QED BY <1>3, <2>1, EndPassType DEF ReturnToCaller
<1>4. CASE RegisterReturns(b)
  BY <1>3, <1>4 DEF RegisterReturns, RegistrationFails, Fault
<1>5. CASE RegisterRecorded(b)
  BY <1>3, <1>5 DEF RegisterRecorded, MarkRegistered, Status
<1>6. CASE RegisterRecordThrows(b)
  <2>1. pass' \in [Books -> Pass]
    BY <1>6, GoType DEF RegisterRecordThrows, PassPoint
  <2>2. tick' \in Tick
    BY <1>6, TickUpdate DEF RegisterRecordThrows, TickPoint
  <2>3. registering' \in [Books -> {"no", "call", "record"}] /\ faults' \in Nat
    BY <1>6 DEF RegisterRecordThrows, Fault
  <2> QED BY <1>6, <2>1, <2>2, <2>3 DEF RegisterRecordThrows
<1> QED BY <1>1, <1>2, <1>4, <1>5, <1>6 DEF RegistrationStep, OutsideStep

\* ... of the tick,
LEMMA TickType ==
  ASSUME TypeOK, TickStep
  PROVE  TypeOK'
<1> USE DEF TypeOK, ChainTypeOK, WorkerTypeOK, chainVars, rowVars, worldVars,
            tickVars, registrationVars
<1>n. NoSnapshot \in [Books -> UploaderState] /\ NoTick \in Tick
  BY FreshPass DEF NoSnapshot, NoTick, Tick, TickPoint
<1>t. ASSUME NEW S, TakeSnapshot(S) PROVE snapshot' \in [Books -> UploaderState]
  BY <1>t, FreshPass DEF TakeSnapshot
<1>1. CASE TickQuery
  BY <1>1, <1>t DEF TickQuery, Oldest, WithStatus, Tick, TickPoint, NoTick
<1>2. CASE TickDispatch
  <2>1. pass' \in [Books -> Pass]
    BY <1>2 DEF TickDispatch, Tick, NoPass, Pass, PassPoint
  <2> QED BY <1>2, <2>1, <1>n DEF TickDispatch, Tick, TickPoint, NoTick
<1>3. CASE RetryQuery \/ RetryEnds
  <2>1. Oldest(WithStatus("pending_stake")) \in SUBSET Books BY DEF Oldest, WithStatus
  <2>2. /\ [NoTick EXCEPT !.at = "retry", !.todo = Oldest(WithStatus("pending_stake"))] \in Tick
        /\ [NoTick EXCEPT !.at = "monitor_query"] \in Tick
    BY <2>1 DEF Tick, TickPoint, NoTick
  <2> QED BY <1>3, <2>2 DEF RetryQuery, RetryEnds
<1>4. CASE MonitorQuery
  <2>1. PICK due \in SUBSET Watched :
          /\ tick' = IF due = {} THEN NoTick ELSE [NoTick EXCEPT !.at = "monitor", !.todo = due]
          /\ TakeSnapshot(due)
    BY <1>4 DEF MonitorQuery
  <2>2. due \in SUBSET Books BY DEF Watched, WithStatus
  <2> QED BY <1>4, <1>t, <2>1, <2>2, <1>n DEF MonitorQuery, Tick, TickPoint, NoTick
<1>5. CASE TickThrows
  BY <1>5, <1>n DEF TickThrows, Tick, TickPoint, NoTick, Fault
<1>6. ASSUME NEW b \in Books, RetryNext(b) PROVE TypeOK'
  <2>1. /\ tick \in Tick
        /\ tick.todo \ {b} \in SUBSET Books
        /\ tick.attempted + 1 \in Nat
        /\ {"retry", "registering"} \subseteq TickPoint
    BY DEF Tick, TickPoint
  <2>2. /\ [tick EXCEPT !.todo = @ \ {b}] \in Tick
        /\ [tick EXCEPT !.todo = @ \ {b}, !.attempted = @ + 1] \in Tick
        /\ [tick EXCEPT !.at = "registering", !.attempted = @ + 1] \in Tick
    BY <2>1, TickUpdate
  <2>3. tick' \in Tick BY <1>6, <2>2 DEF RetryNext
  <2>4. registering' \in [Books -> {"no", "call", "record"}] BY <1>6 DEF RetryNext
  <2> QED BY <1>6, <2>3, <2>4 DEF RetryNext
<1>7. ASSUME NEW b \in Books, MonitorRow(b) PROVE TypeOK'
  BY <1>7, <1>n DEF MonitorRow, Tick
<1> QED BY <1>1, <1>2, <1>3, <1>4, <1>5, <1>6, <1>7 DEF TickStep

\* ... and so after every step.
LEMMA TypeNext == TypeOK /\ [Next]_vars => TypeOK'
<1> SUFFICES ASSUME TypeOK, [Next]_vars PROVE TypeOK' OBVIOUS
<1>1. CASE ChainMoves
  BY <1>1 DEF ChainMoves, NextBlock, TypeOK, ChainTypeOK, WorkerTypeOK, rowVars, worldVars,
              tickVars, registrationVars
<1>2. CASE Crash
  BY <1>2, FreshPass
  DEF Crash, Fault, TypeOK, ChainTypeOK, WorkerTypeOK, chainVars, rowVars, worldVars,
      NoTick, Tick, TickPoint, NoSnapshot, RequestPoint
<1>3. CASE UNCHANGED vars
  BY <1>3 DEF vars, TypeOK, ChainTypeOK, WorkerTypeOK, chainVars, rowVars, worldVars,
              tickVars, registrationVars
<1> QED BY <1>1, <1>2, <1>3, RequestType, PassStepType, RegistrationType, TickType DEF Next

\* Every variable keeps a value of its kind, for every number of books and nodes.
THEOREM TypeCorrect == Spec => []TypeOK
<1>1. Init => TypeOK BY TypeInit
<1>2. TypeOK /\ [Next]_vars => TypeOK' BY TypeNext
<1> QED BY <1>1, <1>2, PTL DEF Spec

-----------------------------------------------------------------------------
(* 2. The inductive invariant.                                             *)

\* A row is made after the spool is written, a header signed before either, and
\* only a signed header is ever posted.
RequestInv(b) ==
  /\ request[b] \in {"none", "spooled"} => status[b] = "absent"
  /\ (request[b] = "none") = ~Signed(b)
  /\ b \in mempool => request[b] # "none"

\* The deadline is counted from the anchor or later, and a block holds b only
\* while its header is valid.
ChainInv(b) ==
  /\ anchor[b] <= arweaveAnchorHeight[b]
  /\ minedAt[b] # 0 => /\ b \in mempool
                       /\ anchor[b] < minedAt[b]
                       /\ minedAt[b] <= anchor[b] + AnchorDepth

\* Enough nodes keep what was read back of them before b was stored.
EnoughHolders(b) == HasEnough(Serving(b, ReadAtLeast(b)))

\* What the locals p of a pass on b say is true of the world.  Only of a row that is
\* still pending: a pass that was overtaken may read back less, and stores nothing.
PassOK(b, p) ==
  /\ p.at # "idle" => status[b] # "absent"
  /\ p.at \in {"last_post", "recheck"} => p.tip > Deadline(b) /\ p.tip <= height
  /\ p.at = "failing" => p.why # "none"
  /\ p.why = "header_not_mined" => Dead(b)
  /\ p.seen = "final" => Settled(b)
  /\ p.at \in {"verify", "mark_stored"} => p.seen = "final"
  /\ p.at \in {"push", "verify"} /\ StillPending(b) => p.haveSpool \/ request[b] = "rejected"
  /\ p.at = "mark_stored" /\ StillPending(b) => EnoughHolders(b)
  /\ p.at \in {"drop_spool", "register", "registering"} => Stored(b)
  /\ p.at = "drop_failed" => status[b] = "storage_failed"

\* What the row says is true of the world.
RowInv(b) ==
  /\ verdict[b] = "header_not_mined" => Dead(b)
  /\ Stored(b) => Settled(b) /\ EnoughHolders(b)

\* Only stored books are registered, or about to be, and a transaction whose receipt
\* is being recorded was mined.
RegisterInv(b) ==
  /\ b \in onChain \/ registering[b] # "no" => Stored(b)
  /\ registering[b] = "record" => b \in onChain

\* The rows the tick holds are rows, and those it would register are stored.
TickInv(b) ==
  b \in tick.todo => /\ status[b] # "absent"
                     /\ tick.at \in {"retry", "registering"} => Stored(b)

\* The ciphertext is on the disk as long as it may be needed, or the request has
\* removed it.
SpoolInv(b) ==
  status[b] = "pending_confirmation" \/ request[b] = "spooled"
    => b \in spool \/ request[b] = "rejected"

\* registerStored() runs for b, and it is not the pass on b that awaits it.
TickAwaits(b) == registering[b] # "no" /\ pass[b].at # "registering"

\* ... then the tick awaits it, and no other.
CallerInv(b) ==
  TickAwaits(b) => /\ tick.at = "registering" /\ b \in tick.todo
                   /\ \A c \in Books : TickAwaits(c) => c = b

\* All of it, for every book.
IInv ==
  \A b \in Books : /\ CallerInv(b) /\ RequestInv(b) /\ ChainInv(b) /\ PassOK(b, pass[b]) /\ RowInv(b)
                   /\ RegisterInv(b) /\ TickInv(b) /\ SpoolInv(b)

\* The invariant holds at the start.
LEMMA IInvInit == Init => IInv
<1> SUFFICES ASSUME Init, NEW b \in Books
             PROVE  /\ CallerInv(b) /\ RequestInv(b) /\ ChainInv(b) /\ PassOK(b, pass[b]) /\ RowInv(b)
                    /\ RegisterInv(b) /\ TickInv(b) /\ SpoolInv(b)
  BY DEF IInv
<1>1. /\ pass[b].at = "idle" /\ pass[b].why = "none" /\ pass[b].seen = "none"
      /\ tick.todo = {} /\ tick.at = "idle"
  BY DEF Init, NoPass, NoTick
<1> QED
  BY <1>1 DEF Init, ChainInit, RequestInv, ChainInv, PassOK, RowInv, RegisterInv, TickInv,
              SpoolInv, CallerInv, TickAwaits, Stored, StillPending, Signed

\* A set of nodes with enough holders in it has enough holders.
LEMMA EnoughMonotone ==
  ASSUME NEW T \in SUBSET Nodes, NEW S \in SUBSET T, HasEnough(S)
  PROVE  HasEnough(T)
<1>1. IsFiniteSet(T) BY WorkerAssumption, FS_Subset DEF WorkerAssumption
<1>2. Cardinality(S) <= Cardinality(T) /\ Cardinality(S) \in Nat /\ Cardinality(T) \in Nat
  BY <1>1, FS_Subset, FS_CardinalityType
<1> QED BY <1>2, WorkerAssumption DEF HasEnough, WorkerAssumption

\* What a step may do to the network, as this program sees it.
LEMMA ChainSteps ==
  ASSUME TypeOK, IInv, [Next]_vars
  PROVE  \/ UNCHANGED <<chainVars, arweaveAnchorHeight>>
         \/ \E b \in Books : /\ request[b] # "none" /\ PostHeader(b)
                            /\ UNCHANGED arweaveAnchorHeight
         \/ \E b \in Books : WriteSpool(b)
         \/ ChainMoves
<1> USE DEF rowVars
<1>1. ASSUME NEW b \in Books, CreateRow(b) \/ CreateReplyLost(b) \/ CreateRowFails(b)
      PROVE  UNCHANGED <<chainVars, arweaveAnchorHeight>>
  BY <1>1 DEF CreateRow, CreateReplyLost, CreateRowFails, InsertRow
<1>2. ASSUME NEW b \in Books, FirstPost(b) \/ LastPost(b) \/ Repost(b)
      PROVE  request[b] # "none" /\ PostHeader(b) /\ UNCHANGED arweaveAnchorHeight
  BY <1>2 DEF FirstPost, LastPost, Repost, IInv, RequestInv, PassOK
<1>3. ASSUME NEW b \in Books, ReadStatus(b) \/ ReadTip(b) \/ Recheck(b) \/ SaveRepost(b)
      PROVE  UNCHANGED <<chainVars, arweaveAnchorHeight>>
  BY <1>3 DEF ReadStatus, ReadTip, Recheck, SaveRepost, SaveState
<1>4. ASSUME NEW b \in Books, DataStep(b)
      PROVE  UNCHANGED <<chainVars, arweaveAnchorHeight>>
  BY <1>4 DEF DataStep, SpoolCheck, PushNode, PushDone, PushFails, SavePush, Verify, SaveVerify,
              MarkStored, DropSpool, SaveState
<1>5. ASSUME NEW b \in Books, OutcomeStep(b) \/ PassRegisters(b) \/ PassThrows(b)
      PROVE  UNCHANGED <<chainVars, arweaveAnchorHeight>>
  BY <1>5 DEF OutcomeStep, FailRow, DropFailed, ClearError, HandleError, WriteError,
              PassRegisters, PassThrows
<1>6. ASSUME NEW b \in Books, RegistrationStep(b) \/ OutsideStep(b)
      PROVE  UNCHANGED <<chainVars, arweaveAnchorHeight>>
  BY <1>6 DEF RegistrationStep, RegisterMined, RegisterReturns, RegistrationFails, RegisterRecorded,
              RegisterRecordThrows, MarkRegistered, OutsideStep, ApiRegisters,
              RegistrationSeen, BackoffElapses
<1>7. ASSUME TickStep \/ Crash \/ UNCHANGED vars
      PROVE  UNCHANGED <<chainVars, arweaveAnchorHeight>>
  BY <1>7 DEF TickStep, TickQuery, TickDispatch, RetryQuery, RetryNext, RetryEnds,
              MonitorQuery, MonitorRow, TickThrows, Crash, vars
<1> QED
  BY <1>1, <1>2, <1>3, <1>4, <1>5, <1>6, <1>7 DEF Next, RequestStep, PassStep, HeaderStep

\* What the network has decided stays decided.
LEMMA FateKept ==
  ASSUME TypeOK, IInv, [Next]_vars, NEW c \in Books
  PROVE  (Dead(c) => Dead(c)') /\ (Settled(c) => Settled(c)')
<1> USE ChainAssumption DEF ChainTypeOK, Dead, Settled, Signed
<1>0. /\ height \in Nat /\ minedAt \in [Books -> Nat] /\ anchor \in [Books -> Nat]
      /\ RequestInv(c) /\ ChainInv(c)
  BY DEF TypeOK, IInv
<1>1. CASE UNCHANGED chainVars BY <1>1 DEF chainVars
<1>2. ASSUME NEW b \in Books, PostHeader(b) PROVE (Dead(c) => Dead(c)') /\ (Settled(c) => Settled(c)')
  BY <1>2 DEF PostHeader
<1>3. ASSUME NEW b \in Books, WriteSpool(b) PROVE (Dead(c) => Dead(c)') /\ (Settled(c) => Settled(c)')
  BY <1>0, <1>3 DEF WriteSpool, SignHeader, RequestInv
<1>4. CASE ChainMoves
  <2>1. PICK d \in 0..MaxReorg :
          /\ minedAt' \in [Books -> 0..(height + 1)]
          /\ \A b \in Books :
               IF minedAt[b] # 0 /\ minedAt[b] <= height - d
                 THEN minedAt'[b] = minedAt[b]
                 ELSE minedAt'[b] = 0 \/ CanHold(b, minedAt'[b], d)
    BY <1>4 DEF ChainMoves, NextBlock
  <2>2. height' = height + 1 /\ anchor' = anchor BY <1>4 DEF ChainMoves, NextBlock
  <2>3. minedAt'[c] \in Nat BY <2>1, <1>0
  <2>4. IF minedAt[c] # 0 /\ minedAt[c] <= height - d
          THEN minedAt'[c] = minedAt[c]
          ELSE minedAt'[c] = 0 \/ CanHold(c, minedAt'[c], d)
    BY <2>1
  <2> QED BY <1>0, <2>2, <2>3, <2>4 DEF CanHold
<1> QED BY <1>1, <1>2, <1>3, <1>4, ChainSteps

\* Who writes status and verdict.
LEMMA StatusSteps ==
  ASSUME [Next]_vars
  PROVE  \/ UNCHANGED <<status, verdict>>
         \/ \E b \in Books : (CreateRow(b) \/ CreateReplyLost(b)) /\ InsertRow(b)
         \/ \E b \in Books : FailRow(b) \/ MarkStored(b) \/ MarkRegistered(b)
<1> USE DEF rowVars
<1>1. ASSUME NEW b \in Books, RequestStep(b)
      PROVE  \/ UNCHANGED <<status, verdict>>
             \/ (CreateRow(b) \/ CreateReplyLost(b)) /\ InsertRow(b)
  <2>1. CASE CreateRow(b) BY <2>1 DEF CreateRow
  <2>2. CASE CreateReplyLost(b) BY <2>2 DEF CreateReplyLost
  <2>3. CASE WriteSpool(b) \/ CreateRowFails(b) \/ FirstPost(b)
    BY <2>3 DEF WriteSpool, CreateRowFails, FirstPost
  <2> QED BY <1>1, <2>1, <2>2, <2>3 DEF RequestStep
<1>2. ASSUME NEW b \in Books, HeaderStep(b)
      PROVE  UNCHANGED <<status, verdict>>
  BY <1>2 DEF HeaderStep, ReadStatus, ReadTip, LastPost, Recheck, Repost, SaveRepost, SaveState
<1>3. ASSUME NEW b \in Books, DataStep(b)
      PROVE  UNCHANGED <<status, verdict>> \/ MarkStored(b)
  BY <1>3 DEF DataStep, SpoolCheck, PushNode, PushDone, PushFails, SavePush, Verify, SaveVerify,
              DropSpool, SaveState
<1>4. ASSUME NEW b \in Books, OutcomeStep(b) \/ PassRegisters(b) \/ PassThrows(b)
      PROVE  UNCHANGED <<status, verdict>> \/ FailRow(b)
  BY <1>4 DEF OutcomeStep, DropFailed, ClearError, HandleError, WriteError,
              PassRegisters, PassThrows
<1>5. ASSUME NEW b \in Books, RegistrationStep(b) \/ OutsideStep(b)
      PROVE  UNCHANGED <<status, verdict>> \/ MarkRegistered(b)
  BY <1>5 DEF RegistrationStep, RegisterMined, RegisterReturns, RegistrationFails, RegisterRecorded,
              RegisterRecordThrows, OutsideStep, ApiRegisters, RegistrationSeen, BackoffElapses
<1>6. ASSUME TickStep \/ ChainMoves \/ Crash \/ UNCHANGED vars
      PROVE  UNCHANGED <<status, verdict>>
  BY <1>6 DEF TickStep, TickQuery, TickDispatch, RetryQuery, RetryNext, RetryEnds,
              MonitorQuery, MonitorRow, TickThrows, ChainMoves, Crash, vars
<1> QED
  BY <1>1, <1>2, <1>3, <1>4, <1>5, <1>6 DEF Next, PassStep

\* Chunks are only added to what nodes keep, by pushes.
LEMMA ChunksKept ==
  ASSUME TypeOK, [Next]_vars, NEW c \in Books, NEW n \in Nodes
  PROVE  kept[c][n] \subseteq kept'[c][n]
<1> USE DEF worldVars
<1>0. kept \in [Books -> [Nodes -> SUBSET Chunks]] BY DEF TypeOK, WorkerTypeOK, Keeping
<1>1. ASSUME NEW b \in Books, RequestStep(b) PROVE kept' = kept
  BY <1>1 DEF RequestStep, WriteSpool, CreateRow, CreateReplyLost, CreateRowFails,
    FirstPost
<1>2. ASSUME NEW b \in Books, HeaderStep(b) PROVE kept' = kept
  BY <1>2 DEF HeaderStep, ReadStatus, ReadTip, LastPost, Recheck, Repost, SaveRepost
<1>3. ASSUME NEW b \in Books, DataStep(b), ~PushNode(b) PROVE kept' = kept
  BY <1>3, Zenon DEF DataStep, SpoolCheck, PushDone, PushFails, SavePush, Verify, SaveVerify,
    MarkStored, DropSpool
<1>7. ASSUME NEW b \in Books, PushNode(b) PROVE kept[c][n] \subseteq kept'[c][n]
  <2>1. kept' = kept \/ \E m \in Nodes, S \in Portions : kept' = [kept EXCEPT ![b][m] = @ \cup S]
    BY <1>7 DEF PushNode, Candidates
  <2> QED BY <1>0, <2>1
<1>4. ASSUME NEW b \in Books, OutcomeStep(b) \/ PassRegisters(b) \/ PassThrows(b)
      PROVE  kept' = kept
  BY <1>4 DEF OutcomeStep, FailRow, DropFailed, ClearError, HandleError, PassRegisters, PassThrows
<1>5. ASSUME NEW b \in Books, RegistrationStep(b) \/ OutsideStep(b)
      PROVE  kept' = kept
  BY <1>5 DEF RegistrationStep, RegisterMined, RegisterReturns, RegistrationFails, RegisterRecorded,
              RegisterRecordThrows, OutsideStep, ApiRegisters, RegistrationSeen, BackoffElapses
<1>6. ASSUME TickStep \/ ChainMoves \/ Crash \/ UNCHANGED vars
      PROVE  kept' = kept
  BY <1>6 DEF TickStep, TickQuery, TickDispatch, RetryQuery, RetryNext, RetryEnds,
              MonitorQuery, MonitorRow, TickThrows, ChainMoves, Crash, vars
<1> QED
  BY <1>1, <1>2, <1>3, <1>4, <1>5, <1>6, <1>7 DEF Next, PassStep

\* Who writes request.
LEMMA RequestSteps ==
  ASSUME [Next]_vars
  PROVE  UNCHANGED request \/ Crash \/ \E b \in Books : RequestStep(b)
<1> USE DEF processVars
<1>1. ASSUME NEW b \in Books, HeaderStep(b) PROVE request' = request
  BY <1>1, Zenon DEF HeaderStep, ReadStatus, ReadTip, LastPost, Recheck, Repost, SaveRepost
<1>2. ASSUME NEW b \in Books, DataStep(b) PROVE request' = request
  BY <1>2, Zenon DEF DataStep, SpoolCheck, PushNode, PushDone, PushFails, SavePush, Verify,
    SaveVerify, MarkStored, DropSpool
<1>3. ASSUME NEW b \in Books, OutcomeStep(b) \/ PassRegisters(b) \/ PassThrows(b)
      PROVE  request' = request
  BY <1>3, Zenon DEF OutcomeStep, FailRow, DropFailed, ClearError, HandleError, PassRegisters,
    PassThrows
<1>4. ASSUME NEW b \in Books, RegistrationStep(b) \/ OutsideStep(b) PROVE request' = request
  BY <1>4, Zenon DEF RegistrationStep, RegisterMined, RegisterReturns, RegistrationFails, RegisterRecorded,
    RegisterRecordThrows, OutsideStep, ApiRegisters, RegistrationSeen, BackoffElapses
<1>5. ASSUME TickStep \/ ChainMoves \/ UNCHANGED vars PROVE request' = request
  BY <1>5, Zenon DEF TickStep, TickQuery, TickDispatch, RetryQuery, RetryNext, RetryEnds,
    MonitorQuery, MonitorRow, TickThrows, ChainMoves, vars
<1> QED BY <1>1, <1>2, <1>3, <1>4, <1>5, Zenon DEF Next, PassStep

\* Only create() that reports an error makes a request rejected, and for good.
LEMMA RejectedSteps ==
  ASSUME TypeOK, [Next]_vars, NEW c \in Books
  PROVE  /\ request[c] = "rejected" => request'[c] = "rejected"
         /\ request'[c] = "rejected" => request[c] = "rejected" \/ CreateRowFails(c)
<1>0. request \in [Books -> RequestPoint] BY DEF TypeOK, WorkerTypeOK
<1>1. CASE UNCHANGED request BY <1>1
<1>2. CASE Crash BY <1>0, <1>2 DEF Crash
<1>3. ASSUME NEW b \in Books, RequestStep(b)
      PROVE  /\ request[c] = "rejected" => request'[c] = "rejected"
             /\ request'[c] = "rejected" => request[c] = "rejected" \/ CreateRowFails(c)
  <2>1. CASE CreateRowFails(b)
    <3>1. request' = [request EXCEPT ![b] = "rejected"] BY <2>1 DEF CreateRowFails
    <3> QED BY <1>0, <2>1, <3>1
  <2>2. CASE WriteSpool(b) \/ CreateRow(b) \/ CreateReplyLost(b) \/ FirstPost(b)
    BY <1>0, <2>2 DEF WriteSpool, CreateRow, CreateReplyLost, FirstPost
  <2> QED BY <1>3, <2>1, <2>2 DEF RequestStep
<1> QED BY <1>1, <1>2, <1>3, RequestSteps

\* Nodes that keep what is read back of a book go on doing so, and less may be asked.
LEMMA HoldersKept ==
  ASSUME TypeOK, [Next]_vars, NEW c \in Books
  PROVE  Serving(c, ReadAtLeast(c)) \subseteq Serving(c, ReadAtLeast(c))'
<1>1. ReadAtLeast(c)' \subseteq ReadAtLeast(c)
  BY RejectedSteps, SampleAssumption DEF ReadAtLeast, SampleAssumption
<1>2. \A n \in Nodes : kept[c][n] \subseteq kept'[c][n] BY ChunksKept
<1> QED BY <1>1, <1>2 DEF Serving

\* What holds of a book for good once it holds.
Kept(c) ==
  /\ Dead(c) => Dead(c)'
  /\ Settled(c) => Settled(c)'
  /\ EnoughHolders(c) => EnoughHolders(c)'
  /\ request[c] = "rejected" => request'[c] = "rejected"
  /\ Stored(c) => Stored(c)'
  /\ StillPending(c)' => StillPending(c) \/ status[c] = "absent"
  /\ status[c] = "storage_failed" => status'[c] = "storage_failed"
  /\ status[c] # "absent" => status'[c] # "absent" /\ Deadline(c)' = Deadline(c)
  /\ height <= height'

\* No step takes any of it back.
LEMMA AllKept ==
  ASSUME TypeOK, TypeOK', IInv, [Next]_vars, NEW c \in Books
  PROVE  Kept(c)
<1>0. /\ status \in [Books -> Status] /\ RequestInv(c)
      /\ arweaveAnchorHeight \in [Books -> Nat] /\ height \in Nat
  BY DEF TypeOK, ChainTypeOK, WorkerTypeOK, IInv
<1>1. (Dead(c) => Dead(c)') /\ (Settled(c) => Settled(c)') BY FateKept
<1>2. EnoughHolders(c) => EnoughHolders(c)'
  <2> DEFINE S == Serving(c, ReadAtLeast(c))
  <2>1. S \in SUBSET S' /\ S' \in SUBSET Nodes BY HoldersKept DEF Serving
  <2>2. HasEnough(S) => HasEnough(S') BY <2>1, EnoughMonotone
  <2> QED BY <2>2 DEF EnoughHolders, HasEnough
<1>5. request[c] = "rejected" => request'[c] = "rejected" BY RejectedSteps
<1>3. /\ Stored(c) => Stored(c)'
      /\ status[c] = "storage_failed" => status'[c] = "storage_failed"
      /\ status[c] # "absent" => status'[c] # "absent"
      /\ StillPending(c)' => StillPending(c) \/ status[c] = "absent"
  <2>1. CASE UNCHANGED <<status, verdict>> BY <2>1 DEF Stored, StillPending
  <2>2. ASSUME NEW b \in Books, CreateRow(b) \/ CreateReplyLost(b)
        PROVE  b = c => status[c] = "absent"
    BY <2>2, <1>0 DEF RequestInv, CreateRow, CreateReplyLost
  <2>3. CASE \E b \in Books : (CreateRow(b) \/ CreateReplyLost(b)) /\ InsertRow(b)
    BY <1>0, <2>2, <2>3 DEF InsertRow, Stored, StillPending, Status
  <2>4. CASE \E b \in Books : FailRow(b) \/ MarkStored(b) \/ MarkRegistered(b)
    BY <1>0, <2>4 DEF FailRow, MarkStored, MarkRegistered, StillPending, Stored, Status
  <2> QED BY <2>1, <2>3, <2>4, StatusSteps
<1>4. height <= height' /\ (status[c] # "absent" => Deadline(c)' = Deadline(c))
  <2>1. CASE UNCHANGED <<chainVars, arweaveAnchorHeight>>
    BY <1>0, <2>1 DEF chainVars, Deadline
  <2>2. CASE \E b \in Books : /\ request[b] # "none" /\ PostHeader(b)
                            /\ UNCHANGED arweaveAnchorHeight
    BY <1>0, <2>2 DEF PostHeader, Deadline
  <2>3. CASE \E b \in Books : WriteSpool(b)
    BY <1>0, <2>3 DEF WriteSpool, SignHeader, RequestInv, Deadline
  <2>4. CASE ChainMoves
    BY <1>0, <2>4 DEF ChainMoves, NextBlock, rowVars, Deadline
  <2> QED BY <2>1, <2>2, <2>3, <2>4, ChainSteps
<1> QED BY <1>1, <1>2, <1>3, <1>4, <1>5 DEF Kept

\* So what holds of the locals of a pass goes on holding as the world moves.
LEMMA PassKept ==
  ASSUME TypeOK, TypeOK', NEW c \in Books, Kept(c), NEW p \in Pass, PassOK(c, p)
  PROVE  PassOK(c, p)'
<1>1. p.tip \in Nat /\ height \in Nat /\ height' \in Nat
  BY DEF Pass, TypeOK, ChainTypeOK
<1> QED BY <1>1 DEF PassOK, Kept

\* What Continue does, as a fact about the function.
LEMMA ContinueIs ==
  ASSUME TypeOK, NEW b \in Books, NEW p, Continue(b, p)
  PROVE  pass'[b] = p /\ \A c \in Books \ {b} : pass'[c] = pass[c]
BY DEF Continue, TypeOK, WorkerTypeOK

\* A status of a block with enough confirmations, from a node however far behind.
LEMMA FinalIsSettled ==
  ASSUME TypeOK, NEW b \in Books, NEW v \in View, "final" \in StatusAnswers(b, v)
  PROVE  Settled(b)
<1>1. /\ height \in Nat /\ minedAt[b] \in Nat /\ v \in Nat /\ v <= height
      /\ MaxReorg \in Nat /\ Confirmations \in Nat /\ MaxReorg < Confirmations
  BY ChainAssumption, WorkerAssumption, MarginAssumption
  DEF TypeOK, ChainTypeOK, View, ChainAssumption, WorkerAssumption, MarginAssumption
<1>2. minedAt[b] # 0 /\ v - minedAt[b] + 1 >= Confirmations
  BY DEF StatusAnswers
<1> QED BY <1>1, <1>2 DEF Settled

\* Not mined in the view of a node, past the deadline as read from another.
LEMMA ExpiredIsDead ==
  ASSUME TypeOK, IInv, NEW b \in Books, NEW v \in View, NEW s \in StatusAnswers(b, v),
         s \notin {"mined", "final"}, pass[b].at = "recheck"
  PROVE  Dead(b)
<1>1. /\ height \in Nat /\ minedAt[b] \in Nat /\ anchor[b] \in Nat /\ v \in Nat /\ v <= height
      /\ v + MaxLag >= height /\ arweaveAnchorHeight[b] \in Nat /\ pass[b].tip \in Nat
      /\ MaxReorg \in Nat /\ MaxLag \in Nat /\ AnchorDepth \in Nat /\ DropMargin \in Nat
      /\ MaxReorg <= DropMargin + 1 /\ MaxLag <= DropMargin + 1
  BY ChainAssumption, WorkerAssumption, MarginAssumption
  DEF TypeOK, ChainTypeOK, WorkerTypeOK, View, ChainAssumption, WorkerAssumption, MarginAssumption, Pass
<1>2. minedAt[b] = 0 \/ minedAt[b] > v
  BY <1>1 DEF StatusAnswers
<1>3. pass[b].tip > Deadline(b) /\ pass[b].tip <= height /\ status[b] # "absent"
  BY DEF IInv, PassOK
<1>4. anchor[b] <= arweaveAnchorHeight[b] /\ (minedAt[b] # 0 => minedAt[b] <= anchor[b] + AnchorDepth)
  BY DEF IInv, ChainInv
<1>5. Signed(b) BY <1>3 DEF IInv, RequestInv
<1> QED BY <1>1, <1>2, <1>3, <1>4, <1>5 DEF Dead, Deadline

\* A step of a pass on its own book: one case for each action.
LEMMA PassStepOK ==
  ASSUME TypeOK, TypeOK', IInv, NEW b \in Books, Kept(b), PassStep(b) \/ PassThrows(b)
  PROVE  PassOK(b, pass[b])'
<1> DEFINE p == pass[b]
           q == pass'[b]
<1>0. PassOK(b, p) /\ p \in Pass /\ q \in Pass
  BY DEF IInv, TypeOK, WorkerTypeOK
<1>u. ASSUME PassOK(b, q) PROVE PassOK(b, pass[b])'
  <2>1. PICK r \in Pass : r = q BY <1>0
  <2>2. PassOK(b, r) BY <2>1, <1>u
  <2>3. PassOK(b, r)' BY <2>1, <2>2, PassKept
  <2> QED BY <2>1, <2>3 DEF PassOK
<1>g. ASSUME NEW x, Go(b, x)
      PROVE  /\ q.at = x /\ q.seen = p.seen /\ q.why = p.why /\ q.tip = p.tip
             /\ q.haveSpool = p.haveSpool
  <2>1. q = [p EXCEPT !.at = x] BY <1>g, ContinueIs DEF Go
  <2> QED BY <1>0, <2>1 DEF Pass
<1>e. ASSUME EndPass(b) PROVE PassOK(b, pass[b])'
  <2>1. q = NoPass BY <1>e, ContinueIs DEF EndPass
  <2> QED BY <2>1 DEF PassOK, NoPass
<1>1. CASE ReadStatus(b)
  <2>1. PICK v \in View : \E s \in StatusAnswers(b, v) :
       Continue(b, [pass[b] EXCEPT !.seen = s,
                      !.at = IF s \in {"mined", "final"} THEN "spool_check" ELSE "tip"])
    BY <1>1 DEF ReadStatus
  <2>2. PICK s \in StatusAnswers(b, v) :
       Continue(b, [pass[b] EXCEPT !.seen = s,
                      !.at = IF s \in {"mined", "final"} THEN "spool_check" ELSE "tip"])
    BY <2>1
  <2>3. q = [p EXCEPT !.seen = s,
                      !.at = IF s \in {"mined", "final"} THEN "spool_check" ELSE "tip"]
    BY <2>2, ContinueIs
  <2>4. q.seen = s /\ q.at \in {"spool_check", "tip"} /\ q.why = p.why
    BY <1>0, <2>3 DEF Pass
  <2>5. s = "final" => Settled(b) BY FinalIsSettled
  <2>6. p.at = "status" BY <1>1 DEF ReadStatus
  <2> QED BY <1>0, <1>u, <2>4, <2>5, <2>6 DEF PassOK
<1>2. CASE ReadTip(b)
  <2>1. PICK v \in View : Continue(b, [pass[b] EXCEPT !.tip = v,
                      !.at = IF v > Deadline(b) THEN "last_post"
                             ELSE IF pass[b].seen = "not_found" /\ RepostDue(b, v)
                               THEN "repost" ELSE "clear_error"])
    BY <1>2 DEF ReadTip
  <2>2. q = [p EXCEPT !.tip = v, !.at = IF v > Deadline(b) THEN "last_post"
                             ELSE IF pass[b].seen = "not_found" /\ RepostDue(b, v)
                               THEN "repost" ELSE "clear_error"]
    BY <2>1, ContinueIs
  <2>3. /\ q.at \in {"last_post", "repost", "clear_error"} /\ (q.at = "last_post" => v > Deadline(b))
        /\ q.tip = v /\ q.seen = p.seen /\ q.why = p.why
    BY <1>0, <2>2 DEF Pass
  <2>4. v <= height BY ViewType
  <2>5. p.at = "tip" BY <1>2 DEF ReadTip
  <2> QED BY <1>0, <1>u, <2>3, <2>4, <2>5 DEF PassOK
<1>3. CASE LastPost(b)
  <2>1. PICK r \in BOOLEAN : Continue(b, [pass[b] EXCEPT !.refused = r, !.at = "recheck"])
    BY <1>3 DEF LastPost
  <2>2. q = [p EXCEPT !.refused = r, !.at = "recheck"] BY <2>1, ContinueIs
  <2>3. q.at = "recheck" /\ q.seen = p.seen /\ q.why = p.why /\ q.tip = p.tip
    BY <1>0, <2>2 DEF Pass
  <2>4. p.at = "last_post" BY <1>3 DEF LastPost
  <2> QED BY <1>0, <1>u, <2>3, <2>4 DEF PassOK
<1>4. CASE Recheck(b)
  <2>1. PICK v \in View : \E s \in StatusAnswers(b, v) :
       IF s \in {"mined", "final"}
         THEN Continue(b, [pass[b] EXCEPT !.seen = s, !.at = "spool_check"])
         ELSE IF pass[b].refused \/ PastGrace(b)
           THEN Continue(b, [pass[b] EXCEPT !.why = "header_not_mined", !.at = "failing"])
           ELSE Go(b, "clear_error")
    BY <1>4 DEF Recheck
  <2>2. PICK s \in StatusAnswers(b, v) :
       IF s \in {"mined", "final"}
         THEN Continue(b, [pass[b] EXCEPT !.seen = s, !.at = "spool_check"])
         ELSE IF pass[b].refused \/ PastGrace(b)
           THEN Continue(b, [pass[b] EXCEPT !.why = "header_not_mined", !.at = "failing"])
           ELSE Go(b, "clear_error")
    BY <2>1
  <2>3. p.at = "recheck" BY <1>4 DEF Recheck
  <2>4. CASE s \in {"mined", "final"}
    <3>1. q = [p EXCEPT !.seen = s, !.at = "spool_check"] BY <2>2, <2>4, ContinueIs
    <3>2. q.at = "spool_check" /\ q.seen = s /\ q.why = p.why BY <1>0, <3>1 DEF Pass
    <3>3. s = "final" => Settled(b) BY FinalIsSettled
    <3> QED BY <1>0, <1>u, <2>3, <3>2, <3>3 DEF PassOK
  <2>5. CASE s \notin {"mined", "final"} /\ (pass[b].refused \/ PastGrace(b))
    <3>1. q = [p EXCEPT !.why = "header_not_mined", !.at = "failing"] BY <2>2, <2>5, ContinueIs
    <3>2. q.at = "failing" /\ q.seen = p.seen /\ q.why = "header_not_mined" BY <1>0, <3>1 DEF Pass
    <3>3. Dead(b) BY <2>3, <2>5, ExpiredIsDead
    <3> QED BY <1>0, <1>u, <2>3, <3>2, <3>3 DEF PassOK
  <2>6. CASE s \notin {"mined", "final"} /\ ~(pass[b].refused \/ PastGrace(b))
    BY <1>0, <1>u, <1>g, <2>2, <2>3, <2>6 DEF PassOK
  <2> QED BY <2>4, <2>5, <2>6
<1>5. CASE Repost(b)
  <2>1. PICK r \in BOOLEAN : Continue(b, [pass[b] EXCEPT !.refused = r, !.at = "save_repost",
                                   !.state.lastPost = pass[b].tip])
    BY <1>5 DEF Repost
  <2>2. q = [p EXCEPT !.refused = r, !.at = "save_repost", !.state.lastPost = p.tip]
    BY <2>1, ContinueIs
  <2>3. q.at = "save_repost" /\ q.seen = p.seen /\ q.why = p.why BY <1>0, <2>2 DEF Pass
  <2>4. p.at = "repost" BY <1>5 DEF Repost
  <2> QED BY <1>0, <1>u, <2>3, <2>4 DEF PassOK
<1>6. CASE SaveRepost(b)
  BY <1>0, <1>6, <1>u, <1>g, <1>e DEF SaveRepost, PassOK
<1>7. CASE SpoolCheck(b)
  <2> DEFINE found == [pass[b] EXCEPT !.haveSpool = b \in spool]
  <2>1. p.at = "spool_check" BY <1>7 DEF SpoolCheck
  <2>2. StillPending(b) => b \in spool \/ request[b] = "rejected"
    BY DEF IInv, SpoolInv, StillPending
  <2>3. CASE \E x \in {"verify", "clear_error", "push"} :
               Continue(b, [found EXCEPT !.at = x]) /\ (x = "verify" => p.seen = "final")
    <3>1. PICK x \in {"verify", "clear_error", "push"} :
            Continue(b, [found EXCEPT !.at = x]) /\ (x = "verify" => p.seen = "final")
      BY <2>3
    <3>2. q = [found EXCEPT !.at = x] BY <3>1, ContinueIs
    <3>3. q.at = x /\ q.seen = p.seen /\ q.why = p.why /\ q.haveSpool = (b \in spool)
      BY <1>0, <3>2 DEF Pass
    <3> QED BY <1>0, <1>u, <2>1, <2>2, <3>1, <3>3 DEF PassOK
  <2>4. CASE Continue(b, [found EXCEPT !.why = "spool_missing", !.at = "failing"])
    <3>1. q = [found EXCEPT !.why = "spool_missing", !.at = "failing"] BY <2>4, ContinueIs
    <3>2. q.at = "failing" /\ q.seen = p.seen /\ q.why = "spool_missing" BY <1>0, <3>1 DEF Pass
    <3> QED BY <1>0, <1>u, <2>1, <3>2 DEF PassOK
  <2> QED BY <1>7, <2>3, <2>4 DEF SpoolCheck, AfterPush
<1>8. CASE PushNode(b)
  <2>1. PICK n \in Nodes :
          \/ Continue(b, [pass[b] EXCEPT !.state.done = @ \cup {n}])
          \/ Continue(b, [pass[b] EXCEPT !.state.failed = @ \cup {n}])
    BY <1>8 DEF PushNode, Candidates
  <2>2. \/ q = [p EXCEPT !.state.done = @ \cup {n}]
        \/ q = [p EXCEPT !.state.failed = @ \cup {n}]
    BY <2>1, ContinueIs
  <2>3. /\ q.at = p.at /\ q.seen = p.seen /\ q.why = p.why /\ q.tip = p.tip
        /\ q.haveSpool = p.haveSpool
    BY <1>0, <2>2 DEF Pass
  <2> QED BY <1>0, <1>u, <2>3 DEF PassOK
<1>9. CASE PushDone(b)
  BY <1>0, <1>9, <1>u, <1>g DEF PushDone, AfterPush, PassOK
<1>10. CASE PushFails(b)
  <2>1. p.at = "push" BY <1>10 DEF PushFails
  <2>2. CASE Go(b, "save_push")
    BY <1>0, <1>u, <1>g, <2>1, <2>2 DEF PassOK
  <2>3. ASSUME NEW why \in {"none", "chunk_fatal"},
               Continue(b, [pass[b] EXCEPT !.why = why, !.at = "save_push"])
        PROVE  PassOK(b, pass[b])'
    <3>1. q = [p EXCEPT !.why = why, !.at = "save_push"] BY <2>3, ContinueIs
    <3>2. q.at = "save_push" /\ q.seen = p.seen /\ q.why = why BY <1>0, <3>1 DEF Pass
    <3> QED BY <1>0, <1>u, <2>1, <3>2 DEF PassOK
  <2> QED BY <1>10, <2>2, <2>3 DEF PushFails
<1>11. CASE SavePush(b)
  BY <1>0, <1>11, <1>u, <1>g DEF SavePush, PassOK
<1>12. CASE Verify(b)
  <2>0. p.at = "verify" BY <1>12 DEF Verify
  <2>1. PICK ok \in Served(b), D \in SUBSET pass[b].state.done :
          \/ /\ HasEnough(ok)
             /\ Continue(b, [pass[b] EXCEPT !.at = "mark_stored", !.state.misses = Misses(b, ok),
                                              !.state.verified = ok])
          \/ Continue(b, [pass[b] EXCEPT !.at = "save_verify", !.state.misses = Misses(b, ok),
                                              !.state.done = @ \ D,
                                              !.state.failed = @ \cup D])
    BY <1>12 DEF Verify
  <2>2. CASE /\ HasEnough(ok)
             /\ Continue(b, [pass[b] EXCEPT !.at = "mark_stored", !.state.misses = Misses(b, ok),
                                              !.state.verified = ok])
    <3>1. q = [p EXCEPT !.at = "mark_stored", !.state.misses = Misses(b, ok), !.state.verified = ok]
      BY <2>2, ContinueIs
    <3>2. q.at = "mark_stored" /\ q.seen = p.seen /\ q.why = p.why BY <1>0, <3>1 DEF Pass
    <3>3. ASSUME StillPending(b) PROVE EnoughHolders(b)
      <4>1. p.haveSpool \/ request[b] = "rejected" BY <1>0, <2>0, <3>3 DEF PassOK
      <4>2. ReadAtLeast(b) \subseteq ReadBack(b)
        BY <4>1, SampleAssumption DEF ReadAtLeast, ReadBack, SampleAssumption
      <4>3. /\ Serving(b, ReadAtLeast(b)) \in SUBSET Nodes
            /\ ok \in SUBSET Serving(b, ReadAtLeast(b))
        BY <4>2 DEF Served, Serving
      <4> QED BY <2>2, <4>3, EnoughMonotone DEF EnoughHolders
    <3> QED BY <1>0, <1>u, <2>0, <3>2, <3>3 DEF PassOK
  <2>3. CASE Continue(b, [pass[b] EXCEPT !.at = "save_verify", !.state.misses = Misses(b, ok),
                                              !.state.done = @ \ D,
                                              !.state.failed = @ \cup D])
    <3>1. q = [p EXCEPT !.at = "save_verify", !.state.misses = Misses(b, ok),
                        !.state.done = @ \ D, !.state.failed = @ \cup D]
      BY <2>3, ContinueIs
    <3>2. q.at = "save_verify" /\ q.seen = p.seen /\ q.why = p.why BY <1>0, <3>1 DEF Pass
    <3> QED BY <1>0, <1>u, <2>0, <3>2 DEF PassOK
  <2> QED BY <2>1, <2>2, <2>3
<1>13. CASE SaveVerify(b) \/ DropFailed(b) \/ ClearError(b) \/ HandleError(b)
  BY <1>13, <1>e DEF SaveVerify, DropFailed, ClearError, HandleError
<1>14. CASE MarkStored(b)
  <2>1. CASE ~StillPending(b) BY <1>14, <2>1, <1>e DEF MarkStored
  <2>2. CASE StillPending(b) /\ Go(b, "handle_error")
    BY <1>0, <1>14, <2>2, <1>u, <1>g DEF MarkStored, PassOK
  <2>3. CASE StillPending(b) /\ Go(b, "drop_spool")
    <3>1. q.at = "drop_spool" /\ q.seen = p.seen /\ q.why = p.why BY <2>3, <1>g
    <3>2. status' = [status EXCEPT ![b] = "pending_stake"] /\ status \in [Books -> Status]
      BY <1>14, <2>3 DEF MarkStored, TypeOK, WorkerTypeOK
    <3>3. Stored(b)' /\ status'[b] # "absent" BY <3>2 DEF Stored
    <3> QED BY <1>0, <3>1, <3>3 DEF PassOK, Kept
  <2> QED BY <1>14, <2>1, <2>2, <2>3 DEF MarkStored
<1>15. CASE DropSpool(b)
  BY <1>0, <1>15, <1>u, <1>g DEF DropSpool, PassOK
<1>16. CASE FailRow(b)
  <2>1. CASE ~StillPending(b) BY <1>16, <2>1, <1>e DEF FailRow
  <2>2. CASE StillPending(b) /\ Go(b, "handle_error")
    BY <1>0, <1>16, <2>2, <1>u, <1>g DEF FailRow, PassOK
  <2>3. CASE StillPending(b) /\ Go(b, "drop_failed")
    <3>1. q.at = "drop_failed" /\ q.seen = p.seen /\ q.why = p.why BY <2>3, <1>g
    <3>2. status' = [status EXCEPT ![b] = "storage_failed"] /\ status \in [Books -> Status]
      BY <1>16, <2>3 DEF FailRow, TypeOK, WorkerTypeOK
    <3>3. status'[b] = "storage_failed" BY <3>2
    <3> QED BY <1>0, <3>1, <3>3 DEF PassOK, Kept
  <2> QED BY <1>16, <2>1, <2>2, <2>3 DEF FailRow
<1>17. CASE PassRegisters(b)
  BY <1>0, <1>17, <1>u, <1>g, <1>e DEF PassRegisters, PassOK
<1>18. CASE PassThrows(b)
  BY <1>0, <1>18, <1>u, <1>g DEF PassThrows, ThrowingPoints, PassOK
<1> QED
  BY <1>1, <1>2, <1>3, <1>4, <1>5, <1>6, <1>7, <1>8, <1>9, <1>10, <1>11, <1>12, <1>13, <1>14,
     <1>15, <1>16, <1>17, <1>18
  DEF PassStep, HeaderStep, DataStep, OutcomeStep

\* A step of the pass on b leaves the others alone.
LEMMA PassOfOther ==
  ASSUME TypeOK, NEW b \in Books, PassStep(b) \/ PassThrows(b), NEW c \in Books \ {b}
  PROVE  pass'[c] = pass[c]
<1>1. ASSUME NEW p, Continue(b, p) PROVE pass'[c] = pass[c] BY <1>1, ContinueIs
<1>2. ASSUME NEW x, Go(b, x) PROVE pass'[c] = pass[c] BY <1>1, <1>2 DEF Go
<1>3. ASSUME EndPass(b) PROVE pass'[c] = pass[c] BY <1>1, <1>3 DEF EndPass
<1>4. CASE HeaderStep(b)
  <2>1. CASE ReadStatus(b) BY <1>1, <2>1 DEF ReadStatus
  <2>2. CASE ReadTip(b) BY <1>1, <2>2 DEF ReadTip
  <2>3. CASE LastPost(b) BY <1>1, <2>3 DEF LastPost
  <2>4. CASE Recheck(b) BY <1>1, <1>2, <2>4 DEF Recheck
  <2>5. CASE Repost(b) BY <1>1, <2>5 DEF Repost
  <2>6. CASE SaveRepost(b) BY <1>2, <1>3, <2>6 DEF SaveRepost
  <2> QED BY <1>4, <2>1, <2>2, <2>3, <2>4, <2>5, <2>6 DEF HeaderStep
<1>5. CASE DataStep(b)
  <2>1. CASE Verify(b) BY <1>1, <2>1 DEF Verify
  <2>2. CASE PushNode(b) BY <1>1, <2>2 DEF PushNode
  <2> QED
    BY <1>1, <1>2, <1>3, <1>5, <2>1, <2>2
    DEF DataStep, SpoolCheck, PushDone, PushFails, SavePush, SaveVerify, MarkStored, DropSpool
<1>6. CASE OutcomeStep(b) \/ PassRegisters(b) \/ PassThrows(b)
  <2>1. CASE FailRow(b) BY <1>2, <1>3, <2>1 DEF FailRow
  <2>2. CASE PassRegisters(b) BY <1>2, <1>3, <2>2 DEF PassRegisters
  <2>3. CASE PassThrows(b) BY <1>2, <2>3 DEF PassThrows
  <2>4. CASE DropFailed(b) \/ ClearError(b) \/ HandleError(b)
    BY <1>3, <2>4 DEF DropFailed, ClearError, HandleError
  <2> QED BY <1>6, <2>1, <2>2, <2>3, <2>4 DEF OutcomeStep
<1> QED BY <1>4, <1>5, <1>6 DEF PassStep

\* PassOK is kept by every step.
LEMMA PassInvKept ==
  ASSUME TypeOK, TypeOK', IInv, [Next]_vars, NEW c \in Books
  PROVE  PassOK(c, pass[c])'
<1>0. Kept(c) /\ PassOK(c, pass[c]) /\ pass[c] \in Pass /\ pass'[c] \in Pass
  BY AllKept DEF IInv, TypeOK, WorkerTypeOK
<1>u. ASSUME PassOK(c, pass'[c]) PROVE PassOK(c, pass[c])'
  <2>1. PICK r \in Pass : r = pass'[c] BY <1>0
  <2>2. PassOK(c, r) BY <2>1, <1>u
  <2>3. PassOK(c, r)' BY <1>0, <2>2, PassKept
  <2> QED BY <2>1, <2>3 DEF PassOK
<1>n. ASSUME pass'[c].at = "idle", pass'[c].why = "none", pass'[c].seen = "none"
      PROVE  PassOK(c, pass'[c])
  BY <1>n DEF PassOK
<1>1. ASSUME NEW b \in Books, PassStep(b) \/ PassThrows(b) PROVE PassOK(c, pass[c])'
  <2>1. CASE b = c BY <1>0, <1>1, <2>1, PassStepOK
  <2>2. CASE b # c
    <3>1. pass'[c] = pass[c] BY <1>1, <2>2, PassOfOther
    <3> QED BY <1>0, <1>u, <3>1
  <2> QED BY <2>1, <2>2
<1>2. ASSUME NEW b \in Books, RegistrationStep(b) PROVE PassOK(c, pass[c])'
  <2>1. CASE pass'[c] = pass[c] BY <1>0, <1>u, <2>1
  <2>2. CASE pass'[c] = NoPass BY <1>u, <1>n, <2>2 DEF NoPass
  <2>3. CASE pass[c].at = "registering" /\ pass'[c] = [pass[c] EXCEPT !.at = "handle_error"]
    <3>1. pass'[c].at = "handle_error" /\ pass'[c].why = pass[c].why /\ pass'[c].seen = pass[c].seen
      BY <1>0, <2>3 DEF Pass
    <3> QED BY <1>0, <1>u, <2>3, <3>1 DEF PassOK
  <2> QED
    BY <1>2, <2>1, <2>2, <2>3 DEF RegistrationStep, RegisterMined, RegisterReturns, RegistrationFails, RegisterRecorded,
      RegisterRecordThrows, ReturnToCaller, Go, EndPass, Continue, TypeOK, WorkerTypeOK
<1>3. CASE TickDispatch
  <2>1. CASE pass'[c] = pass[c] BY <1>0, <1>u, <2>1
  <2>2. CASE c \in tick.todo /\ pass'[c] = [NoPass EXCEPT !.at = "status", !.state = snapshot[c]]
    <3>1. pass'[c].at = "status" /\ pass'[c].why = "none" /\ pass'[c].seen = "none"
      BY <2>2 DEF NoPass
    <3>2. status[c] # "absent" BY <2>2 DEF IInv, TickInv
    <3> QED BY <1>u, <3>1, <3>2 DEF PassOK
  <2>3. pass'[c] = IF c \in tick.todo /\ pass[c].at = "idle"
                     THEN [NoPass EXCEPT !.at = "status", !.state = snapshot[c]]
                     ELSE pass[c]
    BY <1>3, Zenon DEF TickDispatch
  <2> QED BY <2>1, <2>2, <2>3, Zenon
<1>4. CASE Crash
  BY <1>4, <1>u, <1>n DEF Crash, NoPass
<1>5. ASSUME \/ UNCHANGED vars
             \/ ChainMoves
             \/ (TickStep /\ ~TickDispatch)
             \/ \E b \in Books : RequestStep(b) \/ OutsideStep(b)
      PROVE  pass' = pass
  <2>1. CASE UNCHANGED vars BY <2>1 DEF vars
  <2>2. CASE ChainMoves BY <2>2 DEF ChainMoves
  <2>3. CASE TickStep /\ ~TickDispatch
    <3>1. ASSUME NEW b \in Books, RetryNext(b) \/ MonitorRow(b) PROVE pass' = pass
      BY <3>1, Zenon DEF RetryNext, MonitorRow
    <3>2. ASSUME TickQuery \/ RetryQuery \/ RetryEnds \/ MonitorQuery \/ TickThrows PROVE pass' = pass
      BY <3>2, Zenon DEF TickQuery, RetryQuery, RetryEnds, MonitorQuery, TickThrows
    <3> QED BY <2>3, <3>1, <3>2 DEF TickStep
  <2>4. CASE \E b \in Books : RequestStep(b) \/ OutsideStep(b)
    BY <2>4
    DEF RequestStep, WriteSpool, CreateRow, CreateReplyLost, CreateRowFails, FirstPost,
        OutsideStep, ApiRegisters, RegistrationSeen, BackoffElapses
  <2> QED BY <1>5, <2>1, <2>2, <2>3, <2>4
<1>6. CASE pass' = pass BY <1>0, <1>u, <1>6
<1> QED BY <1>1, <1>2, <1>3, <1>4, <1>5, <1>6 DEF Next

\* ChainInv is kept by every step.
LEMMA ChainInvKept ==
  ASSUME TypeOK, TypeOK', IInv, [Next]_vars, NEW c \in Books
  PROVE  ChainInv(c)'
<1> USE ChainAssumption DEF ChainInv
<1>0. /\ ChainInv(c) /\ RequestInv(c) /\ height \in Nat /\ AnchorDepth \in Nat /\ MaxReorg \in Nat
      /\ minedAt \in [Books -> Nat] /\ anchor \in [Books -> Nat] /\ mempool \in SUBSET Books
      /\ minedAt' \in [Books -> Nat] /\ anchor' \in [Books -> Nat]
      /\ arweaveAnchorHeight \in [Books -> Nat] /\ arweaveAnchorHeight' \in [Books -> Nat]
  BY DEF IInv, TypeOK, ChainTypeOK, WorkerTypeOK
<1>1. CASE UNCHANGED <<chainVars, arweaveAnchorHeight>> BY <1>0, <1>1 DEF chainVars
<1>2. CASE \E b \in Books : /\ request[b] # "none" /\ PostHeader(b) /\ UNCHANGED arweaveAnchorHeight
  BY <1>0, <1>2 DEF PostHeader
<1>3. ASSUME NEW b \in Books, WriteSpool(b) PROVE ChainInv(c)'
  BY <1>0, <1>3 DEF WriteSpool, SignHeader, RequestInv
<1>4. CASE ChainMoves
  BY <1>0, <1>4 DEF ChainMoves, NextBlock, CanHold, rowVars
<1> QED BY <1>1, <1>2, <1>3, <1>4, ChainSteps

\* RequestInv is kept by every step.
LEMMA RequestInvKept ==
  ASSUME TypeOK, TypeOK', IInv, [Next]_vars, NEW c \in Books
  PROVE  RequestInv(c)'
<1> USE DEF RequestInv, Signed
<1>0. /\ RequestInv(c) /\ status \in [Books -> Status] /\ status' \in [Books -> Status]
      /\ anchor \in [Books -> Nat] /\ anchor' \in [Books -> Nat] /\ mempool \in SUBSET Books
      /\ request \in [Books -> RequestPoint] /\ request' \in [Books -> RequestPoint]
  BY DEF IInv, TypeOK, ChainTypeOK, WorkerTypeOK
<1>1. CASE UNCHANGED request
  <2>1. status[c] = "absent" => status'[c] = "absent"
    <3>1. CASE UNCHANGED <<status, verdict>> BY <3>1
    <3>2. CASE \E b \in Books : CreateRow(b) \/ CreateReplyLost(b)
      BY <1>0, <1>1, <3>2 DEF CreateRow, CreateReplyLost
    <3>3. CASE \E b \in Books : FailRow(b) \/ MarkStored(b) \/ MarkRegistered(b)
      BY <1>0, <3>3 DEF FailRow, MarkStored, MarkRegistered, StillPending
    <3> QED BY <3>1, <3>2, <3>3, StatusSteps
  <2>2. CASE UNCHANGED <<chainVars, arweaveAnchorHeight>>
    BY <1>0, <1>1, <2>1, <2>2 DEF chainVars
  <2>3. CASE \E b \in Books : request[b] # "none" /\ PostHeader(b)
    BY <1>0, <1>1, <2>1, <2>3 DEF PostHeader
  <2>4. CASE \E b \in Books : WriteSpool(b)
    BY <1>0, <1>1, <2>4 DEF WriteSpool
  <2>5. CASE ChainMoves
    BY <1>0, <1>1, <2>1, <2>5 DEF ChainMoves, NextBlock
  <2> QED BY <2>2, <2>3, <2>4, <2>5, ChainSteps
<1>2. CASE Crash
  BY <1>0, <1>2 DEF Crash, chainVars, rowVars
<1>3. ASSUME NEW b \in Books, WriteSpool(b) PROVE RequestInv(c)'
  BY <1>0, <1>3 DEF WriteSpool, SignHeader
<1>4. ASSUME NEW b \in Books, CreateRow(b) \/ CreateReplyLost(b) \/ CreateRowFails(b)
      PROVE  RequestInv(c)'
  BY <1>0, <1>4 DEF CreateRow, CreateReplyLost, CreateRowFails, InsertRow, chainVars, rowVars
<1>5. ASSUME NEW b \in Books, FirstPost(b) PROVE RequestInv(c)'
  BY <1>0, <1>5 DEF FirstPost, PostHeader, rowVars
<1> QED BY <1>1, <1>2, <1>3, <1>4, <1>5, RequestSteps DEF RequestStep

\* RowInv is kept: a verdict is written, and a row stored, by a pass that knows.
LEMMA RowInvKept ==
  ASSUME TypeOK, TypeOK', IInv, [Next]_vars, NEW c \in Books
  PROVE  RowInv(c)'
<1>0. /\ RowInv(c) /\ PassOK(c, pass[c]) /\ Kept(c)
      /\ status \in [Books -> Status] /\ verdict \in [Books -> FailReason \cup {"none"}]
  BY AllKept DEF IInv, TypeOK, WorkerTypeOK
<1>1. verdict'[c] = "header_not_mined" => verdict[c] = "header_not_mined" \/ Dead(c)
  <2>1. CASE UNCHANGED <<status, verdict>> BY <2>1
  <2>2. CASE \E b \in Books : InsertRow(b) BY <2>2 DEF InsertRow
  <2>3. CASE \E b \in Books : FailRow(b) BY <1>0, <2>3 DEF FailRow, PassOK
  <2>4. CASE \E b \in Books : MarkStored(b) \/ MarkRegistered(b)
    BY <2>4 DEF MarkStored, MarkRegistered
  <2> QED BY <2>1, <2>2, <2>3, <2>4, StatusSteps
<1>2. Stored(c)' => Stored(c) \/ (Settled(c) /\ EnoughHolders(c))
  <2>1. CASE UNCHANGED <<status, verdict>> BY <2>1 DEF Stored
  <2>2. CASE \E b \in Books : InsertRow(b) BY <1>0, <2>2 DEF InsertRow, Stored
  <2>3. CASE \E b \in Books : FailRow(b) BY <1>0, <2>3 DEF FailRow, Stored
  <2>4. CASE \E b \in Books : MarkStored(b) BY <1>0, <2>4 DEF MarkStored, Stored, PassOK
  <2>5. CASE \E b \in Books : MarkRegistered(b) BY <1>0, <2>5 DEF MarkRegistered, Stored
  <2> QED BY <2>1, <2>2, <2>3, <2>4, <2>5, StatusSteps
<1> QED BY <1>0, <1>1, <1>2 DEF RowInv, Kept

\* Who puts books on-chain, and who starts registerStored().
LEMMA RegistrationSteps ==
  ASSUME [Next]_vars
  PROVE  \/ UNCHANGED <<onChain, registering>>
         \/ Crash
         \/ \E b \in Books : \/ PassRegisters(b) \/ RegistrationStep(b)
                             \/ ApiRegisters(b) \/ RetryNext(b)
<1> USE DEF worldVars, processVars, registrationVars
<1>1. ASSUME NEW b \in Books, RequestStep(b) PROVE UNCHANGED <<onChain, registering>>
  BY <1>1, Zenon DEF RequestStep, WriteSpool, CreateRow, CreateReplyLost, CreateRowFails, FirstPost
<1>2. ASSUME NEW b \in Books, HeaderStep(b) PROVE UNCHANGED <<onChain, registering>>
  BY <1>2, Zenon DEF HeaderStep, ReadStatus, ReadTip, LastPost, Recheck, Repost, SaveRepost
<1>3. ASSUME NEW b \in Books, DataStep(b) PROVE UNCHANGED <<onChain, registering>>
  BY <1>3, Zenon DEF DataStep, SpoolCheck, PushNode, PushDone, PushFails, SavePush, Verify,
    SaveVerify, MarkStored, DropSpool
<1>4. ASSUME NEW b \in Books, OutcomeStep(b) \/ PassThrows(b)
      PROVE  UNCHANGED <<onChain, registering>>
  BY <1>4, Zenon DEF OutcomeStep, FailRow, DropFailed, ClearError, HandleError, PassThrows
<1>5. ASSUME NEW b \in Books, RegistrationSeen(b) \/ BackoffElapses(b)
      PROVE  UNCHANGED <<onChain, registering>>
  BY <1>5, Zenon DEF RegistrationSeen, BackoffElapses
<1>6. ASSUME \/ TickQuery \/ TickDispatch \/ RetryQuery \/ RetryEnds \/ MonitorQuery \/ TickThrows
             \/ \E b \in Books : MonitorRow(b)
             \/ ChainMoves \/ UNCHANGED vars
      PROVE  UNCHANGED <<onChain, registering>>
  BY <1>6, Zenon DEF TickQuery, TickDispatch, RetryQuery, RetryEnds, MonitorQuery, MonitorRow,
    TickThrows, ChainMoves, vars
<1> QED
  BY <1>1, <1>2, <1>3, <1>4, <1>5, <1>6, Zenon DEF Next, PassStep, OutsideStep, TickStep

\* RegisterInv is kept: whoever starts a registration has seen the row stored.
LEMMA RegisterInvKept ==
  ASSUME TypeOK, TypeOK', IInv, [Next]_vars, NEW c \in Books
  PROVE  RegisterInv(c)'
<1> USE DEF RegisterInv
<1>0. /\ RegisterInv(c) /\ PassOK(c, pass[c]) /\ TickInv(c) /\ (Stored(c) => Stored(c)')
      /\ registering \in [Books -> {"no", "call", "record"}]
      /\ status \in [Books -> Status]
  BY AllKept DEF IInv, TypeOK, WorkerTypeOK, Kept
<1>1. CASE UNCHANGED <<onChain, registering>> BY <1>0, <1>1
<1>2. CASE Crash BY <1>0, <1>2 DEF Crash, worldVars
<1>3. ASSUME NEW b \in Books, PassRegisters(b) PROVE RegisterInv(c)'
  BY <1>0, <1>3 DEF PassRegisters, PassOK, worldVars
<1>4. ASSUME NEW b \in Books, RegistrationStep(b) PROVE RegisterInv(c)'
  <2>1. CASE RegisterMined(b) BY <1>0, <2>1 DEF RegisterMined
  <2>2. CASE RegisterReturns(b) \/ RegisterRecorded(b) \/ RegisterRecordThrows(b)
    <3>1. onChain' = onChain /\ registering' = [registering EXCEPT ![b] = "no"]
      BY <2>2, Zenon
      DEF RegisterReturns, RegistrationFails, RegisterRecorded, RegisterRecordThrows, ReturnToCaller, worldVars
    <3> QED BY <1>0, <3>1
  <2> QED BY <1>4, <2>1, <2>2 DEF RegistrationStep
<1>5. ASSUME NEW b \in Books, ApiRegisters(b) PROVE RegisterInv(c)'
  BY <1>0, <1>5 DEF ApiRegisters, Stored, Status, registrationVars
<1>6. ASSUME NEW b \in Books, RetryNext(b) PROVE RegisterInv(c)'
  BY <1>0, <1>6 DEF RetryNext, TickInv, worldVars
<1> QED BY <1>1, <1>2, <1>3, <1>4, <1>5, <1>6, RegistrationSteps

\* A step of a pass does not make the tick wait for a registration.
LEMMA PassStepAwaits ==
  ASSUME TypeOK, TypeOK', NEW b \in Books, PassStep(b) \/ PassThrows(b), NEW x \in Books
  PROVE  (TickAwaits(x)' => TickAwaits(x)) /\ tick' = tick
<1> USE DEF processVars, tickVars, registrationVars, TickAwaits
<1>0. /\ registering \in [Books -> {"no", "call", "record"}]
      /\ x # b => pass'[x] = pass[x]
      /\ pass \in [Books -> Pass]
  BY PassOfOther DEF TypeOK, WorkerTypeOK
<1>1. CASE PassRegisters(b)
  <2>1. pass[b].at = "register" BY <1>1 DEF PassRegisters
  <2>2. CASE registering[b] # "no"
    BY <1>0, <1>1, <2>1, <2>2 DEF PassRegisters
  <2>3. CASE registering[b] = "no"
    <3>1. pass' = [pass EXCEPT ![b] = [pass[b] EXCEPT !.at = "registering"]]
      BY <1>1, <2>3 DEF PassRegisters, Go, Continue
    <3>2. pass'[b].at = "registering" BY <1>0, <3>1 DEF Pass
    <3>3. registering' = [registering EXCEPT ![b] = "call"] BY <1>1, <2>3 DEF PassRegisters
    <3> QED BY <1>0, <1>1, <3>2, <3>3 DEF PassRegisters
  <2> QED BY <2>2, <2>3
<1>2. CASE ~PassRegisters(b)
  <2>1. UNCHANGED <<tick, registering>> /\ pass[b].at # "registering"
    <3>1. CASE HeaderStep(b)
      <4>1. UNCHANGED <<tick, registering>>
        BY <3>1, Zenon
        DEF HeaderStep, ReadStatus, ReadTip, LastPost, Recheck, Repost, SaveRepost
      <4>2. pass[b].at \in {"status", "tip", "last_post", "recheck", "repost", "save_repost"}
        BY <3>1, Zenon
        DEF HeaderStep, ReadStatus, ReadTip, LastPost, Recheck, Repost, SaveRepost
      <4> QED BY <4>1, <4>2
    <3>2. CASE DataStep(b)
      <4>1. CASE SpoolCheck(b) \/ PushNode(b) \/ PushDone(b) \/ PushFails(b) \/ SavePush(b)
        BY <4>1 DEF SpoolCheck, PushNode, PushDone, PushFails, SavePush
      <4>2. CASE Verify(b) BY <4>2 DEF Verify
      <4>3. CASE SaveVerify(b) \/ MarkStored(b) \/ DropSpool(b)
        BY <4>3 DEF SaveVerify, MarkStored, DropSpool
      <4> QED BY <3>2, <4>1, <4>2, <4>3 DEF DataStep
    <3>3. CASE OutcomeStep(b) \/ PassThrows(b)
      BY <3>3 DEF OutcomeStep, FailRow, DropFailed, ClearError, HandleError, PassThrows,
        ThrowingPoints
    <3> QED BY <1>2, <3>1, <3>2, <3>3 DEF PassStep
  <2> QED BY <1>0, <2>1
<1> QED BY <1>1, <1>2

\* CallerInv is kept by every step.
LEMMA CallerInvKept ==
  ASSUME TypeOK, TypeOK', IInv, [Next]_vars, NEW c \in Books
  PROVE  CallerInv(c)'
<1>0. /\ \A x \in Books : CallerInv(x)
      /\ registering \in [Books -> {"no", "call", "record"}]
      /\ pass \in [Books -> Pass] /\ tick \in Tick
  BY DEF IInv, TypeOK, WorkerTypeOK
<1>1. ASSUME tick' = tick, \A x \in Books : TickAwaits(x)' => TickAwaits(x)
      PROVE  CallerInv(c)'
  BY <1>0, <1>1 DEF CallerInv
<1>2. ASSUME tick.at # "registering", NEW x \in Books PROVE ~TickAwaits(x)
  BY <1>0, <1>2 DEF CallerInv
<1>3. ASSUME \A x \in Books : ~TickAwaits(x)' PROVE CallerInv(c)'
  BY <1>3 DEF CallerInv
<1>4. CASE Crash
  BY <1>3, <1>4 DEF Crash, TickAwaits
<1>5. ASSUME UNCHANGED <<tick, pass, registering>> PROVE CallerInv(c)'
  BY <1>1, <1>5 DEF TickAwaits
<1>6. ASSUME NEW b \in Books, RegistrationStep(b) PROVE CallerInv(c)'
  <2>1. CASE RegisterMined(b)
    BY <1>0, <1>1, <2>1 DEF RegisterMined, TickAwaits, tickVars
  <2>2. CASE pass[b].at = "registering" /\ ~RegisterMined(b)
    <3>1. tick' = tick /\ registering' = [registering EXCEPT ![b] = "no"]
      BY <1>6, <2>2, Zenon
      DEF RegistrationStep, RegisterReturns, RegistrationFails, RegisterRecorded, RegisterRecordThrows, ReturnToCaller
    <3>2. \/ EndPass(b)
          \/ Go(b, "handle_error")
      BY <1>6, <2>2, Zenon
      DEF RegistrationStep, RegisterReturns, RegistrationFails, RegisterRecorded, RegisterRecordThrows, ReturnToCaller
    <3>3. \A x \in Books \ {b} : pass'[x] = pass[x] BY <3>2, ContinueIs DEF EndPass, Go
    <3> QED BY <1>0, <1>1, <3>1, <3>3 DEF TickAwaits
  <2>3. CASE pass[b].at # "registering" /\ ~RegisterMined(b)
    <3>1. pass' = pass /\ registering' = [registering EXCEPT ![b] = "no"] /\ registering[b] # "no"
      BY <1>6, <2>3
      DEF RegistrationStep, RegisterReturns, RegistrationFails, RegisterRecorded, RegisterRecordThrows, ReturnToCaller
    <3>2. TickAwaits(b) BY <2>3, <3>1 DEF TickAwaits
    <3>3. \A x \in Books \ {b} : ~TickAwaits(x) BY <1>0, <3>2 DEF CallerInv
    <3> QED BY <1>0, <1>3, <3>1, <3>3 DEF TickAwaits
  <2> QED BY <2>1, <2>2, <2>3
<1>7. ASSUME NEW b \in Books, RetryNext(b) PROVE CallerInv(c)'
  <2>1. tick.at = "retry" /\ pass' = pass /\ b \in tick.todo BY <1>7 DEF RetryNext
  <2>2. \A x \in Books : ~TickAwaits(x) BY <1>2, <2>1
  <2>3. CASE registering' = registering
    BY <1>3, <2>1, <2>2, <2>3 DEF TickAwaits
  <2>4. CASE registering' # registering
    <3>1. /\ registering' = [registering EXCEPT ![b] = "call"]
          /\ tick' = [tick EXCEPT !.at = "registering", !.attempted = @ + 1]
      BY <1>7, <2>4, Zenon DEF RetryNext
    <3>2. tick'.at = "registering" /\ b \in tick'.todo BY <1>0, <2>1, <3>1 DEF Tick
    <3>3. \A x \in Books : TickAwaits(x)' => x = b BY <1>0, <2>1, <2>2, <3>1 DEF TickAwaits
    <3> QED BY <3>2, <3>3 DEF CallerInv
  <2> QED BY <2>3, <2>4
<1>8. CASE TickDispatch
  <2>1. tick.at = "dispatch" /\ registering' = registering
    BY <1>8, Zenon DEF TickDispatch, registrationVars
  <2>2. ASSUME NEW x \in Books, registering[x] # "no" PROVE pass'[x] = pass[x]
    <3>1. pass[x].at = "registering" BY <1>2, <2>1, <2>2 DEF TickAwaits
    <3>2. pass'[x] = IF x \in tick.todo /\ pass[x].at = "idle"
                       THEN [NoPass EXCEPT !.at = "status", !.state = snapshot[x]]
                       ELSE pass[x]
      BY <1>8, Zenon DEF TickDispatch
    <3> QED BY <3>1, <3>2, Zenon
  <2>3. \A x \in Books : ~TickAwaits(x) BY <1>2, <2>1
  <2> QED BY <1>3, <2>1, <2>2, <2>3 DEF TickAwaits
<1>9. ASSUME \/ TickQuery \/ RetryQuery \/ RetryEnds \/ MonitorQuery \/ TickThrows
             \/ \E b \in Books : MonitorRow(b)
      PROVE  CallerInv(c)'
  <2>1. tick.at # "registering"
    <3>1. \/ tick.at \in {"idle", "retry_query", "retry", "monitor_query", "monitor"}
          \/ TickThrows
      BY <1>9, Zenon DEF TickQuery, RetryQuery, RetryEnds, MonitorQuery, MonitorRow
    <3> QED BY <3>1 DEF TickThrows
  <2>2. pass' = pass /\ registering' = registering
    BY <1>9, Zenon DEF TickQuery, RetryQuery, RetryEnds, MonitorQuery, TickThrows, MonitorRow,
      registrationVars
  <2> QED BY <1>2, <1>3, <2>1, <2>2 DEF TickAwaits
<1>10. ASSUME NEW b \in Books, RequestStep(b) \/ OutsideStep(b) PROVE CallerInv(c)'
  <2>1. UNCHANGED <<tick, pass, registering>>
    BY <1>10, Zenon DEF RequestStep, WriteSpool, CreateRow, CreateReplyLost, CreateRowFails, FirstPost,
      OutsideStep, ApiRegisters, RegistrationSeen, BackoffElapses, tickVars, registrationVars
  <2> QED BY <1>5, <2>1
<1>11. CASE ChainMoves \/ UNCHANGED vars
  BY <1>5, <1>11 DEF ChainMoves, vars, tickVars, registrationVars
<1>12. ASSUME NEW b \in Books, PassStep(b) \/ PassThrows(b) PROVE CallerInv(c)'
  BY <1>1, <1>12, PassStepAwaits
<1> QED
  BY <1>4, <1>6, <1>7, <1>8, <1>9, <1>10, <1>11, <1>12, Zenon DEF Next, TickStep

\* TickInv is kept by every step.
LEMMA TickInvKept ==
  ASSUME TypeOK, TypeOK', IInv, [Next]_vars, NEW c \in Books
  PROVE  TickInv(c)'
<1>0. /\ TickInv(c) /\ CallerInv(c) /\ tick \in Tick /\ status \in [Books -> Status]
      /\ registering \in [Books -> {"no", "call", "record"}]
      /\ Stored(c) => Stored(c)'
      /\ status[c] # "absent" => status'[c] # "absent"
  BY AllKept DEF IInv, TypeOK, WorkerTypeOK, Kept
<1>1. CASE tick' = tick BY <1>0, <1>1 DEF TickInv
<1>2. ASSUME tick'.todo = {} PROVE TickInv(c)' BY <1>2 DEF TickInv
<1>3. ASSUME tick'.todo \subseteq tick.todo,
             tick'.at \in {"retry", "registering"} => tick.at \in {"retry", "registering"}
      PROVE  TickInv(c)'
  BY <1>0, <1>3 DEF TickInv
<1>4. CASE TickQuery
  <2>1. tick'.at = "dispatch" /\ tick'.todo = Oldest(WithStatus("pending_confirmation"))
    BY <1>4 DEF TickQuery, NoTick
  <2> QED BY <1>0, <2>1 DEF TickInv, Oldest, WithStatus
<1>5. CASE RetryQuery
  <2>1. tick'.todo = Oldest(WithStatus("pending_stake")) BY <1>5 DEF RetryQuery, NoTick
  <2> QED BY <1>0, <2>1 DEF TickInv, Oldest, WithStatus, Stored
<1>6. CASE MonitorQuery
  <2>1. PICK due \in SUBSET Watched :
          tick' = IF due = {} THEN NoTick ELSE [NoTick EXCEPT !.at = "monitor", !.todo = due]
    BY <1>6, Zenon DEF MonitorQuery
  <2>2. CASE due = {} BY <1>2, <2>1, <2>2 DEF NoTick
  <2>3. CASE due # {}
    <3>1. tick'.at = "monitor" /\ tick'.todo = due BY <2>1, <2>3 DEF NoTick
    <3> QED BY <1>0, <3>1 DEF TickInv, Watched, WithStatus
  <2> QED BY <2>2, <2>3
<1>7. CASE TickDispatch \/ RetryEnds \/ TickThrows \/ Crash
  <2>1. \/ tick' = NoTick
        \/ \E x \in TickPoint : tick' = [NoTick EXCEPT !.at = x]
    <3>1. "retry_query" \in TickPoint /\ "monitor_query" \in TickPoint BY DEF TickPoint
    <3> QED BY <1>7, <3>1, Zenon DEF TickDispatch, RetryEnds, TickThrows, Crash
  <2>2. tick'.todo = {} BY <2>1 DEF NoTick
  <2> QED BY <1>2, <2>2
<1>8. ASSUME NEW b \in Books, RetryNext(b) PROVE TickInv(c)'
  <2>1. tick.at = "retry" BY <1>8 DEF RetryNext
  <2>2. tick'.todo \subseteq tick.todo BY <1>0, <1>8 DEF RetryNext, Tick
  <2> QED BY <1>3, <2>1, <2>2
<1>9. ASSUME NEW b \in Books, MonitorRow(b) PROVE TickInv(c)'
  <2>1. CASE tick' = NoTick BY <1>2, <2>1 DEF NoTick
  <2>2. CASE tick' = [tick EXCEPT !.todo = @ \ {b}]
    <3>1. tick'.at = tick.at /\ tick'.todo \subseteq tick.todo BY <1>0, <2>2 DEF Tick
    <3> QED BY <1>3, <3>1
  <2> QED BY <1>9, <2>1, <2>2 DEF MonitorRow
<1>10. ASSUME NEW b \in Books, RegistrationStep(b), tick' # tick PROVE TickInv(c)'
  <2>1. registering[b] # "no" /\ pass[b].at # "registering"
    BY <1>10 DEF RegistrationStep, RegisterMined, RegisterReturns, RegistrationFails, RegisterRecorded,
      RegisterRecordThrows, ReturnToCaller, tickVars
  <2>2. tick.at = "registering" BY <2>1 DEF IInv, CallerInv, TickAwaits
  <2>3. \/ tick' = [tick EXCEPT !.at = "retry", !.todo = @ \ {b}]
        \/ tick' = [NoTick EXCEPT !.at = "monitor_query"]
    <3>1. CASE RegisterMined(b) BY <1>10, <3>1 DEF RegisterMined, tickVars
    <3>2. CASE RegisterReturns(b) BY <2>1, <3>2, Zenon DEF RegisterReturns, RegistrationFails, ReturnToCaller
    <3>3. CASE RegisterRecorded(b) BY <2>1, <3>3, Zenon DEF RegisterRecorded, ReturnToCaller
    <3>4. CASE RegisterRecordThrows(b) BY <2>1, <3>4, Zenon DEF RegisterRecordThrows
    <3> QED BY <1>10, <3>1, <3>2, <3>3, <3>4 DEF RegistrationStep
  <2>4. tick'.todo \subseteq tick.todo
    <3>1. CASE tick' = [tick EXCEPT !.at = "retry", !.todo = @ \ {b}]
      <4>1. tick'.todo = tick.todo \ {b} BY <1>0, <3>1 DEF Tick
      <4> QED BY <4>1
    <3>2. CASE tick' = [NoTick EXCEPT !.at = "monitor_query"]
      <4>1. tick'.todo = {} BY <3>2 DEF NoTick
      <4> QED BY <4>1
    <3> QED BY <2>3, <3>1, <3>2
  <2> QED BY <1>3, <2>2, <2>4
<1>11. ASSUME NEW b \in Books, RequestStep(b) \/ OutsideStep(b) PROVE tick' = tick
  BY <1>11, Zenon DEF RequestStep, WriteSpool, CreateRow, CreateReplyLost, CreateRowFails, FirstPost,
    OutsideStep, ApiRegisters, RegistrationSeen, BackoffElapses, tickVars
<1>12. ASSUME ChainMoves \/ UNCHANGED vars PROVE tick' = tick
  BY <1>12 DEF ChainMoves, vars, tickVars
<1>13. ASSUME NEW b \in Books, PassStep(b) \/ PassThrows(b) PROVE tick' = tick
  BY <1>13, PassStepAwaits
<1> QED
  BY <1>1, <1>4, <1>5, <1>6, <1>7, <1>8, <1>9, <1>10, <1>11, <1>12, <1>13, Zenon DEF Next, TickStep

\* Who takes a file out of the spool.
LEMMA SpoolSteps ==
  ASSUME [Next]_vars
  PROVE  \/ spool \subseteq spool'
         \/ \E b \in Books : /\ CreateRowFails(b) \/ DropSpool(b) \/ DropFailed(b)
                             /\ spool \ {b} \subseteq spool'
<1> USE DEF processVars
<1>1. ASSUME NEW b \in Books, CreateRowFails(b) \/ DropSpool(b) \/ DropFailed(b)
      PROVE  spool \ {b} \subseteq spool'
  <2>1. spool' \in {spool, spool \ {b}}
    BY <1>1 DEF CreateRowFails, DropSpool, DropFailed, BestEffort
  <2> QED BY <2>1
<1>2. ASSUME NEW b \in Books, WriteSpool(b) PROVE spool \subseteq spool'
  BY <1>2 DEF WriteSpool
<1>3. ASSUME NEW b \in Books, CreateRow(b) \/ CreateReplyLost(b) \/ FirstPost(b) \/ HeaderStep(b)
      PROVE  spool' = spool
  BY <1>3, Zenon DEF CreateRow, CreateReplyLost, FirstPost, HeaderStep, ReadStatus, ReadTip,
    LastPost, Recheck, Repost, SaveRepost
<1>4. ASSUME NEW b \in Books, DataStep(b), ~DropSpool(b) PROVE spool' = spool
  BY <1>4, Zenon DEF DataStep, SpoolCheck, PushNode, PushDone, PushFails, SavePush, Verify,
    SaveVerify, MarkStored
<1>5. ASSUME NEW b \in Books, OutcomeStep(b) \/ PassRegisters(b) \/ PassThrows(b), ~DropFailed(b)
      PROVE  spool' = spool
  BY <1>5, Zenon DEF OutcomeStep, FailRow, ClearError, HandleError, PassRegisters, PassThrows
<1>6. ASSUME NEW b \in Books, RegistrationStep(b) \/ OutsideStep(b) PROVE spool' = spool
  BY <1>6, Zenon DEF RegistrationStep, RegisterMined, RegisterReturns, RegistrationFails, RegisterRecorded,
    RegisterRecordThrows, OutsideStep, ApiRegisters, RegistrationSeen, BackoffElapses
<1>7. ASSUME TickStep \/ ChainMoves \/ Crash \/ UNCHANGED vars PROVE spool' = spool
  BY <1>7, Zenon DEF TickStep, TickQuery, TickDispatch, RetryQuery, RetryNext, RetryEnds,
    MonitorQuery, MonitorRow, TickThrows, ChainMoves, Crash, vars
<1>8. CASE spool' = spool BY <1>8
<1> QED
  BY <1>1, <1>2, <1>3, <1>4, <1>5, <1>6, <1>7, <1>8, Zenon DEF Next, RequestStep, PassStep

\* SpoolInv is kept: a file is removed for a row that has ended, or by a request that
\* is told there is no row.
LEMMA SpoolInvKept ==
  ASSUME TypeOK, TypeOK', IInv, [Next]_vars, NEW c \in Books
  PROVE  SpoolInv(c)'
<1> SUFFICES ASSUME status'[c] = "pending_confirmation" \/ request'[c] = "spooled",
                    request'[c] # "rejected"
             PROVE  c \in spool'
  BY DEF SpoolInv
<1>0. /\ SpoolInv(c) /\ RequestInv(c) /\ PassOK(c, pass[c])
      /\ status \in [Books -> Status]
      /\ request \in [Books -> RequestPoint]
      /\ request[c] # "rejected"
  BY RejectedSteps DEF IInv, TypeOK, WorkerTypeOK
<1>1. CASE \E b \in Books : WriteSpool(b)
  BY <1>0, <1>1 DEF WriteSpool, SpoolInv
<1>2. CASE ~\E b \in Books : WriteSpool(b)
  <2>1. request'[c] = "spooled" => request[c] = "spooled"
    <3>1. CASE UNCHANGED request BY <3>1
    <3>2. CASE Crash BY <3>2 DEF Crash
    <3>3. ASSUME NEW b \in Books,
                 CreateRow(b) \/ CreateReplyLost(b) \/ CreateRowFails(b) \/ FirstPost(b)
          PROVE  request'[c] = "spooled" => request[c] = "spooled"
      BY <1>0, <3>3 DEF CreateRow, CreateReplyLost, CreateRowFails, FirstPost
    <3> QED BY <1>2, <3>1, <3>2, <3>3, RequestSteps DEF RequestStep
  <2>2. status'[c] = "pending_confirmation" =>
          status[c] = "pending_confirmation" \/ request[c] = "spooled"
    <3>1. CASE UNCHANGED <<status, verdict>> BY <3>1
    <3>2. ASSUME NEW b \in Books, CreateRow(b) \/ CreateReplyLost(b), InsertRow(b)
          PROVE  status'[c] = "pending_confirmation" =>
                   status[c] = "pending_confirmation" \/ request[c] = "spooled"
      BY <1>0, <3>2 DEF CreateRow, CreateReplyLost, InsertRow
    <3>3. CASE \E b \in Books : FailRow(b) \/ MarkStored(b) \/ MarkRegistered(b)
      BY <1>0, <3>3 DEF FailRow, MarkStored, MarkRegistered
    <3> QED BY <3>1, <3>2, <3>3, StatusSteps
  <2>3. c \in spool BY <1>0, <2>1, <2>2 DEF SpoolInv
  <2>4. ASSUME CreateRowFails(c) PROVE FALSE
    <3>1. request' = [request EXCEPT ![c] = "rejected"] BY <2>4 DEF CreateRowFails
    <3> QED BY <1>0, <3>1
  <2>5. ASSUME DropSpool(c) \/ DropFailed(c) PROVE FALSE
    <3>1. status[c] \notin {"absent", "pending_confirmation"}
      BY <1>0, <2>5 DEF DropSpool, DropFailed, PassOK, Stored
    <3>2. request[c] # "spooled" BY <1>0, <3>1 DEF RequestInv
    <3> QED BY <2>1, <2>2, <3>1, <3>2
  <2> QED BY <2>3, <2>4, <2>5, SpoolSteps
<1> QED BY <1>1, <1>2

\* Every step keeps the whole invariant.
LEMMA IInvNext == TypeOK /\ TypeOK' /\ IInv /\ [Next]_vars => IInv'
BY CallerInvKept, RequestInvKept, ChainInvKept, PassInvKept, RowInvKept, RegisterInvKept,
   TickInvKept, SpoolInvKept DEF IInv

\* The invariant holds in every reachable state.
LEMMA Invariance == Spec => [](TypeOK /\ IInv)
<1>1. Init => TypeOK /\ IInv BY TypeInit, IInvInit
<1>2. TypeOK /\ IInv /\ [Next]_vars => (TypeOK /\ IInv)' BY TypeNext, IInvNext
<1> QED BY <1>1, <1>2, PTL DEF Spec

-----------------------------------------------------------------------------
(* 3. The lifecycle of a book is implemented.                              *)

\* The worker starts where the lifecycle starts.
LEMMA LifecycleInit == Init => Lifecycle!Init
<1> SUFFICES ASSUME Init PROVE Lifecycle!Init OBVIOUS
<1>0. minedAt = [b \in Books |-> 0] /\ anchor = [b \in Books |-> 0]
  BY Zenon DEF Init, ChainInit
<1>1. ASSUME NEW b \in Books PROVE minedAt[b] = 0 /\ anchor[b] = 0 BY <1>0
<1>2. \A b \in Books : ~Settled(b) /\ ~Dead(b) BY <1>1, Zenon DEF Settled, Dead, Signed
<1>3. Fate = [b \in Books |-> "open"] BY <1>2 DEF Fate
<1>4. ASSUME NEW b \in Books PROVE Serving(b, ReadAtLeast(b)) = {}
  <2>1. \A n \in Nodes : kept[b][n] = {} BY DEF Init
  <2>2. ReadAtLeast(b) # {} BY SampleAssumption DEF ReadAtLeast, SampleAssumption
  <2> QED BY <2>1, <2>2 DEF Serving
<1>5. Holders = [b \in Books |-> {}] BY <1>4 DEF Holders
<1> QED BY <1>3, <1>5 DEF Init, Lifecycle!Init

\* The fate of a book moves with the network only.
LEMMA FateUnchanged == ASSUME UNCHANGED chainVars PROVE Fate' = Fate
BY DEF chainVars, Fate, Settled, Dead, Signed

\* The fate of a book, once decided, is not decided again.
LEMMA FateDecided ==
  ASSUME TypeOK, IInv, [Next]_vars
  PROVE  /\ Fate' \in [Books -> {"open", "settled", "dead"}]
         /\ \A b \in Books : Fate[b] # "open" => Fate'[b] = Fate[b]
<1>1. ASSUME NEW b \in Books, Fate[b] # "open" PROVE Fate'[b] = Fate[b]
  <2>1. (Dead(b) => Dead(b)') /\ (Settled(b) => Settled(b)') BY FateKept
  <2>2. ~(Settled(b) /\ Dead(b)) /\ ~(Settled(b)' /\ Dead(b)') BY DEF Settled, Dead
  <2> QED BY <1>1, <2>1, <2>2 DEF Fate
<1> QED BY <1>1 DEF Fate

\* The holders of all books are what they were when chunks and requests are,
LEMMA HoldersUnchanged ==
  ASSUME kept' = kept, \A b \in Books : ~CreateRowFails(b), TypeOK, [Next]_vars
  PROVE  Holders' = Holders
<1>1. \A c \in Books : ReadAtLeast(c)' = ReadAtLeast(c) BY RejectedSteps DEF ReadAtLeast
<1> QED BY <1>1 DEF Holders, Serving

\* and only those of b grow with what one of its nodes keeps or as its request ends.
LEMMA HoldersGrow ==
  ASSUME TypeOK, [Next]_vars, NEW b \in Books,
         \A c \in Books \ {b} : kept'[c] = kept[c] /\ request'[c] = request[c]
  PROVE  \E new \in SUBSET Nodes : Holders' = [Holders EXCEPT ![b] = @ \cup new]
<1> DEFINE new == Serving(b, ReadAtLeast(b))'
<1>1. new \in SUBSET Nodes BY DEF Serving
<1>2. Holders[b] \cup new = new BY HoldersKept DEF Holders
<1>3. \A c \in Books \ {b} : Holders'[c] = Holders[c] BY DEF Holders, Serving, ReadAtLeast
<1>4. Holders'[b] = new BY DEF Holders
<1>5. Holders' = [Holders EXCEPT ![b] = @ \cup new]
  <2>1. Holders' = [c \in Books |-> Holders'[c]] /\ Holders = [c \in Books |-> Holders[c]]
    BY DEF Holders
  <2> HIDE DEF new
  <2> QED BY <1>2, <1>3, <1>4, <2>1
<1> QED BY <1>1, <1>5

\* Steps after which the row, the chunks and the library are what they were.
Unseen == UNCHANGED <<status, verdict, kept, onChain>>

\* All other steps, one for each write the lifecycle can see.
LEMMA UnseenSteps ==
  ASSUME [Next]_vars
  PROVE  \/ Unseen
         \/ \E b \in Books :
              \/ (CreateRow(b) \/ CreateReplyLost(b)) /\ InsertRow(b)
              \/ PushNode(b) \/ MarkStored(b) \/ FailRow(b)
              \/ RegisterMined(b) \/ ApiRegisters(b)
              \/ RegisterRecorded(b) \/ RegistrationSeen(b)
<1> USE DEF Unseen, rowVars, worldVars
<1>1. ASSUME NEW b \in Books, RequestStep(b)
      PROVE  Unseen \/ ((CreateRow(b) \/ CreateReplyLost(b)) /\ InsertRow(b))
  BY <1>1, Zenon DEF RequestStep, WriteSpool, CreateRow, CreateReplyLost, CreateRowFails, FirstPost
<1>2. ASSUME NEW b \in Books, HeaderStep(b) PROVE Unseen
  BY <1>2, Zenon DEF HeaderStep, ReadStatus, ReadTip, LastPost, Recheck, Repost, SaveRepost,
    SaveState
<1>3. ASSUME NEW b \in Books, DataStep(b) PROVE Unseen \/ PushNode(b) \/ MarkStored(b)
  BY <1>3, Zenon DEF DataStep, SpoolCheck, PushDone, PushFails, SavePush, Verify, SaveVerify,
    DropSpool, SaveState
<1>4. ASSUME NEW b \in Books, OutcomeStep(b) \/ PassRegisters(b) \/ PassThrows(b)
      PROVE  Unseen \/ FailRow(b)
  BY <1>4, Zenon DEF OutcomeStep, DropFailed, ClearError, HandleError, WriteError,
    PassRegisters, PassThrows
<1>5. ASSUME NEW b \in Books, RegistrationStep(b) \/ OutsideStep(b)
      PROVE  \/ Unseen
             \/ RegisterMined(b) \/ ApiRegisters(b) \/ RegisterRecorded(b) \/ RegistrationSeen(b)
  BY <1>5, Zenon DEF RegistrationStep, RegisterReturns, RegistrationFails, RegisterRecordThrows, OutsideStep,
    BackoffElapses
<1>6. ASSUME TickStep \/ ChainMoves \/ Crash \/ UNCHANGED vars PROVE Unseen
  BY <1>6, Zenon DEF TickStep, TickQuery, TickDispatch, RetryQuery, RetryNext, RetryEnds,
    MonitorQuery, MonitorRow, TickThrows, ChainMoves, Crash, vars
<1> QED
  BY <1>1, <1>2, <1>3, <1>4, <1>5, <1>6, Zenon DEF Next, PassStep

\* Every step of the worker is a step of the lifecycle, or none.
LEMMA LifecycleStep ==
  ASSUME TypeOK, TypeOK', IInv, [Next]_vars
  PROVE  [Lifecycle!Next]_(Lifecycle!lifecycleVars)
<1> USE DEF Lifecycle!Next, Lifecycle!lifecycleVars
<1>0. /\ status \in [Books -> Status] /\ verdict \in [Books -> FailReason \cup {"none"}]
      /\ kept \in [Books -> [Nodes -> SUBSET Chunks]] /\ pass \in [Books -> Pass]
      /\ request \in [Books -> RequestPoint]
  BY DEF TypeOK, WorkerTypeOK, Keeping
<1>8. ASSUME NEW b \in Books, CreateRowFails(b) PROVE Lifecycle!CopiesMade(b)
  <2>1. UNCHANGED <<chainVars, status, verdict, kept, onChain>>
    BY <1>8, Zenon DEF CreateRowFails, rowVars, worldVars
  <2>2. \A c \in Books \ {b} : request'[c] = request[c] BY <1>0, <1>8 DEF CreateRowFails
  <2>3. \E new \in SUBSET Nodes : Holders' = [Holders EXCEPT ![b] = @ \cup new]
    BY <2>1, <2>2, HoldersGrow
  <2> QED BY <2>1, <2>3, FateUnchanged DEF Lifecycle!CopiesMade
<1>3. ASSUME NEW b \in Books, PushNode(b) PROVE Lifecycle!CopiesMade(b)
  <2>1. \A c \in Books \ {b} : kept'[c] = kept[c] /\ request'[c] = request[c]
    BY <1>0, <1>3 DEF PushNode, processVars
  <2>2. UNCHANGED <<chainVars, status, verdict, onChain>>
    BY <1>3, Zenon DEF PushNode
  <2>3. \E new \in SUBSET Nodes : Holders' = [Holders EXCEPT ![b] = @ \cup new]
    BY <2>1, HoldersGrow
  <2> QED BY <2>2, <2>3, FateUnchanged DEF Lifecycle!CopiesMade
<1> SUFFICES ASSUME \A b \in Books : ~CreateRowFails(b) /\ ~PushNode(b)
             PROVE  [Lifecycle!Next]_(Lifecycle!lifecycleVars)
  BY <1>3, <1>8
<1>h. ASSUME UNCHANGED kept PROVE UNCHANGED Holders BY <1>h, HoldersUnchanged
<1>1. CASE Unseen
  BY <1>1, <1>h, FateDecided DEF Unseen, Lifecycle!NetworkDecides
<1>2. ASSUME NEW b \in Books, CreateRow(b) \/ CreateReplyLost(b), InsertRow(b)
      PROVE  Lifecycle!Upload(b)
  <2>1. status[b] = "absent" BY <1>2 DEF CreateRow, CreateReplyLost, IInv, RequestInv
  <2>2. UNCHANGED <<chainVars, kept, onChain>>
    BY <1>2, Zenon DEF CreateRow, CreateReplyLost, worldVars
  <2> QED BY <1>2, <1>h, <2>1, <2>2, FateUnchanged DEF InsertRow, Lifecycle!Upload
<1>4. ASSUME NEW b \in Books, MarkStored(b) PROVE Unseen \/ Lifecycle!Store(b)
  <2>1. UNCHANGED <<chainVars, verdict, kept, onChain>>
    BY <1>4, Zenon DEF MarkStored, worldVars
  <2>2. CASE ~StillPending(b) BY <1>4, <2>1, <2>2 DEF MarkStored, Unseen
  <2>3. CASE StillPending(b)
    <3>1. Settled(b) /\ EnoughHolders(b) BY <1>4, <2>3 DEF MarkStored, IInv, PassOK
    <3>2. status' = [status EXCEPT ![b] = "pending_stake"] BY <1>4, <2>3 DEF MarkStored
    <3>3. Fate[b] = "settled" BY <3>1 DEF Fate
    <3>4. Fate' = Fate BY <2>1, FateUnchanged
    <3>5. Holders[b] \in {S \in SUBSET Nodes : HasEnough(S)}
      BY <3>1 DEF Holders, EnoughHolders, Serving
    <3>6. Holders' = Holders BY <1>h, <2>1
    <3> QED BY <2>1, <2>3, <3>6, <3>2, <3>3, <3>4, <3>5, Zenon DEF StillPending, Lifecycle!Store
  <2> QED BY <2>2, <2>3
<1>5. ASSUME NEW b \in Books, FailRow(b)
      PROVE  \/ Unseen
             \/ \E why \in {"header_not_mined", "spool_missing", "chunk_fatal"} :
                  Lifecycle!Fail(b, why)
  <2>1. UNCHANGED <<chainVars, kept, onChain>>
    BY <1>5, Zenon DEF FailRow, worldVars
  <2>2. CASE ~StillPending(b) BY <1>5, <2>1, <2>2 DEF FailRow, Unseen
  <2>3. CASE StillPending(b)
    <3>1. /\ status' = [status EXCEPT ![b] = "storage_failed"]
          /\ verdict' = [verdict EXCEPT ![b] = pass[b].why]
      BY <1>5, <2>3 DEF FailRow
    <3>2. pass[b].why # "none" /\ (pass[b].why = "header_not_mined" => Dead(b))
      BY <1>5 DEF FailRow, IInv, PassOK
    <3>3. pass[b].why \in {"header_not_mined", "spool_missing", "chunk_fatal"}
      BY <1>0, <3>2 DEF Pass, FailReason
    <3>4. Dead(b) => Fate[b] = "dead" BY DEF Fate, Dead, Settled
    <3>5. Lifecycle!Fail(b, pass[b].why)
      BY <1>h, <2>1, <2>3, <3>1, <3>2, <3>4, FateUnchanged DEF StillPending, Lifecycle!Fail
    <3> QED BY <3>3, <3>5
  <2> QED BY <2>2, <2>3
<1>6. ASSUME NEW b \in Books, RegisterMined(b) \/ ApiRegisters(b)
      PROVE  Lifecycle!Register(b)
  <2>1. /\ onChain' = onChain \cup {b}
        /\ UNCHANGED <<chainVars, status, verdict, kept>>
    BY <1>6, Zenon DEF RegisterMined, ApiRegisters, rowVars
  <2>2. status[b] \in {"pending_stake", "pending"}
    BY <1>0, <1>6 DEF RegisterMined, ApiRegisters, IInv, RegisterInv, Stored, Status
  <2> QED BY <1>h, <2>1, <2>2, FateUnchanged DEF Lifecycle!Register, Lifecycle!Stored
<1>7. ASSUME NEW b \in Books, RegisterRecorded(b) \/ RegistrationSeen(b)
      PROVE  Unseen \/ Lifecycle!ShowRegistered(b)
  <2>1. MarkRegistered(b) /\ UNCHANGED <<chainVars, kept, onChain>>
    BY <1>7, Zenon DEF RegisterRecorded, RegistrationSeen, worldVars
  <2>2. b \in onChain
    BY <1>7 DEF RegisterRecorded, RegistrationSeen, IInv, RegisterInv
  <2> QED BY <1>h, <2>1, <2>2, FateUnchanged DEF MarkRegistered, Unseen, Lifecycle!ShowRegistered
<1> QED BY <1>1, <1>2, <1>4, <1>5, <1>6, <1>7, UnseenSteps

\* The worker refines the lifecycle of a book: its rows, with the fate the network
\* gives a header, the nodes that serve it back and the library, only move as BookLifecycle allows,
\* whatever passes, ticks, requests, crashes and lost replies come in between.
THEOREM LifecycleImplemented == Spec => ImplementsLifecycle
<1>1. TypeOK /\ TypeOK' /\ IInv /\ [Next]_vars => [Lifecycle!Next]_(Lifecycle!lifecycleVars)
  BY LifecycleStep
<1> QED BY <1>1, LifecycleInit, Invariance, PTL DEF Spec, ImplementsLifecycle, Lifecycle!Spec

-----------------------------------------------------------------------------
(* 4. The safety properties.                                               *)

\* A book failed as header_not_mined is in no block and gets into none, for every
\* lag and every replacement of blocks that DROP_MARGIN is chosen for.
THEOREM DropSafe == Spec => []DroppedNeverMined
<1>1. TypeOK /\ IInv => DroppedNeverMined BY DEF IInv, RowInv, DroppedNeverMined
<1> QED BY <1>1, Invariance, PTL

\* A stored book is in a block that stays.
THEOREM StoreSafe == Spec => []StoredIsSettled
<1>1. TypeOK /\ IInv => StoredIsSettled BY DEF IInv, RowInv, StoredIsSettled
<1> QED BY <1>1, Invariance, PTL

\* Enough nodes keep every chunk of a stored book that is sampled before it is stored:
\* the first, the last and those in between, or, if the file went with a reply that
\* was lost, the first and the last.
THEOREM HoldersSafe == Spec => []StoredOnEnoughNodes
<1>1. TypeOK /\ IInv => StoredOnEnoughNodes
  BY DEF IInv, RowInv, EnoughHolders, StoredOnEnoughNodes
<1> QED BY <1>1, Invariance, PTL

\* A book is put on-chain by pass, retry or POST /register only once it is stored.
THEOREM RegisterSafe == Spec => []RegisteredOnlyIfStored
<1>1. TypeOK /\ IInv => RegisteredOnlyIfStored
  BY DEF IInv, RegisterInv, RegisteredOnlyIfStored
<1> QED BY <1>1, Invariance, PTL

\* A pending upload has its spool file, unless its own request removed it when create()
\* reported an error about the row.
THEOREM SpoolSafe == Spec => []SpoolOutlivesPending
<1>1. TypeOK /\ IInv => SpoolOutlivesPending
  BY DEF IInv, SpoolInv, SpoolOutlivesPending
<1> QED BY <1>1, Invariance, PTL
=============================================================================
