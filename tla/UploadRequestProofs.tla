------------------------- MODULE UploadRequestProofs -------------------------
(***************************************************************************)
(* Theorems about UploadRequest.  The first part is about any limit of     *)
(* which requests read, at one moment, what counts against it, and decide  *)
(* at another.                                                             *)
(***************************************************************************)
EXTENDS UploadRequest, FiniteSetTheorems, WellFoundedInduction, TLAPS

\* counted: what counts against the limit, or may once the requests that passed end.
\* wait, read: requests that have not passed yet; those of them that hold what they read.
\* fresh: requests that have not arrived.
\* saw, ran: for those in read, a set with what they read, and those running then.
\* old, race: of the one that read last among those that ever passed, the same; empty
\* if none ever did.
Race(counted, wait, read, fresh, bound, saw, ran, old, race) ==
  /\ counted \subseteq old \cup race
  /\ IsFiniteSet(old) /\ (Cardinality(old) < bound \/ old \cup race = {})
  /\ race \subseteq Requests /\ Cardinality(race) <= AtOnce /\ race \cap fresh = {}
  /\ \A r \in read :
       /\ r \in ran[r] /\ ran[r] \subseteq Requests
       /\ Cardinality(ran[r]) <= AtOnce /\ ran[r] \cap fresh = {}
       /\ r \in race \/ (counted \subseteq saw[r] \cup ran[r] /\ race \cap wait \subseteq ran[r])
       /\ \A q \in read : q \in ran[r] \/ ran[r] \cap wait \subseteq ran[q]

\* What counts is less than the bound and one for each that ran at the same time.
LEMMA RaceBound ==
  ASSUME NEW counted, NEW wait, NEW read, NEW fresh, NEW bound \in Nat, NEW saw, NEW ran,
         NEW old, NEW race, Race(counted, wait, read, fresh, bound, saw, ran, old, race)
  PROVE  IsFiniteSet(counted) /\ Cardinality(counted) < bound + AtOnce
<1>1. IsFiniteSet(race) BY RequestAssumption, FS_Subset DEF Race
<1>2. IsFiniteSet(old) BY DEF Race
<1>3. /\ IsFiniteSet(old \cup race)
      /\ Cardinality(old \cup race) = Cardinality(old) + Cardinality(race) - Cardinality(old \cap race)
  BY <1>1, <1>2, FS_Union
<1>4. IsFiniteSet(old \cap race) BY <1>1, FS_Intersection
<1>5. IsFiniteSet(counted) /\ Cardinality(counted) <= Cardinality(old \cup race)
  BY <1>3, FS_Subset DEF Race
<1>6. /\ Cardinality(old) \in Nat /\ Cardinality(race) \in Nat
      /\ Cardinality(old \cap race) \in Nat /\ Cardinality(counted) \in Nat
      /\ Cardinality(old \cup race) \in Nat
  BY <1>1, <1>2, <1>3, <1>4, <1>5, FS_CardinalityType
<1>7. Cardinality(race) <= AtOnce /\ AtOnce \in Nat \ {0} BY RequestAssumption DEF Race
<1>8. Cardinality(counted) < bound + AtOnce
  <2>1. CASE Cardinality(old) < bound BY <1>3, <1>5, <1>6, <1>7, <2>1
  <2>2. CASE old \cup race = {}
    <3>1. Cardinality(counted) <= 0 BY <1>5, <2>2, FS_EmptySet
    <3> QED BY <1>6, <1>7, <3>1
  <2> QED BY <2>1, <2>2 DEF Race
<1> QED BY <1>5, <1>8

\* Requests that leave, or arrive, and uploads that no longer count.
LEMMA RaceGoesOn ==
  ASSUME NEW counted, NEW wait, NEW read, NEW fresh, NEW bound, NEW saw, NEW ran, NEW old, NEW race,
         Race(counted, wait, read, fresh, bound, saw, ran, old, race),
         NEW counted2, NEW wait2, NEW read2, NEW fresh2, NEW saw2,
         counted2 \subseteq counted, wait2 \subseteq wait \cup fresh,
         read2 \subseteq read, fresh2 \subseteq fresh, \A r \in read2 : saw2[r] = saw[r]
  PROVE  Race(counted2, wait2, read2, fresh2, bound, saw2, ran, old, race)
BY DEF Race

\* A request reads what counts, among those that run.
LEMMA RaceReads ==
  ASSUME NEW counted, NEW wait, NEW read, NEW fresh, NEW bound, NEW saw, NEW ran, NEW old, NEW race,
         Race(counted, wait, read, fresh, bound, saw, ran, old, race),
         NEW r \in wait \ read, read \subseteq wait,
         NEW saw2, NEW ran2, \A q \in read : saw2[q] = saw[q] /\ ran2[q] = ran[q],
         wait \subseteq ran2[r], counted \subseteq saw2[r] \cup ran2[r], ran2[r] \subseteq Requests,
         Cardinality(ran2[r]) <= AtOnce, ran2[r] \cap fresh = {}
  PROVE  Race(counted, wait, read \cup {r}, fresh, bound, saw2, ran2, old, race)
<1>1. ASSUME NEW q \in read \cup {r}
      PROVE  /\ q \in ran2[q] /\ ran2[q] \subseteq Requests
             /\ Cardinality(ran2[q]) <= AtOnce /\ ran2[q] \cap fresh = {}
             /\ q \in race \/ (counted \subseteq saw2[q] \cup ran2[q] /\ race \cap wait \subseteq ran2[q])
  <2>1. CASE q = r BY <2>1
  <2>2. CASE q \in read BY <2>2 DEF Race
  <2> QED BY <2>1, <2>2
<1>2. ASSUME NEW q \in read \cup {r}, NEW p \in read \cup {r}
      PROVE  p \in ran2[q] \/ ran2[q] \cap wait \subseteq ran2[p]
  <2>1. CASE p = r BY <2>1
  <2>2. CASE q = r BY <2>2
  <2>3. CASE p \in read /\ q \in read BY <2>3 DEF Race
  <2> QED BY <2>1, <2>2, <2>3
<1> QED BY <1>1, <1>2 DEF Race

\* A request passes: what it read is below the bound, without what counts no more.
LEMMA RacePasses ==
  ASSUME NEW counted, NEW wait, NEW read, NEW fresh, NEW bound, NEW saw, NEW ran, NEW old, NEW race,
         Race(counted, wait, read, fresh, bound, saw, ran, old, race),
         NEW r \in read, read \subseteq wait,
         NEW held, IsFiniteSet(held), Cardinality(held) < bound,
         counted \cap saw[r] \subseteq held
  PROVE  \E old2, race2 :
           Race(counted \cup {r}, wait \ {r}, read \ {r}, fresh, bound, saw, ran, old2, race2)
<1>1. CASE r \in race
  <2>1. \A q \in read \ {r} :
          q \in race \/ (counted \cup {r} \subseteq saw[q] \cup ran[q]
                         /\ race \cap (wait \ {r}) \subseteq ran[q])
    BY <1>1 DEF Race
  <2>2. Race(counted \cup {r}, wait \ {r}, read \ {r}, fresh, bound, saw, ran, old, race)
    BY <1>1, <2>1 DEF Race
  <2> QED BY <2>2
<1>2. CASE r \notin race
  <2>1. counted \subseteq saw[r] \cup ran[r] /\ race \cap wait \subseteq ran[r] /\ r \in ran[r]
    BY <1>2 DEF Race
  <2>2. counted \cup {r} \subseteq held \cup ran[r] BY <2>1
  <2>3. ASSUME NEW q \in read \ {r}, q \notin ran[r]
        PROVE  /\ counted \cup {r} \subseteq saw[q] \cup ran[q]
               /\ ran[r] \cap (wait \ {r}) \subseteq ran[q]
    <3>1. ran[r] \cap wait \subseteq ran[q] BY <2>3 DEF Race
    <3>2. r \in ran[q] BY <2>1, <3>1
    <3>3. q \notin race BY <2>1, <2>3
    <3>4. counted \subseteq saw[q] \cup ran[q] BY <3>3 DEF Race
    <3> QED BY <3>1, <3>2, <3>4
  <2>4. Race(counted \cup {r}, wait \ {r}, read \ {r}, fresh, bound, saw, ran, held, ran[r])
    BY <2>2, <2>3 DEF Race
  <2> QED BY <2>4
<1> QED BY <1>1, <1>2

-----------------------------------------------------------------------------
(* Rows, headers and ciphertexts.                                          *)

Passed == {"room", "funds", "budget", "seal", "spool", "create"}
Points == {"ready", "quota", "stakes", "unanswered", "post", "over", "rejected"} \cup Passed

\* Everything but the money, which the second part of the limits is about.
Types ==
  /\ limits \in Limits
  /\ at \in [Requests -> Points]
  /\ rows \in [Requests -> [held : SUBSET Requests, asked : SUBSET Requests]]
  /\ day \in [Requests -> Nat \cup {NotRead}]
  /\ spool \in SUBSET Requests /\ recent \in SUBSET Requests /\ staked \in SUBSET Requests
  /\ status \in [Requests -> {"absent", "pending_confirmation", "storage_failed",
                              "pending_stake", "pending"}]
  /\ header \in [Requests -> {"none", "posted", "mined", "dead"}]

\* A row is made by its request, and everything else about an upload follows its row.
RowInv ==
  \A r \in Requests :
    /\ at[r] \notin {"unanswered", "post", "over", "rejected"} => status[r] = "absent"
    /\ at[r] \in {"unanswered", "post"} => status[r] # "absent"
    /\ status[r] = "absent" => r \notin recent /\ r \notin staked /\ header[r] = "none"
    /\ status[r] = "pending_confirmation" \/ at[r] = "create" => r \in spool \/ at[r] = "rejected"
    /\ r \in staked => status[r] = "pending"
    /\ day[r] # NotRead => at[r] \in {"quota", "stakes"}

RunInv == Cardinality(Running) <= AtOnce

PlainInv == Types /\ RowInv /\ RunInv

LEMMA RunningFinite ==
  ASSUME NEW S, S \subseteq Requests
  PROVE  IsFiniteSet(S) /\ Cardinality(S) \in Nat
BY RequestAssumption, FS_Subset, FS_CardinalityType

\* Fewer requests run.
LEMMA FewerRun ==
  ASSUME PlainInv, \A r \in Requests : at'[r] \notin {"ready", "over", "rejected"} =>
                              at[r] \notin {"ready", "over", "rejected"}
  PROVE  RunInv'
<1>1. Running' \subseteq Running BY DEF Running
<1>2. Running \subseteq Requests BY DEF Running
<1>3. IsFiniteSet(Running) BY <1>2, RunningFinite
<1>4. Cardinality(Running') <= Cardinality(Running) /\ Cardinality(Running) \in Nat
      /\ Cardinality(Running') \in Nat
  BY <1>1, <1>2, <1>3, FS_Subset, RunningFinite
<1>5. Cardinality(Running) <= AtOnce BY DEF PlainInv, RunInv
<1>6. Cardinality(Running') <= AtOnce BY <1>4, <1>5, RequestAssumption
<1> QED BY <1>6 DEF RunInv

LEMMA PlainInit == Init => PlainInv
<1> SUFFICES ASSUME Init PROVE PlainInv OBVIOUS
<1>1. Types BY DEF Init, Types, Points, Passed, NoRows
<1>2. RowInv BY DEF Init, RowInv
<1>3. RunInv
  <2>1. Running = {} BY DEF Init, Running
  <2>2. Cardinality(Running) = 0 BY <2>1, FS_EmptySet
  <2> QED BY <2>2, RequestAssumption DEF RunInv
<1> QED BY <1>1, <1>2, <1>3 DEF PlainInv

LEMMA ArriveRuns == ASSUME PlainInv, NEW r \in Requests, Arrive(r) PROVE RunInv'
<1>1. at[r] = "ready" /\ Cardinality(Running) < AtOnce /\ at' = [at EXCEPT ![r] = "quota"]
  BY DEF Arrive, Go
<1>2. Running' = Running \cup {r} /\ r \notin Running
  BY <1>1 DEF Running, PlainInv, Types
<1>3. IsFiniteSet(Running) /\ Cardinality(Running) \in Nat BY RunningFinite DEF Running
<1>4. Cardinality(Running') = Cardinality(Running) + 1 BY <1>2, <1>3, FS_AddElement
<1>5. Cardinality(Running') <= AtOnce BY <1>1, <1>3, <1>4, RequestAssumption
<1> QED BY <1>5 DEF RunInv

\* A request that reads or checks: no row changes.
LEMMA LooksKeeps ==
  ASSUME PlainInv, NEW r \in Requests, NEW x \in {"quota", "stakes", "over"} \cup (Passed \ {"create"}),
         at[r] \in {"quota", "stakes"} \cup (Passed \ {"create"}), at' = [at EXCEPT ![r] = x],
         limits' = limits, UNCHANGED <<rowVars, worldVars>>,
         rows' \in [Requests -> [held : SUBSET Requests, asked : SUBSET Requests]],
         day' \in [Requests -> Nat \cup {NotRead}],
         \A q \in Requests : day'[q] # NotRead => at'[q] \in {"quota", "stakes"}
  PROVE  PlainInv'
<1>1. Types /\ RowInv BY DEF PlainInv
<1>2. \A q \in Requests : at'[q] = IF q = r THEN x ELSE at[q] BY <1>1 DEF Types
<1>3. UNCHANGED <<spool, status, recent, staked, header>> BY DEF rowVars, worldVars
<1>4. Types' BY <1>1, <1>3 DEF Types, Points, Passed
<1>5. RowInv'
  <2>1. \A q \in Requests : at'[q] \notin {"unanswered", "post", "over", "rejected"} =>
                             at[q] \notin {"unanswered", "post", "over", "rejected"}
    BY <1>2 DEF Passed
  <2>2. \A q \in Requests :
          /\ at'[q] \in {"unanswered", "post", "create"} => at'[q] = at[q]
          /\ at[q] = "rejected" => at'[q] = "rejected"
    BY <1>2 DEF Passed
  <2> QED BY <1>1, <1>3, <2>1, <2>2 DEF RowInv
<1>6. RunInv' BY <1>2, FewerRun DEF Passed
<1> QED BY <1>4, <1>5, <1>6 DEF PlainInv

\* The steps of an upload: no request moves.
LEMMA UploadKeeps == ASSUME PlainInv, NEW r \in Requests, UploadStep(r) PROVE PlainInv'
<1>1. Types /\ RowInv BY DEF PlainInv
<1>2. /\ limits' = limits /\ at' = at /\ rows' = rows /\ day' = day
      /\ recent' \subseteq recent
      /\ \/ UNCHANGED <<spool, status, staked, header>>
         \/ \E h \in {"posted", "mined", "dead"} :
              header' = [header EXCEPT ![r] = h] /\ status[r] # "absent"
              /\ UNCHANGED <<spool, status, staked>>
         \/ \E x \in {"pending_stake", "storage_failed"} :
              status' = [status EXCEPT ![r] = x] /\ status[r] = "pending_confirmation"
              /\ spool' = spool \ {r} /\ UNCHANGED <<staked, header>>
         \/ status' = [status EXCEPT ![r] = "pending"] /\ status[r] = "pending_stake"
              /\ UNCHANGED <<spool, staked, header>>
         \/ staked' = staked \cup {r} /\ status[r] = "pending" /\ UNCHANGED <<spool, status, header>>
  <2>1. \A q \in Requests : header[q] # "none" => status[q] # "absent" BY <1>1 DEF RowInv
  <2>2. CASE Expire(r) \/ Mine(r) \/ Unmine(r) \/ WorkerPosts(r)
    BY <2>1, <2>2 DEF Expire, Mine, Unmine, WorkerPosts, requestVars, rowVars
  <2>3. CASE WorkerRecords(r) \/ DayPasses(r)
    BY <2>3 DEF WorkerRecords, DayPasses, requestVars, worldVars
  <2>4. CASE WorkerStores(r) \/ WorkerFails(r) \/ Register(r) \/ Stake(r)
    BY <2>4 DEF WorkerStores, WorkerFails, Register, Stake, requestVars, rowVars, worldVars
  <2> QED BY <2>2, <2>3, <2>4 DEF UploadStep
<1>3. Types' BY <1>1, <1>2 DEF Types
<1>4. RowInv'
  <2>1. \A q \in Requests :
          /\ status'[q] = "absent" <=> status[q] = "absent"
          /\ q \notin staked => q \notin staked' \/ status'[q] = "pending"
          /\ q \in staked => status'[q] = "pending"
          /\ header'[q] # header[q] => status[q] # "absent"
          /\ status'[q] = "pending_confirmation" => status[q] = "pending_confirmation"
          /\ q \in spool \ spool' => status'[q] # "pending_confirmation" /\ at[q] # "create"
    BY <1>1, <1>2 DEF Types, RowInv
  <2> QED BY <1>1, <1>2, <2>1 DEF RowInv
<1>5. RunInv' BY <1>2, FewerRun
<1> QED BY <1>3, <1>4, <1>5 DEF PlainInv

LEMMA PlainNext == PlainInv /\ [Next]_vars => PlainInv'
<1> SUFFICES ASSUME PlainInv, [Next]_vars PROVE PlainInv' OBVIOUS
<1>0. Types /\ RowInv BY DEF PlainInv
<1>1. CASE UNCHANGED vars
  <2>1. UNCHANGED <<limits, at, rows, day, spool, status, recent, staked, header>>
    BY <1>1 DEF vars, requestVars, rowVars, worldVars
  <2>2. Types' /\ RowInv' BY <1>0, <2>1 DEF Types, RowInv
  <2>3. RunInv' BY <2>1, FewerRun
  <2> QED BY <2>2, <2>3 DEF PlainInv
<1>2. CASE Crash
  <2>1. /\ at' = [r \in Requests |-> IF r \in Running THEN "over" ELSE at[r]]
        /\ rows' = [r \in Requests |-> NoRows] /\ day' = [r \in Requests |-> NotRead]
        /\ UNCHANGED <<limits, spool, status, recent, staked, header>>
    BY <1>2 DEF Crash, rowVars, worldVars
  <2>2. Types' BY <1>0, <2>1 DEF Types, Points, NoRows
  <2>3. \A r \in Requests : /\ at'[r] \in {"over", "ready", "rejected"}
                            /\ at'[r] = "ready" => at[r] = "ready"
                            /\ at[r] = "rejected" <=> at'[r] = "rejected"
    BY <1>0, <2>1 DEF Types, Running
  <2>4. RowInv' BY <1>0, <2>1, <2>3 DEF RowInv
  <2>5. RunInv' BY <2>3, FewerRun
  <2> QED BY <2>2, <2>4, <2>5 DEF PlainInv
<1>3. ASSUME NEW r \in Requests, RequestStep(r) PROVE PlainInv'
  <2> DEFINE R == [Requests -> [held : SUBSET Requests, asked : SUBSET Requests]]
  <2> DEFINE D == [Requests -> Nat \cup {NotRead}]
  <2>1. /\ rows \in R /\ day \in D /\ [rows EXCEPT ![r] = NoRows] \in R
        /\ [day EXCEPT ![r] = NotRead] \in D
        /\ \A q \in Requests : day[q] # NotRead => at[q] \in {"quota", "stakes"}
    BY <1>0 DEF Types, RowInv, NoRows
  <2>2. CASE Arrive(r)
    <3>1. /\ at[r] = "ready" /\ at' = [at EXCEPT ![r] = "quota"]
          /\ UNCHANGED <<limits, rows, day, spool, status, recent, staked, header>>
      BY <2>2 DEF Arrive, Go, rowVars, worldVars
    <3>2. \A q \in Requests : at'[q] = IF q = r THEN "quota" ELSE at[q] BY <1>0, <3>1 DEF Types
    <3>3. Types' BY <1>0, <3>1 DEF Types, Points
    <3>4. RowInv' BY <1>0, <3>1, <3>2 DEF RowInv
    <3> QED BY <2>2, <3>3, <3>4, ArriveRuns DEF PlainInv
  <2>3. CASE ReadRows(r)
    <3>1. /\ at[r] = "quota" /\ at' = [at EXCEPT ![r] = "stakes"] /\ limits' = limits /\ day' = day
          /\ UNCHANGED <<rowVars, worldVars>>
      BY <2>3 DEF ReadRows, Go
    <3>2. rows' \in R
      <4>1. AwaitingRows(r) \subseteq Requests BY DEF AwaitingRows, Of
      <4> QED BY <2>1, <2>3, <4>1 DEF ReadRows
    <3>3. \A q \in Requests : day'[q] # NotRead => at'[q] \in {"quota", "stakes"}
      BY <1>0, <2>1, <3>1 DEF Types
    <3> QED BY <2>1, <3>1, <3>2, <3>3, LooksKeeps
  <2>4. CASE ReadDay(r)
    <3>1. /\ \E x \in {"quota", "stakes"} : at[r] = x /\ at' = [at EXCEPT ![r] = x]
          /\ limits' = limits /\ rows' = rows /\ UNCHANGED <<rowVars, worldVars>>
          /\ day' = [day EXCEPT ![r] = UploadsOfDay(r)]
      BY <1>0, <2>4 DEF ReadDay, Types
    <3>2. day' \in D
      <4>1. UploadsOfDay(r) \in Nat BY RunningFinite DEF UploadsOfDay, Of
      <4> QED BY <2>1, <3>1, <4>1
    <3>3. \A q \in Requests : day'[q] # NotRead => at'[q] \in {"quota", "stakes"}
      BY <1>0, <2>1, <3>1 DEF Types
    <3>4. PICK x \in {"quota", "stakes"} : at[r] = x /\ at' = [at EXCEPT ![r] = x] BY <3>1
    <3>5. /\ x \in {"quota", "stakes", "over"} \cup (Passed \ {"create"})
          /\ at[r] \in {"quota", "stakes"} \cup (Passed \ {"create"})
      BY <3>4
    <3>6. rows' \in R /\ limits' = limits /\ UNCHANGED <<rowVars, worldVars>> BY <2>1, <3>1
    <3> QED BY <3>2, <3>3, <3>4, <3>5, <3>6, LooksKeeps
  <2>5. CASE CheckQuota(r) \/ CheckRoom(r) \/ CheckFunds(r) \/ CheckBudget(r) \/ SealKey(r)
             \/ Refuse(r) \/ ReadBalance(r) \/ ReadCommitted(r)
    <3>1. /\ at[r] \in {"quota", "stakes"} \cup (Passed \ {"create"})
          /\ \E x \in {"over"} \cup (Passed \ {"create"}) : at' = [at EXCEPT ![r] = x]
          /\ limits' = limits /\ UNCHANGED <<rowVars, worldVars>>
      <4>1. CASE CheckQuota(r) \/ CheckRoom(r) \/ CheckFunds(r) \/ CheckBudget(r)
        BY <4>1 DEF CheckQuota, CheckRoom, CheckFunds, CheckBudget, Check, Go, Passed
      <4>2. CASE SealKey(r) \/ Refuse(r) BY <4>2 DEF SealKey, Refuse, Go, Passed
      <4>3. CASE ReadBalance(r) \/ ReadCommitted(r)
        <5>1. at[r] = "funds" /\ at' = at /\ limits' = limits /\ UNCHANGED <<rowVars, worldVars>>
          BY <4>3 DEF ReadBalance, ReadCommitted
        <5>2. at' = [at EXCEPT ![r] = "funds"] BY <1>0, <5>1 DEF Types
        <5> QED BY <5>1, <5>2 DEF Passed
      <4> QED BY <2>5, <4>1, <4>2, <4>3
    <3>2. /\ rows' \in {rows, [rows EXCEPT ![r] = NoRows]}
          /\ \/ day' = day /\ at[r] \in Passed
             \/ day' = [day EXCEPT ![r] = NotRead]
      BY <2>5 DEF CheckQuota, CheckRoom, CheckFunds, CheckBudget, SealKey, Refuse, ReadBalance,
                  ReadCommitted, Passed
    <3>3. day' \in D /\ \A q \in Requests : day'[q] # NotRead => day[q] # NotRead /\ q # r
      BY <1>0, <2>1, <3>2 DEF Passed
    <3>4. \A q \in Requests : day'[q] # NotRead => at'[q] \in {"quota", "stakes"}
      BY <1>0, <2>1, <3>1, <3>3 DEF Types
    <3>5. PICK x \in {"over"} \cup (Passed \ {"create"}) : at' = [at EXCEPT ![r] = x] BY <3>1
    <3>6. x \in {"quota", "stakes", "over"} \cup (Passed \ {"create"}) BY <3>5
    <3>7. rows' \in R BY <2>1, <3>2
    <3> QED BY <3>1, <3>3, <3>4, <3>5, <3>6, <3>7, LooksKeeps
  <2>6. CASE WriteSpool(r)
    <3>1. /\ at[r] = "spool" /\ at' = [at EXCEPT ![r] = "create"] /\ spool' = spool \cup {r}
          /\ UNCHANGED <<limits, rows, day, status, recent, staked, header>>
      BY <2>6 DEF WriteSpool, Go, worldVars
    <3>2. \A q \in Requests : at'[q] = IF q = r THEN "create" ELSE at[q] BY <1>0, <3>1 DEF Types
    <3>3. Types' BY <1>0, <3>1 DEF Types, Points, Passed
    <3>4. RowInv' BY <1>0, <3>1, <3>2 DEF RowInv
    <3>5. RunInv' BY <3>1, <3>2, FewerRun
    <3> QED BY <3>3, <3>4, <3>5 DEF PlainInv
  <2>7. CASE CreateRow(r) \/ CreateReplyLost(r)
    <3>1. /\ at[r] = "create" /\ \E x \in {"post", "unanswered"} : at' = [at EXCEPT ![r] = x]
          /\ status' = [status EXCEPT ![r] = "pending_confirmation"] /\ recent' = recent \cup {r}
          /\ UNCHANGED <<limits, rows, day, spool, staked, header>>
      BY <2>7 DEF CreateRow, CreateReplyLost, InsertRow, Go, worldVars
    <3>2. PICK x \in {"post", "unanswered"} : at' = [at EXCEPT ![r] = x] BY <3>1
    <3>3. \A q \in Requests : /\ at'[q] = IF q = r THEN x ELSE at[q]
                              /\ status'[q] = IF q = r THEN "pending_confirmation" ELSE status[q]
      BY <1>0, <3>1, <3>2 DEF Types
    <3>4. Types' BY <1>0, <3>1, <3>2 DEF Types, Points
    <3>5. RowInv' BY <1>0, <3>1, <3>3 DEF RowInv
    <3>6. RunInv' BY <3>1, <3>3, FewerRun
    <3> QED BY <3>4, <3>5, <3>6 DEF PlainInv
  <2>8. CASE CreateFails(r)
    <3>1. /\ at[r] \in {"create", "unanswered"} /\ at' = [at EXCEPT ![r] = "rejected"]
          /\ spool' \in {spool, spool \ {r}}
          /\ UNCHANGED <<limits, rows, day, status, recent, staked, header>>
      BY <2>8 DEF CreateFails, Go, worldVars
    <3>2. \A q \in Requests : at'[q] = IF q = r THEN "rejected" ELSE at[q] BY <1>0, <3>1 DEF Types
    <3>3. Types' BY <1>0, <3>1 DEF Types, Points
    <3>4. RowInv' BY <1>0, <3>1, <3>2 DEF RowInv
    <3>5. RunInv' BY <3>1, <3>2, FewerRun
    <3> QED BY <3>3, <3>4, <3>5 DEF PlainInv
  <2>9. CASE PostHeader(r)
    <3>1. /\ at[r] = "post" /\ at' = [at EXCEPT ![r] = "over"]
          /\ \/ header' = header
             \/ header' = [header EXCEPT ![r] = IF @ = "none" THEN "posted" ELSE @]
          /\ UNCHANGED <<limits, rows, day, spool, status, recent, staked>>
      BY <2>9 DEF PostHeader, Go, rowVars
    <3>2. \A q \in Requests : /\ at'[q] = IF q = r THEN "over" ELSE at[q]
                              /\ q # r => header'[q] = header[q]
      BY <1>0, <3>1 DEF Types
    <3>3. Types' BY <1>0, <3>1 DEF Types, Points
    <3>4. RowInv' BY <1>0, <3>1, <3>2 DEF RowInv
    <3>5. RunInv' BY <3>1, <3>2, FewerRun
    <3> QED BY <3>3, <3>4, <3>5 DEF PlainInv
  <2> QED BY <1>3, <2>2, <2>3, <2>4, <2>5, <2>6, <2>7, <2>8, <2>9 DEF RequestStep
<1> QED BY <1>1, <1>2, <1>3, UploadKeeps DEF Next

-----------------------------------------------------------------------------
(* The two limits of a wallet, as races.                                   *)

Fresh == {r \in Requests : at[r] = "ready"}
Waiting == {r \in Requests : at[r] \in {"quota", "stakes"}}

\* What holds a slot of the wallet of r, or will unless its request ends before.
Slots(r) == {q \in Of(r) : q \in Live \ staked \/ at[q] \in Passed}
SlotReaders(r) == {q \in Of(r) : at[q] = "stakes"}
SawRows == [r \in Requests |-> rows[r].held \cup rows[r].asked]

QuotaInv ==
  \A r \in Requests : \E ran, old, race :
    Race(Slots(r), Waiting, SlotReaders(r), Fresh, limits.awaiting, SawRows, ran, old, race)

\* The same for the uploads of a day, of which a request reads only how many they are.
InDay(r) == {q \in Of(r) : q \in Live \cap recent \/ at[q] \in Passed}
DayReaders(r) == {q \in Of(r) : day[q] # NotRead}
Counted(S, saw) == \A q \in S : IsFiniteSet(saw[q]) /\ Cardinality(saw[q]) = day[q]

DayInv ==
  \A r \in Requests : \E saw, ran, old, race :
    /\ Counted(DayReaders(r), saw)
    /\ Race(InDay(r), Waiting, DayReaders(r), Fresh, limits.day, saw, ran, old, race)

\* How requests move when none of them reads or passes.
Quiet ==
  /\ limits' = limits
  /\ \A q \in Requests :
       /\ at'[q] = "ready" => at[q] = "ready"
       /\ at'[q] = "quota" => at[q] \in {"ready", "quota"}
       /\ at'[q] = "stakes" => at[q] = "stakes"
       /\ at'[q] \in Passed => at[q] \in Passed

SlotsShrink == \A q \in Requests : q \in Live' \ staked' => q \in Live \ staked \/ at[q] \in Passed

InDayShrinks == \A q \in Requests : q \in Live' \cap recent' => q \in Live \cap recent \/ at[q] \in Passed

LEMMA QuietMoves ==
  ASSUME \A q \in Requests :
           /\ at'[q] = "ready" => at[q] = "ready"
           /\ at'[q] \in {"quota", "stakes"} => at[q] \in {"ready", "quota", "stakes"}
  PROVE  Fresh' \subseteq Fresh /\ Waiting' \subseteq Waiting \cup Fresh
BY DEF Fresh, Waiting

LEMMA QuotaQuiet ==
  ASSUME QuotaInv, Quiet, SlotsShrink, \A q \in Requests : at'[q] = "stakes" => rows'[q] = rows[q]
  PROVE  QuotaInv'
<1>1. Fresh' \subseteq Fresh /\ Waiting' \subseteq Waiting \cup Fresh BY QuietMoves DEF Quiet
<1> SUFFICES ASSUME NEW r \in Requests
             PROVE \E ran, old, race :
               Race(Slots(r)', Waiting', SlotReaders(r)', Fresh', limits'.awaiting, SawRows', ran, old, race)
  BY DEF QuotaInv
<1>2. PICK ran, old, race :
        Race(Slots(r), Waiting, SlotReaders(r), Fresh, limits.awaiting, SawRows, ran, old, race)
  BY DEF QuotaInv
<1>3. Slots(r)' \subseteq Slots(r) BY DEF Slots, Quiet, SlotsShrink, Of
<1>4. SlotReaders(r)' \subseteq SlotReaders(r) BY DEF SlotReaders, Quiet, Of
<1>5. \A q \in SlotReaders(r)' : SawRows'[q] = SawRows[q] BY DEF SlotReaders, SawRows, Of
<1>6. Race(Slots(r)', Waiting', SlotReaders(r)', Fresh', limits.awaiting, SawRows', ran, old, race)
  BY <1>1, <1>2, <1>3, <1>4, <1>5, RaceGoesOn
<1>7. limits'.awaiting = limits.awaiting BY DEF Quiet
<1> QED BY <1>6, <1>7

LEMMA DayQuiet ==
  ASSUME DayInv, limits' = limits, InDayShrinks,
         \A q \in Requests :
           /\ at'[q] = "ready" => at[q] = "ready"
           /\ at'[q] \in {"quota", "stakes"} => at[q] \in {"ready", "quota", "stakes"}
           /\ at'[q] \in Passed => at[q] \in Passed
           /\ day'[q] # NotRead => day'[q] = day[q]
  PROVE  DayInv'
<1>1. Fresh' \subseteq Fresh /\ Waiting' \subseteq Waiting \cup Fresh BY QuietMoves
<1> SUFFICES ASSUME NEW r \in Requests
             PROVE \E saw, ran, old, race :
               /\ Counted(DayReaders(r), saw)'
               /\ Race(InDay(r)', Waiting', DayReaders(r)', Fresh', limits'.day, saw, ran, old, race)
  BY DEF DayInv
<1>2. PICK saw, ran, old, race :
        /\ Counted(DayReaders(r), saw)
        /\ Race(InDay(r), Waiting, DayReaders(r), Fresh, limits.day, saw, ran, old, race)
  BY DEF DayInv
<1>3. InDay(r)' \subseteq InDay(r) BY DEF InDay, InDayShrinks, Of
<1>4. DayReaders(r)' \subseteq DayReaders(r) BY DEF DayReaders, Of
<1>5. Race(InDay(r)', Waiting', DayReaders(r)', Fresh', limits.day, saw, ran, old, race)
  BY <1>1, <1>2, <1>3, <1>4, RaceGoesOn
<1>6. \A q \in DayReaders(r)' : IsFiniteSet(saw[q]) /\ Cardinality(saw[q]) = day'[q]
  <2> SUFFICES ASSUME NEW q \in DayReaders(r)' PROVE IsFiniteSet(saw[q]) /\ Cardinality(saw[q]) = day'[q]
    OBVIOUS
  <2>1. q \in DayReaders(r) BY <1>4
  <2>2. day'[q] # NotRead /\ q \in Requests BY DEF DayReaders, Of
  <2> QED BY <1>2, <2>1, <2>2 DEF Counted
<1>7. Counted(DayReaders(r), saw)' BY <1>6 DEF Counted
<1> QED BY <1>5, <1>7

LEMMA ReadRowsKeeps == ASSUME PlainInv, QuotaInv, NEW r \in Requests, ReadRows(r) PROVE QuotaInv'
<1>1. /\ at[r] = "quota" /\ at' = [at EXCEPT ![r] = "stakes"]
      /\ UNCHANGED <<limits, status, recent, staked>>
  BY DEF ReadRows, Go, rowVars, worldVars
<1>2. \A q \in Requests : at'[q] = IF q = r THEN "stakes" ELSE at[q]
  BY <1>1 DEF PlainInv, Types
<1>3. Fresh' = Fresh /\ Waiting' = Waiting BY <1>1, <1>2 DEF Fresh, Waiting
<1>4. \A q \in Requests : q # r => rows'[q] = rows[q] BY DEF ReadRows, PlainInv, Types
<1>5. SawRows'[r] = AwaitingRows(r)
  BY DEF ReadRows, PlainInv, Types, SawRows
<1> SUFFICES ASSUME NEW s \in Requests
             PROVE \E ran, old, race :
               Race(Slots(s)', Waiting', SlotReaders(s)', Fresh', limits'.awaiting, SawRows', ran, old, race)
  BY DEF QuotaInv
<1>6. PICK ran, old, race :
        Race(Slots(s), Waiting, SlotReaders(s), Fresh, limits.awaiting, SawRows, ran, old, race)
  BY DEF QuotaInv
<1>7. Slots(s)' = Slots(s) BY <1>1, <1>2 DEF Slots, Live, Of, Passed
<1>8. SlotReaders(s)' = IF r \in Of(s) THEN SlotReaders(s) \cup {r} ELSE SlotReaders(s)
  BY <1>2 DEF SlotReaders, Of
<1>9. \A q \in SlotReaders(s) : SawRows'[q] = SawRows[q] /\ q # r
  BY <1>1, <1>4 DEF SlotReaders, SawRows, Of
<1>10. CASE r \notin Of(s)
  <2>1. Race(Slots(s), Waiting, SlotReaders(s), Fresh, limits.awaiting, SawRows', ran, old, race)
    BY <1>6, <1>9, RaceGoesOn
  <2> QED BY <1>1, <1>3, <1>7, <1>8, <1>10, <2>1
<1>11. CASE r \in Of(s)
  <2> DEFINE ran2 == [q \in Requests |-> IF q = r THEN Running ELSE ran[q]]
  <2>1. r \in Waiting \ SlotReaders(s) /\ SlotReaders(s) \subseteq Waiting
    BY <1>1 DEF Waiting, SlotReaders, Of
  <2>2. \A q \in SlotReaders(s) : SawRows'[q] = SawRows[q] /\ ran2[q] = ran[q]
    BY <1>9 DEF SlotReaders, Of
  <2>3. ran2[r] = Running OBVIOUS
  <2>4. Waiting \subseteq Running /\ Running \subseteq Requests /\ Running \cap Fresh = {}
    BY DEF Waiting, Running, Fresh
  <2>5. Cardinality(Running) <= AtOnce BY DEF PlainInv, RunInv
  <2>6. Slots(s) \subseteq SawRows'[r] \cup Running
    <3>1. ASSUME NEW q \in Slots(s), q \notin Running PROVE q \in AwaitingRows(r)
      <4>1. q \in Of(r) /\ q \in Requests BY <1>11 DEF Slots, Of
      <4>2. q \in Live BY <3>1 DEF Slots, Running, Passed, Of
      <4>3. status[q] \in {"pending_confirmation", "pending_stake", "pending"}
        BY <4>1, <4>2 DEF Live, PlainInv, Types
      <4> QED BY <4>1, <4>3 DEF AwaitingRows, WithStatus
    <3> QED BY <1>5, <3>1
  <2> HIDE DEF ran2
  <2>7. Race(Slots(s), Waiting, SlotReaders(s) \cup {r}, Fresh, limits.awaiting, SawRows', ran2, old, race)
    BY <1>6, <2>1, <2>2, <2>3, <2>4, <2>5, <2>6, RaceReads
  <2> QED BY <1>1, <1>3, <1>7, <1>8, <1>11, <2>7
<1> QED BY <1>10, <1>11

LEMMA ReadDayKeeps == ASSUME PlainInv, DayInv, NEW r \in Requests, ReadDay(r) PROVE DayInv'
<1>1. /\ at[r] \in {"quota", "stakes"} /\ day[r] = NotRead /\ day' = [day EXCEPT ![r] = UploadsOfDay(r)]
      /\ UNCHANGED <<limits, at, status, recent, staked>>
  BY DEF ReadDay, rowVars, worldVars
<1>2. \A q \in Requests : day'[q] = IF q = r THEN UploadsOfDay(r) ELSE day[q]
  BY <1>1 DEF PlainInv, Types
<1> DEFINE now == Of(r) \cap InLastDay
<1>3. IsFiniteSet(now) /\ Cardinality(now) = day'[r] /\ day'[r] # NotRead
  <2>1. IsFiniteSet(now) /\ Cardinality(now) \in Nat BY RunningFinite DEF Of
  <2> QED BY <1>2, <2>1 DEF UploadsOfDay, NotRead
<1> SUFFICES ASSUME NEW s \in Requests
             PROVE \E saw, ran, old, race :
               /\ Counted(DayReaders(s), saw)'
               /\ Race(InDay(s)', Waiting', DayReaders(s)', Fresh', limits'.day, saw, ran, old, race)
  BY DEF DayInv
<1>4. PICK saw, ran, old, race :
        /\ Counted(DayReaders(s), saw)
        /\ Race(InDay(s), Waiting, DayReaders(s), Fresh, limits.day, saw, ran, old, race)
  BY DEF DayInv
<1>5. Fresh' = Fresh /\ Waiting' = Waiting /\ InDay(s)' = InDay(s)
  BY <1>1 DEF Fresh, Waiting, InDay, Live, Of
<1>6. DayReaders(s)' = IF r \in Of(s) THEN DayReaders(s) \cup {r} ELSE DayReaders(s)
  BY <1>2, <1>3 DEF DayReaders, Of
<1>7. \A q \in DayReaders(s) : q # r /\ q \in Requests /\ day'[q] = day[q]
  BY <1>1, <1>2 DEF DayReaders, Of
<1>8. CASE r \notin Of(s)
  <2>1. DayReaders(s)' = DayReaders(s) BY <1>6, <1>8
  <2>2. \A q \in DayReaders(s)' : IsFiniteSet(saw[q]) /\ Cardinality(saw[q]) = day'[q]
    BY <1>4, <1>7, <2>1 DEF Counted
  <2>3. Counted(DayReaders(s), saw)' BY <2>2 DEF Counted
  <2>4. Race(InDay(s)', Waiting', DayReaders(s)', Fresh', limits'.day, saw, ran, old, race)
    BY <1>1, <1>4, <1>5, <2>1
  <2> QED BY <2>3, <2>4
<1>9. CASE r \in Of(s)
  <2> DEFINE ran2 == [q \in Requests |-> IF q = r THEN Running ELSE ran[q]]
  <2>0. PICK saw2 : saw2 = [q \in Requests |-> IF q = r THEN now ELSE saw[q]] OBVIOUS
  <2>1. r \in Waiting \ DayReaders(s) /\ DayReaders(s) \subseteq Waiting
    BY <1>1 DEF Waiting, DayReaders, Of, PlainInv, RowInv
  <2>2. \A q \in DayReaders(s) : saw2[q] = saw[q] /\ ran2[q] = ran[q] BY <1>7, <2>0
  <2>3. ran2[r] = Running /\ saw2[r] = now BY <2>0
  <2>4. Waiting \subseteq Running /\ Running \subseteq Requests /\ Running \cap Fresh = {}
    BY DEF Waiting, Running, Fresh
  <2>5. Cardinality(Running) <= AtOnce BY DEF PlainInv, RunInv
  <2>6. InDay(s) \subseteq now \cup Running
    <3>1. ASSUME NEW q \in InDay(s), q \notin Running PROVE q \in now
      <4>1. q \in Of(r) /\ q \in Requests BY <1>9 DEF InDay, Of
      <4>2. q \in Live \cap recent BY <3>1 DEF InDay, Running, Passed, Of
      <4> QED BY <4>1, <4>2 DEF InLastDay, Live, WithStatus
    <3> QED BY <3>1
  <2>7. \A q \in DayReaders(s) \cup {r} : IsFiniteSet(saw2[q]) /\ Cardinality(saw2[q]) = day'[q]
    BY <1>3, <1>4, <1>7, <2>2, <2>3 DEF Counted
  <2> HIDE DEF ran2, now
  <2>8. Race(InDay(s), Waiting, DayReaders(s) \cup {r}, Fresh, limits.day, saw2, ran2, old, race)
    BY <1>4, <2>1, <2>2, <2>3, <2>4, <2>5, <2>6, RaceReads
  <2>9. Counted(DayReaders(s), saw2)' BY <1>6, <1>9, <2>7 DEF Counted
  <2>10. Race(InDay(s)', Waiting', DayReaders(s)', Fresh', limits'.day, saw2, ran2, old, race)
    BY <1>1, <1>5, <1>6, <1>9, <2>8
  <2> QED BY <2>9, <2>10
<1> QED BY <1>8, <1>9

\* A request that passes both limits of its wallet.
LEMMA PassKeeps ==
  ASSUME PlainInv, QuotaInv, DayInv, NEW r \in Requests, CheckQuota(r), at' = [at EXCEPT ![r] = "room"]
  PROVE  QuotaInv' /\ DayInv'
<1>1. /\ at[r] = "stakes" /\ day[r] # NotRead
      /\ rows' = [rows EXCEPT ![r] = NoRows] /\ day' = [day EXCEPT ![r] = NotRead]
      /\ UNCHANGED <<limits, status, recent, staked>>
  BY DEF CheckQuota, rowVars, worldVars
<1>2. \A q \in Requests : /\ at'[q] = IF q = r THEN "room" ELSE at[q]
                          /\ day'[q] = IF q = r THEN NotRead ELSE day[q]
                          /\ q # r => rows'[q] = rows[q]
  BY <1>1 DEF PlainInv, Types
<1>3. PICK known \in SUBSET (rows[r].asked \cap staked) :
        /\ Cardinality(rows[r].held \cup (rows[r].asked \ known)) < limits.awaiting
        /\ day[r] < limits.day
  <2>1. at'[r] # "over" BY <1>2
  <2> QED BY <2>1, <1>2 DEF CheckQuota, Check, Go, PlainInv, Types
<1> DEFINE held == rows[r].held \cup (rows[r].asked \ known)
<1>4. Fresh' = Fresh /\ Waiting' = Waiting \ {r} BY <1>1, <1>2 DEF Fresh, Waiting
<1>5. QuotaInv'
  <2> SUFFICES ASSUME NEW s \in Requests
               PROVE \E ran, old, race :
                 Race(Slots(s)', Waiting', SlotReaders(s)', Fresh', limits'.awaiting, SawRows', ran, old, race)
    BY DEF QuotaInv
  <2>1. PICK ran, old, race :
          Race(Slots(s), Waiting, SlotReaders(s), Fresh, limits.awaiting, SawRows, ran, old, race)
    BY DEF QuotaInv
  <2>2. SlotReaders(s)' = SlotReaders(s) \ {r} BY <1>1, <1>2 DEF SlotReaders, Of
  <2>3. \A q \in SlotReaders(s)' : SawRows'[q] = SawRows[q]
    BY <1>2, <2>2 DEF SawRows, SlotReaders, Of
  <2>4. CASE r \notin Of(s)
    <3>1. Slots(s)' = Slots(s) BY <1>1, <1>2, <2>4 DEF Slots, Live, Of
    <3>2. Race(Slots(s)', Waiting', SlotReaders(s)', Fresh', limits.awaiting, SawRows', ran, old, race)
      BY <1>4, <2>1, <2>2, <2>3, <3>1, RaceGoesOn
    <3> QED BY <1>1, <3>2
  <2>5. CASE r \in Of(s)
    <3>1. Slots(s)' \subseteq Slots(s) \cup {r} BY <1>1, <1>2 DEF Slots, Live, Of, Passed
    <3>2. r \in SlotReaders(s) /\ SlotReaders(s) \subseteq Waiting
      BY <1>1, <2>5 DEF SlotReaders, Waiting, Of
    <3>3. IsFiniteSet(held)
      <4>1. held \subseteq Requests BY DEF PlainInv, Types
      <4> QED BY <4>1, RunningFinite
    <3>4. Slots(s) \cap SawRows[r] \subseteq held
      <4>1. ASSUME NEW q \in Slots(s), q \in known PROVE FALSE
        <5>1. q \in staked /\ q \in Requests BY <4>1 DEF Slots, Of
        <5>2. status[q] = "pending" BY <5>1 DEF PlainInv, RowInv
        <5>3. at[q] \in Passed BY <5>1 DEF Slots
        <5> QED BY <5>1, <5>2, <5>3 DEF PlainInv, RowInv, Passed
      <4>2. SawRows[r] = rows[r].held \cup rows[r].asked BY DEF SawRows
      <4> QED BY <4>1, <4>2
    <3>5. Cardinality(held) < limits.awaiting BY <1>3
    <3> HIDE DEF held
    <3>6. PICK old2, race2 :
            Race(Slots(s) \cup {r}, Waiting \ {r}, SlotReaders(s) \ {r}, Fresh, limits.awaiting,
                 SawRows, ran, old2, race2)
      BY <2>1, <3>2, <3>3, <3>4, <3>5, RacePasses
    <3>7. Race(Slots(s)', Waiting', SlotReaders(s)', Fresh', limits.awaiting, SawRows', ran, old2, race2)
      BY <1>4, <2>2, <2>3, <3>1, <3>6, RaceGoesOn
    <3> QED BY <1>1, <3>7
  <2> QED BY <2>4, <2>5
<1>6. DayInv'
  <2> SUFFICES ASSUME NEW s \in Requests
               PROVE \E saw, ran, old, race :
                 /\ Counted(DayReaders(s), saw)'
                 /\ Race(InDay(s)', Waiting', DayReaders(s)', Fresh', limits'.day, saw, ran, old, race)
    BY DEF DayInv
  <2>1. PICK saw, ran, old, race :
          /\ Counted(DayReaders(s), saw)
          /\ Race(InDay(s), Waiting, DayReaders(s), Fresh, limits.day, saw, ran, old, race)
    BY DEF DayInv
  <2>2. DayReaders(s)' = DayReaders(s) \ {r} BY <1>1, <1>2 DEF DayReaders, Of
  <2>3. \A q \in DayReaders(s)' : IsFiniteSet(saw[q]) /\ Cardinality(saw[q]) = day'[q]
    BY <1>2, <2>1, <2>2 DEF Counted, DayReaders, Of
  <2>4. Counted(DayReaders(s), saw)' BY <2>3 DEF Counted
  <2>5. CASE r \notin Of(s)
    <3>1. InDay(s)' = InDay(s) BY <1>1, <1>2, <2>5 DEF InDay, Live, Of
    <3>2. Race(InDay(s)', Waiting', DayReaders(s)', Fresh', limits.day, saw, ran, old, race)
      BY <1>4, <2>1, <2>2, <3>1, RaceGoesOn
    <3> QED BY <1>1, <2>4, <3>2
  <2>6. CASE r \in Of(s)
    <3>1. InDay(s)' \subseteq InDay(s) \cup {r} BY <1>1, <1>2 DEF InDay, Live, Of, Passed
    <3>2. r \in DayReaders(s) /\ DayReaders(s) \subseteq Waiting
      BY <1>1, <2>6 DEF DayReaders, Waiting, Of, PlainInv, RowInv
    <3>3. IsFiniteSet(saw[r]) /\ Cardinality(saw[r]) < limits.day BY <1>3, <2>1, <3>2 DEF Counted
    <3>4. PICK old2, race2 :
            Race(InDay(s) \cup {r}, Waiting \ {r}, DayReaders(s) \ {r}, Fresh, limits.day,
                 saw, ran, old2, race2)
      BY <2>1, <3>2, <3>3, RacePasses
    <3>5. Race(InDay(s)', Waiting', DayReaders(s)', Fresh', limits.day, saw, ran, old2, race2)
      BY <1>4, <2>2, <3>1, <3>4, RaceGoesOn
    <3> QED BY <1>1, <2>4, <3>5
  <2> QED BY <2>5, <2>6
<1> QED BY <1>5, <1>6

-----------------------------------------------------------------------------
(* All steps.                                                              *)

IInv == PlainInv /\ QuotaInv /\ DayInv

LEMMA IInvInit == Init => IInv
<1> SUFFICES ASSUME Init PROVE IInv OBVIOUS
<1>1. /\ at = [r \in Requests |-> "ready"] /\ status = [r \in Requests |-> "absent"]
      /\ day = [r \in Requests |-> NotRead] /\ recent = {}
  BY DEF Init
<1>2. IsFiniteSet({}) /\ Cardinality({}) = 0 /\ 0 <= AtOnce BY FS_EmptySet, RequestAssumption
<1>3. ASSUME NEW r \in Requests
      PROVE  Slots(r) = {} /\ SlotReaders(r) = {} /\ InDay(r) = {} /\ DayReaders(r) = {}
  BY <1>1 DEF Slots, SlotReaders, InDay, DayReaders, Live, Of, Passed
<1>4. \A wait, fresh, bound, saw, ran : Race({}, wait, {}, fresh, bound, saw, ran, {}, {})
  BY <1>2 DEF Race
<1>5. QuotaInv BY <1>3, <1>4 DEF QuotaInv
<1>6. DayInv BY <1>3, <1>4 DEF DayInv, Counted
<1> QED BY <1>5, <1>6, PlainInit DEF IInv

\* A step that moves no request: what counts may only be less.
LEMMA StillKeeps ==
  ASSUME IInv, UNCHANGED <<limits, at, rows, day>>, SlotsShrink, InDayShrinks
  PROVE  QuotaInv' /\ DayInv'
<1>1. Quiet BY DEF Quiet
<1>2. QuotaInv' BY <1>1, QuotaQuiet DEF IInv
<1>3. DayInv' BY DayQuiet DEF IInv
<1> QED BY <1>2, <1>3

\* A request that goes from one point to another, and passes no limit of its wallet.
LEMMA GoesKeeps ==
  ASSUME IInv, NEW r \in Requests, NEW x, at' = [at EXCEPT ![r] = x], limits' = limits,
         x \in {"over", "rejected"} \/ (at[r] = "ready" /\ x = "quota")
           \/ (at[r] \in Passed /\ x \in Passed \cup {"post", "unanswered"}),
         rows' = rows \/ rows' = [rows EXCEPT ![r] = NoRows],
         day' = day \/ day' = [day EXCEPT ![r] = NotRead],
         SlotsShrink, InDayShrinks
  PROVE  QuotaInv' /\ DayInv'
<1>1. Types BY DEF IInv, PlainInv
<1>2. \A q \in Requests : at'[q] = IF q = r THEN x ELSE at[q] BY <1>1 DEF Types
<1>3. Quiet BY <1>2 DEF Quiet, Passed
<1>4. \A q \in Requests : at'[q] = "stakes" => q # r BY <1>2 DEF Passed
<1>5. \A q \in Requests : at'[q] = "stakes" => rows'[q] = rows[q] BY <1>1, <1>4 DEF Types
<1>6. QuotaInv' BY <1>3, <1>5, QuotaQuiet DEF IInv
<1>7. \A q \in Requests : day'[q] # NotRead => day'[q] = day[q] BY <1>1 DEF Types
<1>8. DayInv' BY <1>3, <1>7, DayQuiet DEF Quiet, IInv
<1> QED BY <1>6, <1>8

\* Rows that are as they were.
LEMMA RowsStay == ASSUME UNCHANGED <<status, recent, staked>> PROVE SlotsShrink /\ InDayShrinks
BY DEF SlotsShrink, InDayShrinks, Live

\* A request that is answered.
LEMMA EndsKeeps ==
  ASSUME IInv, NEW r \in Requests, NEW x \in {"over", "rejected"}, at' = [at EXCEPT ![r] = x],
         limits' = limits,
         rows' = rows \/ rows' = [rows EXCEPT ![r] = NoRows],
         day' = day \/ day' = [day EXCEPT ![r] = NotRead], UNCHANGED <<status, recent, staked>>
  PROVE  QuotaInv' /\ DayInv'
<1>1. SlotsShrink /\ InDayShrinks BY RowsStay
<1> QED BY <1>1, GoesKeeps

LEMMA IInvNext == IInv /\ [Next]_vars => IInv'
<1> SUFFICES ASSUME IInv, [Next]_vars PROVE QuotaInv' /\ DayInv'
  BY PlainNext DEF IInv
<1>0. PlainInv /\ QuotaInv /\ DayInv /\ Types /\ RowInv BY DEF IInv, PlainInv
<1>1. CASE UNCHANGED vars
  BY <1>1, RowsStay, StillKeeps DEF vars, requestVars, rowVars, worldVars
<1>2. CASE Crash
  <2>1. /\ at' = [r \in Requests |-> IF r \in Running THEN "over" ELSE at[r]]
        /\ day' = [r \in Requests |-> NotRead] /\ limits' = limits
        /\ UNCHANGED <<status, recent, staked>>
    BY <1>2 DEF Crash, rowVars, worldVars
  <2>2. \A r \in Requests : /\ at'[r] \in {"over", "ready", "rejected"}
                            /\ at'[r] = "ready" => at[r] = "ready"
    BY <1>0, <2>1 DEF Types, Running
  <2>3. Quiet BY <2>1, <2>2 DEF Quiet, Passed
  <2>4. SlotsShrink /\ InDayShrinks BY <2>1, RowsStay
  <2>5. QuotaInv' BY <1>0, <2>2, <2>3, <2>4, QuotaQuiet
  <2>6. DayInv' BY <1>0, <2>1, <2>3, <2>4, DayQuiet DEF Quiet
  <2> QED BY <2>5, <2>6
<1>3. ASSUME NEW r \in Requests, UploadStep(r) PROVE QuotaInv' /\ DayInv'
  <2>1. /\ UNCHANGED <<limits, at, rows, day>> /\ recent' \subseteq recent /\ staked \subseteq staked'
        /\ \/ status' = status
           \/ status' = [status EXCEPT ![r] = "storage_failed"]
           \/ status[r] \in {"pending_confirmation", "pending_stake"}
              /\ \E x \in {"pending_stake", "pending"} : status' = [status EXCEPT ![r] = x]
    <3>1. CASE Expire(r) \/ Mine(r) \/ Unmine(r) \/ WorkerPosts(r)
      BY <3>1 DEF Expire, Mine, Unmine, WorkerPosts, requestVars, rowVars
    <3>2. CASE WorkerRecords(r) \/ DayPasses(r) \/ Stake(r)
      BY <3>2 DEF WorkerRecords, DayPasses, Stake, requestVars, rowVars, worldVars
    <3>3. CASE WorkerStores(r) \/ WorkerFails(r) \/ Register(r)
      BY <3>3 DEF WorkerStores, WorkerFails, Register, requestVars, worldVars
    <3> QED BY <1>3, <3>1, <3>2, <3>3 DEF UploadStep
  <2>2. Live' \subseteq Live BY <1>0, <2>1 DEF Live, Types
  <2>3. SlotsShrink /\ InDayShrinks BY <2>1, <2>2 DEF SlotsShrink, InDayShrinks
  <2> QED BY <2>1, <2>3, StillKeeps
<1>4. ASSUME NEW r \in Requests, RequestStep(r) PROVE QuotaInv' /\ DayInv'
  <2>1. CASE Arrive(r)
    BY <2>1, RowsStay, GoesKeeps DEF Arrive, Go, rowVars, worldVars
  <2>2. CASE ReadRows(r)
    <3>1. /\ at[r] = "quota" /\ at' = [at EXCEPT ![r] = "stakes"] /\ limits' = limits /\ day' = day
          /\ UNCHANGED <<status, recent, staked>>
      BY <2>2 DEF ReadRows, Go, rowVars, worldVars
    <3>2. \A q \in Requests : at'[q] = IF q = r THEN "stakes" ELSE at[q] BY <1>0, <3>1 DEF Types
    <3>3. InDayShrinks BY <3>1, RowsStay
    <3>4. DayInv' BY <1>0, <3>1, <3>2, <3>3, DayQuiet DEF Passed
    <3> QED BY <1>0, <2>2, <3>4, ReadRowsKeeps
  <2>3. CASE ReadDay(r)
    <3>1. UNCHANGED <<limits, at, rows, status, recent, staked>> BY <2>3 DEF ReadDay, rowVars, worldVars
    <3>2. Quiet BY <3>1 DEF Quiet
    <3>3. QuotaInv' BY <1>0, <3>1, <3>2, RowsStay, QuotaQuiet
    <3> QED BY <1>0, <2>3, <3>3, ReadDayKeeps
  <2>4. CASE CheckQuota(r)
    <3>1. /\ at' \in {[at EXCEPT ![r] = "room"], [at EXCEPT ![r] = "over"]} /\ limits' = limits
          /\ rows' = [rows EXCEPT ![r] = NoRows] /\ day' = [day EXCEPT ![r] = NotRead]
          /\ UNCHANGED <<status, recent, staked>>
      BY <2>4 DEF CheckQuota, Check, Go, rowVars, worldVars
    <3>2. CASE at' = [at EXCEPT ![r] = "room"] BY <1>0, <2>4, <3>2, PassKeeps
    <3>3. CASE at' = [at EXCEPT ![r] = "over"] BY <3>1, <3>3, EndsKeeps
    <3> QED BY <3>1, <3>2, <3>3
  <2>5. CASE ReadBalance(r) \/ ReadCommitted(r)
    BY <2>5, RowsStay, StillKeeps DEF ReadBalance, ReadCommitted, rowVars, worldVars
  <2>6. CASE CheckRoom(r) \/ CheckFunds(r) \/ CheckBudget(r)
    <3>1. /\ at[r] \in Passed /\ \E x \in {"over"} \cup Passed : at' = [at EXCEPT ![r] = x]
          /\ UNCHANGED <<limits, rows, day, status, recent, staked>>
      BY <2>6 DEF CheckRoom, CheckFunds, CheckBudget, Check, Go, Passed, rowVars, worldVars
    <3>2. PICK x \in {"over"} \cup Passed : at' = [at EXCEPT ![r] = x] BY <3>1
    <3>3. x # "quota" BY DEF Passed
    <3> QED BY <3>1, <3>2, <3>3, RowsStay, GoesKeeps
  <2>7. CASE SealKey(r) \/ WriteSpool(r)
    <3>1. /\ at[r] \in Passed /\ \E x \in Passed : at' = [at EXCEPT ![r] = x]
          /\ UNCHANGED <<limits, rows, day, status, recent, staked>>
      BY <2>7 DEF SealKey, WriteSpool, Go, Passed, rowVars, worldVars
    <3>2. PICK x \in Passed : at' = [at EXCEPT ![r] = x] BY <3>1
    <3>3. x # "quota" BY DEF Passed
    <3> QED BY <3>1, <3>2, <3>3, RowsStay, GoesKeeps
  <2>8. CASE CreateRow(r) \/ CreateReplyLost(r)
    <3>1. /\ at[r] = "create" /\ \E x \in {"post", "unanswered"} : at' = [at EXCEPT ![r] = x]
          /\ status' = [status EXCEPT ![r] = "pending_confirmation"] /\ recent' = recent \cup {r}
          /\ UNCHANGED <<limits, rows, day, staked>>
      BY <2>8 DEF CreateRow, CreateReplyLost, InsertRow, Go, worldVars
    <3>2. at[r] \in Passed BY <3>1 DEF Passed
    <3>3. \A q \in Requests : q # r => status'[q] = status[q] /\ (q \in recent' <=> q \in recent)
      BY <1>0, <3>1 DEF Types
    <3>4. SlotsShrink /\ InDayShrinks BY <3>1, <3>2, <3>3 DEF SlotsShrink, InDayShrinks, Live
    <3>5. PICK x \in {"post", "unanswered"} : at' = [at EXCEPT ![r] = x] BY <3>1
    <3>6. x # "quota" OBVIOUS
    <3> QED BY <3>1, <3>2, <3>4, <3>5, <3>6, GoesKeeps
  <2>9. CASE CreateFails(r) \/ PostHeader(r)
    <3>1. /\ \E x \in {"over", "rejected"} : at' = [at EXCEPT ![r] = x]
          /\ UNCHANGED <<limits, rows, day, status, recent, staked>>
      BY <2>9 DEF CreateFails, PostHeader, Go, rowVars, worldVars
    <3> QED BY <3>1, EndsKeeps
  <2>10. CASE Refuse(r)
    <3>1. /\ at' = [at EXCEPT ![r] = "over"] /\ rows' = [rows EXCEPT ![r] = NoRows]
          /\ day' = [day EXCEPT ![r] = NotRead] /\ UNCHANGED <<limits, status, recent, staked>>
      BY <2>10 DEF Refuse, Go, rowVars, worldVars
    <3> QED BY <3>1, EndsKeeps
  <2> QED BY <1>4, <2>1, <2>2, <2>3, <2>4, <2>5, <2>6, <2>7, <2>8, <2>9, <2>10 DEF RequestStep
<1> QED BY <1>1, <1>2, <1>3, <1>4 DEF Next

LEMMA RequestInvariant == Spec => []IInv
  BY IInvInit, IInvNext, PTL DEF Spec

-----------------------------------------------------------------------------
(* Sums of fees.  Sum() is a fold; here it is counted instead, coin by     *)
(* coin, and what is known of cardinalities does the rest.                 *)

\* A set of numbers that is not empty has a least one.
LEMMA LeastNumber ==
  ASSUME NEW N \in SUBSET Nat, N # {}
  PROVE  \E m \in N : \A n \in N : m <= n
<1> DEFINE R == {ss \in Nat \X Nat : ss[1] < ss[2]}
<1>1. IsWellFoundedOn(R, Nat) BY NatLessThanWellFounded DEF OpToRel
<1>2. N \subseteq Nat OBVIOUS
<1> HIDE DEF R
<1>3. PICK m \in N : \A n \in N : ~(<<n, m>> \in R) BY <1>1, <1>2, WFMin
<1>4. ASSUME NEW n \in N PROVE m <= n
  <2>1. m \in Nat /\ n \in Nat BY <1>2
  <2>2. <<n, m>> \in Nat \X Nat BY <2>1
  <2>3. ~(n < m) BY <1>3, <2>2 DEF R
  <2> QED BY <2>1, <2>3
<1> QED BY <1>4

\* The coins a set of fees is made of.
CoinsOf(r) == {r} \X (0 .. FeeOf[r] - 1)
Coins(S) == UNION {CoinsOf(r) : r \in S}
Worth(S) == Cardinality(Coins(S))

LEMMA CoinsFinite ==
  ASSUME NEW S, S \subseteq Requests
  PROVE  IsFiniteSet(Coins(S)) /\ Worth(S) \in Nat
<1>1. IsFiniteSet({CoinsOf(r) : r \in S})
  <2> DEFINE T == {CoinsOf(r) : r \in S}
  <2> DEFINE f == [r \in S |-> CoinsOf(r)]
  <2>1. IsFiniteSet(S) BY RunningFinite
  <2>2. f \in Surjection(S, T) BY DEF Surjection
  <2> HIDE DEF f, T
  <2>3. IsFiniteSet(T) BY <2>1, <2>2, FS_Surjection
  <2> QED BY <2>3 DEF T
<1>2. ASSUME NEW r \in S PROVE IsFiniteSet(CoinsOf(r))
  <2>1. 0 \in Int /\ FeeOf[r] - 1 \in Int BY RequestAssumption
  <2>2. IsFiniteSet(0 .. FeeOf[r] - 1) BY <2>1, FS_Interval
  <2>3. IsFiniteSet({r}) BY FS_Singleton
  <2> QED BY <2>2, <2>3, FS_Product DEF CoinsOf
<1>3. \A C \in {CoinsOf(r) : r \in S} : IsFiniteSet(C) BY <1>2
<1>4. IsFiniteSet(Coins(S)) BY <1>1, <1>3, FS_UNION DEF Coins
<1> QED BY <1>4, FS_CardinalityType DEF Worth

LEMMA WorthOfOne == ASSUME NEW r \in Requests PROVE Worth({r}) = FeeOf[r]
<1> DEFINE I == 0 .. FeeOf[r] - 1
<1>1. FeeOf[r] \in Nat /\ 0 \in Int /\ FeeOf[r] - 1 \in Int BY RequestAssumption
<1>2. IsFiniteSet({r}) /\ Cardinality({r}) = 1 BY FS_Singleton
<1>3. IsFiniteSet(I) /\ Cardinality(I) = IF 0 > FeeOf[r] - 1 THEN 0 ELSE FeeOf[r] - 1 - 0 + 1
  BY <1>1, FS_Interval
<1>4. Cardinality(I) = FeeOf[r]
  <2> HIDE DEF I
  <2> QED BY <1>1, <1>3
<1>5. Cardinality(CoinsOf(r)) = Cardinality({r}) * Cardinality(I)
  <2> HIDE DEF I
  <2>1. Cardinality({r} \X I) = Cardinality({r}) * Cardinality(I) BY <1>2, <1>3, FS_Product
  <2> QED BY <2>1 DEF CoinsOf, I
<1>6. Cardinality(CoinsOf(r)) = FeeOf[r]
  <2> HIDE DEF I
  <2> QED BY <1>1, <1>2, <1>4, <1>5
<1>7. Coins({r}) = CoinsOf(r) BY DEF Coins
<1> QED BY <1>6, <1>7 DEF Worth

LEMMA WorthAdds ==
  ASSUME NEW S, NEW T, S \subseteq Requests, T \subseteq Requests, S \cap T = {}
  PROVE  Worth(S \cup T) = Worth(S) + Worth(T)
<1>1. IsFiniteSet(Coins(S)) /\ IsFiniteSet(Coins(T)) /\ Worth(S) \in Nat /\ Worth(T) \in Nat
  BY CoinsFinite
<1>2. Coins(S \cup T) = Coins(S) \cup Coins(T) BY DEF Coins
<1>3. \A r, q : \A c \in CoinsOf(r) : c \in CoinsOf(q) => r = q BY DEF CoinsOf
<1>4. Coins(S) \cap Coins(T) = {} BY <1>3 DEF Coins
<1>5. Cardinality(Coins(S) \cup Coins(T)) = Worth(S) + Worth(T) - Cardinality(Coins(S) \cap Coins(T))
  BY <1>1, FS_Union DEF Worth
<1>6. Cardinality(Coins(S) \cap Coins(T)) = 0 BY <1>4, FS_EmptySet
<1>7. Cardinality(Coins(S) \cup Coins(T)) = Worth(S) + Worth(T) BY <1>1, <1>5, <1>6
<1> QED BY <1>2, <1>7 DEF Worth

\* The functions that MapThenFoldSet() of the community module FiniteSetsExt chooses from.
Folds(f, S) ==
  f = [T \in SUBSET S |-> IF T = {} THEN 0
         ELSE FeeOf[CHOOSE x \in T : TRUE] + f[T \ {CHOOSE x \in T : TRUE}]]

LEMMA WorthFolds ==
  ASSUME NEW S, S \subseteq Requests
  PROVE  Folds([T \in SUBSET S |-> Worth(T)], S)
<1>1. Worth({}) = 0
  <2>1. Coins({}) = {} BY DEF Coins
  <2> QED BY <2>1, FS_EmptySet DEF Worth
<1>2. ASSUME NEW T \in SUBSET S, T # {}
      PROVE  Worth(T) = FeeOf[CHOOSE x \in T : TRUE] + Worth(T \ {CHOOSE x \in T : TRUE})
  <2> DEFINE x == CHOOSE x \in T : TRUE
  <2>1. x \in T BY <1>2
  <2>2. x \in Requests /\ {x} \subseteq Requests /\ T \ {x} \subseteq Requests BY <2>1
  <2>3. T = {x} \cup (T \ {x}) /\ {x} \cap (T \ {x}) = {} BY <2>1
  <2> HIDE DEF x
  <2>4. Worth({x} \cup (T \ {x})) = Worth({x}) + Worth(T \ {x}) BY <2>2, <2>3, WorthAdds
  <2>5. Worth(T) = FeeOf[x] + Worth(T \ {x}) BY <2>2, <2>3, <2>4, WorthOfOne
  <2> QED BY <2>5 DEF x
<1> DEFINE f == [T \in SUBSET S |-> Worth(T)]
<1>3. f = [T \in SUBSET S |-> IF T = {} THEN 0
             ELSE FeeOf[CHOOSE x \in T : TRUE] + f[T \ {CHOOSE x \in T : TRUE}]]
  <2>1. \A T \in SUBSET S : f[T] = Worth(T) OBVIOUS
  <2>2. \A T \in SUBSET S : T \ {CHOOSE x \in T : TRUE} \in SUBSET S OBVIOUS
  <2>3. ASSUME NEW T \in SUBSET S
        PROVE  f[T] = IF T = {} THEN 0
                      ELSE FeeOf[CHOOSE x \in T : TRUE] + f[T \ {CHOOSE x \in T : TRUE}]
    <3> HIDE DEF f
    <3>1. CASE T = {} BY <1>1, <2>1, <3>1
    <3>2. CASE T # {} BY <1>2, <2>1, <2>2, <3>2
    <3> QED BY <3>1, <3>2
  <2> QED BY <2>3
<1> QED BY <1>3 DEF Folds

LEMMA FoldsAgree ==
  ASSUME NEW S, S \subseteq Requests, NEW f, Folds(f, S), NEW g, Folds(g, S)
  PROVE  f[S] = g[S]
<1> DEFINE Differ == {T \in SUBSET S : f[T] # g[T]}
<1> SUFFICES ASSUME Differ # {} PROVE FALSE OBVIOUS
<1> DEFINE Sizes == {Cardinality(T) : T \in Differ}
<1>1. Sizes \in SUBSET Nat /\ Sizes # {}
  <2>1. ASSUME NEW T \in Differ PROVE Cardinality(T) \in Nat BY RunningFinite
  <2> QED BY <2>1
<1>2. PICK n \in Sizes : \A m \in Sizes : n <= m
  <2> HIDE DEF Sizes
  <2> QED BY <1>1, LeastNumber
<1>3. PICK T \in Differ : Cardinality(T) = n BY <1>2
<1>4. T \in SUBSET S /\ f[T] # g[T] /\ IsFiniteSet(T) /\ n \in Nat BY <1>1, <1>3, RunningFinite
<1>5. T # {} BY <1>4 DEF Folds
<1> DEFINE x == CHOOSE x \in T : TRUE
<1>6. x \in T BY <1>5
<1>7. f[T] = FeeOf[x] + f[T \ {x}] /\ g[T] = FeeOf[x] + g[T \ {x}] BY <1>4, <1>5 DEF Folds
<1> HIDE DEF x
<1>8. T \ {x} \in Differ BY <1>4, <1>7
<1>9. Cardinality(T \ {x}) = n - 1 BY <1>3, <1>4, <1>6, FS_RemoveElement
<1>10. n <= n - 1 BY <1>2, <1>8, <1>9
<1> QED BY <1>4, <1>10

LEMMA SumIsWorth == ASSUME NEW S, S \subseteq Requests PROVE Sum(S) = Worth(S)
<1> DEFINE h == CHOOSE f : Folds(f, S)
<1> DEFINE g == [T \in SUBSET S |-> Worth(T)]
<1>1. Folds(g, S) BY WorthFolds
<1>2. g[S] = Worth(S) OBVIOUS
<1> HIDE DEF g
<1>3. Folds(h, S) BY <1>1
<1>4. Sum(S) = h[S] BY DEF Sum, MapThenSumSet, MapThenFoldSet, Folds
<1> HIDE DEF h
<1> QED BY <1>1, <1>2, <1>3, <1>4, FoldsAgree

\* What the sums of fees are known to do.
LEMMA SumType == ASSUME NEW S, S \subseteq Requests PROVE Sum(S) \in Nat
BY SumIsWorth, CoinsFinite

LEMMA SumAdds ==
  ASSUME NEW S, NEW T, S \subseteq Requests, T \subseteq Requests, S \cap T = {}
  PROVE  Sum(S \cup T) = Sum(S) + Sum(T)
<1>1. S \cup T \subseteq Requests OBVIOUS
<1> QED BY <1>1, SumIsWorth, WorthAdds

LEMMA SumOfOne == ASSUME NEW r \in Requests PROVE Sum({r}) = FeeOf[r]
<1>1. {r} \subseteq Requests OBVIOUS
<1> QED BY <1>1, SumIsWorth, WorthOfOne

LEMMA SumGrows ==
  ASSUME NEW S, NEW T, T \subseteq Requests, S \subseteq T
  PROVE  Sum(S) <= Sum(T)
<1>1. T = S \cup (T \ S) /\ S \cap (T \ S) = {} /\ S \subseteq Requests /\ T \ S \subseteq Requests
  OBVIOUS
<1>2. Sum(S \cup (T \ S)) = Sum(S) + Sum(T \ S) BY <1>1, SumAdds
<1>3. Sum(T) = Sum(S) + Sum(T \ S) BY <1>1, <1>2
<1>4. Sum(S) \in Nat /\ Sum(T \ S) \in Nat BY <1>1, SumType
<1> QED BY <1>3, <1>4

-----------------------------------------------------------------------------
(* The budget of a day, over all wallets.  Nothing is read long before it  *)
(* is used: checkDailyBudget() reads the sum and decides at once.  But     *)
(* what passed and has no row yet is in nobody's sum.                      *)

PastBudget == {q \in Requests : at[q] \in {"seal", "spool", "create"}}

\* What counts against the budget, or will unless its request ends before.
Spending == PastBudget \cup (Live \cap recent)

\* But for the requests that the last one to pass ran beside, it is in the budget.
BudgetInv ==
  \E S \in SUBSET Requests : Cardinality(S) < AtOnce /\ Sum(Spending \ S) <= limits.budget

MoneyTypes ==
  /\ balance \in [Requests -> Int] /\ committed \in [Requests -> Int]
  /\ recorded \in SUBSET Requests /\ faults \in Nat

MoneyInv == MoneyTypes /\ BudgetInv

LEMMA MoneyInit == Init => MoneyInv
<1> SUFFICES ASSUME Init PROVE MoneyInv OBVIOUS
<1>1. MoneyTypes BY DEF Init, MoneyTypes, NotRead
<1>2. Spending = {} BY DEF Init, Spending, PastBudget
<1>3. Sum({}) = 0
  <2>1. Coins({}) = {} BY DEF Coins
  <2>2. Worth({}) = 0 BY <2>1, FS_EmptySet DEF Worth
  <2>3. {} \subseteq Requests OBVIOUS
  <2> QED BY <2>2, <2>3, SumIsWorth
<1>4. Spending \ {} = {} /\ {} \in SUBSET Requests BY <1>2
<1>5. Cardinality({}) < AtOnce BY FS_EmptySet, RequestAssumption
<1>6. limits.budget \in Nat BY RequestAssumption DEF Init
<1>7. Sum(Spending \ {}) <= limits.budget BY <1>3, <1>4, <1>6
<1> QED BY <1>1, <1>4, <1>5, <1>7 DEF BudgetInv, MoneyInv

\* Nothing new is spent.
LEMMA SpendsLess ==
  ASSUME PlainInv, BudgetInv, limits' = limits, Spending' \subseteq Spending
  PROVE  BudgetInv'
<1>1. PICK S \in SUBSET Requests : Cardinality(S) < AtOnce /\ Sum(Spending \ S) <= limits.budget
  BY DEF BudgetInv
<1>2. Spending \ S \subseteq Requests /\ Spending' \ S \subseteq Spending \ S
  BY DEF Spending, PastBudget, Live
<1>3. Sum(Spending' \ S) <= Sum(Spending \ S) BY <1>2, SumGrows
<1>4. Spending' \ S \subseteq Requests BY <1>2
<1>5. Sum(Spending' \ S) \in Nat /\ Sum(Spending \ S) \in Nat /\ limits.budget \in Nat
  BY <1>2, <1>4, SumType, RequestAssumption DEF PlainInv, Types
<1>6. Sum(Spending' \ S) <= limits'.budget BY <1>1, <1>3, <1>5
<1>7. Sum((Spending \ S)') <= limits'.budget BY <1>6
<1> QED BY <1>1, <1>6 DEF BudgetInv

\* No request passes the check and no row is made.
LEMMA NoOneSpends ==
  ASSUME PlainInv, BudgetInv, limits' = limits, recent' \subseteq recent, Live' \subseteq Live,
         \A q \in Requests : at'[q] \in {"seal", "spool", "create"} =>
                               at[q] \in {"seal", "spool", "create"}
  PROVE  BudgetInv'
<1>1. PastBudget' \subseteq PastBudget BY DEF PastBudget
<1>2. Spending' \subseteq Spending BY <1>1 DEF Spending
<1> QED BY <1>2, SpendsLess

\* A request passes: with what is spent so far, its fee is in the budget.
LEMMA PassesBudget ==
  ASSUME PlainInv, NEW r \in Requests, CheckBudget(r), at' = [at EXCEPT ![r] = "seal"]
  PROVE  BudgetInv'
<1>1. /\ at[r] = "budget" /\ UNCHANGED <<limits, status, recent>>
      /\ \A q \in Requests : at'[q] = IF q = r THEN "seal" ELSE at[q]
  BY DEF CheckBudget, rowVars, worldVars, PlainInv, Types
<1>2. Spent + FeeOf[r] <= limits.budget
  <2>1. at'[r] = "seal" BY <1>1
  <2> QED BY <2>1, <1>1 DEF CheckBudget, Check, Go, PlainInv, Types
<1> DEFINE S == PastBudget
<1>3. S \in SUBSET Requests /\ Cardinality(S) < AtOnce
  <2>1. S \cup {r} \subseteq Running /\ Running \subseteq Requests /\ r \notin S /\ S \subseteq Requests
    BY <1>1 DEF PastBudget, Running
  <2>2. IsFiniteSet(S) /\ IsFiniteSet(Running) /\ Cardinality(S) \in Nat /\ Cardinality(Running) \in Nat
    BY <2>1, RunningFinite
  <2>3. Cardinality(S \cup {r}) = Cardinality(S) + 1 BY <2>1, <2>2, FS_AddElement
  <2>4. Cardinality(S \cup {r}) <= Cardinality(Running) BY <2>1, <2>2, FS_Subset
  <2>5. Cardinality(Running) <= AtOnce BY DEF PlainInv, RunInv
  <2> HIDE DEF S
  <2>6. Cardinality(S) < AtOnce BY <2>2, <2>3, <2>4, <2>5, RequestAssumption
  <2> QED BY <2>1, <2>6
<1>4. Spending' \ S \subseteq {r} \cup InLastDay
  <2>1. PastBudget' \subseteq S \cup {r} BY <1>1 DEF PastBudget
  <2>2. (Live \cap recent)' \subseteq InLastDay BY <1>1 DEF Live, InLastDay, WithStatus
  <2> QED BY <2>1, <2>2 DEF Spending
<1>5. {r} \subseteq Requests /\ InLastDay \subseteq Requests /\ {r} \cap InLastDay = {}
      /\ {r} \cup InLastDay \subseteq Requests
  BY <1>1 DEF InLastDay, PlainInv, Types, RowInv
<1>6. Sum({r} \cup InLastDay) = FeeOf[r] + Spent BY <1>5, SumAdds, SumOfOne DEF Spent
<1>7. Sum(Spending' \ S) <= Sum({r} \cup InLastDay) BY <1>4, <1>5, SumGrows
<1>8. /\ Sum(Spending' \ S) \in Nat /\ Spent \in Nat /\ FeeOf[r] \in Nat /\ limits.budget \in Nat
  <2>1. Spending' \ S \subseteq Requests BY <1>4, <1>5
  <2> QED BY <1>5, <2>1, SumType, RequestAssumption DEF Spent, PlainInv, Types
<1> HIDE DEF S
<1>9. Sum(Spending' \ S) <= limits'.budget BY <1>1, <1>2, <1>6, <1>7, <1>8
<1> QED BY <1>3, <1>9 DEF BudgetInv

LEMMA MoneyTypesNext ==
  ASSUME PlainInv, MoneyTypes, [Next]_vars
  PROVE  MoneyTypes'
<1>0. Types BY DEF PlainInv
<1>1. CASE UNCHANGED vars BY <1>1 DEF MoneyTypes, vars, requestVars, rowVars
<1>2. CASE Crash
  BY <1>2 DEF MoneyTypes, Crash, Fault, NotRead, rowVars
<1>3. ASSUME NEW r \in Requests, UploadStep(r) PROVE MoneyTypes'
  <2>1. balance' = balance /\ committed' = committed /\ faults' = faults
        /\ recorded' \in {recorded, recorded \cup {r}}
    <3>1. CASE Expire(r) \/ Mine(r) \/ Unmine(r) \/ WorkerPosts(r) \/ Stake(r)
      BY <3>1 DEF Expire, Mine, Unmine, WorkerPosts, Stake, requestVars, rowVars
    <3>2. CASE WorkerRecords(r) \/ DayPasses(r) \/ WorkerStores(r) \/ WorkerFails(r) \/ Register(r)
      BY <3>2 DEF WorkerRecords, DayPasses, WorkerStores, WorkerFails, Register, requestVars
    <3> QED BY <1>3, <3>1, <3>2 DEF UploadStep
  <2> QED BY <2>1 DEF MoneyTypes
<1>4. ASSUME NEW r \in Requests, RequestStep(r) PROVE MoneyTypes'
  <2>1. CASE ReadBalance(r)
    <3>1. PICK unseen \in SUBSET (Paid \cap WithStatus({"pending_confirmation"})) :
            balance' = [balance EXCEPT ![r] = Balance + Sum(unseen)]
      BY <2>1 DEF ReadBalance
    <3>2. unseen \subseteq Requests /\ Paid \subseteq Requests BY DEF Paid
    <3>3. Balance + Sum(unseen) \in Int BY <3>2, SumType, RequestAssumption DEF Balance
    <3>4. UNCHANGED <<committed, recorded, faults>> BY <2>1 DEF ReadBalance, rowVars
    <3> QED BY <3>1, <3>3, <3>4 DEF MoneyTypes
  <2>2. CASE ReadCommitted(r)
    <3>1. Sum(WithStatus({"pending_confirmation"}) \ recorded) \in Nat
      <4>1. WithStatus({"pending_confirmation"}) \ recorded \subseteq Requests BY DEF WithStatus
      <4> QED BY <4>1, SumType
    <3>2. committed' = [committed EXCEPT ![r] = Sum(WithStatus({"pending_confirmation"}) \ recorded)]
          /\ UNCHANGED <<balance, recorded, faults>>
      BY <2>2 DEF ReadCommitted, rowVars
    <3> QED BY <3>1, <3>2 DEF MoneyTypes
  <2>3. CASE CheckFunds(r) \/ Refuse(r)
    BY <2>3 DEF MoneyTypes, CheckFunds, Refuse, Fault, NotRead, rowVars
  <2>4. CASE Arrive(r) \/ ReadRows(r) \/ ReadDay(r) \/ CheckQuota(r) \/ CheckRoom(r)
             \/ CheckBudget(r) \/ SealKey(r)
    BY <2>4 DEF MoneyTypes, Arrive, ReadRows, ReadDay, CheckQuota, CheckRoom, CheckBudget, SealKey,
                rowVars
  <2>5. CASE WriteSpool(r) \/ CreateRow(r) \/ CreateReplyLost(r) \/ PostHeader(r) \/ CreateFails(r)
    BY <2>5 DEF MoneyTypes, WriteSpool, CreateRow, CreateReplyLost, InsertRow, PostHeader,
                CreateFails, Fault, rowVars
  <2> QED BY <1>4, <2>1, <2>2, <2>3, <2>4, <2>5 DEF RequestStep
<1> QED BY <1>1, <1>2, <1>3, <1>4 DEF Next

LEMMA BudgetNext == ASSUME PlainInv, BudgetInv, [Next]_vars PROVE BudgetInv'
<1>0. Types BY DEF PlainInv
<1>1. CASE UNCHANGED vars
  BY <1>1, NoOneSpends DEF vars, requestVars, rowVars, Live
<1>2. CASE Crash
  <2>1. /\ at' = [r \in Requests |-> IF r \in Running THEN "over" ELSE at[r]]
        /\ UNCHANGED <<limits, status, recent>>
    BY <1>2 DEF Crash, rowVars
  <2>2. \A q \in Requests : at'[q] \notin {"seal", "spool", "create"}
    BY <1>0, <2>1 DEF Types, Running
  <2> QED BY <2>1, <2>2, NoOneSpends DEF Live
<1>3. ASSUME NEW r \in Requests, UploadStep(r) PROVE BudgetInv'
  <2>1. /\ UNCHANGED <<limits, at>> /\ recent' \subseteq recent
        /\ \/ status' = status
           \/ status' = [status EXCEPT ![r] = "storage_failed"]
           \/ status[r] \in {"pending_confirmation", "pending_stake"}
              /\ \E x \in {"pending_stake", "pending"} : status' = [status EXCEPT ![r] = x]
    <3>1. CASE Expire(r) \/ Mine(r) \/ Unmine(r) \/ WorkerPosts(r)
      BY <3>1 DEF Expire, Mine, Unmine, WorkerPosts, requestVars, rowVars
    <3>2. CASE WorkerRecords(r) \/ DayPasses(r) \/ Stake(r)
      BY <3>2 DEF WorkerRecords, DayPasses, Stake, requestVars, rowVars, worldVars
    <3>3. CASE WorkerStores(r) \/ WorkerFails(r) \/ Register(r)
      BY <3>3 DEF WorkerStores, WorkerFails, Register, requestVars, worldVars
    <3> QED BY <1>3, <3>1, <3>2, <3>3 DEF UploadStep
  <2>2. Live' \subseteq Live BY <1>0, <2>1 DEF Live, Types
  <2> QED BY <2>1, <2>2, NoOneSpends
<1>4. ASSUME NEW r \in Requests, RequestStep(r) PROVE BudgetInv'
  <2>1. CASE CheckBudget(r)
    <3>1. /\ at' \in {[at EXCEPT ![r] = "seal"], [at EXCEPT ![r] = "over"]}
          /\ UNCHANGED <<limits, status, recent>>
      BY <2>1 DEF CheckBudget, Check, Go, rowVars
    <3>2. CASE at' = [at EXCEPT ![r] = "over"]
      <4>1. \A q \in Requests : at'[q] # at[q] => at'[q] = "over" BY <1>0, <3>2 DEF Types
      <4>2. \A q \in Requests : at'[q] \in {"seal", "spool", "create"} =>
                                  at[q] \in {"seal", "spool", "create"}
        BY <4>1
      <4> QED BY <3>1, <4>2, NoOneSpends DEF Live
    <3> QED BY <2>1, <3>1, <3>2, PassesBudget
  <2>2. CASE CreateRow(r) \/ CreateReplyLost(r)
    <3>1. /\ at[r] = "create" /\ \E x \in {"post", "unanswered"} : at' = [at EXCEPT ![r] = x]
          /\ limits' = limits
          /\ status' = [status EXCEPT ![r] = "pending_confirmation"] /\ recent' = recent \cup {r}
      BY <2>2 DEF CreateRow, CreateReplyLost, InsertRow, Go
    <3>2. \A q \in Requests :
            /\ q # r => at'[q] = at[q] /\ status'[q] = status[q]
            /\ at'[r] \in {"post", "unanswered"}
      BY <1>0, <3>1 DEF Types
    <3>3. Spending' \subseteq Spending BY <3>1, <3>2 DEF Spending, PastBudget, Live
    <3> QED BY <3>1, <3>3, SpendsLess
  <2>3. CASE Arrive(r) \/ ReadRows(r) \/ ReadDay(r) \/ CheckQuota(r) \/ CheckRoom(r)
             \/ ReadBalance(r) \/ ReadCommitted(r) \/ CheckFunds(r)
    <3>1. /\ at' = at \/ \E x \in {"quota", "stakes", "room", "funds", "budget", "over"} :
                           at' = [at EXCEPT ![r] = x]
          /\ UNCHANGED <<limits, status, recent>>
      BY <2>3 DEF Arrive, ReadRows, ReadDay, CheckQuota, CheckRoom, ReadBalance, ReadCommitted,
                  CheckFunds, Check, Go, rowVars
    <3>2. \A q \in Requests : at'[q] \in {"seal", "spool", "create"} =>
                                at[q] \in {"seal", "spool", "create"}
      BY <1>0, <3>1 DEF Types
    <3> QED BY <3>1, <3>2, NoOneSpends DEF Live
  <2>4. CASE SealKey(r) \/ WriteSpool(r) \/ CreateFails(r) \/ PostHeader(r) \/ Refuse(r)
    <3>1. /\ \/ at[r] = "seal" /\ at' = [at EXCEPT ![r] = "spool"]
             \/ at[r] = "spool" /\ at' = [at EXCEPT ![r] = "create"]
             \/ \E x \in {"over", "rejected"} : at' = [at EXCEPT ![r] = x]
          /\ UNCHANGED <<limits, status, recent>>
      BY <2>4 DEF SealKey, WriteSpool, CreateFails, PostHeader, Refuse, Go, rowVars
    <3>2. \A q \in Requests : at'[q] \in {"seal", "spool", "create"} =>
                                at[q] \in {"seal", "spool", "create"}
      BY <1>0, <3>1 DEF Types
    <3> QED BY <3>1, <3>2, NoOneSpends DEF Live
  <2> QED BY <1>4, <2>1, <2>2, <2>3, <2>4 DEF RequestStep
<1> QED BY <1>1, <1>2, <1>3, <1>4 DEF Next

LEMMA MoneyInvariant == Spec => [](PlainInv /\ MoneyInv)
<1>1. Init => PlainInv /\ MoneyInv BY PlainInit, MoneyInit
<1>2. PlainInv /\ MoneyInv /\ [Next]_vars => (PlainInv /\ MoneyInv)'
  BY PlainNext, MoneyTypesNext, BudgetNext DEF MoneyInv
<1> QED BY <1>1, <1>2, PTL DEF Spec

-----------------------------------------------------------------------------
(* Theorems.                                                               *)

\* A wallet holds fewer unstaked uploads than its limit and one for each request that
\* runs at the same time (checkWalletQuota(), services/uploadQuota.service.js).
THEOREM QuotaHolds == Spec => []QuotaOverrunBounded
<1>1. IInv => QuotaOverrunBounded
  <2> SUFFICES ASSUME IInv, NEW r \in Requests
               PROVE  Cardinality({q \in Live \ staked : WalletOf[q] = WalletOf[r]})
                        < limits.awaiting + AtOnce
    BY DEF QuotaOverrunBounded
  <2> DEFINE S == {q \in Live \ staked : WalletOf[q] = WalletOf[r]}
  <2>1. PICK ran, old, race :
          Race(Slots(r), Waiting, SlotReaders(r), Fresh, limits.awaiting, SawRows, ran, old, race)
    BY DEF IInv, QuotaInv
  <2>2. limits.awaiting \in Nat BY RequestAssumption DEF IInv, PlainInv, Types
  <2>3. IsFiniteSet(Slots(r)) /\ Cardinality(Slots(r)) < limits.awaiting + AtOnce
    BY <2>1, <2>2, RaceBound
  <2>4. S \subseteq Slots(r) BY DEF Slots, Live, Of
  <2>5. Cardinality(S) <= Cardinality(Slots(r)) /\ Cardinality(S) \in Nat /\ Cardinality(Slots(r)) \in Nat
    BY <2>3, <2>4, FS_Subset, FS_CardinalityType
  <2> HIDE DEF S
  <2>6. Cardinality(S) < limits.awaiting + AtOnce BY <2>2, <2>3, <2>5, RequestAssumption
  <2> QED BY <2>6 DEF S
<1> QED BY <1>1, RequestInvariant, PTL

\* Nor does it make more uploads in a day than its limit and one for each such request.
THEOREM DayHolds == Spec => []DayOverrunBounded
<1>1. IInv => DayOverrunBounded
  <2> SUFFICES ASSUME IInv, NEW r \in Requests
               PROVE  Cardinality({q \in Live \cap recent : WalletOf[q] = WalletOf[r]})
                        < limits.day + AtOnce
    BY DEF DayOverrunBounded
  <2> DEFINE S == {q \in Live \cap recent : WalletOf[q] = WalletOf[r]}
  <2>1. PICK saw, ran, old, race :
          Race(InDay(r), Waiting, DayReaders(r), Fresh, limits.day, saw, ran, old, race)
    BY DEF IInv, DayInv
  <2>2. limits.day \in Nat BY RequestAssumption DEF IInv, PlainInv, Types
  <2>3. IsFiniteSet(InDay(r)) /\ Cardinality(InDay(r)) < limits.day + AtOnce
    BY <2>1, <2>2, RaceBound
  <2>4. S \subseteq InDay(r) BY DEF InDay, Live, Of
  <2>5. Cardinality(S) <= Cardinality(InDay(r)) /\ Cardinality(S) \in Nat /\ Cardinality(InDay(r)) \in Nat
    BY <2>3, <2>4, FS_Subset, FS_CardinalityType
  <2> HIDE DEF S
  <2>6. Cardinality(S) < limits.day + AtOnce BY <2>2, <2>3, <2>5, RequestAssumption
  <2> QED BY <2>6 DEF S
<1> QED BY <1>1, RequestInvariant, PTL

\* A header that may be paid belongs to a row, and its ciphertext is on the disk while
\* it is needed, unless create() reported an error about a row that is there
\* (createUpload(), controller/upload.controller.js:252-344).
THEOREM KeepsWhatItPosts == Spec => []PostedIsKept
<1>1. IInv => PostedIsKept BY DEF IInv, PlainInv, RowInv, PostedIsKept
<1> QED BY <1>1, RequestInvariant, PTL

\* Every request is at an await of createUpload(), and what it holds there is what it
\* read: sums of fees are amounts, whatever balance a node tells.
THEOREM TypeCorrect == Spec => []TypeOK
<1>1. PlainInv /\ MoneyInv => TypeOK
  BY DEF PlainInv, Types, MoneyInv, MoneyTypes, TypeOK, Point, Points, Passed, NotRead
<1> QED BY <1>1, MoneyInvariant, PTL

\* All wallets together cost no more in a day than the budget, the fees of fewer than
\* AtOnce uploads, those that passed checkDailyBudget() beside the last, and the fees
\* of uploads given up although they were mined (services/uploadQuota.service.js).
THEOREM BudgetHolds == Spec => []BudgetOverrunBounded
<1>1. PlainInv /\ MoneyInv => BudgetOverrunBounded
  <2> SUFFICES ASSUME PlainInv, MoneyInv PROVE BudgetOverrunBounded OBVIOUS
  <2>1. PICK S \in SUBSET Requests : Cardinality(S) < AtOnce /\ Sum(Spending \ S) <= limits.budget
    BY DEF MoneyInv, BudgetInv
  <2> DEFINE L == Live \cap recent
             T == S \cap Live
  <2>2. L \subseteq Requests /\ L \subseteq Spending /\ Spending \subseteq Requests
    BY DEF Live, Spending, PastBudget
  <2>3. T \in SUBSET Live /\ T \subseteq Requests /\ T \subseteq S /\ L \ S \subseteq Requests
        /\ L \ S \subseteq Spending \ S /\ Spending \ S \subseteq Requests
    BY <2>2
  <2>4. Cardinality(T) < AtOnce
    <3>1. IsFiniteSet(S) /\ Cardinality(S) \in Nat /\ Cardinality(T) \in Nat BY <2>3, RunningFinite
    <3>2. Cardinality(T) <= Cardinality(S) BY <2>3, <3>1, FS_Subset
    <3> HIDE DEF T
    <3> QED BY <2>1, <3>1, <3>2, RequestAssumption
  <2>5. L = (L \cap S) \cup (L \ S) /\ (L \cap S) \cap (L \ S) = {} /\ L \cap S \subseteq T
        /\ L \cap S \subseteq Requests
    BY <2>2
  <2>6. /\ Cost = L \cup PaidForNothing /\ L \cap PaidForNothing = {}
        /\ PaidForNothing \subseteq Requests
    BY DEF Cost, PaidForNothing, Live, Paid, Owed
  <2> HIDE DEF L, T
  <2>7. Sum((L \cap S) \cup (L \ S)) = Sum(L \cap S) + Sum(L \ S) BY <2>3, <2>5, SumAdds
  <2>8. Sum(L) = Sum(L \cap S) + Sum(L \ S) BY <2>5, <2>7
  <2>9. Sum(Cost) = Sum(L) + Sum(PaidForNothing) BY <2>2, <2>6, SumAdds
  <2>10. Sum(L \cap S) <= Sum(T) BY <2>3, <2>5, SumGrows
  <2>11. Sum(L \ S) <= Sum(Spending \ S) BY <2>3, SumGrows
  <2>12. /\ Sum(L \cap S) \in Nat /\ Sum(L \ S) \in Nat /\ Sum(T) \in Nat
         /\ Sum(Spending \ S) \in Nat /\ Sum(PaidForNothing) \in Nat /\ limits.budget \in Nat
    BY <2>3, <2>5, <2>6, SumType, RequestAssumption DEF PlainInv, Types
  <2>13. Sum(Cost) <= limits.budget + Sum(T) + Sum(PaidForNothing)
    BY <2>1, <2>8, <2>9, <2>10, <2>11, <2>12
  <2> QED BY <2>3, <2>4, <2>13 DEF BudgetOverrunBounded
<1> QED BY <1>1, MoneyInvariant, PTL

=============================================================================
