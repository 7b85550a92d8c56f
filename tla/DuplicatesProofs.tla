-------------------------- MODULE DuplicatesProofs --------------------------
(***************************************************************************)
(* Duplicates for any number of files, uploads and rows, and fingerprints  *)
(* of any number of bits and bands.                                        *)
(***************************************************************************)
EXTENDS Duplicates, FiniteSetTheorems, WellFoundedInduction, TLAPS

-----------------------------------------------------------------------------
(* 1. Fingerprints.                                                        *)

LEMMA DifferingFinite ==
  ASSUME NEW a \in SUBSET Bits, NEW b \in SUBSET Bits
  PROVE  /\ Differing(a, b) \subseteq Bits
         /\ IsFiniteSet(Differing(a, b)) /\ HammingDistance(a, b) \in Nat
<1>1. Differing(a, b) \in SUBSET Bits BY DEF Differing
<1>2. IsFiniteSet(Bits) BY DuplicatesAssumption
<1>3. IsFiniteSet(Differing(a, b)) BY <1>1, <1>2, FS_Subset
<1> QED BY <1>1, <1>3, FS_CardinalityType DEF HammingDistance

\* Fingerprints that differ in fewer bits than there are bands have a band in common:
\* looking rows up by their bands (simhash.service.js:37-49) loses no near duplicate.
THEOREM BandsLoseNone ==
  ASSUME NEW a \in SUBSET Bits, NEW b \in SUBSET Bits,
         HammingDistance(a, b) <= MaxGuaranteedDistance
  PROVE  SharesBand(a, b)
<1> DEFINE D == Differing(a, b)
<1> DEFINE f == [x \in D |-> BandOf[x]]
<1>1. D \subseteq Bits /\ IsFiniteSet(D) /\ HammingDistance(a, b) \in Nat BY DifferingFinite
<1>2. BandOf \in [Bits -> Bands] /\ IsFiniteSet(Bands) BY DuplicatesAssumption
<1>3. Cardinality(Bands) \in Nat BY <1>2, FS_CardinalityType
<1>4. SUFFICES ASSUME ~SharesBand(a, b) PROVE FALSE OBVIOUS
<1>5. \A k \in Bands : \E x \in D : BandOf[x] = k
  <2> SUFFICES ASSUME NEW k \in Bands PROVE \E x \in D : BandOf[x] = k OBVIOUS
  <2>1. Band(a, k) # Band(b, k) BY <1>4 DEF SharesBand
  <2>2. PICK x : ~(x \in Band(a, k) <=> x \in Band(b, k)) BY <2>1
  <2> QED BY <2>2 DEF Band, Differing
<1>6. f \in Surjection(D, Bands) BY <1>1, <1>2, <1>5 DEF Surjection
<1>7. Cardinality(Bands) <= Cardinality(D) BY <1>1, <1>6, FS_Surjection
<1> QED BY <1>1, <1>3, <1>7 DEF HammingDistance, MaxGuaranteedDistance

\* Prefilter() passes whatever is within the threshold, on either side of the bound.
LEMMA PrefilterLosesNone ==
  ASSUME NEW a \in SUBSET Bits, NEW b \in SUBSET Bits, threshold \in Nat,
         HammingDistance(a, b) <= threshold
  PROVE  Prefilter(a, b)
<1>1. SUFFICES ASSUME threshold <= MaxGuaranteedDistance PROVE SharesBand(a, b)
  BY DEF Prefilter
<1>2. HammingDistance(a, b) \in Nat BY DifferingFinite
<1>3. MaxGuaranteedDistance \in Int
  BY DuplicatesAssumption, FS_CardinalityType DEF MaxGuaranteedDistance
<1>4. HammingDistance(a, b) <= MaxGuaranteedDistance BY <1>1, <1>2, <1>3
<1> QED BY <1>4, BandsLoseNone

LEMMA HashType == ASSUME NEW t PROVE ComputeSimHash(t) \in SUBSET Bits
  BY DEF ComputeSimHash

\* A set of numbers that is not empty has a least one.
LEMMA Least ==
  ASSUME NEW N \in SUBSET Nat, N # {}
  PROVE  \E m \in N : \A n \in N : m <= n
<1>1. IsWellFoundedOn({ss \in Nat \X Nat : ss[1] < ss[2]}, Nat)
  BY NatLessThanWellFounded DEF OpToRel
<1> DEFINE R == {ss \in Nat \X Nat : ss[1] < ss[2]}
<1>4. IsWellFoundedOn(R, Nat) BY <1>1
<1>2. N \subseteq Nat OBVIOUS
<1> HIDE DEF R
<1>3. \E m \in N : \A n \in N : ~(<<n, m>> \in R) BY <1>4, <1>2, WFMin
<1>5. PICK m \in N : \A n \in N : ~(<<n, m>> \in R) BY <1>3
<1>6. ASSUME NEW n \in N PROVE m <= n
  <2>1. m \in Nat /\ n \in Nat BY <1>2
  <2>2. <<n, m>> \in Nat \X Nat BY <2>1
  <2>3. ~(n < m) BY <1>5, <2>2 DEF R
  <2> QED BY <2>1, <2>3
<1> QED BY <1>6

-----------------------------------------------------------------------------
(* 2. Types, row by row and request by request.                            *)

Reached == [file : Files \cup {Nothing}, nearest : SUBSET Ids, older : SUBSET Ids,
            gone : SUBSET Ids]

Points == {"ready", "exact", "near", "create", "refused"}

\* failUpload() changes two columns.
LEMMA Freed ==
  ASSUME NEW R \in Row
  PROVE  /\ FreedRow(R) \in Row
         /\ FreedRow(R).status = "storage_failed" /\ FreedRow(R).sha256Hash = Nothing
         /\ FreedRow(R).file = R.file /\ FreedRow(R).simHash = R.simHash
         /\ FreedRow(R).nearDuplicateOf = R.nearDuplicateOf
  BY DEF Row, FreedRow

\* checkNearDuplicate() sets what the request holds of its result.
LEMMA Noted ==
  ASSUME NEW c \in Reached, NEW n \in SUBSET Ids
  PROVE  /\ [c EXCEPT !.nearest = n] \in Reached
         /\ [c EXCEPT !.nearest = n].nearest = n
         /\ [c EXCEPT !.nearest = n].file = c.file
         /\ [c EXCEPT !.nearest = n].older = c.older
         /\ [c EXCEPT !.nearest = n].gone = c.gone
  BY DEF Reached

\* What the steps make of rows and of what requests hold.
LEMMA NearStep ==
  ASSUME TypeOK, NEW r \in Requests, CheckNearDuplicate(r)
  PROVE  /\ at[r] = "near" /\ at' = [at EXCEPT ![r] = "create"]
         /\ threshold' = threshold /\ row' = row
         /\ \E n \in SUBSET Ids :
              /\ Closest(HashOf(call[r].file)) = {} => n = {}
              /\ Closest(HashOf(call[r].file)) # {} => n \in Closest(HashOf(call[r].file))
              /\ call' = [call EXCEPT ![r] = [call[r] EXCEPT !.nearest = n]]
<1> DEFINE C == Closest(HashOf(call[r].file))
<1>1. /\ at[r] = "near" /\ at' = [at EXCEPT ![r] = "create"]
      /\ threshold' = threshold /\ row' = row
      /\ \E n \in IF C = {} THEN {{}} ELSE C : call' = [call EXCEPT ![r].nearest = n]
  BY DEF CheckNearDuplicate, Go
<1>2. C \subseteq SUBSET Ids BY DEF Closest, Matches, Comparable, Live, Made
<1> HIDE DEF C
<1>3. PICK n \in IF C = {} THEN {{}} ELSE C : call' = [call EXCEPT ![r].nearest = n]
  BY <1>1
<1>4. n \in SUBSET Ids /\ (C = {} => n = {}) /\ (C # {} => n \in C) BY <1>2, <1>3
<1>5. call' = [call EXCEPT ![r] = [call[r] EXCEPT !.nearest = n]] BY <1>3, Zenon
<1> QED BY <1>1, <1>4, <1>5, Zenon DEF C

LEMMA TypeInit == Init => TypeOK
  BY DEF Init, TypeOK, NoRow, Idle, Row

LEMMA TypeNext == TypeOK /\ [Next]_vars => TypeOK'
<1> SUFFICES ASSUME TypeOK, [Next]_vars PROVE TypeOK' OBVIOUS
<1> USE DEF TypeOK, Row
<1>1. ASSUME NEW r \in Requests, Arrive(r) PROVE TypeOK'
  BY <1>1 DEF Arrive, Go, Made, Failed
<1>2. ASSUME NEW r \in Requests, CheckExactDuplicate(r) PROVE TypeOK'
  BY <1>2 DEF CheckExactDuplicate, Go
<1>3. ASSUME NEW r \in Requests, CheckNearDuplicate(r) PROVE TypeOK'
  <2>1. PICK n \in SUBSET Ids : call' = [call EXCEPT ![r] = [call[r] EXCEPT !.nearest = n]]
    BY <1>3, NearStep
  <2>2. [call[r] EXCEPT !.nearest = n] \in Reached BY Noted DEF Reached
  <2>3. call' \in [Requests -> Reached] BY <2>1, <2>2 DEF Reached
  <2> QED BY <1>3, <2>3, NearStep DEF Reached
<1>4. ASSUME NEW r \in Requests, Create(r) PROVE TypeOK'
  <2>1. CASE UniqueFails(call[r].file) BY <1>4, <2>1 DEF Create, Go
  <2>2. CASE ~UniqueFails(call[r].file)
    <3> DEFINE new == [status |-> "pending_confirmation", file |-> call[r].file,
                       sha256Hash |-> call[r].file, simHash |-> HashOf(call[r].file),
                       nearDuplicateOf |-> call[r].nearest]
    <3>1. HashOf(call[r].file) \in SUBSET Bits BY HashType DEF HashOf
    <3>2. new \in Row BY <3>1 DEF Row
    <3>3. PICK i \in Ids \ Made : row' = [row EXCEPT ![i] = new] BY <1>4, <2>2 DEF Create
    <3>4. at' = [at EXCEPT ![r] = "ready"] /\ call' = [call EXCEPT ![r] = Idle]
          /\ threshold' = threshold
      BY <1>4, <2>2 DEF Create, Go
    <3>5. Idle \in Reached BY DEF Idle, Reached
    <3> HIDE DEF new
    <3>6. row' \in [Ids -> Row] BY <3>2, <3>3
    <3>7. call' \in [Requests -> Reached] BY <3>4, <3>5 DEF Reached
    <3> QED BY <3>4, <3>6, <3>7 DEF Reached
  <2> QED BY <2>1, <2>2
<1>5. ASSUME NEW r \in Requests, Refused(r) \/ Fails(r) PROVE TypeOK'
  BY <1>5 DEF Refused, Fails, Reply, Go, Idle
<1>6. ASSUME NEW i \in Ids, FailUpload(i) PROVE TypeOK'
  <2>1. row' = [row EXCEPT ![i] = FreedRow(row[i])] /\ UNCHANGED <<threshold, at, call>>
    BY <1>6 DEF FailUpload
  <2> QED BY <2>1, Freed
<1>7. CASE UNCHANGED vars BY <1>7 DEF vars
<1> QED BY <1>1, <1>2, <1>3, <1>4, <1>5, <1>6, <1>7 DEF Next, RequestStep

\* Every variable keeps its type.
THEOREM TypeCorrect == Spec => []TypeOK
  BY TypeInit, TypeNext, PTL DEF Spec

-----------------------------------------------------------------------------
(* 3. The digests: a row that has one has not failed, and no two have the  *)
(*    same.                                                                *)

DigestInv ==
  /\ \A i \in Ids :
       /\ row[i].status = "pending_confirmation" =>
            row[i].sha256Hash = row[i].file /\ row[i].file \in Files
       /\ row[i].status # "pending_confirmation" => row[i].sha256Hash = Nothing
  /\ \A i, j \in Ids : row[i].sha256Hash = row[j].sha256Hash /\ row[i].sha256Hash # Nothing => i = j
  /\ \A r \in Requests : at[r] \in {"exact", "near", "create"} => call[r].file \in Files

LEMMA DigestInit == Init => DigestInv
  BY DEF Init, DigestInv, NoRow

LEMMA DigestNext == TypeOK /\ DigestInv /\ [Next]_vars => DigestInv'
<1> SUFFICES ASSUME TypeOK, DigestInv, [Next]_vars PROVE DigestInv' OBVIOUS
<1> USE DuplicatesAssumption DEF TypeOK, Row, DigestInv
<1>1. ASSUME NEW r \in Requests, Arrive(r) PROVE DigestInv' BY <1>1 DEF Arrive, Go
<1>2. ASSUME NEW r \in Requests, CheckExactDuplicate(r) PROVE DigestInv'
  BY <1>2 DEF CheckExactDuplicate, Go
<1>3. ASSUME NEW r \in Requests, CheckNearDuplicate(r) PROVE DigestInv'
  <2>1. PICK n \in SUBSET Ids : call' = [call EXCEPT ![r] = [call[r] EXCEPT !.nearest = n]]
    BY <1>3, NearStep
  <2>2. [call[r] EXCEPT !.nearest = n].file = call[r].file BY Noted DEF Reached
  <2>3. \A q \in Requests : call'[q].file = call[q].file BY <2>1, <2>2
  <2>4. row' = row /\ at[r] = "near" /\ at' = [at EXCEPT ![r] = "create"]
    BY <1>3, NearStep
  <2> QED BY <2>3, <2>4
<1>4. ASSUME NEW r \in Requests, Create(r) PROVE DigestInv'
  <2>1. CASE UniqueFails(call[r].file) BY <1>4, <2>1 DEF Create, Go
  <2>2. CASE ~UniqueFails(call[r].file)
    <3>1. PICK i \in Ids \ Made :
            row' = [row EXCEPT ![i] =
              [status |-> "pending_confirmation", file |-> call[r].file,
               sha256Hash |-> call[r].file, simHash |-> HashOf(call[r].file),
               nearDuplicateOf |-> call[r].nearest]]
      BY <1>4, <2>2 DEF Create
    <3>2. \A j \in Ids : row[j].sha256Hash # call[r].file BY <2>2 DEF UniqueFails, Taken
    <3>3. call[r].file \in Files BY <1>4 DEF Create
    <3>4. at' = [at EXCEPT ![r] = "ready"] BY <1>4, <2>2 DEF Create, Go
    <3>5. \A q \in Requests : q # r => call'[q] = call[q] BY <1>4, <2>2 DEF Create
    <3> HIDE DuplicatesAssumption
    <3> QED BY <3>1, <3>2, <3>3, <3>4, <3>5
  <2> QED BY <2>1, <2>2
<1>5. ASSUME NEW r \in Requests, Refused(r) \/ Fails(r) PROVE DigestInv'
  BY <1>5 DEF Refused, Fails, Reply, Go, Idle
<1>6. ASSUME NEW i \in Ids, FailUpload(i) PROVE DigestInv'
  <2>1. row' = [row EXCEPT ![i] = FreedRow(row[i])] /\ UNCHANGED <<threshold, at, call>>
    BY <1>6 DEF FailUpload
  <2>2. /\ \A j \in Ids : j # i => row'[j] = row[j]
        /\ row'[i].status = "storage_failed" /\ row'[i].sha256Hash = Nothing
    BY <2>1, Freed
  <2> QED BY <2>1, <2>2
<1>7. CASE UNCHANGED vars BY <1>7 DEF vars
<1> QED BY <1>1, <1>2, <1>3, <1>4, <1>5, <1>6, <1>7 DEF Next, RequestStep

LEMMA DigestInvariant == Spec => [](TypeOK /\ DigestInv)
<1>1. Init => TypeOK /\ DigestInv BY TypeInit, DigestInit
<1>2. TypeOK /\ DigestInv /\ [Next]_vars => (TypeOK /\ DigestInv)'
  BY TypeNext, DigestNext
<1> QED BY <1>1, <1>2, PTL DEF Spec

\* Of uploads of one file, however many run at the same time, one has a row that did
\* not fail (upload.controller.js:315-330).
THEOREM OneLiveRow == Spec => []OneLiveRowPerFile
<1>1. TypeOK /\ DigestInv => OneLiveRowPerFile
  <2> SUFFICES ASSUME TypeOK, DigestInv, NEW i \in Live, NEW j \in Live, row[i].file = row[j].file
               PROVE  i = j
    BY DEF OneLiveRowPerFile
  <2>1. /\ i \in Ids /\ row[i].status = "pending_confirmation"
        /\ j \in Ids /\ row[j].status = "pending_confirmation"
    BY DEF Live, Made, Failed, TypeOK, Row
  <2> QED BY <2>1, DuplicatesAssumption DEF DigestInv
<1> QED BY <1>1, DigestInvariant, PTL

-----------------------------------------------------------------------------
(* 4. What a request found and noted stays true of the table until its row *)
(*    is made: rows are never dropped, do not come back from failure, and  *)
(*    keep their fingerprint.                                              *)

Grown ==
  /\ threshold' = threshold
  /\ Made \subseteq Made' /\ Failed \subseteq Failed'
  /\ \A i \in Made : row'[i].simHash = row[i].simHash

\* The row a request makes.
NewRow(r) ==
  [status |-> "pending_confirmation", file |-> call[r].file, sha256Hash |-> call[r].file,
   simHash |-> HashOf(call[r].file), nearDuplicateOf |-> call[r].nearest]

LEMMA CreateStep ==
  ASSUME TypeOK, NEW r \in Requests, Create(r)
  PROVE  /\ at[r] = "create" /\ threshold' = threshold
         /\ \/ UniqueFails(call[r].file) /\ at' = [at EXCEPT ![r] = "refused"]
               /\ row' = row /\ call' = call
            \/ /\ at' = [at EXCEPT ![r] = "ready"] /\ call' = [call EXCEPT ![r] = Idle]
               /\ \E i \in Ids \ Made : row' = [row EXCEPT ![i] = NewRow(r)]
<1> HIDE DEF NewRow
<1>1. CASE UniqueFails(call[r].file) BY <1>1 DEF Create, Go
<1>2. CASE ~UniqueFails(call[r].file)
  <2>1. \E i \in Ids \ Made : row' = [row EXCEPT ![i] = NewRow(r)] BY <1>2 DEF Create, NewRow
  <2> QED BY <1>2, <2>1 DEF Create, Go
<1> QED BY <1>1, <1>2

LEMMA RowsGrow == TypeOK /\ [Next]_vars => Grown
<1> SUFFICES ASSUME TypeOK, [Next]_vars PROVE Grown OBVIOUS
<1>1. ASSUME row' = row, threshold' = threshold PROVE Grown
  BY <1>1 DEF Grown, Made, Failed
<1>2. ASSUME NEW r \in Requests, Create(r) PROVE Grown
  <2>1. CASE row' = row BY <1>1, <1>2, <2>1, CreateStep
  <2>2. ASSUME NEW i \in Ids \ Made, row' = [row EXCEPT ![i] = NewRow(r)] PROVE Grown
    <3>1. \A j \in Ids : j # i => row'[j] = row[j] BY <2>2 DEF TypeOK
    <3>2. threshold' = threshold BY <1>2, CreateStep
    <3>3. row[i].status = "none" BY DEF Made
    <3> QED BY <3>1, <3>2, <3>3 DEF Grown, Made, Failed
  <2> QED BY <1>2, <2>1, <2>2, CreateStep
<1>3. ASSUME NEW i \in Ids, FailUpload(i) PROVE Grown
  <2>1. row' = [row EXCEPT ![i] = FreedRow(row[i])] /\ threshold' = threshold
    BY <1>3 DEF FailUpload
  <2>2. row[i] \in Row BY DEF TypeOK
  <2>3. /\ \A j \in Ids : j # i => row'[j] = row[j]
        /\ row'[i].status = "storage_failed" /\ row'[i].simHash = row[i].simHash
    BY <2>1, <2>2, Freed DEF TypeOK
  <2> QED BY <2>1, <2>3 DEF Grown, Made, Failed
<1>4. ASSUME NEW r \in Requests,
             Arrive(r) \/ CheckExactDuplicate(r) \/ CheckNearDuplicate(r) \/ Refused(r) \/ Fails(r)
      PROVE  Grown
  BY <1>1, <1>4 DEF Arrive, CheckExactDuplicate, CheckNearDuplicate, Refused, Fails, Reply
<1>5. CASE UNCHANGED vars BY <1>1, <1>5 DEF vars
<1> QED BY <1>2, <1>3, <1>4, <1>5 DEF Next, RequestStep

Apart(f, hash) == HammingDistance(HashOf(f), hash)

\* Among the rows near is one as close to the file f as any of the rows old within t.
Compared(f, table, old, near, t) ==
  \A i \in old :
    /\ table[i].simHash # {} /\ HashOf(f) # {} /\ Apart(f, table[i].simHash) <= t
    => \E n \in near : Apart(f, table[n].simHash) <= Apart(f, table[i].simHash)

LEMMA ComparedOn ==
  ASSUME NEW f, NEW A, NEW B, NEW old, NEW older, NEW near, NEW t,
         Compared(f, A, old, near, t), older \subseteq old,
         \A i \in old \cup near : B[i].simHash = A[i].simHash
  PROVE  Compared(f, B, older, near, t)
<1> SUFFICES ASSUME NEW i \in older, B[i].simHash # {}, HashOf(f) # {},
                    Apart(f, B[i].simHash) <= t
             PROVE  \E n \in near : Apart(f, B[n].simHash) <= Apart(f, B[i].simHash)
  BY DEF Compared
<1>1. B[i].simHash = A[i].simHash /\ i \in old OBVIOUS
<1>2. PICK n \in near : Apart(f, A[n].simHash) <= Apart(f, A[i].simHash)
  BY <1>1 DEF Compared
<1>3. B[n].simHash = A[n].simHash OBVIOUS
<1> QED BY <1>1, <1>2, <1>3

\* What the request r holds of the table.
Holds(r) ==
  /\ call[r].older \subseteq Made /\ call[r].gone \subseteq Failed
  /\ call[r].nearest \subseteq Made /\ call[r].nearest \cap call[r].gone = {}
  /\ at[r] = "create" =>
       Compared(call[r].file, row, call[r].older \ Failed, call[r].nearest, threshold)

HoldsInv == \A r \in Requests : Holds(r)

\* A request that does not move keeps it.
LEMMA HoldsOn ==
  ASSUME TypeOK, NEW r \in Requests, Holds(r), Grown, call'[r] = call[r],
         at'[r] = "create" => at[r] = "create"
  PROVE  Holds(r)'
<1>1. /\ call[r].older \subseteq Made' /\ call[r].gone \subseteq Failed'
      /\ call[r].nearest \subseteq Made' /\ call[r].nearest \cap call[r].gone = {}
  BY DEF Holds, Grown
<1>2. ASSUME at[r] = "create"
      PROVE  Compared(call[r].file, row', call[r].older \ Failed', call[r].nearest, threshold')
  <2>1. Compared(call[r].file, row, call[r].older \ Failed, call[r].nearest, threshold)
    BY <1>2 DEF Holds
  <2>2. call[r].older \ Failed' \subseteq call[r].older \ Failed BY DEF Grown
  <2>3. \A i \in (call[r].older \ Failed) \cup call[r].nearest : row'[i].simHash = row[i].simHash
    BY DEF Holds, Grown
  <2>4. threshold' = threshold BY DEF Grown
  <2> HIDE DEF Compared, Made, Failed
  <2>5. Compared(call[r].file, row', call[r].older \ Failed', call[r].nearest, threshold)
    BY <2>1, <2>2, <2>3, ComparedOn
  <2> QED BY <2>4, <2>5
<1> QED BY <1>1, <1>2 DEF Holds

\* What checkNearDuplicate() takes is live, and as close as any row that matches.
LEMMA ClosestRow ==
  ASSUME TypeOK, NEW f, NEW old \in SUBSET Made, NEW n \in SUBSET Ids,
         Closest(HashOf(f)) = {} => n = {}, Closest(HashOf(f)) # {} => n \in Closest(HashOf(f))
  PROVE  n \subseteq Live /\ Compared(f, row, old \ Failed, n, threshold)
<1> DEFINE M == Matches(HashOf(f))
<1> DEFINE D(i) == Apart(f, row[i].simHash)
<1>1. HashOf(f) \in SUBSET Bits BY HashType DEF HashOf
<1>2. threshold \in Nat BY DuplicatesAssumption DEF TypeOK
<1>3. M \subseteq Live /\ M \subseteq Ids BY DEF Matches, Comparable, Live, Made
<1>4. \A i \in Ids : row[i].simHash \in SUBSET Bits BY DEF TypeOK, Row
<1>5. \A i \in Ids : D(i) \in Nat BY <1>1, <1>4, DifferingFinite DEF Apart
<1>6. Closest(HashOf(f)) = {{i} : i \in {m \in M : \A k \in M : D(m) <= D(k)}}
  BY DEF Closest, Apart
<1>7. ASSUME NEW i \in old \ Failed, row[i].simHash # {}, HashOf(f) # {}, D(i) <= threshold
      PROVE  i \in M
  <2>1. i \in Comparable BY <1>7 DEF Comparable, Live
  <2>2. i \in Ids BY DEF Made
  <2>3. Prefilter(HashOf(f), row[i].simHash)
    BY <1>1, <1>2, <1>4, <1>7, <2>2, PrefilterLosesNone DEF Apart
  <2> QED BY <1>7, <2>1, <2>3 DEF Matches, Apart
<1> HIDE DEF M, D
<1>8. n \subseteq Live
  <2>1. CASE Closest(HashOf(f)) = {} BY <2>1
  <2>2. CASE Closest(HashOf(f)) # {}
    <3>1. PICK k \in M : n = {k} BY <1>6, <2>2
    <3> QED BY <1>3, <3>1
  <2> QED BY <2>1, <2>2
<1>9. ASSUME NEW i \in M PROVE \E m \in n : D(m) <= D(i)
  <2> DEFINE N == {D(k) : k \in M}
  <2>1. N \in SUBSET Nat /\ N # {} BY <1>3, <1>5, <1>9
  <2>2. PICK d \in N : \A e \in N : d <= e
    <3> HIDE DEF N
    <3> QED BY <2>1, Least
  <2>3. PICK m \in M : D(m) = d BY <2>2
  <2>4. \A k \in M : D(m) <= D(k) BY <2>2, <2>3
  <2>5. Closest(HashOf(f)) # {} BY <1>6, <2>4
  <2>6. PICK k \in M : n = {k} /\ D(k) <= D(i) BY <1>6, <1>9, <2>5
  <2> QED BY <2>6
<1>10. Compared(f, row, old \ Failed, n, threshold) BY <1>7, <1>9 DEF Compared, D
<1> QED BY <1>8, <1>10

LEMMA HoldsInit == Init => HoldsInv
  BY DEF Init, HoldsInv, Holds, Idle

LEMMA HoldsNext == TypeOK /\ HoldsInv /\ [Next]_vars => HoldsInv'
<1> SUFFICES ASSUME TypeOK, HoldsInv, [Next]_vars, NEW q \in Requests PROVE Holds(q)'
  BY DEF HoldsInv
<1>1. Grown BY RowsGrow
<1>2. Holds(q) BY DEF HoldsInv
<1>3. ASSUME call'[q] = call[q], at'[q] = "create" => at[q] = "create" PROVE Holds(q)'
  BY <1>1, <1>2, <1>3, HoldsOn
<1>4. ASSUME call'[q] = Idle, at'[q] # "create" PROVE Holds(q)' BY <1>4 DEF Holds, Idle
<1>5. ASSUME NEW r \in Requests, Arrive(r) PROVE Holds(q)'
  <2>1. CASE q # r BY <1>3, <1>5, <2>1 DEF Arrive, Go, TypeOK
  <2>2. CASE q = r
    <3>1. PICK f \in Files :
            call' = [call EXCEPT ![r] = [file |-> f, nearest |-> {}, older |-> Made, gone |-> Failed]]
      BY <1>5 DEF Arrive
    <3>2. at'[r] = "exact" BY <1>5 DEF Arrive, Go, TypeOK
    <3>3. call'[r] = [file |-> f, nearest |-> {}, older |-> Made, gone |-> Failed]
      BY <3>1 DEF TypeOK
    <3>4. Made \subseteq Made' /\ Failed \subseteq Failed' BY <1>1 DEF Grown
    <3> QED BY <2>2, <3>2, <3>3, <3>4 DEF Holds
  <2> QED BY <2>1, <2>2
<1>6. ASSUME NEW r \in Requests, CheckExactDuplicate(r) PROVE Holds(q)'
  BY <1>3, <1>6 DEF CheckExactDuplicate, Go, TypeOK
<1>7. ASSUME NEW r \in Requests, CheckNearDuplicate(r) PROVE Holds(q)'
  <2>1. PICK n \in SUBSET Ids :
          /\ Closest(HashOf(call[r].file)) = {} => n = {}
          /\ Closest(HashOf(call[r].file)) # {} => n \in Closest(HashOf(call[r].file))
          /\ call' = [call EXCEPT ![r] = [call[r] EXCEPT !.nearest = n]]
    BY <1>7, NearStep
  <2>2. CASE q # r BY <1>3, <1>7, <2>1, <2>2, NearStep DEF TypeOK
  <2>3. CASE q = r
    <3> DEFINE c == [call[r] EXCEPT !.nearest = n]
    <3>1. c.nearest = n /\ c.file = call[r].file /\ c.older = call[r].older
          /\ c.gone = call[r].gone
      BY Noted DEF Reached, TypeOK
    <3>2. call'[r] = c BY <2>1 DEF TypeOK
    <3>3. row' = row /\ threshold' = threshold BY <1>7, NearStep
    <3>4. Made' = Made /\ Failed' = Failed BY <3>3 DEF Made, Failed
    <3>5. call[r].older \in SUBSET Made /\ call[r].gone \subseteq Failed BY <1>2, <2>3 DEF Holds
    <3> HIDE DEF c, Made, Failed
    <3>6. /\ n \subseteq Live
          /\ Compared(call[r].file, row, call[r].older \ Failed, n, threshold)
      BY <2>1, <3>5, ClosestRow
    <3>7. n \subseteq Made /\ n \cap call[r].gone = {} BY <3>5, <3>6 DEF Live
    <3> QED BY <2>3, <3>1, <3>2, <3>3, <3>4, <3>5, <3>6, <3>7 DEF Holds
  <2> QED BY <2>2, <2>3
<1>8. ASSUME NEW r \in Requests, Create(r) PROVE Holds(q)'
  BY <1>3, <1>4, <1>8, CreateStep DEF TypeOK
<1>9. ASSUME NEW r \in Requests, Refused(r) \/ Fails(r) PROVE Holds(q)'
  BY <1>3, <1>4, <1>9 DEF Refused, Fails, Reply, Go, TypeOK
<1>10. ASSUME NEW i \in Ids, FailUpload(i) PROVE Holds(q)' BY <1>3, <1>10 DEF FailUpload
<1>11. CASE UNCHANGED vars BY <1>3, <1>11 DEF vars
<1> QED BY <1>5, <1>6, <1>7, <1>8, <1>9, <1>10, <1>11 DEF Next, RequestStep

-----------------------------------------------------------------------------
(* 5. What a row that appears, and a request that is refused, say.         *)

DedupInv == TypeOK /\ DigestInv /\ HoldsInv

LEMMA DedupInvariant == Spec => []DedupInv
<1>1. Init => DedupInv BY TypeInit, DigestInit, HoldsInit DEF DedupInv
<1>2. DedupInv /\ [Next]_vars => DedupInv' BY TypeNext, DigestNext, HoldsNext DEF DedupInv
<1> QED BY <1>1, <1>2, PTL DEF Spec

\* A row appears for a request in its own insert, and is what the request held.
LEMMA MakesByCreate ==
  ASSUME TypeOK, [Next]_vars, NEW r \in Requests, NEW j \in Ids, Makes(r, j)
  PROVE  row'[j] = NewRow(r)
<1> USE DEF TypeOK
<1>1. at[r] = "create" /\ at'[r] = "ready" /\ j \in Made' \ Made BY DEF Makes
<1>2. row' # row BY <1>1 DEF Made
<1>3. ASSUME NEW q \in Requests, Create(q) PROVE row'[j] = NewRow(r)
  <2>1. q = r BY <1>1, <1>3, CreateStep
  <2>2. PICK i \in Ids \ Made : row' = [row EXCEPT ![i] = NewRow(r)]
    BY <1>2, <1>3, <2>1, CreateStep
  <2>3. j = i BY <1>1, <2>2 DEF Made
  <2> QED BY <2>2, <2>3
<1>4. ASSUME NEW q \in Requests,
             Arrive(q) \/ CheckExactDuplicate(q) \/ CheckNearDuplicate(q) \/ Refused(q) \/ Fails(q)
      PROVE  FALSE
  BY <1>2, <1>4 DEF Arrive, CheckExactDuplicate, CheckNearDuplicate, Refused, Fails, Reply
<1>5. ASSUME NEW i \in Ids, FailUpload(i) PROVE FALSE BY <1>1, <1>5 DEF FailUpload
<1>6. CASE UNCHANGED vars BY <1>2, <1>6 DEF vars
<1> QED BY <1>3, <1>4, <1>5, <1>6 DEF Next, RequestStep

LEMMA Symmetric == \A a, b : HammingDistance(a, b) = HammingDistance(b, a)
<1> SUFFICES ASSUME NEW a, NEW b PROVE HammingDistance(a, b) = HammingDistance(b, a) OBVIOUS
<1>1. Differing(a, b) = Differing(b, a) BY DEF Differing
<1> QED BY <1>1 DEF HammingDistance

\* A book is flagged against what was there when its upload arrived, and against the
\* closest (dedup.service.js:116-125).
THEOREM FlagsWhatWasThere == Spec => FlaggedAgainstOlder
<1>1. DedupInv /\ [Next]_vars => \A r \in Requests, j \in Ids : Makes(r, j) => Flags(r, j)
  <2> SUFFICES ASSUME DedupInv, [Next]_vars, NEW r \in Requests, NEW j \in Ids, Makes(r, j)
               PROVE  Flags(r, j)
    OBVIOUS
  <2>1. TypeOK BY DEF DedupInv
  <2>2. row'[j] = NewRow(r) BY <2>1, MakesByCreate
  <2>3. row'[j].simHash = HashOf(call[r].file) /\ row'[j].nearDuplicateOf = call[r].nearest
    BY <2>2 DEF NewRow
  <2>4. at[r] = "create" BY DEF Makes
  <2>5. Compared(call[r].file, row, call[r].older \ Failed, call[r].nearest, threshold)
    BY <2>4 DEF DedupInv, HoldsInv, Holds
  <2>6. \A i : HammingDistance(row[i].simHash, row'[j].simHash) = Apart(call[r].file, row[i].simHash)
    BY <2>3, Symmetric DEF Apart
  <2> HIDE DEF Failed
  <2> QED BY <2>3, <2>5, <2>6 DEF Compared, Flags
<1> QED BY <1>1, DedupInvariant, PTL DEF Spec, FlaggedAgainstOlder

\* An upload that failed stands in nobody's way (storage.service.js:95-99,
\* dedup.service.js:136-139).
THEOREM FailedStandsInNobodysWay == Spec => RetriesAreFree
<1>1. ASSUME DedupInv, NEW r \in Requests, Taken(call[r].file),
             at[r] \in {"exact", "create"}
      PROVE  \E i \in Made \ call[r].gone : row[i].file = call[r].file
  <2>1. PICK i \in Ids : row[i].sha256Hash = call[r].file BY <1>1 DEF Taken
  <2>2. call[r].file \in Files BY <1>1 DEF DedupInv, DigestInv
  <2>3. row[i].sha256Hash # Nothing BY <2>1, <2>2, DuplicatesAssumption
  <2>4. row[i].status = "pending_confirmation" /\ row[i].file = call[r].file
    BY <1>1, <2>1, <2>3 DEF DedupInv, DigestInv
  <2>5. i \in Made \ Failed BY <2>4 DEF Made, Failed
  <2>6. call[r].gone \subseteq Failed BY <1>1 DEF DedupInv, HoldsInv, Holds
  <2> QED BY <2>4, <2>5, <2>6
<1>2. ASSUME DedupInv, [Next]_vars, NEW r \in Requests, at[r] # "refused", at'[r] = "refused"
      PROVE  \E i \in Made \ call[r].gone : row[i].file = call[r].file
  <2> USE DEF DedupInv, TypeOK
  <2>1. ASSUME NEW q \in Requests, Create(q)
        PROVE  Taken(call[r].file) /\ at[r] \in {"exact", "create"}
    BY <1>2, <2>1, CreateStep DEF UniqueFails
  <2>2. ASSUME NEW q \in Requests, CheckExactDuplicate(q)
        PROVE  Taken(call[r].file) /\ at[r] \in {"exact", "create"}
    BY <1>2, <2>2 DEF CheckExactDuplicate, Go
  <2>3. ASSUME NEW q \in Requests, Arrive(q) \/ CheckNearDuplicate(q) \/ Refused(q) \/ Fails(q)
        PROVE  FALSE
    BY <1>2, <2>3 DEF Arrive, CheckNearDuplicate, Refused, Fails, Reply, Go
  <2>4. ASSUME NEW i \in Ids, FailUpload(i) PROVE FALSE BY <1>2, <2>4 DEF FailUpload
  <2>5. CASE UNCHANGED vars BY <1>2, <2>5 DEF vars
  <2> QED BY <1>1, <1>2, <2>1, <2>2, <2>3, <2>4, <2>5 DEF Next, RequestStep
<1>3. ASSUME DedupInv, [Next]_vars, NEW r \in Requests, NEW j \in Ids, Makes(r, j)
      PROVE  row'[j].nearDuplicateOf \cap call[r].gone = {}
  <2>1. TypeOK BY <1>3 DEF DedupInv
  <2>2. row'[j] = NewRow(r) BY <1>3, <2>1, MakesByCreate
  <2>3. row'[j].nearDuplicateOf = call[r].nearest BY <2>2 DEF NewRow
  <2> QED BY <1>3, <2>3 DEF DedupInv, HoldsInv, Holds
<1>4. DedupInv /\ [Next]_vars => \A r \in Requests : Free(r)
  BY <1>2, <1>3 DEF Free
<1> QED BY <1>4, DedupInvariant, PTL DEF Spec, RetriesAreFree

=============================================================================
