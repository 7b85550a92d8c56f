----------------------------- MODULE Duplicates -----------------------------
(***************************************************************************)
(* services/dedup.service.js and simhash.service.js as uploads meet them:  *)
(* a file is looked up by its digest and by the fingerprint of its text,   *)
(* and becomes a row many awaits later, while others are made, stored and  *)
(* given up.  A fingerprint is the set of its bits that are 1.             *)
(***************************************************************************)
EXTENDS Integers, FiniteSets, Sequences

CONSTANTS
  Files, Requests, Nothing,
  Ids,                \* bound: rows that are ever made
  Tokens, TextOf,     \* words of the texts, and the text of each file
  TokenBits,          \* hash64(): the bits a word sets
  Bits, Bands, BandOf,
  Thresholds          \* what SIMHASH_THRESHOLD may be

ASSUME DuplicatesAssumption ==
  /\ Nothing \notin Files
  /\ IsFiniteSet(Bits) /\ IsFiniteSet(Bands) /\ IsFiniteSet(Tokens)
  /\ TextOf \in [Files -> Seq(Tokens)] /\ TokenBits \in [Tokens -> SUBSET Bits]
  /\ BandOf \in [Bits -> Bands]
  /\ Thresholds \subseteq Nat

VARIABLES
  threshold,  \* NEAR_DUPLICATE_THRESHOLD
  row,        \* table Upload
  at, call    \* requests: the await, what they hold across it; older, gone: history,
              \* the rows there and the rows failed when the request arrived

vars == <<threshold, row, at, call>>

\* What is stored, staked or registered later is to these checks what is pending.
Row == [status : {"none", "pending_confirmation", "storage_failed"},
        file : Files \cup {Nothing}, sha256Hash : Files \cup {Nothing},
        simHash : SUBSET Bits, nearDuplicateOf : SUBSET Ids]

NoRow == [status |-> "none", file |-> Nothing, sha256Hash |-> Nothing, simHash |-> {},
          nearDuplicateOf |-> {}]

Idle == [file |-> Nothing, nearest |-> {}, older |-> {}, gone |-> {}]

TypeOK ==
  /\ threshold \in Thresholds
  /\ row \in [Ids -> Row]
  /\ at \in [Requests -> {"ready", "exact", "near", "create", "refused"}]
  /\ call \in [Requests -> [file : Files \cup {Nothing}, nearest : SUBSET Ids,
                            older : SUBSET Ids, gone : SUBSET Ids]]

Init ==
  /\ threshold \in Thresholds
  /\ row = [i \in Ids |-> NoRow]
  /\ at = [r \in Requests |-> "ready"] /\ call = [r \in Requests |-> Idle]

-----------------------------------------------------------------------------
(* Fingerprints.                                                           *)

\* Words that set a bit outweigh those that do not.
ComputeSimHash(text) ==
  {b \in Bits : Cardinality({n \in DOMAIN text : b \in TokenBits[text[n]]})
                  > Cardinality({n \in DOMAIN text : b \notin TokenBits[text[n]]})}

HashOf(file) == ComputeSimHash(TextOf[file])

Differing(a, b) == (a \ b) \cup (b \ a)

HammingDistance(a, b) == Cardinality(Differing(a, b))

\* splitBands(): the bits of one band.
Band(hash, k) == {b \in hash : BandOf[b] = k}

SharesBand(a, b) == \E k \in Bands : Band(a, k) = Band(b, k)

\* MAX_GUARANTEED_DISTANCE
MaxGuaranteedDistance == Cardinality(Bands) - 1

\* Bug: rows are always looked up by their bands.
AlwaysByBands(a, b) == SharesBand(a, b)

\* USE_BAND_PREFILTER: only while bands find every row within the threshold.
Prefilter(a, b) == threshold <= MaxGuaranteedDistance => SharesBand(a, b)

-----------------------------------------------------------------------------
(* The table.                                                              *)

Made == {i \in Ids : row[i].status # "none"}
Failed == {i \in Ids : row[i].status = "storage_failed"}
Live == Made \ Failed

\* Bug: rows that were never stored are candidates like any other.
EveryRow == {i \in Made : row[i].simHash # {}}

\* excludeEmpty and excludeFailed
Comparable == {i \in Live : row[i].simHash # {}}

Matches(hash) ==
  IF hash = {} THEN {}
  ELSE {i \in Comparable : /\ Prefilter(hash, row[i].simHash)
                           /\ HammingDistance(hash, row[i].simHash) <= threshold}

\* What a sort by distance may put first.
Closest(hash) ==
  {{i} : i \in {m \in Matches(hash) : \A n \in Matches(hash) :
     HammingDistance(hash, row[m].simHash) <= HammingDistance(hash, row[n].simHash)}}

\* A row holds the digest: what findUnique() finds and the unique index refuses.
Taken(file) == \E i \in Ids : row[i].sha256Hash = file

\* Bug: the look-up before the insert is all there is.
NeverRefused(file) == FALSE

\* P2002
UniqueFails(file) == Taken(file)

-----------------------------------------------------------------------------
(* createUpload(), its checks of duplicates and its insert.                *)

Go(r, point) == at' = [at EXCEPT ![r] = point]

Reply(r) == Go(r, "ready") /\ call' = [call EXCEPT ![r] = Idle] /\ UNCHANGED <<threshold, row>>

Arrive(r) ==
  /\ at[r] = "ready" /\ Go(r, "exact")
  /\ \E f \in Files :
       call' = [call EXCEPT ![r] = [file |-> f, nearest |-> {}, older |-> Made, gone |-> Failed]]
  /\ UNCHANGED <<threshold, row>>

CheckExactDuplicate(r) ==
  /\ at[r] = "exact"
  /\ Go(r, IF Taken(call[r].file) THEN "refused" ELSE "near")
  /\ UNCHANGED <<threshold, row, call>>

\* checkNearDuplicate(): a flag, never a refusal.
CheckNearDuplicate(r) ==
  /\ at[r] = "near" /\ Go(r, "create")
  /\ LET closest == Closest(HashOf(call[r].file))
     IN  \E n \in IF closest = {} THEN {{}} ELSE closest :
           call' = [call EXCEPT ![r].nearest = n]
  /\ UNCHANGED <<threshold, row>>

\* The insert decides between requests that came past the check together.
Create(r) ==
  /\ at[r] = "create"
  /\ IF UniqueFails(call[r].file)
       THEN Go(r, "refused") /\ UNCHANGED <<row, call>>
       ELSE /\ \E i \in Ids \ Made :
                 row' = [row EXCEPT ![i] =
                   [status |-> "pending_confirmation", file |-> call[r].file,
                    sha256Hash |-> call[r].file, simHash |-> HashOf(call[r].file),
                    nearDuplicateOf |-> call[r].nearest]]
            /\ Go(r, "ready") /\ call' = [call EXCEPT ![r] = Idle]
  /\ UNCHANGED threshold

\* 409, exact_duplicate
Refused(r) == at[r] = "refused" /\ Reply(r)

\* Another check refuses, something fails, the process restarts.
Fails(r) == at[r] \in {"exact", "near", "create"} /\ Reply(r)

-----------------------------------------------------------------------------
(* The worker.                                                             *)

\* Bug: the digest stays with the row that failed.
FailedRow(R) == [R EXCEPT !.status = "storage_failed"]

\* failUpload(): the digest is moved aside with the same update.
FreedRow(R) == [R EXCEPT !.status = "storage_failed", !.sha256Hash = Nothing]

FailUpload(i) ==
  /\ row[i].status = "pending_confirmation"
  /\ row' = [row EXCEPT ![i] = FreedRow(@)]
  /\ UNCHANGED <<threshold, at, call>>

RequestStep(r) ==
  Arrive(r) \/ CheckExactDuplicate(r) \/ CheckNearDuplicate(r) \/ Create(r) \/ Refused(r) \/ Fails(r)

Next ==
  \/ \E r \in Requests : RequestStep(r)
  \/ \E i \in Ids : FailUpload(i)

Spec == Init /\ [][Next]_vars

-----------------------------------------------------------------------------
(* Properties                                                              *)

\* The row j appears for the request r.
Makes(r, j) == at[r] = "create" /\ at'[r] = "ready" /\ j \in Made' \ Made

\* The row j names one as close as any that the request r could have found.
Flags(r, j) ==
  LET Distance(i) == HammingDistance(row[i].simHash, row'[j].simHash)
  IN  \A i \in call[r].older \ Failed :
        /\ row[i].simHash # {} /\ row'[j].simHash # {}
        /\ Distance(i) <= threshold
        => \E n \in row'[j].nearDuplicateOf : Distance(n) <= Distance(i)

\* A book is flagged if it reads like one that was there when its upload arrived and
\* did not fail, and it is compared with the closest: bands lose none, and only books
\* uploaded at the same time can miss each other (dedup.service.js:116-125).
FlaggedAgainstOlder == [][\A r \in Requests, j \in Ids : Makes(r, j) => Flags(r, j)]_vars

\* The same file is not paid for twice: of uploads of it that run at the same time one
\* gets a row, until that row fails (upload.controller.js:315-330).
OneLiveRowPerFile ==
  \A i, j \in Live : row[i].file = row[j].file => i = j

Free(r) ==
  /\ at[r] # "refused" /\ at'[r] = "refused" =>
       \E i \in Made \ call[r].gone : row[i].file = call[r].file
  /\ \A j \in Ids : Makes(r, j) => row'[j].nearDuplicateOf \cap call[r].gone = {}

\* An upload that failed stands in nobody's way: a file that is refused has a row that
\* had not failed when the request arrived, and no book is flagged against a row that
\* had (storage.service.js:95-99, dedup.service.js:136-139).
RetriesAreFree == [][\A r \in Requests : Free(r)]_vars
=============================================================================
