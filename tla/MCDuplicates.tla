---------------------------- MODULE MCDuplicates ----------------------------
(***************************************************************************)
(* Instances of Duplicates: fingerprints of four bits in two bands.  The   *)
(* second text differs from the first in one bit, the third in two bits of *)
(* different bands, so that they share no band; the last one has no words. *)
(***************************************************************************)
EXTENDS Duplicates, TLC

CONSTANTS f1, f2, f3, scan, t1, t2, t3, i1, i2, i3, r1, r2

Alike == Permutations(Ids) \cup Permutations(Requests)

Text == f1 :> <<t1>> @@ f2 :> <<t1, t2, t2>> @@ f3 :> <<t3>> @@ scan :> <<>>

WordBits == t1 :> {1, 2, 3} @@ t2 :> {1, 2} @@ t3 :> {2, 3, 4}

TwoBands == [b \in Bits |-> IF b <= 2 THEN 1 ELSE 2]
=============================================================================
