-------------------------- MODULE MCChallengeReview --------------------------
(***************************************************************************)
(* Instance of ChallengeReview for TLC: one request of any kind at a time, *)
(* while others submit reviews.                                            *)
(***************************************************************************)
EXTENDS ChallengeReview, TLC

CONSTANT Visitor

Calls == [r \in Requests |-> IF r = Visitor THEN Kinds ELSE {"submit"}]

Symmetry == Permutations(Wallets \ {Uploader})
=============================================================================
