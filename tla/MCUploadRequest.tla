-------------------------- MODULE MCUploadRequest --------------------------
(***************************************************************************)
(* Instance of UploadRequest for TLC: one wallet, equal fees, and three    *)
(* configurations, in each of which another limit is the tight one.        *)
(***************************************************************************)
EXTENDS UploadRequest, TLC

CONSTANTS Wallet, Fee

WalletOfAll == [r \in Requests |-> Wallet]
FeeOfAll == [r \in Requests |-> Fee]

Configurations ==
  {[awaiting |-> 1, day |-> 9, budget |-> 9],
   [awaiting |-> 9, day |-> 1, budget |-> 9],
   [awaiting |-> 9, day |-> 9, budget |-> Fee]}

RequestSymmetry == Permutations(Requests)
=============================================================================
