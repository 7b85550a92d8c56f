--------------------------- MODULE MCUnlockRelay ---------------------------
(***************************************************************************)
(* Instances of UnlockRelay.                                               *)
(***************************************************************************)
EXTENDS UnlockRelay, TLC

CONSTANTS w1, w2, r1, r2

\* Wallets, and slots for requests, are treated alike.
Alike == Permutations({w1, w2}) \cup Permutations({r1, r2})
=============================================================================
