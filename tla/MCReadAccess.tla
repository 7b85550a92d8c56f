---------------------------- MODULE MCReadAccess ----------------------------
(***************************************************************************)
(* Instances of ReadAccess.                                                *)
(***************************************************************************)
EXTENDS ReadAccess

CONSTANTS w1, w2, w3, r1

Honest(w, from, to) ==
  [statement |-> "unlock", site |-> "ours", chainId |-> "ours", sealedKey |-> "this book",
   sessionKey |-> "named", wallet |-> w, signer |-> w, issued |-> from, expires |-> to]

\* A message of a wallet whose clock is ahead, one valid for too long, and ones for
\* another site, another book, another browser or another purpose, or signed
\* by another wallet.
Signed ==
  {Honest(w2, 1, 3), Honest(w2, 0, 9)}
  \cup {[Honest(w1, 0, 2) EXCEPT !.site = "other"], [Honest(w1, 0, 2) EXCEPT !.sealedKey = "another"],
        [Honest(w1, 0, 2) EXCEPT !.sessionKey = "another"],
        [Honest(w1, 0, 2) EXCEPT !.statement = "upload"], [Honest(w1, 0, 2) EXCEPT !.signer = w3]}
=============================================================================
