---------------------------- MODULE ArweaveChain ----------------------------
(***************************************************************************)
(* The Arweave network as the backend's storage code meets it: a chain     *)
(* that grows and may replace its last blocks, the headers miners know,    *)
(* and nodes that answer from a view a few blocks old.                     *)
(*                                                                         *)
(* Nothing of this is implemented in the repository.  It is what           *)
(* services/storage.service.js and controller/arweave.js are written       *)
(* against, taken from how they use it: a header is valid while its anchor *)
(* is one of the last AnchorDepth blocks, a transaction mined in a block   *)
(* that is replaced goes back to the memory pool, and a node that answers  *)
(* may lag the tip.                                                        *)
(***************************************************************************)
EXTENDS Integers

CONSTANTS
  Books,        \* signed uploads, named by their Arweave transaction id
  AnchorDepth,  \* blocks a header stays valid after its anchor (code: 50)
  MaxReorg,     \* blocks the network may still replace
  MaxLag,       \* blocks the view of an answering node may be old
  MaxHeight     \* bound: the height at which the modelled chain stops

ASSUME ChainAssumption ==
  /\ AnchorDepth \in Nat
  /\ MaxReorg \in Nat
  /\ MaxLag \in Nat
  /\ MaxHeight \in Nat \ {0}

VARIABLES
  height,       \* height of the tip
  mempool,      \* books whose header some miner has received
  minedAt,      \* minedAt[b]: height of the block that holds b, 0 if none does
  anchor        \* anchor[b]: height of the anchor signed into b, 0 if unsigned

chainVars == <<height, mempool, minedAt, anchor>>

ChainTypeOK ==
  /\ height \in Nat \ {0}
  /\ mempool \in SUBSET Books
  /\ minedAt \in [Books -> Nat]
  /\ anchor \in [Books -> Nat]
  /\ \A b \in Books : minedAt[b] <= height /\ anchor[b] <= height

ChainInit ==
  /\ height = 1
  /\ mempool = {}
  /\ minedAt = [b \in Books |-> 0]
  /\ anchor = [b \in Books |-> 0]

-----------------------------------------------------------------------------
(* What nodes answer.                                                      *)

\* Heights a node that answers now may report.
View == {v \in 1..height : v + MaxLag >= height}

\* The block the network ends up with may hold b at height m, when the last d
\* blocks are replaced.
CanHold(b, m, d) ==
  /\ b \in mempool
  /\ height - d < m /\ m <= height + 1
  /\ anchor[b] < m /\ m <= anchor[b] + AnchorDepth

-----------------------------------------------------------------------------
(* Actions of the network.                                                 *)

\* The chain gets one block longer, and its last d blocks may be others than
\* before: what they held is unmined or mined elsewhere.
NextBlock ==
  /\ height < MaxHeight
  /\ height' = height + 1
  /\ \E d \in 0..MaxReorg :
       /\ minedAt' \in [Books -> 0..(height + 1)]
       /\ \A b \in Books :
            IF minedAt[b] # 0 /\ minedAt[b] <= height - d
              THEN minedAt'[b] = minedAt[b]
              ELSE minedAt'[b] = 0 \/ CanHold(b, minedAt'[b], d)
  /\ UNCHANGED <<mempool, anchor>>

\* A header is sent to a few nodes: miners may or may not get to know it,
\* whatever the sender hears (a reply can be lost, a node can be stale).
PostHeader(b) ==
  /\ mempool' \in {mempool, mempool \cup {b}}
  /\ UNCHANGED <<height, minedAt, anchor>>

\* The header of b is signed on top of a block the chain has.
SignHeader(b) ==
  /\ \E a \in 1..height : anchor' = [anchor EXCEPT ![b] = a]
  /\ UNCHANGED <<height, mempool, minedAt>>

-----------------------------------------------------------------------------
(* What the network has decided for good.                                  *)

Signed(b) == anchor[b] # 0

\* No replacement can take the block of b off the chain any more.
Settled(b) == minedAt[b] # 0 /\ minedAt[b] <= height - MaxReorg

\* No block that can still come may hold b.
Dead(b) ==
  /\ Signed(b)
  /\ minedAt[b] = 0
  /\ anchor[b] + AnchorDepth <= height - MaxReorg
=============================================================================
