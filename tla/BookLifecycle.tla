---------------------------- MODULE BookLifecycle ----------------------------
(***************************************************************************)
(* What the storage side of the backend promises about a book, with no     *)
(* worker, no passes, no database races and no crashes in sight.           *)
(*                                                                         *)
(* The network decides the fate of a signed header once and for all: it is *)
(* settled in a block, or dead.  The backend follows the network and never *)
(* runs ahead of it: a book is dropped as "header not mined" only after    *)
(* its header is dead, it is stored only after its header is settled and   *)
(* enough nodes serve back what they are asked for, and it is registered   *)
(* for staking only after it is stored.  A decision of the backend is      *)
(* never taken back.                                                       *)
(***************************************************************************)
CONSTANTS
  Books, Nodes,
  HolderSets  \* the sets of nodes that are holders enough

VARIABLES
  status,    \* Upload.status
  verdict,   \* why a failed book failed
  fate,      \* what the network has decided about the book's header
  holders,   \* nodes that serve back what they are asked for of the book
  onChain    \* books registered with the contract library

lifecycleVars == <<status, verdict, fate, holders, onChain>>

Stored(b) == status[b] \in {"pending_stake", "pending"}

Init ==
  /\ status = [b \in Books |-> "absent"]
  /\ verdict = [b \in Books |-> "none"]
  /\ fate = [b \in Books |-> "open"]
  /\ holders = [b \in Books |-> {}]
  /\ onChain = {}

Upload(b) ==
  /\ status[b] = "absent"
  /\ status' = [status EXCEPT ![b] = "pending_confirmation"]
  /\ UNCHANGED <<verdict, fate, holders, onChain>>

\* The network decides about some headers that were open, and never again.
NetworkDecides ==
  /\ fate' \in [Books -> {"open", "settled", "dead"}]
  /\ \A b \in Books : fate[b] # "open" => fate'[b] = fate[b]
  /\ UNCHANGED <<status, verdict, holders, onChain>>

CopiesMade(b) ==
  /\ \E new \in SUBSET Nodes : holders' = [holders EXCEPT ![b] = @ \cup new]
  /\ UNCHANGED <<status, verdict, fate, onChain>>

Fail(b, why) ==
  /\ status[b] = "pending_confirmation"
  /\ why = "header_not_mined" => fate[b] = "dead"
  /\ status' = [status EXCEPT ![b] = "storage_failed"]
  /\ verdict' = [verdict EXCEPT ![b] = why]
  /\ UNCHANGED <<fate, holders, onChain>>

Store(b) ==
  /\ status[b] = "pending_confirmation"
  /\ fate[b] = "settled"
  /\ holders[b] \in HolderSets
  /\ status' = [status EXCEPT ![b] = "pending_stake"]
  /\ UNCHANGED <<verdict, fate, holders, onChain>>

Register(b) ==
  /\ Stored(b)
  /\ onChain' = onChain \cup {b}
  /\ UNCHANGED <<status, verdict, fate, holders>>

ShowRegistered(b) ==
  /\ status[b] = "pending_stake"
  /\ b \in onChain
  /\ status' = [status EXCEPT ![b] = "pending"]
  /\ UNCHANGED <<verdict, fate, holders, onChain>>

Next ==
  \/ NetworkDecides
  \/ \E b \in Books :
       \/ Upload(b) \/ CopiesMade(b) \/ Store(b) \/ Register(b) \/ ShowRegistered(b)
       \/ \E why \in {"header_not_mined", "spool_missing", "chunk_fatal"} : Fail(b, why)

Spec == Init /\ [][Next]_lifecycleVars
=============================================================================
