----------------------------- MODULE Replication -----------------------------
(***************************************************************************)
(* What pushing a book to the nodes of Arweave amounts to, with no chunks, *)
(* passes, retries or saved states in sight: nodes come to have the whole  *)
(* book, one after another or several at once; the row counts some of the  *)
(* nodes that have it, no two of them close to one another, and may forget *)
(* them again; the book is stored once those it counts are enough.         *)
(***************************************************************************)
CONSTANTS
  Nodes,
  SpreadSets,  \* the sets of nodes a row may count
  HolderSets   \* those of them that are holders enough

VARIABLES
  status,   \* Upload.status
  copies,   \* nodes that have answered 200 to every chunk
  counted   \* the holders the row calls done

replicationVars == <<status, copies, counted>>

Init == status = "pending_confirmation" /\ copies = {} /\ counted = {}

\* Also of a book that is stored or has failed: uploads may outlive their pass.
CopiesAppear ==
  /\ \E S \in SUBSET Nodes : copies' = copies \cup S
  /\ UNCHANGED <<status, counted>>

Recount ==
  /\ counted' \in SpreadSets /\ counted' \subseteq copies
  /\ UNCHANGED <<status, copies>>

Store ==
  /\ status = "pending_confirmation" /\ status' = "pending_stake"
  /\ counted' \in HolderSets /\ counted' \subseteq copies
  /\ UNCHANGED copies

GiveUp ==
  /\ status = "pending_confirmation" /\ status' = "storage_failed"
  /\ counted' \in SpreadSets /\ counted' \subseteq copies
  /\ UNCHANGED copies

Next == CopiesAppear \/ Recount \/ Store \/ GiveUp

Spec == Init /\ [][Next]_replicationVars

-----------------------------------------------------------------------------

\* A stored book has been taken whole by holders enough, whatever its row counts later.
StoredIsSpread == status = "pending_stake" => \E S \in HolderSets : S \subseteq copies
=============================================================================
