---------------------------- MODULE MCChunkPush ----------------------------
(***************************************************************************)
(* Instances of ChunkPush.                                                 *)
(***************************************************************************)
EXTENDS ChunkPush

CONSTANTS n1, n2, n3

\* Two of the nodes are in one /24 block.
InBlocks == [n \in Nodes |-> IF n = n1 THEN 1 ELSE IF n = n2 THEN 1 ELSE 2]
=============================================================================
