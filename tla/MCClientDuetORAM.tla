-------------------------- MODULE MCClientDuetORAM --------------------------
(***************************************************************************)
(* A restricted client for a tree of three levels below the root: only some *)
(* blocks are accessed, and the client is never restarted.  (The three      *)
(* blocks of this tree never fill a bucket: EvictOverflow cannot happen.)   *)
(***************************************************************************)
EXTENDS ClientDuetORAM

CONSTANT
    Accessed    \* bound: the blocks that are ever accessed

DeepInit == Init /\ pos_map = build([i \in 0 .. NUM_BLOCK - 1 |-> i + 1])

DeepNext ==
    \/ \E b \in Accessed, newLeaf \in Leaf : Access(b, newLeaf)
    \/ Evict
    \/ OpenFile
    \/ Save

DeepSpec == DeepInit /\ [][DeepNext]_vars
=============================================================================
