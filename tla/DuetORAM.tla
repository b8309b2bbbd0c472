------------------------------ MODULE DuetORAM ------------------------------
(***************************************************************************)
(* The geometry of the tree (src/DuetORAM.cpp, include/config.h): numbering *)
(* of the nodes, the path of a leaf, the order in which leaves are evicted, *)
(* and where build() puts the blocks.                                       *)
(*                                                                          *)
(* Nodes are numbered as a binary heap from the root 0; a pathID is the     *)
(* number of a leaf node.  A pathIdx is a position on a path: bucket        *)
(* pathIdx / BUCKET_SIZE (0 at the root), slot pathIdx % BUCKET_SIZE.       *)
(***************************************************************************)
EXTENDS Integers, FiniteSets

CONSTANTS
    HEIGHT,         \* levels below the root
    BUCKET_SIZE,    \* slots of a bucket
    EVICT_RATE      \* accesses between two evictions

(***************************************************************************)
(* What config.h has to satisfy.  The code checks none of this but the      *)
(* assertion of build(), which EVICT_RATE <= BUCKET_SIZE implies: an epoch  *)
(* of EVICT_RATE uploads goes to the slots of one root bucket.              *)
(***************************************************************************)
ASSUME ConfigAssumption ==
    /\ HEIGHT \in Nat \ {0}
    /\ BUCKET_SIZE \in Nat \ {0}
    /\ EVICT_RATE \in Nat \ {0}
    /\ EVICT_RATE <= BUCKET_SIZE

\* The powers of two, pow(2, n) and 1 << n in the code.
pow2[n \in 0 .. HEIGHT + 1] == IF n = 0 THEN 1 ELSE 2 * pow2[n - 1]

N_leaf    == pow2[HEIGHT]
NUM_NODES == pow2[HEIGHT + 1] - 1
NUM_BLOCK == pow2[HEIGHT - 1] * EVICT_RATE - 1
SIZE_PI   == (HEIGHT + 2) * BUCKET_SIZE

Level == 0 .. HEIGHT
Node  == 0 .. NUM_NODES - 1
Leaf  == N_leaf - 1 .. 2 * N_leaf - 2
Slot  == 0 .. BUCKET_SIZE - 1
Block == 1 .. NUM_BLOCK             \* identifier 0 marks a dummy
PathIdx == 0 .. (HEIGHT + 1) * BUCKET_SIZE - 1

\* The node at level l of the path to leaf pathID.
P(pathID, l) == pow2[l] - 1 + ((pathID + 1) % N_leaf) \div pow2[HEIGHT - l]

\* The other child of the parent of a node other than the root.
getSibling(n) == IF n % 2 = 1 THEN n + 1 ELSE n - 1

\* The path to leaf pathID, walked from the leaf to the root.
getFullPathIdx(pathID) ==
    LET idx[l \in Level] == IF l = HEIGHT THEN pathID
                                          ELSE (idx[l + 1] - 1) \div 2
    IN  [l \in Level |-> idx[l]]

\* The paths of all leaves, and the slot a position map names for a block.
FullPath == [pathID \in Leaf |-> getFullPathIdx(pathID)]
NodeOf(map, b) == FullPath[map[b].pathID][map[b].pathIdx \div BUCKET_SIZE]
SlotOf(map, b) == map[b].pathIdx % BUCKET_SIZE

\* Variant a run must reject: leaves evicted from left to right.
getEvictLeafIDInOrder(n) == N_leaf - 1 + n

(***************************************************************************)
(* The leaf of the n-th eviction: the HEIGHT low bits of n, reversed.       *)
(* reversed[i] is <<reversed_val, temp>> after i rounds of the loop.        *)
(***************************************************************************)
getEvictLeafID(n) ==
    LET reversed[i \in Level] ==
            IF i = 0 THEN <<0, n>>
                     ELSE <<2 * reversed[i - 1][1] + (reversed[i - 1][2] % 2),
                            reversed[i - 1][2] \div 2>>
    IN  pow2[HEIGHT] - 1 + reversed[HEIGHT][1]

(***************************************************************************)
(* build(): the blocks, in the order blockIDs, fill the upper half of the   *)
(* leaves' slots from the first leaf on; every other slot holds a dummy.    *)
(***************************************************************************)
LeafShare == BUCKET_SIZE - BUCKET_SIZE \div 2

BuildPosition(iter) ==
    [pathID  |-> N_leaf - 1 + iter \div LeafShare,
     pathIdx |-> BUCKET_SIZE * HEIGHT + BUCKET_SIZE \div 2 + (iter % LeafShare)]

\* The orders std::random_shuffle can leave the identifiers in.
BlockOrders ==
    {o \in [0 .. NUM_BLOCK - 1 -> Block] :
        \A i, j \in DOMAIN o : o[i] = o[j] => i = j}

build(blockIDs) ==
    [b \in Block |-> BuildPosition(CHOOSE i \in DOMAIN blockIDs : blockIDs[i] = b)]
=============================================================================
