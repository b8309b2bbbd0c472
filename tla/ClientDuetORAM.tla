--------------------------- MODULE ClientDuetORAM ---------------------------
(***************************************************************************)
(* The client's bookkeeping (src/ClientDuetORAM.cpp): which slot of the     *)
(* tree holds which block, across accesses, evictions, saves, restarts and  *)
(* crashes.                                                                 *)
(*                                                                          *)
(* The contents of the servers' buckets are seen through the client's       *)
(* masks: tree[n][s] = b says that what both servers keep in slot s of node *)
(* n, unmasked with the IVs the client has for b, is block b.  Every other  *)
(* content is 0: a dummy, or a copy of a block under IVs the client has     *)
(* replaced.  savedTree is the same map for the IVs in the client's file.   *)
(* (IVs are 128 random bits: no two are taken to be equal.)  How the two    *)
(* servers compute what a step of this module does to the tree is the       *)
(* subject of SecretSharedShuffle.                                          *)
(***************************************************************************)
EXTENDS GenerateShuffle

CONSTANT
    Garbage     \* what an entry of metaData nobody wrote can read as

ASSUME GarbageAssumption == Garbage \subseteq 0 .. NUM_BLOCK /\ 0 \in Garbage

VARIABLES
    numRead,    \* accesses since the last eviction: the next free root slot
    tree,       \* the servers' blocks, as unmasked with the client's memory
    saved,      \* the client's file local_data
    savedTree,  \* the servers' blocks, as unmasked with the IVs in the file
    pc,         \* where the client is
    cut         \* history: "evict" once a client has died between an eviction
                \* and OpenFile, "write" once one has died between OpenFile and
                \* Save

memory == <<pos_map, metaData, numRead, numEvict>>
vars   == <<pos_map, metaData, numEvict, numRead, tree, saved, savedTree, pc, cut>>

(***************************************************************************)
(* pc: "menu" between two accesses, "evict" when the upload of a block has  *)
(* filled the root, "save" before the file is opened, "write" while it is   *)
(* written, "down" when the client does not run; "aborted" when the         *)
(* assertion on a retrieved block has failed; "undefined" when an eviction  *)
(* was sent that generateShuffle gave up on (its entries of pi are still -1 *)
(* and index an array), or load() has copied more than the file had.        *)
(***************************************************************************)
PC == {"menu", "evict", "save", "write", "down", "aborted", "undefined"}

\* The slots of the tree, as read through a position map.
HoldsAt(map, contents, b) ==
    contents[NodeOf(map, b)][SlotOf(map, b)]

\* A tree with a value written to the slot of one block.
Write(contents, n, s, v) == [contents EXCEPT ![n][s] = v]

\* A tree in which no slot is readable as a block of S any more.
Retire(contents, S) ==
    [n \in Node |-> [s \in Slot |->
        IF contents[n][s] \in S THEN 0 ELSE contents[n][s]]]

\* Variant a run must reject: load() forgets the blocks of the root.
LoadedMetaDataNoRoot(map, g) ==
    [n \in Node |-> [s \in Slot |->
        LET here == {b \in Block : NodeOf(map, b) = n /\ SlotOf(map, b) = s}
        IN  IF here = {} \/ n = 0 THEN g[n][s]
            ELSE CHOOSE b \in here : \A c \in here : c <= b]]

\* The entries of metaData that map names are set, all others are garbage g.
LoadedMetaData(map, g) ==
    [n \in Node |-> [s \in Slot |->
        LET here == {b \in Block : NodeOf(map, b) = n /\ SlotOf(map, b) = s}
        IN  IF here = {} THEN g[n][s]
            ELSE CHOOSE b \in here : \A c \in here : c <= b]]

\* Memory nobody wrote: at most one of its entries reads as other than 0.
NoBlocks == [n \in Node |-> [s \in Slot |-> 0]]
GarbageMaps ==
    {[NoBlocks EXCEPT ![n][s] = v] : n \in Node, s \in Slot, v \in Garbage}

\* Variant a run must reject: the file does not keep numRead.
LocalDataNoRead ==
    [pos_map |-> pos_map, numEvict |-> numEvict, numRead |-> 0, complete |-> TRUE]

\* What the client writes to its file.  A file that is not complete lacks some
\* of its bytes: its other fields are then those of the file before it.
LocalData ==
    [pos_map |-> pos_map, numEvict |-> numEvict, numRead |-> numRead, complete |-> TRUE]

\* init(): build() places the blocks, the shares go to the servers.
Init ==
    /\ \E blockIDs \in BlockOrders : pos_map = build(blockIDs)
    /\ \E g \in GarbageMaps : metaData = LoadedMetaData(pos_map, g)
    /\ tree = LoadedMetaData(pos_map, NoBlocks)
    /\ numRead = 0
    /\ numEvict = 0
    /\ saved = LocalData
    /\ savedTree = tree
    /\ pc = "menu"
    /\ cut = {}

\* Variant a run must reject: the slot is not cleared.
WithoutKept(b) == metaData

\* metaData without the entry of a block.
Without(b) == Write(metaData, NodeOf(pos_map, b), SlotOf(pos_map, b), 0)

NextRead  == (numRead + 1) % EVICT_RATE
NextEvict == (numEvict + 1) % N_leaf

(***************************************************************************)
(* access() up to the upload: the block is retrieved, checked, given a new  *)
(* random leaf and fresh IVs, and put in slot numRead of the root.          *)
(***************************************************************************)
Access(b, newLeaf) ==
    /\ pc = "menu"
    /\ HoldsAt(pos_map, tree, b) = b
    /\ metaData' = Write(Without(b), 0, numRead, b)
    /\ pos_map' = [pos_map EXCEPT ![b] = [pathID |-> newLeaf, pathIdx |-> numRead]]
    /\ tree' = Write(Retire(tree, {b}), 0, numRead, b)
    /\ savedTree' = Write(savedTree, 0, numRead, 0)
    /\ numRead' = NextRead
    /\ pc' = IF numRead' = 0 THEN "evict" ELSE "save"
    /\ UNCHANGED <<numEvict, saved, cut>>

\* The assertion "RECEIEVED BLOCK IS NOT CORRECT" fails.
AccessFails(b) ==
    /\ pc = "menu"
    /\ HoldsAt(pos_map, tree, b) # b
    /\ pc' = "aborted"
    /\ UNCHANGED <<memory, tree, saved, savedTree, cut>>

\* The buckets an eviction rewrites, on both servers.
Rewritten == {TargetNode(l) : l \in 0 .. HEIGHT + 1}

(***************************************************************************)
(* The servers' evict(): a row of the new vector is the old entry the row   *)
(* was sent, under the IVs of the row, and the client reads it as the block *)
(* it sent there.  A position that two rows claim reaches neither: the      *)
(* masks of the two servers then no longer cancel.                          *)
(***************************************************************************)
ShuffledTree(sent) ==
    LET vector(k) == tree[SourceNode(k \div BUCKET_SIZE)][k % BUCKET_SIZE]
        arrived   == {e \in sent : /\ vector(e.pathIdx) = e.blockID
                                   /\ e = LastSent(sent, e.blockID)
                                   /\ \A f \in sent : f.pathIdx = e.pathIdx => f = e}
        into(n, s) == {e \in arrived : /\ TargetNode(e.row \div BUCKET_SIZE) = n
                                       /\ e.row % BUCKET_SIZE = s}
        stale == Retire(tree, {e.blockID : e \in sent})
    IN  [n \in Node |-> [s \in Slot |->
            IF n \notin Rewritten THEN stale[n][s]
            ELSE IF into(n, s) = {} THEN 0
            ELSE (CHOOSE e \in into(n, s) : TRUE).blockID]]

\* Step 9 of access(): the shuffle is generated and both servers evict.
Evict ==
    /\ pc = "evict"
    /\ LET blocks == Listed
           sent   == Sent(blocks)
       IN  /\ \A l \in Level : ~Overflows(blocks, l)
           /\ pos_map' = ShuffledPosMap(sent)
           /\ metaData' = ShuffledMetaData(sent, Level)
           /\ tree' = ShuffledTree(sent)
    /\ savedTree' = [n \in Node |-> [s \in Slot |->
                        IF n \in Rewritten THEN 0 ELSE savedTree[n][s]]]
    /\ numEvict' = NextEvict
    /\ pc' = "save"
    /\ UNCHANGED <<numRead, saved, cut>>

\* The same when generateShuffle has returned early.
EvictOverflow ==
    /\ pc = "evict"
    /\ LET blocks == Listed
           sent   == Sent(blocks)
       IN  /\ \E l \in Level : Overflows(blocks, l)
           /\ pos_map' = ShuffledPosMap(sent)
           /\ metaData' = ShuffledMetaData(sent, Started(blocks))
    /\ pc' = "undefined"
    /\ UNCHANGED <<numRead, numEvict, tree, saved, savedTree, cut>>

\* Step 11 of access(): the file is opened, which cuts it to nothing...
OpenFile ==
    /\ pc = "save"
    /\ saved' = [saved EXCEPT !.complete = FALSE]
    /\ pc' = "write"
    /\ UNCHANGED <<memory, tree, savedTree, cut>>

\* ... and written.
Save ==
    /\ pc = "write"
    /\ saved' = LocalData
    /\ savedTree' = tree
    /\ pc' = "menu"
    /\ UNCHANGED <<memory, tree, cut>>

\* The user leaves the client between two accesses.
Stop ==
    /\ pc = "menu"
    /\ pc' = "down"
    /\ UNCHANGED <<memory, tree, saved, savedTree, cut>>

\* The client dies in access() before it has sent an eviction...
Crash ==
    /\ \/ pc = "evict"
       \/ pc = "save" /\ numRead # 0
    /\ pc' = "down"
    /\ UNCHANGED <<memory, tree, saved, savedTree, cut>>

\* ... or after the servers have evicted and before the file is opened...
CrashAfterEvict ==
    /\ pc = "save" /\ numRead = 0
    /\ pc' = "down"
    /\ cut' = cut \cup {"evict"}
    /\ UNCHANGED <<memory, tree, saved, savedTree>>

\* ... or while it writes the file, which then lacks some or all of its bytes.
CrashInWrite ==
    /\ pc = "write"
    /\ pc' = "down"
    /\ cut' = cut \cup {"write"}
    /\ UNCHANGED <<memory, tree, saved, savedTree>>

\* load(): the memory comes from the file, metaData from the position map.
Load ==
    /\ pc = "down" /\ saved.complete
    /\ pos_map' = saved.pos_map
    /\ numEvict' = saved.numEvict
    /\ numRead' = saved.numRead
    /\ \E g \in GarbageMaps : metaData' = LoadedMetaData(saved.pos_map, g)
    /\ tree' = savedTree
    /\ pc' = "menu"
    /\ UNCHANGED <<saved, savedTree, cut>>

\* The same of a file that is too short: load() checks that it has read the
\* bytes there are, and copies those it needs from beyond the buffer.
LoadShort ==
    /\ pc = "down" /\ ~saved.complete
    /\ pc' = "undefined"
    /\ UNCHANGED <<memory, tree, saved, savedTree, cut>>

Next ==
    \/ \E b \in Block :
          \/ \E newLeaf \in Leaf : Access(b, newLeaf)
          \/ AccessFails(b)
    \/ Evict \/ EvictOverflow
    \/ OpenFile \/ Save \/ Stop
    \/ Crash \/ CrashInWrite \/ Load \/ LoadShort

Spec == Init /\ [][Next]_vars

\* Every crash, those after an eviction included.
CrashSpec == Init /\ [][Next \/ CrashAfterEvict]_vars
-----------------------------------------------------------------------------
PosMaps  == [Block -> [pathID : Leaf, pathIdx : PathIdx]]
Contents == [Node -> [Slot -> 0 .. NUM_BLOCK]]

\* Every variable has its type.
TypeOK ==
    /\ pos_map \in PosMaps
    /\ metaData \in Contents
    /\ numRead \in 0 .. EVICT_RATE - 1
    /\ numEvict \in 0 .. N_leaf - 1
    /\ tree \in Contents
    /\ saved \in [pos_map : PosMaps, numEvict : 0 .. N_leaf - 1,
                  numRead : 0 .. EVICT_RATE - 1, complete : BOOLEAN]
    /\ savedTree \in Contents
    /\ pc \in PC
    /\ cut \subseteq {"evict", "write"}

Running == pc \in {"menu", "evict", "save", "write"}

\* metaData, kept slot by slot for speed, and pos_map, kept block by block,
\* say the same: every block is in the slot its position names, and no other
\* slot claims to hold one (access(), generateShuffle and load() update both).
MetaDataExact ==
    Running =>
        /\ \A b \in Block : HoldsAt(pos_map, metaData, b) = b
        /\ metaData = LoadedMetaData(pos_map, NoBlocks)

\* Whatever accesses, evictions, restarts and crashes came before, every block
\* can be retrieved from the slot its position names with the IVs the client
\* has, unless a client has died between an eviction and the write of its file.
Recoverable ==
    Running /\ "evict" \notin cut => \A b \in Block : HoldsAt(pos_map, tree, b) = b

\* The same for the client that comes back from its file.  The file lacks some
\* of its bytes only while it is written and after a client has died in that
\* write; one that lacks none leads to every block, in every state but
\* those between an eviction and the write, unless a client has died in one.
FileRecoverable ==
    /\ pc # "write" /\ "write" \notin cut => saved.complete
    /\ saved.complete /\ "evict" \notin cut /\ (pc = "save" => numRead # 0) =>
          \A b \in Block : HoldsAt(saved.pos_map, savedTree, b) = b

\* The root slot of the next upload holds no block, neither for the running
\* client nor for one restarted from the file: uploads never overwrite.
UploadSlotFree ==
    /\ Running /\ pc # "evict" => \A s \in numRead .. BUCKET_SIZE - 1 : tree[0][s] = 0
    /\ \A b \in Block : \A s \in saved.numRead .. BUCKET_SIZE - 1 :
           saved.pos_map[b].pathIdx # s

\* The internal siblings an eviction overwrites without reading them hold no
\* block: the reverse lexicographic order of the evictions sees to it.
SiblingsEmpty ==
    pc = "evict" =>
        \A l \in 1 .. HEIGHT - 1 : \A s \in Slot :
            metaData[getSibling(P(EvictPath, l))][s] = 0

LevelOf(map, b) == map[b].pathIdx \div BUCKET_SIZE
Descends(b) ==
    LET node == NodeOf(pos_map, b)
        below(l) == P(EvictPath, l) = P(pos_map[b].pathID, l)
    IN  /\ pos_map'[b].pathID = pos_map[b].pathID
        /\ IF node \in {SourceNode(l) : l \in 0 .. HEIGHT + 1}
           THEN LET new == LevelOf(pos_map', b)
                IN  /\ new >= LevelOf(pos_map, b)
                    /\ new >= 1 /\ below(new - 1)
                    /\ below(new) => new = HEIGHT
           ELSE pos_map'[b] = pos_map[b]

\* An eviction leaves every block on its path.  A block of a bucket it does
\* not read stays where it is; a block it reads goes one level below the
\* last bucket its path shares with the evicted path (to the leaf, if that
\* is shared too), never up.
EvictionDescends ==
    [][pc = "evict" /\ pc' = "save" => \A b \in Block : Descends(b)]_vars

\* load() rebuilds from the position map exactly the metaData that the
\* stopped client had.
LoadRestores ==
    [][pc = "down" /\ pc' = "menu" /\ saved.pos_map = pos_map
         => metaData' = metaData]_vars

\* Even in a client that has lost blocks in a crash, what is readable stays
\* readable: accesses and evictions never spread the damage.
ReadableStays ==
    [][Running /\ pc' \in {"menu", "evict", "save", "write"} =>
         \A b \in Block : HoldsAt(pos_map, tree, b) = b
                          => HoldsAt(pos_map, tree, b)' = b]_vars

\* The assertion of access(): a retrieved block is the one asked for.
AssertHolds == pc # "aborted"
-----------------------------------------------------------------------------
(***************************************************************************)
(* Why these properties hold: the inductive invariant.                      *)
(***************************************************************************)
\* No two blocks have the same slot.
Placed(map) ==
    \A b, c \in Block :
        NodeOf(map, b) = NodeOf(map, c) /\ SlotOf(map, b) = SlotOf(map, c) => b = c

\* Nothing is readable anywhere but in the slot its position names.
Sound(map, contents) ==
    \A n \in Node, s \in Slot :
        contents[n][s] # 0 => /\ NodeOf(map, contents[n][s]) = n
                              /\ SlotOf(map, contents[n][s]) = s

\* The root slots from the n-th on are those of no block.
RootFree(map, n) ==
    \A b \in Block : map[b].pathIdx \div BUCKET_SIZE = 0 => map[b].pathIdx < n

\* Of the two children of a node above the leaves, the one the next eviction
\* through that node does not run through holds no block.  pow2[l - 1]
\* evictions from the n-th on meet every node of level l - 1.
Vacant(map, n) ==
    \A l \in 1 .. HEIGHT - 1 : \A j \in 0 .. pow2[l - 1] - 1 : \A b \in Block :
        NodeOf(map, b) # getSibling(P(EvictLeaf[(n + j) % N_leaf], l))

\* What the client remembers is right, and right about the root and the
\* siblings the next evictions overwrite.
MemoryInv ==
    /\ pc # "undefined" =>
          /\ Placed(pos_map) /\ metaData = LoadedMetaData(pos_map, NoBlocks)
          /\ Sound(pos_map, tree)
          /\ Vacant(pos_map, numEvict)
    /\ Running /\ pc # "evict" => RootFree(pos_map, numRead)
    /\ pc = "evict" => numRead = 0
    /\ Recoverable

\* So is its file, which agrees with the memory between two accesses.
FileInv ==
    /\ Placed(saved.pos_map)
    /\ Sound(saved.pos_map, savedTree)
    /\ Vacant(saved.pos_map, saved.numEvict)
    /\ RootFree(saved.pos_map, saved.numRead)
    /\ pc = "menu" => saved = LocalData /\ savedTree = tree
    /\ pc = "write" => ~saved.complete
    /\ FileRecoverable

\* All of it, whatever crashes.
BookInv == TypeOK /\ MemoryInv /\ FileInv
=============================================================================
