--------------------------- MODULE GenerateShuffle ---------------------------
(***************************************************************************)
(* One eviction as the client plans it: which blocks the buckets of the     *)
(* path hold (readSiblingBucket, readBucket), to which row of the shuffled  *)
(* vector each goes (SecretSharedShuffle::generateShuffle), and, for the    *)
(* servers, which bucket every row is read from and written back to         *)
(* (ServerDuetORAM::evict).                                                 *)
(*                                                                          *)
(* The vector has SIZE_PI entries.  Read: entry k comes from bucket         *)
(* k / BUCKET_SIZE of the path, the last BUCKET_SIZE ones from the sibling  *)
(* of the leaf.  Written: layer l < HEIGHT goes to the sibling of the       *)
(* path's node of level l + 1, layer HEIGHT to the leaf, the last to the    *)
(* root.  The buckets of the path between root and leaf are not rewritten.  *)
(***************************************************************************)
EXTENDS DuetORAM

VARIABLES
    pos_map,    \* the path and the position on it of every block
    metaData,   \* the block in every slot of the tree, 0 for none
    numEvict    \* evictions so far, modulo N_leaf

\* The leaf whose path the next eviction shuffles.
EvictLeaf == [n \in 0 .. N_leaf - 1 |-> getEvictLeafID(n)]
EvictPath == EvictLeaf[numEvict]

\* The nodes of the evicted path.
PathNode(l) == P(EvictPath, l)

\* The bucket the rows of layer l are written to, and the bucket the
\* entries of layer l are read from.
TargetNode(l) ==
    CASE l < HEIGHT     -> getSibling(PathNode(l + 1))
      [] l = HEIGHT     -> PathNode(HEIGHT)
      [] l = HEIGHT + 1 -> PathNode(0)
SourceNode(l) ==
    IF l <= HEIGHT THEN FullPath[EvictPath][l] ELSE getSibling(EvictPath)

\* The slots in the order in which the client looks for blocks in them: the
\* sibling of the leaf first, then the path from the root to the leaf.
ScanNode(k) == IF k < BUCKET_SIZE THEN getSibling(PathNode(HEIGHT))
                                  ELSE PathNode(k \div BUCKET_SIZE - 1)
Scanned(k) == metaData[ScanNode(k)][k % BUCKET_SIZE]

\* Variant a run must reject: the shallowest level instead of the deepest.
MeetLevelShallow(b) ==
    LET meets == {l \in Level : PathNode(l) = P(pos_map[b].pathID, l)}
    IN  CHOOSE l \in meets : \A m \in meets : m >= l

\* The layer that takes a block: the deepest level at which the path of the
\* block still runs along the evicted one.
MeetLevel(b) ==
    LET meets == {l \in Level : PathNode(l) = P(pos_map[b].pathID, l)}
    IN  CHOOSE l \in meets : \A m \in meets : m <= l

\* Variant a run must reject: the sibling's blocks are not moved.
VectorIdxUnmoved(k) == pos_map[Scanned(k)].pathIdx

\* The entry of the servers' vector a listed block is read from: the blocks of
\* the sibling of the leaf are one bucket behind those of the leaf.
VectorIdx(k) == pos_map[Scanned(k)].pathIdx + (IF k < BUCKET_SIZE THEN BUCKET_SIZE ELSE 0)

\* The list "blocks": what readSiblingBucket and readBucket find, with the
\* place in the list, the position in the servers' vector, and the layer.
Listed ==
    {[at      |-> k,
      blockID |-> Scanned(k),
      pathIdx |-> VectorIdx(k),
      layer   |-> MeetLevel(Scanned(k))] :
        k \in {j \in 0 .. SIZE_PI - 1 : Scanned(j) # 0}}

\* "counter" of layer l when its loop over the list reaches entry e.
Counter(blocks, l, e) ==
    Cardinality({c \in blocks : c.at < e.at /\ c.layer = l})

\* Variant a run must reject: the bound of the bucket is off by one.
OverflowsLate(blocks, l) ==
    \E e \in blocks : e.layer <= l /\ Counter(blocks, l, e) > BUCKET_SIZE

\* The early return of layer l: the bucket is full, and a block that no
\* deeper layer took is still to be looked at.
Overflows(blocks, l) ==
    \E e \in blocks : e.layer <= l /\ Counter(blocks, l, e) >= BUCKET_SIZE

\* The layers are taken from the leaf up to the root or the early return.
Started(blocks) ==
    {l \in Level : \A m \in Level : m > l => ~Overflows(blocks, m)}

\* The rows that are given a block: the block goes to slot "counter" of the
\* bucket of its layer.
Sent(blocks) ==
    LET started == Started(blocks)
    IN  {[row     |-> BUCKET_SIZE * e.layer + Counter(blocks, e.layer, e),
          blockID |-> e.blockID,
          pathIdx |-> e.pathIdx] :
            e \in {c \in blocks : /\ c.layer \in started
                                  /\ Counter(blocks, c.layer, c) < BUCKET_SIZE}}

\* A block that is listed twice is sent twice: its last row is the one the
\* position map keeps.
LastSent(sent, b) ==
    CHOOSE e \in sent : /\ e.blockID = b
                        /\ \A f \in sent : f.blockID = b => f.row <= e.row

\* Variant a run must reject: the row taken for a position on the path.
RowPathIdxSame(r) == r

\* The position on its path of a block sent to row r: a layer above the leaf
\* goes one level down, to the side of the evicted path.
RowPathIdx(r) == IF r \div BUCKET_SIZE = HEIGHT THEN r ELSE r + BUCKET_SIZE

\* The position map after generateShuffle.
ShuffledPosMap(sent) ==
    [b \in Block |->
        IF \E e \in sent : e.blockID = b
        THEN [pos_map[b] EXCEPT !.pathIdx = RowPathIdx(LastSent(sent, b).row)]
        ELSE pos_map[b]]

\* The bucket metadata after generateShuffle: the path and the siblings are
\* cleared, then the target buckets filled.
ShuffledMetaData(sent, started) ==
    LET cleared == {PathNode(l) : l \in started}
                     \cup {getSibling(PathNode(l + 1)) : l \in started \ {HEIGHT}}
        into(n, s) == {e \in sent : /\ TargetNode(e.row \div BUCKET_SIZE) = n
                                    /\ e.row % BUCKET_SIZE = s}
    IN  [n \in Node |-> [s \in Slot |->
            IF into(n, s) # {} THEN (CHOOSE e \in into(n, s) : TRUE).blockID
            ELSE IF n \in cleared THEN 0 ELSE metaData[n][s]]]
=============================================================================
