------------------------ MODULE ClientDuetORAMProofs ------------------------
(***************************************************************************)
(* The client's bookkeeping, for every tree, every number of accesses and   *)
(* evictions and every crash: the maps agree, no block is overwritten, and  *)
(* an eviction finds the buckets it does not read empty.                    *)
(*                                                                          *)
(* The theorems take memory nobody wrote to read as 0; client_garbage shows *)
(* that they need to.                                                       *)
(***************************************************************************)
EXTENDS ClientDuetORAM, DuetORAMProofs, FiniteSetTheorems

-----------------------------------------------------------------------------
(***************************************************************************)
(* Positions and contents.                                                  *)
(***************************************************************************)

\* A set of numbers up to a bound has a largest one.
LEMMA LargestExists ==
    ASSUME NEW N \in Nat, NEW S, S \subseteq 0 .. N, S # {}
    PROVE  \E x \in S : \A y \in S : y <= x
<1> DEFINE T == {k \in Nat : N - k \in S}
<1>1. PICK s \in S : TRUE
  OBVIOUS
<1>2. N - s \in T
  <2>1. s \in 0 .. N /\ N - s \in Nat /\ N - (N - s) = s
    OBVIOUS
  <2> QED
    BY <2>1
<1>3. PICK k \in T : \A j \in T : ~ (<<j, k>> \in OpToRel(<, Nat))
  BY <1>2, NatLessThanWellFounded, WFMin
<1>4. \A y \in S : y <= N - k
  <2> SUFFICES ASSUME NEW y \in S, y > N - k PROVE FALSE
    OBVIOUS
  <2>1. y \in 0 .. N /\ N - y \in Nat /\ N - (N - y) = y
    OBVIOUS
  <2>2. N - y \in T /\ N - y < k
    BY <2>1
  <2> QED
    BY <1>3, <2>2 DEF OpToRel
<1> QED
  BY <1>4

\* A position is a level and a slot.
LEMMA PosFacts ==
    ASSUME NEW map \in PosMaps, NEW b \in Block
    PROVE  /\ map[b].pathID \in Leaf /\ map[b].pathIdx \in PathIdx /\ map[b].pathIdx \in Nat
           /\ NodeOf(map, b) \in Node /\ SlotOf(map, b) \in Slot /\ SlotOf(map, b) \in Nat
           /\ LevelOf(map, b) \in Level
           /\ NodeOf(map, b) = FullPath[map[b].pathID][LevelOf(map, b)]
           /\ map[b].pathIdx = BUCKET_SIZE * LevelOf(map, b) + SlotOf(map, b)
<1>1. map[b].pathID \in Leaf /\ map[b].pathIdx \in PathIdx
  BY DEF PosMaps
<1>2. map[b].pathIdx \in Nat
  <2>1. (HEIGHT + 1) * BUCKET_SIZE \in Nat
    BY Config, Z3
  <2> QED
    BY <1>1, <2>1 DEF PathIdx
<1>3. /\ NodeOf(map, b) \in Node /\ SlotOf(map, b) \in Slot
      /\ LevelOf(map, b) \in Level
  BY <1>1, PositionFacts DEF LevelOf
<1>4. map[b].pathIdx = BUCKET_SIZE * LevelOf(map, b) + SlotOf(map, b)
  <2> DEFINE k == map[b].pathIdx
  <2>1. k \in Nat /\ BUCKET_SIZE \in Nat \ {0}
    BY <1>2, Config
  <2> HIDE DEF k
  <2>2. k = BUCKET_SIZE * (k \div BUCKET_SIZE) + (k % BUCKET_SIZE)
    BY <2>1, DivMod
  <2> QED
    BY <2>2 DEF k, LevelOf, SlotOf
<1>5. SlotOf(map, b) \in Nat
  BY <1>3, Config DEF Slot
<1> QED
  BY <1>1, <1>2, <1>3, <1>4, <1>5 DEF NodeOf, LevelOf

\* What a level and a slot name.
LEMMA MakePosition ==
    ASSUME NEW l \in Level, NEW s \in Slot, NEW k, k = BUCKET_SIZE * l + s
    PROVE  k \in PathIdx /\ k \div BUCKET_SIZE = l /\ k % BUCKET_SIZE = s
<1>1. BUCKET_SIZE \in Nat \ {0} /\ l \in Nat /\ l <= HEIGHT /\ s \in 0 .. BUCKET_SIZE - 1
      /\ HEIGHT \in Nat
  BY Config DEF Level, Slot
<1>2. k \div BUCKET_SIZE = l /\ k % BUCKET_SIZE = s
  BY <1>1, DivModUnique
<1>3. /\ BUCKET_SIZE * l \in Nat /\ BUCKET_SIZE * l <= BUCKET_SIZE * HEIGHT
      /\ BUCKET_SIZE * HEIGHT \in Nat
      /\ (HEIGHT + 1) * BUCKET_SIZE = BUCKET_SIZE * HEIGHT + BUCKET_SIZE
  BY <1>1, Z3
<1>4. k \in 0 .. (HEIGHT + 1) * BUCKET_SIZE - 1
  BY <1>1, <1>3
<1> QED
  BY <1>2, <1>4 DEF PathIdx

\* The contents that say what a position map says.
Exact(map, contents) ==
    /\ contents \in Contents
    /\ Sound(map, contents)
    /\ \A b \in Block : HoldsAt(map, contents, b) = b

\* Numbers of blocks.
LEMMA BlockNumbers ==
    /\ NUM_BLOCK \in Nat /\ 0 \notin Block /\ Block \subseteq 0 .. NUM_BLOCK
    /\ \A v \in 0 .. NUM_BLOCK : v # 0 => v \in Block
  BY BlocksFit DEF Block

\* They are what load() makes of it, if no two blocks have the same slot.
LEMMA ExactLoaded ==
    ASSUME NEW map \in PosMaps, Placed(map)
    PROVE  Exact(map, LoadedMetaData(map, NoBlocks))
<1> DEFINE here(n, s) == {b \in Block : NodeOf(map, b) = n /\ SlotOf(map, b) = s}
           content(n, s) == IF here(n, s) = {} THEN 0
                            ELSE CHOOSE b \in here(n, s) : \A c \in here(n, s) : c <= b
           C == LoadedMetaData(map, NoBlocks)
<1>1. C = [n \in Node |-> [s \in Slot |-> content(n, s)]]
  <2>1. \A n \in Node, s \in Slot : NoBlocks[n][s] = 0
    BY DEF NoBlocks
  <2> QED
    BY <2>1 DEF LoadedMetaData
<1>2. ASSUME NEW n \in Node, NEW s \in Slot, NEW b \in here(n, s) PROVE content(n, s) = b
  <2>1. \A c \in here(n, s) : c = b
    BY DEF Placed
  <2>2. b \in Int
    BY BlockNumbers
  <2>3. here(n, s) = {b}
    BY <2>1
  <2> HIDE DEF here
  <2> QED
    BY <2>2, <2>3
<1>3. \A n \in Node, s \in Slot : here(n, s) = {} => content(n, s) = 0
  OBVIOUS
<1> HIDE DEF content
<1>4. \A n \in Node, s \in Slot : content(n, s) \in 0 .. NUM_BLOCK
  <2> SUFFICES ASSUME NEW n \in Node, NEW s \in Slot PROVE content(n, s) \in 0 .. NUM_BLOCK
    OBVIOUS
  <2>1. CASE here(n, s) = {}
    BY <1>3, <2>1, BlockNumbers
  <2>2. CASE here(n, s) # {}
    <3>1. PICK b : b \in here(n, s)
      BY <2>2
    <3> QED
      BY <1>2, <3>1, BlockNumbers
  <2> QED
    BY <2>1, <2>2
<1>5. C \in Contents
  BY <1>1, <1>4 DEF Contents
<1>6. Sound(map, C)
  <2> SUFFICES ASSUME NEW n \in Node, NEW s \in Slot, content(n, s) # 0
               PROVE  NodeOf(map, content(n, s)) = n /\ SlotOf(map, content(n, s)) = s
    BY <1>1 DEF Sound
  <2>1. PICK b : b \in here(n, s)
    BY <1>3
  <2> QED
    BY <1>2, <2>1
<1>7. ASSUME NEW b \in Block PROVE HoldsAt(map, C, b) = b
  <2>1. NodeOf(map, b) \in Node /\ SlotOf(map, b) \in Slot
    BY PosFacts
  <2>2. b \in here(NodeOf(map, b), SlotOf(map, b))
    OBVIOUS
  <2>3. content(NodeOf(map, b), SlotOf(map, b)) = b
    BY <1>2, <2>1, <2>2
  <2> QED
    BY <1>1, <2>1, <2>3 DEF HoldsAt
<1> QED
  BY <1>5, <1>6, <1>7 DEF Exact

\* And nothing else does.
LEMMA ExactUnique ==
    ASSUME NEW map \in PosMaps, NEW C, NEW D, Exact(map, C), Exact(map, D)
    PROVE  C = D
<1>1. ASSUME NEW n \in Node, NEW s \in Slot, NEW E, NEW F, Exact(map, E), Exact(map, F),
             E[n][s] # 0
      PROVE  F[n][s] = E[n][s]
  <2>1. E[n][s] \in Block
    BY <1>1, BlockNumbers DEF Exact, Contents
  <2>2. NodeOf(map, E[n][s]) = n /\ SlotOf(map, E[n][s]) = s
    BY <1>1 DEF Exact, Sound
  <2> QED
    BY <1>1, <2>1, <2>2 DEF Exact, HoldsAt
<1>2. \A n \in Node, s \in Slot : C[n][s] = D[n][s]
  <2> SUFFICES ASSUME NEW n \in Node, NEW s \in Slot PROVE C[n][s] = D[n][s]
    OBVIOUS
  <2>1. C[n][s] # 0 => D[n][s] = C[n][s]
    BY <1>1
  <2>2. D[n][s] # 0 => C[n][s] = D[n][s]
    BY <1>1
  <2> QED
    BY <2>1, <2>2
<1>3. C \in [Node -> [Slot -> 0 .. NUM_BLOCK]] /\ D \in [Node -> [Slot -> 0 .. NUM_BLOCK]]
  BY DEF Exact, Contents
<1>4. \A n \in Node : C[n] = D[n]
  <2> SUFFICES ASSUME NEW n \in Node PROVE C[n] = D[n]
    OBVIOUS
  <2>1. C[n] \in [Slot -> 0 .. NUM_BLOCK] /\ D[n] \in [Slot -> 0 .. NUM_BLOCK]
    BY <1>3
  <2> QED
    BY <1>2, <2>1
<1> QED
  BY <1>3, <1>4

\* The two ways to say that metaData is right.
LEMMA ExactMeans ==
    ASSUME NEW map \in PosMaps, NEW C
    PROVE  Exact(map, C) <=> Placed(map) /\ C = LoadedMetaData(map, NoBlocks)
<1>1. ASSUME Exact(map, C) PROVE Placed(map)
  BY <1>1 DEF Exact, HoldsAt, Placed
<1> QED
  BY <1>1, ExactLoaded, ExactUnique

-----------------------------------------------------------------------------
(***************************************************************************)
(* The path an eviction reads and the buckets it writes.                    *)
(***************************************************************************)

\* The buckets whose blocks an eviction moves.
ScanSet == {PathNode(l) : l \in Level} \cup {getSibling(PathNode(HEIGHT))}

\* The nodes of the path, the buckets read and the buckets written.
LEMMA PathFacts ==
    ASSUME numEvict \in 0 .. N_leaf - 1
    PROVE  /\ EvictPath \in Leaf
           /\ \A l \in Level : /\ PathNode(l) = FullPath[EvictPath][l]
                               /\ PathNode(l) \in Node /\ SourceNode(l) = PathNode(l)
           /\ PathNode(0) = 0 /\ PathNode(HEIGHT) = EvictPath
           /\ getSibling(PathNode(HEIGHT)) \in Node
           /\ SourceNode(HEIGHT + 1) = getSibling(PathNode(HEIGHT))
           /\ \A l \in Level \ {HEIGHT} : /\ TargetNode(l) = getSibling(PathNode(l + 1))
                                          /\ TargetNode(l) \in Node
           /\ TargetNode(HEIGHT) = PathNode(HEIGHT)
           /\ TargetNode(HEIGHT + 1) = PathNode(0)
<1>0. HEIGHT \in Int /\ HEIGHT >= 1 /\ 0 \in Level /\ HEIGHT \in Level /\ HEIGHT \in 1 .. HEIGHT
      /\ N_leaf \in Nat
  BY Config, Leaves
<1>1. EvictPath \in Leaf
  <2>1. numEvict \in Nat /\ EvictPath = getEvictLeafID(numEvict)
    BY <1>0 DEF EvictPath, EvictLeaf
  <2> QED
    BY <2>1, EvictedPath
<1>2. ASSUME NEW l \in Level
      PROVE  /\ PathNode(l) = FullPath[EvictPath][l] /\ PathNode(l) \in Node
             /\ SourceNode(l) = PathNode(l)
  <2>1. PathNode(l) = FullPath[EvictPath][l]
    BY <1>1, PathAt DEF PathNode
  <2>2. l <= HEIGHT
    BY <1>0 DEF Level
  <2> QED
    BY <1>1, <2>1, <2>2, FullPathFacts DEF SourceNode
<1>3. PathNode(0) = 0 /\ PathNode(HEIGHT) = EvictPath
  BY <1>0, <1>1, <1>2, FullPathFacts
<1>4. ASSUME NEW l \in Level \ {HEIGHT}
      PROVE  TargetNode(l) = getSibling(PathNode(l + 1)) /\ TargetNode(l) \in Node
  <2>1. l < HEIGHT /\ l + 1 \in 1 .. HEIGHT /\ l + 1 \in Level
    BY <1>0 DEF Level
  <2>2. TargetNode(l) = getSibling(PathNode(l + 1))
    <3>1. l \in Int /\ l # HEIGHT /\ l # HEIGHT + 1
      BY <1>0 DEF Level
    <3> QED
      BY <2>1, <3>1 DEF TargetNode
  <2> QED
    BY <1>1, <1>2, <2>1, <2>2, SiblingFacts
<1>5. getSibling(PathNode(HEIGHT)) \in Node
  BY <1>0, <1>1, <1>2, SiblingFacts
<1>6. /\ SourceNode(HEIGHT + 1) = getSibling(PathNode(HEIGHT))
      /\ TargetNode(HEIGHT) = PathNode(HEIGHT)
      /\ TargetNode(HEIGHT + 1) = PathNode(0)
  BY <1>0, <1>3 DEF SourceNode, TargetNode
<1> QED
  BY <1>1, <1>2, <1>3, <1>4, <1>5, <1>6

\* Every layer has a bucket of its own to go to.
LEMMA TargetsApart ==
    ASSUME numEvict \in 0 .. N_leaf - 1, NEW l \in Level, NEW m \in Level,
           TargetNode(l) = TargetNode(m)
    PROVE  l = m
<1>0. HEIGHT \in Int /\ HEIGHT >= 1 /\ HEIGHT \in Level
  BY Config, Leaves
<1>1. EvictPath \in Leaf /\ \A k \in Level : PathNode(k) = FullPath[EvictPath][k]
  BY PathFacts
<1>2. ASSUME NEW i \in Level, i # HEIGHT
      PROVE  /\ i + 1 \in 1 .. HEIGHT /\ i + 1 \in Level
             /\ TargetNode(i) = getSibling(FullPath[EvictPath][i + 1])
             /\ TargetNode(i) # FullPath[EvictPath][i + 1]
             /\ getSibling(TargetNode(i)) = FullPath[EvictPath][i + 1]
             /\ pow2[i + 1] - 1 <= TargetNode(i) /\ TargetNode(i) <= 2 * pow2[i + 1] - 2
  <2>1. i + 1 \in 1 .. HEIGHT /\ i + 1 \in Level
    BY <1>0, <1>2 DEF Level
  <2>2. TargetNode(i) = getSibling(FullPath[EvictPath][i + 1])
    BY <1>1, <1>2, <2>1, PathFacts
  <2> QED
    BY <1>1, <2>1, <2>2, SiblingFacts
<1>3. TargetNode(HEIGHT) = FullPath[EvictPath][HEIGHT]
  BY <1>0, <1>1, PathFacts
<1>4. ASSUME NEW i \in Level, i # HEIGHT PROVE TargetNode(i) # TargetNode(HEIGHT)
  <2> SUFFICES ASSUME TargetNode(i) = TargetNode(HEIGHT) PROVE FALSE
    OBVIOUS
  <2>1. i + 1 = HEIGHT
    BY <1>0, <1>1, <1>2, <1>3, <1>4, LevelOfNode
  <2> QED
    BY <1>2, <1>3, <1>4, <2>1
<1>5. ASSUME l # HEIGHT, m # HEIGHT PROVE l = m
  <2>1. FullPath[EvictPath][l + 1] = FullPath[EvictPath][m + 1]
    BY <1>2, <1>5
  <2>2. l + 1 = m + 1
    BY <1>1, <1>2, <1>5, <2>1, LevelsApart
  <2> QED
    BY <1>0, <2>2 DEF Level
<1> QED
  BY <1>4, <1>5

\* The layer of a block is the last level of its path on the evicted one; the
\* bucket the layer goes to is the next one on the path of the block.
LEMMA MeetFacts ==
    ASSUME numEvict \in 0 .. N_leaf - 1, pos_map \in PosMaps, NEW b \in Block
    PROVE  /\ MeetLevel(b) \in Level
           /\ PathNode(MeetLevel(b)) = FullPath[pos_map[b].pathID][MeetLevel(b)]
           /\ \A m \in Level : PathNode(m) = FullPath[pos_map[b].pathID][m] => m <= MeetLevel(b)
           /\ MeetLevel(b) = HEIGHT =>
                 FullPath[pos_map[b].pathID][HEIGHT] = TargetNode(HEIGHT)
           /\ MeetLevel(b) # HEIGHT =>
                 FullPath[pos_map[b].pathID][MeetLevel(b) + 1] = TargetNode(MeetLevel(b))
<1>0. HEIGHT \in Nat /\ HEIGHT >= 1 /\ HEIGHT \in Level /\ 0 \in Level
  BY Config, Leaves
<1>1. PICK x \in Leaf : x = pos_map[b].pathID
  BY PosFacts
<1>2. EvictPath \in Leaf /\ \A l \in Level : PathNode(l) = FullPath[EvictPath][l]
  BY PathFacts
<1> DEFINE meets == {l \in Level : PathNode(l) = P(pos_map[b].pathID, l)}
<1>3. meets = {l \in Level : PathNode(l) = FullPath[x][l]}
  BY <1>1, PathAt
<1>4. 0 \in meets
  BY <1>0, <1>1, <1>2, <1>3, FullPathFacts
<1>5. MeetLevel(b) \in meets /\ \A m \in meets : m <= MeetLevel(b)
  <2>1. \E l \in meets : \A m \in meets : m <= l
    BY <1>0, <1>3, <1>4, LargestExists DEF Level
  <2> HIDE DEF meets
  <2>2. MeetLevel(b) = CHOOSE l \in meets : \A m \in meets : m <= l
    BY DEF MeetLevel, meets
  <2> QED
    BY <2>1, <2>2
<1> DEFINE l == MeetLevel(b)
<1>6. /\ l \in Level /\ PathNode(l) = FullPath[x][l]
      /\ \A m \in Level : PathNode(m) = FullPath[x][m] => m <= l
  BY <1>3, <1>5
<1> HIDE DEF meets, l
<1>7. CASE l = HEIGHT
  <2>1. FullPath[x][HEIGHT] = TargetNode(HEIGHT)
    BY <1>0, <1>6, <1>7, PathFacts
  <2> QED
    BY <1>1, <1>6, <1>7, <2>1 DEF l
<1>8. CASE l # HEIGHT
  <2>1. l + 1 \in 1 .. HEIGHT /\ l + 1 \in Level /\ (l + 1) - 1 = l /\ ~ (l + 1 <= l)
    BY <1>0, <1>6, <1>8 DEF Level
  <2>2. FullPath[EvictPath][l + 1] # FullPath[x][l + 1]
    BY <1>2, <1>6, <2>1
  <2>3. FullPath[x][l] = FullPath[EvictPath][l]
    BY <1>2, <1>6
  <2>4. FullPath[x][l + 1] \in {FullPath[EvictPath][l + 1],
                                getSibling(FullPath[EvictPath][l + 1])}
    <3> DEFINE k == l + 1
    <3>1. k \in 1 .. HEIGHT /\ FullPath[x][k - 1] = FullPath[EvictPath][k - 1]
      BY <2>1, <2>3
    <3> HIDE DEF k
    <3>2. FullPath[x][k] \in {FullPath[EvictPath][k], getSibling(FullPath[EvictPath][k])}
      BY <1>2, <3>1, SiblingFacts
    <3> QED
      BY <3>2 DEF k
  <2>5. TargetNode(l) = getSibling(FullPath[EvictPath][l + 1])
    BY <1>2, <1>6, <1>8, <2>1, PathFacts
  <2>6. FullPath[x][l + 1] = TargetNode(l)
    BY <2>2, <2>4, <2>5
  <2> QED
    BY <1>1, <1>6, <1>8, <2>6 DEF l
<1> QED
  BY <1>7, <1>8

\* The client looks at every slot of the buckets read, each once.
LEMMA ScanFacts ==
    ASSUME numEvict \in 0 .. N_leaf - 1, NEW k \in 0 .. SIZE_PI - 1
    PROVE  /\ k \in Nat /\ k \div BUCKET_SIZE \in 0 .. HEIGHT + 1 /\ k % BUCKET_SIZE \in Slot
           /\ k = BUCKET_SIZE * (k \div BUCKET_SIZE) + (k % BUCKET_SIZE)
           /\ k < BUCKET_SIZE <=> k \div BUCKET_SIZE = 0
           /\ k < BUCKET_SIZE => ScanNode(k) = getSibling(PathNode(HEIGHT))
           /\ ~ (k < BUCKET_SIZE) => /\ k \div BUCKET_SIZE - 1 \in Level
                                     /\ ScanNode(k) = PathNode(k \div BUCKET_SIZE - 1)
           /\ ScanNode(k) \in ScanSet /\ ScanNode(k) \in Node
<1>0. BUCKET_SIZE \in Nat \ {0} /\ HEIGHT \in Nat /\ SIZE_PI = BUCKET_SIZE * (HEIGHT + 2)
      /\ SIZE_PI \in Nat
  BY Config, Z3 DEF SIZE_PI
<1> DEFINE q == k \div BUCKET_SIZE
<1>1. k \in Nat /\ k < SIZE_PI
  BY <1>0
<1>2. q \in Nat /\ k % BUCKET_SIZE \in 0 .. BUCKET_SIZE - 1
      /\ k = BUCKET_SIZE * q + (k % BUCKET_SIZE)
  BY <1>0, <1>1, DivMod
<1> HIDE DEF q
<1>3. q < HEIGHT + 2
  <2>1. BUCKET_SIZE * q < BUCKET_SIZE * (HEIGHT + 2)
    <3>1. BUCKET_SIZE * q \in Nat
      BY <1>0, <1>2, Z3
    <3> QED
      BY <1>0, <1>1, <1>2, <3>1
  <2> QED
    BY <1>0, <1>2, <2>1, Z3
<1>4. k < BUCKET_SIZE <=> q = 0
  <2>1. CASE q = 0
    <3>1. BUCKET_SIZE * q = 0
      BY <1>0, <2>1
    <3> QED
      BY <1>0, <1>2, <2>1, <3>1
  <2>2. CASE q >= 1
    <3>1. BUCKET_SIZE * q >= BUCKET_SIZE /\ BUCKET_SIZE * q \in Nat
      BY <1>0, <1>2, <2>2, Z3
    <3> QED
      BY <1>0, <1>2, <2>2, <3>1
  <2> QED
    BY <1>2, <2>1, <2>2
<1>5. CASE k < BUCKET_SIZE
  <2>1. ScanNode(k) = getSibling(PathNode(HEIGHT))
    BY <1>5 DEF ScanNode
  <2> QED
    BY <1>0, <1>1, <1>2, <1>3, <1>4, <1>5, <2>1, PathFacts DEF ScanSet, Slot, q
<1>6. CASE ~ (k < BUCKET_SIZE)
  <2>1. ScanNode(k) = PathNode(q - 1)
    BY <1>6 DEF ScanNode, q
  <2>2. q - 1 \in Level
    BY <1>0, <1>2, <1>3, <1>4, <1>6 DEF Level
  <2> QED
    BY <1>0, <1>1, <1>2, <1>3, <1>4, <1>6, <2>1, <2>2, PathFacts DEF ScanSet, Slot, q
<1> QED
  BY <1>5, <1>6

\* Different levels and the sibling of the leaf are different buckets.
LEMMA ScanApart ==
    ASSUME numEvict \in 0 .. N_leaf - 1,
           NEW k \in 0 .. SIZE_PI - 1, NEW j \in 0 .. SIZE_PI - 1,
           ScanNode(k) = ScanNode(j)
    PROVE  k \div BUCKET_SIZE = j \div BUCKET_SIZE
<1>0. HEIGHT \in Nat /\ HEIGHT >= 1 /\ HEIGHT \in Level /\ HEIGHT \in 1 .. HEIGHT
      /\ BUCKET_SIZE \in Nat
  BY Config, Leaves
<1>1. EvictPath \in Leaf /\ \A l \in Level : PathNode(l) = FullPath[EvictPath][l]
  BY PathFacts
<1>2. ASSUME NEW l \in Level PROVE getSibling(PathNode(HEIGHT)) # PathNode(l)
  <2> SUFFICES ASSUME getSibling(PathNode(HEIGHT)) = PathNode(l) PROVE FALSE
    OBVIOUS
  <2>1. /\ pow2[HEIGHT] - 1 <= FullPath[EvictPath][l]
        /\ FullPath[EvictPath][l] <= 2 * pow2[HEIGHT] - 2
        /\ FullPath[EvictPath][l] # FullPath[EvictPath][HEIGHT]
    BY <1>0, <1>1, SiblingFacts
  <2> QED
    BY <1>0, <1>1, <2>1, LevelOfNode
<1>3. ASSUME NEW i \in 0 .. SIZE_PI - 1
      PROVE  /\ i \div BUCKET_SIZE \in Int /\ (i < BUCKET_SIZE <=> i \div BUCKET_SIZE = 0)
             /\ i < BUCKET_SIZE => ScanNode(i) = getSibling(PathNode(HEIGHT))
             /\ ~ (i < BUCKET_SIZE) => /\ i \div BUCKET_SIZE - 1 \in Level
                                       /\ ScanNode(i) = PathNode(i \div BUCKET_SIZE - 1)
  <2>1. 0 .. HEIGHT + 1 \subseteq Int
    OBVIOUS
  <2> QED
    BY <2>1, ScanFacts
<1>4. CASE k < BUCKET_SIZE \/ j < BUCKET_SIZE
  BY <1>2, <1>3, <1>4
<1>5. CASE ~ (k < BUCKET_SIZE) /\ ~ (j < BUCKET_SIZE)
  <2>1. FullPath[EvictPath][k \div BUCKET_SIZE - 1] = FullPath[EvictPath][j \div BUCKET_SIZE - 1]
    BY <1>1, <1>3, <1>5
  <2>2. k \div BUCKET_SIZE - 1 = j \div BUCKET_SIZE - 1
    BY <1>1, <1>3, <1>5, <2>1, LevelsApart
  <2> QED
    BY <1>3, <2>2
<1> QED
  BY <1>4, <1>5

\* What generateShuffle starts from.
Planning ==
    /\ numEvict \in 0 .. N_leaf - 1
    /\ pos_map \in PosMaps
    /\ Exact(pos_map, metaData)

\* A block that is found lies where it is found, and the entry of the servers'
\* vector named for it is that slot.
LEMMA FoundFacts ==
    ASSUME Planning, NEW k \in 0 .. SIZE_PI - 1, Scanned(k) # 0
    PROVE  /\ Scanned(k) \in Block
           /\ NodeOf(pos_map, Scanned(k)) = ScanNode(k)
           /\ SlotOf(pos_map, Scanned(k)) = k % BUCKET_SIZE
           /\ SourceNode(VectorIdx(k) \div BUCKET_SIZE) = ScanNode(k)
           /\ VectorIdx(k) % BUCKET_SIZE = k % BUCKET_SIZE
<1>0. /\ HEIGHT \in Nat /\ HEIGHT >= 1 /\ HEIGHT \in Level /\ HEIGHT \in 1 .. HEIGHT
      /\ BUCKET_SIZE \in Nat \ {0}
  BY Config, Leaves
<1>1. /\ numEvict \in 0 .. N_leaf - 1 /\ pos_map \in PosMaps
      /\ Exact(pos_map, metaData)
  BY DEF Planning
<1>2. /\ EvictPath \in Leaf
      /\ \A l \in Level : PathNode(l) = FullPath[EvictPath][l] /\ SourceNode(l) = PathNode(l)
      /\ SourceNode(HEIGHT + 1) = getSibling(PathNode(HEIGHT))
  BY <1>1, PathFacts
<1>3. /\ k \in Nat /\ k % BUCKET_SIZE \in Slot /\ ScanNode(k) \in Node
      /\ k < BUCKET_SIZE => ScanNode(k) = getSibling(PathNode(HEIGHT))
      /\ ~ (k < BUCKET_SIZE) => /\ k \div BUCKET_SIZE - 1 \in Level
                                /\ ScanNode(k) = PathNode(k \div BUCKET_SIZE - 1)
  BY <1>1, ScanFacts
<1> DEFINE b == Scanned(k)
           q == pos_map[b].pathIdx
           l == LevelOf(pos_map, b)
<1>4. b \in 0 .. NUM_BLOCK
  BY <1>1, <1>3 DEF Exact, Contents, Scanned
<1>5. b \in Block
  BY <1>4, BlockNumbers
<1>6. NodeOf(pos_map, b) = ScanNode(k) /\ SlotOf(pos_map, b) = k % BUCKET_SIZE
  BY <1>1, <1>3 DEF Exact, Sound, Scanned
<1>7. /\ pos_map[b].pathID \in Leaf /\ l \in Level
      /\ ScanNode(k) = FullPath[pos_map[b].pathID][l]
      /\ q = BUCKET_SIZE * l + SlotOf(pos_map, b)
  BY <1>1, <1>5, <1>6, PosFacts
<1>8. SlotOf(pos_map, b) = k % BUCKET_SIZE
  BY <1>6
<1>9. VectorIdx(k) = q + (IF k < BUCKET_SIZE THEN BUCKET_SIZE ELSE 0)
  BY DEF VectorIdx
<1> DEFINE r == k % BUCKET_SIZE
<1>10. q = BUCKET_SIZE * l + r /\ r \in Slot
  BY <1>3, <1>7, <1>8
<1> HIDE DEF b, q, l, r
<1>11. CASE k < BUCKET_SIZE
  <2>1. l = HEIGHT
    <3>1. /\ pow2[HEIGHT] - 1 <= FullPath[pos_map[b].pathID][l]
          /\ FullPath[pos_map[b].pathID][l] <= 2 * pow2[HEIGHT] - 2
      BY <1>0, <1>2, <1>3, <1>7, <1>11, SiblingFacts
    <3> QED
      BY <1>0, <1>7, <3>1, LevelOfNode
  <2>2. VectorIdx(k) = BUCKET_SIZE * (HEIGHT + 1) + r
    <3>1. BUCKET_SIZE * (HEIGHT + 1) = BUCKET_SIZE * HEIGHT + BUCKET_SIZE
          /\ BUCKET_SIZE * HEIGHT \in Nat
      BY <1>0, Z3
    <3>2. r \in Nat
      BY <1>0, <1>10 DEF Slot
    <3>3. VectorIdx(k) = q + BUCKET_SIZE
      BY <1>9, <1>11
    <3> QED
      BY <1>0, <1>10, <2>1, <3>1, <3>2, <3>3
  <2>3. VectorIdx(k) \div BUCKET_SIZE = HEIGHT + 1 /\ VectorIdx(k) % BUCKET_SIZE = r
    <3>1. HEIGHT + 1 \in Nat /\ r \in 0 .. BUCKET_SIZE - 1
      BY <1>0, <1>10 DEF Slot
    <3> QED
      BY <1>0, <2>2, <3>1, DivModUnique
  <2> QED
    BY <1>2, <1>3, <1>5, <1>6, <1>11, <2>3 DEF b, r
<1>12. CASE ~ (k < BUCKET_SIZE)
  <2>1. VectorIdx(k) = q
    <3>1. q \in Int
      <4>1. pos_map[b].pathIdx \in Nat
        BY <1>1, <1>5, PosFacts DEF b
      <4> QED
        BY <4>1 DEF q
    <3> QED
      BY <1>9, <1>12, <3>1
  <2>2. q \div BUCKET_SIZE = l /\ q % BUCKET_SIZE = r
    BY <1>7, <1>10, MakePosition
  <2>3. l = k \div BUCKET_SIZE - 1
    BY <1>2, <1>3, <1>7, <1>12, LevelsApart
  <2> QED
    BY <1>2, <1>3, <1>5, <1>6, <1>12, <2>1, <2>2, <2>3 DEF b, r
<1> QED
  BY <1>11, <1>12

\* No block is found twice, and no two at the same entry of the vector.
LEMMA FoundOnce ==
    ASSUME Planning, NEW k \in 0 .. SIZE_PI - 1, NEW j \in 0 .. SIZE_PI - 1,
           Scanned(k) # 0, Scanned(j) # 0,
           Scanned(k) = Scanned(j) \/ VectorIdx(k) = VectorIdx(j)
    PROVE  k = j
<1>1. ScanNode(k) = ScanNode(j) /\ k % BUCKET_SIZE = j % BUCKET_SIZE
  <2>1. CASE Scanned(k) = Scanned(j)
    <3>1. /\ NodeOf(pos_map, Scanned(k)) = ScanNode(k)
          /\ SlotOf(pos_map, Scanned(k)) = k % BUCKET_SIZE
      BY FoundFacts
    <3>2. /\ NodeOf(pos_map, Scanned(j)) = ScanNode(j)
          /\ SlotOf(pos_map, Scanned(j)) = j % BUCKET_SIZE
      BY FoundFacts
    <3> QED
      BY <2>1, <3>1, <3>2
  <2>2. CASE VectorIdx(k) = VectorIdx(j)
    <3>1. /\ SourceNode(VectorIdx(k) \div BUCKET_SIZE) = ScanNode(k)
          /\ VectorIdx(k) % BUCKET_SIZE = k % BUCKET_SIZE
      BY FoundFacts
    <3>2. /\ SourceNode(VectorIdx(j) \div BUCKET_SIZE) = ScanNode(j)
          /\ VectorIdx(j) % BUCKET_SIZE = j % BUCKET_SIZE
      BY FoundFacts
    <3> QED
      BY <2>2, <3>1, <3>2
  <2> QED
    BY <2>1, <2>2
<1>2. k \div BUCKET_SIZE = j \div BUCKET_SIZE
  BY <1>1, ScanApart DEF Planning
<1>3. k = BUCKET_SIZE * (k \div BUCKET_SIZE) + (k % BUCKET_SIZE)
  BY ScanFacts DEF Planning
<1>4. j = BUCKET_SIZE * (j \div BUCKET_SIZE) + (j % BUCKET_SIZE)
  BY ScanFacts DEF Planning
<1> QED
  BY <1>1, <1>2, <1>3, <1>4

\* Every block of the buckets read is found.
LEMMA AllFound ==
    ASSUME Planning, NEW b \in Block, NodeOf(pos_map, b) \in ScanSet
    PROVE  \E k \in 0 .. SIZE_PI - 1 : Scanned(k) = b
<1>0. /\ HEIGHT \in Nat /\ BUCKET_SIZE \in Nat \ {0} /\ SIZE_PI = BUCKET_SIZE * (HEIGHT + 2)
      /\ SIZE_PI \in Nat
  BY Config, Z3 DEF SIZE_PI
<1>1. /\ numEvict \in 0 .. N_leaf - 1 /\ pos_map \in PosMaps
      /\ HoldsAt(pos_map, metaData, b) = b
  BY DEF Planning, Exact
<1>2. SlotOf(pos_map, b) \in Slot
  BY <1>1, PosFacts
<1>3. PICK q \in 0 .. HEIGHT + 1 :
        NodeOf(pos_map, b) = IF q = 0 THEN getSibling(PathNode(HEIGHT)) ELSE PathNode(q - 1)
  <2>1. CASE NodeOf(pos_map, b) = getSibling(PathNode(HEIGHT))
    BY <1>0, <2>1
  <2>2. ASSUME NEW l \in Level, NodeOf(pos_map, b) = PathNode(l)
        PROVE  \E q \in 0 .. HEIGHT + 1 : q # 0 /\ NodeOf(pos_map, b) = PathNode(q - 1)
    <3>1. l + 1 \in 0 .. HEIGHT + 1 /\ l + 1 # 0 /\ (l + 1) - 1 = l
      BY <1>0 DEF Level
    <3>2. NodeOf(pos_map, b) = PathNode((l + 1) - 1)
      BY <2>2, <3>1
    <3> QED
      BY <3>1, <3>2
  <2> QED
    BY <2>1, <2>2 DEF ScanSet
<1> DEFINE k == BUCKET_SIZE * q + SlotOf(pos_map, b)
<1>4. k \in 0 .. SIZE_PI - 1
  <2>1. /\ BUCKET_SIZE * q \in Nat /\ BUCKET_SIZE * q <= BUCKET_SIZE * (HEIGHT + 1)
        /\ BUCKET_SIZE * (HEIGHT + 1) \in Nat
        /\ BUCKET_SIZE * (HEIGHT + 2) = BUCKET_SIZE * (HEIGHT + 1) + BUCKET_SIZE
    BY <1>0, Z3
  <2> QED
    BY <1>0, <1>2, <2>1 DEF Slot
<1>5. k \div BUCKET_SIZE = q /\ k % BUCKET_SIZE = SlotOf(pos_map, b)
  <2>1. q \in Nat /\ SlotOf(pos_map, b) \in 0 .. BUCKET_SIZE - 1
    BY <1>0, <1>2 DEF Slot
  <2> QED
    BY <1>0, <2>1, DivModUnique
<1> HIDE DEF k
<1>6. ScanNode(k) = NodeOf(pos_map, b)
  BY <1>1, <1>3, <1>4, <1>5, ScanFacts
<1>7. Scanned(k) = b
  BY <1>1, <1>5, <1>6 DEF Scanned, HoldsAt
<1> QED
  BY <1>4, <1>7

-----------------------------------------------------------------------------
(***************************************************************************)
(* The rows of the shuffled vector.                                         *)
(***************************************************************************)

\* An entry of the list is the slot it was found in.
LEMMA ListedFacts ==
    ASSUME Planning, NEW e \in Listed
    PROVE  /\ e.at \in 0 .. SIZE_PI - 1 /\ Scanned(e.at) # 0
           /\ e.blockID = Scanned(e.at) /\ e.blockID \in Block
           /\ e.pathIdx = VectorIdx(e.at)
           /\ e.layer = MeetLevel(e.blockID) /\ e.layer \in Level
           /\ \A f \in Listed : e.at = f.at => e = f
<1>1. PICK k \in {j \in 0 .. SIZE_PI - 1 : Scanned(j) # 0} :
        e = [at |-> k, blockID |-> Scanned(k), pathIdx |-> VectorIdx(k),
             layer |-> MeetLevel(Scanned(k))]
  BY DEF Listed
<1>2. Scanned(k) \in Block
  BY <1>1, FoundFacts
<1>3. MeetLevel(Scanned(k)) \in Level
  BY <1>2, MeetFacts DEF Planning
<1>4. ASSUME NEW f \in Listed, e.at = f.at PROVE e = f
  <2>1. PICK i \in {j \in 0 .. SIZE_PI - 1 : Scanned(j) # 0} :
          f = [at |-> i, blockID |-> Scanned(i), pathIdx |-> VectorIdx(i),
               layer |-> MeetLevel(Scanned(i))]
    BY DEF Listed
  <2>2. i = k
    BY <1>1, <1>4, <2>1
  <2> QED
    BY <1>1, <2>1, <2>2
<1> QED
  BY <1>1, <1>2, <1>3, <1>4

\* The list is finite.
LEMMA ListedFinite ==
    ASSUME Planning
    PROVE  IsFiniteSet(Listed)
<1> DEFINE N == SIZE_PI - 1
           f == [e \in Listed |-> e.at]
<1>1. N \in Int
  BY Config, Z3 DEF SIZE_PI
<1>2. f \in Injection(Listed, 0 .. N)
  <2>1. \A e \in Listed : e.at \in 0 .. N
    BY ListedFacts
  <2>2. \A e, g \in Listed : e.at = g.at => e = g
    BY ListedFacts
  <2> QED
    BY <2>1, <2>2 DEF Injection, IsInjective
<1>3. IsFiniteSet(0 .. N)
  <2> HIDE DEF N
  <2> QED
    BY <1>1, FS_Interval
<1> HIDE DEF f, N
<1> QED
  BY <1>2, <1>3, FS_Injection

\* No two blocks of a layer are given the same slot.
LEMMA CounterFacts ==
    ASSUME Planning, NEW e \in Listed
    PROVE  /\ \A l : Counter(Listed, l, e) \in Nat
           /\ \A f \in Listed : /\ e.layer = f.layer
                                /\ Counter(Listed, e.layer, e) = Counter(Listed, f.layer, f)
                                => e = f
<1> DEFINE before(l, x) == {c \in Listed : c.at < x.at /\ c.layer = l}
<1>1. \A l, x : IsFiniteSet(before(l, x)) /\ Cardinality(before(l, x)) \in Nat
  <2> SUFFICES ASSUME NEW l, NEW x
               PROVE  IsFiniteSet(before(l, x)) /\ Cardinality(before(l, x)) \in Nat
    OBVIOUS
  <2>1. IsFiniteSet(before(l, x))
    BY ListedFinite, FS_Subset
  <2> QED
    BY <2>1, FS_CardinalityType
<1>2. ASSUME NEW x \in Listed, NEW y \in Listed, x.layer = y.layer, x.at < y.at
      PROVE  Cardinality(before(x.layer, x)) # Cardinality(before(y.layer, y))
  <2>0. x.at \in Int /\ y.at \in Int
    BY ListedFacts
  <2>1. before(x.layer, x) \subseteq before(y.layer, y)
    <3>1. \A c \in Listed : c.at \in Int
      BY ListedFacts
    <3> QED
      BY <1>2, <2>0, <3>1
  <2>2. x \in before(y.layer, y) /\ x \notin before(x.layer, x)
    BY <1>2, <2>0
  <2> DEFINE S == before(x.layer, x)
             T == before(y.layer, y)
  <2>3. IsFiniteSet(T) /\ S \in SUBSET T /\ S # T
    BY <1>1, <2>1, <2>2
  <2> HIDE DEF S, T
  <2>4. Cardinality(T) # Cardinality(S)
    BY <2>3, FS_Subset
  <2> QED
    BY <2>4 DEF S, T
<1>3. ASSUME NEW f \in Listed, e.layer = f.layer,
             Counter(Listed, e.layer, e) = Counter(Listed, f.layer, f)
      PROVE  e = f
  <2>1. e.at \in Int /\ f.at \in Int
    BY ListedFacts
  <2>2. Cardinality(before(e.layer, e)) = Cardinality(before(f.layer, f))
    BY <1>3 DEF Counter
  <2>3. ~ (e.at < f.at)
    BY <1>2, <1>3, <2>2
  <2>4. ~ (f.at < e.at)
    BY <1>2, <1>3, <2>2
  <2>5. e.at = f.at
    BY <2>1, <2>3, <2>4
  <2> QED
    BY <2>5, ListedFacts
<1> QED
  BY <1>1, <1>3 DEF Counter

\* The rows that are given a block.
sentRows == Sent(Listed)

\* A row names the layer and the slot of its block, and the entry it is
\* sent is the slot the block lies in.
LEMMA SentFacts ==
    ASSUME Planning, NEW x \in sentRows
    PROVE  /\ x.blockID \in Block
           /\ x.row \in Nat /\ x.row \div BUCKET_SIZE = MeetLevel(x.blockID)
           /\ x.row % BUCKET_SIZE \in Slot /\ MeetLevel(x.blockID) \in Level
           /\ x.row = BUCKET_SIZE * MeetLevel(x.blockID) + (x.row % BUCKET_SIZE)
           /\ SourceNode(x.pathIdx \div BUCKET_SIZE) = NodeOf(pos_map, x.blockID)
           /\ x.pathIdx % BUCKET_SIZE = SlotOf(pos_map, x.blockID)
           /\ NodeOf(pos_map, x.blockID) \in ScanSet
<1>0. BUCKET_SIZE \in Nat \ {0}
  BY Config
<1>1. PICK e \in Listed :
        /\ x = [row     |-> BUCKET_SIZE * e.layer + Counter(Listed, e.layer, e),
                blockID |-> e.blockID, pathIdx |-> e.pathIdx]
        /\ Counter(Listed, e.layer, e) < BUCKET_SIZE
  BY DEF sentRows, Sent
<1>2. /\ e.at \in 0 .. SIZE_PI - 1 /\ Scanned(e.at) # 0
      /\ e.blockID = Scanned(e.at) /\ e.blockID \in Block
      /\ e.pathIdx = VectorIdx(e.at)
      /\ e.layer = MeetLevel(e.blockID) /\ e.layer \in Level
  BY ListedFacts
<1> DEFINE c == Counter(Listed, e.layer, e)
<1>3. c \in Nat /\ c < BUCKET_SIZE
  BY <1>1, CounterFacts
<1> HIDE DEF c
<1>4. /\ x.blockID = e.blockID /\ x.pathIdx = e.pathIdx
      /\ x.row = BUCKET_SIZE * e.layer + c
  BY <1>1 DEF c
<1>5. x.row \div BUCKET_SIZE = e.layer /\ x.row % BUCKET_SIZE = c
  <2>1. e.layer \in Nat /\ c \in 0 .. BUCKET_SIZE - 1
    BY <1>0, <1>2, <1>3 DEF Level
  <2> QED
    BY <1>0, <1>4, <2>1, DivModUnique
<1>6. x.row \in Nat /\ c \in Slot
  <2>1. e.layer \in Nat /\ BUCKET_SIZE * e.layer \in Nat
    BY <1>0, <1>2, Z3 DEF Level
  <2> QED
    BY <1>0, <1>3, <1>4, <2>1 DEF Slot
<1>7. /\ NodeOf(pos_map, x.blockID) = ScanNode(e.at)
      /\ SlotOf(pos_map, x.blockID) = e.at % BUCKET_SIZE
      /\ SourceNode(x.pathIdx \div BUCKET_SIZE) = ScanNode(e.at)
      /\ x.pathIdx % BUCKET_SIZE = e.at % BUCKET_SIZE
  BY <1>2, <1>4, FoundFacts
<1>8. ScanNode(e.at) \in ScanSet
  BY <1>2, ScanFacts DEF Planning
<1> QED
  BY <1>2, <1>4, <1>5, <1>6, <1>7, <1>8

\* A row, a block and an entry of the vector belong to one another.
LEMMA SentOnce ==
    ASSUME Planning, NEW x \in sentRows, NEW y \in sentRows,
           \/ x.row = y.row
           \/ x.blockID = y.blockID
           \/ x.pathIdx = y.pathIdx
    PROVE  x = y
<1>0. BUCKET_SIZE \in Nat \ {0}
  BY Config
<1>1. PICK e \in Listed :
        /\ x = [row     |-> BUCKET_SIZE * e.layer + Counter(Listed, e.layer, e),
                blockID |-> e.blockID, pathIdx |-> e.pathIdx]
        /\ Counter(Listed, e.layer, e) < BUCKET_SIZE
  BY DEF sentRows, Sent
<1>2. PICK f \in Listed :
        /\ y = [row     |-> BUCKET_SIZE * f.layer + Counter(Listed, f.layer, f),
                blockID |-> f.blockID, pathIdx |-> f.pathIdx]
        /\ Counter(Listed, f.layer, f) < BUCKET_SIZE
  BY DEF sentRows, Sent
<1>3. /\ e.at \in 0 .. SIZE_PI - 1 /\ Scanned(e.at) # 0 /\ e.blockID = Scanned(e.at)
      /\ e.pathIdx = VectorIdx(e.at) /\ e.layer \in Level
      /\ \A g \in Listed : e.at = g.at => e = g
  BY ListedFacts
<1>4. /\ f.at \in 0 .. SIZE_PI - 1 /\ Scanned(f.at) # 0 /\ f.blockID = Scanned(f.at)
      /\ f.pathIdx = VectorIdx(f.at) /\ f.layer \in Level
  BY ListedFacts
<1>5. CASE x.row = y.row
  <2> DEFINE c == Counter(Listed, e.layer, e)
             d == Counter(Listed, f.layer, f)
  <2>1. /\ c \in 0 .. BUCKET_SIZE - 1 /\ d \in 0 .. BUCKET_SIZE - 1
        /\ e.layer \in Nat /\ f.layer \in Nat
    BY <1>0, <1>1, <1>2, <1>3, <1>4, CounterFacts DEF Level
  <2>2. x.row = BUCKET_SIZE * e.layer + c /\ y.row = BUCKET_SIZE * f.layer + d
    BY <1>1, <1>2
  <2> HIDE DEF c, d
  <2>3. x.row \div BUCKET_SIZE = e.layer /\ x.row % BUCKET_SIZE = c
    BY <1>0, <2>1, <2>2, DivModUnique
  <2>4. y.row \div BUCKET_SIZE = f.layer /\ y.row % BUCKET_SIZE = d
    BY <1>0, <2>1, <2>2, DivModUnique
  <2>5. e.layer = f.layer /\ c = d
    BY <1>5, <2>3, <2>4
  <2>6. e = f
    BY <2>5, CounterFacts DEF c, d
  <2> QED
    BY <1>1, <1>2, <2>6
<1>6. CASE x.blockID = y.blockID \/ x.pathIdx = y.pathIdx
  <2>1. Scanned(e.at) = Scanned(f.at) \/ VectorIdx(e.at) = VectorIdx(f.at)
    BY <1>1, <1>2, <1>3, <1>4, <1>6
  <2>2. e.at = f.at
    BY <1>3, <1>4, <2>1, FoundOnce
  <2>3. e = f
    BY <1>3, <2>2
  <2> QED
    BY <1>1, <1>2, <2>3
<1> QED
  BY <1>5, <1>6

\* The row of a block is the last one it is sent to.
LEMMA SentLast ==
    ASSUME Planning, NEW x \in sentRows
    PROVE  LastSent(sentRows, x.blockID) = x
<1>1. x.row \in Nat
  BY SentFacts
<1>2. \A f \in sentRows : f.blockID = x.blockID => f = x
  BY SentOnce
<1>3. \E e \in sentRows : /\ e.blockID = x.blockID
                          /\ \A f \in sentRows : f.blockID = x.blockID => f.row <= e.row
  BY <1>1, <1>2
<1> QED
  BY <1>2, <1>3 DEF LastSent

\* When no bucket overflows every block of the buckets read is sent.
Fits == \A l \in Level : ~ Overflows(Listed, l)

LEMMA SentAll ==
    ASSUME Planning, Fits
    PROVE  /\ Started(Listed) = Level
           /\ \A b \in Block : NodeOf(pos_map, b) \in ScanSet
                               => \E x \in sentRows : x.blockID = b
<1>1. Started(Listed) = Level
  BY DEF Fits, Started
<1>2. ASSUME NEW b \in Block, NodeOf(pos_map, b) \in ScanSet
      PROVE  \E x \in sentRows : x.blockID = b
  <2>1. PICK k \in 0 .. SIZE_PI - 1 : Scanned(k) = b
    BY <1>2, AllFound
  <2>2. Scanned(k) # 0
    BY <2>1, BlockNumbers
  <2>3. PICK e \in Listed : e.blockID = b
    <3> DEFINE found == [at |-> k, blockID |-> Scanned(k), pathIdx |-> VectorIdx(k),
                         layer |-> MeetLevel(Scanned(k))]
    <3>1. found \in Listed
      BY <2>2 DEF Listed
    <3>2. found.blockID = b
      BY <2>1
    <3> QED
      BY <3>1, <3>2
  <2>4. e.layer \in Level /\ e.layer <= e.layer
    <3>1. e.layer \in Level
      BY ListedFacts
    <3> QED
      BY <3>1 DEF Level
  <2>5. Counter(Listed, e.layer, e) < BUCKET_SIZE
    <3>1. ~ (Counter(Listed, e.layer, e) >= BUCKET_SIZE)
      BY <2>4 DEF Fits, Overflows
    <3> QED
      BY <3>1, CounterFacts, Config
  <2> DEFINE x == [row     |-> BUCKET_SIZE * e.layer + Counter(Listed, e.layer, e),
                   blockID |-> e.blockID, pathIdx |-> e.pathIdx]
  <2>6. x \in sentRows
    BY <1>1, <2>4, <2>5 DEF sentRows, Sent
  <2> QED
    BY <2>3, <2>6
<1> QED
  BY <1>1, <1>2

-----------------------------------------------------------------------------
(***************************************************************************)
(* Where an eviction leaves the blocks.                                     *)
(***************************************************************************)
newMap == ShuffledPosMap(sentRows)

\* A block that is sent goes to its row's slot of the bucket of its layer,
\* which is on its path; every other block stays.
LEMMA NewPositions ==
    ASSUME Planning
    PROVE  /\ newMap \in PosMaps
           /\ \A b \in Block : newMap[b].pathID = pos_map[b].pathID
           /\ \A x \in sentRows :
                 /\ NodeOf(newMap, x.blockID) = TargetNode(MeetLevel(x.blockID))
                 /\ SlotOf(newMap, x.blockID) = x.row % BUCKET_SIZE
                 /\ LevelOf(newMap, x.blockID) = IF MeetLevel(x.blockID) = HEIGHT THEN HEIGHT
                                                 ELSE MeetLevel(x.blockID) + 1
           /\ \A b \in Block : (\A x \in sentRows : x.blockID # b) =>
                 /\ newMap[b] = pos_map[b]
                 /\ NodeOf(newMap, b) = NodeOf(pos_map, b)
                 /\ SlotOf(newMap, b) = SlotOf(pos_map, b)
                 /\ LevelOf(newMap, b) = LevelOf(pos_map, b)
<1>0. /\ numEvict \in 0 .. N_leaf - 1 /\ pos_map \in PosMaps
      /\ BUCKET_SIZE \in Nat \ {0} /\ HEIGHT \in Nat
  BY Config DEF Planning
<1>1. ASSUME NEW x \in sentRows
      PROVE  /\ newMap[x.blockID] = [pos_map[x.blockID] EXCEPT !.pathIdx = RowPathIdx(x.row)]
             /\ RowPathIdx(x.row) \in PathIdx
             /\ RowPathIdx(x.row) \div BUCKET_SIZE =
                   IF MeetLevel(x.blockID) = HEIGHT THEN HEIGHT ELSE MeetLevel(x.blockID) + 1
             /\ RowPathIdx(x.row) % BUCKET_SIZE = x.row % BUCKET_SIZE
  <2>1. LastSent(sentRows, x.blockID) = x
    BY SentLast
  <2>2. PICK m \in Level, s \in Slot :
          /\ x.blockID \in Block /\ m = MeetLevel(x.blockID) /\ s = x.row % BUCKET_SIZE
          /\ x.row \div BUCKET_SIZE = m /\ x.row = BUCKET_SIZE * m + s
    BY SentFacts
  <2>3. newMap[x.blockID] = [pos_map[x.blockID] EXCEPT !.pathIdx = RowPathIdx(x.row)]
    BY <2>1, <2>2 DEF newMap, ShuffledPosMap
  <2>4. CASE m = HEIGHT
    <3>1. RowPathIdx(x.row) = x.row
      BY <2>2, <2>4 DEF RowPathIdx
    <3>2. x.row \in PathIdx /\ x.row \div BUCKET_SIZE = m /\ x.row % BUCKET_SIZE = s
      BY <2>2, MakePosition
    <3> QED
      BY <2>2, <2>3, <2>4, <3>1, <3>2
  <2>5. CASE m # HEIGHT
    <3> DEFINE k == x.row + BUCKET_SIZE
               i == m + 1
    <3>1. RowPathIdx(x.row) = k
      BY <2>2, <2>5 DEF RowPathIdx
    <3>2. m \in Nat /\ s \in Nat /\ i \in Level
      BY <1>0, <2>5 DEF Level, Slot
    <3>3. k = BUCKET_SIZE * i + s
      <4>1. BUCKET_SIZE * (m + 1) = BUCKET_SIZE * m + BUCKET_SIZE /\ BUCKET_SIZE * m \in Nat
        BY <1>0, <3>2, Z3
      <4> QED
        BY <1>0, <2>2, <3>2, <4>1
    <3> HIDE DEF k, i
    <3>4. k \in PathIdx /\ k \div BUCKET_SIZE = i /\ k % BUCKET_SIZE = s
      BY <3>2, <3>3, MakePosition
    <3> QED
      BY <2>2, <2>3, <2>5, <3>1, <3>4 DEF i
  <2> QED
    BY <2>4, <2>5
<1>2. ASSUME NEW b \in Block, \A x \in sentRows : x.blockID # b
      PROVE  newMap[b] = pos_map[b]
  BY <1>2 DEF newMap, ShuffledPosMap
<1>3. ASSUME NEW b \in Block
      PROVE  newMap[b] \in [pathID : Leaf, pathIdx : PathIdx] /\ newMap[b].pathID = pos_map[b].pathID
  <2>1. pos_map[b] \in [pathID : Leaf, pathIdx : PathIdx]
    BY <1>0 DEF PosMaps
  <2>2. ASSUME NEW x \in sentRows, x.blockID = b
        PROVE  newMap[b] \in [pathID : Leaf, pathIdx : PathIdx]
               /\ newMap[b].pathID = pos_map[b].pathID
    BY <1>1, <2>1, <2>2
  <2> QED
    BY <1>2, <2>1, <2>2
<1>4. newMap \in PosMaps
  <2>1. newMap = [b \in Block |-> newMap[b]]
    BY DEF newMap, ShuffledPosMap
  <2> HIDE DEF newMap
  <2> QED
    BY <1>3, <2>1 DEF PosMaps
<1>5. ASSUME NEW x \in sentRows
      PROVE  /\ NodeOf(newMap, x.blockID) = TargetNode(MeetLevel(x.blockID))
             /\ SlotOf(newMap, x.blockID) = x.row % BUCKET_SIZE
             /\ LevelOf(newMap, x.blockID) = IF MeetLevel(x.blockID) = HEIGHT THEN HEIGHT
                                             ELSE MeetLevel(x.blockID) + 1
  <2>0. x.blockID \in Block
    BY SentFacts
  <2>1. pos_map[x.blockID] \in [pathID : Leaf, pathIdx : PathIdx]
    BY <1>0, <2>0 DEF PosMaps
  <2>2. /\ newMap[x.blockID].pathID = pos_map[x.blockID].pathID
        /\ newMap[x.blockID].pathIdx = RowPathIdx(x.row)
    BY <1>1, <2>1
  <2>3. /\ SlotOf(newMap, x.blockID) = x.row % BUCKET_SIZE
        /\ LevelOf(newMap, x.blockID) = IF MeetLevel(x.blockID) = HEIGHT THEN HEIGHT
                                        ELSE MeetLevel(x.blockID) + 1
        /\ NodeOf(newMap, x.blockID) = FullPath[pos_map[x.blockID].pathID][
                                          IF MeetLevel(x.blockID) = HEIGHT THEN HEIGHT
                                          ELSE MeetLevel(x.blockID) + 1]
    BY <1>1, <2>2 DEF SlotOf, LevelOf, NodeOf
  <2>4. /\ MeetLevel(x.blockID) = HEIGHT =>
              FullPath[pos_map[x.blockID].pathID][HEIGHT] = TargetNode(HEIGHT)
        /\ MeetLevel(x.blockID) # HEIGHT =>
              FullPath[pos_map[x.blockID].pathID][MeetLevel(x.blockID) + 1] =
                 TargetNode(MeetLevel(x.blockID))
    BY <1>0, <2>0, MeetFacts
  <2> QED
    BY <2>3, <2>4
<1> QED
  BY <1>2, <1>3, <1>4, <1>5 DEF NodeOf, SlotOf, LevelOf

\* The buckets an eviction clears.
clearedNodes == {PathNode(l) : l \in Level}
                   \cup {getSibling(PathNode(l + 1)) : l \in Level \ {HEIGHT}}

\* The siblings of the evicted path above the leaf hold no block.
LEMMA SiblingsVacant ==
    ASSUME numEvict \in 0 .. N_leaf - 1, Vacant(pos_map, numEvict),
           NEW l \in 1 .. HEIGHT - 1, NEW b \in Block
    PROVE  NodeOf(pos_map, b) # getSibling(PathNode(l))
<1>1. l \in 1 .. HEIGHT /\ N_leaf \in Nat /\ N_leaf >= 2
  BY Config, Leaves
<1>2. 0 \in 0 .. pow2[l - 1] - 1
  BY <1>1, LevelWidth
<1>3. (numEvict + 0) % N_leaf = numEvict
  <2>1. 0 \in 0 .. N_leaf - 1
    BY <1>1
  <2>2. (numEvict + 0) % N_leaf = IF numEvict + 0 < N_leaf THEN numEvict + 0
                                  ELSE numEvict + 0 - N_leaf
    BY <2>1, CountOn
  <2> QED
    BY <1>1, <2>2
<1>4. NodeOf(pos_map, b) # getSibling(P(EvictLeaf[(numEvict + 0) % N_leaf], l))
  BY <1>2 DEF Vacant
<1> QED
  BY <1>3, <1>4 DEF PathNode, EvictPath

\* All blocks of the buckets that are cleared are sent, and every bucket that
\* takes blocks is cleared.
LEMMA ClearedFacts ==
    ASSUME Planning, Fits, Vacant(pos_map, numEvict)
    PROVE  /\ \A b \in Block : NodeOf(pos_map, b) \in clearedNodes
                               => \E x \in sentRows : x.blockID = b
           /\ ScanSet \subseteq clearedNodes /\ 0 \in ScanSet
           /\ \A l \in Level : TargetNode(l) \in clearedNodes
           /\ Rewritten = {TargetNode(l) : l \in Level} \cup {0}
<1>0. HEIGHT \in Nat /\ HEIGHT >= 1 /\ HEIGHT \in Level /\ 0 \in Level
      /\ numEvict \in 0 .. N_leaf - 1
  BY Config, Leaves DEF Planning
<1>1. /\ PathNode(0) = 0
      /\ \A l \in Level \ {HEIGHT} : TargetNode(l) = getSibling(PathNode(l + 1))
      /\ TargetNode(HEIGHT) = PathNode(HEIGHT)
      /\ TargetNode(HEIGHT + 1) = PathNode(0)
  BY <1>0, PathFacts
<1>2. ScanSet \subseteq clearedNodes
  <2>1. HEIGHT - 1 \in Level \ {HEIGHT} /\ (HEIGHT - 1) + 1 = HEIGHT
    BY <1>0 DEF Level
  <2>2. getSibling(PathNode((HEIGHT - 1) + 1)) \in clearedNodes
    BY <2>1 DEF clearedNodes
  <2> QED
    BY <2>1, <2>2 DEF ScanSet, clearedNodes
<1>3. ASSUME NEW b \in Block, NodeOf(pos_map, b) \in clearedNodes
      PROVE  NodeOf(pos_map, b) \in ScanSet
  <2>1. CASE \E l \in Level : NodeOf(pos_map, b) = PathNode(l)
    BY <2>1 DEF ScanSet
  <2>2. ASSUME NEW l \in Level \ {HEIGHT}, NodeOf(pos_map, b) = getSibling(PathNode(l + 1))
        PROVE  NodeOf(pos_map, b) \in ScanSet
    <3>1. CASE l + 1 = HEIGHT
      BY <2>2, <3>1 DEF ScanSet
    <3>2. CASE l + 1 # HEIGHT
      <4>1. l + 1 \in 1 .. HEIGHT - 1
        BY <1>0, <3>2 DEF Level
      <4> QED
        BY <1>0, <2>2, <4>1, SiblingsVacant
    <3> QED
      BY <3>1, <3>2
  <2> QED
    BY <1>3, <2>1, <2>2 DEF clearedNodes
<1>4. \A l \in Level : TargetNode(l) \in clearedNodes
  BY <1>0, <1>1 DEF clearedNodes
<1>5. 0 \in ScanSet
  BY <1>0, <1>1 DEF ScanSet
<1>6. Rewritten = {TargetNode(l) : l \in Level} \cup {0}
  <2>1. 0 .. HEIGHT + 1 = Level \cup {HEIGHT + 1}
    BY <1>0 DEF Level
  <2> QED
    BY <1>1, <2>1 DEF Rewritten
<1> QED
  BY <1>2, <1>3, <1>4, <1>5, <1>6, SentAll

\* An eviction empties the root.
LEMMA RootEmptied ==
    ASSUME Planning, Fits, Vacant(pos_map, numEvict)
    PROVE  RootFree(newMap, 0)
<1> SUFFICES ASSUME NEW b \in Block PROVE LevelOf(newMap, b) # 0
  BY DEF RootFree, LevelOf
<1>0. HEIGHT \in Nat /\ HEIGHT >= 1 /\ numEvict \in 0 .. N_leaf - 1 /\ pos_map \in PosMaps
  BY Config DEF Planning
<1>1. ASSUME NEW x \in sentRows, x.blockID = b PROVE LevelOf(newMap, b) # 0
  <2>1. MeetLevel(b) \in Level
    BY <1>1, SentFacts
  <2>2. LevelOf(newMap, b) = IF MeetLevel(b) = HEIGHT THEN HEIGHT ELSE MeetLevel(b) + 1
    BY <1>1, NewPositions
  <2> QED
    BY <1>0, <2>1, <2>2 DEF Level
<1>2. CASE \A x \in sentRows : x.blockID # b
  <2> SUFFICES ASSUME LevelOf(newMap, b) = 0 PROVE FALSE
    OBVIOUS
  <2>1. LevelOf(pos_map, b) = 0
    BY <1>2, NewPositions
  <2>2. NodeOf(pos_map, b) = FullPath[pos_map[b].pathID][0] /\ pos_map[b].pathID \in Leaf
    BY <1>0, <2>1, PosFacts
  <2>3. NodeOf(pos_map, b) = 0
    BY <2>2, FullPathFacts
  <2> QED
    BY <1>2, <2>3, ClearedFacts
<1> QED
  BY <1>1, <1>2

\* The buckets the evictions to come overwrite without reading them hold no
\* block: those of the last but one round of the level are the evicted path,
\* and nothing was sent to the others.
LEMMA VacantKept ==
    ASSUME Planning, Fits, Vacant(pos_map, numEvict)
    PROVE  Vacant(newMap, NextEvict)
<1> SUFFICES ASSUME NEW l \in 1 .. HEIGHT - 1, NEW j \in 0 .. pow2[l - 1] - 1, NEW b \in Block,
                    NodeOf(newMap, b) = getSibling(P(EvictLeaf[(NextEvict + j) % N_leaf], l))
             PROVE  FALSE
  BY DEF Vacant
<1>0. /\ HEIGHT \in Nat /\ HEIGHT >= 1 /\ N_leaf \in Nat /\ N_leaf >= 2 /\ HEIGHT \in Level
      /\ numEvict \in 0 .. N_leaf - 1 /\ l \in 1 .. HEIGHT /\ l \in Level /\ l - 1 \in Level
      /\ l # HEIGHT
      /\ pow2[l - 1] \in Nat /\ pow2[l - 1] >= 1 /\ pow2[l - 1] <= N_leaf - 1
  BY Config, Leaves, LevelWidth DEF Planning, Level
<1> DEFINE i == j + 1
           m == (numEvict + i) % N_leaf
           y == getEvictLeafID(m)
<1>1. i \in 1 .. pow2[l - 1] /\ i \in 0 .. N_leaf - 1 /\ j \in 0 .. N_leaf - 1
  BY <1>0
<1>2. m \in 0 .. N_leaf - 1 /\ (NextEvict + j) % N_leaf = m
  <2>1. 1 \in 0 .. N_leaf - 1
    BY <1>0
  <2>2. NextEvict \in 0 .. N_leaf - 1
        /\ NextEvict = IF numEvict + 1 < N_leaf THEN numEvict + 1 ELSE numEvict + 1 - N_leaf
    BY <1>0, <2>1, CountOn DEF NextEvict
  <2>3. m \in 0 .. N_leaf - 1
        /\ m = IF numEvict + i < N_leaf THEN numEvict + i ELSE numEvict + i - N_leaf
    BY <1>0, <1>1, CountOn
  <2>4. (NextEvict + j) % N_leaf = IF NextEvict + j < N_leaf THEN NextEvict + j
                                   ELSE NextEvict + j - N_leaf
    BY <1>0, <1>1, <2>2, CountOn
  <2> HIDE DEF m
  <2> QED
    BY <1>0, <1>1, <2>2, <2>3, <2>4
<1>3. y \in Leaf /\ EvictLeaf[(NextEvict + j) % N_leaf] = y
  BY <1>0, <1>2, EvictedPath DEF EvictLeaf
<1>4. EvictPath \in Leaf /\ EvictPath = getEvictLeafID(numEvict)
      /\ \A k \in Level : PathNode(k) = FullPath[EvictPath][k]
  BY <1>0, PathFacts DEF EvictPath, EvictLeaf
<1>5. NodeOf(newMap, b) = getSibling(FullPath[y][l])
  <2>1. P(y, l) = FullPath[y][l]
    BY <1>0, <1>3, PathAt
  <2> QED
    BY <1>3, <2>1
<1>6. CASE i = pow2[l - 1]
  <2>1. FullPath[y][l] = getSibling(FullPath[EvictPath][l])
    BY <1>0, <1>4, <1>6, EvictionsAlternate
  <2>2. NodeOf(newMap, b) = FullPath[EvictPath][l]
    BY <1>0, <1>4, <1>5, <2>1, SiblingFacts
  <2>3. NodeOf(newMap, b) \in ScanSet
    BY <1>0, <1>4, <2>2 DEF ScanSet
  <2>4. ASSUME NEW x \in sentRows, x.blockID = b PROVE FALSE
    <3>1. PICK k \in Level : NodeOf(newMap, b) = TargetNode(k)
      BY <2>4, NewPositions, SentFacts
    <3>2. CASE k = HEIGHT
      <4>1. FullPath[EvictPath][HEIGHT] = FullPath[EvictPath][l]
        BY <1>0, <1>4, <2>2, <3>1, <3>2, PathFacts
      <4> QED
        BY <1>0, <1>4, <4>1, LevelsApart
    <3>3. CASE k # HEIGHT
      <4> DEFINE n == k + 1
      <4>1. n \in 1 .. HEIGHT /\ n \in Level
        BY <1>0, <3>3 DEF Level
      <4>2. TargetNode(k) = getSibling(FullPath[EvictPath][n])
        BY <1>0, <1>4, <3>3, <4>1, PathFacts
      <4> HIDE DEF n
      <4>3. /\ pow2[n] - 1 <= FullPath[EvictPath][l] /\ FullPath[EvictPath][l] <= 2 * pow2[n] - 2
            /\ FullPath[EvictPath][l] # FullPath[EvictPath][n]
        BY <1>4, <2>2, <3>1, <4>1, <4>2, SiblingFacts
      <4>4. l = n
        BY <1>0, <1>4, <4>1, <4>3, LevelOfNode
      <4> QED
        BY <4>3, <4>4
    <3> QED
      BY <3>2, <3>3
  <2>5. CASE \A x \in sentRows : x.blockID # b
    <3>1. NodeOf(pos_map, b) \in ScanSet
      BY <2>3, <2>5, NewPositions
    <3> QED
      BY <2>5, <3>1, SentAll
  <2> QED
    BY <2>4, <2>5
<1>7. CASE i # pow2[l - 1]
  <2>1. i \in 1 .. pow2[l - 1] - 1 /\ i \in 0 .. pow2[l - 1] - 1
    BY <1>0, <1>1, <1>7
  <2>2. FullPath[y][l - 1] # FullPath[EvictPath][l - 1]
    BY <1>0, <1>4, <2>1, EvictionsApart
  <2>3. ASSUME NEW x \in sentRows, x.blockID = b PROVE FALSE
    <3>1. PICK k \in Level : NodeOf(newMap, b) = TargetNode(k)
      BY <2>3, NewPositions, SentFacts
    <3>2. /\ pow2[l] - 1 <= TargetNode(k) /\ TargetNode(k) <= 2 * pow2[l] - 2
          /\ getSibling(TargetNode(k)) = FullPath[y][l]
      <4>1. PICK z \in Leaf : z = y
        BY <1>3
      <4>2. TargetNode(k) = getSibling(FullPath[z][l])
        BY <1>5, <3>1, <4>1
      <4>3. /\ pow2[l] - 1 <= getSibling(FullPath[z][l])
            /\ getSibling(FullPath[z][l]) <= 2 * pow2[l] - 2
            /\ getSibling(getSibling(FullPath[z][l])) = FullPath[z][l]
        BY <1>0, SiblingFacts
      <4> QED
        BY <4>1, <4>2, <4>3
    <3>3. CASE k = HEIGHT
      <4>1. TargetNode(k) = FullPath[EvictPath][HEIGHT]
        BY <1>0, <1>4, <3>3, PathFacts
      <4> QED
        BY <1>0, <1>4, <3>2, <4>1, LevelOfNode
    <3>4. CASE k # HEIGHT
      <4> DEFINE n == k + 1
      <4>1. n \in 1 .. HEIGHT /\ n \in Level
        BY <1>0, <3>4 DEF Level
      <4>2. TargetNode(k) = getSibling(FullPath[EvictPath][n])
        BY <1>0, <1>4, <3>4, <4>1, PathFacts
      <4> HIDE DEF n
      <4>3. FullPath[EvictPath][n] = FullPath[y][l]
        BY <1>4, <3>2, <4>1, <4>2, SiblingFacts
      <4>4. n = l
        BY <1>0, <1>3, <1>4, <4>1, <4>3, LevelsApart
      <4>5. FullPath[EvictPath][l] = FullPath[y][l]
        BY <4>3, <4>4
      <4>6. FullPath[EvictPath][l - 1] = FullPath[y][l - 1]
        <5>1. l - 1 \in 0 .. l
          BY <1>0
        <5> QED
          BY <1>0, <1>3, <1>4, <4>5, <5>1, PathsShare
      <4> QED
        BY <2>2, <4>6
    <3> QED
      BY <3>3, <3>4
  <2>4. CASE \A x \in sentRows : x.blockID # b
    <3>1. NodeOf(pos_map, b) = getSibling(FullPath[y][l])
      BY <1>5, <2>4, NewPositions
    <3>2. NodeOf(pos_map, b) # getSibling(P(EvictLeaf[(numEvict + i) % N_leaf], l))
      BY <2>1 DEF Vacant
    <3>3. EvictLeaf[(numEvict + i) % N_leaf] = y
      BY <1>2 DEF EvictLeaf
    <3>4. P(y, l) = FullPath[y][l]
      BY <1>0, <1>3, PathAt
    <3> QED
      BY <3>1, <3>2, <3>3, <3>4
  <2> QED
    BY <2>3, <2>4
<1> QED
  BY <1>6, <1>7

\* A row claims a slot of a bucket alone.
LEMMA RowsApart ==
    ASSUME Planning, NEW x \in sentRows, NEW y \in sentRows,
           TargetNode(x.row \div BUCKET_SIZE) = TargetNode(y.row \div BUCKET_SIZE),
           x.row % BUCKET_SIZE = y.row % BUCKET_SIZE
    PROVE  x = y
<1>1. PICK m \in Level :
        /\ x.row \div BUCKET_SIZE = m
        /\ x.row = BUCKET_SIZE * m + (x.row % BUCKET_SIZE)
  BY SentFacts
<1>2. PICK n \in Level :
        /\ y.row \div BUCKET_SIZE = n
        /\ y.row = BUCKET_SIZE * n + (y.row % BUCKET_SIZE)
  BY SentFacts
<1>3. m = n
  BY <1>1, <1>2, TargetsApart DEF Planning
<1>4. x.row = y.row
  BY <1>1, <1>2, <1>3
<1> QED
  BY <1>4, SentOnce

newMetaData == ShuffledMetaData(sentRows, Level)

\* Afterwards metaData says what the new position map says.
LEMMA NewMetaData ==
    ASSUME Planning, Fits, Vacant(pos_map, numEvict)
    PROVE  Exact(newMap, newMetaData)
<1> DEFINE into(n, s) == {e \in sentRows : /\ TargetNode(e.row \div BUCKET_SIZE) = n
                                           /\ e.row % BUCKET_SIZE = s}
           content(n, s) == IF into(n, s) # {} THEN (CHOOSE e \in into(n, s) : TRUE).blockID
                            ELSE IF n \in clearedNodes THEN 0 ELSE metaData[n][s]
<1>0. /\ pos_map \in PosMaps /\ Exact(pos_map, metaData) /\ newMap \in PosMaps
  BY NewPositions DEF Planning
<1>1. newMetaData = [n \in Node |-> [s \in Slot |-> content(n, s)]]
  BY DEF newMetaData, ShuffledMetaData, clearedNodes
<1>2. ASSUME NEW n \in Node, NEW s \in Slot, NEW x \in into(n, s)
      PROVE  /\ content(n, s) = x.blockID /\ x.blockID \in Block
             /\ NodeOf(newMap, x.blockID) = n /\ SlotOf(newMap, x.blockID) = s
  <2>1. \A e \in into(n, s) : e = x
    BY RowsApart
  <2>2. (CHOOSE e \in into(n, s) : TRUE) = x
    BY <2>1
  <2>3. /\ x.blockID \in Block /\ x.row \div BUCKET_SIZE = MeetLevel(x.blockID)
    BY SentFacts
  <2>4. /\ NodeOf(newMap, x.blockID) = TargetNode(MeetLevel(x.blockID))
        /\ SlotOf(newMap, x.blockID) = x.row % BUCKET_SIZE
    BY NewPositions
  <2> QED
    BY <2>2, <2>3, <2>4
<1>3. ASSUME NEW n \in Node, NEW s \in Slot, into(n, s) = {}, content(n, s) # 0
      PROVE  /\ n \notin clearedNodes /\ content(n, s) = metaData[n][s]
             /\ content(n, s) \in Block
             /\ NodeOf(newMap, content(n, s)) = n /\ SlotOf(newMap, content(n, s)) = s
  <2>1. n \notin clearedNodes /\ content(n, s) = metaData[n][s]
    BY <1>3
  <2>2. metaData[n][s] \in Block
    BY <1>0, <1>3, <2>1, BlockNumbers DEF Exact, Contents
  <2>3. /\ NodeOf(pos_map, metaData[n][s]) = n /\ SlotOf(pos_map, metaData[n][s]) = s
    BY <1>0, <1>3, <2>1 DEF Exact, Sound
  <2>4. \A x \in sentRows : x.blockID # metaData[n][s]
    BY <2>1, <2>3, ClearedFacts, SentFacts
  <2>5. /\ NodeOf(newMap, metaData[n][s]) = n /\ SlotOf(newMap, metaData[n][s]) = s
    BY <2>2, <2>3, <2>4, NewPositions
  <2> HIDE DEF content
  <2> QED
    BY <2>1, <2>2, <2>5
<1>4. ASSUME NEW b \in Block, \A x \in sentRows : x.blockID # b
      PROVE  content(NodeOf(newMap, b), SlotOf(newMap, b)) = b
  <2>1. NodeOf(newMap, b) = NodeOf(pos_map, b) /\ SlotOf(newMap, b) = SlotOf(pos_map, b)
    BY <1>4, NewPositions
  <2>2. NodeOf(pos_map, b) \notin clearedNodes
    BY <1>4, ClearedFacts
  <2>3. into(NodeOf(pos_map, b), SlotOf(pos_map, b)) = {}
    BY <2>2, ClearedFacts, SentFacts
  <2>4. metaData[NodeOf(pos_map, b)][SlotOf(pos_map, b)] = b
    BY <1>0 DEF Exact, HoldsAt
  <2> QED
    BY <2>1, <2>2, <2>3, <2>4
<1>5. \A b \in Block : NodeOf(newMap, b) \in Node /\ SlotOf(newMap, b) \in Slot
  BY <1>0, PosFacts
<1>6. ASSUME NEW x \in sentRows
      PROVE  content(NodeOf(newMap, x.blockID), SlotOf(newMap, x.blockID)) = x.blockID
  <2>1. x \in into(NodeOf(newMap, x.blockID), SlotOf(newMap, x.blockID))
    BY NewPositions, SentFacts
  <2>2. x.blockID \in Block
    BY SentFacts
  <2> HIDE DEF content, into
  <2> QED
    BY <1>2, <1>5, <2>1, <2>2
<1> HIDE DEF content, into
<1>7. newMetaData \in Contents
  <2>1. \A n \in Node, s \in Slot : content(n, s) \in 0 .. NUM_BLOCK
    <3> SUFFICES ASSUME NEW n \in Node, NEW s \in Slot PROVE content(n, s) \in 0 .. NUM_BLOCK
      OBVIOUS
    <3>1. CASE into(n, s) # {}
      <4>1. PICK x : x \in into(n, s)
        BY <3>1
      <4> QED
        BY <1>2, <4>1, BlockNumbers
    <3>2. CASE into(n, s) = {} /\ content(n, s) # 0
      BY <1>3, <3>2, BlockNumbers
    <3> QED
      BY <3>1, <3>2, BlockNumbers
  <2> QED
    BY <1>1, <2>1 DEF Contents
<1>8. Sound(newMap, newMetaData)
  <2> SUFFICES ASSUME NEW n \in Node, NEW s \in Slot, content(n, s) # 0
               PROVE  NodeOf(newMap, content(n, s)) = n /\ SlotOf(newMap, content(n, s)) = s
    BY <1>1 DEF Sound
  <2>1. CASE into(n, s) = {}
    BY <1>3, <2>1
  <2>2. CASE into(n, s) # {}
    <3>1. PICK x : x \in into(n, s)
      BY <2>2
    <3> QED
      BY <1>2, <3>1
  <2> QED
    BY <2>1, <2>2
<1>9. \A b \in Block : HoldsAt(newMap, newMetaData, b) = b
  <2> SUFFICES ASSUME NEW b \in Block
               PROVE  content(NodeOf(newMap, b), SlotOf(newMap, b)) = b
    BY <1>1, <1>5 DEF HoldsAt
  <2> QED
    BY <1>4, <1>6
<1> QED
  BY <1>7, <1>8, <1>9 DEF Exact

newTree == ShuffledTree(sentRows)

\* What the servers make of the tree agrees: nothing is readable where its
\* block is not, and every block that was readable still is.
LEMMA NewTree ==
    ASSUME Planning, Fits, Vacant(pos_map, numEvict),
           tree \in Contents, Sound(pos_map, tree)
    PROVE  /\ newTree \in Contents /\ Sound(newMap, newTree)
           /\ \A b \in Block : HoldsAt(pos_map, tree, b) = b
                               => HoldsAt(newMap, newTree, b) = b
<1> DEFINE vector(k) == tree[SourceNode(k \div BUCKET_SIZE)][k % BUCKET_SIZE]
           arrived == {e \in sentRows : /\ vector(e.pathIdx) = e.blockID
                                        /\ e = LastSent(sentRows, e.blockID)
                                        /\ \A f \in sentRows : f.pathIdx = e.pathIdx => f = e}
           into(n, s) == {e \in arrived : /\ TargetNode(e.row \div BUCKET_SIZE) = n
                                          /\ e.row % BUCKET_SIZE = s}
           stale == Retire(tree, {e.blockID : e \in sentRows})
           content(n, s) == IF n \notin Rewritten THEN stale[n][s]
                            ELSE IF into(n, s) = {} THEN 0
                            ELSE (CHOOSE e \in into(n, s) : TRUE).blockID
<1>0. /\ pos_map \in PosMaps /\ Exact(pos_map, metaData) /\ newMap \in PosMaps
  BY NewPositions DEF Planning
<1>1. newTree = [n \in Node |-> [s \in Slot |-> content(n, s)]]
  BY DEF newTree, ShuffledTree
<1>2. \A e \in sentRows : e \in arrived <=> HoldsAt(pos_map, tree, e.blockID) = e.blockID
  <2> SUFFICES ASSUME NEW e \in sentRows
               PROVE  e \in arrived <=> HoldsAt(pos_map, tree, e.blockID) = e.blockID
    OBVIOUS
  <2>1. e = LastSent(sentRows, e.blockID) /\ \A f \in sentRows : f.pathIdx = e.pathIdx => f = e
    BY SentLast, SentOnce
  <2>2. vector(e.pathIdx) = HoldsAt(pos_map, tree, e.blockID)
    BY SentFacts DEF HoldsAt
  <2> QED
    BY <2>1, <2>2
<1>3. \A n \in Node, s \in Slot :
        stale[n][s] = IF tree[n][s] \in {e.blockID : e \in sentRows} THEN 0 ELSE tree[n][s]
  BY DEF Retire
<1> HIDE DEF arrived, stale
<1>4. ASSUME NEW n \in Node, NEW s \in Slot, NEW x \in into(n, s)
      PROVE  /\ content(n, s) = x.blockID /\ x.blockID \in Block
             /\ NodeOf(newMap, x.blockID) = n /\ SlotOf(newMap, x.blockID) = s
  <2>0. arrived \subseteq sentRows
    BY DEF arrived
  <2>1. \A e \in into(n, s) : e = x
    BY <2>0, RowsApart
  <2>2. (CHOOSE e \in into(n, s) : TRUE) = x
    BY <2>1
  <2>3. /\ x.blockID \in Block /\ x.row \div BUCKET_SIZE = MeetLevel(x.blockID)
        /\ MeetLevel(x.blockID) \in Level
    BY <2>0, SentFacts
  <2>4. /\ NodeOf(newMap, x.blockID) = TargetNode(MeetLevel(x.blockID))
        /\ SlotOf(newMap, x.blockID) = x.row % BUCKET_SIZE
    BY <2>0, NewPositions
  <2>5. n \in Rewritten
    BY <2>3, ClearedFacts
  <2> QED
    BY <2>2, <2>3, <2>4, <2>5
<1>5. ASSUME NEW n \in Node, NEW s \in Slot, n \notin Rewritten, content(n, s) # 0
      PROVE  /\ content(n, s) = tree[n][s] /\ tree[n][s] \in Block
             /\ NodeOf(newMap, tree[n][s]) = n /\ SlotOf(newMap, tree[n][s]) = s
  <2>1. content(n, s) = tree[n][s] /\ tree[n][s] \notin {e.blockID : e \in sentRows}
    BY <1>3, <1>5
  <2>2. tree[n][s] \in Block
    BY <1>5, <2>1, BlockNumbers DEF Contents
  <2>3. NodeOf(pos_map, tree[n][s]) = n /\ SlotOf(pos_map, tree[n][s]) = s
    BY <1>5, <2>1 DEF Sound
  <2>4. \A x \in sentRows : x.blockID # tree[n][s]
    BY <2>1
  <2>5. NodeOf(newMap, tree[n][s]) = n /\ SlotOf(newMap, tree[n][s]) = s
    BY <2>2, <2>3, <2>4, NewPositions
  <2> QED
    BY <2>1, <2>2, <2>5
<1>6. ASSUME NEW n \in Node, NEW s \in Slot, n \in Rewritten, into(n, s) = {}
      PROVE  content(n, s) = 0
  BY <1>6
<1>7. ASSUME NEW b \in Block, HoldsAt(pos_map, tree, b) = b
      PROVE  content(NodeOf(newMap, b), SlotOf(newMap, b)) = b
  <2>0. NodeOf(newMap, b) \in Node /\ SlotOf(newMap, b) \in Slot
        /\ NodeOf(pos_map, b) \in Node /\ SlotOf(pos_map, b) \in Slot
    BY <1>0, PosFacts
  <2>1. ASSUME NEW x \in sentRows, x.blockID = b
        PROVE  content(NodeOf(newMap, b), SlotOf(newMap, b)) = b
    <3>1. x \in arrived
      BY <1>2, <1>7, <2>1
    <3>2. x \in into(NodeOf(newMap, b), SlotOf(newMap, b))
      BY <2>1, <3>1, NewPositions, SentFacts
    <3> HIDE DEF content, into
    <3> QED
      BY <1>4, <2>0, <2>1, <3>2
  <2>2. CASE \A x \in sentRows : x.blockID # b
    <3>1. NodeOf(newMap, b) = NodeOf(pos_map, b) /\ SlotOf(newMap, b) = SlotOf(pos_map, b)
      BY <2>2, NewPositions
    <3>2. NodeOf(pos_map, b) \notin Rewritten
      BY <2>2, ClearedFacts
    <3>3. tree[NodeOf(pos_map, b)][SlotOf(pos_map, b)] = b
      BY <1>7 DEF HoldsAt
    <3> QED
      BY <1>3, <2>0, <2>2, <3>1, <3>2, <3>3
  <2> QED
    BY <2>1, <2>2
<1> HIDE DEF content, into
<1>8. newTree \in Contents
  <2>1. \A n \in Node, s \in Slot : content(n, s) \in 0 .. NUM_BLOCK
    <3> SUFFICES ASSUME NEW n \in Node, NEW s \in Slot, content(n, s) # 0
                 PROVE  content(n, s) \in 0 .. NUM_BLOCK
      BY BlockNumbers
    <3>1. CASE n \notin Rewritten
      BY <1>5, <3>1, BlockNumbers
    <3>2. CASE n \in Rewritten
      <4>1. PICK x : x \in into(n, s)
        BY <1>6, <3>2
      <4> QED
        BY <1>4, <4>1, BlockNumbers
    <3> QED
      BY <3>1, <3>2
  <2> QED
    BY <1>1, <2>1 DEF Contents
<1>9. Sound(newMap, newTree)
  <2> SUFFICES ASSUME NEW n \in Node, NEW s \in Slot, content(n, s) # 0
               PROVE  NodeOf(newMap, content(n, s)) = n /\ SlotOf(newMap, content(n, s)) = s
    BY <1>1 DEF Sound
  <2>1. CASE n \notin Rewritten
    BY <1>5, <2>1
  <2>2. CASE n \in Rewritten
    <3>1. PICK x : x \in into(n, s)
      BY <1>6, <2>2
    <3> QED
      BY <1>4, <3>1
  <2> QED
    BY <2>1, <2>2
<1>10. ASSUME NEW b \in Block, HoldsAt(pos_map, tree, b) = b
       PROVE  HoldsAt(newMap, newTree, b) = b
  <2>1. NodeOf(newMap, b) \in Node /\ SlotOf(newMap, b) \in Slot
    BY <1>0, PosFacts
  <2> QED
    BY <1>1, <1>7, <1>10, <2>1 DEF HoldsAt
<1> QED
  BY <1>8, <1>9, <1>10

-----------------------------------------------------------------------------
(***************************************************************************)
(* Uploads.                                                                 *)
(***************************************************************************)

\* The root slots from k on hold no block.
LEMMA RootSlotFree ==
    ASSUME NEW map \in PosMaps, NEW k \in Slot, RootFree(map, k),
           NEW s \in Slot, k <= s, NEW c \in Block
    PROVE  ~ (NodeOf(map, c) = 0 /\ SlotOf(map, c) = s) /\ map[c].pathIdx # s
<1>0. /\ k \in Int /\ s \in Int
      /\ map[c].pathID \in Leaf /\ map[c].pathIdx \in PathIdx /\ map[c].pathIdx \in Nat
  BY Config, PosFacts DEF Slot
<1>1. s \div BUCKET_SIZE = 0
  BY RootPosition
<1>2. map[c].pathIdx # s
  BY <1>0, <1>1 DEF RootFree
<1>3. NodeOf(map, c) = 0 => map[c].pathIdx = SlotOf(map, c)
  BY <1>0, PositionFacts
<1> QED
  BY <1>2, <1>3

\* What a slot holds after one slot was written.
LEMMA WriteFacts ==
    ASSUME NEW C \in Contents, NEW n \in Node, NEW s \in Slot, NEW v \in 0 .. NUM_BLOCK
    PROVE  /\ Write(C, n, s, v) \in Contents
           /\ \A m \in Node, t \in Slot :
                 Write(C, n, s, v)[m][t] = IF m = n /\ t = s THEN v ELSE C[m][t]
  BY DEF Contents, Write

\* What a slot holds after blocks were retired.
LEMMA RetireFacts ==
    ASSUME NEW C \in Contents, NEW S
    PROVE  /\ Retire(C, S) \in Contents
           /\ \A m \in Node, t \in Slot :
                 Retire(C, S)[m][t] = IF C[m][t] \in S THEN 0 ELSE C[m][t]
<1>1. 0 \in 0 .. NUM_BLOCK
  BY BlockNumbers
<1> QED
  BY <1>1 DEF Contents, Retire

\* The position and the contents after an upload.
Moved(map, b, leaf, k) == [map EXCEPT ![b] = [pathID |-> leaf, pathIdx |-> k]]
Uploaded(C, b, k) == Write(Retire(C, {b}), 0, k, b)

\* A block that is taken from where it lies and put in a free slot of the root
\* is found there; every other block is found where it was.
LEMMA Upload ==
    ASSUME NEW map \in PosMaps, NEW C \in Contents, Sound(map, C),
           NEW b \in Block, NEW leaf \in Leaf, NEW k \in Slot, RootFree(map, k)
    PROVE  LET new == Moved(map, b, leaf, k)
               D == Uploaded(C, b, k)
           IN  /\ new \in PosMaps /\ D \in Contents /\ Sound(new, D)
               /\ NodeOf(new, b) = 0 /\ SlotOf(new, b) = k /\ new[b].pathIdx = k
               /\ HoldsAt(new, D, b) = b
               /\ \A c \in Block \ {b} :
                     /\ new[c] = map[c]
                     /\ NodeOf(new, c) = NodeOf(map, c) /\ SlotOf(new, c) = SlotOf(map, c)
                     /\ HoldsAt(map, C, c) = c => HoldsAt(new, D, c) = c
<1>0. PICK new, D : /\ new = Moved(map, b, leaf, k) /\ D = Uploaded(C, b, k)
                    /\ new = [map EXCEPT ![b] = [pathID |-> leaf, pathIdx |-> k]]
                    /\ D = Write(Retire(C, {b}), 0, k, b)
  BY DEF Moved, Uploaded
<1>1. k \in PathIdx /\ k \div BUCKET_SIZE = 0 /\ k % BUCKET_SIZE = k
  BY RootPosition
<1>2. new \in PosMaps
  BY <1>0, <1>1 DEF PosMaps
<1>3. new[b].pathID = leaf /\ new[b].pathIdx = k
  BY <1>0 DEF PosMaps
<1>4. NodeOf(new, b) = 0 /\ SlotOf(new, b) = k
  BY <1>1, <1>3, FullPathFacts DEF NodeOf, SlotOf
<1>5. ASSUME NEW c \in Block \ {b}
      PROVE  /\ new[c] = map[c]
             /\ NodeOf(new, c) = NodeOf(map, c) /\ SlotOf(new, c) = SlotOf(map, c)
  BY <1>0 DEF PosMaps, NodeOf, SlotOf
<1>6. /\ D \in Contents
      /\ \A m \in Node, t \in Slot :
            D[m][t] = IF m = 0 /\ t = k THEN b ELSE IF C[m][t] = b THEN 0 ELSE C[m][t]
  <2>1. PICK E \in Contents :
          /\ E = Retire(C, {b})
          /\ \A m \in Node, t \in Slot : E[m][t] = IF C[m][t] = b THEN 0 ELSE C[m][t]
    BY RetireFacts
  <2>2. 0 \in Node /\ b \in 0 .. NUM_BLOCK
    BY BlockNumbers, Leaves
  <2>3. D = Write(E, 0, k, b)
    BY <1>0, <2>1
  <2>4. /\ Write(E, 0, k, b) \in Contents
        /\ \A m \in Node, t \in Slot :
              Write(E, 0, k, b)[m][t] = IF m = 0 /\ t = k THEN b ELSE E[m][t]
    BY <2>2, WriteFacts
  <2> QED
    BY <2>1, <2>3, <2>4
<1>7. Sound(new, D)
  <2> SUFFICES ASSUME NEW m \in Node, NEW t \in Slot, D[m][t] # 0
               PROVE  NodeOf(new, D[m][t]) = m /\ SlotOf(new, D[m][t]) = t
    BY DEF Sound
  <2>1. CASE m = 0 /\ t = k
    BY <1>4, <1>6, <2>1
  <2>2. CASE ~ (m = 0 /\ t = k)
    <3>1. D[m][t] = C[m][t] /\ C[m][t] # b /\ C[m][t] # 0
      BY <1>6, <2>2
    <3>2. C[m][t] \in Block
      BY <3>1, BlockNumbers DEF Contents
    <3>3. NodeOf(map, C[m][t]) = m /\ SlotOf(map, C[m][t]) = t
      BY <3>1 DEF Sound
    <3> QED
      BY <1>5, <3>1, <3>2, <3>3
  <2> QED
    BY <2>1, <2>2
<1>8. HoldsAt(new, D, b) = b
  BY <1>4, <1>6, Leaves DEF HoldsAt
<1>9. ASSUME NEW c \in Block \ {b}, HoldsAt(map, C, c) = c PROVE HoldsAt(new, D, c) = c
  <2>1. NodeOf(map, c) \in Node /\ SlotOf(map, c) \in Slot
    BY PosFacts
  <2>2. ~ (NodeOf(map, c) = 0 /\ SlotOf(map, c) = k)
    <3>1. k <= k
      BY Config DEF Slot
    <3> QED
      BY <3>1, RootSlotFree
  <2>3. D[NodeOf(map, c)][SlotOf(map, c)] = c
    BY <1>6, <1>9, <2>1, <2>2 DEF HoldsAt
  <2> QED
    BY <1>5, <2>3 DEF HoldsAt
<1> QED
  BY <1>0, <1>2, <1>3, <1>4, <1>5, <1>6, <1>7, <1>8, <1>9

\* Taking the entry of a block out of metaData leaves it nowhere.
LEMMA WithoutRetires ==
    ASSUME pos_map \in PosMaps, Exact(pos_map, metaData), NEW b \in Block
    PROVE  Without(b) = Retire(metaData, {b})
<1>0. /\ metaData \in Contents /\ Sound(pos_map, metaData)
      /\ metaData[NodeOf(pos_map, b)][SlotOf(pos_map, b)] = b
  BY DEF Exact, HoldsAt
<1>1. NodeOf(pos_map, b) \in Node /\ SlotOf(pos_map, b) \in Slot /\ 0 \in 0 .. NUM_BLOCK /\ b # 0
  BY PosFacts, BlockNumbers
<1>2. /\ Without(b) \in Contents
      /\ \A m \in Node, t \in Slot :
            Without(b)[m][t] = IF m = NodeOf(pos_map, b) /\ t = SlotOf(pos_map, b) THEN 0
                               ELSE metaData[m][t]
  BY <1>0, <1>1, WriteFacts DEF Without
<1>3. /\ Retire(metaData, {b}) \in Contents
      /\ \A m \in Node, t \in Slot :
            Retire(metaData, {b})[m][t] = IF metaData[m][t] = b THEN 0 ELSE metaData[m][t]
  BY <1>0, RetireFacts
<1>4. \A m \in Node, t \in Slot : Without(b)[m][t] = Retire(metaData, {b})[m][t]
  BY <1>0, <1>1, <1>2, <1>3 DEF Sound
<1> DEFINE C == Without(b)
           D == Retire(metaData, {b})
<1>5. C \in [Node -> [Slot -> 0 .. NUM_BLOCK]] /\ D \in [Node -> [Slot -> 0 .. NUM_BLOCK]]
  BY <1>2, <1>3 DEF Contents
<1>6. \A m \in Node, t \in Slot : C[m][t] = D[m][t]
  BY <1>4
<1> HIDE DEF C, D
<1>7. \A m \in Node : C[m] = D[m]
  <2> SUFFICES ASSUME NEW m \in Node PROVE C[m] = D[m]
    OBVIOUS
  <2>1. C[m] \in [Slot -> 0 .. NUM_BLOCK] /\ D[m] \in [Slot -> 0 .. NUM_BLOCK]
    BY <1>5
  <2> QED
    BY <1>6, <2>1
<1>8. C = D
  BY <1>5, <1>7
<1> QED
  BY <1>8 DEF C, D

\* A block in the root is in no sibling.
LEMMA UploadVacant ==
    ASSUME NEW map, NEW new, NEW n \in 0 .. N_leaf - 1, NEW b \in Block,
           Vacant(map, n), NodeOf(new, b) = 0,
           \A c \in Block \ {b} : NodeOf(new, c) = NodeOf(map, c)
    PROVE  Vacant(new, n)
<1> SUFFICES ASSUME NEW l \in 1 .. HEIGHT - 1, NEW j \in 0 .. pow2[l - 1] - 1
             PROVE  getSibling(P(EvictLeaf[(n + j) % N_leaf], l)) # 0
  BY DEF Vacant
<1>0. /\ N_leaf \in Nat /\ N_leaf >= 2 /\ l \in 1 .. HEIGHT /\ l \in Level
      /\ pow2[l - 1] \in Nat /\ pow2[l - 1] >= 1 /\ pow2[l - 1] <= N_leaf - 1
      /\ pow2[l] = 2 * pow2[l - 1]
  BY Config, Leaves, LevelWidth
<1>1. (n + j) % N_leaf \in 0 .. N_leaf - 1
  <2>1. j \in 0 .. N_leaf - 1
    BY <1>0
  <2> QED
    BY <2>1, CountOn
<1>2. PICK x \in Leaf : x = EvictLeaf[(n + j) % N_leaf]
  BY <1>0, <1>1, EvictedPath DEF EvictLeaf
<1>3. P(x, l) = FullPath[x][l]
  BY <1>0, PathAt
<1>4. pow2[l] - 1 <= getSibling(FullPath[x][l]) /\ getSibling(FullPath[x][l]) \in Node
  BY <1>0, SiblingFacts
<1> QED
  BY <1>0, <1>2, <1>3, <1>4

-----------------------------------------------------------------------------
(***************************************************************************)
(* The steps.                                                               *)
(***************************************************************************)

\* What the invariant says of a client that may plan an eviction.
LEMMA BookMeans ==
    ASSUME BookInv, pc # "undefined"
    PROVE  /\ Planning /\ Exact(pos_map, metaData) /\ Placed(pos_map)
           /\ tree \in Contents /\ Sound(pos_map, tree) /\ Vacant(pos_map, numEvict)
           /\ numEvict \in 0 .. N_leaf - 1 /\ numRead \in 0 .. EVICT_RATE - 1
           /\ pos_map \in PosMaps /\ saved.pos_map \in PosMaps
<1>1. /\ pos_map \in PosMaps /\ Placed(pos_map)
      /\ metaData = LoadedMetaData(pos_map, NoBlocks)
  BY DEF BookInv, TypeOK, MemoryInv
<1>2. Exact(pos_map, metaData)
  BY <1>1, ExactMeans
<1> QED
  BY <1>1, <1>2 DEF BookInv, TypeOK, MemoryInv, Planning

\* Memory that reads as 0 adds nothing to what load() rebuilds.
LEMMA NoGarbage ==
    ASSUME Garbage = {0}
    PROVE  GarbageMaps = {NoBlocks}
<1>1. ASSUME NEW n \in Node, NEW s \in Slot PROVE [NoBlocks EXCEPT ![n][s] = 0] = NoBlocks
  <2>1. NoBlocks[n] = [t \in Slot |-> 0]
    BY DEF NoBlocks
  <2>2. [NoBlocks[n] EXCEPT ![s] = 0] = NoBlocks[n]
    BY <2>1
  <2> QED
    BY <2>2 DEF NoBlocks
<1>2. 0 \in Node /\ 0 \in Slot
  BY Leaves, Config DEF Slot
<1>3. \A g \in GarbageMaps : g = NoBlocks
  BY <1>1 DEF GarbageMaps
<1>4. NoBlocks \in GarbageMaps
  <2>1. NoBlocks = [NoBlocks EXCEPT ![0][0] = 0]
    BY <1>1, <1>2
  <2>2. \E n \in Node, s \in Slot, v \in Garbage : NoBlocks = [NoBlocks EXCEPT ![n][s] = v]
    BY <1>2, <2>1
  <2> QED
    BY <2>2 DEF GarbageMaps
<1> QED
  BY <1>3, <1>4

\* The slot of the next upload.
LEMMA NextReadFacts ==
    ASSUME numRead \in 0 .. EVICT_RATE - 1
    PROVE  /\ NextRead \in 0 .. EVICT_RATE - 1
           /\ NextRead # 0 => NextRead = numRead + 1
           /\ numRead \in Slot
<1>0. EVICT_RATE \in Nat \ {0} /\ BUCKET_SIZE \in Nat /\ EVICT_RATE <= BUCKET_SIZE
  BY Config
<1>1. CASE numRead + 1 = EVICT_RATE
  <2>1. numRead + 1 = EVICT_RATE * 1 + 0 /\ 0 \in 0 .. EVICT_RATE - 1 /\ 1 \in Nat
    BY <1>0, <1>1
  <2>2. NextRead = 0
    BY <1>0, <2>1, DivModUnique DEF NextRead
  <2> QED
    BY <1>0, <2>2 DEF Slot
<1>2. CASE numRead + 1 # EVICT_RATE
  <2>1. numRead + 1 = EVICT_RATE * 0 + (numRead + 1) /\ numRead + 1 \in 0 .. EVICT_RATE - 1
        /\ 0 \in Nat
    BY <1>0, <1>2
  <2>2. NextRead = numRead + 1
    BY <1>0, <2>1, DivModUnique DEF NextRead
  <2> QED
    BY <1>0, <2>1, <2>2 DEF Slot
<1> QED
  BY <1>1, <1>2

\* An access.
LEMMA AccessStep ==
    ASSUME BookInv, NEW b \in Block, NEW newLeaf \in Leaf, Access(b, newLeaf)
    PROVE  /\ BookInv'
           /\ \A c \in Block : HoldsAt(pos_map, tree, c) = c => HoldsAt(pos_map', tree', c) = c
<1>1. /\ pc = "menu" /\ HoldsAt(pos_map, tree, b) = b
      /\ metaData' = Write(Without(b), 0, numRead, b)
      /\ pos_map' = [pos_map EXCEPT ![b] = [pathID |-> newLeaf, pathIdx |-> numRead]]
      /\ tree' = Write(Retire(tree, {b}), 0, numRead, b)
      /\ savedTree' = Write(savedTree, 0, numRead, 0)
      /\ numRead' = NextRead
      /\ pc' = (IF numRead' = 0 THEN "evict" ELSE "save")
      /\ numEvict' = numEvict /\ saved' = saved /\ cut' = cut
  BY DEF Access
<1>2. /\ Exact(pos_map, metaData) /\ metaData \in Contents /\ Sound(pos_map, metaData)
      /\ tree \in Contents /\ Sound(pos_map, tree) /\ Vacant(pos_map, numEvict)
      /\ numEvict \in 0 .. N_leaf - 1 /\ numRead \in 0 .. EVICT_RATE - 1
      /\ pos_map \in PosMaps
  BY <1>1, BookMeans DEF Exact
<1>3. RootFree(pos_map, numRead) /\ Recoverable
  BY <1>1 DEF BookInv, MemoryInv, Running
<1>4. /\ saved.pos_map = pos_map /\ savedTree = tree
      /\ Sound(saved.pos_map, savedTree) /\ FileRecoverable
      /\ Placed(saved.pos_map) /\ Vacant(saved.pos_map, saved.numEvict)
      /\ RootFree(saved.pos_map, saved.numRead)
  BY <1>1 DEF BookInv, FileInv, LocalData
<1>5. numRead \in Slot /\ numRead' \in 0 .. EVICT_RATE - 1
      /\ (numRead' # 0 => numRead' = numRead + 1)
  BY <1>1, <1>2, NextReadFacts
<1>6. /\ pos_map' \in PosMaps /\ tree' \in Contents /\ Sound(pos_map', tree')
      /\ NodeOf(pos_map', b) = 0 /\ pos_map'[b].pathIdx = numRead
      /\ HoldsAt(pos_map', tree', b) = b
      /\ \A c \in Block \ {b} :
            /\ pos_map'[c] = pos_map[c]
            /\ NodeOf(pos_map', c) = NodeOf(pos_map, c)
            /\ HoldsAt(pos_map, tree, c) = c => HoldsAt(pos_map', tree', c) = c
  <2>1. pos_map' = Moved(pos_map, b, newLeaf, numRead) /\ tree' = Uploaded(tree, b, numRead)
    BY <1>1 DEF Moved, Uploaded
  <2> QED
    BY <1>2, <1>3, <1>5, <2>1, Upload
<1>7. Exact(pos_map', metaData')
  <2>1. metaData' = Write(Retire(metaData, {b}), 0, numRead, b)
    BY <1>1, <1>2, WithoutRetires
  <2>2. /\ metaData' \in Contents /\ Sound(pos_map', metaData')
        /\ HoldsAt(pos_map', metaData', b) = b
        /\ \A c \in Block \ {b} :
              HoldsAt(pos_map, metaData, c) = c => HoldsAt(pos_map', metaData', c) = c
    <3>1. /\ pos_map' = Moved(pos_map, b, newLeaf, numRead)
          /\ metaData' = Uploaded(metaData, b, numRead)
      BY <1>1, <2>1 DEF Moved, Uploaded
    <3> QED
      BY <1>2, <1>3, <1>5, <3>1, Upload
  <2> QED
    BY <1>2, <2>2 DEF Exact
<1>8. Placed(pos_map') /\ metaData' = LoadedMetaData(pos_map', NoBlocks) /\ metaData' \in Contents
  BY <1>6, <1>7, ExactMeans DEF Exact
<1>9. Vacant(pos_map', numEvict)
  BY <1>2, <1>6, UploadVacant
<1>10. numRead' # 0 => RootFree(pos_map', numRead')
  <2> SUFFICES ASSUME numRead' # 0, NEW c \in Block, pos_map'[c].pathIdx \div BUCKET_SIZE = 0
               PROVE  pos_map'[c].pathIdx < numRead'
    BY DEF RootFree
  <2>1. numRead \in Int /\ numRead' = numRead + 1
    BY <1>2, <1>5
  <2>2. CASE c = b
    BY <1>6, <2>1, <2>2
  <2>3. CASE c # b
    <3>1. pos_map[c].pathIdx < numRead /\ pos_map'[c].pathIdx = pos_map[c].pathIdx
      BY <1>3, <1>6, <2>3 DEF RootFree
    <3>2. pos_map[c].pathIdx \in Nat
      BY <1>2, PosFacts
    <3> QED
      BY <2>1, <3>1, <3>2
  <2> QED
    BY <2>2, <2>3
<1>11. /\ savedTree' \in Contents /\ Sound(saved.pos_map, savedTree')
       /\ \A c \in Block : HoldsAt(saved.pos_map, savedTree, c) = c
                           => HoldsAt(saved.pos_map, savedTree', c) = c
  <2>1. 0 \in Node /\ 0 \in 0 .. NUM_BLOCK
    BY Leaves, BlockNumbers
  <2>2. /\ savedTree' \in Contents
        /\ \A m \in Node, t \in Slot :
              savedTree'[m][t] = IF m = 0 /\ t = numRead THEN 0 ELSE savedTree[m][t]
    BY <1>1, <1>2, <1>4, <1>5, <2>1, WriteFacts
  <2>3. Sound(saved.pos_map, savedTree')
    BY <1>4, <2>2 DEF Sound
  <2>4. ASSUME NEW c \in Block, HoldsAt(saved.pos_map, savedTree, c) = c
        PROVE  HoldsAt(saved.pos_map, savedTree', c) = c
    <3>1. NodeOf(saved.pos_map, c) \in Node /\ SlotOf(saved.pos_map, c) \in Slot
      BY <1>2, <1>4, PosFacts
    <3>2. ~ (NodeOf(saved.pos_map, c) = 0 /\ SlotOf(saved.pos_map, c) = numRead)
      <4>1. numRead <= numRead
        BY <1>2
      <4> QED
        BY <1>2, <1>3, <1>4, <1>5, <4>1, RootSlotFree
    <3> QED
      BY <2>2, <2>4, <3>1, <3>2 DEF HoldsAt
  <2> QED
    BY <2>2, <2>3, <2>4
<1>12. \A c \in Block : HoldsAt(pos_map, tree, c) = c => HoldsAt(pos_map', tree', c) = c
  BY <1>6
<1>13. TypeOK'
  BY <1>1, <1>5, <1>6, <1>8, <1>11 DEF BookInv, TypeOK, PC
<1>14. MemoryInv'
  <2>1. Recoverable'
    BY <1>1, <1>3, <1>12 DEF Recoverable, Running
  <2>2. pc' = "evict" \/ pc' = "save"
    BY <1>1
  <2>3. pc' # "evict" => numRead' # 0
    BY <1>1
  <2>4. pc' = "evict" => numRead' = 0
    BY <1>1
  <2> QED
    BY <1>1, <1>6, <1>8, <1>9, <1>10, <2>1, <2>2, <2>3, <2>4 DEF MemoryInv, Running
<1>15. FileInv'
  <2>1. FileRecoverable'
    BY <1>1, <1>4, <1>11 DEF FileRecoverable
  <2>2. pc' # "menu"
    BY <1>1
  <2> QED
    BY <1>1, <1>4, <1>11, <2>1, <2>2 DEF FileInv
<1> QED
  BY <1>12, <1>13, <1>14, <1>15 DEF BookInv

\* An eviction.
LEMMA EvictStep ==
    ASSUME BookInv, Evict
    PROVE  /\ BookInv'
           /\ \A c \in Block : HoldsAt(pos_map, tree, c) = c => HoldsAt(pos_map', tree', c) = c
           /\ Planning /\ Fits /\ Vacant(pos_map, numEvict) /\ pos_map' = newMap
<1>1. /\ pc = "evict" /\ Fits
      /\ pos_map' = newMap /\ metaData' = newMetaData /\ tree' = newTree
      /\ savedTree' = [n \in Node |-> [s \in Slot |->
                          IF n \in Rewritten THEN 0 ELSE savedTree[n][s]]]
      /\ numEvict' = NextEvict
      /\ pc' = "save"
      /\ numRead' = numRead /\ saved' = saved /\ cut' = cut
  <2>1. Started(Listed) = Started(Listed)
    OBVIOUS
  <2> QED
    BY DEF Evict, Fits, newMap, newMetaData, newTree, sentRows
<1>2. /\ Planning /\ tree \in Contents /\ Sound(pos_map, tree) /\ Vacant(pos_map, numEvict)
      /\ numEvict \in 0 .. N_leaf - 1
  BY <1>1, BookMeans
<1>3. numRead = 0 /\ Recoverable
  BY <1>1 DEF BookInv, MemoryInv
<1>4. /\ Sound(saved.pos_map, savedTree) /\ savedTree \in Contents
      /\ Placed(saved.pos_map) /\ Vacant(saved.pos_map, saved.numEvict)
      /\ RootFree(saved.pos_map, saved.numRead)
  BY DEF BookInv, FileInv, TypeOK
<1>5. Exact(newMap, newMetaData) /\ newMap \in PosMaps
  BY <1>1, <1>2, NewMetaData, NewPositions
<1>6. /\ newTree \in Contents /\ Sound(newMap, newTree)
      /\ \A c \in Block : HoldsAt(pos_map, tree, c) = c => HoldsAt(newMap, newTree, c) = c
  BY <1>1, <1>2, NewTree
<1>7. Vacant(newMap, NextEvict) /\ RootFree(newMap, 0)
  BY <1>1, <1>2, VacantKept, RootEmptied
<1>8. Placed(newMap) /\ newMetaData = LoadedMetaData(newMap, NoBlocks) /\ newMetaData \in Contents
  BY <1>5, ExactMeans DEF Exact
<1>9. NextEvict \in 0 .. N_leaf - 1
  <2>1. 1 \in 0 .. N_leaf - 1
    BY Leaves
  <2> QED
    BY <1>2, <2>1, CountOn DEF NextEvict
<1>10. savedTree' \in Contents /\ Sound(saved.pos_map, savedTree')
  <2>1. \A n \in Node, s \in Slot : savedTree[n][s] \in 0 .. NUM_BLOCK
    BY <1>4 DEF Contents
  <2>2. savedTree' \in Contents
    BY <1>1, <2>1, BlockNumbers DEF Contents
  <2>3. \A n \in Node, s \in Slot : savedTree'[n][s] # 0 => savedTree'[n][s] = savedTree[n][s]
    BY <1>1
  <2> QED
    BY <1>4, <2>2, <2>3 DEF Sound
<1>11. TypeOK'
  BY <1>1, <1>5, <1>6, <1>8, <1>9, <1>10 DEF BookInv, TypeOK, PC
<1>12. MemoryInv'
  <2>1. Recoverable'
    BY <1>1, <1>3, <1>6 DEF Recoverable, Running
  <2> QED
    BY <1>1, <1>3, <1>6, <1>7, <1>8, <2>1 DEF MemoryInv, Running
<1>13. FileInv'
  <2>1. FileRecoverable'
    BY <1>1, <1>3 DEF BookInv, FileInv, FileRecoverable
  <2> QED
    BY <1>1, <1>4, <1>10, <2>1 DEF FileInv
<1> QED
  BY <1>1, <1>2, <1>6, <1>11, <1>12, <1>13 DEF BookInv

\* An eviction that generateShuffle gives up on.
LEMMA EvictOverflowStep ==
    ASSUME BookInv, EvictOverflow
    PROVE  BookInv'
<1>1. /\ pc = "evict"
      /\ pos_map' = newMap /\ metaData' = ShuffledMetaData(sentRows, Started(Listed))
      /\ pc' = "undefined"
      /\ numRead' = numRead /\ numEvict' = numEvict /\ tree' = tree /\ saved' = saved
      /\ savedTree' = savedTree /\ cut' = cut
  BY DEF EvictOverflow, newMap, sentRows
<1>2. Planning
  BY <1>1, BookMeans
<1>3. newMap \in PosMaps
  BY <1>2, NewPositions
<1>4. ShuffledMetaData(sentRows, Started(Listed)) \in Contents
  <2> DEFINE cleared == {PathNode(l) : l \in Started(Listed)}
                           \cup {getSibling(PathNode(l + 1)) : l \in Started(Listed) \ {HEIGHT}}
             into(n, s) == {e \in sentRows : /\ TargetNode(e.row \div BUCKET_SIZE) = n
                                             /\ e.row % BUCKET_SIZE = s}
             content(n, s) == IF into(n, s) # {} THEN (CHOOSE e \in into(n, s) : TRUE).blockID
                              ELSE IF n \in cleared THEN 0 ELSE metaData[n][s]
  <2>1. ShuffledMetaData(sentRows, Started(Listed)) =
            [n \in Node |-> [s \in Slot |-> content(n, s)]]
    BY DEF ShuffledMetaData
  <2>2. \A n \in Node, s \in Slot : content(n, s) \in 0 .. NUM_BLOCK
    <3> SUFFICES ASSUME NEW n \in Node, NEW s \in Slot PROVE content(n, s) \in 0 .. NUM_BLOCK
      OBVIOUS
    <3>1. CASE into(n, s) # {}
      <4>1. (CHOOSE e \in into(n, s) : TRUE) \in sentRows
        BY <3>1
      <4>2. (CHOOSE e \in into(n, s) : TRUE).blockID \in Block
        BY <1>2, <4>1, SentFacts
      <4> QED
        BY <3>1, <4>2, BlockNumbers
    <3>2. CASE into(n, s) = {}
      <4>1. metaData[n][s] \in 0 .. NUM_BLOCK
        BY <1>2 DEF Planning, Exact, Contents
      <4> QED
        BY <3>2, <4>1, BlockNumbers
    <3> QED
      BY <3>1, <3>2
  <2> HIDE DEF content
  <2> QED
    BY <2>1, <2>2 DEF Contents
<1>5. TypeOK'
  BY <1>1, <1>3, <1>4 DEF BookInv, TypeOK, PC
<1>6. MemoryInv'
  BY <1>1 DEF MemoryInv, Recoverable, Running
<1>7. FileInv'
  BY <1>1 DEF BookInv, FileInv, FileRecoverable
<1> QED
  BY <1>5, <1>6, <1>7 DEF BookInv

\* The file is opened.
LEMMA OpenFileStep ==
    ASSUME BookInv, OpenFile
    PROVE  BookInv' /\ pos_map' = pos_map /\ tree' = tree
<1>1. /\ pc = "save" /\ saved' = [saved EXCEPT !.complete = FALSE] /\ pc' = "write"
      /\ pos_map' = pos_map /\ metaData' = metaData /\ numRead' = numRead
      /\ numEvict' = numEvict /\ tree' = tree /\ savedTree' = savedTree /\ cut' = cut
  BY DEF OpenFile, memory
<1>2. saved \in [pos_map : PosMaps, numEvict : 0 .. N_leaf - 1,
                numRead : 0 .. EVICT_RATE - 1, complete : BOOLEAN]
  BY DEF BookInv, TypeOK
<1>3. /\ saved' \in [pos_map : PosMaps, numEvict : 0 .. N_leaf - 1,
                    numRead : 0 .. EVICT_RATE - 1, complete : BOOLEAN]
      /\ saved'.pos_map = saved.pos_map /\ saved'.numEvict = saved.numEvict
      /\ saved'.numRead = saved.numRead
  BY <1>1, <1>2
<1>4. TypeOK'
  BY <1>1, <1>3 DEF BookInv, TypeOK, PC
<1>5. MemoryInv'
  BY <1>1 DEF BookInv, MemoryInv, Recoverable, Running
<1>6. FileInv'
  <2>1. FileRecoverable'
    BY <1>1 DEF FileRecoverable
  <2> QED
    BY <1>1, <1>3, <2>1 DEF BookInv, FileInv
<1> QED
  BY <1>1, <1>4, <1>5, <1>6 DEF BookInv

\* The file is written.
LEMMA SaveStep ==
    ASSUME BookInv, Save
    PROVE  BookInv'
<1>1. /\ pc = "write" /\ saved' = LocalData /\ savedTree' = tree /\ pc' = "menu"
      /\ pos_map' = pos_map /\ metaData' = metaData /\ numRead' = numRead
      /\ numEvict' = numEvict /\ tree' = tree /\ cut' = cut
  BY DEF Save, memory
<1>2. /\ LocalData.pos_map = pos_map /\ LocalData.numEvict = numEvict
      /\ LocalData.numRead = numRead /\ LocalData.complete
  BY DEF LocalData
<1>3. TypeOK'
  BY <1>1 DEF BookInv, TypeOK, PC, LocalData
<1>4. MemoryInv'
  BY <1>1 DEF BookInv, MemoryInv, Recoverable, Running
<1>5. FileInv'
  <2>1. FileRecoverable'
    BY <1>1, <1>2 DEF BookInv, MemoryInv, Recoverable, FileRecoverable, Running
  <2>2. LocalData' = LocalData
    BY <1>1 DEF LocalData
  <2> QED
    BY <1>1, <1>2, <2>1, <2>2 DEF BookInv, MemoryInv, FileInv, Running
<1> QED
  BY <1>3, <1>4, <1>5 DEF BookInv

\* The client starts from its file.
LEMMA LoadStep ==
    ASSUME BookInv, Load, Garbage = {0}
    PROVE  BookInv' /\ metaData' = LoadedMetaData(saved.pos_map, NoBlocks)
<1>1. /\ pc = "down" /\ saved.complete /\ pos_map' = saved.pos_map /\ numEvict' = saved.numEvict
      /\ numRead' = saved.numRead /\ metaData' = LoadedMetaData(saved.pos_map, NoBlocks)
      /\ tree' = savedTree /\ pc' = "menu"
      /\ saved' = saved /\ savedTree' = savedTree /\ cut' = cut
  BY NoGarbage DEF Load
<1>2. /\ saved.complete = TRUE
      /\ saved.pos_map \in PosMaps /\ saved.numEvict \in 0 .. N_leaf - 1
      /\ saved.numRead \in 0 .. EVICT_RATE - 1 /\ savedTree \in Contents
      /\ saved = [pos_map |-> saved.pos_map, numEvict |-> saved.numEvict,
                  numRead |-> saved.numRead, complete |-> saved.complete]
  BY <1>1 DEF BookInv, TypeOK
<1>3. /\ Placed(saved.pos_map) /\ Sound(saved.pos_map, savedTree)
      /\ Vacant(saved.pos_map, saved.numEvict) /\ RootFree(saved.pos_map, saved.numRead)
      /\ FileRecoverable
  BY DEF BookInv, FileInv
<1>4. metaData' \in Contents
  BY <1>1, <1>2, <1>3, ExactLoaded DEF Exact
<1>5. TypeOK'
  BY <1>1, <1>2, <1>4 DEF BookInv, TypeOK, PC
<1>6. MemoryInv'
  <2>1. Recoverable'
    BY <1>1, <1>3 DEF Recoverable, FileRecoverable
  <2> QED
    BY <1>1, <1>3, <2>1 DEF MemoryInv
<1>7. FileInv'
  <2>1. FileRecoverable'
    BY <1>1, <1>3 DEF FileRecoverable
  <2>2. LocalData' = saved
    BY <1>1, <1>2 DEF LocalData
  <2> QED
    BY <1>1, <1>3, <2>1, <2>2 DEF FileInv
<1> QED
  BY <1>1, <1>5, <1>6, <1>7 DEF BookInv

\* The client stops, dies, finds a block it did not ask for or a file that is
\* too short.
LEMMA OtherSteps ==
    ASSUME BookInv,
           \/ \E b \in Block : AccessFails(b)
           \/ Stop \/ Crash \/ CrashAfterEvict \/ CrashInWrite \/ LoadShort
           \/ UNCHANGED vars
    PROVE  BookInv' /\ pos_map' = pos_map /\ tree' = tree
<1>1. /\ pos_map' = pos_map /\ metaData' = metaData /\ numRead' = numRead
      /\ numEvict' = numEvict /\ tree' = tree /\ saved' = saved /\ savedTree' = savedTree
  BY DEF AccessFails, Stop, Crash, CrashAfterEvict, CrashInWrite, LoadShort, memory, vars
<1>2. \/ pc' = pc /\ cut' = cut
      \/ /\ pc' \in {"down", "aborted"} /\ cut' = cut
         /\ pc \in {"menu", "evict"} \/ (pc = "save" /\ numRead # 0)
      \/ pc' = "down" /\ cut' = cut \cup {"evict"} /\ pc = "save"
      \/ pc' = "down" /\ cut' = cut \cup {"write"} /\ pc = "write"
      \/ pc' = "undefined" /\ cut' = cut /\ pc = "down"
  <2>1. CASE \E b \in Block : AccessFails(b)
    BY <2>1 DEF AccessFails
  <2>2. CASE Stop \/ Crash
    BY <2>2 DEF Stop, Crash
  <2>3. CASE CrashAfterEvict \/ CrashInWrite
    BY <2>3 DEF CrashAfterEvict, CrashInWrite
  <2>5. CASE LoadShort
    BY <2>5 DEF LoadShort
  <2>4. CASE UNCHANGED vars
    BY <2>4 DEF vars
  <2> QED
    BY <2>1, <2>2, <2>3, <2>4, <2>5
<1>3. TypeOK'
  BY <1>1, <1>2 DEF BookInv, TypeOK, PC
<1>4. Running' => Running /\ pc' = pc /\ cut' = cut
  BY <1>2 DEF Running
<1>5. MemoryInv'
  <2>1. Recoverable'
    BY <1>1, <1>2, <1>4 DEF BookInv, MemoryInv, Recoverable
  <2>2. pc' # "undefined" => pc # "undefined"
    BY <1>2
  <2>3. pc' = "evict" => pc = "evict"
    BY <1>2
  <2>4. /\ pc # "undefined" =>
              /\ Placed(pos_map) /\ metaData = LoadedMetaData(pos_map, NoBlocks)
              /\ Sound(pos_map, tree)
              /\ Vacant(pos_map, numEvict)
        /\ Running /\ pc # "evict" => RootFree(pos_map, numRead)
        /\ pc = "evict" => numRead = 0
    BY DEF BookInv, MemoryInv
  <2> QED
    BY <1>1, <1>4, <2>1, <2>2, <2>3, <2>4 DEF MemoryInv
<1>6. FileInv'
  <2>1. FileRecoverable'
    <3>1. /\ FileRecoverable
          /\ pc = "write" => ~saved.complete
          /\ saved' = saved /\ numRead' = numRead
          /\ \A b \in Block : HoldsAt(saved'.pos_map, savedTree', b)
                             = HoldsAt(saved.pos_map, savedTree, b)
      BY <1>1 DEF BookInv, FileInv
    <3> QED
      BY <1>2, <3>1 DEF FileRecoverable
  <2>2. (pc' = "menu" => pc = "menu") /\ (pc' = "write" => pc = "write")
    BY <1>2
  <2>3. LocalData' = LocalData
    BY <1>1 DEF LocalData
  <2> QED
    BY <1>1, <2>1, <2>2, <2>3 DEF BookInv, FileInv
<1> QED
  BY <1>1, <1>3, <1>5, <1>6 DEF BookInv

-----------------------------------------------------------------------------
(***************************************************************************)
(* The initial tree.                                                        *)
(***************************************************************************)

\* Every block has a place in the order build() takes them in.
LEMMA OrderComplete ==
    ASSUME NEW o \in BlockOrders, NEW b \in Block
    PROVE  \E i \in 0 .. NUM_BLOCK - 1 : o[i] = b
<1> DEFINE N == NUM_BLOCK
           S == 0 .. N - 1
           T == 1 .. N
<1>1. N \in Nat
  BY BlockNumbers
<1>2. o \in Injection(S, T)
  BY DEF BlockOrders, Block, Injection, IsInjective
<1> HIDE DEF N
<1>3. IsFiniteSet(S) /\ Cardinality(S) = IF 0 > N - 1 THEN 0 ELSE (N - 1) - 0 + 1
  BY <1>1, FS_Interval
<1>4. IsFiniteSet(T) /\ Cardinality(T) = IF 1 > N THEN 0 ELSE N - 1 + 1
  BY <1>1, FS_Interval
<1>5. Cardinality(S) = Cardinality(T)
  BY <1>1, <1>3, <1>4
<1> HIDE DEF S, T
<1>6. o \in Surjection(S, T)
  BY <1>2, <1>4, <1>5, FS_Injection
<1>7. b \in T
  BY DEF Block, T, N
<1>8. \E i \in S : o[i] = b
  BY <1>6, <1>7 DEF Surjection
<1> QED
  BY <1>8 DEF S, N

\* build() puts every block in a leaf, no two in the same slot.
LEMMA Built ==
    ASSUME NEW o \in BlockOrders
    PROVE  /\ build(o) \in PosMaps /\ Placed(build(o))
           /\ Vacant(build(o), 0) /\ RootFree(build(o), 0)
<1> DEFINE map == build(o)
<1>0. HEIGHT \in Nat /\ HEIGHT >= 1 /\ HEIGHT \in Level /\ N_leaf \in Nat /\ N_leaf >= 2
  BY Config, Leaves
<1>1. ASSUME NEW b \in Block
      PROVE  \E i \in 0 .. NUM_BLOCK - 1 : o[i] = b /\ map[b] = BuildPosition(i)
  <2>1. DOMAIN o = 0 .. NUM_BLOCK - 1
    BY DEF BlockOrders
  <2>2. \E i \in DOMAIN o : o[i] = b
    BY <2>1, OrderComplete
  <2> DEFINE i == CHOOSE k \in DOMAIN o : o[k] = b
  <2>3. i \in 0 .. NUM_BLOCK - 1 /\ o[i] = b
    BY <2>1, <2>2
  <2>4. map[b] = BuildPosition(i)
    BY DEF build
  <2> QED
    BY <2>3, <2>4
<1>2. map = [b \in Block |-> map[b]]
  BY DEF build
<1> HIDE DEF map
<1>3. ASSUME NEW b \in Block
      PROVE  /\ map[b] \in [pathID : Leaf, pathIdx : PathIdx]
             /\ map[b].pathIdx \div BUCKET_SIZE = HEIGHT
             /\ NodeOf(map, b) = map[b].pathID
  <2>1. PICK i \in 0 .. NUM_BLOCK - 1 : map[b] = BuildPosition(i)
    BY <1>1
  <2>2. /\ BuildPosition(i).pathID \in Leaf /\ BuildPosition(i).pathIdx \in PathIdx
        /\ BuildPosition(i).pathIdx \div BUCKET_SIZE = HEIGHT
    BY BuildPositionFacts
  <2>3. BuildPosition(i) \in [pathID : Leaf, pathIdx : PathIdx]
    BY <2>2 DEF BuildPosition
  <2>4. map[b].pathID \in Leaf /\ map[b].pathIdx \div BUCKET_SIZE = HEIGHT
    BY <2>1, <2>2
  <2>5. FullPath[map[b].pathID][HEIGHT] = map[b].pathID
    BY <2>4, FullPathFacts
  <2> QED
    BY <2>1, <2>3, <2>4, <2>5 DEF NodeOf
<1>4. map \in PosMaps
  BY <1>2, <1>3 DEF PosMaps
<1>5. ASSUME NEW b \in Block, NEW c \in Block, NodeOf(map, b) = NodeOf(map, c),
             SlotOf(map, b) = SlotOf(map, c)
      PROVE  b = c
  <2>1. PICK i \in 0 .. NUM_BLOCK - 1 : o[i] = b /\ map[b] = BuildPosition(i)
    BY <1>1
  <2>2. PICK j \in 0 .. NUM_BLOCK - 1 : o[j] = c /\ map[c] = BuildPosition(j)
    BY <1>1
  <2>3. BuildPosition(i).pathID = BuildPosition(j).pathID
    BY <1>3, <1>5, <2>1, <2>2
  <2>4. BuildPosition(i).pathIdx % BUCKET_SIZE = BuildPosition(j).pathIdx % BUCKET_SIZE
    BY <1>5, <2>1, <2>2 DEF SlotOf
  <2>5. i = j
    BY <2>3, <2>4, BuildPositionInjective
  <2> QED
    BY <2>1, <2>2, <2>5
<1>6. Vacant(map, 0)
  <2> SUFFICES ASSUME NEW l \in 1 .. HEIGHT - 1, NEW j \in 0 .. pow2[l - 1] - 1, NEW b \in Block,
                      NodeOf(map, b) = getSibling(P(EvictLeaf[(0 + j) % N_leaf], l))
               PROVE  FALSE
    BY DEF Vacant
  <2>1. /\ l \in 1 .. HEIGHT /\ l \in Level /\ l # HEIGHT
        /\ pow2[l - 1] \in Nat /\ pow2[l - 1] <= N_leaf - 1
    BY <1>0, LevelWidth
  <2>2. (0 + j) % N_leaf \in 0 .. N_leaf - 1
    <3>1. j \in 0 .. N_leaf - 1 /\ 0 \in 0 .. N_leaf - 1
      BY <1>0, <2>1
    <3> QED
      BY <3>1, CountOn
  <2>3. PICK x \in Leaf : x = EvictLeaf[(0 + j) % N_leaf]
    BY <1>0, <2>2, EvictedPath DEF EvictLeaf
  <2>4. P(x, l) = FullPath[x][l]
    BY <2>1, PathAt
  <2>5. PICK y \in Leaf : y = map[b].pathID
    BY <1>3
  <2>6. FullPath[y][HEIGHT] = getSibling(FullPath[x][l])
    BY <1>3, <2>3, <2>4, <2>5, FullPathFacts
  <2>7. pow2[l] - 1 <= FullPath[y][HEIGHT] /\ FullPath[y][HEIGHT] <= 2 * pow2[l] - 2
    BY <2>1, <2>6, SiblingFacts
  <2> QED
    BY <1>0, <2>1, <2>7, LevelOfNode
<1>7. RootFree(map, 0)
  BY <1>0, <1>3 DEF RootFree
<1> QED
  BY <1>4, <1>5, <1>6, <1>7 DEF map, Placed

\* The client starts with what it is to keep.
LEMMA BookInit ==
    ASSUME Init, Garbage = {0}
    PROVE  BookInv /\ cut = {} /\ pc = "menu"
<1>1. PICK o \in BlockOrders : pos_map = build(o)
  BY DEF Init
<1>2. /\ pos_map \in PosMaps /\ Placed(pos_map)
      /\ Vacant(pos_map, 0) /\ RootFree(pos_map, 0)
  BY <1>1, Built
<1>3. /\ metaData = LoadedMetaData(pos_map, NoBlocks) /\ tree = LoadedMetaData(pos_map, NoBlocks)
      /\ numRead = 0 /\ numEvict = 0 /\ saved = LocalData /\ savedTree = tree
      /\ pc = "menu" /\ cut = {}
  BY NoGarbage DEF Init
<1>4. Exact(pos_map, tree)
  BY <1>2, <1>3, ExactLoaded
<1>5. 0 \in 0 .. EVICT_RATE - 1 /\ 0 \in 0 .. N_leaf - 1
  BY Config, Leaves
<1>6. saved.pos_map = pos_map /\ saved.numEvict = 0 /\ saved.numRead = 0 /\ saved.complete
  BY <1>3 DEF LocalData
<1>7. TypeOK
  BY <1>2, <1>3, <1>4, <1>5 DEF TypeOK, PC, Exact, LocalData
<1>8. MemoryInv
  BY <1>2, <1>3, <1>4 DEF MemoryInv, Recoverable, Exact
<1>9. FileInv
  BY <1>2, <1>3, <1>4, <1>6 DEF FileInv, FileRecoverable, Exact
<1> QED
  BY <1>3, <1>7, <1>8, <1>9 DEF BookInv

-----------------------------------------------------------------------------
(***************************************************************************)
(* The theorems.                                                            *)
(***************************************************************************)

\* A step of the client, any crash included, keeps the invariant; as long as
\* the client runs, it keeps every readable block readable.
LEMMA BookStep ==
    ASSUME BookInv, [Next \/ CrashAfterEvict]_vars, Garbage = {0}
    PROVE  /\ BookInv'
           /\ Running /\ pc' \in {"menu", "evict", "save", "write"} =>
                 \A b \in Block : HoldsAt(pos_map, tree, b) = b
                                  => HoldsAt(pos_map', tree', b) = b
<1>1. ASSUME NEW b \in Block, NEW newLeaf \in Leaf, Access(b, newLeaf)
      PROVE  BookInv' /\ \A c \in Block : HoldsAt(pos_map, tree, c) = c
                                          => HoldsAt(pos_map', tree', c) = c
  BY <1>1, AccessStep
<1>2. CASE Evict
  BY <1>2, EvictStep
<1>3. CASE EvictOverflow
  BY <1>3, EvictOverflowStep DEF EvictOverflow
<1>4. CASE Save
  <2>1. pos_map' = pos_map /\ tree' = tree
    BY <1>4 DEF Save, memory
  <2> QED
    BY <1>4, <2>1, SaveStep
<1>7. CASE OpenFile
  BY <1>7, OpenFileStep
<1>5. CASE Load
  <2>1. ~ Running
    BY <1>5 DEF Load, Running
  <2> QED
    BY <1>5, <2>1, LoadStep
<1>6. CASE \/ \E b \in Block : AccessFails(b)
           \/ Stop \/ Crash \/ CrashAfterEvict \/ CrashInWrite \/ LoadShort
           \/ UNCHANGED vars
  BY <1>6, OtherSteps
<1> QED
  BY <1>1, <1>2, <1>3, <1>4, <1>5, <1>6, <1>7 DEF Next

\* The bookkeeping is right in every state of every client, whatever crashes.
THEOREM BookInvariant ==
    ASSUME Garbage = {0}
    PROVE  CrashSpec => []BookInv
<1>1. Init => BookInv
  BY BookInit
<1>2. BookInv /\ [Next \/ CrashAfterEvict]_vars => BookInv'
  BY BookStep
<1> QED
  BY <1>1, <1>2, PTL DEF CrashSpec

\* Every variable has its type.
THEOREM BookTypes ==
    ASSUME Garbage = {0}
    PROVE  CrashSpec => []TypeOK
<1>1. BookInv => TypeOK
  BY DEF BookInv
<1> QED
  BY <1>1, BookInvariant, PTL

\* metaData and pos_map agree whenever the client runs.
THEOREM MapsAgree ==
    ASSUME Garbage = {0}
    PROVE  CrashSpec => []MetaDataExact
<1>1. BookInv => MetaDataExact
  <2> SUFFICES ASSUME BookInv, Running PROVE MetaDataExact
    BY DEF MetaDataExact
  <2>1. pc # "undefined"
    BY DEF Running
  <2>2. Exact(pos_map, metaData) /\ metaData = LoadedMetaData(pos_map, NoBlocks)
    BY <2>1, BookMeans DEF BookInv, MemoryInv
  <2> QED
    BY <2>2 DEF MetaDataExact, Exact
<1> QED
  BY <1>1, BookInvariant, PTL

\* Every block can be retrieved, unless a client died between an eviction and
\* the write of its file.
THEOREM BlocksRecoverable ==
    ASSUME Garbage = {0}
    PROVE  CrashSpec => []Recoverable
<1>1. BookInv => Recoverable
  BY DEF BookInv, MemoryInv
<1> QED
  BY <1>1, BookInvariant, PTL

\* The same of the client that comes back from its file.  The file is complete,
\* unless it is being written or a client died writing it, and a complete file
\* leads to every block, unless a client died, or is, between an eviction and
\* the write.
THEOREM FileServes ==
    ASSUME Garbage = {0}
    PROVE  CrashSpec => []FileRecoverable
<1>1. BookInv => FileRecoverable
  BY DEF BookInv, FileInv
<1> QED
  BY <1>1, BookInvariant, PTL

\* An upload overwrites no block.
THEOREM UploadsFit ==
    ASSUME Garbage = {0}
    PROVE  CrashSpec => []UploadSlotFree
<1>1. BookInv => UploadSlotFree
  <2> SUFFICES ASSUME BookInv PROVE UploadSlotFree
    OBVIOUS
  <2>0. \A k \in 0 .. EVICT_RATE - 1 : k \in Slot
    BY Config DEF Slot
  <2>1. ASSUME Running, pc # "evict", NEW s \in numRead .. BUCKET_SIZE - 1, tree[0][s] # 0
        PROVE  FALSE
    <3>1. /\ tree \in Contents /\ Sound(pos_map, tree) /\ pos_map \in PosMaps
          /\ numRead \in Slot
      BY <2>0, <2>1, BookMeans DEF Running
    <3>2. RootFree(pos_map, numRead)
      BY <2>1 DEF BookInv, MemoryInv
    <3>3. s \in Slot /\ numRead <= s
      BY <2>1, <3>1, Config DEF Slot
    <3>4. tree[0][s] \in Block
      BY <2>1, <3>1, <3>3, BlockNumbers, Leaves DEF Contents
    <3>5. NodeOf(pos_map, tree[0][s]) = 0 /\ SlotOf(pos_map, tree[0][s]) = s
      BY <2>1, <3>1, <3>3, Leaves DEF Sound
    <3> QED
      BY <3>1, <3>2, <3>3, <3>4, <3>5, RootSlotFree
  <2>2. ASSUME NEW b \in Block, NEW s \in saved.numRead .. BUCKET_SIZE - 1
        PROVE  saved.pos_map[b].pathIdx # s
    <3>1. saved.pos_map \in PosMaps /\ saved.numRead \in Slot /\ RootFree(saved.pos_map, saved.numRead)
      BY <2>0 DEF BookInv, TypeOK, FileInv
    <3>2. s \in Slot /\ saved.numRead <= s
      BY <2>2, <3>1, Config DEF Slot
    <3> QED
      BY <3>1, <3>2, RootSlotFree
  <2> QED
    BY <2>1, <2>2 DEF UploadSlotFree
<1> QED
  BY <1>1, BookInvariant, PTL

\* The buckets an eviction overwrites unread hold no block.
THEOREM SiblingsAreEmpty ==
    ASSUME Garbage = {0}
    PROVE  CrashSpec => []SiblingsEmpty
<1>1. BookInv => SiblingsEmpty
  <2> SUFFICES ASSUME BookInv, pc = "evict", NEW l \in 1 .. HEIGHT - 1, NEW s \in Slot,
                      metaData[getSibling(PathNode(l))][s] # 0
               PROVE  FALSE
    BY DEF SiblingsEmpty, PathNode
  <2>1. /\ Exact(pos_map, metaData) /\ Vacant(pos_map, numEvict)
        /\ numEvict \in 0 .. N_leaf - 1
    BY BookMeans
  <2>2. getSibling(PathNode(l)) \in Node
    <3>1. l \in 1 .. HEIGHT /\ l \in Level
      BY LevelWidth, Config
    <3> QED
      BY <2>1, <3>1, PathFacts, SiblingFacts
  <2>3. metaData[getSibling(PathNode(l))][s] \in Block
    BY <2>1, <2>2, BlockNumbers DEF Exact, Contents
  <2>4. NodeOf(pos_map, metaData[getSibling(PathNode(l))][s]) = getSibling(PathNode(l))
    BY <2>1, <2>2 DEF Exact, Sound
  <2> QED
    BY <2>1, <2>3, <2>4, SiblingsVacant
<1> QED
  BY <1>1, BookInvariant, PTL

\* What is readable stays readable, in a client that lost blocks too.
THEOREM DamageDoesNotSpread ==
    ASSUME Garbage = {0}
    PROVE  CrashSpec => ReadableStays
<1>1. BookInv /\ [Next \/ CrashAfterEvict]_vars =>
        [Running /\ pc' \in {"menu", "evict", "save", "write"} =>
             \A b \in Block : HoldsAt(pos_map, tree, b) = b
                              => HoldsAt(pos_map, tree, b)' = b]_vars
  BY BookStep
<1> QED
  BY <1>1, BookInvariant, PTL DEF CrashSpec, ReadableStays

\* load() rebuilds the metaData of the stopped client.
THEOREM LoadRebuilds ==
    ASSUME Garbage = {0}
    PROVE  CrashSpec => LoadRestores
<1>1. BookInv /\ [Next \/ CrashAfterEvict]_vars =>
        [pc = "down" /\ pc' = "menu" /\ saved.pos_map = pos_map => metaData' = metaData]_vars
  <2> SUFFICES ASSUME BookInv, Next \/ CrashAfterEvict, pc = "down", pc' = "menu",
                      saved.pos_map = pos_map
               PROVE  metaData' = metaData
    OBVIOUS
  <2>1. Load
    BY DEF Next, Access, AccessFails, Evict, EvictOverflow, OpenFile, Save, Stop, Crash, CrashAfterEvict,
           CrashInWrite, LoadShort
  <2>2. metaData' = LoadedMetaData(saved.pos_map, NoBlocks)
    BY <2>1, LoadStep
  <2>3. metaData = LoadedMetaData(pos_map, NoBlocks)
    BY DEF BookInv, MemoryInv
  <2> QED
    BY <2>2, <2>3
<1> QED
  BY <1>1, BookInvariant, PTL DEF CrashSpec, LoadRestores

\* Without a crash between an eviction and the write of the file the assertion
\* on a retrieved block never fails.
THEOREM NeverAborts ==
    ASSUME Garbage = {0}
    PROVE  Spec => []AssertHolds
<1> DEFINE Inv == BookInv /\ "evict" \notin cut /\ AssertHolds
<1>1. Init => Inv
  BY BookInit DEF AssertHolds
<1>2. Inv /\ [Next]_vars => Inv'
  <2> SUFFICES ASSUME Inv, [Next]_vars PROVE Inv'
    OBVIOUS
  <2>1. BookInv'
    BY BookStep
  <2>2. cut' = cut \/ cut' = cut \cup {"write"}
    BY DEF Next, Access, AccessFails, Evict, EvictOverflow, OpenFile, Save, Stop, Crash,
           CrashInWrite, Load, LoadShort, vars
  <2>3. ASSUME NEW b \in Block, AccessFails(b) PROVE FALSE
    BY <2>3 DEF AccessFails, BookInv, MemoryInv, Recoverable, Running
  <2>4. pc' # "aborted"
    BY <2>3 DEF AssertHolds, Next, Access, Evict, EvictOverflow, OpenFile, Save, Stop,
           Crash, CrashInWrite, Load, LoadShort, vars
  <2> QED
    BY <2>1, <2>2, <2>4 DEF AssertHolds
<1> QED
  BY <1>1, <1>2, PTL DEF Spec

\* The buckets read are those whose blocks the plan moves.
LEMMA SourcesScanned ==
    ASSUME numEvict \in 0 .. N_leaf - 1
    PROVE  {SourceNode(l) : l \in 0 .. HEIGHT + 1} = ScanSet
<1>1. 0 .. HEIGHT + 1 = Level \cup {HEIGHT + 1}
  BY Config DEF Level
<1>2. /\ \A l \in Level : SourceNode(l) = PathNode(l)
      /\ SourceNode(HEIGHT + 1) = getSibling(PathNode(HEIGHT))
  BY PathFacts
<1> QED
  BY <1>1, <1>2 DEF ScanSet

\* A block that is read lies on the evicted path down to the bucket it lies in,
\* but for a block in the sibling of the leaf.
LEMMA LevelMeets ==
    ASSUME Planning, NEW b \in Block, NodeOf(pos_map, b) \in ScanSet
    PROVE  LevelOf(pos_map, b) <= MeetLevel(b)
           \/ (LevelOf(pos_map, b) = HEIGHT /\ HEIGHT - 1 <= MeetLevel(b))
<1>0. /\ HEIGHT \in Nat /\ HEIGHT >= 1 /\ HEIGHT \in Level /\ HEIGHT \in 1 .. HEIGHT
      /\ HEIGHT - 1 \in Level
      /\ numEvict \in 0 .. N_leaf - 1 /\ pos_map \in PosMaps
  BY Config, Leaves DEF Planning, Level
<1>1. EvictPath \in Leaf /\ \A l \in Level : PathNode(l) = FullPath[EvictPath][l]
  BY <1>0, PathFacts
<1>2. PICK x \in Leaf, k \in Level :
        /\ x = pos_map[b].pathID /\ k = LevelOf(pos_map, b)
        /\ NodeOf(pos_map, b) = FullPath[x][k]
  BY <1>0, PosFacts
<1>3. \A m \in Level : PathNode(m) = FullPath[x][m] => m <= MeetLevel(b)
  BY <1>0, <1>2, MeetFacts
<1>4. ASSUME NEW l \in Level, FullPath[x][k] = PathNode(l) PROVE k <= MeetLevel(b)
  <2>1. k = l
    BY <1>1, <1>4, LevelsApart
  <2> QED
    BY <1>3, <1>4, <2>1
<1>5. CASE FullPath[x][k] = getSibling(PathNode(HEIGHT))
  <2>1. FullPath[x][k] = getSibling(FullPath[EvictPath][HEIGHT])
    BY <1>0, <1>1, <1>5
  <2>2. pow2[HEIGHT] - 1 <= FullPath[x][k] /\ FullPath[x][k] <= 2 * pow2[HEIGHT] - 2
    BY <1>0, <1>1, <2>1, SiblingFacts
  <2>3. k = HEIGHT
    BY <1>0, <2>2, LevelOfNode
  <2>4. FullPath[x][HEIGHT - 1] = FullPath[EvictPath][HEIGHT - 1]
    BY <1>0, <1>1, <2>1, <2>3, SiblingFacts
  <2>5. HEIGHT - 1 <= MeetLevel(b)
    BY <1>0, <1>1, <1>3, <2>4
  <2> QED
    BY <1>2, <2>3, <2>5
<1>6. FullPath[x][k] = getSibling(PathNode(HEIGHT)) \/ \E l \in Level : FullPath[x][k] = PathNode(l)
  BY <1>2 DEF ScanSet
<1> QED
  BY <1>2, <1>4, <1>5, <1>6

\* An eviction leaves every block on its path and never moves one up.
THEOREM BlocksDescend ==
    ASSUME Garbage = {0}
    PROVE  CrashSpec => EvictionDescends
<1>1. ASSUME BookInv, Next \/ CrashAfterEvict, pc = "evict", pc' = "save", NEW b \in Block
      PROVE  Descends(b)
  <2>1. Evict
    BY <1>1 DEF Next, Access, AccessFails, EvictOverflow, OpenFile, Save, Stop, Crash, Load,
           CrashAfterEvict, CrashInWrite, LoadShort
  <2>2. Planning /\ Fits /\ Vacant(pos_map, numEvict) /\ pos_map' = newMap
    BY <1>1, <2>1, EvictStep
  <2>0. /\ HEIGHT \in Nat /\ HEIGHT >= 1 /\ HEIGHT \in Level /\ HEIGHT - 1 \in Level
        /\ HEIGHT - 1 \in 0 .. HEIGHT
        /\ numEvict \in 0 .. N_leaf - 1 /\ pos_map \in PosMaps
    BY <2>2, Config, Leaves DEF Planning, Level
  <2>3. {SourceNode(l) : l \in 0 .. HEIGHT + 1} = ScanSet
    BY <2>0, SourcesScanned
  <2>4. EvictPath \in Leaf /\ \A l \in Level : PathNode(l) = FullPath[EvictPath][l]
    BY <2>0, PathFacts
  <2>5. PICK x \in Leaf : x = pos_map[b].pathID
    BY <2>0, PosFacts
  <2>6. \A l \in Level : /\ P(EvictPath, l) = FullPath[EvictPath][l]
                         /\ P(x, l) = FullPath[x][l]
    BY <2>4, PathAt
  <2>7. newMap[b].pathID = pos_map[b].pathID
    BY <2>2, NewPositions
  <2>8. CASE NodeOf(pos_map, b) \in ScanSet
    <3>1. PICK y \in sentRows : y.blockID = b
      BY <2>2, <2>8, SentAll
    <3>2. PICK m \in Level : m = MeetLevel(b)
      BY <2>0, MeetFacts
    <3>3. PICK new : /\ new = LevelOf(newMap, b)
                     /\ new = IF m = HEIGHT THEN HEIGHT ELSE m + 1
      BY <2>2, <3>1, <3>2, NewPositions
    <3>4. PICK old \in Level : old = LevelOf(pos_map, b)
      BY <2>0, PosFacts
    <3>5. old <= m \/ (old = HEIGHT /\ HEIGHT - 1 <= m)
      BY <2>2, <2>8, <3>2, <3>4, LevelMeets
    <3>6. m \in Int /\ m >= 0 /\ m <= HEIGHT /\ old \in Int /\ old <= HEIGHT
      BY <2>0 DEF Level
    <3>7. new >= old /\ new >= 1 /\ new \in Level /\ new - 1 \in Level
      BY <2>0, <3>3, <3>5, <3>6 DEF Level
    <3>8. /\ FullPath[EvictPath][m] = FullPath[x][m]
          /\ \A l \in Level : FullPath[EvictPath][l] = FullPath[x][l] => l <= m
      BY <2>0, <2>4, <2>5, <3>2, MeetFacts
    <3>9. FullPath[EvictPath][new - 1] = FullPath[x][new - 1]
      <4>1. CASE m # HEIGHT
        BY <3>3, <3>6, <3>8, <4>1
      <4>2. CASE m = HEIGHT
        <5>1. FullPath[EvictPath][HEIGHT - 1] = FullPath[x][HEIGHT - 1]
          BY <2>0, <2>4, <3>8, <4>2, PathsShare
        <5> QED
          BY <3>3, <4>2, <5>1
      <4> QED
        BY <4>1, <4>2
    <3>10. FullPath[EvictPath][new] = FullPath[x][new] => new = HEIGHT
      BY <3>3, <3>6, <3>7, <3>8
    <3>11. /\ P(EvictPath, new - 1) = P(x, new - 1)
           /\ P(EvictPath, new) = P(x, new) => new = HEIGHT
      BY <2>6, <3>7, <3>9, <3>10
    <3> QED
      BY <2>2, <2>3, <2>5, <2>7, <2>8, <3>3, <3>4, <3>7, <3>11 DEF Descends
  <2>9. CASE NodeOf(pos_map, b) \notin ScanSet
    <3>1. \A y \in sentRows : y.blockID # b
      BY <2>2, <2>9, SentFacts
    <3>2. newMap[b] = pos_map[b]
      BY <2>2, <3>1, NewPositions
    <3> QED
      BY <2>2, <2>3, <2>7, <2>9, <3>2 DEF Descends
  <2> QED
    BY <2>8, <2>9
<1>2. BookInv /\ [Next \/ CrashAfterEvict]_vars =>
        [pc = "evict" /\ pc' = "save" => \A b \in Block : Descends(b)]_vars
  BY <1>1
<1> QED
  BY <1>2, BookInvariant, PTL DEF CrashSpec, EvictionDescends
=============================================================================
