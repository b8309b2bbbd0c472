--------------------------- MODULE DuetORAMProofs ---------------------------
(***************************************************************************)
(* Facts about the tree, for every height and size of a bucket: the paths   *)
(* run from the root to their leaf, and build() gives every block a slot of *)
(* a leaf for itself.                                                       *)
(***************************************************************************)
EXTENDS DuetORAM, WellFoundedInduction, TLAPS

\* Induction over a set of natural numbers.
LEMMA SetInduction ==
    ASSUME NEW S, 0 \in S, \A n \in Nat : n \in S => n + 1 \in S
    PROVE  Nat \subseteq S
<1> SUFFICES ASSUME Nat \ S # {} PROVE FALSE
  OBVIOUS
<1>1. PICK x \in Nat \ S : \A y \in Nat \ S : ~ (<<y, x>> \in OpToRel(<, Nat))
  BY NatLessThanWellFounded, WFMin
<1>2. x # 0 /\ x - 1 \in Nat /\ x - 1 < x /\ (x - 1) + 1 = x
  OBVIOUS
<1>3. <<x - 1, x>> \in OpToRel(<, Nat)
  BY <1>2 DEF OpToRel
<1>4. x - 1 \in S
  BY <1>1, <1>2, <1>3
<1> QED
  BY <1>2, <1>4

\* A function can be defined by iteration.
IsIteration(f, v, g, N) == f[0] = v /\ \A n \in 1 .. N : f[n] = g[f[n - 1]]

\* Such a function exists for every starting value and step.
LEMMA Iteration ==
    ASSUME NEW V, NEW v \in V, NEW g \in [V -> V], NEW N \in Nat
    PROVE  \E f \in [0 .. N -> V] : IsIteration(f, v, g, N)
<1> USE DEF IsIteration
<1> DEFINE Good(f, n) == IsIteration(f, v, g, n)
           S == {n \in Nat : \E f \in [0 .. n -> V] : Good(f, n)}
<1>1. 0 \in S
  <2>1. [m \in 0 .. 0 |-> v] \in [0 .. 0 -> V]
    OBVIOUS
  <2>2. Good([m \in 0 .. 0 |-> v], 0)
    OBVIOUS
  <2> QED
    BY <2>1, <2>2
<1>2. ASSUME NEW n \in Nat, n \in S PROVE n + 1 \in S
  <2>1. PICK f \in [0 .. n -> V] : Good(f, n)
    BY <1>2
  <2> DEFINE h == [m \in 0 .. n + 1 |-> IF m = n + 1 THEN g[f[n]] ELSE f[m]]
  <2>2. h \in [0 .. n + 1 -> V]
    OBVIOUS
  <2>3. h[0] = v
    BY <2>1
  <2>4. ASSUME NEW m \in 1 .. n + 1 PROVE h[m] = g[h[m - 1]]
    <3>1. CASE m = n + 1
      BY <3>1
    <3>2. CASE m # n + 1
      BY <3>2, <2>1
    <3> QED
      BY <3>1, <3>2
  <2>5. Good(h, n + 1)
    BY <2>3, <2>4
  <2> HIDE DEF h, Good
  <2> QED
    BY <2>2, <2>5
<1> HIDE DEF S
<1>3. Nat \subseteq S
  BY <1>1, <1>2, SetInduction
<1> USE DEF S
<1> QED
  BY <1>3

-----------------------------------------------------------------------------
\* The assumption on the configuration, as bounds.
LEMMA Config ==
    /\ HEIGHT \in Nat /\ HEIGHT >= 1
    /\ BUCKET_SIZE \in Nat /\ BUCKET_SIZE >= 1
    /\ EVICT_RATE \in Nat /\ EVICT_RATE >= 1
    /\ EVICT_RATE <= BUCKET_SIZE
  BY ConfigAssumption

\* pow2 satisfies its recursion.
LEMMA PowerRecursion ==
    pow2 = [n \in 0 .. HEIGHT + 1 |-> IF n = 0 THEN 1 ELSE 2 * pow2[n - 1]]
<1> DEFINE g == [x \in Nat |-> 2 * x]
<1>1. g \in [Nat -> Nat]
  OBVIOUS
<1>2. PICK f \in [0 .. HEIGHT + 1 -> Nat] :
          f[0] = 1 /\ \A n \in 1 .. HEIGHT + 1 : f[n] = g[f[n - 1]]
  <2> DEFINE N == HEIGHT + 1
  <2>1. N \in Nat /\ 1 \in Nat
    BY Config
  <2> HIDE DEF g, N
  <2>2. \E f \in [0 .. N -> Nat] : IsIteration(f, 1, g, N)
    BY <1>1, <2>1, Iteration
  <2> QED
    BY <2>2 DEF N, IsIteration
<1>3. f = [n \in 0 .. HEIGHT + 1 |-> IF n = 0 THEN 1 ELSE 2 * f[n - 1]]
  <2>1. ASSUME NEW n \in 0 .. HEIGHT + 1, n # 0 PROVE f[n] = 2 * f[n - 1]
    <3>1. n \in 1 .. HEIGHT + 1 /\ n - 1 \in 0 .. HEIGHT + 1
      BY <2>1, Config
    <3>2. f[n] = g[f[n - 1]] /\ f[n - 1] \in Nat
      BY <1>2, <3>1
    <3> QED
      BY <3>2
  <2> QED
    BY <1>2, <2>1
<1>4. \E p : p = [n \in 0 .. HEIGHT + 1 |-> IF n = 0 THEN 1 ELSE 2 * p[n - 1]]
  BY <1>3
<1> QED
  BY <1>4 DEF pow2

\* The recursion of pow2, unfolded once, and its values are positive.
LEMMA Powers ==
    /\ pow2[0] = 1
    /\ \A n \in 0 .. HEIGHT : pow2[n + 1] = 2 * pow2[n]
    /\ \A n \in 0 .. HEIGHT + 1 : pow2[n] \in Nat /\ pow2[n] >= 1
<1>1. pow2[0] = 1
  BY PowerRecursion, Config
<1>2. \A n \in 0 .. HEIGHT : pow2[n + 1] = 2 * pow2[n]
  <2> SUFFICES ASSUME NEW n \in 0 .. HEIGHT PROVE pow2[n + 1] = 2 * pow2[n]
    OBVIOUS
  <2>1. n + 1 \in 0 .. HEIGHT + 1 /\ n + 1 # 0 /\ (n + 1) - 1 = n
    BY Config
  <2> QED
    BY <2>1, PowerRecursion
<1> DEFINE S == {n \in Nat : n <= HEIGHT + 1 => pow2[n] \in Nat /\ pow2[n] >= 1}
<1>3. Nat \subseteq S
  <2>1. 0 \in S
    BY <1>1
  <2>2. ASSUME NEW n \in Nat, n \in S PROVE n + 1 \in S
    BY <1>2, <2>2, Config
  <2> HIDE DEF S
  <2> QED
    BY <2>1, <2>2, SetInduction
<1> QED
  BY <1>1, <1>2, <1>3, Config

\* The leaves are the last of the nodes, and not the root.
LEMMA Leaves ==
    /\ N_leaf \in Nat /\ N_leaf >= 2
    /\ NUM_NODES = 2 * N_leaf - 1
    /\ Leaf \subseteq Node /\ 0 \notin Leaf
    /\ 0 \in Node
    /\ 0 \in Level /\ HEIGHT \in Level
<1>1. HEIGHT \in 0 .. HEIGHT + 1 /\ HEIGHT - 1 \in 0 .. HEIGHT
      /\ (HEIGHT - 1) + 1 = HEIGHT /\ HEIGHT \in 0 .. HEIGHT
      /\ HEIGHT - 1 \in 0 .. HEIGHT + 1
  BY Config
<1>2. pow2[HEIGHT] = 2 * pow2[HEIGHT - 1] /\ pow2[HEIGHT - 1] >= 1
      /\ pow2[HEIGHT - 1] \in Nat
  BY <1>1, Powers
<1>3. pow2[HEIGHT + 1] = 2 * pow2[HEIGHT]
  BY <1>1, Powers
<1> QED
  BY <1>1, <1>2, <1>3, Config DEF N_leaf, NUM_NODES, Leaf, Node, Level

-----------------------------------------------------------------------------
(***************************************************************************)
(* Paths.                                                                   *)
(***************************************************************************)

\* The walk from a leaf to the root, as getFullPathIdx has it.
IsPath(f, pathID) ==
    f = [l \in Level |-> IF l = HEIGHT THEN pathID ELSE (f[l + 1] - 1) \div 2]

\* The walk up from a leaf is a function that exists.
LEMMA PathExists ==
    ASSUME NEW pathID \in Leaf
    PROVE  \E f : IsPath(f, pathID)
<1> DEFINE g == [x \in Int |-> (x - 1) \div 2]
<1>1. g \in [Int -> Int] /\ pathID \in Int /\ HEIGHT \in Nat
  BY Config, Leaves DEF Leaf
<1>2. PICK h \in [0 .. HEIGHT -> Int] : IsIteration(h, pathID, g, HEIGHT)
  <2> HIDE DEF g
  <2> QED
    BY <1>1, Iteration
<1> DEFINE f == [l \in Level |-> h[HEIGHT - l]]
<1>3. ASSUME NEW l \in Level
      PROVE  f[l] = IF l = HEIGHT THEN pathID ELSE (f[l + 1] - 1) \div 2
  <2>1. CASE l = HEIGHT
    BY <2>1, <1>2, Config DEF IsIteration
  <2>2. CASE l # HEIGHT
    <3>1. HEIGHT - l \in 1 .. HEIGHT /\ (HEIGHT - l) - 1 = HEIGHT - (l + 1)
          /\ l + 1 \in Level /\ HEIGHT - (l + 1) \in 0 .. HEIGHT
      BY <2>2, Config DEF Level
    <3>2. h[HEIGHT - l] = g[h[HEIGHT - (l + 1)]]
      BY <3>1, <1>2 DEF IsIteration
    <3>3. h[HEIGHT - (l + 1)] \in Int
      BY <3>1, <1>2
    <3> QED
      BY <2>2, <3>1, <3>2, <3>3
  <2> QED
    BY <2>1, <2>2
<1>4. IsPath(f, pathID)
  BY <1>3 DEF IsPath
<1> QED
  BY <1>4

\* getFullPathIdx is such a walk ...
LEMMA FullPathIsPath ==
    ASSUME NEW pathID \in Leaf
    PROVE  IsPath(FullPath[pathID], pathID)
<1> DEFINE idx == CHOOSE idx : IsPath(idx, pathID)
<1>1. IsPath(idx, pathID)
  BY PathExists
<1>2. getFullPathIdx(pathID) = [l \in Level |-> idx[l]]
  BY DEF getFullPathIdx, IsPath
<1>3. idx = [l \in Level |-> idx[l]]
  BY <1>1 DEF IsPath
<1> QED
  BY <1>1, <1>2, <1>3 DEF FullPath

\* The node on level l of a path is one of the 2^l nodes of that level.
LEMMA PathBounds ==
    ASSUME NEW pathID \in Leaf
    PROVE  /\ FullPath[pathID] = [l \in Level |-> FullPath[pathID][l]]
           /\ FullPath[pathID][HEIGHT] = pathID
           /\ \A l \in Level : /\ FullPath[pathID][l] \in Nat
                               /\ FullPath[pathID][l] <= NUM_NODES - 1
                               /\ pow2[l] - 1 <= FullPath[pathID][l]
                               /\ FullPath[pathID][l] <= 2 * pow2[l] - 2
           /\ \A l \in Level : l # HEIGHT =>
                  FullPath[pathID][l] = (FullPath[pathID][l + 1] - 1) \div 2
<1> DEFINE f == FullPath[pathID]
<1>0. IsPath(f, pathID)
  BY FullPathIsPath
<1> HIDE DEF f
<1>1. f[HEIGHT] = pathID
  BY <1>0, Leaves DEF IsPath
<1>2. ASSUME NEW l \in Level, l # HEIGHT PROVE f[l] = (f[l + 1] - 1) \div 2
  BY <1>0, <1>2 DEF IsPath
<1> DEFINE Bounded(l) == /\ f[l] \in Nat /\ f[l] <= NUM_NODES - 1
                         /\ pow2[l] - 1 <= f[l] /\ f[l] <= 2 * pow2[l] - 2
           S == {k \in Nat : k <= HEIGHT => Bounded(HEIGHT - k)}
<1>3. 0 \in S
  BY <1>1, Config, Leaves DEF Leaf, N_leaf
<1>4. ASSUME NEW k \in Nat, k \in S PROVE k + 1 \in S
  <2> SUFFICES ASSUME k + 1 <= HEIGHT PROVE Bounded(HEIGHT - (k + 1))
    OBVIOUS
  <2> DEFINE l == HEIGHT - (k + 1)
  <2>1. l \in Level /\ l # HEIGHT /\ l + 1 = HEIGHT - k /\ l \in 0 .. HEIGHT
    BY Config DEF Level
  <2>2. Bounded(l + 1)
    BY <1>4, <2>1, Config
  <2>3. pow2[l + 1] = 2 * pow2[l] /\ pow2[l] \in Nat /\ pow2[l] >= 1
    BY <2>1, Powers, Config
  <2>4. f[l] = (f[l + 1] - 1) \div 2
    BY <2>1, <1>2
  <2> HIDE DEF l
  <2>5. NUM_NODES \in Nat
    BY Leaves
  <2>6. Bounded(l)
    BY <2>2, <2>3, <2>4, <2>5
  <2> QED
    BY <2>6 DEF l
<1> HIDE DEF S
<1>5. Nat \subseteq S
  BY <1>3, <1>4, SetInduction
<1> USE DEF S
<1>6. ASSUME NEW l \in Level PROVE Bounded(l)
  <2>1. HEIGHT - l \in Nat /\ HEIGHT - l <= HEIGHT /\ HEIGHT - (HEIGHT - l) = l
    BY Config DEF Level
  <2> QED
    BY <2>1, <1>5
<1>7. f = [l \in Level |-> f[l]]
  BY <1>0 DEF IsPath
<1> QED
  BY <1>1, <1>2, <1>6, <1>7 DEF f

\* ... which starts at the leaf, stays within the tree and ends at the root:
\* getFullPathIdx fills HEIGHT + 1 entries with nodes, for every leaf.
THEOREM FullPathFacts ==
    ASSUME NEW pathID \in Leaf
    PROVE  /\ FullPath[pathID] \in [Level -> Node]
           /\ FullPath[pathID][HEIGHT] = pathID
           /\ FullPath[pathID][0] = 0
<1> DEFINE f == FullPath[pathID]
<1>0. /\ f = [l \in Level |-> f[l]] /\ f[HEIGHT] = pathID
      /\ \A l \in Level : /\ f[l] \in Nat /\ f[l] <= NUM_NODES - 1
                          /\ pow2[l] - 1 <= f[l] /\ f[l] <= 2 * pow2[l] - 2
  BY PathBounds, Zenon
<1> HIDE DEF f
<1>1. f[0] = 0
  BY <1>0, Leaves, Powers
<1>2. \A l \in Level : f[l] \in Node
  BY <1>0, Leaves DEF Node
<1>3. f \in [Level -> Node]
  BY <1>0, <1>2
<1> QED
  BY <1>0, <1>1, <1>3 DEF f

\* The powers grow.
LEMMA PowerOrder ==
    ASSUME NEW l \in 0 .. HEIGHT + 1, NEW m \in 0 .. HEIGHT + 1, l < m
    PROVE  2 * pow2[l] <= pow2[m]
<1> DEFINE S == {k \in Nat : l + 1 + k <= HEIGHT + 1 => 2 * pow2[l] <= pow2[l + 1 + k]}
<1>1. 0 \in S
  <2>1. l \in 0 .. HEIGHT
    BY Config
  <2> QED
    BY <2>1, Powers
<1>2. ASSUME NEW k \in Nat, k \in S PROVE k + 1 \in S
  <2> SUFFICES ASSUME l + 1 + (k + 1) <= HEIGHT + 1
               PROVE  2 * pow2[l] <= pow2[l + 1 + (k + 1)]
    OBVIOUS
  <2>1. l + 1 + k \in 0 .. HEIGHT /\ l + 1 + (k + 1) = (l + 1 + k) + 1
    BY Config
  <2>2. pow2[l + 1 + (k + 1)] = 2 * pow2[l + 1 + k]
    BY <2>1, Powers
  <2>3. 2 * pow2[l] <= pow2[l + 1 + k]
    BY <1>2, <2>1, Config
  <2>4. pow2[l] \in Nat /\ pow2[l + 1 + k] \in Nat
    <3>1. l + 1 + k \in 0 .. HEIGHT + 1
      BY <2>1, Config
    <3> QED
      BY <3>1, Powers
  <2> QED
    BY <2>2, <2>3, <2>4
<1> HIDE DEF S
<1>3. Nat \subseteq S
  BY <1>1, <1>2, SetInduction
<1>4. m - l - 1 \in Nat /\ l + 1 + (m - l - 1) = m /\ m <= HEIGHT + 1
  BY Config
<1> QED
  BY <1>3, <1>4 DEF S

\* A path has one node of every level, and no other level's.
LEMMA LevelOfNode ==
    ASSUME NEW x \in Leaf, NEW l \in Level, NEW m \in Level,
           pow2[m] - 1 <= FullPath[x][l], FullPath[x][l] <= 2 * pow2[m] - 2
    PROVE  l = m
<1>1. /\ pow2[l] - 1 <= FullPath[x][l] /\ FullPath[x][l] <= 2 * pow2[l] - 2
      /\ FullPath[x][l] \in Nat
  BY PathBounds
<1>2. l \in 0 .. HEIGHT + 1 /\ m \in 0 .. HEIGHT + 1 /\ l \in Int /\ m \in Int
  BY Config DEF Level
<1>3. pow2[l] \in Nat /\ pow2[m] \in Nat
  BY <1>2, Powers
<1>4. l < m => 2 * pow2[l] <= pow2[m]
  BY <1>2, PowerOrder
<1>5. m < l => 2 * pow2[m] <= pow2[l]
  BY <1>2, PowerOrder
<1> QED
  BY <1>1, <1>2, <1>3, <1>4, <1>5

\* Paths meet on the same level only.
LEMMA LevelsApart ==
    ASSUME NEW x \in Leaf, NEW y \in Leaf, NEW l \in Level, NEW m \in Level,
           FullPath[x][l] = FullPath[y][m]
    PROVE  l = m
<1>1. pow2[m] - 1 <= FullPath[y][m] /\ FullPath[y][m] <= 2 * pow2[m] - 2
  BY PathBounds
<1> QED
  BY <1>1, LevelOfNode

\* Two paths that meet run together from the root to there.
LEMMA PathsShare ==
    ASSUME NEW x \in Leaf, NEW y \in Leaf, NEW l \in Level, FullPath[x][l] = FullPath[y][l]
    PROVE  \A m \in 0 .. l : FullPath[x][m] = FullPath[y][m]
<1> DEFINE S == {k \in Nat : k <= l => FullPath[x][l - k] = FullPath[y][l - k]}
<1>1. 0 \in S
  BY DEF Level
<1>2. ASSUME NEW k \in Nat, k \in S PROVE k + 1 \in S
  <2> SUFFICES ASSUME k + 1 <= l PROVE FullPath[x][l - (k + 1)] = FullPath[y][l - (k + 1)]
    OBVIOUS
  <2> DEFINE m == l - (k + 1)
  <2>1. m \in Level /\ m # HEIGHT /\ m + 1 = l - k
    BY Config DEF Level
  <2>2. FullPath[x][m + 1] = FullPath[y][m + 1]
    BY <1>2, <2>1, Config DEF Level
  <2> HIDE DEF m
  <2>3. FullPath[x][m] = (FullPath[x][m + 1] - 1) \div 2
    BY <2>1, PathBounds
  <2>4. FullPath[y][m] = (FullPath[y][m + 1] - 1) \div 2
    BY <2>1, PathBounds
  <2> QED
    BY <2>2, <2>3, <2>4 DEF m
<1> HIDE DEF S
<1>3. Nat \subseteq S
  BY <1>1, <1>2, SetInduction
<1> SUFFICES ASSUME NEW m \in 0 .. l PROVE FullPath[x][m] = FullPath[y][m]
  OBVIOUS
<1>4. l - m \in Nat /\ l - m <= l /\ l - (l - m) = m
  BY DEF Level
<1> QED
  BY <1>3, <1>4 DEF S

\* A node below the root and its sibling are the two children of their parent.
LEMMA SiblingFacts ==
    ASSUME NEW x \in Leaf, NEW l \in 1 .. HEIGHT
    PROVE  /\ l \in Level /\ l - 1 \in Level
           /\ getSibling(FullPath[x][l]) \in Node
           /\ getSibling(FullPath[x][l]) # FullPath[x][l]
           /\ getSibling(getSibling(FullPath[x][l])) = FullPath[x][l]
           /\ pow2[l] - 1 <= getSibling(FullPath[x][l])
           /\ getSibling(FullPath[x][l]) <= 2 * pow2[l] - 2
           /\ (getSibling(FullPath[x][l]) - 1) \div 2 = FullPath[x][l - 1]
           /\ \A y \in Leaf : FullPath[y][l - 1] = FullPath[x][l - 1]
                              <=> FullPath[y][l] \in {FullPath[x][l], getSibling(FullPath[x][l])}
<1> DEFINE n == FullPath[x][l]
           q == pow2[l - 1]
<1>1. l \in Level /\ l - 1 \in Level /\ l - 1 # HEIGHT /\ (l - 1) + 1 = l
      /\ l - 1 \in 0 .. HEIGHT /\ l - 1 \in 0 .. HEIGHT + 1
  BY Config DEF Level
<1>2. pow2[l] = 2 * q /\ q \in Nat /\ q >= 1
  BY <1>1, Powers
<1>3. n \in Nat /\ pow2[l] - 1 <= n /\ n <= 2 * pow2[l] - 2 /\ n <= NUM_NODES - 1
  BY <1>1, PathBounds
<1>a. ASSUME NEW y \in Leaf PROVE FullPath[y][l - 1] = (FullPath[y][l] - 1) \div 2
  <2> DEFINE k == l - 1
  <2>1. k \in Level /\ k # HEIGHT /\ k + 1 = l
    BY <1>1
  <2> HIDE DEF k
  <2>2. FullPath[y][k] = (FullPath[y][k + 1] - 1) \div 2
    BY <2>1, PathBounds
  <2> QED
    BY <2>1, <2>2 DEF k
<1>4. FullPath[x][l - 1] = (n - 1) \div 2
  BY <1>a
<1>5. 2 * pow2[l] - 2 <= NUM_NODES - 1 /\ NUM_NODES \in Nat
  <2>1. pow2[l] <= N_leaf
    <3>1. CASE l = HEIGHT
      BY <1>2, <3>1 DEF N_leaf
    <3>2. CASE l # HEIGHT
      <4>1. l \in 0 .. HEIGHT + 1 /\ HEIGHT \in 0 .. HEIGHT + 1 /\ l < HEIGHT
        BY <3>2, Config
      <4>2. 2 * pow2[l] <= pow2[HEIGHT]
        BY <4>1, PowerOrder
      <4> QED
        BY <1>2, <4>2, Leaves DEF N_leaf
    <3> QED
      BY <3>1, <3>2
  <2> QED
    BY <1>2, <2>1, Leaves
<1>6. ASSUME NEW y \in Leaf
      PROVE  /\ FullPath[y][l - 1] = (FullPath[y][l] - 1) \div 2 /\ FullPath[y][l] \in Nat
             /\ pow2[l] - 1 <= FullPath[y][l]
  BY <1>1, <1>a, PathBounds
<1> HIDE DEF n, q
<1>7. /\ getSibling(n) \in Nat /\ getSibling(n) # n /\ getSibling(getSibling(n)) = n
      /\ pow2[l] - 1 <= getSibling(n) /\ getSibling(n) <= 2 * pow2[l] - 2
      /\ (getSibling(n) - 1) \div 2 = (n - 1) \div 2
  BY <1>2, <1>3 DEF getSibling
<1>8. \A y \in Leaf : FullPath[y][l - 1] = FullPath[x][l - 1]
                      <=> FullPath[y][l] \in {n, getSibling(n)}
  <2> SUFFICES ASSUME NEW y \in Leaf
               PROVE  FullPath[y][l - 1] = FullPath[x][l - 1]
                      <=> FullPath[y][l] \in {n, getSibling(n)}
    OBVIOUS
  <2> DEFINE c == FullPath[y][l]
  <2>1. FullPath[y][l - 1] = (c - 1) \div 2 /\ c \in Nat /\ c >= 1
    BY <1>2, <1>6
  <2> HIDE DEF c
  <2>2. (c - 1) \div 2 = (n - 1) \div 2 <=> c = n \/ c = getSibling(n)
    BY <1>2, <1>3, <2>1 DEF getSibling
  <2> QED
    BY <1>4, <2>1, <2>2 DEF c
<1>9. getSibling(n) \in Node
  BY <1>2, <1>5, <1>7 DEF Node
<1> QED
  BY <1>1, <1>4, <1>7, <1>8, <1>9 DEF n

-----------------------------------------------------------------------------
(***************************************************************************)
(* Positions on a path.                                                     *)
(***************************************************************************)

\* Division with remainder, for positive divisors.
LEMMA DivMod ==
    \A x \in Nat, n \in Nat \ {0} :
        /\ x \div n \in Nat /\ x % n \in 0 .. n - 1
        /\ x = n * (x \div n) + (x % n)
  BY Z3

\* Quotient and remainder are unique.
LEMMA DivModUnique ==
    ASSUME NEW n \in Nat \ {0}, NEW q \in Nat, NEW r \in 0 .. n - 1,
           NEW x, x = n * q + r
    PROVE  x \div n = q /\ x % n = r
  BY Z3

\* A pathIdx names a level of the path and a slot of the bucket there.
LEMMA PathIdxFacts ==
    ASSUME NEW k \in PathIdx
    PROVE  k \div BUCKET_SIZE \in Level /\ k % BUCKET_SIZE \in Slot
<1>1. k \in Nat /\ BUCKET_SIZE \in Nat \ {0} /\ HEIGHT \in Nat
      /\ k < (HEIGHT + 1) * BUCKET_SIZE
  <2>1. (HEIGHT + 1) * BUCKET_SIZE \in Nat
    BY Config, Z3
  <2> QED
    BY <2>1, Config DEF PathIdx
<1> DEFINE q == k \div BUCKET_SIZE
<1>2. q \in Nat /\ k % BUCKET_SIZE \in 0 .. BUCKET_SIZE - 1
      /\ k = BUCKET_SIZE * q + (k % BUCKET_SIZE)
  BY <1>1, DivMod
<1> HIDE DEF q
<1>3. BUCKET_SIZE * q < BUCKET_SIZE * (HEIGHT + 1)
  <2>1. BUCKET_SIZE * q \in Nat /\ BUCKET_SIZE * (HEIGHT + 1) = (HEIGHT + 1) * BUCKET_SIZE
    BY <1>1, <1>2, Z3
  <2>2. BUCKET_SIZE * q <= k
    BY <1>1, <1>2, <2>1
  <2> QED
    BY <1>1, <2>1, <2>2
<1>4. q < HEIGHT + 1
  BY <1>1, <1>2, <1>3, Z3
<1> QED
  BY <1>1, <1>2, <1>4 DEF q, Level, Slot

\* The first bucket of a path is the root.
LEMMA RootPosition ==
    ASSUME NEW k \in Slot
    PROVE  k \in PathIdx /\ k \div BUCKET_SIZE = 0 /\ k % BUCKET_SIZE = k
<1>1. k \in 0 .. BUCKET_SIZE - 1 /\ BUCKET_SIZE \in Nat \ {0} /\ k = BUCKET_SIZE * 0 + k
  BY Config DEF Slot
<1>2. k \div BUCKET_SIZE = 0 /\ k % BUCKET_SIZE = k
  BY <1>1, DivModUnique
<1>3. (HEIGHT + 1) * BUCKET_SIZE \in Nat /\ BUCKET_SIZE <= (HEIGHT + 1) * BUCKET_SIZE
  BY Config, Z3
<1> QED
  BY <1>1, <1>2, <1>3 DEF PathIdx

\* What a position names: a slot of a node, and one of the root only if the
\* pathIdx is the number of the slot.
LEMMA PositionFacts ==
    ASSUME NEW map, NEW b, map[b].pathID \in Leaf, map[b].pathIdx \in PathIdx
    PROVE  /\ NodeOf(map, b) \in Node /\ SlotOf(map, b) \in Slot
           /\ map[b].pathIdx \div BUCKET_SIZE \in Level
           /\ NodeOf(map, b) = 0 => /\ map[b].pathIdx \div BUCKET_SIZE = 0
                                    /\ map[b].pathIdx = SlotOf(map, b)
           /\ map[b].pathIdx \in Slot => NodeOf(map, b) = 0
<1> DEFINE k == map[b].pathIdx
           l == k \div BUCKET_SIZE
<1>1. l \in Level /\ k % BUCKET_SIZE \in Slot
  BY PathIdxFacts
<1>2. NodeOf(map, b) = FullPath[map[b].pathID][l] /\ SlotOf(map, b) = k % BUCKET_SIZE
  BY DEF NodeOf, SlotOf
<1> HIDE DEF l
<1>3. NodeOf(map, b) \in Node
  BY <1>1, <1>2, FullPathFacts
<1>4. ASSUME NodeOf(map, b) = 0 PROVE l = 0
  <2> SUFFICES ASSUME l # 0 PROVE FALSE
    OBVIOUS
  <2>1. l \in Nat /\ l - 1 \in 0 .. HEIGHT /\ (l - 1) + 1 = l /\ l - 1 \in 0 .. HEIGHT + 1
    BY <1>1, Config DEF Level
  <2>2. pow2[l - 1] \in Nat /\ pow2[l - 1] >= 1 /\ pow2[l] = 2 * pow2[l - 1]
    BY <2>1, Powers
  <2>3. pow2[l] - 1 <= FullPath[map[b].pathID][l]
    BY <1>1, PathBounds
  <2> QED
    BY <1>2, <1>4, <2>2, <2>3
<1>5. ASSUME l = 0 PROVE k = k % BUCKET_SIZE
  <2>1. k \in Nat /\ BUCKET_SIZE \in Nat \ {0}
    <3>1. (HEIGHT + 1) * BUCKET_SIZE \in Nat
      BY Config, Z3
    <3> QED
      BY <3>1, Config DEF PathIdx
  <2>2. k = BUCKET_SIZE * l + (k % BUCKET_SIZE) /\ k % BUCKET_SIZE \in 0 .. BUCKET_SIZE - 1
    BY <2>1, DivMod DEF l
  <2>3. BUCKET_SIZE * l = 0
    BY <1>5, Config
  <2> QED
    BY <2>1, <2>2, <2>3, Config
<1>6. k \in Slot => NodeOf(map, b) = 0
  BY <1>2, RootPosition, FullPathFacts DEF l
<1> QED
  BY <1>1, <1>2, <1>3, <1>4, <1>5, <1>6 DEF l

-----------------------------------------------------------------------------
(***************************************************************************)
(* P, and the order of the evictions.                                       *)
(***************************************************************************)

\* A power of two up to the number of leaves divides it.
LEMMA PowerDivides ==
    ASSUME NEW i \in Level
    PROVE  \E w \in Nat : w >= 1 /\ N_leaf = pow2[i] * w
<1> DEFINE S == {k \in Nat : k <= HEIGHT =>
                    \E w \in Nat : w >= 1 /\ N_leaf = pow2[HEIGHT - k] * w}
<1>1. 0 \in S
  <2>1. N_leaf = pow2[HEIGHT - 0] * 1
    BY Leaves, Config DEF N_leaf
  <2> QED
    BY <2>1
<1>2. ASSUME NEW k \in Nat, k \in S PROVE k + 1 \in S
  <2> SUFFICES ASSUME k + 1 <= HEIGHT
               PROVE  \E w \in Nat : w >= 1 /\ N_leaf = pow2[HEIGHT - (k + 1)] * w
    OBVIOUS
  <2>1. PICK w \in Nat : w >= 1 /\ N_leaf = pow2[HEIGHT - k] * w
    BY <1>2, Config
  <2> DEFINE j == HEIGHT - (k + 1)
  <2>2. j \in 0 .. HEIGHT /\ j + 1 = HEIGHT - k /\ j \in 0 .. HEIGHT + 1
    BY Config
  <2>3. pow2[HEIGHT - k] = 2 * pow2[j] /\ pow2[j] \in Nat
    BY <2>2, Powers
  <2> HIDE DEF j
  <2>4. (2 * pow2[j]) * w = pow2[j] * (2 * w)
    BY <2>3, Z3
  <2>5. N_leaf = pow2[j] * (2 * w)
    BY <2>1, <2>3, <2>4
  <2> QED
    BY <2>1, <2>5 DEF j
<1> HIDE DEF S
<1>3. Nat \subseteq S
  BY <1>1, <1>2, SetInduction
<1>4. HEIGHT - i \in Nat /\ HEIGHT - i <= HEIGHT /\ HEIGHT - (HEIGHT - i) = i
  BY Config DEF Level
<1> QED
  BY <1>3, <1>4 DEF S

\* P computes the nodes of a path from the number of its leaf.
LEMMA PathAt ==
    ASSUME NEW x \in Leaf, NEW l \in Level
    PROVE  P(x, l) = FullPath[x][l]
<1> DEFINE y == (x + 1) % N_leaf
           S == {k \in Nat : k <= HEIGHT =>
                    FullPath[x][HEIGHT - k] = pow2[HEIGHT - k] - 1 + y \div pow2[k]}
<1>1. y \in Nat /\ x = N_leaf - 1 + y
  <2>1. x + 1 - N_leaf \in 0 .. N_leaf - 1 /\ N_leaf \in Nat \ {0}
        /\ x + 1 = N_leaf * 1 + (x + 1 - N_leaf)
    BY Leaves DEF Leaf
  <2>2. y = x + 1 - N_leaf
    BY <2>1, DivModUnique
  <2> QED
    BY <2>1, <2>2, Leaves DEF Leaf
<1> HIDE DEF y
<1>2. 0 \in S
  <2>1. y \div pow2[0] = y
    BY <1>1, Powers
  <2>2. FullPath[x][HEIGHT] = x
    BY PathBounds
  <2>3. x = pow2[HEIGHT] - 1 + y
    BY <1>1 DEF N_leaf
  <2>4. HEIGHT - 0 = HEIGHT
    BY Config
  <2> QED
    BY <2>1, <2>2, <2>3, <2>4
<1>3. ASSUME NEW k \in Nat, k \in S PROVE k + 1 \in S
  <2> SUFFICES ASSUME k + 1 <= HEIGHT
               PROVE  FullPath[x][HEIGHT - (k + 1)] =
                          pow2[HEIGHT - (k + 1)] - 1 + y \div pow2[k + 1]
    OBVIOUS
  <2> DEFINE j == HEIGHT - (k + 1)
  <2>1. j \in Level /\ j # HEIGHT /\ j + 1 = HEIGHT - k /\ j \in 0 .. HEIGHT
        /\ j \in 0 .. HEIGHT + 1 /\ k \in 0 .. HEIGHT /\ k \in 0 .. HEIGHT + 1
    BY Config DEF Level
  <2>2. FullPath[x][j] = (FullPath[x][j + 1] - 1) \div 2
    BY <2>1, PathBounds
  <2>3. pow2[j + 1] = 2 * pow2[j] /\ pow2[j] \in Nat
        /\ pow2[k + 1] = 2 * pow2[k] /\ pow2[k] \in Nat \ {0}
    BY <2>1, Powers
  <2>4. FullPath[x][j + 1] = 2 * pow2[j] - 1 + y \div pow2[k]
    BY <1>3, <2>1, <2>3, Config
  <2> HIDE DEF j
  <2>5. y \div (2 * pow2[k]) = (y \div pow2[k]) \div 2
    <3> DEFINE p == pow2[k]
               q == y \div p
               r == y % p
               h == q \div 2
    <3>1. q \in Nat /\ r \in 0 .. p - 1 /\ y = p * q + r
      BY <1>1, <2>3, DivMod
    <3> HIDE DEF q, r
    <3>2. h \in Nat /\ q = 2 * h + (q % 2) /\ q % 2 \in 0 .. 1
      BY <3>1
    <3>3. p \in Nat \ {0}
      BY <2>3
    <3> HIDE DEF p, h
    <3>4. y = (2 * p) * h + (p * (q % 2) + r)
      <4>1. p * (2 * h + (q % 2)) = (2 * p) * h + p * (q % 2)
        BY <3>2, <3>3, Z3
      <4>2. y = p * (2 * h + (q % 2)) + r
        BY <3>1, <3>2
      <4>3. (2 * p) * h \in Int /\ p * (q % 2) \in Int /\ r \in Int
        BY <3>1, <3>2, <3>3, Z3
      <4> QED
        BY <4>1, <4>2, <4>3
    <3>5. p * (q % 2) + r \in 0 .. 2 * p - 1
      <4>1. CASE q % 2 = 0
        BY <3>1, <3>3, <4>1
      <4>2. CASE q % 2 = 1
        BY <3>1, <3>3, <4>2
      <4> QED
        BY <3>2, <4>1, <4>2
    <3>6. y \div (2 * p) = h
      <4> DEFINE rest == p * (q % 2) + r
                 n == 2 * p
      <4>1. n \in Nat \ {0} /\ rest \in 0 .. n - 1 /\ y = n * h + rest
        BY <3>3, <3>4, <3>5
      <4> HIDE DEF rest, n
      <4>2. y \div n = h
        BY <3>2, <4>1, DivModUnique
      <4> QED
        BY <4>2 DEF n
    <3> QED
      BY <3>6 DEF p, h, q
  <2>6. y \div pow2[k] \in Nat
    BY <1>1, <2>3, DivMod
  <2>7. (2 * pow2[j] - 1 + y \div pow2[k] - 1) \div 2 = pow2[j] - 1 + (y \div pow2[k]) \div 2
    BY <2>3, <2>6
  <2>8. y \div pow2[k + 1] = (y \div pow2[k]) \div 2
    BY <2>3, <2>5
  <2>9. FullPath[x][j] = (2 * pow2[j] - 1 + y \div pow2[k] - 1) \div 2
    BY <2>2, <2>3, <2>4, <2>6
  <2>10. FullPath[x][j] = pow2[j] - 1 + y \div pow2[k + 1]
    BY <2>7, <2>8, <2>9
  <2> QED
    BY <2>10 DEF j
<1> HIDE DEF S
<1>4. Nat \subseteq S
  BY <1>2, <1>3, SetInduction
<1>5. HEIGHT - l \in Nat /\ HEIGHT - l <= HEIGHT /\ HEIGHT - (HEIGHT - l) = l
  BY Config DEF Level
<1>6. FullPath[x][l] = pow2[l] - 1 + y \div pow2[HEIGHT - l]
  BY <1>4, <1>5 DEF S
<1> QED
  BY <1>6 DEF P, y

\* The loop of getEvictLeafID, as a function of the number of rounds.
IsReversal(f, n) ==
    f = [i \in Level |->
            IF i = 0 THEN <<0, n>>
                     ELSE <<2 * f[i - 1][1] + (f[i - 1][2] % 2), f[i - 1][2] \div 2>>]
Reversal(n) == CHOOSE f : IsReversal(f, n)

\* It has a value after every round: the low bits so far, reversed, and the
\* rest of the number.
LEMMA ReversalFacts ==
    ASSUME NEW n \in Nat
    PROVE  /\ Reversal(n)[0] = <<0, n>>
           /\ \A i \in Level :
                 /\ Reversal(n)[i][1] \in Nat /\ Reversal(n)[i][1] <= pow2[i] - 1
                 /\ Reversal(n)[i][2] \in Nat
           /\ \A i \in Level \ {HEIGHT} :
                 /\ Reversal(n)[i + 1][1] = 2 * Reversal(n)[i][1] + (Reversal(n)[i][2] % 2)
                 /\ Reversal(n)[i + 1][2] = Reversal(n)[i][2] \div 2
           /\ getEvictLeafID(n) = pow2[HEIGHT] - 1 + Reversal(n)[HEIGHT][1]
<1> DEFINE g == [p \in Nat \X Nat |-> <<2 * p[1] + (p[2] % 2), p[2] \div 2>>]
<1>1. g \in [Nat \X Nat -> Nat \X Nat] /\ <<0, n>> \in Nat \X Nat /\ HEIGHT \in Nat
  BY Config
<1>2. PICK h \in [0 .. HEIGHT -> Nat \X Nat] : IsIteration(h, <<0, n>>, g, HEIGHT)
  <2> HIDE DEF g
  <2> QED
    BY <1>1, Iteration
<1>3. h \in [Level -> Nat \X Nat] /\ 0 \in Level /\ h[0] = <<0, n>>
  BY <1>2, Leaves DEF IsIteration, Level
<1>4. IsReversal(h, n)
  <2>1. ASSUME NEW i \in Level
        PROVE  h[i] = IF i = 0 THEN <<0, n>>
                      ELSE <<2 * h[i - 1][1] + (h[i - 1][2] % 2), h[i - 1][2] \div 2>>
    <3>1. CASE i = 0
      BY <1>3, <3>1
    <3>2. CASE i # 0
      <4>1. i \in 1 .. HEIGHT /\ i - 1 \in Level
        BY <3>2, Config DEF Level
      <4>2. h[i] = g[h[i - 1]] /\ h[i - 1] \in Nat \X Nat
        BY <1>2, <1>3, <4>1 DEF IsIteration
      <4> QED
        BY <3>2, <4>2
    <3> QED
      BY <3>1, <3>2
  <2>2. h = [i \in Level |-> h[i]]
    BY <1>3
  <2> QED
    BY <2>1, <2>2 DEF IsReversal
<1> DEFINE f == Reversal(n)
<1>5. IsReversal(f, n)
  BY <1>4 DEF Reversal
<1>6. getEvictLeafID(n) = pow2[HEIGHT] - 1 + f[HEIGHT][1]
  BY DEF getEvictLeafID, Reversal, IsReversal
<1> HIDE DEF f
<1>7. f[0] = <<0, n>>
  BY <1>5, Leaves DEF IsReversal
<1>8. ASSUME NEW i \in Level \ {HEIGHT}
      PROVE  f[i + 1] = <<2 * f[i][1] + (f[i][2] % 2), f[i][2] \div 2>>
  <2>1. i + 1 \in Level /\ i + 1 # 0 /\ (i + 1) - 1 = i
    BY Config DEF Level
  <2> QED
    BY <1>5, <2>1 DEF IsReversal
<1> DEFINE Good(i) == f[i][1] \in Nat /\ f[i][1] <= pow2[i] - 1 /\ f[i][2] \in Nat
           S == {i \in Nat : i <= HEIGHT => Good(i)}
<1>9. 0 \in S
  BY <1>7, Powers
<1>10. ASSUME NEW i \in Nat, i \in S PROVE i + 1 \in S
  <2> SUFFICES ASSUME i + 1 <= HEIGHT PROVE Good(i + 1)
    OBVIOUS
  <2>1. i \in Level \ {HEIGHT} /\ Good(i) /\ i \in 0 .. HEIGHT /\ i \in 0 .. HEIGHT + 1
    BY <1>10, Config DEF Level
  <2>2. f[i + 1][1] = 2 * f[i][1] + (f[i][2] % 2) /\ f[i + 1][2] = f[i][2] \div 2
    BY <1>8, <2>1
  <2>3. pow2[i + 1] = 2 * pow2[i] /\ pow2[i] \in Nat
    BY <2>1, Powers
  <2>4. PICK a, b : a = f[i][1] /\ b = f[i][2]
    OBVIOUS
  <2>5. a \in Nat /\ a <= pow2[i] - 1 /\ b \in Nat
    BY <2>1, <2>4
  <2>6. 2 * a + (b % 2) \in Nat /\ 2 * a + (b % 2) <= 2 * pow2[i] - 1 /\ b \div 2 \in Nat
    BY <2>3, <2>5
  <2> QED
    BY <2>2, <2>3, <2>4, <2>6
<1> HIDE DEF S
<1>11. Nat \subseteq S
  BY <1>9, <1>10, SetInduction
<1>12. \A i \in Level : Good(i)
  BY <1>11, Config DEF S, Level
<1> QED
  BY <1>6, <1>7, <1>8, <1>12 DEF f

\* The path evicted runs through the node the first rounds of the loop name.
LEMMA EvictedPath ==
    ASSUME NEW n \in Nat
    PROVE  /\ getEvictLeafID(n) \in Leaf
           /\ \A l \in Level :
                 FullPath[getEvictLeafID(n)][l] = pow2[l] - 1 + Reversal(n)[l][1]
<1> DEFINE x == getEvictLeafID(n)
           r == Reversal(n)
<1>1. /\ \A i \in Level : r[i][1] \in Nat /\ r[i][1] <= pow2[i] - 1 /\ r[i][2] \in Nat
      /\ \A i \in Level \ {HEIGHT} : r[i + 1][1] = 2 * r[i][1] + (r[i][2] % 2)
      /\ x = pow2[HEIGHT] - 1 + r[HEIGHT][1]
  BY ReversalFacts
<1> HIDE DEF x, r
<1>2. x \in Leaf
  <2>1. r[HEIGHT][1] \in Nat /\ r[HEIGHT][1] <= N_leaf - 1 /\ x = N_leaf - 1 + r[HEIGHT][1]
    BY <1>1, Leaves DEF N_leaf
  <2> QED
    BY <2>1, Leaves DEF Leaf
<1> DEFINE S == {k \in Nat : k <= HEIGHT =>
                    FullPath[x][HEIGHT - k] = pow2[HEIGHT - k] - 1 + r[HEIGHT - k][1]}
<1>3. 0 \in S
  <2>1. HEIGHT - 0 = HEIGHT
    BY Config
  <2>3. FullPath[x][HEIGHT] = x
    BY <1>2, PathBounds
  <2>2. x = pow2[HEIGHT] - 1 + r[HEIGHT][1]
    BY <1>1
  <2> QED
    BY <2>1, <2>2, <2>3
<1>4. ASSUME NEW k \in Nat, k \in S PROVE k + 1 \in S
  <2> SUFFICES ASSUME k + 1 <= HEIGHT
               PROVE  FullPath[x][HEIGHT - (k + 1)] =
                          pow2[HEIGHT - (k + 1)] - 1 + r[HEIGHT - (k + 1)][1]
    OBVIOUS
  <2> DEFINE j == HEIGHT - (k + 1)
  <2>1. j \in Level /\ j # HEIGHT /\ j + 1 = HEIGHT - k /\ j \in 0 .. HEIGHT
        /\ j \in 0 .. HEIGHT + 1 /\ k <= HEIGHT
    BY Config DEF Level
  <2>2. FullPath[x][j + 1] = pow2[j + 1] - 1 + r[j + 1][1]
    BY <1>4, <2>1
  <2> HIDE DEF j
  <2>3. FullPath[x][j] = (FullPath[x][j + 1] - 1) \div 2
    BY <1>2, <2>1, PathBounds
  <2>4. pow2[j + 1] = 2 * pow2[j] /\ pow2[j] \in Nat
    BY <2>1, Powers
  <2>5. PICK a, b : a = r[j][1] /\ b = r[j][2]
    OBVIOUS
  <2>6. a \in Nat /\ b \in Nat /\ r[j + 1][1] = 2 * a + (b % 2)
    BY <1>1, <2>1, <2>5
  <2>7. FullPath[x][j] = pow2[j] - 1 + a
    <3> DEFINE q == pow2[j]
    <3>1. FullPath[x][j + 1] = 2 * q - 1 + (2 * a + (b % 2)) /\ q \in Nat
      BY <2>2, <2>4, <2>6
    <3> HIDE DEF q
    <3>2. (2 * q - 1 + (2 * a + (b % 2)) - 1) \div 2 = q - 1 + a
      BY <2>6, <3>1
    <3> QED
      BY <2>3, <2>6, <3>1, <3>2 DEF q
  <2> QED
    BY <2>5, <2>7 DEF j
<1> HIDE DEF S
<1>5. Nat \subseteq S
  BY <1>3, <1>4, SetInduction
<1>6. ASSUME NEW l \in Level PROVE FullPath[x][l] = pow2[l] - 1 + r[l][1]
  <2>1. HEIGHT - l \in Nat /\ HEIGHT - l <= HEIGHT /\ HEIGHT - (HEIGHT - l) = l
    BY Config DEF Level
  <2> QED
    BY <1>5, <2>1 DEF S
<1> QED
  BY <1>2, <1>6 DEF x, r

\* Numbers whose low bits agree only in order, reversed or not, differ by a
\* multiple of a power of two: no two low parts are reversed into one.
LEMMA ReversalInjective ==
    ASSUME NEW m \in Nat, NEW n \in Nat, NEW i \in Level,
           Reversal(m)[i][1] = Reversal(n)[i][1]
    PROVE  m - n = pow2[i] * (Reversal(m)[i][2] - Reversal(n)[i][2])
<1> DEFINE u == Reversal(m)
           v == Reversal(n)
<1>1. /\ u[0] = <<0, m>>
      /\ \A k \in Level : u[k][1] \in Nat /\ u[k][2] \in Nat
      /\ \A k \in Level \ {HEIGHT} : /\ u[k + 1][1] = 2 * u[k][1] + (u[k][2] % 2)
                                     /\ u[k + 1][2] = u[k][2] \div 2
  BY ReversalFacts
<1>2. /\ v[0] = <<0, n>>
      /\ \A k \in Level : v[k][1] \in Nat /\ v[k][2] \in Nat
      /\ \A k \in Level \ {HEIGHT} : /\ v[k + 1][1] = 2 * v[k][1] + (v[k][2] % 2)
                                     /\ v[k + 1][2] = v[k][2] \div 2
  BY ReversalFacts
<1>3. u[i][1] = v[i][1]
  OBVIOUS
<1> HIDE DEF u, v
<1> DEFINE S == {k \in Nat : k <= HEIGHT /\ u[k][1] = v[k][1] =>
                    m - n = pow2[k] * (u[k][2] - v[k][2])}
<1>4. 0 \in S
  BY <1>1, <1>2, Powers
<1>5. ASSUME NEW k \in Nat, k \in S PROVE k + 1 \in S
  <2> SUFFICES ASSUME k + 1 <= HEIGHT, u[k + 1][1] = v[k + 1][1]
               PROVE  m - n = pow2[k + 1] * (u[k + 1][2] - v[k + 1][2])
    OBVIOUS
  <2>1. k \in Level \ {HEIGHT} /\ k \in 0 .. HEIGHT /\ k \in 0 .. HEIGHT + 1 /\ k <= HEIGHT
    BY Config DEF Level
  <2>2. PICK a, b, c, d : a = u[k][1] /\ b = u[k][2] /\ c = v[k][1] /\ d = v[k][2]
    OBVIOUS
  <2>3. a \in Nat /\ b \in Nat /\ c \in Nat /\ d \in Nat
    BY <1>1, <1>2, <2>1, <2>2
  <2>4. 2 * a + (b % 2) = 2 * c + (d % 2) /\ u[k + 1][2] = b \div 2 /\ v[k + 1][2] = d \div 2
    BY <1>1, <1>2, <2>1, <2>2
  <2>5. a = c /\ b - d = 2 * (b \div 2 - d \div 2)
    BY <2>3, <2>4
  <2>6. m - n = pow2[k] * (b - d)
    BY <1>5, <2>1, <2>2, <2>5
  <2>7. pow2[k + 1] = 2 * pow2[k] /\ pow2[k] \in Nat
    BY <2>1, Powers
  <2> DEFINE z == b \div 2 - d \div 2
  <2>8. z \in Int /\ b - d = 2 * z /\ u[k + 1][2] - v[k + 1][2] = z
    BY <2>3, <2>4, <2>5
  <2> HIDE DEF z
  <2>9. pow2[k] * (2 * z) = (2 * pow2[k]) * z
    BY <2>7, <2>8, Z3
  <2> QED
    BY <2>6, <2>7, <2>8, <2>9
<1> HIDE DEF S
<1>6. Nat \subseteq S
  BY <1>4, <1>5, SetInduction
<1> QED
  BY <1>3, <1>6, Config DEF S, Level, u, v

\* Adding a multiple of a power of two changes none of the low bits.
LEMMA ReversalShift ==
    ASSUME NEW n \in Nat, NEW i \in Level, NEW t \in Int, n + pow2[i] * t \in Nat
    PROVE  /\ Reversal(n + pow2[i] * t)[i][1] = Reversal(n)[i][1]
           /\ Reversal(n + pow2[i] * t)[i][2] = Reversal(n)[i][2] + t
<1> DEFINE m == n + pow2[i] * t
           u == Reversal(m)
           v == Reversal(n)
<1>1. /\ u[0] = <<0, m>>
      /\ \A k \in Level : u[k][1] \in Nat /\ u[k][2] \in Nat
      /\ \A k \in Level \ {HEIGHT} : /\ u[k + 1][1] = 2 * u[k][1] + (u[k][2] % 2)
                                     /\ u[k + 1][2] = u[k][2] \div 2
  BY ReversalFacts
<1>2. /\ v[0] = <<0, n>>
      /\ \A k \in Level : v[k][1] \in Nat /\ v[k][2] \in Nat
      /\ \A k \in Level \ {HEIGHT} : /\ v[k + 1][1] = 2 * v[k][1] + (v[k][2] % 2)
                                     /\ v[k + 1][2] = v[k][2] \div 2
  BY ReversalFacts
<1>3. m = n + pow2[i] * t
  OBVIOUS
<1> HIDE DEF m, u, v
<1> DEFINE S == {k \in Nat : k <= HEIGHT =>
                    \A s \in Int : m = n + pow2[k] * s =>
                        u[k][1] = v[k][1] /\ u[k][2] = v[k][2] + s}
<1>4. 0 \in S
  BY <1>1, <1>2, Powers
<1>5. ASSUME NEW k \in Nat, k \in S PROVE k + 1 \in S
  <2> SUFFICES ASSUME k + 1 <= HEIGHT, NEW s \in Int, m = n + pow2[k + 1] * s
               PROVE  u[k + 1][1] = v[k + 1][1] /\ u[k + 1][2] = v[k + 1][2] + s
    OBVIOUS
  <2>1. k \in Level \ {HEIGHT} /\ k \in 0 .. HEIGHT /\ k \in 0 .. HEIGHT + 1 /\ k <= HEIGHT
    BY Config DEF Level
  <2>2. pow2[k + 1] = 2 * pow2[k] /\ pow2[k] \in Nat
    BY <2>1, Powers
  <2>3. (2 * pow2[k]) * s = pow2[k] * (2 * s)
    BY <2>2, Z3
  <2>4. m = n + pow2[k] * (2 * s) /\ 2 * s \in Int
    BY <2>2, <2>3
  <2>5. u[k][1] = v[k][1] /\ u[k][2] = v[k][2] + 2 * s
    BY <1>5, <2>1, <2>4
  <2>6. PICK b, d : b = u[k][2] /\ d = v[k][2]
    OBVIOUS
  <2>7. b \in Nat /\ d \in Nat /\ b = d + 2 * s
    BY <1>1, <1>2, <2>1, <2>5, <2>6
  <2>8. b % 2 = d % 2 /\ b \div 2 = d \div 2 + s
    BY <2>7
  <2> QED
    BY <1>1, <1>2, <2>1, <2>5, <2>6, <2>8
<1> HIDE DEF S
<1>6. Nat \subseteq S
  BY <1>4, <1>5, SetInduction
<1> QED
  BY <1>3, <1>6, Config DEF S, Level, m, u, v

\* Counting on from one eviction to another, modulo the number of leaves.
LEMMA CountOn ==
    ASSUME NEW n \in 0 .. N_leaf - 1, NEW j \in 0 .. N_leaf - 1
    PROVE  /\ (n + j) % N_leaf \in 0 .. N_leaf - 1
           /\ (n + j) % N_leaf = IF n + j < N_leaf THEN n + j ELSE n + j - N_leaf
<1>1. N_leaf \in Nat \ {0}
  BY Leaves
<1>2. CASE n + j < N_leaf
  <2>1. n + j \in 0 .. N_leaf - 1 /\ n + j = N_leaf * 0 + (n + j) /\ 0 \in Nat
    BY <1>1, <1>2
  <2>2. (n + j) % N_leaf = n + j
    BY <1>1, <2>1, DivModUnique
  <2> QED
    BY <1>2, <2>1, <2>2
<1>3. CASE ~(n + j < N_leaf)
  <2> DEFINE x == n + j
             r == n + j - N_leaf
  <2>1. r \in 0 .. N_leaf - 1 /\ x = N_leaf * 1 + r /\ 1 \in Nat
    BY <1>1, <1>3
  <2> HIDE DEF x, r
  <2>2. x % N_leaf = r
    BY <1>1, <2>1, DivModUnique
  <2> QED
    BY <1>3, <2>1, <2>2 DEF x, r
<1> QED
  BY <1>2, <1>3

\* The levels above the leaves have fewer nodes than there are evictions in a
\* round.
LEMMA LevelWidth ==
    ASSUME NEW l \in 1 .. HEIGHT
    PROVE  /\ pow2[l - 1] \in Nat /\ pow2[l - 1] >= 1 /\ pow2[l - 1] <= N_leaf - 1
           /\ l \in Level /\ l - 1 \in Level /\ l - 1 # HEIGHT
           /\ pow2[l] = 2 * pow2[l - 1]
<1>1. l \in Level /\ l - 1 \in Level /\ l - 1 # HEIGHT /\ l - 1 < HEIGHT /\ (l - 1) + 1 = l
      /\ l - 1 \in 0 .. HEIGHT + 1 /\ HEIGHT \in 0 .. HEIGHT + 1 /\ l - 1 \in 0 .. HEIGHT
  BY Config DEF Level
<1>2. pow2[l - 1] \in Nat /\ pow2[l - 1] >= 1 /\ pow2[l] = 2 * pow2[l - 1]
  BY <1>1, Powers
<1>3. 2 * pow2[l - 1] <= N_leaf
  BY <1>1, PowerOrder DEF N_leaf
<1> QED
  BY <1>1, <1>2, <1>3, Leaves

\* Of pow2[l - 1] evictions in a row no two run through the same node of level
\* l - 1, ...
THEOREM EvictionsApart ==
    ASSUME NEW n \in 0 .. N_leaf - 1, NEW l \in 1 .. HEIGHT, NEW j \in 1 .. pow2[l - 1] - 1
    PROVE  FullPath[getEvictLeafID((n + j) % N_leaf)][l - 1]
              # FullPath[getEvictLeafID(n)][l - 1]
<1> DEFINE m == (n + j) % N_leaf
           p == pow2[l - 1]
           i == l - 1
<1>1. p \in Nat /\ p >= 1 /\ p <= N_leaf - 1 /\ i \in Level /\ p = pow2[i]
  BY LevelWidth
<1>2. m \in Nat /\ n \in Nat /\ m - n \in {j, j - N_leaf} /\ j \in 1 .. p - 1
  <2>1. j \in 0 .. N_leaf - 1 /\ j \in 1 .. p - 1 /\ n \in Nat /\ N_leaf \in Nat
    BY <1>1, Leaves
  <2>2. m \in 0 .. N_leaf - 1 /\ m = IF n + j < N_leaf THEN n + j ELSE n + j - N_leaf
    BY <2>1, CountOn
  <2> HIDE DEF m, p
  <2> QED
    BY <2>1, <2>2
<1>3. PICK w \in Nat : w >= 1 /\ N_leaf = p * w
  BY <1>1, PowerDivides
<1> HIDE DEF m, p, i
<1> SUFFICES ASSUME FullPath[getEvictLeafID(m)][i] = FullPath[getEvictLeafID(n)][i]
             PROVE  FALSE
  BY DEF m, i
<1>4. /\ Reversal(m)[i][1] \in Nat /\ Reversal(n)[i][1] \in Nat
      /\ Reversal(m)[i][2] \in Nat /\ Reversal(n)[i][2] \in Nat
  BY <1>1, <1>2, ReversalFacts
<1>5. Reversal(m)[i][1] = Reversal(n)[i][1]
  BY <1>1, <1>2, <1>4, EvictedPath
<1> DEFINE z == Reversal(m)[i][2] - Reversal(n)[i][2]
<1>6. m - n = p * z /\ z \in Int
  BY <1>1, <1>2, <1>4, <1>5, ReversalInjective
<1> HIDE DEF z
<1>7. \A x \in Int : ~(p * x \in 1 .. p - 1)
  <2> SUFFICES ASSUME NEW x \in Int, p * x \in 1 .. p - 1 PROVE FALSE
    OBVIOUS
  <2>1. CASE x <= 0
    BY <1>1, <2>1, Z3
  <2>2. CASE x >= 1
    BY <1>1, <2>2, Z3
  <2> QED
    BY <2>1, <2>2
<1>8. CASE m - n = j
  BY <1>2, <1>6, <1>7, <1>8
<1>9. CASE m - n = j - N_leaf
  <2>1. p * (z + w) = p * z + p * w
    BY <1>1, <1>3, <1>6, Z3
  <2>2. p * (z + w) = j /\ z + w \in Int
    BY <1>1, <1>2, <1>3, <1>6, <1>9, <2>1, Leaves
  <2> QED
    BY <1>2, <1>7, <2>2
<1> QED
  BY <1>2, <1>8, <1>9

\* ... and the one after them runs through the same node as the first, and
\* from there to the other side.
THEOREM EvictionsAlternate ==
    ASSUME NEW n \in 0 .. N_leaf - 1, NEW l \in 1 .. HEIGHT
    PROVE  FullPath[getEvictLeafID((n + pow2[l - 1]) % N_leaf)][l] =
              getSibling(FullPath[getEvictLeafID(n)][l])
<1> DEFINE p == pow2[l - 1]
           m == (n + p) % N_leaf
           i == l - 1
<1>1. /\ p \in Nat /\ p >= 1 /\ p <= N_leaf - 1 /\ i \in Level \ {HEIGHT} /\ p = pow2[i]
      /\ l \in Level /\ pow2[l] = 2 * p /\ i + 1 = l
  BY LevelWidth
<1>2. m \in Nat /\ n \in Nat /\ m \in {n + p, n + p - N_leaf}
  <2>1. p \in 0 .. N_leaf - 1 /\ n \in Nat /\ N_leaf \in Nat
    BY <1>1, Leaves
  <2>2. m \in 0 .. N_leaf - 1 /\ m = IF n + p < N_leaf THEN n + p ELSE n + p - N_leaf
    BY <2>1, CountOn
  <2> HIDE DEF m, p
  <2> QED
    BY <2>1, <2>2
<1>3. PICK w \in Nat : N_leaf = (2 * p) * w
  BY <1>1, PowerDivides
<1> HIDE DEF m, p, i
<1>4. PICK t \in Int : m = n + p * t /\ t % 2 = 1
  <2>1. CASE m = n + p
    <3>1. p * 1 = p /\ 1 % 2 = 1
      BY <1>1
    <3> QED
      BY <2>1, <3>1
  <2>2. CASE m = n + p - N_leaf
    <3>1. p * (1 - 2 * w) = p - (2 * p) * w
      BY <1>1, <1>3, Z3
    <3>2. 1 - 2 * w \in Int /\ (1 - 2 * w) % 2 = 1
      BY <1>3
    <3>3. m = n + p * (1 - 2 * w)
      BY <1>1, <1>2, <1>3, <2>2, <3>1, Leaves
    <3> QED
      BY <3>2, <3>3
  <2> QED
    BY <1>2, <2>1, <2>2
<1>5. Reversal(m)[i][1] = Reversal(n)[i][1] /\ Reversal(m)[i][2] = Reversal(n)[i][2] + t
  BY <1>1, <1>2, <1>4, ReversalShift
<1>6. PICK a, b : a = Reversal(n)[i][1] /\ b = Reversal(n)[i][2]
  OBVIOUS
<1>7. a \in Nat /\ b \in Nat /\ b + t \in Nat
  BY <1>1, <1>2, <1>5, <1>6, ReversalFacts
<1>8. /\ Reversal(n)[l][1] = 2 * a + (b % 2)
      /\ Reversal(m)[l][1] = 2 * a + ((b + t) % 2)
  BY <1>1, <1>2, <1>5, <1>6, ReversalFacts
<1>9. /\ FullPath[getEvictLeafID(n)][l] = 2 * p - 1 + (2 * a + (b % 2))
      /\ FullPath[getEvictLeafID(m)][l] = 2 * p - 1 + (2 * a + ((b + t) % 2))
  BY <1>1, <1>2, <1>8, EvictedPath
<1>10. (b + t) % 2 = 1 - (b % 2)
  BY <1>4, <1>7
<1>11. getSibling(2 * p - 1 + (2 * a + (b % 2))) = 2 * p - 1 + (2 * a + (1 - (b % 2)))
  BY <1>1, <1>7 DEF getSibling
<1> QED
  BY <1>9, <1>10, <1>11 DEF m, p

-----------------------------------------------------------------------------
(***************************************************************************)
(* build().                                                                 *)
(***************************************************************************)

\* The upper halves of the buckets of the leaves are enough for all blocks,
\* which is what the assertion of build() checks.
LEMMA BlocksFit ==
    /\ NUM_BLOCK \in Nat
    /\ LeafShare \in Nat \ {0}
    /\ LeafShare + BUCKET_SIZE \div 2 = BUCKET_SIZE
    /\ BUCKET_SIZE \div 2 \in Nat
    /\ NUM_BLOCK <= LeafShare * N_leaf
<1>1. BUCKET_SIZE \div 2 \in Nat /\ LeafShare \in Nat /\ LeafShare >= 1
      /\ LeafShare + BUCKET_SIZE \div 2 = BUCKET_SIZE
      /\ BUCKET_SIZE <= 2 * LeafShare
  BY Config DEF LeafShare
<1> DEFINE half == pow2[HEIGHT - 1]
<1>2. half \in Nat /\ half >= 1 /\ N_leaf = 2 * half
  <2>1. HEIGHT - 1 \in 0 .. HEIGHT /\ (HEIGHT - 1) + 1 = HEIGHT
        /\ HEIGHT - 1 \in 0 .. HEIGHT + 1
    BY Config
  <2> QED
    BY <2>1, Powers DEF N_leaf
<1>3. NUM_BLOCK = half * EVICT_RATE - 1
  BY DEF NUM_BLOCK
<1> HIDE DEF half
<1>4. half * EVICT_RATE \in Nat /\ 1 <= half * EVICT_RATE
  BY <1>2, Config, Z3
<1>5. half * EVICT_RATE <= half * (2 * LeafShare)
  BY <1>1, <1>2, Config, Z3
<1>6. half * (2 * LeafShare) = LeafShare * N_leaf
  BY <1>1, <1>2, Z3
<1>7. LeafShare * N_leaf \in Nat
  BY <1>1, <1>2, Z3
<1> QED
  BY <1>1, <1>3, <1>4, <1>5, <1>6, <1>7

\* build() puts a block in a leaf, in the upper half of its bucket.
LEMMA BuildPositionFacts ==
    ASSUME NEW iter \in 0 .. NUM_BLOCK - 1
    PROVE  /\ BuildPosition(iter).pathID \in Leaf
           /\ BuildPosition(iter).pathIdx \in PathIdx
           /\ BuildPosition(iter).pathIdx \div BUCKET_SIZE = HEIGHT
           /\ BuildPosition(iter).pathIdx % BUCKET_SIZE
                 = BUCKET_SIZE \div 2 + (iter % LeafShare)
<1>1. iter \in Nat /\ iter < NUM_BLOCK
  BY BlocksFit
<1> DEFINE q == iter \div LeafShare
           r == iter % LeafShare
           s == BUCKET_SIZE \div 2 + r
<1>2. q \in Nat /\ r \in 0 .. LeafShare - 1 /\ iter = LeafShare * q + r
  BY <1>1, BlocksFit, DivMod
<1>3. BuildPosition(iter).pathID = N_leaf - 1 + q
      /\ BuildPosition(iter).pathIdx = BUCKET_SIZE * HEIGHT + BUCKET_SIZE \div 2 + r
  BY DEF BuildPosition
<1> HIDE DEF q, r
<1>4. q < N_leaf
  <2>1. LeafShare * q \in Nat
    BY <1>2, BlocksFit, Z3
  <2>2. LeafShare * q < LeafShare * N_leaf
    <3>1. LeafShare * N_leaf \in Nat
      BY BlocksFit, Leaves, Z3
    <3> QED
      BY <1>1, <1>2, <2>1, <3>1, BlocksFit
  <2> QED
    BY <1>2, <2>2, BlocksFit, Leaves, Z3
<1>5. BuildPosition(iter).pathID \in Leaf
  BY <1>2, <1>3, <1>4, Leaves DEF Leaf
<1>6. s \in 0 .. BUCKET_SIZE - 1
  BY <1>2, BlocksFit, Config
<1>7. BUCKET_SIZE * HEIGHT \in Nat /\ (HEIGHT + 1) * BUCKET_SIZE = BUCKET_SIZE * HEIGHT + BUCKET_SIZE
  BY Config, Z3
<1>8. BuildPosition(iter).pathIdx = BUCKET_SIZE * HEIGHT + s
  BY <1>2, <1>3, <1>7, BlocksFit
<1> HIDE DEF s
<1>9. BuildPosition(iter).pathIdx \in PathIdx
  BY <1>6, <1>7, <1>8, Config DEF PathIdx
<1>10. BuildPosition(iter).pathIdx \div BUCKET_SIZE = HEIGHT
       /\ BuildPosition(iter).pathIdx % BUCKET_SIZE = s
  <2> DEFINE x == BuildPosition(iter).pathIdx
  <2>1. BUCKET_SIZE \in Nat \ {0} /\ HEIGHT \in Nat /\ x = BUCKET_SIZE * HEIGHT + s
    BY <1>8, Config
  <2> HIDE DEF x
  <2>2. x \div BUCKET_SIZE = HEIGHT /\ x % BUCKET_SIZE = s
    BY <1>6, <2>1, DivModUnique
  <2> QED
    BY <2>2 DEF x
<1> QED
  BY <1>5, <1>9, <1>10 DEF s, r

\* No two blocks are built in the same slot: build() overwrites none of the
\* blocks it has placed.
THEOREM BuildPositionInjective ==
    ASSUME NEW i \in 0 .. NUM_BLOCK - 1, NEW j \in 0 .. NUM_BLOCK - 1,
           BuildPosition(i).pathID = BuildPosition(j).pathID,
           BuildPosition(i).pathIdx % BUCKET_SIZE = BuildPosition(j).pathIdx % BUCKET_SIZE
    PROVE  i = j
<1>1. i \in Nat /\ j \in Nat
  BY BlocksFit
<1>2. /\ i \div LeafShare \in Nat /\ i % LeafShare \in Nat
      /\ i = LeafShare * (i \div LeafShare) + (i % LeafShare)
      /\ j \div LeafShare \in Nat /\ j % LeafShare \in Nat
      /\ j = LeafShare * (j \div LeafShare) + (j % LeafShare)
  <2>1. \A x \in Nat : /\ x \div LeafShare \in Nat
                       /\ x % LeafShare \in 0 .. LeafShare - 1
                       /\ x = LeafShare * (x \div LeafShare) + (x % LeafShare)
    BY BlocksFit, DivMod
  <2>2. \A m \in 0 .. LeafShare - 1 : m \in Nat
    BY BlocksFit
  <2> QED
    BY <1>1, <2>1, <2>2, Zenon
<1>3. i \div LeafShare = j \div LeafShare
  BY <1>2, Leaves DEF BuildPosition
<1>4. i % LeafShare = j % LeafShare
  BY <1>2, BuildPositionFacts, BlocksFit
<1> QED
  BY <1>2, <1>3, <1>4
=============================================================================
