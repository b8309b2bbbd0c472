-------------------------- MODULE EvictLoopsProofs --------------------------
(***************************************************************************)
(* The loops of a server.  The inner ones go over every word once, for      *)
(* every length of a row, every width of a register and every batch.  The   *)
(* parallel ones of an eviction, for every number of slots, chunks and      *)
(* threads, every team and every interleaving: no two threads race, and the *)
(* vector, the matrices and the sums are those a sequential program would   *)
(* compute.                                                                 *)
(***************************************************************************)
EXTENDS EvictLoops, XorWordsProofs, WellFoundedInduction

-----------------------------------------------------------------------------
(***************************************************************************)
(* The inner loops.                                                         *)
(***************************************************************************)

\* Division with remainder, for positive divisors.
LEMMA Division ==
    \A x \in Nat, n \in Nat \ {0} :
        /\ x \div n \in Nat
        /\ n * (x \div n) <= x
        /\ x < n * (x \div n) + n
  BY Z3

\* The unrolled part of a loop and its remainder are all entries, each once.
LEMMA WholeAndRest ==
    ASSUME NEW n \in Nat, NEW w \in Nat \ {0}
    PROVE  /\ Stop(n, w) \in 0 .. n
           /\ n < Stop(n, w) + w
           /\ Whole(n, w) \cup Rest(n, w) = 0 .. n - 1
           /\ Whole(n, w) \cap Rest(n, w) = {}
           /\ IsFiniteSet(Whole(n, w)) /\ IsFiniteSet(Rest(n, w))
<1>1. Stop(n, w) \in 0 .. n /\ n < Stop(n, w) + w
  <2>1. n \div w \in Nat /\ w * (n \div w) <= n /\ n < w * (n \div w) + w
    BY Division
  <2>2. w * (n \div w) \in Nat
    BY <2>1
  <2> QED
    BY <2>1, <2>2 DEF Stop
<1>2. IsFiniteSet(Whole(n, w)) /\ IsFiniteSet(Rest(n, w))
  <2> DEFINE k == Stop(n, w)
  <2>1. k \in Int /\ k - 1 \in Int /\ n - 1 \in Int /\ 0 \in Int
    BY <1>1
  <2> HIDE DEF k
  <2>2. IsFiniteSet(0 .. k - 1) /\ IsFiniteSet(k .. n - 1)
    BY <2>1, FS_Interval
  <2> QED
    BY <2>2 DEF Whole, Rest, k
<1> QED
  BY <1>1, <1>2 DEF Whole, Rest

\* The vectorised exclusive or of two rows is the one word by word
\* (xor_vectors_optimized, thread_xorProduct_func, thread_dotProduct_mask_func).
THEOREM XorRowExact ==
    ASSUME NEW n \in Nat, NEW v, NEW w, DOMAIN v = 0 .. n - 1
    PROVE  XorRow(v, w, n) = XorVector(v, w)
<1>1. /\ Whole(n, LANES) \cup Rest(n, LANES) = 0 .. n - 1
      /\ Whole(n, LANES) \cap Rest(n, LANES) = {}
  BY WholeAndRest, KernelsAssumption
<1> DEFINE u == Combined(v, w, Whole(n, LANES))
<1>2. u = [j \in 0 .. n - 1 |-> IF j \in Whole(n, LANES) THEN Xor(v[j], w[j]) ELSE v[j]]
  BY DEF Combined
<1> HIDE DEF u
<1>3. XorRow(v, w, n) =
        [j \in 0 .. n - 1 |-> IF j \in Rest(n, LANES) THEN Xor(u[j], w[j]) ELSE u[j]]
  BY <1>2 DEF XorRow, Combined, u
<1>4. ASSUME NEW j \in 0 .. n - 1
      PROVE  (IF j \in Rest(n, LANES) THEN Xor(u[j], w[j]) ELSE u[j]) = Xor(v[j], w[j])
  BY <1>1, <1>2
<1> QED
  BY <1>3, <1>4 DEF XorVector

-----------------------------------------------------------------------------
\* The four lanes of the accumulator hold the sum of the unrolled part.
LEMMA LanesAddUp ==
    ASSUME NEW f, NEW n \in Nat
    PROVE  Xor(Xor(Lane(f, n, 0), Lane(f, n, 2)), Xor(Lane(f, n, 1), Lane(f, n, 3)))
             = XorSum(f, Whole(n, 8))
<1> DEFINE L(l) == {j \in Whole(n, 8) : j % 4 = l}
<1>1. IsFiniteSet(Whole(n, 8)) /\ Whole(n, 8) \subseteq Nat
  BY WholeAndRest DEF Whole
<1>2. \A l \in 0 .. 3 : IsFiniteSet(L(l))
  BY <1>1, FS_Subset
<1>3. /\ L(0) \cap L(2) = {} /\ L(1) \cap L(3) = {}
      /\ (L(0) \cup L(2)) \cap (L(1) \cup L(3)) = {}
      /\ (L(0) \cup L(2)) \cup (L(1) \cup L(3)) = Whole(n, 8)
  <2>1. \A j \in Whole(n, 8) : j % 4 \in 0 .. 3
    BY <1>1
  <2> QED
    BY <2>1
<1>5. \A l \in 0 .. 3 : Lane(f, n, l) = XorSum(f, L(l))
  BY DEF Lane
<1> HIDE DEF L
<1>4. IsFiniteSet(L(0) \cup L(2)) /\ IsFiniteSet(L(1) \cup L(3))
  <2>1. IsFiniteSet(L(0)) /\ IsFiniteSet(L(1)) /\ IsFiniteSet(L(2)) /\ IsFiniteSet(L(3))
    BY <1>2
  <2> QED
    BY <2>1, FS_Union
<1>6. XorSum(f, L(0) \cup L(2)) = Xor(Lane(f, n, 0), Lane(f, n, 2))
  BY <1>2, <1>3, <1>5, XorSumUnion
<1>7. XorSum(f, L(1) \cup L(3)) = Xor(Lane(f, n, 1), Lane(f, n, 3))
  BY <1>2, <1>3, <1>5, XorSumUnion
<1> QED
  BY <1>3, <1>4, <1>6, <1>7, XorSumUnion

\* The dot product of a retrieval, with AVX2 and without, is the sum of the
\* selected words (thread_dotProduct_func), whatever BUCKET_SIZE * (H + 1) is.
THEOREM DotProductExact ==
    ASSUME NEW n \in Nat, NEW data, NEW mask
    PROVE  /\ DotProductVector(data, mask, n) = XorSum(Selected(data, mask), 0 .. n - 1)
           /\ DotProductUnrolled(data, mask, n) = XorSum(Selected(data, mask), 0 .. n - 1)
<1> DEFINE f == Selected(data, mask)
<1> HIDE DEF f
<1>1. \A w \in {4, 8} : XorSum(f, 0 .. n - 1) = Xor(XorSum(f, Whole(n, w)), XorSum(f, Rest(n, w)))
  <2> SUFFICES ASSUME NEW w \in {4, 8}
               PROVE  XorSum(f, 0 .. n - 1) = Xor(XorSum(f, Whole(n, w)), XorSum(f, Rest(n, w)))
    OBVIOUS
  <2>1. w \in Nat \ {0}
    OBVIOUS
  <2>2. /\ Whole(n, w) \cup Rest(n, w) = 0 .. n - 1
        /\ Whole(n, w) \cap Rest(n, w) = {}
        /\ IsFiniteSet(Whole(n, w)) /\ IsFiniteSet(Rest(n, w))
    BY <2>1, WholeAndRest
  <2> QED
    BY <2>2, XorSumUnion
<1>2. DotProductUnrolled(data, mask, n) = Xor(XorSum(f, Whole(n, 4)), XorSum(f, Rest(n, 4)))
  BY DEF DotProductUnrolled, f
<1>3. DotProductVector(data, mask, n) =
        Xor(Xor(Xor(Lane(f, n, 0), Lane(f, n, 2)), Xor(Lane(f, n, 1), Lane(f, n, 3))),
            XorSum(f, Rest(n, 8)))
  BY DEF DotProductVector, f
<1>4. DotProductVector(data, mask, n) = Xor(XorSum(f, Whole(n, 8)), XorSum(f, Rest(n, 8)))
  BY <1>3, LanesAddUp
<1> QED
  BY <1>1, <1>2, <1>4 DEF f

-----------------------------------------------------------------------------
\* Quotients are unique.
LEMMA QuotientUnique ==
    \A n \in Nat \ {0}, x, q \in Nat :
        n * q <= x /\ x < n * q + n => x \div n = q
  BY Z3

\* Where position p of a side of length n lies: in tile p \div CACHE_BLOCK_SIZE,
\* within the length of that tile, and in no other tile.
LEMMA TileOf ==
    ASSUME NEW n \in Nat, NEW p \in 0 .. n - 1
    PROVE  \E k \in 0 .. TilesAlong(n) - 1 :
              /\ p - k * CACHE_BLOCK_SIZE \in 0 .. TileSide(k, n) - 1
              /\ \A q \in 0 .. TilesAlong(n) - 1 :
                    p - q * CACHE_BLOCK_SIZE \in 0 .. TileSide(q, n) - 1 => q = k
<1> DEFINE c == CACHE_BLOCK_SIZE
           k == p \div c
<1>1. c \in Nat \ {0}
  BY KernelsAssumption
<1>2. k \in Nat /\ c * k <= p /\ p < c * k + c
  BY <1>1, Division
<1>3. k < TilesAlong(n)
  <2> DEFINE t == TilesAlong(n)
  <2>1. t = (n + c - 1) \div c /\ n + c - 1 \in Nat
    BY <1>1 DEF TilesAlong
  <2>2. t \in Nat /\ n + c - 1 < c * t + c
    BY <1>1, <2>1, Division
  <2>3. c * k < c * t
    BY <1>1, <1>2, <2>2
  <2> HIDE DEF c, k, t
  <2>4. k < t
    BY <1>1, <1>2, <2>2, <2>3, Z3
  <2> QED
    BY <2>4 DEF t
<1>4. \A q \in Nat : /\ q * c \in Nat
                     /\ q * c = c * q
                     /\ (q + 1) * c = c * q + c
  BY <1>1, Z3
<1>5. TileSide(k, n) = (IF c * k + c < n THEN c * k + c ELSE n) - c * k
  BY <1>2, <1>4 DEF TileSide, Least
<1>6. p - k * c \in 0 .. TileSide(k, n) - 1
  BY <1>1, <1>2, <1>4, <1>5
<1>7. ASSUME NEW q \in 0 .. TilesAlong(n) - 1, p - q * c \in 0 .. TileSide(q, n) - 1
      PROVE  q = k
  <2>0. q \in Nat
    OBVIOUS
  <2>1. TileSide(q, n) = (IF c * q + c < n THEN c * q + c ELSE n) - c * q
    BY <1>4, <2>0 DEF TileSide, Least
  <2>2. c * q <= p /\ p < c * q + c
    BY <1>1, <1>4, <1>7, <2>0, <2>1
  <2> QED
    BY <1>1, <2>0, <2>2, QuotientUnique
<1>8. k \in 0 .. TilesAlong(n) - 1
  <2>1. TilesAlong(n) \in Int
    BY <1>1 DEF TilesAlong
  <2> QED
    BY <1>2, <1>3, <2>1
<1> QED
  BY <1>6, <1>7, <1>8

\* A tile is no longer than a block of the cache.
LEMMA TileSideType ==
    ASSUME NEW n \in Nat, NEW k \in 0 .. TilesAlong(n) - 1
    PROVE  TileSide(k, n) \in Nat /\ TileSide(k, n) <= CACHE_BLOCK_SIZE
<1> DEFINE c == CACHE_BLOCK_SIZE
           t == TilesAlong(n)
<1>1. c \in Nat \ {0}
  BY KernelsAssumption
<1>2. t \in Nat /\ c * t <= n + c - 1
  <2>1. t = (n + c - 1) \div c /\ n + c - 1 \in Nat
    BY <1>1 DEF TilesAlong
  <2> QED
    BY <1>1, <2>1, Division
<1>3. k \in Nat /\ k + 1 <= t
  BY <1>2
<1>4. k * c \in Nat /\ (k + 1) * c = k * c + c
  BY <1>1, <1>3, Z3
<1>5. (k + 1) * c <= c * t
  <2> HIDE DEF c, t
  <2> QED
    BY <1>1, <1>2, <1>3, Z3
<1>6. c * t \in Nat
  BY <1>1, <1>2
<1>7. k * c < n
  BY <1>1, <1>2, <1>4, <1>5, <1>6
<1> QED
  BY <1>1, <1>4, <1>7 DEF TileSide, Least

\* What a tile writes: all of its cells, register by register or not.
LEMMA CellsOfTile ==
    ASSUME NEW R \in Nat, NEW C \in Nat,
           NEW i \in 0 .. TilesAlong(R) - 1, NEW j \in 0 .. TilesAlong(C) - 1,
           NEW p \in 0 .. R - 1, NEW q \in 0 .. C - 1
    PROVE  <<p, q>> \in TileCells(i, j, R, C)
             <=> /\ p - i * CACHE_BLOCK_SIZE \in 0 .. TileSide(i, R) - 1
                 /\ q - j * CACHE_BLOCK_SIZE \in 0 .. TileSide(j, C) - 1
<1> DEFINE c == CACHE_BLOCK_SIZE
           h == TileSide(i, R)
           w == TileSide(j, C)
<1>1. c \in Nat \ {0} /\ LANES \in Nat \ {0}
  BY KernelsAssumption
<1>2. \A n \in Nat : \A k \in 0 .. TilesAlong(n) - 1 : TileSide(k, n) \in Nat
  BY TileSideType
<1>3. h \in Nat /\ w \in Nat
  BY <1>2
<1>4. /\ Whole(h, LANES) \cup Rest(h, LANES) = 0 .. h - 1
      /\ Whole(w, LANES) \cup Rest(w, LANES) = 0 .. w - 1
      /\ Whole(h, LANES) \subseteq Int /\ Rest(h, LANES) \subseteq Int
      /\ Whole(w, LANES) \subseteq Int /\ Rest(w, LANES) \subseteq Int
  <2>1. \A n \in Nat : /\ Whole(n, LANES) \cup Rest(n, LANES) = 0 .. n - 1
                       /\ Whole(n, LANES) \subseteq Int /\ Rest(n, LANES) \subseteq Int
    <3> SUFFICES ASSUME NEW n \in Nat
                 PROVE  /\ Whole(n, LANES) \cup Rest(n, LANES) = 0 .. n - 1
                        /\ Whole(n, LANES) \subseteq Int /\ Rest(n, LANES) \subseteq Int
      OBVIOUS
    <3>1. /\ Whole(n, LANES) \cup Rest(n, LANES) = 0 .. n - 1
          /\ Stop(n, LANES) \in 0 .. n
      BY <1>1, WholeAndRest
    <3> QED
      BY <3>1 DEF Whole, Rest
  <2> QED
    BY <1>3, <2>1
<1>5. i * c \in Int /\ j * c \in Int
  BY <1>1
<1>6. \A k, x \in Int, A \in SUBSET Int : k * c \in Int => (x \in InTile(k, A) <=> x - k * c \in A)
  BY <1>1 DEF InTile
<1> HIDE DEF h, w
<1>7. TileCells(i, j, R, C) =
        (InTile(i, Whole(h, LANES))
            \X (InTile(j, Whole(w, LANES)) \cup InTile(j, Rest(w, LANES))))
        \cup (InTile(i, Rest(h, LANES)) \X InTile(j, 0 .. w - 1))
  BY DEF TileCells, h, w
<1>8. /\ p \in InTile(i, Whole(h, LANES)) <=> p - i * c \in Whole(h, LANES)
      /\ p \in InTile(i, Rest(h, LANES)) <=> p - i * c \in Rest(h, LANES)
      /\ q \in InTile(j, Whole(w, LANES)) <=> q - j * c \in Whole(w, LANES)
      /\ q \in InTile(j, Rest(w, LANES)) <=> q - j * c \in Rest(w, LANES)
      /\ q \in InTile(j, 0 .. w - 1) <=> q - j * c \in 0 .. w - 1
  <2>1. i \in Int /\ j \in Int /\ p \in Int /\ q \in Int
    BY <1>1 DEF TilesAlong
  <2>3. /\ Whole(h, LANES) \in SUBSET Int /\ Rest(h, LANES) \in SUBSET Int
        /\ Whole(w, LANES) \in SUBSET Int /\ Rest(w, LANES) \in SUBSET Int
        /\ 0 .. w - 1 \in SUBSET Int
    BY <1>4
  <2> HIDE DEF c
  <2>4. \A A \in SUBSET Int : p \in InTile(i, A) <=> p - i * c \in A
    BY <1>5, <1>6, <2>1
  <2>5. \A A \in SUBSET Int : q \in InTile(j, A) <=> q - j * c \in A
    BY <1>5, <1>6, <2>1
  <2>6. p \in InTile(i, Whole(h, LANES)) <=> p - i * c \in Whole(h, LANES)
    BY <2>3, <2>4, Zenon
  <2>7. p \in InTile(i, Rest(h, LANES)) <=> p - i * c \in Rest(h, LANES)
    BY <2>3, <2>4, Zenon
  <2>8. q \in InTile(j, Whole(w, LANES)) <=> q - j * c \in Whole(w, LANES)
    BY <2>3, <2>5, Zenon
  <2>9. q \in InTile(j, Rest(w, LANES)) <=> q - j * c \in Rest(w, LANES)
    BY <2>3, <2>5, Zenon
  <2>10. q \in InTile(j, 0 .. w - 1) <=> q - j * c \in 0 .. w - 1
    BY <2>3, <2>5, Zenon
  <2> QED
    BY <2>6, <2>7, <2>8, <2>9, <2>10, Zenon
<1> QED
  BY <1>4, <1>7, <1>8 DEF h, w

\* Every cell of a matrix of any size is written by exactly one tile of
\* transpose_parallel, whatever the tiles and registers hold: none is left
\* out, and two threads never write the same one.
THEOREM TilesPartition ==
    ASSUME NEW R \in Nat, NEW C \in Nat, NEW p \in 0 .. R - 1, NEW q \in 0 .. C - 1
    PROVE  \E i \in 0 .. TilesAlong(R) - 1, j \in 0 .. TilesAlong(C) - 1 :
              /\ <<p, q>> \in TileCells(i, j, R, C)
              /\ \A k \in 0 .. TilesAlong(R) - 1, l \in 0 .. TilesAlong(C) - 1 :
                    <<p, q>> \in TileCells(k, l, R, C) => k = i /\ l = j
<1>1. PICK i \in 0 .. TilesAlong(R) - 1 :
         /\ p - i * CACHE_BLOCK_SIZE \in 0 .. TileSide(i, R) - 1
         /\ \A k \in 0 .. TilesAlong(R) - 1 :
               p - k * CACHE_BLOCK_SIZE \in 0 .. TileSide(k, R) - 1 => k = i
  BY TileOf
<1>2. PICK j \in 0 .. TilesAlong(C) - 1 :
         /\ q - j * CACHE_BLOCK_SIZE \in 0 .. TileSide(j, C) - 1
         /\ \A l \in 0 .. TilesAlong(C) - 1 :
               q - l * CACHE_BLOCK_SIZE \in 0 .. TileSide(l, C) - 1 => l = j
  BY TileOf
<1>3. <<p, q>> \in TileCells(i, j, R, C)
  BY <1>1, <1>2, CellsOfTile
<1>4. ASSUME NEW k \in 0 .. TilesAlong(R) - 1, NEW l \in 0 .. TilesAlong(C) - 1,
             <<p, q>> \in TileCells(k, l, R, C)
      PROVE  k = i /\ l = j
  BY <1>1, <1>2, <1>4, CellsOfTile
<1> QED
  BY <1>3, <1>4

-----------------------------------------------------------------------------
\* A position is the product of its quotient and the divisor, and a remainder.
LEMMA Remainder ==
    \A n \in Nat \ {0}, x \in Nat :
        x % n \in 0 .. n - 1 /\ x = n * (x \div n) + (x % n)
  BY Z3

\* Quotient and remainder are unique.
LEMMA RemainderUnique ==
    ASSUME NEW n \in Nat \ {0}, NEW q \in Nat, NEW r \in 0 .. n - 1,
           NEW x, x = n * q + r
    PROVE  x \div n = q /\ x % n = r
  BY Z3

\* The tile a cell is in, from the place of the cell alone.
LEMMA TileOfPlace ==
    ASSUME NEW R \in Nat, NEW C \in Nat,
           NEW i \in 0 .. TilesAlong(R) - 1, NEW j \in 0 .. TilesAlong(C) - 1,
           NEW x \in TileCells(i, j, R, C)
    PROVE  x[1] \div CACHE_BLOCK_SIZE = i /\ x[2] \div CACHE_BLOCK_SIZE = j
<1> DEFINE c == CACHE_BLOCK_SIZE
<1>1. c \in Nat \ {0} /\ LANES \in Nat \ {0} /\ i \in Nat /\ j \in Nat
  BY KernelsAssumption
<1> HIDE DEF c
<1>2. ASSUME NEW n \in Nat, NEW k \in 0 .. TilesAlong(n) - 1
      PROVE  /\ Whole(TileSide(k, n), LANES) \subseteq 0 .. c - 1
             /\ Rest(TileSide(k, n), LANES) \subseteq 0 .. c - 1
             /\ 0 .. TileSide(k, n) - 1 \subseteq 0 .. c - 1
  <2> DEFINE h == TileSide(k, n)
  <2>1. h \in Nat /\ h <= c
    BY TileSideType DEF c
  <2> HIDE DEF h
  <2>2. Whole(h, LANES) \cup Rest(h, LANES) = 0 .. h - 1
    BY <1>1, <2>1, WholeAndRest
  <2> QED
    BY <1>1, <2>1, <2>2 DEF h
<1>3. \E y, z \in 0 .. c - 1 : x[1] = i * c + y /\ x[2] = j * c + z
  <2>1. \A k, A, p : p \in InTile(k, A) => \E y \in A : p = k * c + y
    BY DEF InTile, c
  <2> DEFINE h == TileSide(i, R)
             w == TileSide(j, C)
  <2>2. /\ x[1] \in InTile(i, Whole(h, LANES)) \/ x[1] \in InTile(i, Rest(h, LANES))
        /\ \/ x[2] \in InTile(j, Whole(w, LANES)) \/ x[2] \in InTile(j, Rest(w, LANES))
           \/ x[2] \in InTile(j, 0 .. w - 1)
    BY DEF TileCells
  <2>3. /\ Whole(h, LANES) \subseteq 0 .. c - 1 /\ Rest(h, LANES) \subseteq 0 .. c - 1
        /\ Whole(w, LANES) \subseteq 0 .. c - 1 /\ Rest(w, LANES) \subseteq 0 .. c - 1
        /\ 0 .. w - 1 \subseteq 0 .. c - 1
    BY <1>2
  <2> HIDE DEF h, w
  <2>4. \E y \in 0 .. c - 1 : x[1] = i * c + y
    BY <2>1, <2>2, <2>3
  <2>5. \E z \in 0 .. c - 1 : x[2] = j * c + z
    <3>1. PICK A \in {Whole(w, LANES), Rest(w, LANES), 0 .. w - 1} : x[2] \in InTile(j, A)
      BY <2>2
    <3>2. A \subseteq 0 .. c - 1
      BY <2>3
    <3>3. PICK z \in A : x[2] = j * c + z
      BY <2>1, <3>1
    <3> QED
      BY <3>2, <3>3
  <2> QED
    BY <2>4, <2>5
<1>4. PICK y \in 0 .. c - 1, z \in 0 .. c - 1 : x[1] = c * i + y /\ x[2] = c * j + z
  BY <1>1, <1>3, Z3
<1> QED
  BY <1>1, <1>4, RemainderUnique DEF c

\* A run of blocks takes its words from the right counters, wherever it starts.
LEMMA RunCounters ==
    ASSUME NEW base \in Nat, NEW i \in Nat, NEW w \in Nat, i * HALVES <= w
    PROVE  /\ CounterOf(base, i, w) = (base + w \div HALVES) % CTR_MOD
           /\ HalfOf(i, w) = w % HALVES
<1> DEFINE H == HALVES
           B == w \div H
           r == w % H
<1>1. H \in Nat \ {0}
  BY KernelsAssumption
<1>2. B \in Nat /\ r \in 0 .. H - 1 /\ w = H * B + r
  BY <1>1, Division, Remainder
<1> HIDE DEF H, B, r
<1>3. i <= B
  <2>1. i * H < (B + 1) * H
    <3>1. (B + 1) * H = H * B + H
      BY <1>1, <1>2, Z3
    <3>2. i * H <= w
      BY DEF H
    <3>3. i * H \in Int /\ H * B \in Int
      BY <1>1, <1>2
    <3> QED
      BY <1>1, <1>2, <3>1, <3>2, <3>3
  <2> QED
    BY <1>1, <1>2, <2>1, Z3
<1>4. w - i * H = H * (B - i) + r
  <2>1. H * (B - i) = H * B - i * H
    BY <1>1, <1>2, Z3
  <2>2. i * H \in Int /\ H * B \in Int
    BY <1>1, <1>2
  <2> QED
    BY <1>2, <2>1, <2>2
<1>5. (w - i * H) \div H = B - i /\ (w - i * H) % H = r
  <2> DEFINE d == B - i
             x == w - i * H
  <2>1. d \in Nat /\ x = H * d + r
    BY <1>2, <1>3, <1>4
  <2> HIDE DEF d, x
  <2>2. x \div H = d /\ x % H = r
    BY <1>1, <1>2, <2>1, RemainderUnique
  <2> QED
    BY <2>2 DEF d, x
<1>6. base + i + (B - i) = base + B
  BY <1>2
<1> QED
  BY <1>5, <1>6 DEF CounterOf, HalfOf, H, B, r

\* Every word of the stream is copied by some run.
LEMMA EveryWordCopied ==
    ASSUME NEW n \in Nat, NEW w \in 0 .. n - 1
    PROVE  \E x \in Runs(n) : w \in Copied(x[1], x[2], n)
<1> DEFINE H == HALVES
           N == NumBlocks(n)
           B == w \div H
<1>1. H \in Nat \ {0} /\ BATCH \in Nat \ {0}
  BY KernelsAssumption
<1>2. B \in Nat /\ H * B <= w /\ w < H * B + H
  BY <1>1, Division
<1>3. N \in Nat /\ B < N
  <2>1. N = (n + H - 1) \div H /\ n + H - 1 \in Nat
    BY <1>1 DEF NumBlocks
  <2>2. N \in Nat /\ n + H - 1 < H * N + H
    BY <1>1, <2>1, Division
  <2>3. H * B \in Int /\ H * N \in Int
    BY <1>1, <1>2, <2>2
  <2>4. H * B < H * N
    BY <1>1, <1>2, <2>2, <2>3
  <2> HIDE DEF H, N, B
  <2>5. B < N
    BY <1>1, <1>2, <2>2, <2>4, Z3
  <2> QED
    BY <2>2, <2>5
\* A run of k blocks from i that has block B of the word has the word.
<1>4. ASSUME NEW i \in Nat, NEW k \in Nat, i <= B, B < i + k
      PROVE  w \in Copied(i, k, n)
  <2> HIDE DEF H, N, B
  <2>1. i * H <= H * B /\ H * B + H <= (i + k) * H
    <3>1. B + 1 <= i + k
      BY <1>2, <1>4
    <3>2. (B + 1) * H <= (i + k) * H
      BY <1>1, <1>2, <3>1, Z3
    <3>3. (B + 1) * H = H * B + H
      BY <1>1, <1>2, Z3
    <3>4. i * H <= H * B
      BY <1>1, <1>2, <1>4, Z3
    <3> QED
      BY <3>2, <3>3, <3>4
  <2>2. (i + k) * H = i * H + k * H
    BY <1>1, <1>4, Z3
  <2>3. i * H \in Int /\ k * H \in Int /\ H * B \in Int
    BY <1>1, <1>2, <1>4
  <2>4. Copied(i, k, n) =
          i * H .. i * H + (IF (i + k) * H <= n THEN k * H ELSE n - i * H) - 1
    BY DEF Copied, H
  <2> QED
    BY <1>1, <1>2, <2>1, <2>2, <2>3, <2>4
<1>5. Stop(N, BATCH) \in 0 .. N
  BY <1>1, <1>3, WholeAndRest
<1>6. CASE B < Stop(N, BATCH)
  <2> DEFINE i == BATCH * (B \div BATCH)
  <2>1. i \in Nat /\ i <= B /\ B < i + BATCH
    BY <1>1, <1>2, Division
  <2>2. i % BATCH = 0
    <3> DEFINE g == B \div BATCH
    <3>1. g \in Nat /\ i = BATCH * g + 0 /\ 0 \in 0 .. BATCH - 1
      BY <1>1, <1>2, <2>1, Division
    <3> HIDE DEF g, i
    <3> QED
      BY <1>1, <3>1, RemainderUnique
  <2> HIDE DEF i
  <2>3. i \in Whole(N, BATCH)
    BY <1>5, <1>6, <2>1, <1>2 DEF Whole
  <2>4. <<i, BATCH>> \in Runs(n)
    BY <2>2, <2>3 DEF Runs
  <2>5. w \in Copied(i, BATCH, n)
    BY <1>1, <1>4, <2>1
  <2> QED
    BY <2>4, <2>5
<1>7. CASE B >= Stop(N, BATCH)
  <2>1. B \in Rest(N, BATCH)
    BY <1>2, <1>3, <1>5, <1>7 DEF Rest
  <2>2. <<B, 1>> \in Runs(n)
    BY <2>1 DEF Runs
  <2>3. w \in Copied(B, 1, n)
    BY <1>2, <1>4
  <2> QED
    BY <2>2, <2>3
<1>8. B \in Int /\ Stop(N, BATCH) \in Int
  BY <1>2, <1>3, <1>5
<1> QED
  BY <1>6, <1>7, <1>8

\* The keystream of AESNIWrapper is counter mode, for every length: word w is
\* half w % HALVES of the block whose counter is w \div HALVES above that of
\* the IV, also in a last block that is cut, and no word is left unwritten.
THEOREM KeystreamExact ==
    ASSUME NEW n \in Nat, NEW w \in 0 .. n - 1, NEW base \in Nat, NEW blocks, NEW memory
    PROVE  Keystream(blocks, base, n, memory)[w]
             = blocks[(base + w \div HALVES) % CTR_MOD][w % HALVES]
<1>1. \E x \in Runs(n) : w \in Copied(x[1], x[2], n)
  BY EveryWordCopied
<1> DEFINE r == CHOOSE x \in Runs(n) : w \in Copied(x[1], x[2], n)
<1>2. r \in Runs(n) /\ w \in Copied(r[1], r[2], n)
  BY <1>1
<1>3. Keystream(blocks, base, n, memory)[w] = blocks[CounterOf(base, r[1], w)][HalfOf(r[1], w)]
  BY <1>1 DEF Keystream
<1> HIDE DEF r
<1>4. HALVES \in Nat \ {0} /\ BATCH \in Nat \ {0}
  BY KernelsAssumption
<1>5. r[1] \in Nat
  <2>1. NumBlocks(n) \in Nat
    <3>1. n + HALVES - 1 \in Nat
      BY <1>4
    <3> QED
      BY <1>4, <3>1, Division DEF NumBlocks
  <2>2. Stop(NumBlocks(n), BATCH) \in 0 .. NumBlocks(n)
    BY <1>4, <2>1, WholeAndRest
  <2>3. Whole(NumBlocks(n), BATCH) \subseteq Nat /\ Rest(NumBlocks(n), BATCH) \subseteq Nat
    BY <2>1, <2>2 DEF Whole, Rest
  <2> QED
    BY <1>2, <2>3 DEF Runs
<1>6. r[1] * HALVES <= w
  <2> DEFINE i == r[1]
             m == IF (i + r[2]) * HALVES <= n THEN r[2] * HALVES ELSE n - i * HALVES
  <2>1. w \in i * HALVES .. i * HALVES + m - 1
    BY <1>2 DEF Copied
  <2>2. i * HALVES \in Int
    BY <1>4, <1>5
  <2> HIDE DEF i, m
  <2>3. i * HALVES <= w
    BY <2>1, <2>2
  <2> QED
    BY <2>3 DEF i
<1>7. w \in Nat
  OBVIOUS
<1> QED
  BY <1>3, <1>5, <1>6, <1>7, RunCounters

-----------------------------------------------------------------------------
(***************************************************************************)
(* The parallel loops of an eviction.                                       *)
(***************************************************************************)

\* What the assumptions say of the sizes.
LEMMA Sizes ==
    /\ SIZE_PI \in Nat \ {0} /\ DATA_CHUNKS \in Nat \ {0} /\ MAX_THREADS \in Nat \ {0}
    /\ ROUNDS \in Nat /\ HALVES \in Nat \ {0} /\ CTR_MOD \in Nat \ {0}
    /\ IsFiniteSet(Index) /\ 0 \in Thread
<1>1. /\ SIZE_PI \in Nat \ {0} /\ DATA_CHUNKS \in Nat \ {0} /\ MAX_THREADS \in Nat \ {0}
      /\ ROUNDS \in Nat /\ HALVES \in Nat \ {0} /\ CTR_MOD \in Nat \ {0}
  BY ShuffleAssumption, LoopsAssumption, KernelsAssumption
<1> QED
  BY <1>1, FS_Interval DEF Index, Thread

\* There are so many tiles.
LEMMA TilesType ==
    /\ TilesAlong(SIZE_PI) \in Nat /\ TilesAlong(DATA_CHUNKS) \in Nat /\ Tiles \in Nat
<1>1. \A n \in Nat : TilesAlong(n) \in Nat
  <2> SUFFICES ASSUME NEW n \in Nat PROVE TilesAlong(n) \in Nat
    OBVIOUS
  <2>1. n + CACHE_BLOCK_SIZE - 1 \in Nat /\ CACHE_BLOCK_SIZE \in Nat \ {0}
    BY KernelsAssumption
  <2> QED
    BY <2>1, Division DEF TilesAlong
<1>2. \A x, y \in Nat : x * y \in Nat
  OBVIOUS
<1> QED
  BY <1>1, <1>2, Sizes DEF Tiles

\* The places of the loops in their order.
LEMMA OrderFacts ==
    /\ Len(Order) = 9 /\ DOMAIN Order = 1 .. 9 /\ Loop = 0 .. 10
    /\ Order[1] = "keystream" /\ Order[2] = "transpose" /\ Order[3] = "combine"
    /\ Order[4] = "rotate1" /\ Order[5] = "rotate2"
    /\ Order[6] = "rows" /\ Order[7] = "columns"
    /\ Order[8] = "deltaRows" /\ Order[9] = "deltaColumns"
BY DEF Order, Loop

\* Their names are different.
LEMMA OrderNames ==
    \A l : /\ l \in DOMAIN Order /\ Order[l] = "keystream" <=> l = 1
           /\ l \in DOMAIN Order /\ Order[l] = "transpose" <=> l = 2
           /\ l \in DOMAIN Order /\ Order[l] = "combine" <=> l = 3
           /\ l \in DOMAIN Order /\ Order[l] = "rotate1" <=> l = 4
           /\ l \in DOMAIN Order /\ Order[l] = "rotate2" <=> l = 5
           /\ l \in DOMAIN Order /\ Order[l] = "rows" <=> l = 6
           /\ l \in DOMAIN Order /\ Order[l] = "columns" <=> l = 7
           /\ l \in DOMAIN Order /\ Order[l] = "deltaRows" <=> l = 8
           /\ l \in DOMAIN Order /\ Order[l] = "deltaColumns" <=> l = 9
           /\ l \in DOMAIN Order /\ Order[l] \in Inner <=> l \in {4, 6, 8}
           /\ l \in DOMAIN Order /\ Order[l] \in Passes <=> l \in {6, 8}
<1> SUFFICES ASSUME NEW l
             PROVE  /\ l \in 1 .. 9 /\ Order[l] = "keystream" <=> l = 1
                    /\ l \in 1 .. 9 /\ Order[l] = "transpose" <=> l = 2
                    /\ l \in 1 .. 9 /\ Order[l] = "combine" <=> l = 3
                    /\ l \in 1 .. 9 /\ Order[l] = "rotate1" <=> l = 4
                    /\ l \in 1 .. 9 /\ Order[l] = "rotate2" <=> l = 5
                    /\ l \in 1 .. 9 /\ Order[l] = "rows" <=> l = 6
                    /\ l \in 1 .. 9 /\ Order[l] = "columns" <=> l = 7
                    /\ l \in 1 .. 9 /\ Order[l] = "deltaRows" <=> l = 8
                    /\ l \in 1 .. 9 /\ Order[l] = "deltaColumns" <=> l = 9
                    /\ l \in 1 .. 9 /\ Order[l] \in Inner <=> l \in {4, 6, 8}
                    /\ l \in 1 .. 9 /\ Order[l] \in Passes <=> l \in {6, 8}
  BY OrderFacts
<1>1. CASE l \in 1 .. 9
  <2>1. l \in {1, 2, 3, 4, 5, 6, 7, 8, 9}
    BY <1>1
  <2> QED
    BY <2>1, OrderFacts DEF Inner, Passes
<1>2. CASE l \notin 1 .. 9
  <2>1. l \notin {1, 2, 3, 4, 5, 6, 7, 8, 9}
    BY <1>2
  <2> QED
    BY <1>2, <2>1
<1> QED
  BY <1>1, <1>2

\* The iterations of the loops.
LEMMA IterationFacts ==
    \A l \in 1 .. 9 : /\ Iterations(l) = IF l = 3 THEN DATA_CHUNKS ELSE SIZE_PI
                      /\ Iterations(l) \in Nat \ {0}
BY Sizes, OrderFacts, OrderNames DEF Iterations

-----------------------------------------------------------------------------
\* A quotient rounded up, as the slices of a static schedule begin.
LEMMA RoundedUp ==
    ASSUME NEW m \in Nat \ {0}, NEW x \in Nat, NEW i \in Nat
    PROVE  /\ (x + m - 1) \div m \in Nat
           /\ (x + m - 1) \div m <= i <=> x <= m * i
<1> DEFINE y == x + m - 1
           q == y \div m
<1>1. y \in Nat
  OBVIOUS
<1> HIDE DEF y
<1>2. q \in Nat /\ m * q <= y /\ y < m * q + m
  BY <1>1, Division
<1> HIDE DEF q
<1>3. m * q \in Nat /\ m * i \in Nat
  BY <1>2
<1>4. ASSUME q <= i PROVE m * q <= m * i
  BY <1>2, <1>4, Z3
<1>5. ASSUME i < q PROVE m * i + m <= m * q
  <2>1. i + 1 <= q
    BY <1>2, <1>5
  <2>2. m * (i + 1) <= m * q
    BY <1>2, <2>1, Z3
  <2> QED
    BY <2>2, <1>3, Z3
<1>6. y = x + m - 1
  BY DEF y
<1>7. q <= i <=> x <= m * i
  <2>1. ASSUME q <= i PROVE x <= m * i
    BY <1>2, <1>3, <1>4, <1>6, <2>1
  <2>2. ASSUME ~(q <= i) PROVE ~(x <= m * i)
    <3>1. m * i + m <= m * q
      BY <1>2, <1>5, <2>2
    <3> QED
      BY <1>2, <1>3, <1>6, <3>1
  <2> QED
    BY <2>1, <2>2
<1> QED
  BY <1>2, <1>7 DEF q, y

\* schedule(static): the slices are one after the other, from the first to
\* the last iteration, and iteration i is in that of thread i * m / n.
LEMMA SliceFacts ==
    ASSUME NEW n \in Nat \ {0}, NEW m \in Nat \ {0}, NEW t \in 0 .. m - 1
    PROVE  /\ Slice(n, m, t)[1] \in 0 .. n /\ Slice(n, m, t)[2] \in 0 .. n
           /\ Slice(n, m, t)[1] <= Slice(n, m, t)[2]
           /\ Slice(n, m, 0)[1] = 0 /\ Slice(n, m, m - 1)[2] = n
           /\ Slice(n, m, t + 1)[1] = Slice(n, m, t)[2]
           /\ \A i \in 0 .. n - 1 :
                 i \in Slice(n, m, t)[1] .. Slice(n, m, t)[2] - 1 <=> t = (i * m) \div n
<1> DEFINE Lo(k) == (n * k + m - 1) \div m
<1>1. \A k : Slice(n, m, k)[1] = Lo(k) /\ Slice(n, m, k)[2] = Lo(k + 1)
  BY DEF Slice
<1>2. \A k \in Nat, i \in Nat : Lo(k) \in Nat /\ (Lo(k) <= i <=> n * k <= m * i)
  <2> SUFFICES ASSUME NEW k \in Nat, NEW i \in Nat
               PROVE  Lo(k) \in Nat /\ (Lo(k) <= i <=> n * k <= m * i)
    OBVIOUS
  <2> DEFINE x == n * k
  <2>1. x \in Nat
    OBVIOUS
  <2> HIDE DEF x
  <2>2. (x + m - 1) \div m \in Nat /\ ((x + m - 1) \div m <= i <=> x <= m * i)
    BY <2>1, RoundedUp
  <2> QED
    BY <2>2 DEF x
<1> HIDE DEF Lo
<1>3. ASSUME NEW k \in 0 .. m PROVE Lo(k) \in 0 .. n
  <2>1. n * k <= m * n
    BY <1>3, Z3
  <2> QED
    BY <1>2, <2>1
<1>4. ASSUME NEW k \in Nat PROVE Lo(k) <= Lo(k + 1)
  <2>1. Lo(k) \in Nat /\ Lo(k + 1) \in Nat /\ k + 1 \in Nat
    BY <1>2
  <2>2. n * (k + 1) <= m * Lo(k + 1)
    BY <1>2, <2>1
  <2>3. n * k <= n * (k + 1)
    BY Z3
  <2>4. n * k <= m * Lo(k + 1)
    BY <2>1, <2>2, <2>3
  <2> QED
    BY <1>2, <2>1, <2>4
<1>5. Lo(0) = 0
  <2>1. n * 0 <= m * 0
    OBVIOUS
  <2> QED
    BY <1>2, <2>1
<1>6. Lo(m) = n
  <2>1. ~(n * m <= m * (n - 1))
    <3>1. m * (n - 1) = n * m - m
      BY Z3
    <3> QED
      BY <3>1
  <2>2. ~(Lo(m) <= n - 1)
    BY <1>2, <2>1
  <2> QED
    BY <1>3, <2>2
<1>7. ASSUME NEW i \in 0 .. n - 1
      PROVE  i \in Lo(t) .. Lo(t + 1) - 1 <=> t = (i * m) \div n
  <2> DEFINE x == i * m
  <2>1. x \in Nat /\ m * i = x
    BY Z3
  <2>2. Lo(t) \in Nat /\ Lo(t + 1) \in Nat /\ t + 1 \in Nat /\ i \in Nat
    BY <1>2
  <2>3. Lo(t) <= i <=> n * t <= x
    BY <1>2, <2>1, <2>2
  <2>4. i < Lo(t + 1) <=> x < n * t + n
    <3>1. Lo(t + 1) <= i <=> n * (t + 1) <= x
      BY <1>2, <2>1, <2>2
    <3>2. n * (t + 1) = n * t + n
      BY Z3
    <3>3. n * t \in Nat
      OBVIOUS
    <3> QED
      BY <2>1, <2>2, <3>1, <3>2, <3>3
  <2> HIDE DEF x
  <2>5. n * t <= x /\ x < n * t + n <=> t = x \div n
    BY <2>1, Division, QuotientUnique
  <2> QED
    BY <2>2, <2>3, <2>4, <2>5 DEF x
<1> QED
  BY <1>1, <1>3, <1>4, <1>5, <1>6, <1>7

-----------------------------------------------------------------------------
Teams  == {0 .. m - 1 : m \in 1 .. MAX_THREADS}
Static == 1 .. 9 \ {2}

\* Thread t has an iteration of loop l.
In(t, l) == t \in team /\ thread[t].loop = l /\ thread[t].next < thread[t].end

\* A team has its threads, among them the main thread.
LEMMA TeamFacts ==
    \A T \in Teams :
        /\ Cardinality(T) \in 1 .. MAX_THREADS /\ T = 0 .. Cardinality(T) - 1
        /\ T \subseteq Thread /\ 0 \in T
<1> SUFFICES ASSUME NEW m \in 1 .. MAX_THREADS
             PROVE  /\ Cardinality(0 .. m - 1) = m
                    /\ 0 .. m - 1 \subseteq Thread /\ 0 \in 0 .. m - 1
  BY Sizes DEF Teams
<1>1. Cardinality(0 .. m - 1) = m
  BY Sizes, FS_Interval
<1> QED
  BY <1>1, Sizes DEF Thread

\* The slices of a team are a partition of the iterations of a loop.
LEMMA TeamSlices ==
    \A T \in Teams, l \in 1 .. 9 : \A t \in T :
        LET n == Iterations(l)
            s == Slice(n, Cardinality(T), t)
        IN  /\ s[1] \in 0 .. n /\ s[2] \in 0 .. n /\ s[1] <= s[2]
            /\ \A i \in 0 .. n - 1 :
                  i \in s[1] .. s[2] - 1 <=> t = (i * Cardinality(T)) \div n
<1> SUFFICES ASSUME NEW T \in Teams, NEW l \in 1 .. 9, NEW t \in T
             PROVE  LET n == Iterations(l)
                        s == Slice(n, Cardinality(T), t)
                    IN  /\ s[1] \in 0 .. n /\ s[2] \in 0 .. n /\ s[1] <= s[2]
                        /\ \A i \in 0 .. n - 1 :
                              i \in s[1] .. s[2] - 1 <=> t = (i * Cardinality(T)) \div n
  OBVIOUS
<1> DEFINE n == Iterations(l)
           m == Cardinality(T)
<1>1. n \in Nat \ {0} /\ m \in Nat \ {0} /\ t \in 0 .. m - 1
  BY TeamFacts, IterationFacts, Sizes
<1> HIDE DEF n, m
<1>2. /\ Slice(n, m, t)[1] \in 0 .. n /\ Slice(n, m, t)[2] \in 0 .. n
      /\ Slice(n, m, t)[1] <= Slice(n, m, t)[2]
      /\ \A i \in 0 .. n - 1 :
            i \in Slice(n, m, t)[1] .. Slice(n, m, t)[2] - 1 <=> t = (i * m) \div n
  BY <1>1, SliceFacts
<1> QED
  BY <1>2 DEF n, m

\* Every iteration is in one of the slices.
LEMMA SlicesCover ==
    \A T \in Teams, l \in 1 .. 9 : \A i \in 0 .. Iterations(l) - 1 :
        (i * Cardinality(T)) \div Iterations(l) \in T
<1> SUFFICES ASSUME NEW T \in Teams, NEW l \in 1 .. 9, NEW i \in 0 .. Iterations(l) - 1
             PROVE  (i * Cardinality(T)) \div Iterations(l) \in T
  OBVIOUS
<1> DEFINE n == Iterations(l)
           m == Cardinality(T)
           x == i * m
           t == x \div n
<1>1. n \in Nat \ {0} /\ m \in Nat \ {0} /\ T = 0 .. m - 1 /\ i \in 0 .. n - 1
  BY TeamFacts, IterationFacts, Sizes
<1> HIDE DEF n, m
<1>2. x \in Nat /\ x < n * m
  BY <1>1, Z3
<1> HIDE DEF x
<1>3. t \in Nat /\ n * t <= x
  BY <1>1, <1>2, Division
<1> HIDE DEF t
<1>4. t < m
  <2> SUFFICES ASSUME m <= t PROVE FALSE
    BY <1>1, <1>3
  <2>1. n * m <= n * t
    BY <1>1, <1>3, Z3
  <2>2. n * m \in Nat /\ n * t \in Nat
    BY <1>1, <1>3
  <2> QED
    BY <1>2, <1>3, <2>1, <2>2
<1>5. t \in 0 .. m - 1
  BY <1>1, <1>3, <1>4
<1> QED
  BY <1>1, <1>5 DEF t, x, n, m

\* What the conditions on a thread's loop mean.
LEMMA DoingMeans ==
    \A t : /\ Doing(t, "keystream") <=> In(t, 1)
           /\ Doing(t, "transpose") <=> In(t, 2)
           /\ Doing(t, "combine") <=> In(t, 3)
           /\ Doing(t, "rotate1") <=> In(t, 4)
           /\ Doing(t, "rotate2") <=> In(t, 5)
           /\ Doing(t, "rows") <=> In(t, 6)
           /\ Doing(t, "columns") <=> In(t, 7)
           /\ Doing(t, "deltaRows") <=> In(t, 8)
           /\ Doing(t, "deltaColumns") <=> In(t, 9)
           /\ Finished(t) <=> /\ thread[t].next = thread[t].end
                              /\ thread[t].loop = 2 => tile = Tiles
BY OrderNames DEF Doing, In, Finished

\* And after a step.
LEMMA DoingMeansNext ==
    \A t : /\ Doing(t, "transpose")' <=> In(t, 2)'
           /\ Doing(t, "rotate1")' <=> In(t, 4)'
           /\ Doing(t, "rotate2")' <=> In(t, 5)'
           /\ Doing(t, "rows")' <=> In(t, 6)'
           /\ Doing(t, "deltaRows")' <=> In(t, 8)'
BY OrderNames DEF Doing, In

-----------------------------------------------------------------------------
(***************************************************************************)
(* Who is where.                                                            *)
(***************************************************************************)
Control ==
    /\ team \in Teams /\ tile \in 0 .. Tiles
    /\ thread \in [Thread -> [loop : Loop, next : Nat, end : Nat, step : Nat]]
    /\ \A t \in Thread : thread[t].next <= thread[t].end
    /\ serverNo \in Server /\ numThreads \in 1 .. MAX_THREADS
    /\ circularShift \in [{1, 2} -> Shift]
    /\ ThreadInv /\ TeamInv

\* It is part of the invariant, and gives back what TypeOK says of threads.
LEMMA ControlFacts ==
    /\ LoopsInv => Control
    /\ Control => \A t \in Thread :
          /\ thread[t].loop \in DOMAIN Order =>
               thread[t].end <= IF Order[thread[t].loop] = "transpose" THEN Tiles
                                ELSE Iterations(thread[t].loop)
          /\ thread[t].step \in 0 .. 2 * SIZE_PI \cup 0 .. ROUNDS + 1
<1>1. LoopsInv => Control
  BY DEF LoopsInv, Control, TypeOK, GivenInv, Teams
<1>2. ASSUME Control, NEW t \in Thread
      PROVE  /\ thread[t].loop \in DOMAIN Order =>
                  thread[t].end <= IF Order[thread[t].loop] = "transpose" THEN Tiles
                                   ELSE Iterations(thread[t].loop)
             /\ thread[t].step \in 0 .. 2 * SIZE_PI \cup 0 .. ROUNDS + 1
  <2> DEFINE l == thread[t].loop
  <2>1. l \in Loop /\ thread[t].end \in Nat /\ thread[t].step \in Nat
    BY <1>2 DEF Control
  <2>2. ASSUME l \in DOMAIN Order
        PROVE  thread[t].end <= IF Order[l] = "transpose" THEN Tiles ELSE Iterations(l)
    <3>1. CASE l = 2
      BY <1>2, <2>1, <3>1, OrderFacts, TilesType DEF Control, ThreadInv
    <3>2. CASE l # 2
      <4>1. l \in 1 .. 9 /\ t \in team
        BY <1>2, <2>2, OrderFacts DEF Control, ThreadInv
      <4>2. thread[t].end = Slice(Iterations(l), Cardinality(team), t)[2]
        BY <1>2, <2>2, <3>2 DEF Control, ThreadInv
      <4>3. Slice(Iterations(l), Cardinality(team), t)[2] \in 0 .. Iterations(l)
        BY <1>2, <4>1, TeamSlices DEF Control
      <4> QED
        BY <2>2, <3>2, <4>1, <4>2, <4>3, IterationFacts, OrderNames
    <3> QED
      BY <3>1, <3>2
  <2>3. thread[t].step \in 0 .. 2 * SIZE_PI \cup 0 .. ROUNDS + 1
    <3>1. CASE thread[t].step = 0
      BY <3>1, Sizes
    <3>2. CASE thread[t].step # 0
      <4>1. thread[t].step <= LastStep(l)
        BY <1>2, <3>2 DEF Control, ThreadInv
      <4>2. LastStep(l) \in {ROUNDS + 1, 2, 2 * SIZE_PI, 0}
        BY DEF LastStep
      <4> QED
        BY <2>1, <4>1, <4>2, Sizes
    <3> QED
      BY <3>1, <3>2
  <2> QED
    BY <2>2, <2>3
<1> QED
  BY <1>1, <1>2

\* How a thread enters a loop.
LEMMA EnterMeans ==
    ASSUME NEW l \in 1 .. 9, NEW m \in 1 .. MAX_THREADS, NEW t \in Thread
    PROVE  LET e == Enter(l, m, t)
               s == Slice(Iterations(l), m, t)
           IN  /\ e \in [loop : Loop, next : Nat, end : Nat, step : Nat]
               /\ e.loop = IF t < m THEN l ELSE 0
               /\ e.next = IF t < m /\ l # 2 THEN s[1] ELSE 0
               /\ e.end = IF t < m /\ l # 2 THEN s[2] ELSE 0
               /\ e.step = 0 /\ e.next <= e.end
<1> DEFINE s == Slice(Iterations(l), m, t)
           p == IF t >= m \/ Order[l] = "transpose" THEN <<0, 0>> ELSE s
<1>1. t \in Nat /\ m \in Nat \ {0} /\ (Order[l] = "transpose" <=> l = 2) /\ l \in Loop /\ 0 \in Loop
  BY Sizes, OrderFacts, OrderNames DEF Thread
<1>2. t < m => s[1] \in Nat /\ s[2] \in Nat /\ s[1] <= s[2]
  <2> SUFFICES ASSUME t < m PROVE s[1] \in Nat /\ s[2] \in Nat /\ s[1] <= s[2]
    OBVIOUS
  <2> DEFINE n == Iterations(l)
  <2>1. n \in Nat \ {0} /\ t \in 0 .. m - 1
    BY <1>1, IterationFacts
  <2> HIDE DEF n
  <2>2. /\ Slice(n, m, t)[1] \in 0 .. n /\ Slice(n, m, t)[2] \in 0 .. n
        /\ Slice(n, m, t)[1] <= Slice(n, m, t)[2]
    BY <1>1, <2>1, SliceFacts
  <2> QED
    BY <2>1, <2>2 DEF n
<1> HIDE DEF s
<1>3. /\ p[1] = IF t < m /\ l # 2 THEN s[1] ELSE 0
      /\ p[2] = IF t < m /\ l # 2 THEN s[2] ELSE 0
  BY <1>1
<1>4. Enter(l, m, t) = [loop |-> IF t < m THEN l ELSE 0, next |-> p[1], end |-> p[2], step |-> 0]
  BY DEF Enter, s
<1> HIDE DEF p
<1> QED
  BY <1>1, <1>2, <1>3, <1>4 DEF s

\* What a thread has left is in its slice.
LEMMA LeftInSlice ==
    ASSUME Control
    PROVE  \A k \in Static, u \in team :
              /\ Left(k, u) \subseteq SliceOf(k, u)
              /\ SliceOf(k, u) \subseteq 0 .. Iterations(k) - 1
<1> SUFFICES ASSUME NEW k \in Static, NEW u \in team
             PROVE  /\ Left(k, u) \subseteq SliceOf(k, u)
                    /\ SliceOf(k, u) \subseteq 0 .. Iterations(k) - 1
  OBVIOUS
<1> DEFINE s == Slice(Iterations(k), Cardinality(team), u)
<1>1. k \in 1 .. 9 /\ team \in Teams /\ k \in DOMAIN Order \ {2} /\ u \in Thread
  BY OrderFacts, TeamFacts DEF Control, Static
<1>2. s[1] \in 0 .. Iterations(k) /\ s[2] \in 0 .. Iterations(k)
  BY <1>1, TeamSlices
<1>3. thread[u].loop = k => s[1] <= thread[u].next /\ thread[u].end = s[2]
  BY <1>1 DEF Control, ThreadInv
<1>4. thread[u].loop \in Int /\ thread[u].next \in Nat /\ Iterations(k) \in Nat
  BY <1>1, IterationFacts DEF Control, Loop
<1> HIDE DEF s
<1>5. SliceOf(k, u) = s[1] .. s[2] - 1
  BY DEF SliceOf, s
<1> QED
  BY <1>2, <1>3, <1>4, <1>5 DEF Left

\* No two threads have an iteration of one slice.
LEMMA SlicesApart ==
    ASSUME Control
    PROVE  \A k \in Static : \A u, w \in team : \A i :
              i \in SliceOf(k, u) /\ i \in SliceOf(k, w) => u = w
<1> SUFFICES ASSUME NEW k \in Static, NEW u \in team, NEW w \in team, NEW i,
                    i \in SliceOf(k, u), i \in SliceOf(k, w)
             PROVE  u = w
  OBVIOUS
<1>1. k \in 1 .. 9 /\ team \in Teams
  BY DEF Control, Static
<1>2. i \in 0 .. Iterations(k) - 1
  BY LeftInSlice
<1> QED
  BY <1>1, <1>2, TeamSlices DEF SliceOf

\* A loop nobody has come to is ahead as a whole, one that all have left is not.
LEMMA AheadWhole ==
    ASSUME Control, NEW k \in Static
    PROVE  /\ (\A u \in team : thread[u].loop < k) => Ahead(k) = 0 .. Iterations(k) - 1
           /\ (\A u \in team : Left(k, u) = SliceOf(k, u)) => Ahead(k) = 0 .. Iterations(k) - 1
           /\ (\A u \in team : thread[u].loop > k) => Ahead(k) = {}
           /\ Ahead(k) \subseteq 0 .. Iterations(k) - 1
<1>1. k \in 1 .. 9 /\ team \in Teams
  BY DEF Control, Static
<1>2. Ahead(k) \subseteq 0 .. Iterations(k) - 1
  BY LeftInSlice DEF Ahead
<1>3. ASSUME \A u \in team : Left(k, u) = SliceOf(k, u), NEW i \in 0 .. Iterations(k) - 1
      PROVE  i \in Ahead(k)
  <2>1. PICK u \in team : u = (i * Cardinality(team)) \div Iterations(k)
    BY <1>1, SlicesCover
  <2>2. i \in SliceOf(k, u)
    BY <1>1, <2>1, TeamSlices DEF SliceOf
  <2> QED
    BY <1>3, <2>2 DEF Ahead
<1>5. (\A u \in team : thread[u].loop < k) => \A u \in team : Left(k, u) = SliceOf(k, u)
  BY DEF Left
<1>4. ASSUME \A u \in team : thread[u].loop > k PROVE Ahead(k) = {}
  <2>1. \A u \in team : thread[u].loop \in Int /\ k \in Int
    BY <1>1, TeamFacts DEF Control, Loop
  <2>2. \A u \in team : Left(k, u) = {}
    BY <1>4, <2>1 DEF Left
  <2> QED
    BY <2>2 DEF Ahead
<1> QED
  BY <1>2, <1>3, <1>4, <1>5

\* After a step, too.
LEMMA AheadWholeNext ==
    (Control => \A k \in Static :
       /\ (\A u \in team : thread[u].loop < k) => Ahead(k) = 0 .. Iterations(k) - 1
       /\ (\A u \in team : Left(k, u) = SliceOf(k, u)) => Ahead(k) = 0 .. Iterations(k) - 1
       /\ (\A u \in team : thread[u].loop > k) => Ahead(k) = {})'
<1>1. Control => \A k \in Static :
       /\ (\A u \in team : thread[u].loop < k) => Ahead(k) = 0 .. Iterations(k) - 1
       /\ (\A u \in team : Left(k, u) = SliceOf(k, u)) => Ahead(k) = 0 .. Iterations(k) - 1
       /\ (\A u \in team : thread[u].loop > k) => Ahead(k) = {}
  BY AheadWhole
<1> QED
  BY <1>1, PTL

\* The tiles that are ahead are those not handed out and those threads hold.
LEMMA TilesAheadMeans ==
    ASSUME Control
    PROVE  \A k : k \in TilesAhead <=> \/ k \in tile .. Tiles - 1
                                       \/ \E u \in team : In(u, 2) /\ thread[u].next = k
<1> SUFFICES ASSUME NEW u \in team, In(u, 2)
             PROVE  thread[u].next \in 0 .. Tiles - 1
  BY DoingMeans DEF TilesAhead, It
<1>1. u \in Thread /\ thread[u].loop = 2 /\ thread[u].next < thread[u].end
  BY TeamFacts DEF Control, In
<1>2. thread[u].end <= tile /\ thread[u].next \in Nat /\ thread[u].end \in Nat
  BY <1>1 DEF Control, ThreadInv
<1> QED
  BY <1>1, <1>2, TilesType DEF Control

\* What ThreadInv says of one thread, of a team T.
Placed(h, u, T, given_tile, server, shifts) ==
    /\ u \notin T => h.loop = 0
    /\ h.loop \notin DOMAIN Order => h.next = 0 /\ h.end = 0
    /\ h.loop \in DOMAIN Order \ {2} =>
          /\ Slice(Iterations(h.loop), Cardinality(T), u)[1] <= h.next
          /\ h.end = Slice(Iterations(h.loop), Cardinality(T), u)[2]
    /\ h.loop = 2 => h.end <= h.next + 1 /\ h.end <= given_tile
    /\ h.loop = 3 => server = 1
    /\ h.step # 0 => /\ h.next < h.end
                     /\ h.step <= LastStep(h.loop)
                     /\ h.loop = 4 => shifts[1][h.next] # 0
                     /\ h.loop = 5 => shifts[2][h.next] # 0

\* Before and after a step.
LEMMA ThreadInvMeans ==
    /\ ThreadInv <=> \A u \in Thread :
                        Placed(thread[u], u, team, tile, serverNo, circularShift)
    /\ ThreadInv' <=> \A u \in Thread :
                        Placed(thread'[u], u, team', tile', serverNo', circularShift')
<1>1. /\ ShiftOf(Order[4]) = circularShift[1] /\ ShiftOf(Order[5]) = circularShift[2]
      /\ ShiftOf(Order[4])' = circularShift'[1] /\ ShiftOf(Order[5])' = circularShift'[2]
  BY OrderFacts DEF ShiftOf
<1> QED
  BY <1>1 DEF ThreadInv, Placed

-----------------------------------------------------------------------------
\* A step inside an iteration.
LEMMA StepOnFacts ==
    ASSUME Control, NEW t \in Thread, NEW l \in 1 .. 9, In(t, l), StepOn(t),
           UNCHANGED <<team, tile, serverNo, numThreads, circularShift>>,
           thread[t].step + 1 <= LastStep(l),
           l \in {4, 5} => ShiftOf(Order[l])[thread[t].next] # 0
    PROVE  /\ Control'
           /\ \A k : Ahead(k)' = Ahead(k)
           /\ \A k : \A u \in team : Left(k, u)' = Left(k, u)
           /\ \A k, u : SliceOf(k, u)' = SliceOf(k, u)
           /\ TilesAhead' = TilesAhead
           /\ \A u, k : In(u, k)' <=> In(u, k)
           /\ \A u \in Thread :
                /\ thread'[u].loop = thread[u].loop /\ thread'[u].next = thread[u].next
                /\ thread'[u].end = thread[u].end
                /\ thread'[u].step = IF u = t THEN thread[t].step + 1 ELSE thread[u].step
<1>1. /\ thread \in [Thread -> [loop : Loop, next : Nat, end : Nat, step : Nat]]
      /\ team \in Teams /\ team \subseteq Thread
  BY TeamFacts DEF Control
<1>2. /\ thread' \in [Thread -> [loop : Loop, next : Nat, end : Nat, step : Nat]]
      /\ \A u \in Thread :
                /\ thread'[u].loop = thread[u].loop /\ thread'[u].next = thread[u].next
                /\ thread'[u].end = thread[u].end
                /\ thread'[u].step = IF u = t THEN thread[t].step + 1 ELSE thread[u].step
  BY <1>1 DEF StepOn
<1>3. \A u, k : In(u, k)' <=> In(u, k)
  BY <1>1, <1>2 DEF In
<1>4. /\ \A k : \A u \in team : Left(k, u)' = Left(k, u)
      /\ \A k, u : SliceOf(k, u)' = SliceOf(k, u)
  BY <1>1, <1>2 DEF Left, SliceOf
<1>5. \A k : Ahead(k)' = Ahead(k)
  BY <1>4 DEF Ahead
<1>6. ThreadInv'
  <2> SUFFICES ASSUME NEW u \in Thread
               PROVE  Placed(thread'[u], u, team, tile, serverNo, circularShift)
    BY ThreadInvMeans
  <2>1. Placed(thread[u], u, team, tile, serverNo, circularShift)
    BY ThreadInvMeans DEF Control
  <2>2. l = 4 => circularShift[1][thread[t].next] # 0
    BY OrderFacts DEF ShiftOf
  <2>3. l = 5 => circularShift[2][thread[t].next] # 0
    BY OrderFacts DEF ShiftOf
  <2>4. CASE u = t
    BY <1>1, <1>2, <2>1, <2>2, <2>3, <2>4 DEF Placed, In
  <2>5. CASE u # t
    BY <1>1, <1>2, <2>1, <2>5 DEF Placed
  <2> QED
    BY <2>4, <2>5
<1>7. TeamInv'
  <2>1. TeamInv
    BY DEF Control
  <2>2. \A u \in team : It(u)' = It(u)
    BY <1>1, <1>2 DEF It
  <2>3. \A u \in team : (Doing(u, "transpose"))' <=> Doing(u, "transpose")
    BY <1>3, DoingMeans, DoingMeansNext
  <2>4. 0 \in team
    BY <1>1, TeamFacts
  <2> QED
    BY <1>1, <1>2, <2>1, <2>2, <2>3, <2>4 DEF TeamInv
<1>8. Control'
  BY <1>1, <1>2, <1>6, <1>7 DEF Control
<1>9. TilesAhead' = TilesAhead
  <2>1. \A u \in team : It(u)' = It(u)
    BY <1>1, <1>2 DEF It
  <2>2. \A u \in team : (Doing(u, "transpose"))' <=> Doing(u, "transpose")
    BY <1>3, DoingMeans, DoingMeansNext
  <2> QED
    BY <2>1, <2>2 DEF TilesAhead
<1> QED
  BY <1>2, <1>3, <1>4, <1>5, <1>8, <1>9

\* The end of an iteration: it is not ahead any more.
LEMMA NextItemFacts ==
    ASSUME Control, NEW t \in Thread, NEW l \in 1 .. 9, In(t, l), NextItem(t),
           UNCHANGED <<team, tile, serverNo, numThreads, circularShift>>
    PROVE  /\ Control'
           /\ \A k : k # l => Ahead(k)' = Ahead(k)
           /\ l # 2 => /\ It(t) \in Left(l, t) /\ It(t) \in 0 .. Iterations(l) - 1
                       /\ Left(l, t)' = Left(l, t) \ {It(t)}
                       /\ Ahead(l)' = Ahead(l) \ {It(t)}
           /\ l = 2 => It(t) \in 0 .. Tiles - 1 /\ It(t) \in TilesAhead
           /\ TilesAhead' = IF l = 2 THEN TilesAhead \ {It(t)} ELSE TilesAhead
           /\ \A k : \A u \in team : k # l \/ u # t => Left(k, u)' = Left(k, u)
           /\ \A k, u : SliceOf(k, u)' = SliceOf(k, u)
           /\ \A u, k : u # t => (In(u, k)' <=> In(u, k))
           /\ \A k : In(t, k)' => k = l
           /\ \A u \in Thread :
                /\ thread'[u].loop = thread[u].loop /\ thread'[u].end = thread[u].end
                /\ thread'[u].next = IF u = t THEN thread[t].next + 1 ELSE thread[u].next
                /\ thread'[u].step = IF u = t THEN 0 ELSE thread[u].step
<1>1. /\ thread \in [Thread -> [loop : Loop, next : Nat, end : Nat, step : Nat]]
      /\ team \in Teams /\ team \subseteq Thread /\ t \in team
      /\ thread[t].loop = l /\ thread[t].next < thread[t].end
  BY TeamFacts DEF Control, In
<1>2. /\ thread' \in [Thread -> [loop : Loop, next : Nat, end : Nat, step : Nat]]
      /\ \A u \in Thread :
                /\ thread'[u].loop = thread[u].loop /\ thread'[u].end = thread[u].end
                /\ thread'[u].next = IF u = t THEN thread[t].next + 1 ELSE thread[u].next
                /\ thread'[u].step = IF u = t THEN 0 ELSE thread[u].step
  <2>1. /\ thread'[t].loop = l /\ thread'[t].end = thread[t].end
        /\ thread'[t].next = thread[t].next + 1 /\ thread'[t].step = 0
    BY <1>1 DEF NextItem
  <2>2. \A u \in Thread : u # t => thread'[u] = thread[u]
    BY <1>1 DEF NextItem
  <2>3. thread' \in [Thread -> [loop : Loop, next : Nat, end : Nat, step : Nat]]
    <3> DEFINE h == [thread EXCEPT ![t].next = @ + 1]
    <3>1. h \in [Thread -> [loop : Loop, next : Nat, end : Nat, step : Nat]]
      BY <1>1
    <3>2. thread' = [h EXCEPT ![t].step = 0]
      BY DEF NextItem
    <3> HIDE DEF h
    <3> QED
      BY <1>1, <3>1, <3>2
  <2> QED
    BY <1>1, <2>1, <2>2, <2>3
<1>3. /\ \A u, k : u # t => (In(u, k)' <=> In(u, k))
      /\ \A k : In(t, k)' => k = l
  BY <1>1, <1>2 DEF In
<1>4. /\ \A k : \A u \in team : k # l \/ u # t => Left(k, u)' = Left(k, u)
      /\ \A k, u : SliceOf(k, u)' = SliceOf(k, u)
  BY <1>1, <1>2 DEF Left, SliceOf
<1>5. \A k : k # l => Ahead(k)' = Ahead(k)
  BY <1>4 DEF Ahead
<1>6. ASSUME l # 2
      PROVE  /\ It(t) \in Left(l, t) /\ It(t) \in 0 .. Iterations(l) - 1
             /\ Left(l, t)' = Left(l, t) \ {It(t)}
             /\ Ahead(l)' = Ahead(l) \ {It(t)}
  <2>1. l \in Static
    BY <1>6 DEF Static
  <2>2. /\ Left(l, t) = thread[t].next .. thread[t].end - 1
        /\ Left(l, t)' = thread[t].next + 1 .. thread[t].end - 1
    BY <1>1, <1>2 DEF Left
  <2>3. It(t) \in Left(l, t) /\ Left(l, t)' = Left(l, t) \ {It(t)}
    BY <1>1, <2>2 DEF It
  <2>4. It(t) \in 0 .. Iterations(l) - 1
    BY <1>1, <2>1, <2>3, LeftInSlice
  <2>5. \A u \in team : It(t) \in Left(l, u) => u = t
    BY <1>1, <2>1, <2>3, LeftInSlice, SlicesApart
  <2>6. Ahead(l)' = Ahead(l) \ {It(t)}
    BY <1>1, <1>4, <2>3, <2>5 DEF Ahead
  <2> QED
    BY <2>3, <2>4, <2>6
<1>7. ThreadInv'
  <2> SUFFICES ASSUME NEW u \in Thread
               PROVE  Placed(thread'[u], u, team, tile, serverNo, circularShift)
    BY ThreadInvMeans
  <2>1. Placed(thread[u], u, team, tile, serverNo, circularShift)
    BY ThreadInvMeans DEF Control
  <2>2. CASE u = t
    <3>1. t \in team /\ l \in DOMAIN Order
      BY <1>1, OrderFacts
    <3>2. l # 2 => Slice(Iterations(l), Cardinality(team), t)[1] \in Nat
      BY <1>1, TeamSlices, IterationFacts
    <3> QED
      BY <1>1, <1>2, <2>1, <2>2, <3>1, <3>2, OrderFacts DEF Placed
  <2>3. CASE u # t
    BY <1>1, <1>2, <2>1, <2>3 DEF Placed
  <2> QED
    BY <2>2, <2>3
<1>8. TeamInv'
  <2>1. TeamInv
    BY DEF Control
  <2>2. \A u \in team : u # t => It(u)' = It(u)
    BY <1>1, <1>2 DEF It
  <2>3. \A u : u # t => ((Doing(u, "transpose"))' <=> Doing(u, "transpose"))
    BY <1>3, DoingMeans, DoingMeansNext
  <2>4. ~(Doing(t, "transpose"))'
    <3> SUFFICES ASSUME l = 2 PROVE ~(Doing(t, "transpose"))'
      BY <1>3, DoingMeansNext
    <3>1. thread[t].end <= thread[t].next + 1
      BY <1>1 DEF Control, ThreadInv
    <3> QED
      BY <1>1, <1>2, <3>1, DoingMeansNext DEF In
  <2>5. 0 \in team
    BY <1>1, TeamFacts
  <2>6. \A u, w \in team : thread'[u].loop < thread'[w].loop =>
              /\ thread'[u].loop \in {4, 6, 8} /\ thread'[w].loop = thread'[u].loop + 1
              /\ thread'[u].next = thread'[u].end
    BY <1>1, <1>2, <2>1 DEF TeamInv
  <2> QED
    BY <1>1, <1>2, <2>1, <2>2, <2>3, <2>4, <2>5, <2>6 DEF TeamInv
<1>9. Control'
  <2>1. \A u \in Thread : thread'[u].next <= thread'[u].end
    BY <1>1, <1>2 DEF Control
  <2> QED
    BY <1>1, <1>2, <1>7, <1>8, <2>1 DEF Control
<1>10. /\ l = 2 => It(t) \in 0 .. Tiles - 1 /\ It(t) \in TilesAhead
       /\ TilesAhead' = IF l = 2 THEN TilesAhead \ {It(t)} ELSE TilesAhead
  <2>1. \A u \in team : u # t => It(u)' = It(u)
    BY <1>1, <1>2 DEF It
  <2>2. \A u : u # t => ((Doing(u, "transpose"))' <=> Doing(u, "transpose"))
    BY <1>3, DoingMeans, DoingMeansNext
  <2>3. CASE l # 2
    <3>1. ~(Doing(t, "transpose"))' /\ ~Doing(t, "transpose")
      BY <1>1, <1>2, <2>3, DoingMeans, DoingMeansNext DEF In
    <3> QED
      BY <2>1, <2>2, <2>3, <3>1 DEF TilesAhead
  <2>4. CASE l = 2
    <3>1. thread[t].end <= thread[t].next + 1 /\ thread[t].end <= tile
      BY <1>1, <2>4 DEF Control, ThreadInv
    <3>2. ~(Doing(t, "transpose"))' /\ Doing(t, "transpose")
      BY <1>1, <1>2, <2>4, <3>1, DoingMeans, DoingMeansNext DEF In
    <3>3. It(t) \in 0 .. Tiles - 1 /\ It(t) \notin tile .. Tiles - 1
      BY <1>1, <3>1, TilesType DEF It, Control
    <3>4. \A u \in team : Doing(u, "transpose") /\ It(u) = It(t) => u = t
      BY <1>1, <3>2 DEF Control, TeamInv
    <3> QED
      BY <1>1, <2>1, <2>2, <2>4, <3>2, <3>3, <3>4 DEF TilesAhead
  <2> QED
    BY <2>3, <2>4
<1> QED
  BY <1>2, <1>3, <1>4, <1>5, <1>6, <1>9, <1>10

\* A thread takes the next tile.
LEMMA TakeTileFacts ==
    ASSUME Control, NEW t \in Thread, TakeTile(t)
    PROVE  /\ Control'
           /\ \A k : k # 2 => Ahead(k)' = Ahead(k)
           /\ TilesAhead' = TilesAhead
           /\ \A k : \A u \in team : k # 2 => Left(k, u)' = Left(k, u)
           /\ \A u, k : k # 2 => (In(u, k)' <=> In(u, k))
           /\ \A u \in Thread :
                /\ thread'[u].loop = thread[u].loop
                /\ thread[u].loop # 2 => thread'[u] = thread[u]
<1>1. /\ thread \in [Thread -> [loop : Loop, next : Nat, end : Nat, step : Nat]]
      /\ team \in Teams /\ team \subseteq Thread /\ t \in team /\ 0 \in team
      /\ thread[t].loop = 2 /\ thread[t].next = thread[t].end
      /\ tile \in 0 .. Tiles /\ tile < Tiles /\ Tiles \in Nat
  BY TeamFacts, OrderNames, TilesType DEF Control, TakeTile
<1>2. /\ thread' \in [Thread -> [loop : Loop, next : Nat, end : Nat, step : Nat]]
      /\ \A u \in Thread :
                /\ thread'[u].loop = thread[u].loop /\ thread'[u].step = thread[u].step
                /\ thread'[u].next = IF u = t THEN tile ELSE thread[u].next
                /\ thread'[u].end = IF u = t THEN tile + 1 ELSE thread[u].end
                /\ u # t => thread'[u] = thread[u]
      /\ tile' = tile + 1 /\ team' = team
      /\ UNCHANGED <<serverNo, numThreads, circularShift>>
  <2>1. /\ thread'[t].loop = 2 /\ thread'[t].step = thread[t].step
        /\ thread'[t].next = tile /\ thread'[t].end = tile + 1
    BY <1>1 DEF TakeTile
  <2>2. \A u \in Thread : u # t => thread'[u] = thread[u]
    BY <1>1 DEF TakeTile
  <2>3. thread' \in [Thread -> [loop : Loop, next : Nat, end : Nat, step : Nat]]
    <3> DEFINE h == [thread EXCEPT ![t].next = tile]
    <3>1. h \in [Thread -> [loop : Loop, next : Nat, end : Nat, step : Nat]]
      BY <1>1
    <3>2. thread' = [h EXCEPT ![t].end = tile + 1]
      BY DEF TakeTile
    <3> HIDE DEF h
    <3> QED
      BY <1>1, <3>1, <3>2
  <2>4. /\ tile' = tile + 1 /\ team' = team
        /\ UNCHANGED <<serverNo, numThreads, circularShift>>
    BY DEF TakeTile, given
  <2> QED
    BY <1>1, <2>1, <2>2, <2>3, <2>4
<1>3. \A u, k : u # t \/ k # 2 => (In(u, k)' <=> In(u, k))
  BY <1>1, <1>2 DEF In
<1>4. In(t, 2)' /\ ~In(t, 2)
  BY <1>1, <1>2 DEF In
<1>5. /\ \A k : \A u \in team : k # 2 => Left(k, u)' = Left(k, u)
      /\ \A k : k # 2 => Ahead(k)' = Ahead(k)
  <2>1. \A k : \A u \in team : k # 2 => Left(k, u)' = Left(k, u)
    BY <1>1, <1>2 DEF Left, SliceOf
  <2> QED
    BY <1>2, <2>1 DEF Ahead
<1>6. ThreadInv'
  <2> SUFFICES ASSUME NEW u \in Thread
               PROVE  Placed(thread'[u], u, team, tile + 1, serverNo, circularShift)
    BY <1>2, ThreadInvMeans
  <2>1. Placed(thread[u], u, team, tile, serverNo, circularShift)
    BY ThreadInvMeans DEF Control
  <2> QED
    BY <1>1, <1>2, <2>1, OrderFacts DEF Placed
<1>7. \A u \in team : In(u, 2) => It(u) < tile /\ It(u)' = It(u) /\ u # t
  BY <1>1, <1>2 DEF Control, ThreadInv, In, It
<1>8. TeamInv'
  <2>1. TeamInv
    BY DEF Control
  <2>2. \A u, w \in team : thread'[u].loop < thread'[w].loop =>
              /\ thread'[u].loop \in {4, 6, 8} /\ thread'[w].loop = thread'[u].loop + 1
              /\ thread'[u].next = thread'[u].end
    BY <1>1, <1>2, <2>1 DEF TeamInv
  <2>3. ASSUME NEW u \in team, NEW w \in team, In(u, 2)', In(w, 2)', It(u)' = It(w)'
        PROVE  u = w
    <3>1. It(t)' = tile
      BY <1>1, <1>2 DEF It
    <3>2. CASE u # t /\ w # t
      <4>1. In(u, 2) /\ In(w, 2) /\ It(u) = It(w)
        BY <1>3, <1>7, <2>3, <3>2
      <4> QED
        BY <2>1, <4>1, DoingMeans DEF TeamInv
    <3>3. CASE u = t /\ w # t
      <4>1. In(w, 2)
        BY <1>3, <2>3, <3>3
      <4>2. It(w) < tile /\ It(w)' = It(w)
        BY <1>7, <4>1
      <4> QED
        BY <1>1, <2>3, <3>1, <3>3, <4>2 DEF It
    <3>4. CASE u # t /\ w = t
      <4>1. In(u, 2)
        BY <1>3, <2>3, <3>4
      <4>2. It(u) < tile /\ It(u)' = It(u)
        BY <1>7, <4>1
      <4> QED
        BY <1>1, <2>3, <3>1, <3>4, <4>2 DEF It
    <3> QED
      BY <3>2, <3>3, <3>4
  <2>4. (thread'[0].loop < 2 => tile' = 0) /\ (thread'[0].loop > 2 => tile' = Tiles)
    <3>1. thread[0].loop = 2
      <4>1. thread[0].loop \in Int
        BY <1>1 DEF Loop
      <4>2. ~(thread[0].loop < thread[t].loop) /\ ~(thread[t].loop < thread[0].loop)
        BY <1>1, <2>1, <4>1 DEF TeamInv
      <4> QED
        BY <1>1, <4>1, <4>2
    <3> QED
      BY <1>1, <1>2, <3>1
  <2> QED
    BY <1>2, <2>2, <2>3, <2>4, DoingMeansNext DEF TeamInv
<1>9. Control'
  <2>1. \A u \in Thread : thread'[u].next <= thread'[u].end
    BY <1>1, <1>2 DEF Control
  <2> QED
    BY <1>1, <1>2, <1>6, <1>8, <2>1 DEF Control
<1>10. TilesAhead' = TilesAhead
  <2> SUFFICES ASSUME NEW k \in 0 .. Tiles - 1
               PROVE  (k \in TilesAhead)' <=> k \in TilesAhead
    BY <1>1, <1>2 DEF TilesAhead
  <2>1. k \in TilesAhead <=> k >= tile \/ \E u \in team : In(u, 2) /\ It(u) = k
    BY <1>1, DoingMeans DEF TilesAhead
  <2>2. (k \in TilesAhead)' <=> k >= tile + 1 \/ \E u \in team : In(u, 2)' /\ It(u)' = k
    BY <1>1, <1>2, DoingMeansNext DEF TilesAhead
  <2>3. It(t)' = tile
    BY <1>1, <1>2 DEF It
  <2> QED
    BY <1>1, <1>3, <1>4, <1>7, <2>1, <2>2, <2>3
<1> QED
  BY <1>1, <1>2, <1>3, <1>5, <1>9, <1>10

-----------------------------------------------------------------------------
\* While one thread is in loop l, everybody is, or waits before it: what
\* comes earlier is done, what comes later has not begun.
LEMMA AtLoop ==
    ASSUME Control, NEW t \in Thread, NEW l \in 1 .. 9, In(t, l)
    PROVE  /\ \A u \in team : \/ thread[u].loop = l
                              \/ /\ l \in {5, 7, 9} /\ thread[u].loop = l - 1
                                 /\ thread[u].next = thread[u].end
           /\ \A k \in Static : k < l => Ahead(k) = {}
           /\ \A k \in Static : k > l => Ahead(k) = 0 .. Iterations(k) - 1
           /\ l > 2 => TilesAhead = {}
           /\ l = 3 => serverNo = 1
<1>1. /\ thread \in [Thread -> [loop : Loop, next : Nat, end : Nat, step : Nat]]
      /\ team \in Teams /\ team \subseteq Thread /\ t \in team /\ 0 \in team
      /\ thread[t].loop = l /\ thread[t].next < thread[t].end
      /\ \A u \in team : thread[u].loop \in 0 .. 10
  BY TeamFacts, OrderFacts DEF Control, In
<1>2. ASSUME NEW u \in team
      PROVE  \/ thread[u].loop = l
             \/ /\ l \in {5, 7, 9} /\ thread[u].loop = l - 1
                /\ thread[u].next = thread[u].end
  <2>1. ~(thread[t].loop < thread[u].loop)
    <3>1. thread[t].next # thread[t].end
      BY <1>1
    <3> QED
      BY <1>1, <3>1 DEF Control, TeamInv
  <2>2. thread[u].loop < thread[t].loop =>
              /\ thread[u].loop \in {4, 6, 8} /\ thread[t].loop = thread[u].loop + 1
              /\ thread[u].next = thread[u].end
    BY <1>1 DEF Control, TeamInv
  <2> QED
    BY <1>1, <2>1, <2>2
<1>3. ASSUME NEW k \in Static, k < l PROVE Ahead(k) = {}
  <2> SUFFICES ASSUME NEW u \in team PROVE Left(k, u) = {}
    BY DEF Ahead
  <2>1. k \in Int /\ thread[u].next \in Nat /\ thread[u].end \in Nat
    BY <1>1 DEF Static
  <2>2. thread[u].loop > k \/ (thread[u].loop = k /\ thread[u].next = thread[u].end)
    BY <1>1, <1>2, <1>3, <2>1
  <2> QED
    BY <1>1, <2>1, <2>2 DEF Left
<1>4. ASSUME NEW k \in Static, k > l PROVE Ahead(k) = 0 .. Iterations(k) - 1
  <2>1. \A u \in team : thread[u].loop < k
    BY <1>1, <1>2, <1>4 DEF Static
  <2> QED
    BY <2>1, AheadWhole
<1>5. ASSUME l > 2 PROVE TilesAhead = {}
  <2>1. \A u \in team : thread[u].loop > 2
    BY <1>1, <1>2, <1>5
  <2>2. tile = Tiles
    BY <1>1, <2>1 DEF Control, TeamInv
  <2>3. \A u \in team : ~In(u, 2)
    BY <2>1 DEF In
  <2> QED
    BY <2>2, <2>3, TilesType, DoingMeans DEF TilesAhead
<1>6. l = 3 => serverNo = 1
  BY <1>1 DEF Control, ThreadInv
<1> QED
  BY <1>2, <1>3, <1>4, <1>5, <1>6

\* A thread passes the barrier at the end of its loop.
LEMMA PassBarrierFacts ==
    ASSUME Control, NEW t \in Thread, PassBarrier(t)
    PROVE  /\ Control'
           /\ t \in team /\ thread[t].loop \in {4, 6, 8}
           /\ Ahead(thread[t].loop) = {}
           /\ \A k \in Static : Ahead(k)' = Ahead(k)
           /\ TilesAhead' = TilesAhead
           /\ \A k \in Static : \A u \in team : Left(k, u)' = Left(k, u)
           /\ \A k, u : SliceOf(k, u)' = SliceOf(k, u)
           /\ \A u, k : u # t => (In(u, k)' <=> In(u, k))
           /\ \A k : ~In(t, k) /\ (In(t, k)' => k = thread[t].loop + 1)
           /\ thread'[t].loop = thread[t].loop + 1 /\ thread'[t].step = 0
           /\ \A u \in Thread : u # t => thread'[u] = thread[u]
           /\ \A u \in team : \/ thread[u].loop = thread[t].loop + 1
                              \/ thread[u].loop = thread[t].loop
           /\ team' = team
<1> DEFINE l == thread[t].loop
           m == Cardinality(team)
           s == Slice(Iterations(l + 1), m, t)
<1>1. /\ thread \in [Thread -> [loop : Loop, next : Nat, end : Nat, step : Nat]]
      /\ team \in Teams /\ team \subseteq Thread /\ t \in team /\ 0 \in team
      /\ \A u \in team : thread[u].loop \in 0 .. 10
  BY TeamFacts, OrderFacts DEF Control, PassBarrier
<1>2. l \in {4, 6, 8} /\ thread[t].next = thread[t].end
  BY OrderNames, DoingMeans DEF PassBarrier
<1>3. \A u \in team : thread[u].loop > l \/ thread[u].next = thread[u].end
  BY DoingMeans DEF PassBarrier, Arrived
<1>4. ASSUME NEW u \in team
      PROVE  \/ thread[u].loop = l + 1
             \/ thread[u].loop = l /\ thread[u].next = thread[u].end
  <2>1. /\ l < thread[u].loop => thread[u].loop = l + 1
        /\ thread[u].loop < l => thread[u].loop \in {4, 6, 8} /\ l = thread[u].loop + 1
    BY <1>1 DEF Control, TeamInv
  <2> QED
    BY <1>1, <1>2, <1>3, <2>1
<1>5. l + 1 \in 1 .. 9 /\ l + 1 \in {5, 7, 9} /\ t < m /\ s[1] \in Nat /\ s[2] \in Nat /\ s[1] <= s[2]
  <2>1. l + 1 \in 1 .. 9 /\ l + 1 \in {5, 7, 9}
    BY <1>2
  <2>2. t < m
    BY <1>1, TeamFacts
  <2> HIDE DEF l, m
  <2>3. s[1] \in 0 .. Iterations(l + 1) /\ s[2] \in 0 .. Iterations(l + 1) /\ s[1] <= s[2]
    BY <1>1, <2>1, TeamSlices DEF m
  <2> QED
    BY <2>1, <2>2, <2>3, IterationFacts
<1>6. thread' = [thread EXCEPT ![t] = Enter(l + 1, m, t)] /\ UNCHANGED <<team, tile, given>>
  BY DEF PassBarrier, shared
<1>7. LET e == Enter(l + 1, m, t)
      IN  /\ e \in [loop : Loop, next : Nat, end : Nat, step : Nat]
          /\ e.loop = l + 1 /\ e.next = s[1] /\ e.end = s[2] /\ e.step = 0
  <2>1. m \in 1 .. MAX_THREADS /\ t \in Thread
    BY <1>1, TeamFacts
  <2> HIDE DEF l, m
  <2> QED
    BY <1>5, <2>1, EnterMeans
<1>8. /\ thread' \in [Thread -> [loop : Loop, next : Nat, end : Nat, step : Nat]]
      /\ thread'[t].loop = l + 1 /\ thread'[t].next = s[1] /\ thread'[t].end = s[2]
      /\ thread'[t].step = 0
      /\ \A u \in Thread : u # t => thread'[u] = thread[u]
  <2> HIDE DEF l, m, s
  <2> QED
    BY <1>1, <1>6, <1>7
<1> HIDE DEF s
<1>9. /\ \A u, k : u # t => (In(u, k)' <=> In(u, k))
      /\ \A k : ~In(t, k) /\ (In(t, k)' => k = l + 1)
  BY <1>1, <1>2, <1>6, <1>8 DEF In
<1>10. \A k, u : SliceOf(k, u)' = SliceOf(k, u)
  BY <1>6 DEF SliceOf
<1>11. ASSUME NEW k \in Static, NEW u \in team PROVE Left(k, u)' = Left(k, u)
  <2>1. CASE u # t
    BY <1>1, <1>6, <1>8, <1>10, <2>1 DEF Left
  <2>2. CASE u = t
    <3>1. k \in Int
      BY DEF Static
    <3>2. SliceOf(l + 1, t) = s[1] .. s[2] - 1
      BY DEF SliceOf, s
    <3>3. CASE k = l
      BY <1>1, <1>2, <1>5, <1>8, <2>2, <3>3 DEF Left
    <3>4. CASE k = l + 1
      <4>1. Left(k, t) = SliceOf(l + 1, t)
        BY <1>2, <3>4 DEF Left
      <4>2. Left(k, t)' = s[1] .. s[2] - 1
        BY <1>8, <3>4 DEF Left
      <4> QED
        BY <2>2, <3>2, <4>1, <4>2
    <3>5. CASE k < l
      BY <1>2, <1>8, <2>2, <3>1, <3>5 DEF Left
    <3>6. CASE k > l + 1
      BY <1>2, <1>8, <1>10, <2>2, <3>1, <3>6 DEF Left
    <3> QED
      BY <1>2, <3>1, <3>3, <3>4, <3>5, <3>6
  <2> QED
    BY <2>1, <2>2
<1>12. \A k \in Static : Ahead(k)' = Ahead(k)
  BY <1>6, <1>11 DEF Ahead
<1>13. Ahead(l) = {}
  <2> SUFFICES ASSUME NEW u \in team PROVE Left(l, u) = {}
    BY DEF Ahead
  <2> QED
    BY <1>1, <1>2, <1>4 DEF Left
<1>14. TilesAhead' = TilesAhead
  <2>1. ~In(t, 2)' /\ ~In(t, 2)
    BY <1>5, <1>9
  <2>2. \A u \in team : u # t => It(u)' = It(u)
    BY <1>1, <1>8 DEF It
  <2> QED
    BY <1>6, <1>9, <2>1, <2>2, DoingMeans, DoingMeansNext DEF TilesAhead
<1>15. ThreadInv'
  <2> SUFFICES ASSUME NEW u \in Thread
               PROVE  Placed(thread'[u], u, team, tile, serverNo, circularShift)
    BY <1>6, ThreadInvMeans DEF given
  <2>1. Placed(thread[u], u, team, tile, serverNo, circularShift)
    BY ThreadInvMeans DEF Control
  <2>2. CASE u = t
    BY <1>1, <1>5, <1>8, <2>2, OrderFacts DEF Placed, s
  <2>3. CASE u # t
    BY <1>8, <2>1, <2>3
  <2> QED
    BY <2>2, <2>3
<1>16. TeamInv'
  <2>1. TeamInv
    BY DEF Control
  <2>2. \A u \in team : thread'[u].loop \in {l, l + 1}
                        /\ (thread'[u].loop = l => thread'[u].next = thread'[u].end)
    BY <1>1, <1>4, <1>8
  <2>3. \A u \in team : ~In(u, 2)'
    BY <1>2, <2>2 DEF In
  <2>4. tile = Tiles
    <3>1. thread[0].loop > 2
      BY <1>1, <1>2, <1>4
    <3> QED
      BY <2>1, <3>1 DEF TeamInv
  <2>5. thread'[0].loop > 2 /\ ~(thread'[0].loop < 2)
    BY <1>1, <1>2, <2>2
  <2>6. \A u, w \in team : thread'[u].loop < thread'[w].loop =>
              /\ thread'[u].loop \in {4, 6, 8} /\ thread'[w].loop = thread'[u].loop + 1
              /\ thread'[u].next = thread'[u].end
    <3> HIDE DEF l
    <3> QED
      BY <1>2, <2>2
  <2>7. \A u \in team : ~(Doing(u, "transpose"))'
    BY <2>3, DoingMeansNext
  <2>8. team' = team /\ tile' = tile
    BY <1>6
  <2> QED
    BY <2>4, <2>5, <2>6, <2>7, <2>8 DEF TeamInv
<1>17. Control'
  <2>1. \A u \in Thread : thread'[u].next <= thread'[u].end
    BY <1>1, <1>5, <1>8 DEF Control
  <2> QED
    BY <1>6, <1>8, <1>15, <1>16, <2>1 DEF Control, given
<1> QED
  BY <1>1, <1>2, <1>4, <1>6, <1>8, <1>9, <1>10, <1>11, <1>12, <1>13, <1>14, <1>17

\* Where everybody is when the main thread joins its team.
LEMMA JoinFacts ==
    ASSUME Control, Joinable
    PROVE  LET L == thread[0].loop
           IN  /\ L \in 0 .. 10 /\ L \notin {4, 6, 8}
               /\ \A u \in team : thread[u].loop = L /\ thread[u].next = thread[u].end
               /\ \A u, k : ~In(u, k)
               /\ \A k \in Static : /\ k <= L => Ahead(k) = {}
                                    /\ L < k => Ahead(k) = 0 .. Iterations(k) - 1
               /\ IF L < 2 THEN tile = 0 /\ TilesAhead = 0 .. Tiles - 1
                  ELSE tile = Tiles /\ TilesAhead = {}
<1> DEFINE L == thread[0].loop
<1>1. /\ team \in Teams /\ team \subseteq Thread /\ 0 \in team
      /\ \A u \in team : /\ thread[u].loop \in 0 .. 10
                         /\ thread[u].next \in Nat /\ thread[u].end \in Nat
  BY TeamFacts, OrderFacts DEF Control
<1>2. L \in 0 .. 10 /\ L \notin {4, 6, 8}
  BY <1>1, OrderNames DEF Joinable
<1>3. \A u \in team : /\ thread[u].loop = L /\ thread[u].next = thread[u].end
                      /\ L = 2 => tile = Tiles
  BY DoingMeans DEF Joinable
<1>4. \A u, k : ~In(u, k)
  BY <1>1, <1>3 DEF In
<1>5. ASSUME NEW k \in Static
      PROVE  /\ k <= L => Ahead(k) = {}
             /\ L < k => Ahead(k) = 0 .. Iterations(k) - 1
  <2>1. k \in Nat
    BY DEF Static
  <2>2. k <= L => \A u \in team : Left(k, u) = {}
    BY <1>1, <1>2, <1>3, <2>1 DEF Left
  <2>3. L < k => \A u \in team : thread[u].loop < k
    BY <1>3
  <2> QED
    BY <2>2, <2>3, AheadWhole DEF Ahead
<1>6. /\ L < 2 => tile = 0
      /\ ~(L < 2) => tile = Tiles
  BY <1>1, <1>2, <1>3 DEF Control, TeamInv
<1>7. TilesAhead = tile .. Tiles - 1
  BY <1>4, TilesAheadMeans
<1>8. IF L < 2 THEN tile = 0 /\ TilesAhead = 0 .. Tiles - 1
      ELSE tile = Tiles /\ TilesAhead = {}
  BY <1>6, <1>7, TilesType
<1> QED
  BY <1>2, <1>3, <1>4, <1>5, <1>8

\* What a fork goes on to, and where everybody is after it.
LEMMA ForkFacts ==
    ASSUME Control, Fork
    PROVE  LET L == thread[0].loop
               F == Following
           IN  /\ L \in {0, 1, 2, 3, 5, 7} /\ F \in {1, 2, 3, 4, 6, 8}
               /\ L < F /\ L \notin {F} /\ (L # F - 1 => L = 2 /\ F = 4 /\ serverNo = 0)
               /\ Control'
               /\ \A u \in team' : thread'[u].loop = F /\ thread'[u].step = 0
               /\ \A u, k : In(u, k)' => k = F
               /\ \A k \in Static : /\ k < F => Ahead(k)' = {}
                                    /\ F <= k => Ahead(k)' = 0 .. Iterations(k) - 1
               /\ \A k \in Static : \A u \in team' :
                     F <= k => Left(k, u)' = SliceOf(k, u)'
               /\ TilesAhead' = IF F <= 2 THEN 0 .. Tiles - 1 ELSE {}
               /\ thread'[0].loop = F
<1> DEFINE L == thread[0].loop
           F == Following
<1>1. PICK m \in 1 .. Asked(F) :
        /\ team' = 0 .. m - 1
        /\ thread' = [t \in Thread |-> Enter(F, m, t)]
  BY DEF Fork
<1>2. /\ Joinable /\ F \in DOMAIN Order
      /\ UNCHANGED <<tile, serverNo, numThreads, circularShift>>
  BY DEF Fork, given
<1>3. /\ L \in 0 .. 10 /\ L \notin {4, 6, 8}
      /\ IF L < 2 THEN tile = 0 ELSE tile = Tiles
  BY <1>2, JoinFacts
<1>4. /\ L \in {0, 1, 2, 3, 5, 7} /\ F \in {1, 2, 3, 4, 6, 8} /\ F \in 1 .. 9
      /\ L < F /\ L \notin {F} /\ (L # F - 1 => L = 2 /\ F = 4 /\ serverNo = 0)
      /\ F = 3 => serverNo = 1
  BY <1>2, <1>3, OrderFacts DEF Following, Control, Server
<1> HIDE DEF F, L
<1>5. m \in 1 .. MAX_THREADS /\ team' \in Teams /\ Cardinality(team') = m
      /\ team' \subseteq Thread /\ 0 \in team'
  <2>1. Asked(F) \in 1 .. MAX_THREADS
    BY Sizes DEF Asked, Control
  <2>2. m \in 1 .. MAX_THREADS /\ team' \in Teams
    BY <1>1, <2>1, Sizes DEF Teams
  <2>3. Cardinality(team') = m
    BY <1>1, <2>2, FS_Interval
  <2> QED
    BY <2>2, <2>3, TeamFacts
<1>6. \A u \in Thread :
        LET s == Slice(Iterations(F), m, u)
        IN  /\ thread'[u] \in [loop : Loop, next : Nat, end : Nat, step : Nat]
            /\ thread'[u].loop = IF u < m THEN F ELSE 0
            /\ thread'[u].next = IF u < m /\ F # 2 THEN s[1] ELSE 0
            /\ thread'[u].end = IF u < m /\ F # 2 THEN s[2] ELSE 0
            /\ thread'[u].step = 0 /\ thread'[u].next <= thread'[u].end
  <2> SUFFICES ASSUME NEW u \in Thread
        PROVE  LET s == Slice(Iterations(F), m, u)
               IN  /\ thread'[u] \in [loop : Loop, next : Nat, end : Nat, step : Nat]
                   /\ thread'[u].loop = IF u < m THEN F ELSE 0
                   /\ thread'[u].next = IF u < m /\ F # 2 THEN s[1] ELSE 0
                   /\ thread'[u].end = IF u < m /\ F # 2 THEN s[2] ELSE 0
                   /\ thread'[u].step = 0 /\ thread'[u].next <= thread'[u].end
    OBVIOUS
  <2>1. thread'[u] = Enter(F, m, u)
    BY <1>1
  <2> QED
    BY <1>4, <1>5, <2>1, EnterMeans
<1>7. \A u \in Thread : u \in team' <=> u < m
  BY <1>1, <1>5, Sizes DEF Thread
<1>8. thread' \in [Thread -> [loop : Loop, next : Nat, end : Nat, step : Nat]]
  BY <1>1, <1>6
<1>9. ThreadInv'
  <2> SUFFICES ASSUME NEW u \in Thread
               PROVE  Placed(thread'[u], u, team', tile', serverNo', circularShift')
    BY ThreadInvMeans
  <2>1. LET s == Slice(Iterations(F), Cardinality(team'), u)
        IN  /\ thread'[u].loop = IF u < m THEN F ELSE 0
            /\ thread'[u].next = IF u < m /\ F # 2 THEN s[1] ELSE 0
            /\ thread'[u].end = IF u < m /\ F # 2 THEN s[2] ELSE 0
            /\ thread'[u].step = 0
    BY <1>5, <1>6
  <2>2. CASE u < m
    <3>1. u \in team' /\ thread'[u].loop = F /\ thread'[u].step = 0
      BY <1>7, <2>1, <2>2
    <3>2. CASE F = 2
      <4>1. tile' \in Nat /\ thread'[u].next = 0 /\ thread'[u].end = 0
        BY <1>2, <2>1, <3>2, TilesType DEF Control
      <4> QED
        BY <3>1, <3>2, <4>1, OrderFacts DEF Placed
    <3>3. CASE F # 2
      <4>1. /\ thread'[u].next = Slice(Iterations(F), Cardinality(team'), u)[1]
            /\ thread'[u].end = Slice(Iterations(F), Cardinality(team'), u)[2]
        BY <2>1, <2>2, <3>3
      <4>2. Slice(Iterations(F), Cardinality(team'), u)[1] \in Nat
        BY <1>6, <4>1
      <4> QED
        BY <1>2, <1>4, <3>1, <3>3, <4>1, <4>2, OrderFacts DEF Placed
    <3> QED
      BY <3>2, <3>3
  <2>3. CASE ~(u < m)
    BY <1>7, <2>1, <2>3, OrderFacts DEF Placed
  <2> QED
    BY <2>2, <2>3
<1>10. \A u \in team' : thread'[u].loop = F /\ thread'[u].step = 0
  BY <1>5, <1>6, <1>7
<1>11. /\ \A u, k : In(u, k)' => k = F
       /\ \A u : ~In(u, 2)'
  <2>1. \A u, k : In(u, k)' => k = F
    BY <1>10 DEF In
  <2>2. F = 2 => \A u \in team' : thread'[u].next = 0 /\ thread'[u].end = 0
    BY <1>5, <1>6
  <2> QED
    BY <2>1, <2>2 DEF In
<1>12. TeamInv'
  <2>1. \A u, w \in team' : ~(thread'[u].loop < thread'[w].loop)
    BY <1>4, <1>10
  <2>2. /\ thread'[0].loop < 2 => tile' = 0
        /\ thread'[0].loop > 2 => tile' = Tiles
    BY <1>2, <1>3, <1>4, <1>5, <1>10
  <2> QED
    BY <1>11, <2>1, <2>2, DoingMeansNext DEF TeamInv
<1>13. Control'
  <2>1. /\ \A u \in Thread : thread'[u].next <= thread'[u].end
        /\ team' \in Teams
    BY <1>5, <1>6
  <2> QED
    BY <1>2, <1>8, <1>9, <1>12, <2>1 DEF Control
<1>14. \A k \in Static : \A u \in team' : F <= k => Left(k, u)' = SliceOf(k, u)'
  <2> SUFFICES ASSUME NEW k \in Static, NEW u \in team', F <= k
               PROVE  Left(k, u)' = SliceOf(k, u)'
    OBVIOUS
  <2>1. CASE k = F
    BY <1>5, <1>6, <1>10, <2>1 DEF Left, SliceOf, Static
  <2>2. CASE k # F
    BY <1>4, <1>10, <2>2 DEF Left, Static
  <2> QED
    BY <2>1, <2>2
<1>15. \A k \in Static : /\ k < F => Ahead(k)' = {}
                         /\ F <= k => Ahead(k)' = 0 .. Iterations(k) - 1
  <2> SUFFICES ASSUME NEW k \in Static
               PROVE  /\ k < F => Ahead(k)' = {}
                      /\ F <= k => Ahead(k)' = 0 .. Iterations(k) - 1
    OBVIOUS
  <2>1. k < F => \A u \in team' : thread'[u].loop > k
    BY <1>4, <1>10 DEF Static
  <2> QED
    BY <1>13, <1>14, <2>1, AheadWholeNext
<1>16. TilesAhead' = IF F <= 2 THEN 0 .. Tiles - 1 ELSE {}
  <2>1. TilesAhead' = tile .. Tiles - 1
    BY <1>2, <1>11, DoingMeansNext DEF TilesAhead
  <2> QED
    BY <1>3, <1>4, <2>1, TilesType
<1> QED
  BY <1>4, <1>5, <1>10, <1>11, <1>13, <1>14, <1>15, <1>16 DEF F, L

\* Where everybody is when secretShare is called.
LEMMA ShareFacts ==
    ASSUME Control, Share
    PROVE  /\ thread[0].loop = 9 /\ thread'[0].loop = 10
           /\ Control'
           /\ \A u, k : ~In(u, k)'
           /\ \A k \in Static : Ahead(k) = {} /\ Ahead(k)' = {}
           /\ TilesAhead = {} /\ TilesAhead' = {}
<1>1. /\ Joinable /\ thread[0].loop = 9 /\ team' = {0}
      /\ thread' = [t \in Thread |-> [loop |-> IF t = 0 THEN 10 ELSE 0,
                                      next |-> 0, end |-> 0, step |-> 0]]
      /\ UNCHANGED <<tile, serverNo, numThreads, circularShift>>
  BY OrderFacts DEF Share, given, shared
<1>2. /\ \A k \in Static : Ahead(k) = {}
      /\ tile = Tiles /\ TilesAhead = {}
  <2>1. \A k \in Static : k <= 9 /\ ~(9 < 2)
    BY DEF Static
  <2> QED
    BY <1>1, <2>1, JoinFacts
<1>3. \A u \in Thread : /\ thread'[u].loop = IF u = 0 THEN 10 ELSE 0
                        /\ thread'[u].next = 0 /\ thread'[u].end = 0 /\ thread'[u].step = 0
  BY <1>1
<1>4. thread' \in [Thread -> [loop : Loop, next : Nat, end : Nat, step : Nat]]
  BY <1>1, OrderFacts
<1>5. team' \in Teams /\ 0 \in Thread
  <2>1. {0} = 0 .. 1 - 1 /\ 1 \in 1 .. MAX_THREADS
    BY Sizes
  <2> QED
    BY <1>1, <2>1, Sizes DEF Teams
<1>6. \A u, k : ~In(u, k)'
  BY <1>1, <1>3, <1>5 DEF In
<1>7. ThreadInv'
  <2> SUFFICES ASSUME NEW u \in Thread
               PROVE  Placed(thread'[u], u, team', tile', serverNo', circularShift')
    BY ThreadInvMeans
  <2>1. /\ thread'[u].loop = IF u = 0 THEN 10 ELSE 0
        /\ thread'[u].next = 0 /\ thread'[u].end = 0 /\ thread'[u].step = 0
    BY <1>3
  <2> QED
    BY <1>1, <2>1, OrderFacts DEF Placed
<1>8. TeamInv'
  <2>1. thread'[0].loop = 10
    BY <1>3, <1>5
  <2>2. \A u \in team' : thread'[u].loop = 10
    BY <1>1, <2>1
  <2> QED
    BY <1>1, <1>2, <1>6, <2>1, <2>2, DoingMeansNext DEF TeamInv
<1>9. Control'
  <2>1. \A u \in Thread : thread'[u].next <= thread'[u].end
    BY <1>3
  <2> QED
    BY <1>1, <1>4, <1>5, <1>7, <1>8, <2>1 DEF Control
<1>10. \A k \in Static : Ahead(k)' = {}
  <2>1. \A k \in Static : \A u \in team' : thread'[u].loop > k
    BY <1>1, <1>3, <1>5 DEF Static
  <2> QED
    BY <1>9, <2>1, AheadWholeNext
<1>11. TilesAhead' = {}
  BY <1>1, <1>2, <1>6, DoingMeansNext, TilesType DEF TilesAhead
<1> QED
  BY <1>1, <1>2, <1>3, <1>5, <1>6, <1>9, <1>10, <1>11

-----------------------------------------------------------------------------
(***************************************************************************)
(* What a step leaves alone.                                                *)
(***************************************************************************)
\* Thread u is at step n of iteration i of loop l.
Within(u, l, i, n) == In(u, l) /\ thread[u].next = i /\ thread[u].step = n

\* A step of the threads that is none within loop k: nobody starts, goes on
\* with or ends an iteration of it.
Quiet(k) ==
    /\ Ahead(k)' = Ahead(k)
    /\ \A u, i, n : n # 0 => (Within(u, k, i, n)' <=> Within(u, k, i, n))

\* And the team stays the same.
Kept(k) ==
    /\ Quiet(k) /\ team' = team
    /\ \A u \in team : Left(k, u)' = Left(k, u)
    /\ \A u : SliceOf(k, u)' = SliceOf(k, u)
    /\ k \in {6, 8} => (thread'[0].loop \in {k, k + 1} => thread[0].loop \in {k, k + 1})

\* A step of thread t in its loop is none in another one.
LEMMA OtherLoops ==
    ASSUME Control, NEW t \in Thread, NEW l \in 1 .. 9, In(t, l), team' = team,
           \A k : k # l => Ahead(k)' = Ahead(k),
           \A k : \A u \in team : k # l \/ u # t => Left(k, u)' = Left(k, u),
           \A k, u : SliceOf(k, u)' = SliceOf(k, u),
           \A u, k : u # t => (In(u, k)' <=> In(u, k)),
           \A k : In(t, k)' => k = l,
           \A u \in Thread : /\ thread'[u].loop = thread[u].loop
                             /\ u # t => /\ thread'[u].next = thread[u].next
                                         /\ thread'[u].step = thread[u].step
    PROVE  \A k \in Static : k # l => Kept(k)
<1> SUFFICES ASSUME NEW k \in Static, k # l PROVE Kept(k)
  OBVIOUS
<1>1. team \subseteq Thread /\ 0 \in team
  BY TeamFacts DEF Control
<1>2. \A u, i, n : Within(u, k, i, n)' <=> Within(u, k, i, n)
  <2> SUFFICES ASSUME NEW u, NEW i, NEW n
               PROVE  Within(u, k, i, n)' <=> Within(u, k, i, n)
    OBVIOUS
  <2>1. CASE u = t
    BY <2>1 DEF Within, In
  <2>2. CASE u # t
    BY <1>1, <2>2 DEF Within, In
  <2> QED
    BY <2>1, <2>2
<1>3. Quiet(k)
  BY <1>2 DEF Quiet
<1> QED
  BY <1>1, <1>3 DEF Kept

\* Nor is taking a tile a step of a loop with slices.
LEMMA TakeTileKept ==
    ASSUME Control, NEW t \in Thread, TakeTile(t)
    PROVE  \A k \in Static : Kept(k)
<1> SUFFICES ASSUME NEW k \in Static PROVE Kept(k)
  OBVIOUS
<1>1. k # 2 /\ team \subseteq Thread /\ 0 \in team
  BY TeamFacts DEF Control, Static
<1>2. team' = team /\ \A u : SliceOf(k, u)' = SliceOf(k, u)
  BY DEF TakeTile, SliceOf
<1>3. /\ \A u : In(u, k)' <=> In(u, k)
      /\ \A u \in Thread :
            /\ thread'[u].loop = thread[u].loop
            /\ thread[u].loop # 2 => thread'[u] = thread[u]
      /\ Ahead(k)' = Ahead(k) /\ \A u \in team : Left(k, u)' = Left(k, u)
  BY <1>1, TakeTileFacts
<1>4. \A u, i, n : Within(u, k, i, n)' <=> Within(u, k, i, n)
  BY <1>1, <1>3 DEF Within, In
<1>5. Quiet(k)
  BY <1>3, <1>4 DEF Quiet
<1> QED
  BY <1>1, <1>2, <1>3, <1>5 DEF Kept

\* Nor passing a barrier.
LEMMA PassBarrierKept ==
    ASSUME Control, NEW t \in Thread, PassBarrier(t)
    PROVE  \A k \in Static : k \in {4, 5, 6, 8} => Kept(k)
<1> SUFFICES ASSUME NEW k \in {4, 5, 6, 8} PROVE Kept(k)
  OBVIOUS
<1>1. k \in Static /\ team \subseteq Thread /\ 0 \in team
  BY TeamFacts DEF Control, Static
<1>2. /\ t \in team /\ thread[t].loop \in {4, 6, 8}
      /\ Ahead(k)' = Ahead(k) /\ \A u \in team : Left(k, u)' = Left(k, u)
      /\ \A u : SliceOf(k, u)' = SliceOf(k, u)
      /\ \A u : u # t => (In(u, k)' <=> In(u, k))
      /\ ~In(t, k)
      /\ thread'[t].loop = thread[t].loop + 1 /\ thread'[t].step = 0
      /\ \A u \in Thread : u # t => thread'[u] = thread[u]
      /\ team' = team
  BY <1>1, PassBarrierFacts
<1>3. \A u, i, n : n # 0 => (Within(u, k, i, n)' <=> Within(u, k, i, n))
  <2> SUFFICES ASSUME NEW u, NEW i, NEW n, n # 0
               PROVE  Within(u, k, i, n)' <=> Within(u, k, i, n)
    OBVIOUS
  <2>1. CASE u = t
    BY <1>2, <2>1 DEF Within
  <2>2. CASE u # t
    BY <1>1, <1>2, <2>2 DEF Within, In
  <2> QED
    BY <2>1, <2>2
<1>4. Quiet(k)
  BY <1>2, <1>3 DEF Quiet
<1>5. k \in {6, 8} => (thread'[0].loop \in {k, k + 1} => thread[0].loop \in {k, k + 1})
  BY <1>1, <1>2
<1> QED
  BY <1>2, <1>4, <1>5 DEF Kept

\* A fork begins iterations, but nobody is within one; server 0 leaves out
\* loop 3.
LEMMA ForkQuiet ==
    ASSUME Control, Fork
    PROVE  /\ \A k \in Static : k # 3 \/ serverNo = 1 => Quiet(k)
           /\ TilesAhead' = TilesAhead
<1> DEFINE L == thread[0].loop
           F == Following
<1>1. /\ L \in {0, 1, 2, 3, 5, 7} /\ F \in {1, 2, 3, 4, 6, 8}
      /\ L < F /\ (L # F - 1 => L = 2 /\ F = 4 /\ serverNo = 0)
      /\ Control'
      /\ \A u \in team' : thread'[u].step = 0
      /\ \A k \in Static : /\ k < F => Ahead(k)' = {}
                           /\ F <= k => Ahead(k)' = 0 .. Iterations(k) - 1
      /\ TilesAhead' = IF F <= 2 THEN 0 .. Tiles - 1 ELSE {}
  BY ForkFacts
<1>2. /\ \A u, k : ~In(u, k)
      /\ \A k \in Static : /\ k <= L => Ahead(k) = {}
                           /\ L < k => Ahead(k) = 0 .. Iterations(k) - 1
      /\ IF L < 2 THEN tile = 0 /\ TilesAhead = 0 .. Tiles - 1
         ELSE tile = Tiles /\ TilesAhead = {}
  BY JoinFacts DEF Fork
<1> HIDE DEF L, F
<1>3. ASSUME NEW k \in Static, k # 3 \/ serverNo = 1
      PROVE  Quiet(k)
  <2>1. k \in Int /\ ((k <= L /\ k < F) \/ (L < k /\ F <= k))
    BY <1>1, <1>3 DEF Static
  <2>2. Ahead(k)' = Ahead(k)
    BY <1>1, <1>2, <2>1
  <2>3. \A u, i, n : n # 0 => ~Within(u, k, i, n)' /\ ~Within(u, k, i, n)
    BY <1>1, <1>2 DEF Within, In
  <2> QED
    BY <2>2, <2>3 DEF Quiet
<1> QED
  BY <1>1, <1>2, <1>3

\* Nor does the end of the last region change anything.
LEMMA ShareQuiet ==
    ASSUME Control, Share
    PROVE  \A k \in Static : Quiet(k)
<1> SUFFICES ASSUME NEW k \in Static PROVE Quiet(k)
  OBVIOUS
<1>1. Ahead(k) = {} /\ Ahead(k)' = {}
  BY ShareFacts
<1>2. \A u : ~In(u, k) /\ ~In(u, k)'
  BY ShareFacts, JoinFacts DEF Share
<1> QED
  BY <1>1, <1>2 DEF Quiet, Within

-----------------------------------------------------------------------------
(***************************************************************************)
(* The parts of the invariant that are about data, and what preserves them. *)
(***************************************************************************)
\* The variables have their types.
DataTypes ==
    /\ roundKeys \in [0 .. ROUNDS -> BOOLEAN]
    /\ keystream \in [Index -> [Chunk -> Word]]
    /\ vec \in [Chunk -> Vector]
    /\ matrix \in [Matrices -> Matrix]
    /\ a \in Vector /\ b \in Vector /\ delta \in Vector
    /\ colAccum \in [Thread -> Vector] /\ temp \in [Thread -> Vector]
    /\ rowSum \in [Thread -> Word] /\ reg \in [Thread -> Word]

\* The parts of RotationInv and PassInv.
RotationOf(l) ==
    LET m == Arr(Order[l])
        c == ShiftOf(Order[l])
    IN  /\ \A i \in Index \ Ahead(l) : matrix[m][i] = Rotated(m)[i]
        /\ \A i \in Ahead(l) :
              matrix[m][i] = IF \E t : Within(t, l, i, 2) THEN Moved(Order[l], i) ELSE drawn[m][i]
        /\ \A t, i, n : n # 0 /\ Within(t, l, i, n) =>
              \A j \in 0 .. c[i] - 1 : temp[t][j] = drawn[m][i][SIZE_PI - c[i] + j]

ColumnsOf(l) ==
    thread[0].loop \in {l, l + 1} =>
        \A t \in Thread, j \in Index :
            colAccum[t][j] = XorSum(ColumnOf(Rotated(Scanned(Order[l])), j), Counted(l, t, j))
RowOf(l) ==
    \A t, i, n : n # 0 /\ Within(t, l, i, n) =>
        /\ rowSum[t] = XorSum(Rotated(Scanned(Order[l]))[i], 0 .. ((n + 1) \div 2) - 1)
        /\ n % 2 = 1 => reg[t] = colAccum[t][n \div 2]

\* The results.
RowResults    == \A i \in Index \ Ahead(6) : b[i] = RowSum(Rotated("full"), i)
ColumnResults == \A j \in Index \ Ahead(7) : a[j] = ColumnSum(Rotated("full"), j)
DeltaResults  ==
    \A i \in Index \ Ahead(8) :
        delta[i] = IF sub_pi[i] \in Ahead(9) THEN RowSum(Rotated("punctured"), i)
                   ELSE Xor(RowSum(Rotated("punctured"), i),
                            ColumnSum(Rotated("punctured"), sub_pi[i]))
Results == RowResults /\ ColumnResults /\ DeltaResults

\* These are the parts.
LEMMA DataParts ==
    /\ Control /\ DataTypes => TypeOK
    /\ TypeOK => DataTypes
    /\ Control => (RotationInv <=> RotationOf(4) /\ RotationOf(5))
    /\ Control => (SumsInv <=> /\ ColumnsOf(6) /\ RowOf(6)
                               /\ ColumnsOf(8) /\ RowOf(8) /\ Results)
<1>1. Control /\ DataTypes => TypeOK
  BY ControlFacts DEF Control, DataTypes, TypeOK, Teams
<1>2. TypeOK => DataTypes
  BY DEF TypeOK, DataTypes
<1>3. ASSUME Control PROVE RotationInv <=> RotationOf(4) /\ RotationOf(5)
  <2> DEFINE Part(l) ==
        LET name == Order[l]
            m    == Arr(name)
        IN  /\ \A i \in Index \ Ahead(l) : matrix[m][i] = Rotated(m)[i]
            /\ \A i \in Ahead(l) :
                  matrix[m][i] = IF \E t \in team : Doing(t, name) /\ It(t) = i /\ StepOf(t) = 2
                                 THEN Moved(name, i) ELSE drawn[m][i]
            /\ \A t \in team : Doing(t, name) /\ StepOf(t) > 0 =>
                  LET s == ShiftOf(name)[It(t)]
                  IN  \A j \in 0 .. s - 1 : temp[t][j] = drawn[m][It(t)][SIZE_PI - s + j]
  <2>1. RotationInv <=> Part(4) /\ Part(5)
    BY DEF RotationInv
  <2>2. ASSUME NEW l \in {4, 5} PROVE Part(l) <=> RotationOf(l)
    <3>1. \A t : Doing(t, Order[l]) <=> In(t, l)
      BY DoingMeans, OrderFacts
    <3>2. \A i : (\E t : Within(t, l, i, 2))
                 <=> \E t \in team : Doing(t, Order[l]) /\ It(t) = i /\ StepOf(t) = 2
      BY <3>1 DEF Within, In, It, StepOf
    <3>3. \A t \in team : StepOf(t) > 0 <=> thread[t].step # 0
      BY <1>3, TeamFacts DEF Control, StepOf
    <3>4. (\A t \in team : Doing(t, Order[l]) /\ StepOf(t) > 0 =>
                  LET s == ShiftOf(Order[l])[It(t)]
                  IN  \A j \in 0 .. s - 1 :
                        temp[t][j] = drawn[Arr(Order[l])][It(t)][SIZE_PI - s + j])
          <=> \A t, i, n : n # 0 /\ Within(t, l, i, n) =>
                \A j \in 0 .. ShiftOf(Order[l])[i] - 1 :
                   temp[t][j] = drawn[Arr(Order[l])][i][SIZE_PI - ShiftOf(Order[l])[i] + j]
      BY <3>1, <3>3 DEF Within, In, It
    <3> QED
      BY <3>2, <3>4 DEF RotationOf
  <2> HIDE DEF Part
  <2> QED
    BY <2>1, <2>2
<1>4. ASSUME Control, NEW l \in {6, 8} PROVE PassInv(l) <=> ColumnsOf(l) /\ RowOf(l)
  <2>1. \A t : Doing(t, Order[l]) <=> In(t, l)
    BY DoingMeans, OrderFacts
  <2>2. \A t \in team : StepOf(t) > 0 <=> thread[t].step # 0
    BY <1>4, TeamFacts DEF Control, StepOf
  <2>3. (\A t \in team : Doing(t, Order[l]) /\ StepOf(t) > 0 =>
              /\ rowSum[t] = XorSum(Rotated(Scanned(Order[l]))[It(t)],
                                    0 .. ((StepOf(t) + 1) \div 2) - 1)
              /\ StepOf(t) % 2 = 1 => reg[t] = colAccum[t][StepOf(t) \div 2])
        <=> RowOf(l)
    BY <2>1, <2>2 DEF RowOf, Within, In, It, StepOf
  <2> QED
    BY <2>3 DEF PassInv, ColumnsOf
<1>5. Control => (SumsInv <=> /\ ColumnsOf(6) /\ RowOf(6)
                              /\ ColumnsOf(8) /\ RowOf(8) /\ Results)
  BY <1>4 DEF SumsInv, Results, RowResults, ColumnResults, DeltaResults
<1> QED
  BY <1>1, <1>2, <1>3, <1>5

\* After a step, too.
LEMMA DataPartsNext ==
    (/\ Control /\ DataTypes => TypeOK
     /\ TypeOK => DataTypes
     /\ Control => (RotationInv <=> RotationOf(4) /\ RotationOf(5))
     /\ Control => (SumsInv <=> /\ ColumnsOf(6) /\ RowOf(6)
                                /\ ColumnsOf(8) /\ RowOf(8) /\ Results))'
BY DataParts, PTL

\* The invariant, part by part.
Parts == /\ Control /\ DataTypes /\ GivenInv /\ VectorInv
         /\ RotationOf(4) /\ RotationOf(5)
         /\ ColumnsOf(6) /\ RowOf(6) /\ ColumnsOf(8) /\ RowOf(8)
         /\ Results

\* It is.
LEMMA PartsMean == /\ LoopsInv => Parts
                   /\ Parts => LoopsInv
BY DataParts, ControlFacts DEF LoopsInv, Parts, Control

\* What the given variables determine.
LEMMA GivenFixed ==
    ASSUME UNCHANGED given
    PROVE  /\ GivenInv => GivenInv'
           /\ \A i, c : MaskWord(i, c)' = MaskWord(i, c)
           /\ \A m : Rotated(m)' = Rotated(m)
           /\ \A l : Arr(l)' = Arr(l) /\ ShiftOf(l)' = ShiftOf(l)
           /\ \A l, i : Moved(l, i)' = Moved(l, i)
           /\ \A j : inv_sub_pi(j)' = inv_sub_pi(j)
           /\ UNCHANGED <<serverNo, numThreads, sub_pi, circularShift, drawn, evict_vector>>
BY DEF given, GivenInv, MaskWord, Rotated, Arr, ShiftOf, Moved, inv_sub_pi

\* What keeps the masks and the vector.
LEMMA VectorFrame ==
    ASSUME VectorInv, UNCHANGED given, UNCHANGED <<roundKeys, keystream, vec>>,
           Ahead(1)' = Ahead(1), TilesAhead' = TilesAhead,
           serverNo = 0 \/ Ahead(3)' = Ahead(3)
    PROVE  VectorInv'
<1>1. /\ roundKeys = [r \in 0 .. ROUNDS |-> TRUE]
      /\ \A i \in Index \ Ahead(1), c \in Chunk : keystream[i][c] = MaskWord(i, c)
      /\ \A c \in Chunk, i \in Index :
           (\A k \in TilesAhead :
               <<i, c>> \notin TileCells(TileRow(k), TileColumn(k), SIZE_PI, DATA_CHUNKS))
           => vec[c][i] = IF serverNo = 0 \/ c \in Ahead(3) THEN MaskWord(i, c)
                          ELSE Xor(MaskWord(i, c), evict_vector[c][i])
  BY DEF VectorInv
<1>2. /\ UNCHANGED <<serverNo, evict_vector, roundKeys, keystream, vec>>
      /\ \A i, c : MaskWord(i, c)' = MaskWord(i, c)
  BY GivenFixed
<1>3. VectorInv' <=>
      /\ roundKeys' = [r \in 0 .. ROUNDS |-> TRUE]
      /\ \A i \in Index \ Ahead(1)', c \in Chunk : keystream'[i][c] = MaskWord(i, c)'
      /\ \A c \in Chunk, i \in Index :
           (\A k \in TilesAhead' :
               <<i, c>> \notin TileCells(TileRow(k), TileColumn(k), SIZE_PI, DATA_CHUNKS))
           => vec'[c][i] = IF serverNo' = 0 \/ c \in Ahead(3)' THEN MaskWord(i, c)'
                           ELSE Xor(MaskWord(i, c)', evict_vector'[c][i])
  BY DEF VectorInv
<1> QED
  BY <1>1, <1>2, <1>3

\* What keeps a rotation.
LEMMA RotationFrame ==
    ASSUME NEW l \in {4, 5}, RotationOf(l), UNCHANGED given,
           matrix'[Arr(Order[l])] = matrix[Arr(Order[l])],
           \A t : (\E i, n : n # 0 /\ Within(t, l, i, n)) => temp'[t] = temp[t],
           Quiet(l)
    PROVE  RotationOf(l)'
<1> DEFINE name == Order[l]
           m == Arr(name)
           c == ShiftOf(name)
<1>1. /\ \A i \in Index \ Ahead(l) : matrix[m][i] = Rotated(m)[i]
      /\ \A i \in Ahead(l) :
            matrix[m][i] = IF \E t : Within(t, l, i, 2) THEN Moved(name, i) ELSE drawn[m][i]
      /\ \A t, i, n : n # 0 /\ Within(t, l, i, n) =>
            \A j \in 0 .. c[i] - 1 : temp[t][j] = drawn[m][i][SIZE_PI - c[i] + j]
  BY DEF RotationOf
<1>2. /\ Ahead(l)' = Ahead(l)
      /\ \A u, i, n : n # 0 => (Within(u, l, i, n)' <=> Within(u, l, i, n))
  BY DEF Quiet
<1>3. /\ Arr(name)' = m /\ ShiftOf(name)' = c /\ Rotated(m)' = Rotated(m)
      /\ \A i : Moved(name, i)' = Moved(name, i)
      /\ drawn' = drawn
  BY GivenFixed
<1>4. RotationOf(l)' <=>
      /\ \A i \in Index \ Ahead(l)' : matrix'[Arr(name)'][i] = Rotated(m)'[i]
      /\ \A i \in Ahead(l)' :
            matrix'[Arr(name)'][i] = IF \E t : Within(t, l, i, 2)' THEN Moved(name, i)'
                                     ELSE drawn'[Arr(name)'][i]
      /\ \A t, i, n : n # 0 /\ Within(t, l, i, n)' =>
            \A j \in 0 .. ShiftOf(name)'[i] - 1 :
               temp'[t][j] = drawn'[Arr(name)'][i][SIZE_PI - ShiftOf(name)'[i] + j]
  BY DEF RotationOf
<1> HIDE DEF name, m, c
<1>5. \A i : (\E t : Within(t, l, i, 2)') <=> \E t : Within(t, l, i, 2)
  BY <1>2
<1>6. \A i \in Ahead(l)' :
            matrix'[Arr(name)'][i] = IF \E t : Within(t, l, i, 2)' THEN Moved(name, i)'
                                     ELSE drawn'[Arr(name)'][i]
  BY <1>1, <1>2, <1>3, <1>5 DEF m, name
<1>7. \A t, i, n : n # 0 /\ Within(t, l, i, n)' =>
            \A j \in 0 .. ShiftOf(name)'[i] - 1 :
               temp'[t][j] = drawn'[Arr(name)'][i][SIZE_PI - ShiftOf(name)'[i] + j]
  BY <1>1, <1>2, <1>3
<1> QED
  BY <1>1, <1>2, <1>3, <1>4, <1>6, <1>7 DEF m, name

\* The rows a thread has counted, in terms of the step it is at.
LEMMA CountedMeans ==
    Control => \A l \in {6, 8}, t \in Thread, j \in Index :
        Counted(l, t, j) =
            IF t \notin team THEN {}
            ELSE (SliceOf(l, t) \ Left(l, t))
                 \cup {i \in Index : \E n \in Nat : /\ n # 0 /\ Within(t, l, i, n)
                                                   /\ j < n \div 2}
<1> SUFFICES ASSUME Control, NEW l \in {6, 8}, NEW t \in Thread, NEW j \in Index
             PROVE  Counted(l, t, j) =
                       IF t \notin team THEN {}
                       ELSE (SliceOf(l, t) \ Left(l, t))
                            \cup {i \in Index : \E n \in Nat : /\ n # 0 /\ Within(t, l, i, n)
                                                              /\ j < n \div 2}
  OBVIOUS
<1> DEFINE atStep == {i \in {It(t)} : Doing(t, Order[l]) /\ j < StepOf(t) \div 2}
           within == {i \in Index : \E n \in Nat : /\ n # 0 /\ Within(t, l, i, n)
                                                  /\ j < n \div 2}
<1>1. CASE t \notin team
  BY <1>1 DEF Counted
<1>2. CASE t \in team
  <2>1. Doing(t, Order[l]) <=> In(t, l)
    BY <1>2, DoingMeans, OrderFacts
  <2>2. thread[t].step \in Nat /\ j \in Nat
    BY TeamFacts, Sizes DEF Control, Index
  <2>3. In(t, l) => It(t) \in Index
    <3> SUFFICES ASSUME In(t, l) PROVE It(t) \in Index
      OBVIOUS
    <3>1. It(t) \in Left(l, t)
      BY <2>2 DEF Left, In, It, Control
    <3>2. l \in Static /\ Iterations(l) = SIZE_PI
      BY IterationFacts DEF Static
    <3> QED
      BY <1>2, <3>1, <3>2, LeftInSlice DEF Index
  <2>4. j < StepOf(t) \div 2 => thread[t].step # 0
    BY <2>2 DEF StepOf
  <2>5. atStep = within
    BY <2>1, <2>2, <2>3, <2>4 DEF Within, It, StepOf
  <2>6. Counted(l, t, j) = (SliceOf(l, t) \ Left(l, t)) \cup atStep
    BY <1>2 DEF Counted
  <2> QED
    BY <1>2, <2>5, <2>6
<1> QED
  BY <1>1, <1>2

\* After a step, too.
LEMMA CountedMeansNext ==
    (Control => \A l \in {6, 8}, t \in Thread, j \in Index :
        Counted(l, t, j) =
            IF t \notin team THEN {}
            ELSE (SliceOf(l, t) \ Left(l, t))
                 \cup {i \in Index : \E n \in Nat : /\ n # 0 /\ Within(t, l, i, n)
                                                   /\ j < n \div 2})'
BY CountedMeans, PTL

\* What keeps the sums of a pass.
LEMMA PassFrame ==
    ASSUME Control, Control', NEW l \in {6, 8}, UNCHANGED given
    PROVE  /\ RowOf(l) /\ Quiet(l) /\ UNCHANGED <<rowSum, reg, colAccum>> => RowOf(l)'
           /\ ColumnsOf(l) /\ Kept(l) /\ UNCHANGED colAccum => ColumnsOf(l)'
<1> DEFINE M == Rotated(Scanned(Order[l]))
<1>1. Rotated(Scanned(Order[l]))' = M
  BY GivenFixed DEF Scanned
<1>2. ASSUME RowOf(l), Quiet(l), UNCHANGED <<rowSum, reg, colAccum>> PROVE RowOf(l)'
  <2>1. \A u, i, n : n # 0 => (Within(u, l, i, n)' <=> Within(u, l, i, n))
    BY <1>2 DEF Quiet
  <2> HIDE DEF M
  <2>2. \A t, i, n : n # 0 /\ Within(t, l, i, n) =>
            /\ rowSum[t] = XorSum(M[i], 0 .. ((n + 1) \div 2) - 1)
            /\ n % 2 = 1 => reg[t] = colAccum[t][n \div 2]
    BY <1>2 DEF RowOf, M
  <2>3. \A t, i, n : n # 0 /\ Within(t, l, i, n)' =>
            /\ rowSum'[t] = XorSum(M[i], 0 .. ((n + 1) \div 2) - 1)
            /\ n % 2 = 1 => reg'[t] = colAccum'[t][n \div 2]
    BY <1>2, <2>1, <2>2
  <2> QED
    BY <1>1, <2>3 DEF RowOf
<1>3. ASSUME ColumnsOf(l), Kept(l), UNCHANGED colAccum PROVE ColumnsOf(l)'
  <2>1. /\ team' = team
        /\ \A u \in team : Left(l, u)' = Left(l, u)
        /\ \A u : SliceOf(l, u)' = SliceOf(l, u)
        /\ thread'[0].loop \in {l, l + 1} => thread[0].loop \in {l, l + 1}
        /\ \A u, i, n : n # 0 => (Within(u, l, i, n)' <=> Within(u, l, i, n))
    BY <1>3 DEF Kept, Quiet
  <2>2. ASSUME NEW t \in Thread, NEW j \in Index PROVE Counted(l, t, j)' = Counted(l, t, j)
    <3> DEFINE Now  == {i \in Index : \E n \in Nat : n # 0 /\ Within(t, l, i, n) /\ j < n \div 2}
               Then == {i \in Index : \E n \in Nat : n # 0 /\ Within(t, l, i, n)' /\ j < n \div 2}
    <3>1. Then = Now
      BY <2>1
    <3>2. Counted(l, t, j) = IF t \notin team THEN {} ELSE (SliceOf(l, t) \ Left(l, t)) \cup Now
      BY CountedMeans
    <3>3. Counted(l, t, j)' = IF t \notin team' THEN {}
                              ELSE (SliceOf(l, t)' \ Left(l, t)') \cup Then
      BY CountedMeansNext
    <3> HIDE DEF Now, Then
    <3> QED
      BY <2>1, <3>1, <3>2, <3>3
  <2> QED
    BY <1>1, <1>3, <2>1, <2>2 DEF ColumnsOf
<1> QED
  BY <1>2, <1>3

\* What keeps the results.
LEMMA ResultsFrame ==
    ASSUME UNCHANGED given
    PROVE  /\ RowResults /\ Ahead(6)' = Ahead(6) /\ UNCHANGED b => RowResults'
           /\ ColumnResults /\ Ahead(7)' = Ahead(7) /\ UNCHANGED a => ColumnResults'
           /\ DeltaResults /\ Ahead(8)' = Ahead(8) /\ Ahead(9)' = Ahead(9)
                /\ UNCHANGED delta => DeltaResults'
<1>1. /\ Rotated("full")' = Rotated("full") /\ Rotated("punctured")' = Rotated("punctured")
      /\ sub_pi' = sub_pi
  BY GivenFixed
<1> QED
  BY <1>1 DEF RowResults, ColumnResults, DeltaResults, RowSum, ColumnSum

\* A step within an iteration, and the end of one.
LEMMA StepOnKept ==
    ASSUME Control, NEW t \in Thread, NEW l \in 1 .. 9, In(t, l), StepOn(t),
           UNCHANGED <<given, team, tile>>,
           thread[t].step + 1 <= LastStep(l),
           l \in {4, 5} => ShiftOf(Order[l])[thread[t].next] # 0
    PROVE  /\ Control' /\ \A k \in Static : k # l => Kept(k)
           /\ \A k : Ahead(k)' = Ahead(k)
           /\ TilesAhead' = TilesAhead
           /\ \A k : \A u \in team : Left(k, u)' = Left(k, u)
           /\ \A k, u : SliceOf(k, u)' = SliceOf(k, u)
           /\ \A u, k, i, n : Within(u, k, i, n)' <=>
                 IF u = t THEN k = l /\ i = It(t) /\ n = StepOf(t) + 1
                 ELSE Within(u, k, i, n)
<1>1. UNCHANGED <<team, tile, serverNo, numThreads, circularShift>>
  BY DEF given
<1>2. /\ Control'
      /\ \A k : Ahead(k)' = Ahead(k)
      /\ \A k : \A u \in team : Left(k, u)' = Left(k, u)
      /\ \A k, u : SliceOf(k, u)' = SliceOf(k, u)
      /\ TilesAhead' = TilesAhead
      /\ \A u, k : In(u, k)' <=> In(u, k)
      /\ \A u \in Thread :
           /\ thread'[u].loop = thread[u].loop /\ thread'[u].next = thread[u].next
           /\ thread'[u].end = thread[u].end
           /\ thread'[u].step = IF u = t THEN thread[t].step + 1 ELSE thread[u].step
  BY <1>1, StepOnFacts
<1>3. \A k : In(t, k)' => k = l
  BY <1>2 DEF In
<1>4. \A k \in Static : k # l => Kept(k)
  BY <1>1, <1>2, <1>3, OtherLoops
<1>5. team \subseteq Thread
  BY TeamFacts DEF Control
<1>6. \A u, k, i, n : Within(u, k, i, n)' <=>
         IF u = t THEN k = l /\ i = It(t) /\ n = StepOf(t) + 1 ELSE Within(u, k, i, n)
  <2> SUFFICES ASSUME NEW u, NEW k, NEW i, NEW n
               PROVE  Within(u, k, i, n)' <=>
                 IF u = t THEN k = l /\ i = It(t) /\ n = StepOf(t) + 1 ELSE Within(u, k, i, n)
    OBVIOUS
  <2>1. CASE u = t
    BY <1>2, <1>3, <2>1 DEF Within, It, StepOf
  <2>2. CASE u # t
    BY <1>2, <1>5, <2>2 DEF Within, In
  <2> QED
    BY <2>1, <2>2
<1> QED
  BY <1>2, <1>4, <1>6

\* The same for the end of an iteration.
LEMMA NextItemKept ==
    ASSUME Control, NEW t \in Thread, NEW l \in 1 .. 9, In(t, l), NextItem(t),
           UNCHANGED <<given, team, tile>>
    PROVE  /\ Control' /\ \A k \in Static : k # l => Kept(k)
           /\ \A k : k # l => Ahead(k)' = Ahead(k)
           /\ l # 2 => /\ It(t) \in 0 .. Iterations(l) - 1 /\ It(t) \in Ahead(l)
                       /\ It(t) \in Left(l, t)
                       /\ Left(l, t)' = Left(l, t) \ {It(t)}
                       /\ Ahead(l)' = Ahead(l) \ {It(t)}
           /\ l = 2 => It(t) \in 0 .. Tiles - 1 /\ It(t) \in TilesAhead
           /\ TilesAhead' = IF l = 2 THEN TilesAhead \ {It(t)} ELSE TilesAhead
           /\ \A k : \A u \in team : k # l \/ u # t => Left(k, u)' = Left(k, u)
           /\ \A k, u : SliceOf(k, u)' = SliceOf(k, u)
           /\ \A u, k, i, n : n # 0 =>
                 (Within(u, k, i, n)' <=> u # t /\ Within(u, k, i, n))
<1>1. UNCHANGED <<team, tile, serverNo, numThreads, circularShift>>
  BY DEF given
<1>2. /\ Control'
      /\ \A k : k # l => Ahead(k)' = Ahead(k)
      /\ l # 2 => /\ It(t) \in Left(l, t) /\ It(t) \in 0 .. Iterations(l) - 1
                  /\ Left(l, t)' = Left(l, t) \ {It(t)}
                  /\ Ahead(l)' = Ahead(l) \ {It(t)}
      /\ l = 2 => It(t) \in 0 .. Tiles - 1 /\ It(t) \in TilesAhead
      /\ TilesAhead' = IF l = 2 THEN TilesAhead \ {It(t)} ELSE TilesAhead
      /\ \A k : \A u \in team : k # l \/ u # t => Left(k, u)' = Left(k, u)
      /\ \A k, u : SliceOf(k, u)' = SliceOf(k, u)
      /\ \A u, k : u # t => (In(u, k)' <=> In(u, k))
      /\ \A k : In(t, k)' => k = l
      /\ \A u \in Thread :
           /\ thread'[u].loop = thread[u].loop /\ thread'[u].end = thread[u].end
           /\ thread'[u].next = IF u = t THEN thread[t].next + 1 ELSE thread[u].next
           /\ thread'[u].step = IF u = t THEN 0 ELSE thread[u].step
  BY <1>1, NextItemFacts
<1>3. \A k \in Static : k # l => Kept(k)
  BY <1>1, <1>2, OtherLoops
<1>4. l # 2 => It(t) \in Ahead(l)
  BY <1>2 DEF Ahead, In
<1>5. team \subseteq Thread
  BY TeamFacts DEF Control
<1>6. \A u, k, i, n : n # 0 => (Within(u, k, i, n)' <=> u # t /\ Within(u, k, i, n))
  <2> SUFFICES ASSUME NEW u, NEW k, NEW i, NEW n, n # 0
               PROVE  Within(u, k, i, n)' <=> u # t /\ Within(u, k, i, n)
    OBVIOUS
  <2>1. CASE u = t
    BY <1>2, <2>1 DEF Within
  <2>2. CASE u # t
    BY <1>2, <1>5, <2>2 DEF Within, In
  <2> QED
    BY <2>1, <2>2
<1> QED
  BY <1>2, <1>3, <1>4, <1>6

\* What a step in loop l leaves as it is.
LEMMA RestKept ==
    ASSUME Parts, Control', UNCHANGED given, NEW l \in Nat,
           \A k \in Static : k # l => Kept(k)
    PROVE  /\ GivenInv'
           /\ UNCHANGED <<matrix, temp>> => \A k \in {4, 5} : k # l => RotationOf(k)'
           /\ UNCHANGED <<colAccum, rowSum, reg>> =>
                 \A k \in {6, 8} : k # l => ColumnsOf(k)' /\ RowOf(k)'
           /\ UNCHANGED b /\ l # 6 => RowResults'
           /\ UNCHANGED a /\ l # 7 => ColumnResults'
           /\ UNCHANGED delta /\ l \notin {8, 9} => DeltaResults'
           /\ UNCHANGED <<roundKeys, keystream, vec>> /\ l \notin {1, 3}
                /\ TilesAhead' = TilesAhead => VectorInv'
<1>1. \A k \in Static : k # l => Quiet(k) /\ Ahead(k)' = Ahead(k)
  BY DEF Kept, Quiet
<1>2. Control /\ 1 \in Static /\ 3 \in Static /\ 4 \in Static /\ 5 \in Static
      /\ 6 \in Static /\ 7 \in Static /\ 8 \in Static /\ 9 \in Static
  BY DEF Parts, Static
<1>3. GivenInv'
  BY GivenFixed DEF Parts
<1>4. ASSUME UNCHANGED <<matrix, temp>>, NEW k \in {4, 5}, k # l PROVE RotationOf(k)'
  <2>1. k \in Static /\ RotationOf(k) /\ Arr(Order[k])' = Arr(Order[k])
    BY <1>2, GivenFixed DEF Parts
  <2> QED
    BY <1>1, <1>4, <2>1, RotationFrame
<1>5. ASSUME UNCHANGED <<colAccum, rowSum, reg>>, NEW k \in {6, 8}, k # l
      PROVE  ColumnsOf(k)' /\ RowOf(k)'
  <2>1. k \in Static /\ ColumnsOf(k) /\ RowOf(k)
    BY <1>2 DEF Parts
  <2>2. Kept(k) /\ Quiet(k)
    BY <1>1, <1>5, <2>1
  <2> QED
    BY <1>2, <1>5, <2>1, <2>2, PassFrame
<1>6. /\ UNCHANGED b /\ l # 6 => RowResults'
      /\ UNCHANGED a /\ l # 7 => ColumnResults'
      /\ UNCHANGED delta /\ l \notin {8, 9} => DeltaResults'
  BY <1>1, <1>2, ResultsFrame DEF Parts, Results
<1>7. UNCHANGED <<roundKeys, keystream, vec>> /\ l \notin {1, 3}
                /\ TilesAhead' = TilesAhead => VectorInv'
  BY <1>1, <1>2, VectorFrame DEF Parts
<1> QED
  BY <1>3, <1>4, <1>5, <1>6, <1>7

-----------------------------------------------------------------------------
(***************************************************************************)
(* The steps, one by one.                                                   *)
(***************************************************************************)
\* A round key is written over with itself.
LEMMA ExpandKeyStep ==
    ASSUME Parts, NEW t \in Thread, ExpandKey(t)
    PROVE  Parts'
<1>1. /\ Control /\ In(t, 1) /\ thread[t].step <= ROUNDS /\ StepOn(t)
      /\ UNCHANGED <<given, team, tile>>
      /\ UNCHANGED <<keystream, vec, matrix, a, b, delta, colAccum, temp, rowSum, reg>>
  BY DoingMeans DEF Parts, ExpandKey, sums, StepOf
<1>2. thread[t].step + 1 <= LastStep(1)
  BY <1>1, Sizes DEF LastStep, Control
<1>3. /\ Control' /\ \A k \in Static : k # 1 => Kept(k)
      /\ \A k : Ahead(k)' = Ahead(k)
      /\ TilesAhead' = TilesAhead
  BY <1>1, <1>2, StepOnKept
<1>4. roundKeys' = roundKeys
  <2>1. roundKeys = [r \in 0 .. ROUNDS |-> TRUE]
    BY DEF Parts, VectorInv
  <2>2. thread[t].step \in 0 .. ROUNDS
    BY <1>1, Sizes DEF Control
  <2>3. thread[t].step # 0 => roundKeys[thread[t].step - 1] = TRUE
    BY <2>1, <2>2, Sizes
  <2>4. roundKeys' = [roundKeys EXCEPT ![thread[t].step] =
                         thread[t].step = 0 \/ roundKeys[thread[t].step - 1]]
    BY DEF ExpandKey, Expanded, StepOf
  <2>5. (thread[t].step = 0 \/ roundKeys[thread[t].step - 1]) = TRUE
    BY <2>3
  <2>6. roundKeys' = [roundKeys EXCEPT ![thread[t].step] = TRUE]
    BY <2>4, <2>5
  <2> QED
    BY <2>1, <2>2, <2>6
<1>5. VectorInv'
  BY <1>1, <1>3, <1>4, VectorFrame DEF Parts
<1>6. DataTypes'
  BY <1>1, <1>4 DEF Parts, DataTypes
<1>7. /\ GivenInv' /\ RotationOf(4)' /\ RotationOf(5)'
      /\ ColumnsOf(6)' /\ RowOf(6)' /\ ColumnsOf(8)' /\ RowOf(8)'
      /\ RowResults' /\ ColumnResults' /\ DeltaResults'
  BY <1>1, <1>3, RestKept
<1> QED
  BY <1>3, <1>5, <1>6, <1>7 DEF Parts, Results

\* A keystream that is computed is the mask of its slot.
LEMMA EncryptStep ==
    ASSUME Parts, NEW t \in Thread, Encrypt(t)
    PROVE  Parts'
<1> DEFINE i == It(t)
<1>1. /\ Control /\ In(t, 1) /\ NextItem(t)
      /\ UNCHANGED <<given, team, tile>>
      /\ UNCHANGED <<roundKeys, vec, matrix, a, b, delta, colAccum, temp, rowSum, reg>>
  BY DoingMeans DEF Parts, Encrypt, sums
<1>2. /\ Control' /\ \A k \in Static : k # 1 => Kept(k)
      /\ \A k : k # 1 => Ahead(k)' = Ahead(k)
      /\ i \in 0 .. Iterations(1) - 1
      /\ Ahead(1)' = Ahead(1) \ {i}
      /\ TilesAhead' = TilesAhead
  BY <1>1, NextItemKept
<1>3. i \in Index
  BY <1>2, IterationFacts DEF Index
<1>4. /\ keystream \in [Index -> [Chunk -> Word]]
      /\ aes \in [Index -> [0 .. CTR_MOD - 1 -> [0 .. HALVES - 1 -> Word]]]
      /\ counter \in [Index -> 0 .. CTR_MOD - 1]
      /\ roundKeys = [r \in 0 .. ROUNDS |-> TRUE]
  BY DEF Parts, DataTypes, GivenInv, VectorInv
<1>11. /\ counter[i] \in Nat
       /\ aes[i] \in [0 .. CTR_MOD - 1 -> [0 .. HALVES - 1 -> Word]]
  <2> HIDE DEF i
  <2> QED
    BY <1>3, <1>4, Sizes
<1> DEFINE K == Keystream(aes[i], counter[i], DATA_CHUNKS, keystream[i])
<1>5. keystream' = [keystream EXCEPT ![i] = K]
  BY <1>4 DEF Encrypt
<1>6. /\ \A c \in Chunk : K[c] = MaskWord(i, c) /\ MaskWord(i, c) \in Word
      /\ K \in [Chunk -> Word]
  <2>1. ASSUME NEW c \in Chunk PROVE K[c] = MaskWord(i, c)
    <3>1. DATA_CHUNKS \in Nat /\ c \in 0 .. DATA_CHUNKS - 1
      BY Sizes DEF Chunk
    <3> QED
      BY <1>11, <3>1, KeystreamExact DEF MaskWord
  <2>2. ASSUME NEW c \in Chunk PROVE MaskWord(i, c) \in Word
    <3> DEFINE x == counter[i] + c \div HALVES
    <3>1. c \in Nat /\ c \div HALVES \in Nat
      BY Sizes, Division DEF Chunk
    <3>2. x \in Nat
      BY <1>11, <3>1
    <3> HIDE DEF x, i
    <3>3. x % CTR_MOD \in 0 .. CTR_MOD - 1 /\ c % HALVES \in 0 .. HALVES - 1
      BY <3>1, <3>2, Sizes, Remainder
    <3>4. aes[i][x % CTR_MOD][c % HALVES] \in Word
      BY <1>11, <3>3
    <3> QED
      BY <3>4 DEF MaskWord, x
  <2>3. K = [c \in Chunk |-> K[c]]
    BY DEF Keystream, Chunk
  <2> HIDE DEF K, i
  <2> QED
    BY <2>1, <2>2, <2>3
<1> HIDE DEF K, i
<1>7. keystream' \in [Index -> [Chunk -> Word]]
  BY <1>4, <1>5, <1>6
<1>8. VectorInv'
  <2>1. \A j, c : MaskWord(j, c)' = MaskWord(j, c)
    BY <1>1, GivenFixed
  <2>2. \A j \in Index \ Ahead(1), c \in Chunk : keystream[j][c] = MaskWord(j, c)
    BY DEF Parts, VectorInv
  <2>3. ASSUME NEW j \in Index \ Ahead(1)', NEW c \in Chunk
        PROVE  keystream'[j][c] = MaskWord(j, c)'
    <3>1. CASE j = i
      BY <1>3, <1>4, <1>5, <1>6, <2>1, <3>1
    <3>2. CASE j # i
      BY <1>2, <1>3, <1>4, <1>5, <2>1, <2>2, <3>2
    <3> QED
      BY <3>1, <3>2
  <2>4. UNCHANGED <<serverNo, evict_vector>> /\ Ahead(3)' = Ahead(3)
    BY <1>1, <1>2, GivenFixed
  <2>5. \A c \in Chunk, j \in Index :
           (\A k \in TilesAhead :
               <<j, c>> \notin TileCells(TileRow(k), TileColumn(k), SIZE_PI, DATA_CHUNKS))
           => vec[c][j] = IF serverNo = 0 \/ c \in Ahead(3) THEN MaskWord(j, c)
                          ELSE Xor(MaskWord(j, c), evict_vector[c][j])
    BY DEF Parts, VectorInv
  <2>6. VectorInv' <=>
        /\ roundKeys' = [r \in 0 .. ROUNDS |-> TRUE]
        /\ \A j \in Index \ Ahead(1)', c \in Chunk : keystream'[j][c] = MaskWord(j, c)'
        /\ \A c \in Chunk, j \in Index :
             (\A k \in TilesAhead' :
                 <<j, c>> \notin TileCells(TileRow(k), TileColumn(k), SIZE_PI, DATA_CHUNKS))
             => vec'[c][j] = IF serverNo' = 0 \/ c \in Ahead(3)' THEN MaskWord(j, c)'
                             ELSE Xor(MaskWord(j, c)', evict_vector'[c][j])
    BY DEF VectorInv
  <2> QED
    BY <1>1, <1>2, <1>4, <2>1, <2>3, <2>4, <2>5, <2>6
<1>9. DataTypes'
  BY <1>1, <1>7 DEF Parts, DataTypes
<1>10. /\ GivenInv' /\ RotationOf(4)' /\ RotationOf(5)'
       /\ ColumnsOf(6)' /\ RowOf(6)' /\ ColumnsOf(8)' /\ RowOf(8)'
       /\ RowResults' /\ ColumnResults' /\ DeltaResults'
  BY <1>1, <1>2, RestKept
<1> QED
  BY <1>2, <1>8, <1>9, <1>10 DEF Parts, Results

\* A tile is handed out.
LEMMA TakeTileStep ==
    ASSUME Parts, NEW t \in Thread, TakeTile(t)
    PROVE  Parts'
<1>1. /\ Control /\ UNCHANGED given
      /\ UNCHANGED <<roundKeys, keystream, vec, matrix, a, b, delta, colAccum,
                     temp, rowSum, reg>>
  BY DEF Parts, TakeTile, sums
<1>2. /\ Control' /\ TilesAhead' = TilesAhead /\ \A k \in Static : Kept(k)
  BY <1>1, TakeTileFacts, TakeTileKept
<1>3. DataTypes'
  BY <1>1 DEF Parts, DataTypes
<1>4. /\ GivenInv' /\ RotationOf(4)' /\ RotationOf(5)' /\ VectorInv'
      /\ ColumnsOf(6)' /\ RowOf(6)' /\ ColumnsOf(8)' /\ RowOf(8)'
      /\ RowResults' /\ ColumnResults' /\ DeltaResults'
  <2>1. 0 \in Nat /\ \A k \in Static : k # 0 => Kept(k)
    BY <1>2
  <2> QED
    BY <1>1, <1>2, <2>1, RestKept
<1> QED
  BY <1>2, <1>3, <1>4 DEF Parts, Results

\* A tile is copied: its cells are masks, and are ahead no more.
LEMMA CopyTileStep ==
    ASSUME Parts, NEW t \in Thread, CopyTile(t)
    PROVE  Parts'
<1> DEFINE n == It(t)
           Cells(k) == TileCells(TileRow(k), TileColumn(k), SIZE_PI, DATA_CHUNKS)
           Goal(c, i) == IF serverNo = 0 \/ c \in Ahead(3) THEN MaskWord(i, c)
                         ELSE Xor(MaskWord(i, c), evict_vector[c][i])
<1>1. /\ Control /\ In(t, 2) /\ NextItem(t)
      /\ UNCHANGED <<given, team, tile>>
      /\ UNCHANGED <<roundKeys, keystream, matrix, a, b, delta, colAccum, temp, rowSum, reg>>
  BY DoingMeans DEF Parts, CopyTile, sums
<1>2. /\ Control' /\ \A k \in Static : k # 2 => Kept(k)
      /\ \A k : k # 2 => Ahead(k)' = Ahead(k)
      /\ TilesAhead' = TilesAhead \ {n}
  BY <1>1, NextItemKept
<1>3. Ahead(1) = {} /\ Ahead(3) = Chunk
  <2>1. 1 \in Static /\ 3 \in Static /\ 2 \in 1 .. 9
    BY DEF Static
  <2>2. Ahead(1) = {} /\ Ahead(3) = 0 .. Iterations(3) - 1
    BY <1>1, <2>1, AtLoop
  <2> QED
    BY <2>2, IterationFacts DEF Chunk
<1>4. /\ keystream \in [Index -> [Chunk -> Word]]
      /\ vec \in [Chunk -> [Index -> Word]]
      /\ \A i \in Index, c \in Chunk : keystream[i][c] = MaskWord(i, c)
      /\ \A c \in Chunk, i \in Index : (\A k \in TilesAhead : <<i, c>> \notin Cells(k))
           => vec[c][i] = Goal(c, i)
  BY <1>3 DEF Parts, DataTypes, VectorInv, Vector
<1>5. vec' = [c \in Chunk |-> [i \in Index |->
                 IF <<i, c>> \in Cells(n) THEN keystream[i][c] ELSE vec[c][i]]]
  <2>1. vec' = TransposeTile(keystream, vec, TileRow(n), TileColumn(n), SIZE_PI, DATA_CHUNKS)
    BY DEF CopyTile
  <2>2. DOMAIN vec = Chunk /\ \A c \in Chunk : DOMAIN vec[c] = Index
    BY <1>4
  <2> HIDE DEF n
  <2> QED
    BY <2>1, <2>2 DEF TransposeTile
<1> HIDE DEF n, Cells
<1>6. vec' \in [Chunk -> [Index -> Word]]
  BY <1>4, <1>5
<1>7. ASSUME NEW c \in Chunk, NEW i \in Index, \A k \in TilesAhead' : <<i, c>> \notin Cells(k)
      PROVE  vec'[c][i] = Goal(c, i)
  <2>1. CASE <<i, c>> \in Cells(n)
    BY <1>3, <1>4, <1>5, <2>1
  <2>2. CASE <<i, c>> \notin Cells(n)
    <3>1. \A k \in TilesAhead : <<i, c>> \notin Cells(k)
      BY <1>2, <1>7, <2>2
    <3> QED
      BY <1>4, <1>5, <2>2, <3>1
  <2> QED
    BY <2>1, <2>2
<1>8. VectorInv'
  <2>1. /\ \A i, c : MaskWord(i, c)' = MaskWord(i, c)
        /\ UNCHANGED <<serverNo, evict_vector>> /\ Ahead(3)' = Ahead(3) /\ Ahead(1)' = Ahead(1)
        /\ UNCHANGED <<keystream, roundKeys>>
    BY <1>1, <1>2, GivenFixed
  <2>2. \A c \in Chunk, i \in Index : (\A k \in TilesAhead' : <<i, c>> \notin Cells(k))
          => vec'[c][i] = IF serverNo' = 0 \/ c \in Ahead(3)' THEN MaskWord(i, c)'
                          ELSE Xor(MaskWord(i, c)', evict_vector'[c][i])
    BY <1>7, <2>1
  <2>3. /\ roundKeys' = [r \in 0 .. ROUNDS |-> TRUE]
        /\ \A i \in Index \ Ahead(1)', c \in Chunk : keystream'[i][c] = MaskWord(i, c)'
    BY <2>1 DEF Parts, VectorInv
  <2>4. VectorInv' <=>
        /\ roundKeys' = [r \in 0 .. ROUNDS |-> TRUE]
        /\ \A i \in Index \ Ahead(1)', c \in Chunk : keystream'[i][c] = MaskWord(i, c)'
        /\ \A c \in Chunk, i \in Index : (\A k \in TilesAhead' : <<i, c>> \notin Cells(k))
             => vec'[c][i] = IF serverNo' = 0 \/ c \in Ahead(3)' THEN MaskWord(i, c)'
                             ELSE Xor(MaskWord(i, c)', evict_vector'[c][i])
    BY DEF VectorInv, Cells
  <2> QED
    BY <2>2, <2>3, <2>4
<1>9. DataTypes'
  BY <1>1, <1>6 DEF Parts, DataTypes, Vector
<1>10. /\ GivenInv' /\ RotationOf(4)' /\ RotationOf(5)'
       /\ ColumnsOf(6)' /\ RowOf(6)' /\ ColumnsOf(8)' /\ RowOf(8)'
       /\ RowResults' /\ ColumnResults' /\ DeltaResults'
  BY <1>1, <1>2, RestKept
<1> QED
  BY <1>2, <1>8, <1>9, <1>10 DEF Parts, Results

\* A chunk is combined with that of the blocks, on server 1.
LEMMA CombineStep ==
    ASSUME Parts, NEW t \in Thread, Combine(t)
    PROVE  Parts'
<1> DEFINE n == It(t)
           w == XorRow(vec[n], evict_vector[n], SIZE_PI)
           Cells(k) == TileCells(TileRow(k), TileColumn(k), SIZE_PI, DATA_CHUNKS)
<1>1. /\ Control /\ In(t, 3) /\ NextItem(t)
      /\ UNCHANGED <<given, team, tile>>
      /\ UNCHANGED <<roundKeys, keystream, matrix, a, b, delta, colAccum, temp, rowSum, reg>>
  BY DoingMeans DEF Parts, Combine, sums
<1>2. /\ Control' /\ \A k \in Static : k # 3 => Kept(k)
      /\ \A k : k # 3 => Ahead(k)' = Ahead(k)
      /\ n \in 0 .. Iterations(3) - 1 /\ n \in Ahead(3)
      /\ Ahead(3)' = Ahead(3) \ {n}
      /\ TilesAhead' = TilesAhead
  BY <1>1, NextItemKept
<1>3. n \in Chunk
  BY <1>2, IterationFacts DEF Chunk
<1>4. TilesAhead = {} /\ serverNo = 1
  BY <1>1, AtLoop
<1>5. /\ vec \in [Chunk -> [Index -> Word]]
      /\ evict_vector \in [Chunk -> [Index -> Word]]
      /\ \A c \in Chunk, i \in Index :
           vec[c][i] = IF c \in Ahead(3) THEN MaskWord(i, c)
                       ELSE Xor(MaskWord(i, c), evict_vector[c][i])
  BY <1>4 DEF Parts, DataTypes, VectorInv, GivenInv, Vector
<1>6. vec' = [vec EXCEPT ![n] = w]
  BY DEF Combine
<1>7. w = [i \in Index |-> Xor(vec[n][i], evict_vector[n][i])]
  <2>1. DOMAIN vec[n] = 0 .. SIZE_PI - 1 /\ SIZE_PI \in Nat
    BY <1>3, <1>5, Sizes DEF Index
  <2> HIDE DEF n
  <2>2. w = XorVector(vec[n], evict_vector[n])
    BY <2>1, XorRowExact
  <2> QED
    BY <2>1, <2>2 DEF XorVector, Index
<1> HIDE DEF n, w
<1>8. /\ \A c \in Chunk, i \in Index :
           vec'[c][i] = IF c = n THEN Xor(vec[n][i], evict_vector[n][i]) ELSE vec[c][i]
      /\ vec' \in [Chunk -> [Index -> Word]]
  <2>1. \A i \in Index : Xor(vec[n][i], evict_vector[n][i]) \in Word
    BY <1>3, <1>5, XorType DEF Word
  <2>2. w \in [Index -> Word]
    BY <1>7, <2>1
  <2> QED
    BY <1>3, <1>5, <1>6, <1>7, <2>2
<1>9. \A c \in Chunk, i \in Index :
         vec'[c][i] = IF c \in Ahead(3)' THEN MaskWord(i, c)
                      ELSE Xor(MaskWord(i, c), evict_vector[c][i])
  BY <1>2, <1>3, <1>5, <1>8
<1>10. VectorInv'
  <2>1. /\ \A i, c : MaskWord(i, c)' = MaskWord(i, c)
        /\ UNCHANGED <<serverNo, evict_vector>> /\ Ahead(1)' = Ahead(1)
        /\ UNCHANGED <<keystream, roundKeys>>
    BY <1>1, <1>2, GivenFixed
  <2>2. \A c \in Chunk, i \in Index :
          vec'[c][i] = IF serverNo' = 0 \/ c \in Ahead(3)' THEN MaskWord(i, c)'
                       ELSE Xor(MaskWord(i, c)', evict_vector'[c][i])
    BY <1>4, <1>9, <2>1
  <2>3. /\ roundKeys' = [r \in 0 .. ROUNDS |-> TRUE]
        /\ \A i \in Index \ Ahead(1)', c \in Chunk : keystream'[i][c] = MaskWord(i, c)'
    BY <2>1 DEF Parts, VectorInv
  <2>4. VectorInv' <=>
        /\ roundKeys' = [r \in 0 .. ROUNDS |-> TRUE]
        /\ \A i \in Index \ Ahead(1)', c \in Chunk : keystream'[i][c] = MaskWord(i, c)'
        /\ \A c \in Chunk, i \in Index : (\A k \in TilesAhead' : <<i, c>> \notin Cells(k))
             => vec'[c][i] = IF serverNo' = 0 \/ c \in Ahead(3)' THEN MaskWord(i, c)'
                             ELSE Xor(MaskWord(i, c)', evict_vector'[c][i])
    BY DEF VectorInv, Cells
  <2> QED
    BY <2>2, <2>3, <2>4
<1>11. DataTypes'
  BY <1>1, <1>8 DEF Parts, DataTypes, Vector
<1>12. /\ GivenInv' /\ RotationOf(4)' /\ RotationOf(5)'
       /\ ColumnsOf(6)' /\ RowOf(6)' /\ ColumnsOf(8)' /\ RowOf(8)'
       /\ RowResults' /\ ColumnResults' /\ DeltaResults'
  BY <1>1, <1>2, RestKept
<1> QED
  BY <1>2, <1>10, <1>11, <1>12 DEF Parts, Results

\* The matrix and the shifts of a rotation, and the loop it is.
LEMMA RotationNames ==
    /\ \A l \in Rotation : \E k \in {4, 5} : l = Order[k] /\ \A t : Doing(t, l) <=> In(t, k)
    /\ serverNo \in Server =>
         /\ Arr(Order[4]) \in Matrices /\ Arr(Order[5]) \in Matrices
         /\ Arr(Order[4]) # Arr(Order[5])
         /\ \A k \in {4, 5} :
              Rotated(Arr(Order[k])) = Rotate(drawn[Arr(Order[k])], ShiftOf(Order[k]))
<1>1. \A l \in Rotation : \E k \in {4, 5} : l = Order[k] /\ \A t : Doing(t, l) <=> In(t, k)
  BY OrderFacts, DoingMeans DEF Rotation
<1>2. ASSUME serverNo \in Server
      PROVE  /\ Arr(Order[4]) = IF serverNo = 0 THEN "punctured" ELSE "full"
             /\ Arr(Order[5]) = IF serverNo = 0 THEN "full" ELSE "punctured"
             /\ ShiftOf(Order[4]) = circularShift[1] /\ ShiftOf(Order[5]) = circularShift[2]
  BY <1>2, OrderFacts DEF Arr, ShiftOf, Server
<1>3. ASSUME serverNo \in Server, NEW k \in {4, 5}
      PROVE  Rotated(Arr(Order[k])) = Rotate(drawn[Arr(Order[k])], ShiftOf(Order[k]))
  <2>1. CASE serverNo = 0 /\ k = 4
    BY <1>2, <1>3, <2>1 DEF Rotated
  <2>2. CASE serverNo = 0 /\ k = 5
    BY <1>2, <1>3, <2>2 DEF Rotated
  <2>3. CASE serverNo # 0 /\ k = 4
    BY <1>2, <1>3, <2>3 DEF Rotated
  <2>4. CASE serverNo # 0 /\ k = 5
    BY <1>2, <1>3, <2>4 DEF Rotated
  <2> QED
    BY <1>3, <2>1, <2>2, <2>3, <2>4
<1> QED
  BY <1>1, <1>2, <1>3 DEF Matrices

\* A row before it is rotated, and in the middle of it.
LEMMA RotationBegun ==
    ASSUME Parts, NEW k \in {4, 5}, NEW t \in Thread, In(t, k)
    PROVE  LET i == It(t)
               m == Arr(Order[k])
               s == ShiftOf(Order[k])[i]
           IN  /\ i \in Index /\ i \in Ahead(k) /\ m \in Matrices
               /\ s \in Index /\ matrix[m] \in [Index -> [Index -> Word]]
               /\ drawn[m][i] \in [Index -> Word]
               /\ StepOf(t) \in 0 .. 2 /\ (StepOf(t) # 0 => s # 0)
               /\ matrix[m][i] = IF StepOf(t) = 2 THEN Moved(Order[k], i) ELSE drawn[m][i]
               /\ StepOf(t) # 0 => \A j \in 0 .. s - 1 : temp[t][j] = drawn[m][i][SIZE_PI - s + j]
               /\ temp[t] \in [Index -> Word]
               /\ \A u, n : u # t => ~Within(u, k, i, n)
<1> DEFINE i == It(t)
           m == Arr(Order[k])
           s == ShiftOf(Order[k])[i]
<1>1. /\ Control /\ k \in Static /\ Iterations(k) = SIZE_PI /\ k \in 1 .. 9
  BY IterationFacts DEF Parts, Static
<1>2. /\ t \in team /\ thread[t].loop = k /\ thread[t].next < thread[t].end
      /\ thread[t].next \in Nat /\ thread[t].end \in Nat /\ thread[t].step \in Nat
  BY <1>1 DEF Control, In
<1>3. i \in Left(k, t) /\ i \in SliceOf(k, t) /\ i \in Index /\ i \in Ahead(k)
  <2>1. i \in Left(k, t)
    BY <1>2 DEF Left, It
  <2> HIDE DEF i
  <2>2. i \in SliceOf(k, t) /\ i \in 0 .. Iterations(k) - 1
    BY <1>1, <1>2, <2>1, LeftInSlice
  <2> QED
    BY <1>1, <1>2, <2>1, <2>2 DEF Ahead, Index
<1>4. ASSUME NEW u, NEW n, u # t PROVE ~Within(u, k, i, n)
  <2> SUFFICES ASSUME Within(u, k, i, n) PROVE FALSE
    OBVIOUS
  <2>1. u \in team /\ u \in Thread /\ thread[u].loop = k /\ thread[u].next < thread[u].end
        /\ thread[u].next = i
    BY <1>1, TeamFacts DEF Control, Within, In
  <2>2. i \in Left(k, u)
    BY <1>1, <2>1 DEF Left, Control
  <2> QED
    BY <1>1, <1>2, <1>3, <1>4, <2>1, <2>2, LeftInSlice, SlicesApart
<1>5. m \in Matrices
  BY <1>1, RotationNames DEF Control
<1>6. /\ matrix[m] \in [Index -> [Index -> Word]] /\ drawn[m][i] \in [Index -> Word]
      /\ temp[t] \in [Index -> Word]
  BY <1>3, <1>5 DEF Parts, DataTypes, GivenInv, Matrix, Vector
<1>7. s \in Index
  BY <1>1, <1>3 DEF ShiftOf, Control, Shift
<1>8. StepOf(t) \in 0 .. 2 /\ (StepOf(t) # 0 => s # 0)
  <2>1. thread[t].step # 0 => thread[t].step <= LastStep(k) /\ ShiftOf(Order[k])[thread[t].next] # 0
    BY <1>1, <1>2 DEF Control, ThreadInv
  <2>2. LastStep(k) = 2
    BY DEF LastStep
  <2> QED
    BY <1>2, <2>1, <2>2 DEF StepOf, It
<1>9. Within(t, k, i, StepOf(t))
  BY DEF Within, It, StepOf
<1>10. RotationOf(k)
  BY DEF Parts
<1>11. (\E u : Within(u, k, i, 2)) <=> StepOf(t) = 2
  <2>1. Within(t, k, i, 2) <=> StepOf(t) = 2
    BY DEF Within, It, StepOf
  <2> QED
    BY <1>4, <2>1
<1>12. matrix[m][i] = IF StepOf(t) = 2 THEN Moved(Order[k], i) ELSE drawn[m][i]
  BY <1>3, <1>10, <1>11 DEF RotationOf
<1>13. StepOf(t) # 0 => \A j \in 0 .. s - 1 : temp[t][j] = drawn[m][i][SIZE_PI - s + j]
  BY <1>9, <1>10 DEF RotationOf
<1> QED
  BY <1>3, <1>4, <1>5, <1>6, <1>7, <1>8, <1>12, <1>13

\* What a step of thread t in a row must do to the row and to its buffer.
LEMMA RotationUpdate ==
    ASSUME Parts, NEW k \in {4, 5}, NEW t, NEW i \in Index, UNCHANGED given,
           \A j : j # i => /\ j \in Index => matrix'[Arr(Order[k])][j] = matrix[Arr(Order[k])][j]
                           /\ j \in Ahead(k)' <=> j \in Ahead(k),
           \A u : u # t => temp'[u] = temp[u],
           \A u, j, n : u # t /\ n # 0 => (Within(u, k, j, n)' <=> Within(u, k, j, n)),
           \A u, n : u # t => ~Within(u, k, i, n),
           \A j, n : n # 0 /\ Within(t, k, j, n)' => j = i,
           \A j, n : n # 0 /\ Within(t, k, j, n) => j = i,
           matrix'[Arr(Order[k])][i] =
              IF i \notin Ahead(k)' THEN Rotated(Arr(Order[k]))[i]
              ELSE IF Within(t, k, i, 2)' THEN Moved(Order[k], i) ELSE drawn[Arr(Order[k])][i],
           \A n : n # 0 /\ Within(t, k, i, n)' =>
              \A j \in 0 .. ShiftOf(Order[k])[i] - 1 :
                 temp'[t][j] = drawn[Arr(Order[k])][i][SIZE_PI - ShiftOf(Order[k])[i] + j]
    PROVE  RotationOf(k)'
<1> DEFINE name == Order[k]
           m == Arr(name)
           c == ShiftOf(name)
<1>1. /\ \A j \in Index \ Ahead(k) : matrix[m][j] = Rotated(m)[j]
      /\ \A j \in Ahead(k) :
            matrix[m][j] = IF \E u : Within(u, k, j, 2) THEN Moved(name, j) ELSE drawn[m][j]
      /\ \A u, j, n : n # 0 /\ Within(u, k, j, n) =>
            \A x \in 0 .. c[j] - 1 : temp[u][x] = drawn[m][j][SIZE_PI - c[j] + x]
  BY DEF Parts, RotationOf
<1>2. /\ Arr(name)' = m /\ ShiftOf(name)' = c /\ Rotated(m)' = Rotated(m)
      /\ \A j : Moved(name, j)' = Moved(name, j)
      /\ drawn' = drawn
  BY GivenFixed
<1>3. Ahead(k) \subseteq Index
  <2>1. Control /\ k \in Static /\ Iterations(k) = SIZE_PI
    BY IterationFacts DEF Parts, Static
  <2> QED
    BY <2>1, AheadWhole DEF Index
<1>4. RotationOf(k)' <=>
      /\ \A j \in Index \ Ahead(k)' : matrix'[Arr(name)'][j] = Rotated(m)'[j]
      /\ \A j \in Ahead(k)' :
            matrix'[Arr(name)'][j] = IF \E u : Within(u, k, j, 2)' THEN Moved(name, j)'
                                     ELSE drawn'[Arr(name)'][j]
      /\ \A u, j, n : n # 0 /\ Within(u, k, j, n)' =>
            \A x \in 0 .. ShiftOf(name)'[j] - 1 :
               temp'[u][x] = drawn'[Arr(name)'][j][SIZE_PI - ShiftOf(name)'[j] + x]
  BY DEF RotationOf
<1>5. ASSUME NEW j \in Index \ Ahead(k)' PROVE matrix'[m][j] = Rotated(m)[j]
  BY <1>1
<1>6. ASSUME NEW j \in Ahead(k)'
      PROVE  matrix'[m][j] = IF \E u : Within(u, k, j, 2)' THEN Moved(name, j) ELSE drawn[m][j]
  <2>1. CASE j = i
    <3>1. (\E u : Within(u, k, i, 2)') <=> Within(t, k, i, 2)'
      OBVIOUS
    <3> QED
      BY <1>6, <2>1, <3>1
  <2>2. CASE j # i
    <3>1. (\E u : Within(u, k, j, 2)') <=> \E u : Within(u, k, j, 2)
      BY <2>2
    <3>2. j \in Ahead(k) /\ j \in Index /\ matrix'[m][j] = matrix[m][j]
      BY <1>3, <1>6, <2>2
    <3> QED
      BY <1>1, <3>1, <3>2
  <2> QED
    BY <2>1, <2>2
<1>7. ASSUME NEW u, NEW j, NEW n, n # 0, Within(u, k, j, n)'
      PROVE  \A x \in 0 .. c[j] - 1 : temp'[u][x] = drawn[m][j][SIZE_PI - c[j] + x]
  <2>1. CASE u = t
    BY <1>7, <2>1
  <2>2. CASE u # t
    BY <1>1, <1>7, <2>2
  <2> QED
    BY <2>1, <2>2
<1> HIDE DEF name, m, c
<1> QED
  BY <1>2, <1>4, <1>5, <1>6, <1>7

\* Nothing else is touched by a step of a rotation.
LEMMA RotationRest ==
    ASSUME Parts, NEW k \in {4, 5}, NEW t, In(t, k), Control', UNCHANGED given,
           UNCHANGED <<roundKeys, keystream, vec, a, b, delta, colAccum, rowSum, reg>>,
           \A j \in Static : j # k => Kept(j), TilesAhead' = TilesAhead,
           \A m \in Matrices : m # Arr(Order[k]) => matrix'[m] = matrix[m],
           \A u : u # t => temp'[u] = temp[u],
           matrix' \in [Matrices -> Matrix], temp' \in [Thread -> Vector],
           RotationOf(k)'
    PROVE  Parts'
<1>1. PICK o \in {4, 5} : o # k
  OBVIOUS
<1>2. RotationOf(o)'
  <2>1. serverNo \in Server /\ o \in Static
    BY DEF Parts, Control, Static
  <2>2. Arr(Order[o]) \in Matrices /\ Arr(Order[o]) # Arr(Order[k])
    BY <1>1, <2>1, RotationNames
  <2>3. \A u : (\E i, n : n # 0 /\ Within(u, o, i, n)) => temp'[u] = temp[u]
    BY <1>1 DEF Within, In
  <2>4. Quiet(o) /\ RotationOf(o)
    BY <1>1, <2>1 DEF Kept, Parts
  <2> QED
    BY <2>2, <2>3, <2>4, RotationFrame
<1>3. RotationOf(4)' /\ RotationOf(5)'
  BY <1>1, <1>2
<1>4. DataTypes'
  BY DEF Parts, DataTypes
<1>5. /\ GivenInv' /\ VectorInv'
      /\ ColumnsOf(6)' /\ RowOf(6)' /\ ColumnsOf(8)' /\ RowOf(8)'
      /\ RowResults' /\ ColumnResults' /\ DeltaResults'
  <2>1. k \in Nat
    OBVIOUS
  <2> QED
    BY <2>1, RestKept
<1> QED
  BY <1>3, <1>4, <1>5 DEF Parts, Results

\* The end of a row is saved.
LEMMA SaveTailStep ==
    ASSUME Parts, NEW t \in Thread, NEW l \in Rotation, SaveTail(t, l)
    PROVE  Parts'
<1>1. PICK k \in {4, 5} : l = Order[k] /\ In(t, k)
  BY RotationNames DEF SaveTail
<1>0. PICK i : i = It(t)
  OBVIOUS
<1> DEFINE m == Arr(l)
           s == ShiftOf(l)[i]
<1>2. /\ i \in Index /\ i \in Ahead(k) /\ m \in Matrices /\ s \in Index
      /\ matrix[m] \in [Index -> [Index -> Word]] /\ drawn[m][i] \in [Index -> Word]
      /\ StepOf(t) = 0 /\ matrix[m][i] = drawn[m][i]
      /\ temp[t] \in [Index -> Word]
      /\ \A u, n : u # t => ~Within(u, k, i, n)
  <2>1. StepOf(t) = 0 /\ ~(StepOf(t) = 2)
    BY DEF SaveTail
  <2> QED
    BY <1>0, <1>1, <2>1, RotationBegun
<1>3. /\ Control /\ StepOn(t) /\ s # 0
      /\ UNCHANGED <<given, team, tile>>
      /\ UNCHANGED <<roundKeys, keystream, vec, matrix, a, b, delta, colAccum, rowSum, reg>>
      /\ temp' = [temp EXCEPT ![t] =
                    [j \in Index |-> IF j < s THEN matrix[m][i][SIZE_PI - s + j] ELSE @[j]]]
  BY <1>0 DEF Parts, SaveTail, shared, sums, Buffer
<1>4. thread[t].step + 1 <= LastStep(k) /\ k \in 1 .. 9
  BY <1>2 DEF LastStep, StepOf
<1>5. ShiftOf(Order[k])[thread[t].next] # 0
  BY <1>0, <1>1, <1>3 DEF It
<1>6. /\ Control' /\ \A j \in Static : j # k => Kept(j)
      /\ \A j : Ahead(j)' = Ahead(j)
      /\ TilesAhead' = TilesAhead
      /\ \A u, o, j, n : Within(u, o, j, n)' <=>
            IF u = t THEN o = k /\ j = It(t) /\ n = StepOf(t) + 1 ELSE Within(u, o, j, n)
  BY <1>1, <1>3, <1>4, <1>5, StepOnKept
<1> HIDE DEF m, s
<1>7. temp \in [Thread -> [Index -> Word]]
  BY DEF Parts, DataTypes, Vector
<1>8. /\ \A j \in 0 .. s - 1 : temp'[t][j] = drawn[m][i][SIZE_PI - s + j]
      /\ \A u : u # t => temp'[u] = temp[u]
      /\ temp' \in [Thread -> [Index -> Word]]
  <2>1. temp'[t] = [j \in Index |-> IF j < s THEN matrix[m][i][SIZE_PI - s + j] ELSE temp[t][j]]
    BY <1>3, <1>7
  <2>2. \A j \in 0 .. s - 1 : j \in Index /\ SIZE_PI - s + j \in Index /\ j < s
    BY <1>2, Sizes DEF Index
  <2>3. \A j \in Index : j < s => j \in 0 .. s - 1
    BY <1>2, Sizes DEF Index
  <2>4. [j \in Index |-> IF j < s THEN matrix[m][i][SIZE_PI - s + j] ELSE temp[t][j]]
           \in [Index -> Word]
    BY <1>2, <2>2, <2>3
  <2>5. \A u : u # t => temp'[u] = temp[u]
    BY <1>3, <1>7
  <2> QED
    BY <1>2, <1>3, <1>7, <2>1, <2>2, <2>4, <2>5
<1>9. RotationOf(k)'
  <2>1. /\ \A j, n : n # 0 /\ Within(t, k, j, n)' => j = i
        /\ \A j, n : n # 0 /\ Within(t, k, j, n) => j = i
        /\ ~Within(t, k, i, 2)'
    <3>1. \A j, n : Within(t, k, j, n)' <=> j = i /\ n = StepOf(t) + 1
      BY <1>0, <1>6
    <3>2. \A j, n : Within(t, k, j, n) => j = i
      BY <1>0 DEF Within, It
    <3> QED
      BY <1>2, <3>1, <3>2
  <2>2. matrix' = matrix
    BY <1>3
  <2>3. /\ matrix'[m][i] = drawn[m][i]
        /\ \A j : j # i => /\ j \in Index => matrix'[m][j] = matrix[m][j]
                           /\ j \in Ahead(k)' <=> j \in Ahead(k)
        /\ i \in Ahead(k)'
        /\ \A u, j, n : u # t /\ n # 0 => (Within(u, k, j, n)' <=> Within(u, k, j, n))
    BY <1>2, <1>6, <2>2
  <2>4. UNCHANGED given
    BY <1>3
  <2>5. \A n : n # 0 /\ Within(t, k, i, n)' =>
              \A j \in 0 .. s - 1 : temp'[t][j] = drawn[m][i][SIZE_PI - s + j]
    BY <1>8
  <2>6. matrix'[m][i] = IF i \notin Ahead(k)' THEN Rotated(m)[i]
                        ELSE IF Within(t, k, i, 2)' THEN Moved(l, i) ELSE drawn[m][i]
    BY <2>1, <2>3
  <2> QED
    <3>1. \A u : u # t => temp'[u] = temp[u]
      BY <1>8
    <3> QED
      BY <1>1, <1>2, <2>1, <2>3, <2>4, <2>5, <2>6, <3>1, RotationUpdate DEF m, s
<1>10. matrix' \in [Matrices -> Matrix] /\ temp' \in [Thread -> Vector]
  BY <1>3, <1>8 DEF Parts, DataTypes, Vector
<1> QED
  BY <1>1, <1>3, <1>6, <1>8, <1>9, <1>10, RotationRest

\* The others move to the right.
LEMMA MoveRightStep ==
    ASSUME Parts, NEW t \in Thread, NEW l \in Rotation, MoveRight(t, l)
    PROVE  Parts'
<1>1. PICK k \in {4, 5} : l = Order[k] /\ In(t, k)
  BY RotationNames DEF MoveRight
<1>0. PICK i : i = It(t)
  OBVIOUS
<1> DEFINE m == Arr(l)
           s == ShiftOf(l)[i]
           row == [j \in Index |-> IF j >= s THEN matrix[m][i][j - s] ELSE matrix[m][i][j]]
<1>2. /\ i \in Index /\ i \in Ahead(k) /\ m \in Matrices /\ s \in Index /\ s # 0
      /\ drawn[m][i] \in [Index -> Word]
      /\ StepOf(t) = 1 /\ matrix[m][i] = drawn[m][i]
      /\ \A j \in 0 .. s - 1 : temp[t][j] = drawn[m][i][SIZE_PI - s + j]
      /\ \A u, n : u # t => ~Within(u, k, i, n)
  <2>1. StepOf(t) = 1 /\ ~(StepOf(t) = 2) /\ StepOf(t) # 0
    BY DEF MoveRight
  <2> QED
    BY <1>0, <1>1, <2>1, RotationBegun
<1>3. /\ Control /\ StepOn(t)
      /\ UNCHANGED <<given, team, tile>>
      /\ UNCHANGED <<roundKeys, keystream, vec, a, b, delta, colAccum, temp, rowSum, reg>>
      /\ SetRow(l, i, row)
  BY <1>0 DEF Parts, MoveRight, sums
<1>4. thread[t].step + 1 <= LastStep(k) /\ k \in 1 .. 9
  BY <1>2 DEF LastStep, StepOf
<1>5. ShiftOf(Order[k])[thread[t].next] # 0
  BY <1>0, <1>1, <1>2 DEF It
<1>6. /\ Control' /\ \A j \in Static : j # k => Kept(j)
      /\ \A j : Ahead(j)' = Ahead(j)
      /\ TilesAhead' = TilesAhead
      /\ \A u, o, j, n : Within(u, o, j, n)' <=>
            IF u = t THEN o = k /\ j = It(t) /\ n = StepOf(t) + 1 ELSE Within(u, o, j, n)
  BY <1>1, <1>3, <1>4, <1>5, StepOnKept
<1> HIDE DEF m, s
<1>7. row = Moved(l, i) /\ row \in [Index -> Word]
  <2>1. Moved(l, i) = [j \in Index |-> drawn[m][i][IF j >= s THEN j - s ELSE j]]
    BY DEF Moved, m, s
  <2>2. \A j \in Index : j >= s => j - s \in Index
    BY <1>2, Sizes DEF Index
  <2>3. row = Moved(l, i)
    BY <1>2, <2>1
  <2> QED
    BY <1>2, <2>1, <2>2, <2>3
<1> HIDE DEF row
<1>8. /\ matrix' \in [Matrices -> Matrix] /\ matrix'[m][i] = Moved(l, i)
      /\ \A j \in Index : j # i => matrix'[m][j] = matrix[m][j]
      /\ \A x \in Matrices : x # m => matrix'[x] = matrix[x]
  <2>1. PICK w \in [Index -> Word] : w = Moved(l, i)
    BY <1>7
  <2>3. matrix' = [matrix EXCEPT ![Arr(l)][i] = w]
    BY <1>3, <1>7, <2>1 DEF SetRow
  <2>2. Arr(l) \in Matrices /\ matrix \in [Matrices -> Matrix]
    BY <1>2 DEF m, Parts, DataTypes
  <2>4. matrix' \in [Matrices -> Matrix]
    <3>1. [matrix[Arr(l)] EXCEPT ![i] = w] \in Matrix
      BY <2>1, <2>2 DEF Matrix, Vector
    <3> QED
      BY <2>2, <2>3, <3>1
  <2> QED
    BY <1>2, <2>1, <2>2, <2>3, <2>4 DEF m, Matrix, Vector
<1>9. RotationOf(k)'
  <2>1. /\ \A j, n : n # 0 /\ Within(t, k, j, n)' => j = i
        /\ \A j, n : n # 0 /\ Within(t, k, j, n) => j = i
        /\ Within(t, k, i, 2)'
    <3>1. \A j, n : Within(t, k, j, n)' <=> j = i /\ n = StepOf(t) + 1
      BY <1>0, <1>6
    <3>2. \A j, n : Within(t, k, j, n) => j = i
      BY <1>0 DEF Within, It
    <3> QED
      BY <1>2, <3>1, <3>2
  <2>2. /\ \A j : j # i => /\ j \in Index => matrix'[m][j] = matrix[m][j]
                           /\ j \in Ahead(k)' <=> j \in Ahead(k)
        /\ i \in Ahead(k)'
        /\ \A u, j, n : u # t /\ n # 0 => (Within(u, k, j, n)' <=> Within(u, k, j, n))
    BY <1>2, <1>6, <1>8
  <2>3. UNCHANGED given /\ temp' = temp
    BY <1>3
  <2>4. \A u : u # t => temp'[u] = temp[u]
    BY <2>3
  <2>5. \A n : n # 0 /\ Within(t, k, i, n)' =>
              \A j \in 0 .. s - 1 : temp'[t][j] = drawn[m][i][SIZE_PI - s + j]
    BY <1>2, <2>3
  <2>6. matrix'[m][i] = IF i \notin Ahead(k)' THEN Rotated(m)[i]
                        ELSE IF Within(t, k, i, 2)' THEN Moved(l, i) ELSE drawn[m][i]
    BY <1>8, <2>1, <2>2
  <2> QED
    BY <1>1, <1>2, <2>1, <2>2, <2>3, <2>4, <2>5, <2>6, RotationUpdate DEF m, s
<1>10. temp' \in [Thread -> Vector] /\ \A u : u # t => temp'[u] = temp[u]
  BY <1>3 DEF Parts, DataTypes
<1> QED
  BY <1>1, <1>3, <1>6, <1>8, <1>9, <1>10, RotationRest DEF m

\* Those that were saved go to the front: the row is rotated.
LEMMA FillFrontStep ==
    ASSUME Parts, NEW t \in Thread, NEW l \in Rotation, FillFront(t, l)
    PROVE  Parts'
<1>0. PICK i : i = It(t)
  OBVIOUS
<1>1. PICK k \in {4, 5} : l = Order[k] /\ In(t, k)
  BY RotationNames DEF FillFront
<1> DEFINE m == Arr(l)
           s == ShiftOf(l)[i]
           row == [j \in Index |-> IF j < s THEN temp[t][j] ELSE matrix[m][i][j]]
<1>2. /\ i \in Index /\ i \in Ahead(k) /\ m \in Matrices /\ s \in Index
      /\ drawn[m][i] \in [Index -> Word]
      /\ StepOf(t) = 2 /\ matrix[m][i] = Moved(l, i)
      /\ \A j \in 0 .. s - 1 : temp[t][j] = drawn[m][i][SIZE_PI - s + j]
      /\ \A u, n : u # t => ~Within(u, k, i, n)
  <2>1. StepOf(t) = 2 /\ StepOf(t) # 0
    BY DEF FillFront
  <2> QED
    BY <1>0, <1>1, <2>1, RotationBegun
<1>3. /\ Control /\ NextItem(t)
      /\ UNCHANGED <<given, team, tile>>
      /\ UNCHANGED <<roundKeys, keystream, vec, a, b, delta, colAccum, temp, rowSum, reg>>
      /\ matrix' = [matrix EXCEPT ![m][i] = row]
  BY <1>0 DEF Parts, FillFront, sums, SetRow, Buffer
<1>4. k \in 1 .. 9 /\ k # 2
  OBVIOUS
<1>5. /\ Control' /\ \A j \in Static : j # k => Kept(j)
      /\ Ahead(k)' = Ahead(k) \ {i}
      /\ TilesAhead' = TilesAhead
      /\ \A u, o, j, n : n # 0 => (Within(u, o, j, n)' <=> u # t /\ Within(u, o, j, n))
  BY <1>0, <1>1, <1>3, <1>4, NextItemKept
<1> HIDE DEF m
<1>6. Rotated(m)[i] = [j \in Index |-> drawn[m][i][(j - s + SIZE_PI) % SIZE_PI]]
  <2>1. serverNo \in Server
    BY DEF Parts, Control
  <2>2. Rotated(m) = Rotate(drawn[m], ShiftOf(l))
    BY <1>1, <2>1, RotationNames DEF m
  <2> HIDE DEF s
  <2> QED
    BY <1>2, <2>2 DEF Rotate, s
<1> HIDE DEF s
<1>7. row = Rotated(m)[i] /\ row \in [Index -> Word]
  <2>1. \A j \in Index : /\ (j - s + SIZE_PI) % SIZE_PI = IF j < s THEN j - s + SIZE_PI ELSE j - s
                         /\ (j - s + SIZE_PI) % SIZE_PI \in Index
    BY <1>2, Sizes, RotatedIndex DEF Index
  <2>2. ASSUME NEW j \in Index
        PROVE  row[j] = drawn[m][i][(j - s + SIZE_PI) % SIZE_PI]
    <3>1. CASE j < s
      <4>1. j \in 0 .. s - 1 /\ SIZE_PI - s + j = j - s + SIZE_PI
        BY <1>2, <3>1, Sizes DEF Index
      <4>2. row[j] = temp[t][j]
        BY <3>1
      <4>3. temp[t][j] = drawn[m][i][SIZE_PI - s + j]
        BY <1>2, <4>1
      <4>4. (j - s + SIZE_PI) % SIZE_PI = SIZE_PI - s + j
        BY <2>1, <3>1, <4>1
      <4> HIDE DEF row
      <4> QED
        BY <4>2, <4>3, <4>4
    <3>2. CASE ~(j < s)
      <4>1. matrix[m][i][j] = drawn[m][i][j - s]
        <5>1. Moved(l, i) = [x \in Index |-> drawn[m][i][IF x >= s THEN x - s ELSE x]]
          BY DEF Moved, m, s
        <5>2. j >= s
          BY <1>2, <3>2, Sizes DEF Index
        <5> QED
          BY <1>2, <5>1, <5>2
      <4>2. row[j] = matrix[m][i][j]
        BY <3>2
      <4>3. (j - s + SIZE_PI) % SIZE_PI = j - s
        BY <2>1, <3>2
      <4> HIDE DEF row
      <4> QED
        BY <4>1, <4>2, <4>3
    <3> QED
      BY <3>1, <3>2
  <2>3. row = [j \in Index |-> row[j]]
    OBVIOUS
  <2>4. \A j \in Index : drawn[m][i][(j - s + SIZE_PI) % SIZE_PI] \in Word
    BY <1>2, <2>1
  <2> HIDE DEF row
  <2>5. row = Rotated(m)[i]
    BY <1>6, <2>2, <2>3
  <2> QED
    BY <2>2, <2>3, <2>4, <2>5
<1> HIDE DEF row
<1>8. /\ matrix' \in [Matrices -> Matrix] /\ matrix'[m][i] = Rotated(m)[i]
      /\ \A j \in Index : j # i => matrix'[m][j] = matrix[m][j]
      /\ \A x \in Matrices : x # m => matrix'[x] = matrix[x]
  <2>1. PICK w \in [Index -> Word] : w = row
    BY <1>7
  <2>2. m \in Matrices /\ matrix \in [Matrices -> Matrix]
    BY <1>2 DEF Parts, DataTypes
  <2>3. matrix' = [matrix EXCEPT ![m][i] = w]
    BY <1>3, <2>1
  <2>4. matrix' \in [Matrices -> Matrix]
    <3>1. [matrix[m] EXCEPT ![i] = w] \in Matrix
      BY <2>1, <2>2 DEF Matrix, Vector
    <3> QED
      BY <2>2, <2>3, <3>1
  <2> QED
    BY <1>2, <1>7, <2>1, <2>2, <2>3, <2>4 DEF Matrix, Vector
<1>9. RotationOf(k)'
  <2>1. /\ \A j, n : n # 0 /\ Within(t, k, j, n)' => j = i
        /\ \A j, n : n # 0 /\ Within(t, k, j, n) => j = i
        /\ \A n : n # 0 => ~Within(t, k, i, n)'
    <3>1. \A j, n : n # 0 => ~Within(t, k, j, n)'
      BY <1>5
    <3>2. \A j, n : Within(t, k, j, n) => j = i
      BY <1>0 DEF Within, It
    <3> QED
      BY <3>1, <3>2
  <2>2. /\ \A j : j # i => /\ j \in Index => matrix'[m][j] = matrix[m][j]
                           /\ j \in Ahead(k)' <=> j \in Ahead(k)
        /\ i \notin Ahead(k)'
        /\ \A u, j, n : u # t /\ n # 0 => (Within(u, k, j, n)' <=> Within(u, k, j, n))
    BY <1>5, <1>8
  <2>3. UNCHANGED given /\ temp' = temp
    BY <1>3
  <2>4. \A u : u # t => temp'[u] = temp[u]
    BY <2>3
  <2>5. \A n : n # 0 /\ Within(t, k, i, n)' =>
              \A j \in 0 .. s - 1 : temp'[t][j] = drawn[m][i][SIZE_PI - s + j]
    BY <2>1
  <2>6. matrix'[m][i] = IF i \notin Ahead(k)' THEN Rotated(m)[i]
                        ELSE IF Within(t, k, i, 2)' THEN Moved(l, i) ELSE drawn[m][i]
    BY <1>8, <2>2
  <2> QED
    BY <1>1, <1>2, <2>1, <2>2, <2>3, <2>4, <2>5, <2>6, RotationUpdate DEF m, s
<1>10. temp' \in [Thread -> Vector] /\ \A u : u # t => temp'[u] = temp[u]
  BY <1>3 DEF Parts, DataTypes
<1> QED
  BY <1>1, <1>3, <1>5, <1>8, <1>9, <1>10, RotationRest DEF m

\* A row that is not shifted is rotated as it is.
LEMMA UnshiftedStep ==
    ASSUME Parts, NEW t \in Thread, NEW l \in Rotation, Unshifted(t, l)
    PROVE  Parts'
<1>0. PICK i : i = It(t)
  OBVIOUS
<1>1. PICK k \in {4, 5} : l = Order[k] /\ In(t, k)
  BY RotationNames DEF Unshifted
<1> DEFINE m == Arr(l)
           s == ShiftOf(l)[i]
<1>2. /\ i \in Index /\ i \in Ahead(k) /\ m \in Matrices /\ s = 0
      /\ drawn[m][i] \in [Index -> Word]
      /\ matrix[m][i] = drawn[m][i]
      /\ \A u, n : u # t => ~Within(u, k, i, n)
  <2>1. s = 0
    BY <1>0 DEF Unshifted
  <2> HIDE DEF s
  <2>3. StepOf(t) # 0 => s # 0
    BY <1>0, <1>1, RotationBegun DEF s
  <2> QED
    BY <1>0, <1>1, <2>1, <2>3, RotationBegun
<1>3. /\ Control /\ NextItem(t)
      /\ UNCHANGED <<given, team, tile>>
      /\ UNCHANGED <<roundKeys, keystream, vec, a, b, delta, colAccum, temp, rowSum, reg, matrix>>
  BY DEF Parts, Unshifted, shared, sums
<1>4. k \in 1 .. 9 /\ k # 2
  OBVIOUS
<1>5. /\ Control' /\ \A j \in Static : j # k => Kept(j)
      /\ Ahead(k)' = Ahead(k) \ {i}
      /\ TilesAhead' = TilesAhead
      /\ \A u, o, j, n : n # 0 => (Within(u, o, j, n)' <=> u # t /\ Within(u, o, j, n))
  BY <1>0, <1>1, <1>3, <1>4, NextItemKept
<1> HIDE DEF m
<1>6. Rotated(m)[i] = drawn[m][i]
  <2>1. serverNo \in Server
    BY DEF Parts, Control
  <2>2. Rotated(m) = Rotate(drawn[m], ShiftOf(l))
    BY <1>1, <2>1, RotationNames DEF m
  <2>3. Rotated(m)[i] = [j \in Index |-> drawn[m][i][(j - 0 + SIZE_PI) % SIZE_PI]]
    BY <1>2, <2>2 DEF Rotate
  <2>4. \A j \in Index : (j - 0 + SIZE_PI) % SIZE_PI = j
    <3> SUFFICES ASSUME NEW j \in Index PROVE (j - 0 + SIZE_PI) % SIZE_PI = j
      OBVIOUS
    <3>1. SIZE_PI \in Nat \ {0} /\ j \in 0 .. SIZE_PI - 1 /\ 0 \in 0 .. SIZE_PI - 1
      BY Sizes DEF Index
    <3>2. (j - 0 + SIZE_PI) % SIZE_PI = IF j < 0 THEN j - 0 + SIZE_PI ELSE j - 0
      BY <3>1, RotatedIndex
    <3> QED
      BY <3>1, <3>2
  <2>5. drawn[m][i] = [j \in Index |-> drawn[m][i][j]]
    BY <1>2
  <2> QED
    BY <2>3, <2>4, <2>5
<1> HIDE DEF s
<1>7. RotationOf(k)'
  <2>1. /\ \A j, n : n # 0 /\ Within(t, k, j, n)' => j = i
        /\ \A j, n : n # 0 /\ Within(t, k, j, n) => j = i
        /\ \A n : n # 0 => ~Within(t, k, i, n)'
    <3>1. \A j, n : n # 0 => ~Within(t, k, j, n)'
      BY <1>5
    <3>2. \A j, n : Within(t, k, j, n) => j = i
      BY <1>0 DEF Within, It
    <3> QED
      BY <3>1, <3>2
  <2>2. UNCHANGED given /\ temp' = temp /\ matrix' = matrix
    BY <1>3
  <2>3. /\ \A j : j # i => /\ j \in Index => matrix'[m][j] = matrix[m][j]
                           /\ j \in Ahead(k)' <=> j \in Ahead(k)
        /\ i \notin Ahead(k)'
        /\ \A u, j, n : u # t /\ n # 0 => (Within(u, k, j, n)' <=> Within(u, k, j, n))
    BY <1>5, <2>2
  <2>4. \A u : u # t => temp'[u] = temp[u]
    BY <2>2
  <2>5. \A n : n # 0 /\ Within(t, k, i, n)' =>
              \A j \in 0 .. s - 1 : temp'[t][j] = drawn[m][i][SIZE_PI - s + j]
    BY <2>1
  <2>6. matrix'[m][i] = IF i \notin Ahead(k)' THEN Rotated(m)[i]
                        ELSE IF Within(t, k, i, 2)' THEN Moved(l, i) ELSE drawn[m][i]
    BY <1>2, <1>6, <2>2, <2>3
  <2> QED
    BY <1>1, <1>2, <2>1, <2>2, <2>3, <2>4, <2>5, <2>6, RotationUpdate DEF m, s
<1>8. /\ temp' \in [Thread -> Vector] /\ matrix' \in [Matrices -> Matrix]
      /\ \A u : u # t => temp'[u] = temp[u]
      /\ \A x \in Matrices : x # Arr(Order[k]) => matrix'[x] = matrix[x]
  BY <1>3 DEF Parts, DataTypes
<1> QED
  BY <1>1, <1>3, <1>5, <1>7, <1>8, RotationRest

-----------------------------------------------------------------------------
\* The empty sum, and one more word.
LEMMA XorSumNext ==
    ASSUME NEW f
    PROVE  /\ XorSum(f, {}) = {}
           /\ \A A, p : IsFiniteSet(A) /\ p \notin A =>
                 XorSum(f, A \cup {p}) = Xor(XorSum(f, A), f[p])
<1>1. XorSum(f, {}) = {}
  BY DEF XorSum
<1>2. ASSUME NEW A, NEW p, IsFiniteSet(A), p \notin A
      PROVE  XorSum(f, A \cup {p}) = Xor(XorSum(f, A), f[p])
  <2>1. IsFiniteSet({p}) /\ A \cap {p} = {}
    BY <1>2, FS_Singleton
  <2> QED
    BY <1>2, <2>1, XorSumUnion, XorSumOne
<1> QED
  BY <1>1, <1>2

\* The steps of a row: two for every entry.
LEMMA EntrySteps ==
    ASSUME NEW n \in Nat
    PROVE  LET j == n \div 2
           IN  /\ j \in Nat
               /\ n % 2 = 0 => (n + 1) \div 2 = j /\ ((n + 1) + 1) \div 2 = j + 1 /\ (n + 1) % 2 = 1
               /\ n % 2 = 1 => (n + 1) \div 2 = j + 1 /\ ((n + 1) + 1) \div 2 = j + 1
                               /\ (n + 1) % 2 = 0
               /\ n < 2 * SIZE_PI => j \in Index
               /\ n = 2 * SIZE_PI => j = SIZE_PI /\ (n + 1) \div 2 = SIZE_PI
BY Sizes, Z3 DEF Index

\* The loops that pass over the rows of a matrix.
LEMMA PassNames ==
    /\ \A l \in Passes : \E k \in {6, 8} : l = Order[k] /\ \A t : Doing(t, l) <=> In(t, k)
    /\ Scanned(Order[6]) = "full" /\ Scanned(Order[8]) = "punctured"
    /\ \A k \in {6, 8} : Scanned(Order[k]) \in Matrices /\ Order[k] \in Passes
<1>1. \A l \in Passes : \E k \in {6, 8} : l = Order[k] /\ \A t : Doing(t, l) <=> In(t, k)
  BY OrderFacts, DoingMeans DEF Passes
<1> QED
  BY <1>1, OrderFacts DEF Scanned, Matrices, Passes

\* In a pass over the rows the matrices are rotated.
LEMMA MatricesRotated ==
    ASSUME Parts, Ahead(4) = {}, Ahead(5) = {}
    PROVE  \A m \in Matrices, i \in Index : matrix[m][i] = Rotated(m)[i]
<1>1. serverNo \in Server /\ RotationOf(4) /\ RotationOf(5)
  BY DEF Parts, Control
<1>2. ASSUME NEW m \in Matrices PROVE m = Arr(Order[4]) \/ m = Arr(Order[5])
  BY <1>1, RotationNames DEF Matrices
<1> QED
  BY <1>1, <1>2 DEF RotationOf

\* What a thread in a pass over the rows knows.
LEMMA PassBegun ==
    ASSUME Parts, NEW k \in {6, 8}, NEW t \in Thread, In(t, k)
    PROVE  LET i == It(t)
               n == StepOf(t)
               M == Rotated(Scanned(Order[k]))
           IN  /\ i \in Index /\ i \in Left(k, t) /\ i \in SliceOf(k, t)
               /\ n \in Nat /\ n <= 2 * SIZE_PI
               /\ matrix[Scanned(Order[k])] \in [Index -> [Index -> Word]]
               /\ matrix[Scanned(Order[k])][i] = M[i]
               /\ n # 0 => /\ rowSum[t] = XorSum(M[i], 0 .. ((n + 1) \div 2) - 1)
                           /\ n % 2 = 1 => reg[t] = colAccum[t][n \div 2]
               /\ \A u, x : u # t => ~Within(u, k, i, x)
               /\ \A u \in team : thread[u].loop = k
               /\ thread[0].loop = k
               /\ t \in team
               /\ \A j \in Static : j < k => Ahead(j) = {}
               /\ \A j \in Static : j > k => Ahead(j) = 0 .. Iterations(j) - 1
               /\ \A u \in Thread, j \in Index :
                     colAccum[u][j] = XorSum(ColumnOf(M, j), Counted(k, u, j))
<1> DEFINE i == It(t)
           n == StepOf(t)
           M == Rotated(Scanned(Order[k]))
<1>1. /\ Control /\ k \in Static /\ Iterations(k) = SIZE_PI /\ k \in 1 .. 9
      /\ team \subseteq Thread /\ 0 \in team
  <2>1. Control /\ k \in Static /\ k \in 1 .. 9 /\ k # 3
    BY DEF Parts, Static
  <2>2. Iterations(k) = SIZE_PI
    BY <2>1, IterationFacts
  <2> QED
    BY <2>1, <2>2, TeamFacts DEF Control
<1>2. /\ t \in team /\ thread[t].loop = k /\ thread[t].next < thread[t].end
      /\ thread[t].next \in Nat /\ thread[t].end \in Nat /\ thread[t].step \in Nat
  BY <1>1 DEF Control, In
<1>3. i \in Left(k, t) /\ i \in SliceOf(k, t) /\ i \in Index
  <2>1. i \in Left(k, t)
    BY <1>2 DEF Left, It
  <2> HIDE DEF i
  <2>2. i \in SliceOf(k, t) /\ i \in 0 .. Iterations(k) - 1
    BY <1>1, <1>2, <2>1, LeftInSlice
  <2> QED
    BY <1>1, <1>2, <2>1, <2>2 DEF Index
<1>4. ASSUME NEW u, NEW x, u # t PROVE ~Within(u, k, i, x)
  <2> SUFFICES ASSUME Within(u, k, i, x) PROVE FALSE
    OBVIOUS
  <2>1. u \in team /\ u \in Thread /\ thread[u].loop = k /\ thread[u].next < thread[u].end
        /\ thread[u].next = i
    BY <1>1 DEF Within, In
  <2>2. i \in Left(k, u)
    BY <1>1, <2>1 DEF Left, Control
  <2> QED
    BY <1>1, <1>2, <1>3, <1>4, <2>1, <2>2, LeftInSlice, SlicesApart
<1>5. n \in Nat /\ n <= 2 * SIZE_PI
  <2>1. thread[t].step # 0 => thread[t].step <= LastStep(k)
    BY <1>1, <1>2 DEF Control, ThreadInv
  <2>2. LastStep(k) = 2 * SIZE_PI
    BY DEF LastStep
  <2> QED
    BY <1>2, <2>1, <2>2, Sizes DEF StepOf
<1>6. /\ \A j \in Static : j < k => Ahead(j) = {}
      /\ \A j \in Static : j > k => Ahead(j) = 0 .. Iterations(j) - 1
      /\ \A u \in team : thread[u].loop = k
  BY <1>1, AtLoop
<1>7. matrix[Scanned(Order[k])][i] = M[i]
  <2>1. Ahead(4) = {} /\ Ahead(5) = {}
    BY <1>6 DEF Static
  <2> QED
    BY <1>3, <2>1, MatricesRotated, PassNames
<1>8. matrix[Scanned(Order[k])] \in [Index -> [Index -> Word]]
  BY PassNames DEF Parts, DataTypes, Matrix, Vector
<1>9. Within(t, k, i, n) /\ RowOf(k) /\ ColumnsOf(k)
  BY DEF Within, It, StepOf, Parts
<1>10. n # 0 => /\ rowSum[t] = XorSum(M[i], 0 .. ((n + 1) \div 2) - 1)
                /\ n % 2 = 1 => reg[t] = colAccum[t][n \div 2]
  BY <1>9 DEF RowOf
<1>11. \A u \in Thread, j \in Index :
          colAccum[u][j] = XorSum(ColumnOf(M, j), Counted(k, u, j))
  BY <1>1, <1>6, <1>9 DEF ColumnsOf
<1> QED
  BY <1>1, <1>2, <1>3, <1>4, <1>5, <1>6, <1>7, <1>8, <1>10, <1>11

\* Of the other pass nothing is being summed.
LEMMA OtherPass ==
    ASSUME Parts, NEW k \in {6, 8}, NEW t \in Thread, In(t, k),
           NEW o \in {6, 8}, o # k, Kept(o)
    PROVE  ColumnsOf(o)' /\ RowOf(o)'
<1>1. thread[0].loop = k /\ \A u \in team : thread[u].loop = k
  BY PassBegun
<1>2. ~(thread'[0].loop \in {o, o + 1})
  BY <1>1 DEF Kept
<1>3. \A u, i, n : ~Within(u, o, i, n)
  BY <1>1 DEF Within, In
<1>4. \A u, i, n : n # 0 => ~Within(u, o, i, n)'
  BY <1>3 DEF Kept, Quiet
<1> QED
  BY <1>2, <1>4 DEF ColumnsOf, RowOf

\* What the others have counted stays.
LEMMA CountedOthers ==
    ASSUME Control, Control', NEW k \in {6, 8}, NEW t, team' = team,
           \A u \in team : u # t => Left(k, u)' = Left(k, u),
           \A u : SliceOf(k, u)' = SliceOf(k, u),
           \A u, i, n : n # 0 /\ u # t => (Within(u, k, i, n)' <=> Within(u, k, i, n))
    PROVE  \A u \in Thread, j \in Index : u # t => Counted(k, u, j)' = Counted(k, u, j)
<1> SUFFICES ASSUME NEW u \in Thread, NEW j \in Index, u # t
             PROVE  Counted(k, u, j)' = Counted(k, u, j)
  OBVIOUS
<1> DEFINE Now  == {i \in Index : \E n \in Nat : n # 0 /\ Within(u, k, i, n) /\ j < n \div 2}
           Then == {i \in Index : \E n \in Nat : n # 0 /\ Within(u, k, i, n)' /\ j < n \div 2}
<1>1. Then = Now
  OBVIOUS
<1>2. Counted(k, u, j) = IF u \notin team THEN {} ELSE (SliceOf(k, u) \ Left(k, u)) \cup Now
  BY CountedMeans
<1>3. Counted(k, u, j)' = IF u \notin team' THEN {}
                          ELSE (SliceOf(k, u)' \ Left(k, u)') \cup Then
  BY CountedMeansNext
<1> HIDE DEF Now, Then
<1> QED
  BY <1>1, <1>2, <1>3

\* What thread t has counted, in terms of where it is.
LEMMA CountedMine ==
    \A k \in {6, 8} : \A t, j : t \in team =>
        Counted(k, t, j) = (SliceOf(k, t) \ Left(k, t))
                           \cup {x \in {thread[t].next} : In(t, k) /\ j < thread[t].step \div 2}
<1> SUFFICES ASSUME NEW k \in {6, 8}, NEW t, NEW j, t \in team
             PROVE  Counted(k, t, j) = (SliceOf(k, t) \ Left(k, t))
                       \cup {x \in {thread[t].next} : In(t, k) /\ j < thread[t].step \div 2}
  OBVIOUS
<1>1. Doing(t, Order[k]) <=> In(t, k)
  BY DoingMeans, OrderFacts
<1> QED
  BY <1>1 DEF Counted, It, StepOf

\* After a step, too.
LEMMA CountedMineNext ==
    (\A k \in {6, 8} : \A t, j : t \in team =>
        Counted(k, t, j) = (SliceOf(k, t) \ Left(k, t))
                           \cup {x \in {thread[t].next} : In(t, k) /\ j < thread[t].step \div 2})'
BY CountedMine, PTL

\* The parts a step of a pass over the rows does not disturb.
LEMMA PassRest ==
    ASSUME Parts, NEW k \in {6, 8}, NEW t \in Thread, In(t, k),
           UNCHANGED <<given, roundKeys, keystream, vec, matrix, a, temp>>,
           Control', \A j \in Static : j # k => Kept(j), TilesAhead' = TilesAhead,
           colAccum' \in [Thread -> Vector], b' \in Vector, delta' \in Vector,
           rowSum' \in [Thread -> Word], reg' \in [Thread -> Word],
           ColumnsOf(k)', RowOf(k)',
           IF k = 6 THEN UNCHANGED delta /\ RowResults' ELSE UNCHANGED b /\ DeltaResults'
    PROVE  Parts'
<1>1. UNCHANGED given
  OBVIOUS
<1>2. /\ GivenInv'
      /\ UNCHANGED <<matrix, temp>> => \A j \in {4, 5} : j # k => RotationOf(j)'
      /\ UNCHANGED b /\ k # 6 => RowResults'
      /\ UNCHANGED a /\ k # 7 => ColumnResults'
      /\ UNCHANGED delta /\ k \notin {8, 9} => DeltaResults'
      /\ UNCHANGED <<roundKeys, keystream, vec>> /\ k \notin {1, 3}
           /\ TilesAhead' = TilesAhead => VectorInv'
  BY <1>1, RestKept
<1>3. GivenInv' /\ VectorInv' /\ RotationOf(4)' /\ RotationOf(5)' /\ ColumnResults'
  BY <1>2
<1>4. RowResults' /\ DeltaResults'
  BY <1>2
<1>5. ColumnsOf(6)' /\ RowOf(6)' /\ ColumnsOf(8)' /\ RowOf(8)'
  <2>1. CASE k = 6
    <3>1. Kept(8)
      BY <2>1 DEF Static
    <3> QED
      BY <2>1, <3>1, OtherPass
  <2>2. CASE k = 8
    <3>1. Kept(6)
      BY <2>2 DEF Static
    <3> QED
      BY <2>2, <3>1, OtherPass
  <2> QED
    BY <2>1, <2>2
<1>6. DataTypes'
  BY DEF Parts, DataTypes
<1> QED
  BY <1>3, <1>4, <1>5, <1>6 DEF Parts, Results

\* An entry is added to the sum of its row.
LEMMA AddEntryStep ==
    ASSUME Parts, NEW t \in Thread, NEW l \in Passes, AddEntry(t, l)
    PROVE  Parts'
<1>0. PICK i : i = It(t)
  OBVIOUS
<1>1. PICK n : n = StepOf(t)
  OBVIOUS
<1>2. PICK k \in {6, 8} : l = Order[k] /\ In(t, k)
  BY PassNames DEF AddEntry
<1>3. PICK M : M = Rotated(Scanned(Order[k]))
  OBVIOUS
<1> DEFINE j == n \div 2
<1>4. /\ i \in Index /\ n \in Nat /\ t \in team
      /\ matrix[Scanned(l)] \in [Index -> [Index -> Word]]
      /\ matrix[Scanned(l)][i] = M[i]
      /\ n # 0 => rowSum[t] = XorSum(M[i], 0 .. ((n + 1) \div 2) - 1)
      /\ thread[0].loop = k
      /\ \A u \in Thread, x \in Index :
            colAccum[u][x] = XorSum(ColumnOf(M, x), Counted(k, u, x))
  BY <1>0, <1>1, <1>2, <1>3, PassBegun
<1>5. /\ n < 2 * SIZE_PI /\ n % 2 = 0
      /\ rowSum' = [rowSum EXCEPT ![t] = Xor(IF j = 0 THEN {} ELSE @, M[i][j])]
      /\ reg' = [reg EXCEPT ![t] = colAccum[t][j]]
      /\ StepOn(t)
      /\ UNCHANGED <<given, team, tile>>
      /\ UNCHANGED <<roundKeys, keystream, vec, matrix, a, b, delta, colAccum, temp>>
  BY <1>0, <1>1, <1>4 DEF AddEntry, Mine, shared, sums
<1>6. /\ j \in Nat /\ j \in Index /\ (n + 1) \div 2 = j /\ ((n + 1) + 1) \div 2 = j + 1
  BY <1>4, <1>5, EntrySteps
<1>7. /\ Control /\ k \in 1 .. 9 /\ k \in Static /\ thread[t].step + 1 <= LastStep(k)
      /\ k \notin {4, 5} /\ rowSum \in [Thread -> Word] /\ reg \in [Thread -> Word]
      /\ colAccum \in [Thread -> Vector] /\ b \in Vector /\ delta \in Vector
  <2>1. n + 1 <= 2 * SIZE_PI
    BY <1>4, <1>5, Sizes
  <2> QED
    BY <1>1, <2>1 DEF Parts, DataTypes, LastStep, Static, StepOf
<1>8. /\ Control' /\ \A x \in Static : x # k => Kept(x)
      /\ \A x : Ahead(x)' = Ahead(x)
      /\ TilesAhead' = TilesAhead
      /\ \A x : \A u \in team : Left(x, u)' = Left(x, u)
      /\ \A x, u : SliceOf(x, u)' = SliceOf(x, u)
      /\ \A u, x, y, z : Within(u, x, y, z)' <=>
            IF u = t THEN x = k /\ y = i /\ z = n + 1 ELSE Within(u, x, y, z)
  BY <1>0, <1>1, <1>2, <1>5, <1>7, StepOnKept
<1>9. Rotated(Scanned(Order[k]))' = M
  BY <1>3, <1>5, GivenFixed
<1> HIDE DEF j
<1>10. ColumnsOf(k)'
  <2>1. ASSUME NEW u \in Thread, NEW x \in Index PROVE Counted(k, u, x)' = Counted(k, u, x)
    <3>1. CASE u # t
      <4>1. /\ \A w \in team : w # t => Left(k, w)' = Left(k, w)
            /\ \A w : SliceOf(k, w)' = SliceOf(k, w)
            /\ \A w, y, z : z # 0 /\ w # t => (Within(w, k, y, z)' <=> Within(w, k, y, z))
            /\ Control /\ Control' /\ team' = team
        BY <1>5, <1>7, <1>8
      <4> QED
        BY <3>1, <4>1, CountedOthers
    <3>2. CASE u = t
      <4>1. Within(t, k, i, n + 1)'
        BY <1>8
      <4>2. /\ In(t, k)' /\ thread'[t].next = i /\ thread'[t].step = n + 1
            /\ thread[t].next = i /\ thread[t].step = n
        BY <1>0, <1>1, <4>1 DEF Within, It, StepOf
      <4>3. Counted(k, t, x) = (SliceOf(k, t) \ Left(k, t))
                                 \cup {y \in {i} : In(t, k) /\ x < n \div 2}
        BY <1>4, <4>2, CountedMine
      <4>4. Counted(k, t, x)' = (SliceOf(k, t)' \ Left(k, t)')
                                 \cup {y \in {i} : In(t, k)' /\ x < (n + 1) \div 2}
        BY <1>4, <1>5, <4>2, CountedMineNext
      <4> QED
        BY <1>2, <1>4, <1>6, <1>8, <3>2, <4>2, <4>3, <4>4 DEF j
    <3> QED
      BY <3>1, <3>2
  <2> QED
    BY <1>4, <1>5, <1>9, <2>1 DEF ColumnsOf
<1>11. RowOf(k)'
  <2>1. rowSum'[t] = XorSum(M[i], 0 .. (((n + 1) + 1) \div 2) - 1) /\ reg'[t] = colAccum'[t][j]
    <3>1. rowSum'[t] = Xor(XorSum(M[i], 0 .. j - 1), M[i][j])
      <4>1. CASE j = 0
        <5>1. 0 .. j - 1 = {}
          BY <4>1
        <5> QED
          BY <1>5, <1>7, <4>1, <5>1, XorSumNext DEF j
      <4>2. CASE j # 0
        <5>1. n # 0
          BY <1>4, <4>2 DEF j
        <5> QED
          BY <1>4, <1>5, <1>6, <1>7, <4>2, <5>1 DEF j
      <4> QED
        BY <4>1, <4>2
    <3>2. /\ 0 .. (j + 1) - 1 = (0 .. j - 1) \cup {j} /\ IsFiniteSet(0 .. j - 1)
          /\ j \notin 0 .. j - 1
      <4>1. 0 \in Int /\ j - 1 \in Int /\ j \in Nat
        BY <1>6
      <4>2. IsFiniteSet(0 .. j - 1)
        BY <4>1, FS_Interval
      <4> QED
        BY <4>1, <4>2
    <3>3. XorSum(M[i], 0 .. (j + 1) - 1) = Xor(XorSum(M[i], 0 .. j - 1), M[i][j])
      BY <3>2, XorSumNext
    <3> QED
      BY <1>5, <1>6, <1>7, <3>1, <3>3 DEF j
  <2>2. RowOf(k)
    BY DEF Parts
  <2>3. ASSUME NEW u, NEW y, NEW z, z # 0, Within(u, k, y, z)'
        PROVE  /\ rowSum'[u] = XorSum(M[y], 0 .. ((z + 1) \div 2) - 1)
               /\ z % 2 = 1 => reg'[u] = colAccum'[u][z \div 2]
    <3>1. CASE u = t
      BY <1>6, <1>8, <2>1, <2>3, <3>1
    <3>2. CASE u # t
      <4>1. Within(u, k, y, z) /\ rowSum'[u] = rowSum[u] /\ reg'[u] = reg[u]
        BY <1>5, <1>7, <1>8, <2>3, <3>2
      <4> QED
        BY <1>3, <1>5, <2>2, <2>3, <4>1 DEF RowOf
    <3> QED
      BY <3>1, <3>2
  <2> QED
    BY <1>9, <2>3 DEF RowOf
<1>12. rowSum' \in [Thread -> Word] /\ reg' \in [Thread -> Word]
  <2>1. M[i][j] \in Word /\ {} \in Word /\ colAccum[t][j] \in Word
    BY <1>4, <1>6, <1>7 DEF Word, Vector
  <2>2. Xor(IF j = 0 THEN {} ELSE rowSum[t], M[i][j]) \in Word
    BY <1>7, <2>1, XorType DEF Word
  <2> QED
    BY <1>5, <1>7, <2>1, <2>2 DEF j
<1>13. IF k = 6 THEN UNCHANGED delta /\ RowResults' ELSE UNCHANGED b /\ DeltaResults'
  BY <1>5, <1>8, ResultsFrame DEF Parts, Results
<1>14. /\ UNCHANGED <<given, roundKeys, keystream, vec, matrix, a, temp>>
       /\ colAccum' \in [Thread -> Vector] /\ b' \in Vector /\ delta' \in Vector
  BY <1>5, <1>7
<1> QED
  BY <1>2, <1>8, <1>10, <1>11, <1>12, <1>13, <1>14, PassRest

\* What a thread has counted are rows.
LEMMA CountedFinite ==
    ASSUME Control, NEW k \in {6, 8}, NEW t \in Thread, NEW j \in Index
    PROVE  Counted(k, t, j) \subseteq Index /\ IsFiniteSet(Counted(k, t, j))
<1> DEFINE Now == {i \in Index : \E n \in Nat : n # 0 /\ Within(t, k, i, n) /\ j < n \div 2}
<1>1. Counted(k, t, j) = IF t \notin team THEN {} ELSE (SliceOf(k, t) \ Left(k, t)) \cup Now
  BY CountedMeans
<1>2. Now \subseteq Index
  OBVIOUS
<1>3. k \in Static /\ k \in 1 .. 9 /\ k # 3
  BY DEF Static
<1>4. Iterations(k) = SIZE_PI
  BY <1>3, IterationFacts
<1>5. t \in team => SliceOf(k, t) \subseteq Index
  BY <1>3, <1>4, LeftInSlice DEF Index
<1> HIDE DEF Now
<1>6. Counted(k, t, j) \subseteq Index
  BY <1>1, <1>2, <1>5
<1> QED
  BY <1>6, Sizes, FS_Subset

\* An entry is added to the sum of its column.
LEMMA AddColumnStep ==
    ASSUME Parts, NEW t \in Thread, NEW l \in Passes, AddColumn(t, l)
    PROVE  Parts'
<1>0. PICK i : i = It(t)
  OBVIOUS
<1>1. PICK n : n = StepOf(t)
  OBVIOUS
<1>2. PICK k \in {6, 8} : l = Order[k] /\ In(t, k)
  BY PassNames DEF AddColumn
<1>3. PICK M : M = Rotated(Scanned(Order[k]))
  OBVIOUS
<1> DEFINE j == n \div 2
<1>4. /\ i \in Index /\ n \in Nat /\ t \in team /\ i \in Left(k, t)
      /\ matrix[Scanned(l)] \in [Index -> [Index -> Word]]
      /\ matrix[Scanned(l)][i] = M[i]
      /\ n # 0 => /\ rowSum[t] = XorSum(M[i], 0 .. ((n + 1) \div 2) - 1)
                  /\ n % 2 = 1 => reg[t] = colAccum[t][n \div 2]
      /\ thread[0].loop = k
      /\ \A u \in Thread, x \in Index :
            colAccum[u][x] = XorSum(ColumnOf(M, x), Counted(k, u, x))
  BY <1>0, <1>1, <1>2, <1>3, PassBegun
<1>5. /\ n < 2 * SIZE_PI /\ n % 2 = 1
      /\ colAccum' = [colAccum EXCEPT ![t][j] = Xor(reg[t], M[i][j])]
      /\ StepOn(t)
      /\ UNCHANGED <<given, team, tile>>
      /\ UNCHANGED <<roundKeys, keystream, vec, matrix, a, b, delta, temp, rowSum, reg>>
  BY <1>0, <1>1, <1>4 DEF AddColumn, Mine
<1>6. /\ j \in Nat /\ j \in Index
      /\ (n + 1) \div 2 = j + 1 /\ ((n + 1) + 1) \div 2 = j + 1 /\ (n + 1) % 2 = 0
      /\ n # 0
  BY <1>4, <1>5, EntrySteps
<1>7. /\ Control /\ k \in 1 .. 9 /\ k \in Static /\ thread[t].step + 1 <= LastStep(k)
      /\ k \notin {4, 5} /\ rowSum \in [Thread -> Word] /\ reg \in [Thread -> Word]
      /\ colAccum \in [Thread -> Vector] /\ b \in Vector /\ delta \in Vector
  <2>1. n + 1 <= 2 * SIZE_PI
    BY <1>4, <1>5, Sizes
  <2> QED
    BY <1>1, <2>1 DEF Parts, DataTypes, LastStep, Static, StepOf
<1>8. /\ Control' /\ \A x \in Static : x # k => Kept(x)
      /\ \A x : Ahead(x)' = Ahead(x)
      /\ TilesAhead' = TilesAhead
      /\ \A x : \A u \in team : Left(x, u)' = Left(x, u)
      /\ \A x, u : SliceOf(x, u)' = SliceOf(x, u)
      /\ \A u, x, y, z : Within(u, x, y, z)' <=>
            IF u = t THEN x = k /\ y = i /\ z = n + 1 ELSE Within(u, x, y, z)
  BY <1>0, <1>1, <1>2, <1>5, <1>7, StepOnKept
<1>9. Rotated(Scanned(Order[k]))' = M
  BY <1>3, <1>5, GivenFixed
<1>10. /\ colAccum' \in [Thread -> Vector]
       /\ colAccum'[t][j] = Xor(colAccum[t][j], M[i][j])
       /\ \A u \in Thread, x \in Index : u # t \/ x # j => colAccum'[u][x] = colAccum[u][x]
  <2>1. M[i][j] \in Word /\ reg[t] \in Word /\ reg[t] = colAccum[t][j]
    BY <1>4, <1>5, <1>6, <1>7
  <2>2. PICK w \in Word : w = Xor(reg[t], M[i][j])
    BY <2>1, XorType DEF Word
  <2> HIDE DEF j
  <2>3. colAccum' = [colAccum EXCEPT ![t][j] = w] /\ colAccum \in [Thread -> [Index -> Word]]
    BY <1>5, <1>7, <2>2 DEF Vector
  <2>4. colAccum' \in [Thread -> [Index -> Word]]
    BY <1>6, <2>2, <2>3
  <2> QED
    BY <1>6, <2>1, <2>2, <2>3, <2>4 DEF Vector
<1> HIDE DEF j
<1>11. ColumnsOf(k)'
  <2>1. ASSUME NEW u \in Thread, NEW x \in Index, u # t
        PROVE  Counted(k, u, x)' = Counted(k, u, x)
    <3>1. /\ \A w \in team : w # t => Left(k, w)' = Left(k, w)
          /\ \A w : SliceOf(k, w)' = SliceOf(k, w)
          /\ \A w, y, z : z # 0 /\ w # t => (Within(w, k, y, z)' <=> Within(w, k, y, z))
          /\ Control /\ Control' /\ team' = team
      BY <1>5, <1>7, <1>8
    <3> QED
      BY <2>1, <3>1, CountedOthers
  <2>2. /\ In(t, k)' /\ thread'[t].next = i /\ thread'[t].step = n + 1
        /\ thread[t].next = i /\ thread[t].step = n
    <3>1. Within(t, k, i, n + 1)'
      BY <1>8
    <3> QED
      BY <1>0, <1>1, <3>1 DEF Within, It, StepOf
  <2>3. ASSUME NEW x \in Index
        PROVE  /\ Counted(k, t, x)' = IF x = j THEN Counted(k, t, x) \cup {i}
                                      ELSE Counted(k, t, x)
               /\ x = j => i \notin Counted(k, t, x)
    <3>1. Counted(k, t, x) = (SliceOf(k, t) \ Left(k, t))
                                 \cup {y \in {i} : In(t, k) /\ x < n \div 2}
      BY <1>4, <2>2, CountedMine
    <3>2. Counted(k, t, x)' = (SliceOf(k, t)' \ Left(k, t)')
                                 \cup {y \in {i} : In(t, k)' /\ x < (n + 1) \div 2}
      BY <1>4, <1>5, <2>2, CountedMineNext
    <3>3. Counted(k, t, x)' = (SliceOf(k, t) \ Left(k, t)) \cup {y \in {i} : x < j + 1}
      BY <1>4, <1>6, <1>8, <2>2, <3>2
    <3>4. Counted(k, t, x) = (SliceOf(k, t) \ Left(k, t)) \cup {y \in {i} : x < j}
      BY <1>2, <3>1 DEF j
    <3>5. x \in Nat /\ (x < j + 1 <=> x < j \/ x = j)
      BY <1>6, Sizes DEF Index
    <3> QED
      BY <1>4, <1>6, <3>3, <3>4, <3>5
  <2>4. ASSUME NEW u \in Thread, NEW x \in Index
        PROVE  colAccum'[u][x] = XorSum(ColumnOf(M, x), Counted(k, u, x)')
    <3>1. CASE u # t
      BY <1>4, <1>10, <2>1, <3>1
    <3>2. CASE u = t /\ x # j
      BY <1>4, <1>10, <2>3, <3>2
    <3>3. CASE u = t /\ x = j
      <4>1. IsFiniteSet(Counted(k, t, j)) /\ i \notin Counted(k, t, j)
        BY <1>6, <1>7, <2>3, CountedFinite
      <4>2. XorSum(ColumnOf(M, j), Counted(k, t, j) \cup {i})
              = Xor(XorSum(ColumnOf(M, j), Counted(k, t, j)), ColumnOf(M, j)[i])
        BY <4>1, XorSumNext
      <4>3. ColumnOf(M, j)[i] = M[i][j]
        BY <1>4 DEF ColumnOf
      <4> QED
        BY <1>4, <1>6, <1>10, <2>3, <3>3, <4>2, <4>3
    <3> QED
      BY <3>1, <3>2, <3>3
  <2> QED
    BY <1>9, <2>4 DEF ColumnsOf
<1>12. RowOf(k)'
  <2>1. rowSum'[t] = XorSum(M[i], 0 .. (((n + 1) + 1) \div 2) - 1)
    BY <1>4, <1>5, <1>6
  <2>2. RowOf(k)
    BY DEF Parts
  <2>3. ASSUME NEW u, NEW y, NEW z, z # 0, Within(u, k, y, z)'
        PROVE  /\ rowSum'[u] = XorSum(M[y], 0 .. ((z + 1) \div 2) - 1)
               /\ z % 2 = 1 => reg'[u] = colAccum'[u][z \div 2]
    <3>1. CASE u = t
      BY <1>6, <1>8, <2>1, <2>3, <3>1
    <3>2. CASE u # t
      <4>1. Within(u, k, y, z) /\ rowSum'[u] = rowSum[u] /\ reg'[u] = reg[u]
            /\ colAccum'[u] = colAccum[u]
        BY <1>5, <1>7, <1>8, <2>3, <3>2
      <4> QED
        BY <1>3, <2>2, <2>3, <4>1 DEF RowOf
    <3> QED
      BY <3>1, <3>2
  <2> QED
    BY <1>9, <2>3 DEF RowOf
<1>13. IF k = 6 THEN UNCHANGED delta /\ RowResults' ELSE UNCHANGED b /\ DeltaResults'
  BY <1>5, <1>8, ResultsFrame DEF Parts, Results
<1>14. /\ UNCHANGED <<given, roundKeys, keystream, vec, matrix, a, temp>>
       /\ rowSum' \in [Thread -> Word] /\ reg' \in [Thread -> Word]
       /\ b' \in Vector /\ delta' \in Vector
  BY <1>5, <1>7
<1> QED
  BY <1>2, <1>8, <1>10, <1>11, <1>12, <1>13, <1>14, PassRest

\* The sum of a row is stored.
LEMMA StoreRowStep ==
    ASSUME Parts, NEW t \in Thread, NEW l \in Passes, StoreRow(t, l)
    PROVE  Parts'
<1>0. PICK i : i = It(t)
  OBVIOUS
<1>1. PICK n : n = StepOf(t)
  OBVIOUS
<1>2. PICK k \in {6, 8} : l = Order[k] /\ In(t, k)
  BY PassNames DEF StoreRow
<1>3. PICK M : M = Rotated(Scanned(Order[k]))
  OBVIOUS
<1>4. /\ i \in Index /\ n \in Nat /\ t \in team /\ i \in SliceOf(k, t)
      /\ n # 0 => rowSum[t] = XorSum(M[i], 0 .. ((n + 1) \div 2) - 1)
      /\ thread[0].loop = k
      /\ \A x \in Static : x > k => Ahead(x) = 0 .. Iterations(x) - 1
      /\ \A u \in Thread, x \in Index :
            colAccum[u][x] = XorSum(ColumnOf(M, x), Counted(k, u, x))
  BY <1>0, <1>1, <1>2, <1>3, PassBegun
<1>5. /\ n = 2 * SIZE_PI
      /\ IF k = 6 THEN b' = [b EXCEPT ![i] = rowSum[t]] /\ UNCHANGED delta
         ELSE delta' = [delta EXCEPT ![i] = rowSum[t]] /\ UNCHANGED b
      /\ NextItem(t)
      /\ UNCHANGED <<given, team, tile>>
      /\ UNCHANGED <<roundKeys, keystream, vec, matrix, a, colAccum, temp, rowSum, reg>>
  <2>1. l = "rows" <=> k = 6
    BY <1>2, OrderFacts
  <2> QED
    BY <1>0, <1>1, <2>1 DEF StoreRow
<1>6. /\ n # 0 /\ (n + 1) \div 2 = SIZE_PI /\ n \div 2 = SIZE_PI
      /\ rowSum[t] = RowSum(M, i)
  <2>1. n # 0 /\ (n + 1) \div 2 = SIZE_PI /\ n \div 2 = SIZE_PI
    BY <1>4, <1>5, EntrySteps, Sizes
  <2> QED
    BY <1>4, <2>1 DEF RowSum, Index
<1>7. /\ Control /\ k \in 1 .. 9 /\ k \in Static /\ k # 2 /\ k \notin {4, 5}
      /\ rowSum \in [Thread -> Word] /\ reg \in [Thread -> Word]
      /\ colAccum \in [Thread -> Vector] /\ b \in Vector /\ delta \in Vector
  BY DEF Parts, DataTypes, Static
<1>8. /\ Control' /\ \A x \in Static : x # k => Kept(x)
      /\ Ahead(k)' = Ahead(k) \ {i}
      /\ \A x : x # k => Ahead(x)' = Ahead(x)
      /\ TilesAhead' = TilesAhead
      /\ \A u \in team : u # t => Left(k, u)' = Left(k, u)
      /\ Left(k, t)' = Left(k, t) \ {i} /\ i \in Left(k, t)
      /\ \A x, u : SliceOf(x, u)' = SliceOf(x, u)
      /\ \A u, x, y, z : z # 0 => (Within(u, x, y, z)' <=> u # t /\ Within(u, x, y, z))
  BY <1>0, <1>2, <1>5, <1>7, NextItemKept
<1>9. Rotated(Scanned(Order[k]))' = M
  BY <1>3, <1>5, GivenFixed
<1>10. ColumnsOf(k)'
  <2>1. ASSUME NEW u \in Thread, NEW x \in Index PROVE Counted(k, u, x)' = Counted(k, u, x)
    <3>1. CASE u # t
      <4>1. /\ \A w \in team : w # t => Left(k, w)' = Left(k, w)
            /\ \A w : SliceOf(k, w)' = SliceOf(k, w)
            /\ \A w, y, z : z # 0 /\ w # t => (Within(w, k, y, z)' <=> Within(w, k, y, z))
            /\ Control /\ Control' /\ team' = team
        BY <1>5, <1>7, <1>8
      <4> QED
        BY <3>1, <4>1, CountedOthers
    <3>2. CASE u = t
      <4> DEFINE Then == {y \in Index : \E z \in Nat : z # 0 /\ Within(t, k, y, z)' /\ x < z \div 2}
      <4>1. Counted(k, t, x) = (SliceOf(k, t) \ Left(k, t)) \cup {y \in {i} : In(t, k) /\ x < n \div 2}
        BY <1>0, <1>1, <1>4, CountedMine DEF It, StepOf
      <4>2. x < SIZE_PI
        BY Sizes DEF Index
      <4>3. Counted(k, t, x) = (SliceOf(k, t) \ Left(k, t)) \cup {i}
        BY <1>2, <1>6, <4>1, <4>2
      <4>4. Counted(k, t, x)' = IF t \notin team' THEN {}
                                ELSE (SliceOf(k, t)' \ Left(k, t)') \cup Then
        BY <1>8, CountedMeansNext
      <4>5. Then = {}
        BY <1>8
      <4> HIDE DEF Then
      <4> QED
        BY <1>4, <1>5, <1>8, <3>2, <4>3, <4>4, <4>5
    <3> QED
      BY <3>1, <3>2
  <2> QED
    BY <1>4, <1>5, <1>9, <2>1 DEF ColumnsOf
<1>11. RowOf(k)'
  <2>1. RowOf(k)
    BY DEF Parts
  <2>2. ASSUME NEW u, NEW y, NEW z, z # 0, Within(u, k, y, z)'
        PROVE  /\ rowSum'[u] = XorSum(M[y], 0 .. ((z + 1) \div 2) - 1)
               /\ z % 2 = 1 => reg'[u] = colAccum'[u][z \div 2]
    <3>1. Within(u, k, y, z)
      BY <1>8, <2>2
    <3> QED
      BY <1>3, <1>5, <2>1, <2>2, <3>1 DEF RowOf
  <2> QED
    BY <1>9, <2>2 DEF RowOf
<1>12. Results => IF k = 6 THEN UNCHANGED delta /\ RowResults' ELSE UNCHANGED b /\ DeltaResults'
  <2>1. ASSUME Results, k = 6 PROVE UNCHANGED delta /\ RowResults'
    <3>1. Rotated("full")' = M /\ M = Rotated("full")
      BY <1>3, <1>9, <2>1, PassNames
    <3>2. \A x \in Index \ Ahead(6) : b[x] = RowSum(M, x)
      BY <2>1, <3>1 DEF Results, RowResults
    <3>3. \A x \in Index : b'[x] = IF x = i THEN RowSum(M, x) ELSE b[x]
      BY <1>5, <1>6, <1>7, <2>1 DEF Vector
    <3>4. \A x \in Index \ Ahead(6)' : b'[x] = RowSum(M, x)
      BY <1>8, <2>1, <3>2, <3>3
    <3>5. \A x : RowSum(Rotated("full"), x)' = RowSum(M, x)
      BY <3>1 DEF RowSum
    <3> QED
      BY <1>5, <2>1, <3>4, <3>5 DEF RowResults
  <2>2. ASSUME Results, k = 8 PROVE UNCHANGED b /\ DeltaResults'
    <3>1. Rotated("punctured")' = M /\ M = Rotated("punctured") /\ sub_pi' = sub_pi
      BY <1>3, <1>5, <1>9, <2>2, PassNames, GivenFixed
    <3>2. Ahead(9)' = Ahead(9) /\ Index = Ahead(9)
      <4>1. 9 \in Static /\ Iterations(9) = SIZE_PI
        BY IterationFacts DEF Static
      <4> QED
        BY <1>4, <1>8, <2>2, <4>1 DEF Index
    <3>3. \A x \in Index : sub_pi[x] \in Index
      BY DEF Parts, GivenInv, Permutation, Shift
    <3>4. \A x \in Index \ Ahead(8) : delta[x] = RowSum(M, x)
      BY <2>2, <3>1, <3>2, <3>3 DEF Results, DeltaResults
    <3>5. \A x \in Index : delta'[x] = IF x = i THEN RowSum(M, x) ELSE delta[x]
      BY <1>5, <1>6, <1>7, <2>2 DEF Vector
    <3>6. \A x \in Index \ Ahead(8)' : delta'[x] = RowSum(M, x)
      BY <1>8, <2>2, <3>4, <3>5
    <3>7. \A x : RowSum(Rotated("punctured"), x)' = RowSum(M, x)
      BY <3>1 DEF RowSum
    <3> QED
      BY <1>5, <2>2, <3>1, <3>2, <3>3, <3>6, <3>7 DEF DeltaResults
  <2> QED
    BY <2>1, <2>2
<1>13. IF k = 6 THEN UNCHANGED delta /\ RowResults' ELSE UNCHANGED b /\ DeltaResults'
  BY <1>12 DEF Parts
<1>14. /\ UNCHANGED <<given, roundKeys, keystream, vec, matrix, a, temp>>
       /\ colAccum' \in [Thread -> Vector]
       /\ rowSum' \in [Thread -> Word] /\ reg' \in [Thread -> Word]
       /\ b' \in Vector /\ delta' \in Vector
  <2>1. rowSum[t] \in Word
    BY <1>7
  <2> QED
    BY <1>5, <1>7, <2>1 DEF Vector
<1> QED
  BY <1>2, <1>8, <1>10, <1>11, <1>13, <1>14, PassRest

-----------------------------------------------------------------------------
\* Induction over a set of natural numbers.
LEMMA SetInduction ==
    ASSUME NEW S, 0 \in S, \A n \in Nat : n \in S => n + 1 \in S
    PROVE  Nat \subseteq S
<1> SUFFICES ASSUME Nat \ S # {} PROVE FALSE
  OBVIOUS
<1>1. PICK x \in Nat \ S : \A y \in Nat \ S : ~ (<<y, x>> \in OpToRel(<, Nat))
  BY NatLessThanWellFounded, WFMin
<1>2. x # 0 /\ x - 1 \in Nat /\ x - 1 < x /\ (x - 1) + 1 = x
  OBVIOUS
<1>3. <<x - 1, x>> \in OpToRel(<, Nat)
  BY <1>2 DEF OpToRel
<1>4. x - 1 \in S
  BY <1>1, <1>2, <1>3
<1> QED
  BY <1>2, <1>4

\* What N threads have summed up each for itself is, added up, the sum over
\* all they have seen (the reduce passes of ServerDuetORAM::evict).
LEMMA XorSumParts ==
    ASSUME NEW N \in Nat, NEW f, NEW C, NEW g,
           \A t \in 0 .. N - 1 : IsFiniteSet(C[t]) /\ g[t] = XorSum(f, C[t]),
           \A t, u \in 0 .. N - 1 : t # u => C[t] \cap C[u] = {}
    PROVE  XorSum(g, 0 .. N - 1) = XorSum(f, UNION {C[t] : t \in 0 .. N - 1})
<1> DEFINE U(n) == UNION {C[t] : t \in 0 .. n - 1}
           S == {n \in Nat : n <= N => /\ IsFiniteSet(U(n))
                                       /\ XorSum(g, 0 .. n - 1) = XorSum(f, U(n))}
<1>1. 0 \in S
  <2>1. 0 .. 0 - 1 = {} /\ U(0) = {}
    OBVIOUS
  <2>2. IsFiniteSet({}) /\ XorSum(g, {}) = XorSum(f, {})
    BY FS_EmptySet DEF XorSum
  <2> HIDE DEF U
  <2> QED
    BY <2>1, <2>2
<1>2. ASSUME NEW n \in Nat, n \in S PROVE n + 1 \in S
  <2> SUFFICES ASSUME n + 1 <= N
               PROVE  /\ IsFiniteSet(U(n + 1))
                      /\ XorSum(g, 0 .. (n + 1) - 1) = XorSum(f, U(n + 1))
    OBVIOUS
  <2>1. IsFiniteSet(U(n)) /\ XorSum(g, 0 .. n - 1) = XorSum(f, U(n))
    BY <1>2
  <2>2. n \in 0 .. N - 1 /\ IsFiniteSet(C[n]) /\ g[n] = XorSum(f, C[n])
    OBVIOUS
  <2>3. /\ 0 .. (n + 1) - 1 = (0 .. n - 1) \cup {n}
        /\ (0 .. n - 1) \cap {n} = {} /\ 0 .. n - 1 \subseteq 0 .. N - 1
    OBVIOUS
  <2>4. IsFiniteSet(0 .. n - 1) /\ IsFiniteSet({n})
    <3>1. 0 \in Int /\ n - 1 \in Int
      OBVIOUS
    <3>2. IsFiniteSet(0 .. n - 1)
      BY <3>1, FS_Interval
    <3> QED
      BY <3>2, FS_Singleton
  <2>5. U(n + 1) = U(n) \cup C[n]
    BY <2>3
  <2>6. U(n) \cap C[n] = {}
    BY <2>2, <2>3
  <2>7. PICK A, B, V, W : A = U(n) /\ B = U(n + 1) /\ V = 0 .. n - 1 /\ W = 0 .. (n + 1) - 1
    OBVIOUS
  <2>8. /\ IsFiniteSet(A) /\ IsFiniteSet(C[n]) /\ A \cap C[n] = {} /\ B = A \cup C[n]
        /\ IsFiniteSet(V) /\ IsFiniteSet({n}) /\ V \cap {n} = {} /\ W = V \cup {n}
        /\ XorSum(g, V) = XorSum(f, A) /\ g[n] = XorSum(f, C[n])
    BY <2>1, <2>2, <2>3, <2>4, <2>5, <2>6, <2>7
  <2>9. IsFiniteSet(B)
    BY <2>8, FS_Union
  <2>10. XorSum(g, W) = Xor(XorSum(g, V), g[n])
    <3>1. XorSum(g, V \cup {n}) = Xor(XorSum(g, V), XorSum(g, {n}))
      BY <2>8, XorSumUnion
    <3>2. XorSum(g, {n}) = g[n]
      BY XorSumOne
    <3> QED
      BY <2>8, <3>1, <3>2
  <2>11. XorSum(f, B) = Xor(XorSum(f, A), XorSum(f, C[n]))
    BY <2>8, XorSumUnion
  <2>12. IsFiniteSet(B) /\ XorSum(g, W) = XorSum(f, B)
    BY <2>8, <2>9, <2>10, <2>11
  <2> QED
    BY <2>7, <2>12
<1>3. N \in S
  <2> HIDE DEF S
  <2> QED
    BY <1>1, <1>2, SetInduction
<1> HIDE DEF U
<1>4. XorSum(g, 0 .. N - 1) = XorSum(f, U(N))
  BY <1>3
<1> QED
  BY <1>4 DEF U

\* When the columns are reduced, every row has been counted by one thread.
LEMMA MergedExact ==
    ASSUME Parts, NEW k \in {6, 8}, NEW t \in Thread, In(t, k + 1), NEW j \in Index
    PROVE  /\ Merged(j) = ColumnSum(Rotated(Scanned(Order[k])), j)
           /\ Merged(j) \in Word
<1> DEFINE M == Rotated(Scanned(Order[k]))
           f == ColumnOf(M, j)
           C == [u \in Thread |-> Counted(k, u, j)]
           g == [u \in Thread |-> colAccum[u][j]]
           N == MAX_THREADS
<1>1. /\ Control /\ k \in Static /\ k + 1 \in 1 .. 9 /\ k \in 1 .. 9 /\ team \in Teams
      /\ ColumnsOf(k) /\ colAccum \in [Thread -> Vector]
  BY DEF Parts, Static, Control, DataTypes
<1>2. team \subseteq Thread /\ 0 \in team /\ N \in Nat /\ Thread = 0 .. N - 1
  BY <1>1, TeamFacts, Sizes DEF Thread
<1>3. Iterations(k) = SIZE_PI
  <2>1. k # 3
    OBVIOUS
  <2> QED
    BY <1>1, <2>1, IterationFacts
<1>4. \A u \in team : thread[u].loop = k + 1 \/ (thread[u].loop = k /\ thread[u].next = thread[u].end)
  <2>1. \A u \in team : \/ thread[u].loop = k + 1
                        \/ thread[u].loop = (k + 1) - 1 /\ thread[u].next = thread[u].end
    BY <1>1, AtLoop
  <2> QED
    BY <2>1
<1>5. ASSUME NEW u \in team PROVE Counted(k, u, j) = SliceOf(k, u)
  <2>1. thread[u].next \in Nat /\ thread[u].end \in Nat
    BY <1>1, <1>2 DEF Control
  <2>2. Left(k, u) = {} /\ ~In(u, k)
    BY <1>1, <1>4, <2>1 DEF Left, In
  <2>3. Counted(k, u, j) = (SliceOf(k, u) \ Left(k, u))
                  \cup {x \in {thread[u].next} : In(u, k) /\ j < thread[u].step \div 2}
    BY CountedMine
  <2> QED
    BY <2>2, <2>3
<1>6. \A u : u \notin team => Counted(k, u, j) = {}
  BY DEF Counted
<1>7. /\ \A u \in 0 .. N - 1 : IsFiniteSet(C[u]) /\ g[u] = XorSum(f, C[u])
      /\ \A u, w \in 0 .. N - 1 : u # w => C[u] \cap C[w] = {}
  <2>1. ASSUME NEW u \in Thread PROVE IsFiniteSet(C[u]) /\ g[u] = XorSum(f, C[u])
    <3>1. IsFiniteSet(Counted(k, u, j))
      BY <1>1, CountedFinite
    <3>2. thread[0].loop \in {k, k + 1}
      BY <1>2, <1>4
    <3> QED
      BY <1>1, <3>1, <3>2 DEF ColumnsOf
  <2>2. ASSUME NEW u \in Thread, NEW w \in Thread, u # w PROVE C[u] \cap C[w] = {}
    <3>1. CASE u \in team /\ w \in team
      BY <1>1, <1>5, <2>2, <3>1, SlicesApart
    <3>2. CASE u \notin team \/ w \notin team
      BY <1>6, <3>2
    <3> QED
      BY <3>1, <3>2
  <2> QED
    BY <1>2, <2>1, <2>2
<1>8. UNION {C[u] : u \in 0 .. N - 1} = Index
  <2>1. ASSUME NEW u \in Thread PROVE C[u] \subseteq Index
    <3>1. Counted(k, u, j) \subseteq Index
      BY <1>1, CountedFinite
    <3> QED
      BY <3>1
  <2>2. ASSUME NEW i \in Index PROVE \E u \in Thread : i \in C[u]
    <3>1. PICK u \in team : u = (i * Cardinality(team)) \div Iterations(k)
      BY <1>1, <1>3, SlicesCover DEF Index
    <3>2. i \in SliceOf(k, u)
      BY <1>1, <1>3, <3>1, TeamSlices DEF SliceOf, Index
    <3> QED
      BY <1>2, <1>5, <3>2
  <2> HIDE DEF C
  <2> QED
    BY <1>2, <2>1, <2>2
<1>9. Merged(j) = XorSum(g, Thread) /\ ColumnSum(M, j) = XorSum(f, Index)
  BY DEF Merged, ColumnSum, ColumnOf
<1>10. Merged(j) \in Word
  <2>1. \A u \in Thread : g[u] \in SUBSET Bit
    BY <1>1 DEF Vector, Word
  <2> HIDE DEF g
  <2> QED
    BY <1>9, <2>1, XorSumType DEF Word
<1> HIDE DEF C, f, g, N, M
<1>11. XorSum(g, 0 .. N - 1) = XorSum(f, UNION {C[u] : u \in 0 .. N - 1})
  BY <1>2, <1>7, XorSumParts
<1> QED
  BY <1>2, <1>8, <1>9, <1>10, <1>11 DEF M

\* The sum of a column is stored.
LEMMA ReduceStep ==
    ASSUME Parts, NEW t \in Thread, Reduce(t)
    PROVE  Parts'
<1>0. PICK i : i = It(t)
  OBVIOUS
<1>1. /\ Control /\ In(t, 7) /\ NextItem(t)
      /\ a' = [a EXCEPT ![i] = Merged(i)]
      /\ UNCHANGED <<given, team, tile>>
      /\ UNCHANGED <<roundKeys, keystream, vec, matrix, b, delta, colAccum, temp, rowSum, reg>>
  BY <1>0, DoingMeans DEF Parts, Reduce
<1>2. /\ Control' /\ \A k \in Static : k # 7 => Kept(k)
      /\ i \in 0 .. Iterations(7) - 1
      /\ Ahead(7)' = Ahead(7) \ {i}
      /\ TilesAhead' = TilesAhead
  BY <1>0, <1>1, NextItemKept
<1>3. i \in Index
  BY <1>2, IterationFacts DEF Index
<1>4. Merged(i) = ColumnSum(Rotated("full"), i) /\ Merged(i) \in Word
  <2>1. In(t, 6 + 1)
    BY <1>1
  <2> QED
    BY <1>3, <2>1, MergedExact, PassNames
<1>5. a' \in Vector /\ \A j \in Index : a'[j] = IF j = i THEN Merged(i) ELSE a[j]
  BY <1>1, <1>3, <1>4 DEF Parts, DataTypes, Vector
<1>6. ColumnResults'
  <2>1. Rotated("full")' = Rotated("full")
    BY <1>1, GivenFixed
  <2>2. \A j : ColumnSum(Rotated("full"), j)' = ColumnSum(Rotated("full"), j)
    BY <2>1 DEF ColumnSum
  <2>3. \A j \in Index \ Ahead(7) : a[j] = ColumnSum(Rotated("full"), j)
    BY DEF Parts, Results, ColumnResults
  <2> QED
    BY <1>2, <1>4, <1>5, <2>2, <2>3 DEF ColumnResults
<1>7. /\ GivenInv' /\ RotationOf(4)' /\ RotationOf(5)' /\ VectorInv'
      /\ ColumnsOf(6)' /\ RowOf(6)' /\ ColumnsOf(8)' /\ RowOf(8)'
      /\ RowResults' /\ DeltaResults'
  <2>1. UNCHANGED given /\ 7 \in Nat
    BY <1>1
  <2>2. /\ GivenInv'
        /\ UNCHANGED <<matrix, temp>> => \A j \in {4, 5} : j # 7 => RotationOf(j)'
        /\ UNCHANGED <<colAccum, rowSum, reg>> =>
              \A j \in {6, 8} : j # 7 => ColumnsOf(j)' /\ RowOf(j)'
        /\ UNCHANGED b /\ 7 # 6 => RowResults'
        /\ UNCHANGED delta /\ 7 \notin {8, 9} => DeltaResults'
        /\ UNCHANGED <<roundKeys, keystream, vec>> /\ 7 \notin {1, 3}
             /\ TilesAhead' = TilesAhead => VectorInv'
    BY <1>2, <2>1, RestKept
  <2> QED
    BY <1>1, <1>2, <2>2
<1>8. DataTypes'
  BY <1>1, <1>5 DEF Parts, DataTypes
<1> QED
  BY <1>2, <1>6, <1>7, <1>8 DEF Parts, Results

\* Or added to the entry of delta whose row sub_pi sends to the column.
LEMMA ReduceDeltaStep ==
    ASSUME Parts, NEW t \in Thread, ReduceDelta(t)
    PROVE  Parts'
<1>0. PICK i : i = It(t)
  OBVIOUS
<1>1. PICK q : q = inv_sub_pi(i)
  OBVIOUS
<1>2. /\ Control /\ In(t, 9) /\ NextItem(t)
      /\ delta' = [delta EXCEPT ![q] = Xor(@, Merged(i))]
      /\ UNCHANGED <<given, team, tile>>
      /\ UNCHANGED <<roundKeys, keystream, vec, matrix, a, b, colAccum, temp, rowSum, reg>>
  BY <1>0, <1>1, DoingMeans DEF Parts, ReduceDelta
<1>3. /\ Control' /\ \A k \in Static : k # 9 => Kept(k)
      /\ i \in 0 .. Iterations(9) - 1 /\ i \in Ahead(9)
      /\ Ahead(9)' = Ahead(9) \ {i} /\ Ahead(8)' = Ahead(8)
      /\ TilesAhead' = TilesAhead
  BY <1>0, <1>2, NextItemKept
<1>4. i \in Index
  BY <1>3, IterationFacts DEF Index
<1>5. q \in Index /\ sub_pi[q] = i /\ \A x \in Index : sub_pi[x] = i => x = q
  <2>1. sub_pi \in [Index -> Index] /\ \A x, y \in Index : sub_pi[x] = sub_pi[y] => x = y
    BY DEF Parts, GivenInv, Permutation, Shift
  <2>2. \E x \in Index : sub_pi[x] = i
    BY <1>4, <2>1, Sizes, InjectionOnto
  <2>3. q \in Index /\ sub_pi[q] = i
    BY <1>1, <2>2 DEF inv_sub_pi
  <2> QED
    BY <2>1, <2>3
<1>6. Merged(i) = ColumnSum(Rotated("punctured"), i) /\ Merged(i) \in Word
  <2>1. In(t, 8 + 1)
    BY <1>2
  <2> QED
    BY <1>4, <2>1, MergedExact, PassNames
<1>7. /\ delta' \in Vector
      /\ \A x \in Index : delta'[x] = IF x = q THEN Xor(delta[x], Merged(i)) ELSE delta[x]
  <2>1. delta \in Vector /\ delta[q] \in Word
    BY <1>5 DEF Parts, DataTypes, Vector
  <2>2. Xor(delta[q], Merged(i)) \in Word
    BY <1>6, <2>1, XorType DEF Word
  <2> QED
    BY <1>2, <1>5, <2>1, <2>2 DEF Vector
<1>8. DeltaResults'
  <2>1. PICK M : M = Rotated("punctured")
    OBVIOUS
  <2>2. /\ \A x : RowSum(Rotated("punctured"), x)' = RowSum(M, x)
        /\ \A x : ColumnSum(Rotated("punctured"), x)' = ColumnSum(M, x)
        /\ Rotated("punctured")' = M /\ sub_pi' = sub_pi
    BY <1>2, <2>1, GivenFixed DEF RowSum, ColumnSum
  <2>3. \A x \in Index \ Ahead(8) :
           delta[x] = IF sub_pi[x] \in Ahead(9) THEN RowSum(M, x)
                      ELSE Xor(RowSum(M, x), ColumnSum(M, sub_pi[x]))
    BY <2>1 DEF Parts, Results, DeltaResults
  <2>4. \A x \in Index \ Ahead(8)' :
           delta'[x] = IF sub_pi[x] \in Ahead(9)' THEN RowSum(M, x)
                       ELSE Xor(RowSum(M, x), ColumnSum(M, sub_pi[x]))
    <3> SUFFICES ASSUME NEW x \in Index, x \notin Ahead(8)'
                 PROVE  delta'[x] = IF sub_pi[x] \in Ahead(9)' THEN RowSum(M, x)
                                    ELSE Xor(RowSum(M, x), ColumnSum(M, sub_pi[x]))
      OBVIOUS
    <3>1. CASE x = q
      BY <1>3, <1>5, <1>6, <1>7, <2>1, <2>3, <3>1
    <3>2. CASE x # q
      BY <1>3, <1>5, <1>7, <2>3, <3>2
    <3> QED
      BY <3>1, <3>2
  <2>5. \A x : ColumnSum(Rotated("punctured"), sub_pi[x])' = ColumnSum(M, sub_pi[x])
    BY <2>2 DEF ColumnSum
  <2> QED
    BY <2>2, <2>4, <2>5 DEF DeltaResults
<1>9. /\ GivenInv' /\ RotationOf(4)' /\ RotationOf(5)' /\ VectorInv'
      /\ ColumnsOf(6)' /\ RowOf(6)' /\ ColumnsOf(8)' /\ RowOf(8)'
      /\ RowResults' /\ ColumnResults'
  <2>1. UNCHANGED given /\ 9 \in Nat
    BY <1>2
  <2>2. /\ GivenInv'
        /\ UNCHANGED <<matrix, temp>> => \A j \in {4, 5} : j # 9 => RotationOf(j)'
        /\ UNCHANGED <<colAccum, rowSum, reg>> =>
              \A j \in {6, 8} : j # 9 => ColumnsOf(j)' /\ RowOf(j)'
        /\ UNCHANGED b /\ 9 # 6 => RowResults'
        /\ UNCHANGED a /\ 9 # 7 => ColumnResults'
        /\ UNCHANGED <<roundKeys, keystream, vec>> /\ 9 \notin {1, 3}
             /\ TilesAhead' = TilesAhead => VectorInv'
    BY <1>3, <2>1, RestKept
  <2> QED
    BY <1>2, <1>3, <2>2
<1>10. DataTypes'
  BY <1>2, <1>7 DEF Parts, DataTypes
<1> QED
  BY <1>3, <1>8, <1>9, <1>10 DEF Parts, Results

\* Where nobody is within an iteration the sums of rows are nobody's.
LEMMA NobodyWithin ==
    ASSUME NEW k, \A u, i, n : n # 0 => ~Within(u, k, i, n)'
    PROVE  RowOf(k)'
BY DEF RowOf

\* A thread passes a barrier.
LEMMA PassBarrierStep ==
    ASSUME Parts, NEW t \in Thread, PassBarrier(t)
    PROVE  Parts'
<1>1. /\ Control /\ UNCHANGED given /\ UNCHANGED <<roundKeys, keystream, vec, matrix, tile>>
      /\ UNCHANGED <<a, b, delta, colAccum, temp, rowSum, reg>>
  BY DEF Parts, PassBarrier, shared, sums
<1>2. /\ Control' /\ TilesAhead' = TilesAhead
      /\ \A k \in Static : Ahead(k)' = Ahead(k)
  BY <1>1, PassBarrierFacts
<1>3. \A k \in {4, 5, 6, 8} : Kept(k) /\ Quiet(k)
  BY <1>1, PassBarrierKept DEF Kept, Static
<1>4. \A k \in {1, 3, 6, 7, 8, 9} : Ahead(k)' = Ahead(k)
  BY <1>2 DEF Static
<1>5. GivenInv' /\ VectorInv'
  BY <1>1, <1>2, <1>4, GivenFixed, VectorFrame DEF Parts
<1>6. ASSUME NEW k \in {4, 5} PROVE RotationOf(k)'
  <2>1. RotationOf(k) /\ matrix'[Arr(Order[k])] = matrix[Arr(Order[k])] /\ Quiet(k)
    BY <1>1, <1>3 DEF Parts
  <2> QED
    BY <1>1, <2>1, RotationFrame
<1>7. ASSUME NEW k \in {6, 8} PROVE ColumnsOf(k)' /\ RowOf(k)'
  <2>1. ColumnsOf(k) /\ RowOf(k) /\ Kept(k) /\ Quiet(k)
    BY <1>3 DEF Parts
  <2> QED
    BY <1>1, <1>2, <2>1, PassFrame
<1>8. Results'
  BY <1>1, <1>4, ResultsFrame DEF Parts, Results
<1>9. DataTypes'
  BY <1>1 DEF Parts, DataTypes
<1> QED
  BY <1>2, <1>5, <1>6, <1>7, <1>8, <1>9 DEF Parts

\* The main thread forks the next team, with sums of nothing.
LEMMA ForkStep ==
    ASSUME Parts, Fork
    PROVE  Parts'
<1>1. PICK F : F = Following
  OBVIOUS
<1>2. /\ Control /\ Joinable /\ F \in DOMAIN Order
      /\ IF F = 6 THEN a' = NoVector /\ b' = NoVector /\ delta' = NoVector
         ELSE UNCHANGED <<a, b, delta>>
      /\ colAccum' = IF F \in {6, 8} THEN [u \in Thread |-> NoVector] ELSE colAccum
      /\ UNCHANGED given
      /\ UNCHANGED <<roundKeys, keystream, vec, matrix, tile, temp, rowSum, reg>>
  <2>1. F \in DOMAIN Order => /\ Order[F] = "rows" <=> F = 6
                              /\ Order[F] \in Passes <=> F \in {6, 8}
    BY OrderNames
  <2> QED
    BY <1>1, <2>1 DEF Parts, Fork
<1>3. /\ F \in {1, 2, 3, 4, 6, 8} /\ Control'
      /\ \A k \in Static : F <= k => Ahead(k)' = 0 .. Iterations(k) - 1
      /\ \A k \in Static : \A u \in team' : F <= k => Left(k, u)' = SliceOf(k, u)'
      /\ thread'[0].loop = F
  BY <1>1, <1>2, ForkFacts
<1>4. /\ \A k \in Static : k # 3 \/ serverNo = 1 => Quiet(k)
      /\ TilesAhead' = TilesAhead
  BY <1>2, ForkQuiet
<1>5. \A u, k : ~In(u, k)
  BY <1>2, JoinFacts
<1>6. \A k \in {1, 4, 5, 6, 7, 8, 9} : Quiet(k) /\ Ahead(k)' = Ahead(k)
  BY <1>4 DEF Static, Quiet
<1>7. GivenInv' /\ VectorInv'
  <2>1. serverNo \in Server
    BY <1>2 DEF Control
  <2>2. serverNo = 0 \/ Ahead(3)' = Ahead(3)
    BY <1>4, <2>1 DEF Static, Quiet, Server
  <2> QED
    BY <1>2, <1>4, <1>6, <2>2, GivenFixed, VectorFrame DEF Parts
<1>8. ASSUME NEW k \in {4, 5} PROVE RotationOf(k)'
  <2>1. RotationOf(k) /\ matrix'[Arr(Order[k])] = matrix[Arr(Order[k])] /\ Quiet(k)
    BY <1>2, <1>6 DEF Parts
  <2> QED
    BY <1>2, <2>1, RotationFrame
<1>9. ASSUME NEW k \in {6, 8} PROVE ColumnsOf(k)' /\ RowOf(k)'
  <2>1. \A u, i, n : n # 0 => ~Within(u, k, i, n)'
    <3>1. \A u, i, n : ~Within(u, k, i, n)
      BY <1>5 DEF Within
    <3> QED
      BY <1>6, <3>1 DEF Quiet
  <2>2. RowOf(k)'
    BY <2>1, NobodyWithin
  <2>3. ColumnsOf(k)'
    <3>1. CASE F = k
      <4>1. ASSUME NEW u \in Thread, NEW j \in Index PROVE Counted(k, u, j)' = {}
        <5> DEFINE Then == {i \in Index : \E n \in Nat : n # 0 /\ Within(u, k, i, n)' /\ j < n \div 2}
        <5>1. Counted(k, u, j)' = IF u \notin team' THEN {}
                                  ELSE (SliceOf(k, u)' \ Left(k, u)') \cup Then
          BY <1>3, CountedMeansNext
        <5>2. Then = {}
          BY <2>1
        <5>3. u \in team' => Left(k, u)' = SliceOf(k, u)'
          BY <1>3, <3>1 DEF Static
        <5> HIDE DEF Then
        <5> QED
          BY <5>1, <5>2, <5>3
      <4>2. \A u \in Thread, j \in Index : colAccum'[u][j] = {}
        BY <1>2, <3>1 DEF NoVector
      <4>3. \A f : XorSum(f, {}) = {}
        BY DEF XorSum
      <4> QED
        BY <4>1, <4>2, <4>3 DEF ColumnsOf
    <3>2. CASE F # k
      <4>1. ~(thread'[0].loop \in {k, k + 1})
        BY <1>3, <3>2
      <4> QED
        BY <4>1 DEF ColumnsOf
    <3> QED
      BY <3>1, <3>2
  <2> QED
    BY <2>2, <2>3
<1>10. Results'
  <2>1. CASE F = 6
    <3>1. /\ Ahead(6)' = 0 .. Iterations(6) - 1 /\ Ahead(7)' = 0 .. Iterations(7) - 1
          /\ Ahead(8)' = 0 .. Iterations(8) - 1
      BY <1>3, <2>1 DEF Static
    <3>2. Index \subseteq Ahead(6)' /\ Index \subseteq Ahead(7)' /\ Index \subseteq Ahead(8)'
      BY <3>1, IterationFacts DEF Index
    <3> QED
      BY <3>2 DEF Results, RowResults, ColumnResults, DeltaResults
  <2>2. CASE F # 6
    BY <1>2, <1>6, <2>2, ResultsFrame DEF Parts, Results
  <2> QED
    BY <2>1, <2>2
<1>11. DataTypes'
  <2>1. NoVector \in Vector
    BY DEF NoVector, Vector, Word
  <2>2. DataTypes
    BY DEF Parts
  <2> HIDE DEF NoVector
  <2>3. a' \in Vector /\ b' \in Vector /\ delta' \in Vector
    BY <1>2, <2>1, <2>2 DEF DataTypes
  <2>4. colAccum' \in [Thread -> Vector]
    BY <1>2, <2>1, <2>2 DEF DataTypes
  <2> QED
    BY <1>2, <2>2, <2>3, <2>4 DEF DataTypes
<1> QED
  BY <1>3, <1>7, <1>8, <1>9, <1>10, <1>11 DEF Parts

\* secretShare is called.
LEMMA ShareStep ==
    ASSUME Parts, Share
    PROVE  Parts'
<1>1. /\ Control /\ UNCHANGED given /\ UNCHANGED <<roundKeys, keystream, vec, matrix, tile>>
      /\ UNCHANGED <<a, b, delta, colAccum, temp, rowSum, reg>>
  BY DEF Parts, Share, shared, sums
<1>2. /\ Control' /\ TilesAhead' = TilesAhead /\ thread'[0].loop = 10
      /\ \A u, k : ~In(u, k)'
  BY <1>1, ShareFacts
<1>3. \A k \in {1, 3, 4, 5, 6, 7, 8, 9} : Quiet(k) /\ Ahead(k)' = Ahead(k)
  BY <1>1, ShareQuiet DEF Static, Quiet
<1>4. GivenInv' /\ VectorInv'
  BY <1>1, <1>2, <1>3, GivenFixed, VectorFrame DEF Parts
<1>5. ASSUME NEW k \in {4, 5} PROVE RotationOf(k)'
  <2>1. RotationOf(k) /\ matrix'[Arr(Order[k])] = matrix[Arr(Order[k])] /\ Quiet(k)
    BY <1>1, <1>3 DEF Parts
  <2> QED
    BY <1>1, <2>1, RotationFrame
<1>6. ASSUME NEW k \in {6, 8} PROVE ColumnsOf(k)' /\ RowOf(k)'
  <2>1. ~(thread'[0].loop \in {k, k + 1}) /\ \A u, i, n : n # 0 => ~Within(u, k, i, n)'
    BY <1>2 DEF Within
  <2> QED
    BY <2>1, NobodyWithin DEF ColumnsOf
<1>7. Results'
  BY <1>1, <1>3, ResultsFrame DEF Parts, Results
<1>8. DataTypes'
  BY <1>1 DEF Parts, DataTypes
<1> QED
  BY <1>2, <1>4, <1>5, <1>6, <1>7, <1>8 DEF Parts

\* Nothing happens.
LEMMA StutterStep ==
    ASSUME Parts, UNCHANGED vars
    PROVE  Parts'
<1>1. /\ Control /\ UNCHANGED given /\ UNCHANGED <<roundKeys, keystream, vec, matrix, tile>>
      /\ UNCHANGED <<a, b, delta, colAccum, temp, rowSum, reg>>
      /\ UNCHANGED <<team, thread, serverNo, numThreads, circularShift>>
  BY DEF Parts, vars, shared, sums, given
<1>2. /\ TilesAhead' = TilesAhead
      /\ \A k : Ahead(k)' = Ahead(k)
      /\ \A k, u : Left(k, u)' = Left(k, u)
      /\ \A k, u : SliceOf(k, u)' = SliceOf(k, u)
      /\ \A u, k, i, n : Within(u, k, i, n)' <=> Within(u, k, i, n)
  BY <1>1 DEF TilesAhead, Ahead, Left, SliceOf, Within, In, Doing, It
<1>3. Control'
  <2>1. ThreadInv'
    BY <1>1, ThreadInvMeans DEF Control
  <2>2. TeamInv'
    BY <1>1 DEF Control, TeamInv, Doing, It
  <2> QED
    BY <1>1, <2>1, <2>2 DEF Control
<1>4. \A k : Kept(k) /\ Quiet(k)
  BY <1>1, <1>2 DEF Kept, Quiet
<1>5. GivenInv' /\ VectorInv'
  BY <1>1, <1>2, GivenFixed, VectorFrame DEF Parts
<1>6. ASSUME NEW k \in {4, 5} PROVE RotationOf(k)'
  <2>1. RotationOf(k) /\ matrix'[Arr(Order[k])] = matrix[Arr(Order[k])] /\ Quiet(k)
    BY <1>1, <1>4 DEF Parts
  <2> QED
    BY <1>1, <2>1, RotationFrame
<1>7. ASSUME NEW k \in {6, 8} PROVE ColumnsOf(k)' /\ RowOf(k)'
  <2>1. ColumnsOf(k) /\ RowOf(k) /\ Kept(k) /\ Quiet(k)
    BY <1>4 DEF Parts
  <2> QED
    BY <1>1, <1>3, <2>1, PassFrame
<1>8. Results'
  BY <1>1, <1>2, ResultsFrame DEF Parts, Results
<1>9. DataTypes'
  BY <1>1 DEF Parts, DataTypes
<1> QED
  BY <1>3, <1>5, <1>6, <1>7, <1>8, <1>9 DEF Parts

-----------------------------------------------------------------------------
(***************************************************************************)
(* The invariant.                                                           *)
(***************************************************************************)
\* Every word of the vector is in a tile.
LEMMA CellInTile ==
    ASSUME NEW i \in Index, NEW c \in Chunk
    PROVE  \E k \in 0 .. Tiles - 1 :
              <<i, c>> \in TileCells(TileRow(k), TileColumn(k), SIZE_PI, DATA_CHUNKS)
<1> DEFINE R == TilesAlong(SIZE_PI)
           C == TilesAlong(DATA_CHUNKS)
<1>1. /\ i \in 0 .. SIZE_PI - 1 /\ c \in 0 .. DATA_CHUNKS - 1
      /\ SIZE_PI \in Nat /\ DATA_CHUNKS \in Nat
  BY Sizes DEF Index, Chunk
<1>2. PICK x \in 0 .. R - 1, y \in 0 .. C - 1 :
         <<i, c>> \in TileCells(x, y, SIZE_PI, DATA_CHUNKS)
  BY <1>1, TilesPartition
<1>3. R \in Nat \ {0} /\ C \in Nat \ {0} /\ Tiles = R * C
  BY TilesType, <1>2 DEF Tiles
<1> HIDE DEF R, C
<1> DEFINE k == C * x + y
<1>4. k \in Nat /\ k < R * C
  <2>1. x + 1 <= R /\ x \in Nat /\ y \in Nat /\ y < C
    BY <1>2, <1>3
  <2>2. C * (x + 1) <= C * R
    BY <1>3, <2>1, Z3
  <2>3. C * (x + 1) = C * x + C /\ C * R = R * C /\ C * x \in Nat /\ R * C \in Nat
    BY <1>3, <2>1, Z3
  <2> QED
    BY <1>3, <2>1, <2>2, <2>3
<1>5. k \div C = x /\ k % C = y
  <2>1. x \in Nat /\ y \in 0 .. C - 1 /\ k = C * x + y
    BY <1>2, <1>3
  <2> HIDE DEF k
  <2> QED
    BY <1>3, <2>1, RemainderUnique
<1> HIDE DEF k
<1>6. k \in 0 .. Tiles - 1
  BY <1>3, <1>4
<1>7. TileRow(k) = x /\ TileColumn(k) = y
  BY <1>5 DEF TileRow, TileColumn, C
<1> QED
  BY <1>2, <1>6, <1>7

\* Nothing has been done at the beginning.
LEMMA LoopsInit == Init => Parts
<1> SUFFICES ASSUME Init PROVE Parts
  OBVIOUS
<1>1. /\ team = {0} /\ tile = 0
      /\ \A u \in Thread : /\ thread[u].loop = 0 /\ thread[u].next = 0
                           /\ thread[u].end = 0 /\ thread[u].step = 0
      /\ thread \in [Thread -> [loop : Loop, next : Nat, end : Nat, step : Nat]]
  BY OrderFacts DEF Init
<1>2. team \in Teams
  <2>1. {0} = 0 .. 1 - 1 /\ 1 \in 1 .. MAX_THREADS
    BY Sizes
  <2> QED
    BY <1>1, <2>1 DEF Teams
<1>3. \A u, k : ~In(u, k)
  BY <1>1, Sizes DEF In
<1>4. ThreadInv
  <2>1. \A u \in Thread : Placed(thread[u], u, team, tile, serverNo, circularShift)
    BY <1>1, OrderFacts DEF Placed
  <2> QED
    BY <2>1, ThreadInvMeans
<1>5. TeamInv
  BY <1>1, Sizes, DoingMeans, <1>3 DEF TeamInv
<1>6. Control /\ GivenInv
  BY <1>1, <1>2, <1>4, <1>5, TilesType DEF Init, Control, GivenInv
<1>7. ASSUME NEW k \in Static PROVE Ahead(k) = 0 .. Iterations(k) - 1
  <2>1. \A u \in team : thread[u].loop < k
    BY <1>1, Sizes DEF Static
  <2> QED
    BY <1>6, <2>1, AheadWhole
<1>8. \A k \in {1, 4, 5, 6, 7, 8, 9} : Ahead(k) = Index
  <2>1. ASSUME NEW k \in {1, 4, 5, 6, 7, 8, 9} PROVE Ahead(k) = Index
    <3>1. k \in Static /\ k \in 1 .. 9 /\ k # 3
      BY DEF Static
    <3> QED
      BY <1>7, <3>1, IterationFacts DEF Index
  <2> QED
    BY <2>1
<1>9. TilesAhead = 0 .. Tiles - 1
  BY <1>1, <1>3, DoingMeans DEF TilesAhead
<1>10. VectorInv
  <2>1. roundKeys = [r \in 0 .. ROUNDS |-> TRUE]
    BY DEF Init
  <2>2. \A c \in Chunk, i \in Index :
           \E k \in TilesAhead :
              <<i, c>> \in TileCells(TileRow(k), TileColumn(k), SIZE_PI, DATA_CHUNKS)
    BY <1>9, CellInTile
  <2> QED
    BY <1>8, <2>1, <2>2 DEF VectorInv
<1>11. \A u, k, i, n : ~Within(u, k, i, n)
  BY <1>3 DEF Within
<1>12. RotationOf(4) /\ RotationOf(5)
  BY <1>8, <1>11 DEF RotationOf, Init
<1>13. ColumnsOf(6) /\ RowOf(6) /\ ColumnsOf(8) /\ RowOf(8)
  BY <1>1, <1>11, Sizes DEF ColumnsOf, RowOf
<1>14. Results
  BY <1>8 DEF Results, RowResults, ColumnResults, DeltaResults
<1>15. DataTypes
  <2>1. NoVector \in Vector /\ {} \in Word
    BY DEF NoVector, Vector, Word
  <2> HIDE DEF NoVector
  <2>2. /\ roundKeys \in [0 .. ROUNDS -> BOOLEAN]
        /\ keystream \in [Index -> [Chunk -> Word]]
        /\ rowSum \in [Thread -> Word] /\ reg \in [Thread -> Word]
    BY <2>1 DEF Init
  <2>3. /\ vec \in [Chunk -> Vector] /\ matrix \in [Matrices -> Matrix]
        /\ a \in Vector /\ b \in Vector /\ delta \in Vector
        /\ colAccum \in [Thread -> Vector] /\ temp \in [Thread -> Vector]
    BY <2>1 DEF Init
  <2> QED
    BY <2>2, <2>3 DEF DataTypes
<1> QED
  BY <1>6, <1>10, <1>12, <1>13, <1>14, <1>15 DEF Parts

\* Every step keeps the invariant.
LEMMA LoopsNext == Parts /\ [Next]_vars => Parts'
<1> SUFFICES ASSUME Parts, [Next]_vars PROVE Parts'
  OBVIOUS
<1>1. CASE UNCHANGED vars
  BY <1>1, StutterStep
<1>2. CASE Fork
  BY <1>2, ForkStep
<1>3. CASE Share
  BY <1>3, ShareStep
<1>4. ASSUME NEW t \in Thread, ThreadStep(t) PROVE Parts'
  <2>1. CASE ExpandKey(t)
    BY <2>1, ExpandKeyStep
  <2>2. CASE Encrypt(t)
    BY <2>2, EncryptStep
  <2>3. CASE TakeTile(t)
    BY <2>3, TakeTileStep
  <2>4. CASE CopyTile(t)
    BY <2>4, CopyTileStep
  <2>5. CASE Combine(t)
    BY <2>5, CombineStep
  <2>6. ASSUME NEW l \in Rotation, SaveTail(t, l) PROVE Parts'
    BY <2>6, SaveTailStep
  <2>7. ASSUME NEW l \in Rotation, MoveRight(t, l) PROVE Parts'
    BY <2>7, MoveRightStep
  <2>8. ASSUME NEW l \in Rotation, FillFront(t, l) PROVE Parts'
    BY <2>8, FillFrontStep
  <2>9. ASSUME NEW l \in Rotation, Unshifted(t, l) PROVE Parts'
    BY <2>9, UnshiftedStep
  <2>10. ASSUME NEW l \in Passes, AddEntry(t, l) PROVE Parts'
    BY <2>10, AddEntryStep
  <2>11. ASSUME NEW l \in Passes, AddColumn(t, l) PROVE Parts'
    BY <2>11, AddColumnStep
  <2>12. ASSUME NEW l \in Passes, StoreRow(t, l) PROVE Parts'
    BY <2>12, StoreRowStep
  <2>13. CASE Reduce(t)
    BY <2>13, ReduceStep
  <2>14. CASE ReduceDelta(t)
    BY <2>14, ReduceDeltaStep
  <2>15. CASE PassBarrier(t)
    BY <2>15, PassBarrierStep
  <2> QED
    BY <1>4, <2>1, <2>2, <2>3, <2>4, <2>5, <2>6, <2>7, <2>8, <2>9, <2>10, <2>11, <2>12,
       <2>13, <2>14, <2>15 DEF ThreadStep
<1> QED
  BY <1>1, <1>2, <1>3, <1>4 DEF Next, Done

\* LoopsInv holds at every step of every interleaving, however many threads
\* the loops of ServerDuetORAM::evict have.
THEOREM LoopsInvariant == Spec => []LoopsInv
<1>1. Init => Parts
  BY LoopsInit
<1>2. Parts /\ [Next]_vars => Parts'
  BY LoopsNext
<1>3. Parts => LoopsInv
  BY PartsMean
<1> QED
  BY <1>1, <1>2, <1>3, PTL DEF Spec

\* Every variable of the loops keeps its type, and no slice or tile goes
\* beyond its loop.
THEOREM LoopsTypes == Spec => []TypeOK
<1>1. LoopsInv => TypeOK
  BY DEF LoopsInv
<1> QED
  BY <1>1, LoopsInvariant, PTL

\* When the main thread has gone on from the parallel regions that fill the
\* vector, it holds every chunk of every slot under its mask, combined with
\* its block on server 1.
THEOREM LoopsVectorExact == Spec => []VectorExact
<1>1. LoopsInv => VectorExact
  <2> SUFFICES ASSUME LoopsInv, thread[0].loop > 3, NEW c \in Chunk, NEW i \in Index
               PROVE  vec[c][i] = IF serverNo = 0 THEN MaskWord(i, c)
                                  ELSE Xor(MaskWord(i, c), evict_vector[c][i])
    BY DEF VectorExact
  <2>1. Control /\ VectorInv
    BY ControlFacts DEF LoopsInv
  <2>2. /\ team \subseteq Thread /\ 0 \in team
        /\ \A u \in team : thread[u].loop \in 0 .. 10
    BY <2>1, TeamFacts, OrderFacts DEF Control
  <2>3. \A u \in team : thread[u].loop > 3
    BY <2>1, <2>2 DEF Control, TeamInv
  <2>4. Ahead(3) = {}
    BY <2>1, <2>3, AheadWhole DEF Static
  <2>5. TilesAhead = {}
    <3>1. tile = Tiles
      BY <2>1, <2>2 DEF Control, TeamInv
    <3>2. \A u : ~In(u, 2)
      BY <2>3 DEF In
    <3> QED
      BY <2>1, <3>1, <3>2, TilesAheadMeans, TilesType
  <2> QED
    BY <2>1, <2>4, <2>5 DEF VectorInv
<1> QED
  BY <1>1, LoopsInvariant, PTL

\* A pass over the rows finds its matrix rotated: the barriers and joins of
\* the regions keep it from rows that are on their way.
THEOREM LoopsRotatedBeforeSums == Spec => []RotatedBeforeSums
<1>1. LoopsInv => RotatedBeforeSums
  <2> SUFFICES ASSUME LoopsInv, NEW t \in team, NEW l \in Passes, Doing(t, l)
               PROVE  matrix[Scanned(l)] = Rotated(Scanned(l))
    BY DEF RotatedBeforeSums
  <2>1. Parts /\ Control /\ team \subseteq Thread
    BY PartsMean, TeamFacts DEF Parts, Control
  <2>2. PICK k \in {6, 8} : l = Order[k] /\ In(t, k)
    BY PassNames
  <2>3. Ahead(4) = {} /\ Ahead(5) = {}
    <3>1. k \in 1 .. 9
      OBVIOUS
    <3>2. \A j \in Static : j < k => Ahead(j) = {}
      BY <2>1, <2>2, <3>1, AtLoop
    <3> QED
      BY <3>2 DEF Static
  <2> DEFINE m == Scanned(l)
  <2>4. m \in Matrices
    BY <2>2, PassNames
  <2> HIDE DEF m
  <2>5. \A i \in Index : matrix[m][i] = Rotated(m)[i]
    BY <2>1, <2>3, <2>4, MatricesRotated
  <2>6. DOMAIN matrix[m] = Index /\ matrix[m] = [i \in Index |-> matrix[m][i]]
    BY <2>1, <2>4 DEF Parts, DataTypes, Matrix
  <2>7. Rotated(m) = [i \in Index |-> Rotated(m)[i]]
    BY DEF Rotated, Rotate
  <2> QED
    BY <2>5, <2>6, <2>7 DEF m
<1> QED
  BY <1>1, LoopsInvariant, PTL

\* However many threads there are, and however they interleave, a, b and delta
\* are the sums of the rotated matrices: what RecvEvict of SecretSharedShuffle
\* computes in one step.
THEOREM LoopsSumsExact == Spec => []SumsExact
<1>1. LoopsInv => SumsExact
  <2> SUFFICES ASSUME LoopsInv PROVE SumsExact
    OBVIOUS
  <2>1. Parts /\ Control /\ team \subseteq Thread /\ 0 \in team
    BY PartsMean, TeamFacts DEF Parts, Control
  <2>2. \A u \in team : thread[u].loop \in 0 .. 10
    BY <2>1, OrderFacts DEF Control
  <2>3. a \in [Index -> Word] /\ b \in [Index -> Word] /\ delta \in [Index -> Word]
    BY <2>1 DEF Parts, DataTypes, Vector
  <2>4. ASSUME thread[0].loop > 7
        PROVE  a = ColumnSums(Rotated("full")) /\ b = RowSums(Rotated("full"))
    <3>1. \A u \in team : thread[u].loop > 7
      BY <2>1, <2>2, <2>4 DEF Control, TeamInv
    <3>2. Ahead(6) = {} /\ Ahead(7) = {}
      <4>1. 6 \in Static /\ 7 \in Static
        BY DEF Static
      <4>2. \A u \in team : thread[u].loop > 6
        BY <2>2, <3>1
      <4> QED
        BY <2>1, <3>1, <4>1, <4>2, AheadWhole
    <3>3. \A x \in Index : a[x] = ColumnSum(Rotated("full"), x) /\ b[x] = RowSum(Rotated("full"), x)
      BY <2>1, <3>2 DEF Parts, Results, RowResults, ColumnResults
    <3> QED
      BY <2>3, <3>3 DEF ColumnSums, RowSums
  <2>5. ASSUME Ready
        PROVE  delta = [i \in Index |->
                            Xor(RowSum(Rotated("punctured"), i),
                                ColumnSum(Rotated("punctured"), sub_pi[i]))]
    <3>1. thread[0].loop = 10
      BY <2>5, OrderFacts DEF Ready
    <3>2. \A u \in team : thread[u].loop > 9
      BY <2>1, <2>2, <3>1 DEF Control, TeamInv
    <3>3. Ahead(8) = {} /\ Ahead(9) = {}
      <4>1. 8 \in Static /\ 9 \in Static
        BY DEF Static
      <4>2. \A u \in team : thread[u].loop > 8
        BY <2>2, <3>2
      <4> QED
        BY <2>1, <3>2, <4>1, <4>2, AheadWhole
    <3>4. \A x \in Index : delta[x] = Xor(RowSum(Rotated("punctured"), x),
                                          ColumnSum(Rotated("punctured"), sub_pi[x]))
      BY <2>1, <3>3 DEF Parts, Results, DeltaResults
    <3> QED
      BY <2>3, <3>4
  <2> QED
    BY <2>4, <2>5 DEF SumsExact
<1> QED
  BY <1>1, LoopsInvariant, PTL

-----------------------------------------------------------------------------
(***************************************************************************)
(* What the threads access at the same time.                                *)
(***************************************************************************)
\* The cells of memory in the next step of a thread, loop by loop: entries
\* of its own iteration, what is its own, or what everybody only reads.
LEMMA AccessesMean ==
    ASSUME NEW t, NEW x \in Accesses(t)
    PROVE  LET i == It(t)
           IN  \/ In(t, 1) /\ \/ x[2][1] = "keystream" /\ x[2][2] = i
                              \/ x[2][1] = "roundKeys"
               \/ In(t, 2) /\ \E p \in TileCells(TileRow(i), TileColumn(i), SIZE_PI, DATA_CHUNKS) :
                     \/ x[1] = "r" /\ x[2][1] = "keystream"
                     \/ x[2][1] = "vec" /\ x[2][2] = p[2] /\ x[2][3] = p[1]
               \/ In(t, 3) /\ x[2][2] = i
               \/ \E l \in {4, 5} : In(t, l) /\ \/ x[2][1] # "temp" /\ x[2][2] = i
                                                \/ x[2][1] = "temp" /\ x[2][2] = t
               \/ \E l \in {6, 8} : In(t, l) /\ \/ x[2][1] # "colAccum" /\ x[2][2] = i
                                                \/ x[2][1] = "colAccum" /\ x[2][2] = t
               \/ In(t, 7) /\ \/ x[1] = "r" /\ x[2][1] = "colAccum"
                              \/ x[2][1] = "a" /\ x[2][2] = i
               \/ In(t, 9) /\ \/ x[1] = "r" /\ x[2][1] = "colAccum"
                              \/ x[2][1] = "delta" /\ x[2][2] = inv_sub_pi(i)
<1> DEFINE i == It(t)
           n == StepOf(t)
           j == n \div 2
           Cells(l, r, w) == IF Doing(t, l) THEN {<<"r", y>> : y \in r} \cup {<<"w", y>> : y \in w}
                             ELSE {}
           Row(l) == {<<Arr(l), i>>}
           Buf == {<<"temp", Buffer(t)>>}
           Rotating(l) ==
               IF ShiftOf(l)[i] = 0 THEN {}
               ELSE Cells(l, IF n = 0 THEN Row(l) ELSE Row(l) \cup Buf,
                             IF n = 0 THEN Buf ELSE Row(l))
           Summing(l, sum) ==
               IF n = 2 * SIZE_PI THEN Cells(l, {}, {<<sum, i>>})
               ELSE Cells(l, {<<Scanned(l), i>>, <<"colAccum", Mine(t), j>>},
                             IF n % 2 = 1 THEN {<<"colAccum", Mine(t), j>>} ELSE {})
           Merging(l, sum) == Cells(l, {<<"colAccum", u, i>> : u \in Thread}, {sum})
           Tile == TileCells(TileRow(i), TileColumn(i), SIZE_PI, DATA_CHUNKS)
           Column == {<<"vec", i, k>> : k \in Index}
           Keys(rounds) == {<<"roundKeys", r>> : r \in rounds}
           A1 == Cells("keystream",
                       Keys(IF n > ROUNDS THEN 0 .. ROUNDS ELSE {n - 1} \cap 0 .. ROUNDS),
                       IF n > ROUNDS THEN {<<"keystream", i>>} ELSE Keys({n}))
           A2 == Cells("transpose", {<<"keystream", y[1]>> : y \in Tile},
                               {<<"vec", y[2], y[1]>> : y \in Tile})
           A3 == Cells("combine", Column, Column)
           A4 == IF Doing(t, "rotate1") THEN Rotating("rotate1") ELSE {}
           A5 == IF Doing(t, "rotate2") THEN Rotating("rotate2") ELSE {}
           A6 == Summing("rows", "b")
           A8 == Summing("deltaRows", "delta")
           A7 == Merging("columns", <<"a", i>>)
           A9 == IF Doing(t, "deltaColumns")
                 THEN Merging("deltaColumns", <<"delta", inv_sub_pi(i)>>) ELSE {}
<1>1. x \in UNION {A1, A2, A3, A4, A5, A6, A8, A7, A9}
  BY DEF Accesses
<1>2. \A l, r, w : x \in Cells(l, r, w) =>
         Doing(t, l) /\ ((x[1] = "r" /\ x[2] \in r) \/ (x[1] = "w" /\ x[2] \in w))
  OBVIOUS
<1> HIDE DEF Cells
<1>3. CASE x \in A1
  <2>1. In(t, 1)
    BY <1>2, <1>3, DoingMeans
  <2>2. ASSUME NEW rounds, x[2] \in Keys(rounds) PROVE x[2][1] = "roundKeys"
    BY <2>2
  <2> DEFINE reads  == Keys(IF n > ROUNDS THEN 0 .. ROUNDS ELSE {n - 1} \cap 0 .. ROUNDS)
             writes == IF n > ROUNDS THEN {<<"keystream", i>>} ELSE Keys({n})
  <2>3. x[2] \in reads \/ x[2] \in writes
    BY <1>2, <1>3
  <2> HIDE DEF Keys
  <2>4. x[2] = <<"keystream", i>> \/ \E rounds : x[2] \in Keys(rounds)
    BY <2>3
  <2>5. CASE x[2] = <<"keystream", i>>
    BY <2>1, <2>5
  <2> QED
    BY <2>1, <2>2, <2>4, <2>5
<1>4. CASE x \in A2
  <2>1. In(t, 2) /\ \/ x[1] = "r" /\ \E p \in Tile : x[2] = <<"keystream", p[1]>>
                    \/ x[1] = "w" /\ \E p \in Tile : x[2] = <<"vec", p[2], p[1]>>
    BY <1>2, <1>4, DoingMeans
  <2> HIDE DEF Tile
  <2>2. In(t, 2) /\ \E p \in Tile : \/ x[1] = "r" /\ x[2][1] = "keystream"
                                    \/ x[2][1] = "vec" /\ x[2][2] = p[2] /\ x[2][3] = p[1]
    BY <2>1
  <2> QED
    BY <2>2 DEF Tile
<1>5. CASE x \in A3
  <2>1. In(t, 3) /\ \E k \in Index : x[2] = <<"vec", i, k>>
    BY <1>2, <1>5, DoingMeans
  <2> QED
    BY <2>1
<1>6. ASSUME NEW l \in {4, 5}, x \in Rotating(Order[l]), Doing(t, Order[l])
      PROVE  In(t, l) /\ \/ x[2][1] # "temp" /\ x[2][2] = i
                         \/ x[2][1] = "temp" /\ x[2][2] = t
  <2>1. x[2] \in Row(Order[l]) \cup Buf
    BY <1>2, <1>6
  <2>2. In(t, l)
    BY <1>6, DoingMeans, OrderFacts
  <2>3. x[2] = <<Arr(Order[l]), i>> \/ x[2] = <<"temp", t>>
    BY <2>1 DEF Buffer
  <2>4. Arr(Order[l]) \in {"full", "punctured"}
    BY DEF Arr
  <2> QED
    BY <2>2, <2>3, <2>4
<1>7. ASSUME NEW l \in {6, 8}, NEW sum \in {"b", "delta"}, x \in Summing(Order[l], sum)
      PROVE  In(t, l) /\ \/ x[2][1] # "colAccum" /\ x[2][2] = i
                         \/ x[2][1] = "colAccum" /\ x[2][2] = t
  <2>1. /\ Doing(t, Order[l])
        /\ x[2] \in {<<sum, i>>, <<Scanned(Order[l]), i>>, <<"colAccum", Mine(t), j>>}
    <3>1. CASE n = 2 * SIZE_PI
      BY <1>2, <1>7, <3>1
    <3>2. CASE n # 2 * SIZE_PI
      BY <1>2, <1>7, <3>2
    <3> QED
      BY <3>1, <3>2
  <2>2. In(t, l)
    BY <2>1, DoingMeans, OrderFacts
  <2>3. Scanned(Order[l]) \in {"full", "punctured"} /\ Mine(t) = t
    BY DEF Scanned, Mine
  <2> HIDE DEF j, n
  <2> QED
    BY <2>1, <2>2, <2>3
<1>8. CASE x \in A7
  <2>1. In(t, 7) /\ \/ x[1] = "r" /\ \E u \in Thread : x[2] = <<"colAccum", u, i>>
                    \/ x[2] = <<"a", i>>
    BY <1>2, <1>8, DoingMeans
  <2> QED
    BY <2>1
<1>9. CASE x \in A9
  <2>1. In(t, 9) /\ \/ x[1] = "r" /\ \E u \in Thread : x[2] = <<"colAccum", u, i>>
                    \/ x[2] = <<"delta", inv_sub_pi(i)>>
    BY <1>2, <1>9, DoingMeans
  <2> QED
    BY <2>1
<1>10. CASE x \in A4 \/ x \in A5
  <2>1. \E l \in {4, 5} : x \in Rotating(Order[l]) /\ Doing(t, Order[l])
    BY <1>10, OrderFacts
  <2> HIDE DEF Rotating
  <2> QED
    BY <1>6, <2>1
<1>11. CASE x \in A6 \/ x \in A8
  <2>1. \E l \in {6, 8}, sum \in {"b", "delta"} : x \in Summing(Order[l], sum)
    BY <1>11, OrderFacts
  <2> HIDE DEF Summing
  <2> QED
    BY <1>7, <2>1
<1> HIDE DEF A1, A2, A3, A4, A5, A6, A7, A8, A9
<1> QED
  BY <1>1, <1>3, <1>4, <1>5, <1>8, <1>9, <1>10, <1>11

\* Expanding the key again leaves every round key as it is.
LEMMA KeysKept ==
    ASSUME VectorInv, NEW r PROVE Expanded(roundKeys, r) = roundKeys
<1>1. roundKeys = [q \in 0 .. ROUNDS |-> TRUE] /\ ROUNDS \in Nat
  BY Sizes DEF VectorInv
<1>2. CASE r \in 0 .. ROUNDS
  <2>1. r = 0 \/ r - 1 \in 0 .. ROUNDS
    BY <1>1, <1>2
  <2>2. (r = 0 \/ roundKeys[r - 1]) = TRUE
    BY <1>1, <2>1
  <2>3. Expanded(roundKeys, r) = [roundKeys EXCEPT ![r] = TRUE]
    BY <2>2 DEF Expanded
  <2> QED
    BY <1>1, <2>3
<1>3. CASE r \notin 0 .. ROUNDS
  BY <1>1, <1>3 DEF Expanded
<1> QED
  BY <1>2, <1>3

\* A tile is determined by any of its cells.
LEMMA TileOfCell ==
    ASSUME NEW k \in 0 .. Tiles - 1, NEW o \in 0 .. Tiles - 1, NEW p, NEW q,
           p \in TileCells(TileRow(k), TileColumn(k), SIZE_PI, DATA_CHUNKS),
           q \in TileCells(TileRow(o), TileColumn(o), SIZE_PI, DATA_CHUNKS),
           p[1] = q[1], p[2] = q[2]
    PROVE  k = o
<1> DEFINE C == TilesAlong(DATA_CHUNKS)
<1>1. C \in Nat /\ TilesAlong(SIZE_PI) \in Nat /\ Tiles = TilesAlong(SIZE_PI) * C
  BY TilesType DEF Tiles
<1>2. C # 0
  BY <1>1
<1> HIDE DEF C
<1>3. ASSUME NEW n \in 0 .. Tiles - 1
      PROVE  /\ TileRow(n) \in 0 .. TilesAlong(SIZE_PI) - 1 /\ TileColumn(n) \in 0 .. C - 1
             /\ n = C * TileRow(n) + TileColumn(n)
  <2> DEFINE R == TilesAlong(SIZE_PI)
             x == n \div C
             y == n % C
  <2>1. n \in Nat /\ n < R * C /\ R \in Nat
    BY <1>1
  <2> HIDE DEF R
  <2>2. x \in Nat /\ C * x <= n /\ y \in 0 .. C - 1 /\ n = C * x + y
    BY <1>1, <1>2, <2>1, Division, Remainder
  <2> HIDE DEF x, y
  <2>3. x < R
    <3> SUFFICES ASSUME R <= x PROVE FALSE
      BY <2>1, <2>2
    <3>1. C * R <= C * x
      BY <1>1, <2>1, <2>2, Z3
    <3>2. C * R = R * C /\ C * R \in Nat /\ C * x \in Nat
      BY <1>1, <2>1, <2>2, Z3
    <3> QED
      BY <2>1, <2>2, <3>1, <3>2
  <2>4. x \in 0 .. R - 1
    BY <2>1, <2>2, <2>3
  <2> QED
    BY <2>2, <2>4 DEF TileRow, TileColumn, C, R, x, y
<1>4. /\ SIZE_PI \in Nat /\ DATA_CHUNKS \in Nat
  BY Sizes
<1>5. /\ p[1] \div CACHE_BLOCK_SIZE = TileRow(k) /\ p[2] \div CACHE_BLOCK_SIZE = TileColumn(k)
      /\ q[1] \div CACHE_BLOCK_SIZE = TileRow(o) /\ q[2] \div CACHE_BLOCK_SIZE = TileColumn(o)
  BY <1>3, <1>4, TileOfPlace DEF C
<1> QED
  BY <1>3, <1>5

\* No two threads of any team, in any order of their steps, access a word at
\* the same time unless both only read it: "no races", as the comments of
\* ServerDuetORAM::evict say of its loops.  The exception are the round keys of
\* the engine all threads share: they do race for them, and each writes what
\* is already there.
THEOREM LoopsRaceFree == Spec => []RaceFree
<1>1. LoopsInv => RaceFree
  <2> SUFFICES ASSUME LoopsInv, NEW t \in team, NEW w \in team, t # w,
                      NEW x \in Accesses(t), NEW y \in Accesses(w), x[2] = y[2],
                      ~KeptKey(x[2])
               PROVE  x[1] = "r" /\ y[1] = "r"
    BY DEF RaceFree
  <2>1. Control /\ GivenInv /\ team \subseteq Thread
    BY ControlFacts, TeamFacts DEF LoopsInv, Control
  <2>2. PICK l \in 1 .. 9 : In(t, l)
    BY AccessesMean
  <2>3. ASSUME NEW k, In(w, k) PROVE k = l
    <3>1. \/ thread[w].loop = l
          \/ thread[w].loop = l - 1 /\ thread[w].next = thread[w].end
      BY <2>1, <2>2, AtLoop
    <3>2. thread[w].next \in Nat /\ thread[w].end \in Nat
      BY <2>1 DEF Control
    <3> QED
      BY <2>3, <3>1, <3>2 DEF In
  <2>4. \A k : In(t, k) => k = l
    BY <2>2 DEF In
  <2>5. In(w, l)
    BY <2>3, AccessesMean
  <2>6. l # 2 => It(t) # It(w)
    <3> SUFFICES ASSUME l # 2, It(t) = It(w) PROVE FALSE
      OBVIOUS
    <3>1. l \in Static
      BY DEF Static
    <3>2. It(t) \in Left(l, t) /\ It(w) \in Left(l, w)
      BY <2>1, <2>2, <2>5 DEF In, Left, It, Control
    <3> QED
      BY <2>1, <3>1, <3>2, LeftInSlice, SlicesApart
  <2>7. CASE l = 2
    <3> DEFINE Tile(u) == TileCells(TileRow(It(u)), TileColumn(It(u)), SIZE_PI, DATA_CHUNKS)
    <3>1. \E p \in Tile(t) : \/ x[1] = "r" /\ x[2][1] = "keystream"
                             \/ x[2][1] = "vec" /\ x[2][2] = p[2] /\ x[2][3] = p[1]
      BY <2>4, <2>7, AccessesMean
    <3>2. \E q \in Tile(w) : \/ y[1] = "r" /\ y[2][1] = "keystream"
                             \/ y[2][1] = "vec" /\ y[2][2] = q[2] /\ y[2][3] = q[1]
      BY <2>3, <2>7, AccessesMean
    <3>3. It(t) # It(w)
      BY <2>1, <2>2, <2>5, <2>7, DoingMeans DEF Control, TeamInv
    <3>4. It(t) \in 0 .. Tiles - 1 /\ It(w) \in 0 .. Tiles - 1
      <4>1. \A u \in team : In(u, 2) => thread[u].next \in 0 .. Tiles - 1
        <5> SUFFICES ASSUME NEW u \in team, In(u, 2) PROVE thread[u].next \in 0 .. Tiles - 1
          OBVIOUS
        <5>1. u \in Thread /\ thread[u].loop = 2 /\ thread[u].next < thread[u].end
          BY <2>1 DEF In
        <5>2. thread[u].end <= tile /\ thread[u].next \in Nat /\ thread[u].end \in Nat
          BY <2>1, <5>1 DEF Control, ThreadInv
        <5> QED
          BY <2>1, <5>1, <5>2, TilesType DEF Control
      <4> QED
        BY <2>2, <2>5, <2>7, <4>1 DEF It
    <3>5. \A p \in Tile(t), q \in Tile(w) : ~(p[1] = q[1] /\ p[2] = q[2])
      BY <3>3, <3>4, TileOfCell
    <3> HIDE DEF Tile
    <3> QED
      BY <3>1, <3>2, <3>5
  <2>8. CASE l = 1
    <3>1. \/ x[2][1] = "keystream" /\ x[2][2] = It(t)
          \/ x[2][1] = "roundKeys"
      BY <2>4, <2>8, AccessesMean
    <3>2. \/ y[2][1] = "keystream" /\ y[2][2] = It(w)
          \/ y[2][1] = "roundKeys"
      BY <2>3, <2>8, AccessesMean
    <3>3. x[2][1] # "roundKeys"
      BY KeysKept DEF LoopsInv, KeptKey
    <3> QED
      BY <2>6, <2>8, <3>1, <3>2, <3>3
  <2>13. CASE l = 3
    BY <2>3, <2>4, <2>6, <2>13, AccessesMean
  <2>9. CASE l \in {4, 5}
    <3>1. \/ x[2][1] # "temp" /\ x[2][2] = It(t)
          \/ x[2][1] = "temp" /\ x[2][2] = t
      BY <2>4, <2>9, AccessesMean
    <3>2. \/ y[2][1] # "temp" /\ y[2][2] = It(w)
          \/ y[2][1] = "temp" /\ y[2][2] = w
      BY <2>3, <2>9, AccessesMean
    <3> QED
      BY <2>6, <2>9, <3>1, <3>2
  <2>10. CASE l \in {6, 8}
    <3>1. \/ x[2][1] # "colAccum" /\ x[2][2] = It(t)
          \/ x[2][1] = "colAccum" /\ x[2][2] = t
      BY <2>4, <2>10, AccessesMean
    <3>2. \/ y[2][1] # "colAccum" /\ y[2][2] = It(w)
          \/ y[2][1] = "colAccum" /\ y[2][2] = w
      BY <2>3, <2>10, AccessesMean
    <3> QED
      BY <2>6, <2>10, <3>1, <3>2
  <2>11. CASE l = 7
    <3>1. \/ x[1] = "r" /\ x[2][1] = "colAccum"
          \/ x[2][1] = "a" /\ x[2][2] = It(t)
      BY <2>4, <2>11, AccessesMean
    <3>2. \/ y[1] = "r" /\ y[2][1] = "colAccum"
          \/ y[2][1] = "a" /\ y[2][2] = It(w)
      BY <2>3, <2>11, AccessesMean
    <3> QED
      BY <2>6, <2>11, <3>1, <3>2
  <2>12. CASE l = 9
    <3>1. \/ x[1] = "r" /\ x[2][1] = "colAccum"
          \/ x[2][1] = "delta" /\ x[2][2] = inv_sub_pi(It(t))
      BY <2>4, <2>12, AccessesMean
    <3>2. \/ y[1] = "r" /\ y[2][1] = "colAccum"
          \/ y[2][1] = "delta" /\ y[2][2] = inv_sub_pi(It(w))
      BY <2>3, <2>12, AccessesMean
    <3>3. \A u \in team : In(u, 9) => It(u) \in Index
      <4> SUFFICES ASSUME NEW u \in team, In(u, 9) PROVE It(u) \in Index
        OBVIOUS
      <4>1. It(u) \in Left(9, u)
        BY <2>1 DEF In, Left, It, Control
      <4>2. 9 \in Static /\ Iterations(9) = SIZE_PI
        BY IterationFacts DEF Static
      <4> QED
        BY <2>1, <4>1, <4>2, LeftInSlice DEF Index
    <3>4. \A i \in Index : sub_pi[inv_sub_pi(i)] = i
      <4>1. sub_pi \in [Index -> Index] /\ \A i, j \in Index : sub_pi[i] = sub_pi[j] => i = j
        BY <2>1 DEF GivenInv, Permutation, Shift
      <4>2. \A i \in Index : \E j \in Index : sub_pi[j] = i
        BY <4>1, Sizes, InjectionOnto
      <4> QED
        BY <4>2 DEF inv_sub_pi
    <3>5. inv_sub_pi(It(t)) # inv_sub_pi(It(w))
      BY <2>2, <2>5, <2>6, <2>12, <3>3, <3>4
    <3> QED
      BY <3>1, <3>2, <3>5
  <2> QED
    BY <2>7, <2>8, <2>9, <2>10, <2>11, <2>12, <2>13
<1> QED
  BY <1>1, LoopsInvariant, PTL
=============================================================================
