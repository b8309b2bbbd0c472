--------------------------- MODULE XorWordsProofs ---------------------------
(***************************************************************************)
(* What the exclusive or of words and of families of words satisfies, and   *)
(* where rotations and permutations of a row take its entries.              *)
(***************************************************************************)
EXTENDS XorWords, FiniteSetTheorems, TLAPS

\* Words stay words under exclusive or (the ^ of two TYPE_DATA).
LEMMA XorType ==
    ASSUME NEW B, NEW v \in SUBSET B, NEW w \in SUBSET B
    PROVE  Xor(v, w) \in SUBSET B
BY DEF Xor

\* A bit is set in the sum when an odd number of the words has it.
LEMMA XorSumBit ==
    ASSUME NEW S, IsFiniteSet(S), NEW f, NEW e
    PROVE  /\ IsFiniteSet(With(f, S, e))
           /\ Cardinality(With(f, S, e)) \in Nat
           /\ e \in XorSum(f, S) <=> Cardinality(With(f, S, e)) % 2 = 1
<1> DEFINE A == With(f, S, e)
<1>1. IsFiniteSet(A) /\ Cardinality(A) \in Nat
  BY FS_Subset, FS_CardinalityType, A \in SUBSET S DEF With
<1>2. Cardinality(A) % 2 = 1 => e \in UNION {f[j] : j \in S}
  <2> SUFFICES ASSUME Cardinality(A) % 2 = 1
               PROVE  e \in UNION {f[j] : j \in S}
    OBVIOUS
  <2>1. Cardinality(A) # 0
    BY <1>1
  <2>2. A # {}
    BY <2>1, FS_EmptySet
  <2> QED
    BY <2>2 DEF With
<1> QED
  BY <1>1, <1>2 DEF XorSum

\* The sum of words of SUBSET B is one.
LEMMA XorSumType ==
    ASSUME NEW B, NEW S, NEW f, \A j \in S : f[j] \in SUBSET B
    PROVE  XorSum(f, S) \in SUBSET B
BY DEF XorSum

\* Equal families have equal sums.
LEMMA XorSumEqual ==
    ASSUME NEW S, NEW f, NEW g, \A j \in S : f[j] = g[j]
    PROVE  XorSum(f, S) = XorSum(g, S)
<1>1. {f[j] : j \in S} = {g[j] : j \in S}
  OBVIOUS
<1>2. ASSUME NEW e
      PROVE  With(f, S, e) = With(g, S, e)
  BY DEF With
<1> QED
  BY <1>1, <1>2 DEF XorSum

\* Replacing one word of a family changes the sum by the old and the new word.
LEMMA XorSumReplace ==
    ASSUME NEW S, IsFiniteSet(S), NEW f, NEW g, NEW p \in S,
           \A j \in S \ {p} : f[j] = g[j]
    PROVE  XorSum(g, S) = Xor(XorSum(f, S), Xor(f[p], g[p]))
<1> SUFFICES ASSUME NEW e
             PROVE  e \in XorSum(g, S) <=> e \in Xor(XorSum(f, S), Xor(f[p], g[p]))
  OBVIOUS
<1> DEFINE F == With(f, S, e)
           G == With(g, S, e)
           C == {j \in S \ {p} : e \in f[j]}
<1>0. /\ IsFiniteSet(F) /\ Cardinality(F) \in Nat
      /\ e \in XorSum(f, S) <=> Cardinality(F) % 2 = 1
  BY XorSumBit
<1>1. /\ IsFiniteSet(G) /\ Cardinality(G) \in Nat
      /\ e \in XorSum(g, S) <=> Cardinality(G) % 2 = 1
  BY XorSumBit
<1>2. IsFiniteSet(C) /\ Cardinality(C) \in Nat /\ p \notin C
  BY <1>0, FS_Subset, FS_CardinalityType, C \in SUBSET F DEF With
<1>3. Cardinality(F) = IF e \in f[p] THEN Cardinality(C) + 1 ELSE Cardinality(C)
  <2>1. CASE e \in f[p]
    <3>1. F = C \cup {p}
      BY <2>1 DEF With
    <3> QED
      BY <2>1, <3>1, <1>2, FS_AddElement
  <2>2. CASE e \notin f[p]
    <3>1. F = C
      BY <2>2 DEF With
    <3> QED
      BY <2>2, <3>1
  <2> QED
    BY <2>1, <2>2
<1>4. Cardinality(G) = IF e \in g[p] THEN Cardinality(C) + 1 ELSE Cardinality(C)
  <2>1. CASE e \in g[p]
    <3>1. G = C \cup {p}
      BY <2>1 DEF With
    <3> QED
      BY <2>1, <3>1, <1>2, FS_AddElement
  <2>2. CASE e \notin g[p]
    <3>1. G = C
      BY <2>2 DEF With
    <3> QED
      BY <2>2, <3>1
  <2> QED
    BY <2>1, <2>2
<1>5. e \in Xor(f[p], g[p]) <=> (e \in f[p] <=> e \notin g[p])
  BY DEF Xor
<1>6. e \in Xor(XorSum(f, S), Xor(f[p], g[p]))
         <=> (e \in XorSum(f, S) <=> e \notin Xor(f[p], g[p]))
  BY DEF Xor
<1>7. (Cardinality(F) % 2 = 1 <=> Cardinality(G) % 2 = 1)
         <=> (e \in f[p] <=> e \in g[p])
  <2> HIDE DEF F, G, C
  <2> DEFINE c == Cardinality(C)
  <2>1. c \in Nat
    BY <1>2
  <2>2. (c + 1) % 2 = 1 <=> c % 2 # 1
    <3> HIDE DEF c
    <3> QED BY <2>1
  <2> QED
    BY <1>3, <1>4, <2>2
<1> QED
  BY <1>0, <1>1, <1>5, <1>6, <1>7
\* Sums over disjoint sets add up.
LEMMA XorSumUnion ==
    ASSUME NEW f, NEW A, NEW B, IsFiniteSet(A), IsFiniteSet(B), A \cap B = {}
    PROVE  XorSum(f, A \cup B) = Xor(XorSum(f, A), XorSum(f, B))
<1> SUFFICES ASSUME NEW e
             PROVE  e \in XorSum(f, A \cup B) <=> e \in Xor(XorSum(f, A), XorSum(f, B))
  OBVIOUS
<1>1. IsFiniteSet(A \cup B)
  BY FS_Union
<1> DEFINE x == Cardinality(With(f, A, e))
           y == Cardinality(With(f, B, e))
           z == Cardinality(With(f, A \cup B, e))
<1>2. /\ x \in Nat /\ (e \in XorSum(f, A) <=> x % 2 = 1)
      /\ y \in Nat /\ (e \in XorSum(f, B) <=> y % 2 = 1)
      /\ z \in Nat /\ (e \in XorSum(f, A \cup B) <=> z % 2 = 1)
  BY <1>1, XorSumBit
<1>3. z = x + y
  <2>1. IsFiniteSet(With(f, A, e)) /\ IsFiniteSet(With(f, B, e))
    BY XorSumBit
  <2>2. With(f, A \cup B, e) = With(f, A, e) \cup With(f, B, e)
    BY DEF With
  <2>3. With(f, A, e) \cap With(f, B, e) = {}
    BY DEF With
  <2>4. Cardinality({}) = 0
    BY FS_EmptySet
  <2> DEFINE X == With(f, A, e)
             Y == With(f, B, e)
  <2> HIDE DEF X, Y
  <2>5. Cardinality(X \cup Y) = Cardinality(X) + Cardinality(Y) - Cardinality(X \cap Y)
    BY <2>1, FS_Union DEF X, Y
  <2>6. Cardinality(X) = x /\ Cardinality(Y) = y /\ Cardinality(X \cup Y) = z
        /\ Cardinality(X \cap Y) = 0
    BY <2>2, <2>3, <2>4 DEF X, Y
  <2> HIDE DEF x, y, z
  <2> QED
    BY <1>2, <2>5, <2>6
<1> HIDE DEF x, y, z
<1>4. (z % 2 = 1) <=> ~((x % 2 = 1) <=> (y % 2 = 1))
  BY <1>2, <1>3
<1> QED
  BY <1>2, <1>4 DEF Xor

\* The sum of one word is the word.
LEMMA XorSumOne ==
    ASSUME NEW f, NEW p
    PROVE  XorSum(f, {p}) = f[p]
<1> SUFFICES ASSUME NEW e
             PROVE  e \in XorSum(f, {p}) <=> e \in f[p]
  OBVIOUS
<1>1. IsFiniteSet({p})
  BY FS_Singleton
<1>2. e \in XorSum(f, {p}) <=> Cardinality(With(f, {p}, e)) % 2 = 1
  BY <1>1, XorSumBit
<1>3. CASE e \in f[p]
  <2>1. With(f, {p}, e) = {p}
    BY <1>3 DEF With
  <2> QED
    BY <1>2, <1>3, <2>1, FS_Singleton
<1>4. CASE e \notin f[p]
  <2>1. With(f, {p}, e) = {}
    BY <1>4 DEF With
  <2> QED
    BY <1>2, <1>4, <2>1, FS_EmptySet
<1> QED
  BY <1>3, <1>4

\* Two sums over sets that differ in one index differ in its word: what the
\* two answers of a retrieval add up to (getSharedVector of the client).
LEMMA XorSumShares ==
    ASSUME NEW f, NEW R, IsFiniteSet(R), NEW p
    PROVE  Xor(XorSum(f, R), XorSum(f, Xor(R, {p}))) = f[p]
<1>1. CASE p \in R
  <2> DEFINE Q == R \ {p}
  <2>1. Xor(R, {p}) = Q
    BY <1>1 DEF Xor
  <2>2. IsFiniteSet(Q) /\ IsFiniteSet({p}) /\ Q \cap {p} = {} /\ Q \cup {p} = R
    BY <1>1, FS_Subset, FS_Singleton
  <2> HIDE DEF Q
  <2>3. XorSum(f, R) = Xor(XorSum(f, Q), f[p])
    BY <2>2, XorSumUnion, XorSumOne
  <2> QED
    BY <2>1, <2>3 DEF Xor
<1>2. CASE p \notin R
  <2>1. Xor(R, {p}) = R \cup {p}
    BY <1>2 DEF Xor
  <2>2. IsFiniteSet({p}) /\ R \cap {p} = {}
    BY <1>2, FS_Singleton
  <2>3. XorSum(f, R \cup {p}) = Xor(XorSum(f, R), f[p])
    BY <2>2, XorSumUnion, XorSumOne
  <2> QED
    BY <2>1, <2>3 DEF Xor
<1> QED
  BY <1>1, <1>2

-----------------------------------------------------------------------------
\* The remainder of a number below 2 * n, as the shifts compute it.
LEMMA ModOnce ==
    ASSUME NEW n \in Nat \ {0}, NEW x \in 0 .. 2 * n - 1
    PROVE  x % n = IF x < n THEN x ELSE x - n
<1>1. CASE x < n
  BY <1>1
<1>2. CASE x >= n
  <2>1. x - n \in 0 .. n - 1
    BY <1>2
  <2>2. (x - n) % n = x - n
    BY <2>1
  <2>3. x % n = (x - n) % n
    BY <1>2, Z3
  <2> QED
    BY <1>2, <2>2, <2>3
<1> QED
  BY <1>1, <1>2

\* The column an entry of a rotated row comes from.
LEMMA RotatedIndex ==
    ASSUME NEW n \in Nat \ {0}, NEW j \in 0 .. n - 1, NEW c \in 0 .. n - 1
    PROVE  /\ (j - c + n) % n = IF j < c THEN j - c + n ELSE j - c
           /\ (j - c + n) % n \in 0 .. n - 1
<1> DEFINE x == j - c + n
<1>1. x \in 0 .. 2 * n - 1
  OBVIOUS
<1>2. x % n = IF x < n THEN x ELSE x - n
  <2> HIDE DEF x
  <2> QED
    BY <1>1, ModOnce
<1> QED
  BY <1>2

\* An injection of a finite set into itself is onto.
LEMMA InjectionOnto ==
    ASSUME NEW S, IsFiniteSet(S), NEW p \in [S -> S],
           \A i, j \in S : p[i] = p[j] => i = j,
           NEW k \in S
    PROVE  \E i \in S : p[i] = k
<1>1. p \in Injection(S, S)
  BY DEF Injection, IsInjective
<1>2. p \in Surjection(S, S)
  BY <1>1, FS_Injection
<1> QED
  BY <1>2 DEF Surjection
=============================================================================
