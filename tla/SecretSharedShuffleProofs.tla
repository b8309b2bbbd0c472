--------------------- MODULE SecretSharedShuffleProofs ---------------------
(***************************************************************************)
(* What one eviction on the two servers achieves, for every number of       *)
(* entries, every width of a word and every interleaving: TypeOK, the       *)
(* inductive invariant ShuffleInv, and from it the properties the runs      *)
(* check on small vectors.                                                  *)
(***************************************************************************)
EXTENDS SecretSharedShuffle, XorWordsProofs

(***************************************************************************)
(* What the operators compute: the two shares of the permutation compose to *)
(* it; a circular shift moves the punctured column of every row to its      *)
(* place and changes nothing else; the correction delta computed from the   *)
(* punctured matrix equals the one of the full matrix; and the masks of the *)
(* two servers cancel.                                                      *)
(***************************************************************************)
\* The vector has entries.
LEMMA SizePositive == SIZE_PI \in Nat \ {0}
BY ShuffleAssumption

\* The vector has finitely many entries.
LEMMA IndexFinite == IsFiniteSet(Index)
BY SizePositive, FS_Interval DEF Index

-----------------------------------------------------------------------------
\* A permutation of the entries reaches every entry.
LEMMA PermutationOnto ==
    ASSUME NEW p \in Permutation, NEW k \in Index
    PROVE  \E i \in Index : p[i] = k
BY IndexFinite, InjectionOnto DEF Permutation, Shift

\* createSubPermutation: the second share is a permutation, and the two
\* shares, one after the other, are the permutation of the eviction.
LEMMA SharesCompose ==
    ASSUME NEW p \in Permutation, NEW p0 \in Permutation
    PROVE  /\ SecondShare(p, p0) \in Permutation
           /\ \A i \in Index : p0[SecondShare(p, p0)[i]] = p[i]
<1> DEFINE q == SecondShare(p, p0)
<1>1. \A i \in Index : p[i] \in Index
  BY DEF Permutation, Shift
<1>2. ASSUME NEW i \in Index
      PROVE  q[i] \in Index /\ p0[q[i]] = p[i]
  <2>1. \E j \in Index : p0[j] = p[i]
    BY <1>1, PermutationOnto
  <2>2. q[i] = CHOOSE j \in Index : p0[j] = p[i]
    BY DEF SecondShare
  <2> QED
    BY <2>1, <2>2
<1>3. q \in Shift
  <2>1. q = [i \in Index |-> q[i]]
    BY DEF SecondShare
  <2> HIDE DEF q
  <2> QED
    BY <1>2, <2>1 DEF Shift
<1>4. \A i, j \in Index : q[i] = q[j] => i = j
  <2> HIDE DEF q
  <2> QED
    BY <1>2 DEF Permutation
<1> QED
  BY <1>2, <1>3, <1>4 DEF Permutation

-----------------------------------------------------------------------------
\* The column an entry of a rotated row comes from.
LEMMA RotateSource ==
    ASSUME NEW j \in Index, NEW c \in Index
    PROVE  /\ (j - c + SIZE_PI) % SIZE_PI = IF j < c THEN j - c + SIZE_PI ELSE j - c
           /\ (j - c + SIZE_PI) % SIZE_PI \in Index
BY SizePositive, RotatedIndex DEF Index

\* A circular shift is a shift.
LEMMA CircularShiftType ==
    ASSUME NEW p \in Shift, NEW v \in Shift
    PROVE  CircularShift(p, v) \in Shift
<1>1. ASSUME NEW i \in Index
      PROVE  (p[i] - v[i] + SIZE_PI) % SIZE_PI \in Index
  BY RotateSource DEF Shift
<1> QED
  BY <1>1 DEF CircularShift, Shift

\* In a row shifted by CircularShift(p, v), column v[i] lands in p[i], and no
\* other column does.
LEMMA ShiftAligns ==
    ASSUME NEW p \in Shift, NEW v \in Shift, NEW i \in Index, NEW j \in Index
    PROVE  (j - CircularShift(p, v)[i] + SIZE_PI) % SIZE_PI = v[i] <=> j = p[i]
<1> DEFINE c == CircularShift(p, v)[i]
<1>1. p[i] \in Index /\ v[i] \in Index
  BY DEF Shift
<1>2. c = IF p[i] < v[i] THEN p[i] - v[i] + SIZE_PI ELSE p[i] - v[i]
  <2>1. c = (p[i] - v[i] + SIZE_PI) % SIZE_PI
    BY DEF CircularShift
  <2> QED
    BY <1>1, <2>1, RotateSource
<1>3. c \in Index
  BY <1>1, <1>2, SizePositive DEF Index
<1>4. (j - c + SIZE_PI) % SIZE_PI = IF j < c THEN j - c + SIZE_PI ELSE j - c
  BY <1>3, RotateSource
<1> DEFINE x == (j - c + SIZE_PI) % SIZE_PI
           pi == p[i]
           vi == v[i]
<1> HIDE DEF c, x, pi, vi
<1>5. x = IF j < c THEN j - c + SIZE_PI ELSE j - c
  BY <1>4 DEF x
<1>6. /\ c = IF pi < vi THEN pi - vi + SIZE_PI ELSE pi - vi
      /\ pi \in Index /\ vi \in Index
  BY <1>1, <1>2 DEF pi, vi
<1>7. x = vi <=> j = pi
  BY <1>3, <1>5, <1>6, SizePositive DEF Index
<1> QED
  BY <1>7 DEF c, x, pi, vi

-----------------------------------------------------------------------------
\* A matrix m rotated so that its columns v[i] stand at p[i].
Aligned(m, p, v) == Rotate(m, CircularShift(p, v))

\* initialize() makes a matrix of matrices and columns.
LEMMA PunctureType ==
    ASSUME NEW m \in Matrix, NEW v \in Shift
    PROVE  Puncture(m, v) \in Matrix
BY ShuffleAssumption DEF Puncture, Matrix, Vector, Word

\* efficient_rotate() makes a matrix of a matrix.
LEMMA RotateType ==
    ASSUME NEW m \in Matrix, NEW c \in Shift
    PROVE  Rotate(m, c) \in Matrix
<1>1. ASSUME NEW i \in Index, NEW j \in Index
      PROVE  m[i][(j - c[i] + SIZE_PI) % SIZE_PI] \in Word
  BY RotateSource DEF Shift, Matrix, Vector
<1> QED
  BY <1>1 DEF Rotate, Matrix, Vector

\* A row sum and a column sum of a matrix are words.
LEMMA SumTypes ==
    ASSUME NEW m \in Matrix, NEW i \in Index
    PROVE  RowSum(m, i) \in Word /\ ColumnSum(m, i) \in Word
<1>1. \A j \in Index : m[i][j] \in SUBSET Bit /\ m[j][i] \in SUBSET Bit
  BY DEF Matrix, Vector, Word
<1>2. XorSum(m[i], Index) \in SUBSET Bit
  BY <1>1, XorSumType
<1>3. XorSum([j \in Index |-> m[j][i]], Index) \in SUBSET Bit
  <2> DEFINE f == [j \in Index |-> m[j][i]]
  <2>1. \A j \in Index : f[j] \in SUBSET Bit
    BY <1>1
  <2> HIDE DEF f
  <2>2. XorSum(f, Index) \in SUBSET Bit
    BY <2>1, XorSumType
  <2> QED
    BY <2>2 DEF f
<1> QED
  BY <1>2, <1>3 DEF RowSum, ColumnSum, Word

\* The matrix a server has rotated differs from the full one only where the
\* permutation points.
LEMMA AlignedPuncture ==
    ASSUME NEW m \in Matrix, NEW p \in Shift, NEW v \in Shift,
           NEW i \in Index, NEW j \in Index
    PROVE  Aligned(Puncture(m, v), p, v)[i][j]
             = IF j = p[i] THEN Zero ELSE Aligned(m, p, v)[i][j]
<1> DEFINE k == (j - CircularShift(p, v)[i] + SIZE_PI) % SIZE_PI
<1>1. k \in Index
  BY CircularShiftType, RotateSource DEF Shift
<1>2. k = v[i] <=> j = p[i]
  BY ShiftAligns
<1>3. /\ Aligned(m, p, v)[i][j] = m[i][k]
      /\ Aligned(Puncture(m, v), p, v)[i][j] = Puncture(m, v)[i][k]
  BY DEF Aligned, Rotate
<1> HIDE DEF k
<1>4. Puncture(m, v)[i][k] = IF k = v[i] THEN Zero ELSE m[i][k]
  BY <1>1 DEF Puncture
<1> QED
  BY <1>2, <1>3, <1>4

\* The correction of thread "delta" in ServerDuetORAM::evict: the entries the
\* punctured matrix lacks are in one row sum and one column sum each, and
\* cancel.
LEMMA DeltaIdentity ==
    ASSUME NEW m \in Matrix, NEW p \in Permutation, NEW v \in Shift, NEW i \in Index
    PROVE  Xor(RowSum(Aligned(Puncture(m, v), p, v), i),
               ColumnSum(Aligned(Puncture(m, v), p, v), p[i]))
             = Xor(RowSum(Aligned(m, p, v), i), ColumnSum(Aligned(m, p, v), p[i]))
<1> DEFINE M == Aligned(m, p, v)
           Q == Aligned(Puncture(m, v), p, v)
           d == Xor(M[i][p[i]], Zero)
           f == [j \in Index |-> M[j][p[i]]]
           g == [j \in Index |-> Q[j][p[i]]]
<1>1. p \in Shift /\ p[i] \in Index /\ \A j \in Index : p[j] = p[i] => j = i
  BY DEF Permutation, Shift
<1>2. \A k, j \in Index : Q[k][j] = IF j = p[k] THEN Zero ELSE M[k][j]
  BY <1>1, AlignedPuncture
<1> HIDE DEF M, Q
<1>3. XorSum(Q[i], Index) = Xor(XorSum(M[i], Index), d)
  <2> DEFINE r == M[i]
             q == Q[i]
             k == p[i]
  <2>1. k \in Index /\ q[k] = Zero /\ \A j \in Index \ {k} : r[j] = q[j]
    BY <1>1, <1>2
  <2>2. Xor(r[k], q[k]) = d
    BY <2>1
  <2> HIDE DEF r, q, k
  <2>3. XorSum(q, Index) = Xor(XorSum(r, Index), Xor(r[k], q[k]))
    BY <2>1, IndexFinite, XorSumReplace
  <2> QED
    BY <2>2, <2>3 DEF r, q
<1>4. XorSum(g, Index) = Xor(XorSum(f, Index), d)
  <2>1. \A j \in Index \ {i} : f[j] = g[j]
    BY <1>1, <1>2
  <2>2. f[i] = M[i][p[i]] /\ g[i] = Zero
    BY <1>1, <1>2
  <2> HIDE DEF f, g
  <2>3. XorSum(g, Index) = Xor(XorSum(f, Index), Xor(f[i], g[i]))
    BY <2>1, IndexFinite, XorSumReplace
  <2> QED
    BY <2>2, <2>3
<1>5. \A x, y, z : Xor(Xor(x, z), Xor(y, z)) = Xor(x, y)
  BY DEF Xor
<1> HIDE DEF d
<1> QED
  BY <1>3, <1>4, <1>5 DEF RowSum, ColumnSum, M, Q

\* What server 0 sends to server 1: the masks of server 1 have cancelled, the
\* block is the one the first share points to.
LEMMA MaskedOnce ==
    ASSUME NEW a0, NEW a1, NEW b1, NEW x, NEW v0, NEW v1, Xor(v0, v1) = x
    PROVE  Xor(a0, Xor(Xor(b1, a1), Xor(Xor(a1, v1), v0))) = Xor(a0, Xor(b1, x))
BY DEF Xor

\* What server 1 ends up with: the block, under the result of server 0.
LEMMA MaskedTwice ==
    ASSUME NEW a0, NEW b0, NEW b1, NEW x
    PROVE  Xor(Xor(b0, a0), Xor(Xor(a0, Xor(b1, x)), b1)) = Xor(b0, x)
BY DEF Xor

\* The exchange: the result of server 0 cancels, in either order.
LEMMA ExchangeCancels ==
    ASSUME NEW b0, NEW x, NEW n0, NEW n1
    PROVE  /\ Xor(Xor(b0, n0), Xor(Xor(b0, x), n1)) = Xor(x, Xor(n0, n1))
           /\ Xor(Xor(Xor(b0, x), n1), Xor(b0, n0)) = Xor(x, Xor(n0, n1))
BY DEF Xor

-----------------------------------------------------------------------------

\* The vector of empty words is a vector.
LEMMA NoVectorType == NoVector \in Vector
BY DEF NoVector, Vector, Word

\* The matrix of empty words is a matrix.
LEMMA NoMatrixType == NoMatrix \in Matrix
BY NoVectorType DEF NoMatrix, Matrix

\* The exclusive or of two vectors is a vector (thread_xorProduct_func, the masks).
LEMMA XorVectorType ==
    ASSUME NEW v \in Vector, NEW w \in Vector
    PROVE  XorVector(v, w) \in Vector
<1>1. \A i \in Index : Xor(v[i], w[i]) \in Word
  BY XorType DEF Vector, Word
<1>2. DOMAIN v = Index
  BY DEF Vector
<1> QED
  BY <1>1, <1>2 DEF XorVector, Vector

\* thread_dotProduct_local_func makes a vector of vectors.
LEMMA LocalFuncType ==
    ASSUME NEW p \in Shift, NEW d \in Vector, NEW v \in Vector, NEW w \in Vector
    PROVE  LocalFunc(p, d, v, w) \in Vector
<1>1. \A i \in Index : Xor(d[i], Xor(v[p[i]], w[p[i]])) \in Word
  <2> SUFFICES ASSUME NEW i \in Index
               PROVE  Xor(d[i], Xor(v[p[i]], w[p[i]])) \in Word
    OBVIOUS
  <2>1. d[i] \in Word /\ v[p[i]] \in Word /\ w[p[i]] \in Word
    BY DEF Vector, Shift
  <2> QED
    BY <2>1, XorType DEF Word
<1> QED
  BY <1>1 DEF LocalFunc, Vector

\* The row and the column sums of a matrix are vectors.
LEMMA SumsTypes ==
    ASSUME NEW m \in Matrix
    PROVE  RowSums(m) \in Vector /\ ColumnSums(m) \in Vector
BY SumTypes DEF RowSums, ColumnSums, Vector

\* The vector of corrections delta is one.
LEMMA DeltaType ==
    ASSUME NEW m \in Matrix, NEW p \in Shift
    PROVE  [i \in Index |-> Xor(RowSum(m, i), ColumnSum(m, p[i]))] \in Vector
<1>1. \A i \in Index : Xor(RowSum(m, i), ColumnSum(m, p[i])) \in Word
  BY SumTypes, XorType DEF Shift, Word
<1> QED
  BY <1>1 DEF Vector

\* What a server puts in the vector before the shuffle is a vector.
LEMMA ShuffleInputType ==
    ASSUME NEW s \in Server, TypeOK
    PROVE  ShuffleInput(s) \in Vector
<1>1. keystream[0] \in Vector /\ keystream[1] \in Vector /\ stored[1] \in Vector
  BY DEF TypeOK, Server
<1> QED
  BY <1>1, XorVectorType DEF ShuffleInput

-----------------------------------------------------------------------------
\* The type invariant holds when the eviction starts.
LEMMA InitTypeOK == Init => TypeOK
<1> SUFFICES ASSUME Init
             PROVE  TypeOK
  OBVIOUS
<1>1. sub_pi \in [Server -> Permutation]
  <2>1. PICK pi_1 \in Permutation :
            sub_pi = [s \in Server |-> IF s = 0 THEN pi_1 ELSE SecondShare(evict_pi, pi_1)]
    BY DEF Init
  <2>2. SecondShare(evict_pi, pi_1) \in Permutation
    BY SharesCompose DEF Init
  <2> QED
    BY <2>1, <2>2
<1>2. /\ vec \in [Server -> Vector] /\ full \in [Server -> Matrix]
      /\ punctured \in [Server -> Matrix]
  BY NoVectorType, NoMatrixType DEF Init
<1> QED
  BY <1>1, <1>2 DEF Init, TypeOK, ServerPC

\* A message of the right kind keeps the network one of messages.
LEMMA MessageTyped ==
    ASSUME NEW s \in Server, NEW t \in MessageType, NEW v \in Vector
    PROVE  Message(s, t, v) \in [to : Server, type : MessageType, body : Vector]
BY DEF Message

\* Every step of the client, a server or a thread keeps the type invariant.
LEMMA NextTypeOK == TypeOK /\ [Next]_vars => TypeOK'
<1> SUFFICES ASSUME TypeOK, [Next]_vars
             PROVE  TypeOK'
  OBVIOUS
<1> USE NoVectorType
<1> DEFINE Messages == [to : Server, type : MessageType, body : Vector]
<1>1. ASSUME NEW s \in Server, ClientStep(s)
      PROVE  TypeOK'
  <2>1. net' \subseteq Messages
    BY <1>1, MessageTyped DEF ClientStep, ClientSendInit, ClientInitAck,
       ClientSendEvict, ClientEvictAck, Reply, TypeOK, MessageType
  <2>2. ct' \in [Server -> {"init", "initWait", "ready", "evictWait", "done"}]
    BY <1>1 DEF ClientStep, ClientSendInit, ClientInitAck,
       ClientSendEvict, ClientEvictAck, TypeOK
  <2>3. UNCHANGED <<chosen, disk, memory, threads>>
    BY <1>1 DEF ClientStep, ClientSendInit, ClientInitAck,
       ClientSendEvict, ClientEvictAck
  <2> QED
    BY <2>1, <2>2, <2>3 DEF TypeOK, chosen, disk, memory, threads
<1>2. ASSUME NEW s \in Server, RecvInit(s)
      PROVE  TypeOK'
  <2>1. Other(s) \in Server
    BY DEF Other, Server
  <2>2. random[Other(s)] \in Matrix /\ Puncture(random[s], u[s]) \in Matrix
    BY <2>1, PunctureType DEF TypeOK
  <2>3. full' \in [Server -> Matrix] /\ punctured' \in [Server -> Matrix]
    BY <1>2, <2>2 DEF RecvInit, TypeOK
  <2>4. net' \subseteq Messages
    BY <1>2, MessageTyped DEF RecvInit, Reply, TypeOK, MessageType
  <2> QED
    BY <1>2, <2>3, <2>4 DEF RecvInit, TypeOK, chosen, disk, threads
<1>3. ASSUME NEW s \in Server, RecvEvict(s)
      PROVE  TypeOK'
  <2>1. Other(s) \in Server
    BY DEF Other, Server
  <2>2. \A t \in Server : sub_pi[t] \in Shift /\ u[t] \in Shift
    BY DEF TypeOK, Permutation
  <2>3. /\ full'[s] = Rotate(full[s], CircularShift(sub_pi[Other(s)], u[Other(s)]))
        /\ punctured'[s] = Rotate(punctured[s], CircularShift(sub_pi[s], u[s]))
    BY <1>3 DEF RecvEvict, TypeOK
  <2>4. full'[s] \in Matrix /\ punctured'[s] \in Matrix
    BY <2>1, <2>2, <2>3, CircularShiftType, RotateType DEF TypeOK
  <2>5. full' \in [Server -> Matrix] /\ punctured' \in [Server -> Matrix]
    BY <1>3, <2>3, <2>4 DEF RecvEvict, TypeOK
  <2>6. a' \in [Server -> Vector] /\ b' \in [Server -> Vector]
    BY <1>3, <2>4, SumsTypes DEF RecvEvict, TypeOK
  <2>7. delta' \in [Server -> Vector]
    <3> DEFINE d == [i \in Index |-> Xor(RowSum(punctured'[s], i),
                                         ColumnSum(punctured'[s], sub_pi[s][i]))]
    <3>1. d \in Vector
      BY <2>2, <2>4, DeltaType
    <3>2. delta' = [delta EXCEPT ![s] = d]
      BY <1>3 DEF RecvEvict
    <3> HIDE DEF d
    <3> QED
      BY <3>1, <3>2 DEF TypeOK
  <2>8. vec' \in [Server -> Vector]
    BY <1>3, ShuffleInputType DEF RecvEvict, TypeOK
  <2>9. net' \subseteq Messages /\ pc' \in [Server -> ServerPC]
    BY <1>3 DEF RecvEvict, Reply, TypeOK, ServerPC
  <2> QED
    BY <1>3, <2>5, <2>6, <2>7, <2>8, <2>9 DEF RecvEvict, TypeOK, chosen, disk
<1>4. ASSUME NEW s \in Server, WriteBack(s)
      PROVE  TypeOK'
  <2>1. XorVector(xored[s], received[s]) \in Vector
    BY XorVectorType DEF TypeOK
  <2>2. xored' \in [Server -> Vector] /\ stored' \in [Server -> Vector]
    BY <1>4, <2>1 DEF WriteBack, TypeOK
  <2>3. keystream' \in [Server -> Vector]
    BY <1>4 DEF WriteBack, TypeOK
  <2>4. net' \subseteq Messages
    BY <1>4, MessageTyped DEF WriteBack, TypeOK, MessageType
  <2>5. /\ pc' \in [Server -> ServerPC]
        /\ sender' \in [Server -> {"off", "send", "wait", "done"}]
        /\ listener' \in [Server -> {"off", "recv", "done"}]
    BY <1>4 DEF WriteBack, TypeOK, ServerPC
  <2> QED
    BY <1>4, <2>2, <2>3, <2>4, <2>5 DEF WriteBack, TypeOK, chosen
<1>5. ASSUME NEW s \in Server, SendVector(s) \/ ReceiveVector(s) \/ VectorAck(s)
      PROVE  TypeOK'
  <2>1. Other(s) \in Server
    BY DEF Other, Server
  <2>2. net' \subseteq Messages
    BY <1>5, <2>1, MessageTyped
       DEF SendVector, ReceiveVector, VectorAck, Reply, TypeOK, MessageType
  <2>3. received' \in [Server -> Vector]
    BY <1>5 DEF SendVector, ReceiveVector, VectorAck, TypeOK, memory
  <2>4. /\ sender' \in [Server -> {"off", "send", "wait", "done"}]
        /\ listener' \in [Server -> {"off", "recv", "done"}]
    BY <1>5 DEF SendVector, ReceiveVector, VectorAck, TypeOK
  <2>5. UNCHANGED <<chosen, disk, full, punctured, vec, a, b, delta, xored, ct, pc>>
    BY <1>5 DEF SendVector, ReceiveVector, VectorAck, memory
  <2> QED
    BY <2>2, <2>3, <2>4, <2>5 DEF TypeOK, chosen, disk
<1>6. ASSUME ShareCmd \/ ShareOk \/ SendMasked \/ SendLocal
      PROVE  TypeOK'
  <2>1. MaskFunc(a[1], vec[1]) \in Vector
    BY XorVectorType DEF MaskFunc, TypeOK, Server
  <2>2. ASSUME NEW v \in Vector
        PROVE  MaskFunc(a[0], LocalFunc(sub_pi[0], delta[0], v, vec[0])) \in Vector
    <3>1. sub_pi[0] \in Shift /\ delta[0] \in Vector /\ vec[0] \in Vector /\ a[0] \in Vector
      BY DEF TypeOK, Permutation, Server
    <3> QED
      BY <3>1, LocalFuncType, XorVectorType DEF MaskFunc
  <2>3. net' \subseteq Messages
    <3>1. CASE ShareCmd \/ ShareOk \/ SendMasked
      BY <3>1, <2>1, MessageTyped
         DEF ShareCmd, ShareOk, SendMasked, Reply, TypeOK, MessageType, Server
    <3>2. CASE SendLocal
      <4>1. PICK m \in net :
                Reply(m, {Message(1, "local",
                    MaskFunc(a[0], LocalFunc(sub_pi[0], delta[0], m.body, vec[0])))})
        BY <3>2 DEF SendLocal
      <4>2. m.body \in Vector
        BY DEF TypeOK
      <4>3. Message(1, "local",
                MaskFunc(a[0], LocalFunc(sub_pi[0], delta[0], m.body, vec[0]))) \in Messages
        BY <2>2, <4>2, MessageTyped DEF MessageType, Server
      <4> QED
        BY <4>1, <4>3 DEF Reply, TypeOK
    <3> QED
      BY <1>6, <3>1, <3>2
  <2>4. pc' \in [Server -> ServerPC]
    BY <1>6 DEF ShareCmd, ShareOk, SendMasked, SendLocal, TypeOK, ServerPC
  <2>5. UNCHANGED <<chosen, disk, memory, ct, sender, listener>>
    BY <1>6 DEF ShareCmd, ShareOk, SendMasked, SendLocal
  <2> QED
    BY <2>3, <2>4, <2>5 DEF TypeOK, chosen, disk, memory
<1>7. ASSUME NEW s \in Server, NEW r \in Vector, StartExchange(s, r),
             net' \subseteq Messages,
             UNCHANGED <<chosen, disk, full, punctured, vec, a, b, delta, received, ct>>
      PROVE  TypeOK'
  <2>1. XorVector(r, newStream[s]) \in Vector
    BY XorVectorType DEF TypeOK
  <2>2. /\ xored' \in [Server -> Vector] /\ pc' \in [Server -> ServerPC]
        /\ sender' \in [Server -> {"off", "send", "wait", "done"}]
        /\ listener' \in [Server -> {"off", "recv", "done"}]
    BY <1>7, <2>1 DEF StartExchange, TypeOK, ServerPC
  <2> QED
    BY <1>7, <2>2 DEF TypeOK, chosen, disk
<1>8. CASE FinishShare1
  <2>1. PICK m \in net : /\ Reply(m, {Message(0, "finished", NoVector)})
                         /\ StartExchange(1, LocalFunc(sub_pi[1], delta[1], m.body, b[1]))
    BY <1>8 DEF FinishShare1
  <2>2. LocalFunc(sub_pi[1], delta[1], m.body, b[1]) \in Vector
    BY LocalFuncType DEF TypeOK, Permutation, Server
  <2>3. net' \subseteq Messages
    BY <2>1, MessageTyped DEF Reply, TypeOK, MessageType, Server
  <2>4. UNCHANGED <<chosen, disk, full, punctured, vec, a, b, delta, received, ct>>
    BY <1>8 DEF FinishShare1
  <2> QED
    BY <2>1, <2>2, <2>3, <2>4, <1>7 DEF Server
<1>9. CASE FinishShare0
  <2>1. net' \subseteq Messages /\ b[0] \in Vector
    BY <1>9 DEF FinishShare0, Reply, TypeOK, Server
  <2> QED
    BY <1>9, <2>1, <1>7 DEF FinishShare0, Server
<1>10. CASE UNCHANGED vars
  BY <1>10 DEF TypeOK, vars, chosen, disk, memory, threads
<1> QED
  BY <1>1, <1>2, <1>3, <1>4, <1>5, <1>6, <1>8, <1>9, <1>10
     DEF Next, ServerStep, ShareStep, Finished

\* Every variable of an eviction keeps its type.
THEOREM TypeCorrect == Spec => []TypeOK
BY InitTypeOK, NextTypeOK, PTL DEF Spec

-----------------------------------------------------------------------------
\* What is computed from the choices of the client alone never changes.
LEMMA ChosenFixed ==
    ASSUME UNCHANGED chosen
    PROVE  /\ \A s \in Server : /\ SumA(s)' = SumA(s) /\ SumB(s)' = SumB(s)
                               /\ DeltaOf(s)' = DeltaOf(s) /\ Result(s)' = Result(s)
                               /\ (random[s])' = random[s]
                               /\ Puncture(random[s], u[s])' = Puncture(random[s], u[s])
           /\ LocalBody' = LocalBody
           /\ Shuffled' = Shuffled
           /\ plain' = plain
           /\ newStream' = newStream
           /\ evict_pi' = evict_pi
           /\ sub_pi' = sub_pi
BY DEF chosen, SumA, SumB, DeltaOf, Result, Rotated, LocalBody, Shuffled, Puncture,
       ColumnSums, RowSums, ColumnSum, RowSum, Rotate, CircularShift

\* The inductive invariant holds when the eviction starts.
LEMMA InitShuffleInv == Init => ShuffleInv
<1> SUFFICES ASSUME Init
             PROVE  ShuffleInv
  OBVIOUS
<1>1. \A m \in net : MessageInv(m)
  BY DEF Init
<1>2. ASSUME NEW s \in Server
      PROVE  ServerInv(s) /\ ~Begun(s)
  BY DEF Init, ServerInv, Begun
<1>3. XorVector(Share(0), Share(1)) = plain
  <2> DEFINE k0 == keystream[0]
             k1 == keystream[1]
  <2>1. k0 \in Vector /\ k1 \in Vector /\ plain \in Vector
    BY DEF Init, Server
  <2>2. Share(0) = k0 /\ Share(1) = XorVector(k1, XorVector(plain, XorVector(k0, k1)))
    BY <1>2 DEF Init, Share, ShuffleInput, Server
  <2> HIDE DEF k0, k1
  <2>3. /\ DOMAIN k0 = Index /\ DOMAIN k1 = Index /\ DOMAIN plain = Index
        /\ plain = [i \in Index |-> plain[i]]
    BY <2>1 DEF Vector
  <2>4. \A i \in Index : Xor(k0[i], Xor(k1[i], Xor(plain[i], Xor(k0[i], k1[i])))) = plain[i]
    BY DEF Xor
  <2> QED
    BY <2>2, <2>3, <2>4 DEF XorVector
<1>4. \A i \in Index : sub_pi[0][sub_pi[1][i]] = evict_pi[i]
  <2>1. PICK pi_1 \in Permutation :
            sub_pi = [s \in Server |-> IF s = 0 THEN pi_1 ELSE SecondShare(evict_pi, pi_1)]
    BY DEF Init
  <2>2. sub_pi[0] = pi_1 /\ sub_pi[1] = SecondShare(evict_pi, pi_1)
    BY <2>1 DEF Server
  <2> QED
    BY <2>2, SharesCompose DEF Init
<1> QED
  BY <1>1, <1>2, <1>3, <1>4 DEF ShuffleInv

\* What the invariant says of a message that is there to be received, and
\* that a message is known by its parts.
LEMMA Received ==
    ASSUME TypeOK, ShuffleInv
    PROVE  /\ \A s, t, v : Receive(s, t, v) =>
                  /\ Message(s, t, v) \in net
                  /\ MessageInv(Message(s, t, v))
                  /\ Message(s, t, v).to = s
                  /\ Message(s, t, v).type = t
                  /\ Message(s, t, v).body = v
           /\ \A m \in net : m.to \in Server /\ m = Message(m.to, m.type, m.body)
<1>1. \A m \in net : m.to \in Server /\ m = Message(m.to, m.type, m.body)
  BY DEF TypeOK, Message
<1>2. ASSUME NEW s, NEW t, NEW v, Receive(s, t, v)
      PROVE  /\ Message(s, t, v) \in net
             /\ MessageInv(Message(s, t, v))
  BY <1>2 DEF Receive, ShuffleInv
<1>3. ASSUME NEW s, NEW t, NEW v
      PROVE  /\ Message(s, t, v).to = s
             /\ Message(s, t, v).type = t
             /\ Message(s, t, v).body = v
  BY DEF Message
<1> QED
  BY <1>1, <1>2, <1>3

\* Messages that differ in a part differ.
LEMMA MessageParts ==
    ASSUME NEW s, NEW x, NEW v, NEW t, NEW y, NEW w,
           Message(s, x, v) = Message(t, y, w)
    PROVE  s = t /\ x = y /\ v = w
<1>1. /\ Message(s, x, v).to = s /\ Message(s, x, v).type = x /\ Message(s, x, v).body = v
      /\ Message(t, y, w).to = t /\ Message(t, y, w).type = y /\ Message(t, y, w).body = w
  BY DEF Message
<1> QED
  BY <1>1

\* There are two servers, and each is the other one of the other.
LEMMA OtherServer ==
    /\ \A s \in Server : Other(s) \in Server /\ Other(s) # s /\ Other(Other(s)) = s
    /\ \A s, t \in Server : t # s => t = Other(s)
    /\ 0 \in Server /\ 1 \in Server /\ Other(0) = 1 /\ Other(1) = 0
BY DEF Other, Server

\* The client's steps.
LEMMA ClientStepInv ==
    ASSUME TypeOK, ShuffleInv, NEW s \in Server, ClientStep(s)
    PROVE  ShuffleInv'
<1> USE DEF Begun, Shared, Loaded, Message
<1>0. /\ UNCHANGED <<chosen, disk, memory, threads>>
      /\ UNCHANGED <<full, punctured, vec, a, b, delta, xored, received, stored, keystream>>
      /\ UNCHANGED <<pc, sender, listener>>
  BY DEF ClientStep, ClientSendInit, ClientInitAck, ClientSendEvict, ClientEvictAck,
         disk, memory, threads
<1>f. /\ \A t \in Server : /\ SumA(t)' = SumA(t) /\ SumB(t)' = SumB(t)
                           /\ DeltaOf(t)' = DeltaOf(t) /\ Result(t)' = Result(t)
                           /\ Loaded(t)' = Loaded(t)
      /\ LocalBody' = LocalBody /\ Shuffled' = Shuffled
      /\ newStream' = newStream /\ plain' = plain
      /\ evict_pi' = evict_pi /\ sub_pi' = sub_pi
  BY <1>0, ChosenFixed DEF Other, Server, chosen
<1>1. \A t \in Server : Begun(t)' = Begun(t)
  <2> HIDE DEF Message
  <2> SUFFICES ASSUME NEW t \in Server
               PROVE  Begun(t)' = Begun(t)
    OBVIOUS
  <2>1. CASE ClientSendInit(s) \/ ClientInitAck(s)
    <3>1. Message(t, "evict", NoVector) \in net' <=> Message(t, "evict", NoVector) \in net
      BY <2>1, MessageParts DEF ClientSendInit, ClientInitAck, Reply
    <3> QED
      BY <2>1, <3>1 DEF ClientSendInit, ClientInitAck, TypeOK
  <2>2. CASE ClientSendEvict(s)
    <3>1. t # s => (Message(t, "evict", NoVector) \in net'
                      <=> Message(t, "evict", NoVector) \in net)
      BY <2>2, MessageParts DEF ClientSendEvict
    <3> QED
      BY <2>2, <3>1 DEF ClientSendEvict, TypeOK
  <2>3. CASE ClientEvictAck(s)
    <3>1. Message(t, "evict", NoVector) \in net' <=> Message(t, "evict", NoVector) \in net
      BY <2>3, MessageParts DEF ClientEvictAck, Reply
    <3> QED
      BY <2>3, <3>1 DEF ClientEvictAck, TypeOK
  <2> QED
    BY <2>1, <2>2, <2>3 DEF ClientStep
<1>2. \A t \in Server : Share(t)' = Share(t) /\ Shared(t)' = Shared(t)
  BY <1>0, <1>1 DEF Share, ShuffleInput
<1>3. \A m \in net' : MessageInv(m)'
  <2> SUFFICES ASSUME NEW m \in net'
               PROVE  MessageInv(m)'
    OBVIOUS
  <2> HIDE DEF Begun, Shared, Loaded
  <2>1. CASE ClientSendInit(s)
    BY <1>0, <1>f, <1>1, <1>2, <2>1
       DEF ClientSendInit, TypeOK, ShuffleInv, MessageInv, ServerInv, Other, Server
  <2>2. CASE ClientInitAck(s)
    BY <1>0, <1>f, <1>1, <1>2, <2>2
       DEF ClientInitAck, Reply, Receive, TypeOK, ShuffleInv, MessageInv, ServerInv, Other, Server
  <2>3. CASE ClientSendEvict(s)
    BY <1>0, <1>f, <1>1, <1>2, <2>3
       DEF ClientSendEvict, TypeOK, ShuffleInv, MessageInv, ServerInv, Other, Server
  <2>4. CASE ClientEvictAck(s)
    <3> HIDE DEF Message
    <3>1. /\ Receive(s, "evictOk", NoVector)
          /\ net' = net \ {Message(s, "evictOk", NoVector)}
          /\ ct' = [ct EXCEPT ![s] = "done"]
      BY <2>4 DEF ClientEvictAck, Reply
    <3>2. ct[s] = "evictWait" /\ pc[s] = "loop" /\ Begun(s)
      BY <3>1, Received DEF MessageInv
    <3>3. m \in net /\ m # Message(s, "evictOk", NoVector) /\ MessageInv(m)
      BY <3>1 DEF ShuffleInv
    <3>4. m.to \in Server /\ Other(m.to) \in Server /\ m = Message(m.to, m.type, m.body)
      BY <3>3, Received DEF Other, Server
    <3>5. ~(m.to = s /\ m.type = "evictOk")
      BY <3>3, <3>4 DEF MessageInv
    <3>6. ~(m.to = s /\ m.type = "evict")
      BY <3>2, <3>3, <3>4 DEF MessageInv, Begun
    <3>7. ~(m.to = s /\ m.type \in {"init", "initOk"})
      BY <3>2, <3>3 DEF MessageInv
    <3>8. m.to # s => ct'[m.to] = ct[m.to]
      BY <3>1, <3>4 DEF TypeOK
    <3> QED
      BY <3>1, <3>3, <3>4, <3>5, <3>6, <3>7, <3>8, <1>0, <1>f, <1>1, <1>2
         DEF MessageInv, Server
  <2> QED
    BY <2>1, <2>2, <2>3, <2>4 DEF ClientStep
<1>4. \A t \in Server : ServerInv(t)'
  <2> SUFFICES ASSUME NEW t \in Server
               PROVE  ServerInv(t)'
    OBVIOUS
  <2> HIDE DEF Begun, Shared, Loaded
  <2>1. /\ ct'[t] = "ready" => Loaded(t)
        /\ pc[t] # "loop" => ct'[t] = "evictWait"
    <3> HIDE DEF Message
    <3>1. /\ ClientInitAck(s) => Loaded(s)
          /\ ClientEvictAck(s) => pc[s] = "loop"
      BY Received DEF ClientInitAck, ClientEvictAck, MessageInv
    <3>2. ServerInv(t) /\ ServerInv(s)
      BY DEF ShuffleInv
    <3> QED
      BY <3>1, <3>2 DEF ClientStep, ClientSendInit, ClientInitAck, ClientSendEvict,
         ClientEvictAck, TypeOK, ServerInv
  <2>2. Other(t) \in Server
    BY DEF Other, Server
  <2> QED
    BY <1>0, <1>f, <1>1, <1>2, <2>1, <2>2 DEF ShuffleInv, ServerInv
<1> QED
  BY <1>f, <1>2, <1>3, <1>4 DEF ShuffleInv, Server

\* A server loads the matrices.
LEMMA RecvInitInv ==
    ASSUME TypeOK, ShuffleInv, NEW s \in Server, RecvInit(s)
    PROVE  ShuffleInv'
<1> DEFINE old == Message(s, "init", NoVector)
           new == Message(s, "initOk", NoVector)
<1>0. /\ old \in net /\ net' = (net \ {old}) \cup {new}
      /\ UNCHANGED <<chosen, disk, stored, keystream, vec, a, b, delta, xored, received>>
      /\ UNCHANGED <<ct, pc, sender, listener>>
  BY DEF RecvInit, Reply, Receive, disk, threads
<1>f. /\ \A t \in Server : /\ SumA(t)' = SumA(t) /\ SumB(t)' = SumB(t)
                           /\ DeltaOf(t)' = DeltaOf(t) /\ Result(t)' = Result(t)
      /\ LocalBody' = LocalBody /\ Shuffled' = Shuffled
      /\ newStream' = newStream /\ plain' = plain
      /\ evict_pi' = evict_pi /\ sub_pi' = sub_pi
  BY <1>0, ChosenFixed
<1>1. ct[s] = "initWait" /\ new.to = s /\ new.type = "initOk" /\ new.body = NoVector
  BY <1>0, Received DEF Receive, MessageInv, Message
<1>2. \A t \in Server : Begun(t)' = Begun(t)
  BY <1>0, MessageParts DEF Begun
<1>3. \A t \in Server : Share(t)' = Share(t) /\ Shared(t)' = Shared(t)
  BY <1>0, <1>2 DEF Share, ShuffleInput, Shared
<1>4. \A t \in Server : Loaded(t) => Loaded(t)'
  BY <1>0, ChosenFixed, OtherServer DEF RecvInit, Loaded, TypeOK
<1>5. Loaded(s)'
  BY <1>0, ChosenFixed, OtherServer DEF RecvInit, Loaded, TypeOK
<1>6. /\ \A t : Message(t, "init", NoVector) \in net' => Message(t, "init", NoVector) \in net \ {old}
      /\ Message(0, "CMD_SHARE", NoVector) \in net' => Message(0, "CMD_SHARE", NoVector) \in net
  BY <1>0, MessageParts
<1>7. \A m \in net' : MessageInv(m)'
  <2> SUFFICES ASSUME NEW m \in net'
               PROVE  MessageInv(m)'
    OBVIOUS
  <2> HIDE DEF old
  <2>1. \A v \in net' : v.type = "vector" => v \in net
    BY <1>0, <1>1
  <2>2. CASE m \in net
    <3>1. MessageInv(m) /\ m.to \in Server /\ Other(m.to) \in Server /\ 1 \in Server
      BY <2>2, Received, OtherServer DEF ShuffleInv
    <3> QED
      BY <1>0, <1>f, <1>2, <1>3, <1>4, <1>6, <2>1, <3>1 DEF MessageInv
  <2>3. CASE m = new
    <3> HIDE DEF new
    <3>1. m.to = s /\ m.type = "initOk" /\ m.body = NoVector
      BY <1>1, <2>3
    <3>2. Message(m.to, "init", NoVector) \notin net'
      BY <1>6, <3>1 DEF old
    <3> QED
      BY <1>0, <1>1, <1>5, <3>1, <3>2 DEF MessageInv
  <2> QED
    BY <1>0, <2>2, <2>3
<1>8. \A t \in Server : ServerInv(t)'
  <2> SUFFICES ASSUME NEW t \in Server
               PROVE  ServerInv(t)'
    OBVIOUS
  <2>1. ServerInv(t) /\ Other(t) \in Server
    BY OtherServer DEF ShuffleInv
  <2> QED
    BY <1>0, <1>f, <1>2, <1>3, <1>4, <2>1 DEF ServerInv
<1> QED
  BY <1>f, <1>3, <1>7, <1>8, OtherServer DEF ShuffleInv

\* A server begins the eviction: it masks the vector, rotates and sums.
LEMMA RecvEvictInv ==
    ASSUME TypeOK, ShuffleInv, NEW s \in Server, RecvEvict(s)
    PROVE  ShuffleInv'
<1> DEFINE old == Message(s, "evict", NoVector)
<1>0. /\ old \in net /\ net' = net \ {old} /\ pc[s] = "loop"
      /\ UNCHANGED <<chosen, disk, stored, keystream, xored, received>>
      /\ UNCHANGED <<ct, sender, listener>>
  BY DEF RecvEvict, Reply, Receive, disk
<1>p. /\ pc'[s] = "share"
      /\ \A t \in Server : t # s =>
            /\ pc'[t] = pc[t] /\ vec'[t] = vec[t] /\ a'[t] = a[t] /\ b'[t] = b[t]
            /\ delta'[t] = delta[t] /\ full'[t] = full[t] /\ punctured'[t] = punctured[t]
  BY DEF RecvEvict, TypeOK
<1>f. /\ \A t \in Server : /\ SumA(t)' = SumA(t) /\ SumB(t)' = SumB(t)
                           /\ DeltaOf(t)' = DeltaOf(t) /\ Result(t)' = Result(t)
      /\ LocalBody' = LocalBody /\ Shuffled' = Shuffled
      /\ newStream' = newStream /\ plain' = plain
      /\ evict_pi' = evict_pi /\ sub_pi' = sub_pi
  BY <1>0, ChosenFixed
<1>1. ct[s] = "evictWait" /\ Loaded(s) /\ ~Begun(s) /\ ServerInv(s)
  BY <1>0, Received DEF Receive, MessageInv, Begun, ShuffleInv
<1>2. /\ Begun(s)' /\ pc'[s] = "share"
      /\ \A t \in Server : t # s => Begun(t)' = Begun(t)
  BY <1>0, <1>1, <1>p, MessageParts DEF Begun
<1>3. \A t \in Server : Shared(t)' = Shared(t)
  BY <1>1, <1>2, <1>p DEF Shared
<1>4. \A t \in Server : Share(t)' = Share(t)
  <2>1. Share(s)' = vec'[s] /\ vec'[s] = ShuffleInput(s)
    BY <1>2 DEF Share, RecvEvict, TypeOK
  <2>2. Share(s) = ShuffleInput(s)
    BY <1>1 DEF Share
  <2>3. \A t \in Server : t # s => Share(t)' = Share(t)
    BY <1>0, <1>2, <1>p DEF Share, ShuffleInput
  <2> QED
    BY <2>1, <2>2, <2>3
<1>5. \A t \in Server : t # s => Loaded(t)' = Loaded(t)
  BY <1>0, <1>p, ChosenFixed, OtherServer DEF Loaded
<1>6. /\ a'[s] = SumA(s) /\ b'[s] = SumB(s)
  BY <1>1 DEF RecvEvict, TypeOK, Loaded, SumA, SumB, Rotated
<1>7. delta'[s] = DeltaOf(s)
  <2> DEFINE m == random[s]
             p == sub_pi[s]
             v == u[s]
             q == Aligned(Puncture(m, v), p, v)
  <2>1. m \in Matrix /\ p \in Permutation /\ v \in Shift
    BY DEF TypeOK
  <2>2. punctured'[s] = q
    BY <1>1 DEF RecvEvict, TypeOK, Loaded, Aligned
  <2>3. delta'[s] = [i \in Index |-> Xor(RowSum(q, i), ColumnSum(q, p[i]))]
    BY <2>2 DEF RecvEvict, TypeOK
  <2>4. ASSUME NEW i \in Index
        PROVE  DeltaOf(s)[i] = Xor(RowSum(Aligned(m, p, v), i),
                                   ColumnSum(Aligned(m, p, v), p[i]))
    <3>1. p[i] \in Index
      BY <2>1 DEF Permutation, Shift
    <3> QED
      BY <3>1, OtherServer
         DEF DeltaOf, SumA, SumB, Rotated, Aligned, RowSums, ColumnSums
  <2>5. DeltaOf(s) = [i \in Index |-> DeltaOf(s)[i]]
    BY DEF DeltaOf
  <2> HIDE DEF m, p, v, q
  <2>6. \A i \in Index : Xor(RowSum(q, i), ColumnSum(q, p[i])) = DeltaOf(s)[i]
    BY <2>1, <2>4, DeltaIdentity DEF q
  <2> QED
    BY <2>3, <2>5, <2>6
<1>8. \A m \in net' : MessageInv(m)'
  <2> SUFFICES ASSUME NEW m \in net'
               PROVE  MessageInv(m)'
    OBVIOUS
  <2>1. /\ MessageInv(m) /\ m \in net /\ m # old
        /\ m.to \in Server /\ m = Message(m.to, m.type, m.body)
        /\ Other(m.to) \in Server /\ 1 \in Server /\ 0 \in Server
    BY <1>0, Received, OtherServer DEF ShuffleInv
  <2>2. ~(m.to = s /\ m.type = "evict")
    BY <2>1 DEF MessageInv
  <2> HIDE DEF old
  <2>3. ~(m.to = s /\ m.type \in {"init", "initOk", "evictOk"})
    BY <1>1, <2>1 DEF MessageInv
  <2> QED
    BY <1>0, <1>p, <1>f, <1>2, <1>3, <1>5, <2>1, <2>2, <2>3 DEF MessageInv
<1>9. \A t \in Server : ServerInv(t)'
  <2> SUFFICES ASSUME NEW t \in Server
               PROVE  ServerInv(t)'
    OBVIOUS
  <2>1. ServerInv(t) /\ Other(t) \in Server
    BY OtherServer DEF ShuffleInv
  <2>2. CASE t = s
    BY <1>0, <1>1, <1>2, <1>3, <1>f, <1>6, <1>7, <2>1, <2>2 DEF ServerInv
  <2>3. CASE t # s
    BY <1>0, <1>p, <1>2, <1>3, <1>5, <1>f, <2>1, <2>3 DEF ServerInv
  <2> QED
    BY <2>2, <2>3
<1> QED
  BY <1>f, <1>4, <1>8, <1>9, OtherServer DEF ShuffleInv

\* The messages of secretShare before its last one: a server goes from one
\* point of the protocol to the next, and its answer replaces what it read.
LEMMA ShareMessagesInv ==
    ASSUME TypeOK, ShuffleInv, ShareCmd \/ ShareOk \/ SendMasked \/ SendLocal
    PROVE  ShuffleInv'
<1>0. /\ UNCHANGED <<chosen, disk, memory, stored, keystream, full, punctured, vec, a, b>>
      /\ UNCHANGED <<delta, xored, received, ct, sender, listener>>
  BY DEF ShareCmd, ShareOk, SendMasked, SendLocal, disk, memory
<1>f. /\ \A t \in Server : /\ SumA(t)' = SumA(t) /\ SumB(t)' = SumB(t)
                           /\ DeltaOf(t)' = DeltaOf(t) /\ Result(t)' = Result(t)
                           /\ Loaded(t)' = Loaded(t)
      /\ LocalBody' = LocalBody /\ Shuffled' = Shuffled
      /\ newStream' = newStream /\ plain' = plain
      /\ evict_pi' = evict_pi /\ sub_pi' = sub_pi
  BY <1>0, ChosenFixed, OtherServer DEF Loaded
<1>s. /\ \A t \in Server : ServerInv(t)
      /\ \A m \in net : MessageInv(m)
      /\ 0 \in Server /\ 1 \in Server
  BY OtherServer DEF ShuffleInv
<1> DEFINE ShareType == {"CMD_SHARE", "OK", "masked", "local", "finished"}
\* It is enough to look at the messages of secretShare.
<1>1. ASSUME \A t \in Server : /\ pc'[t] = "loop" <=> pc[t] = "loop"
                               /\ pc'[t] = "exchange" <=> pc[t] = "exchange",
             \A m \in net' \ net : m.type \in ShareType,
             \A m \in net \ net' : m.type \in ShareType,
             \A m \in net' : m.type \in ShareType => MessageInv(m)'
      PROVE  ShuffleInv'
  <2>2. \A t \in Server : Begun(t)' = Begun(t)
    <3>1. ASSUME NEW t PROVE Message(t, "evict", NoVector).type = "evict"
      BY DEF Message
    <3> QED
      BY <1>0, <1>1, <3>1 DEF Begun
  <2>3. \A t \in Server : Share(t)' = Share(t) /\ Shared(t)' = Shared(t)
    BY <1>0, <1>1, <2>2 DEF Share, Shared, ShuffleInput
  <2>4. \A m \in net' : MessageInv(m)'
    <3> SUFFICES ASSUME NEW m \in net', m \in net, m.type \notin ShareType
                 PROVE  MessageInv(m)'
      BY <1>1
    <3>1. MessageInv(m) /\ m.to \in Server /\ Other(m.to) \in Server
      BY <1>s, Received, OtherServer
    <3>2. \A v \in net' : v.type = "vector" => v \in net
      BY <1>1
    <3>3. \A t : Message(t, "init", NoVector) \in net' => Message(t, "init", NoVector) \in net
      <4>1. ASSUME NEW t PROVE Message(t, "init", NoVector).type = "init"
        BY DEF Message
      <4> QED
        BY <1>1, <4>1
    <3> QED
      BY <1>0, <1>f, <1>1, <2>2, <2>3, <3>1, <3>2, <3>3 DEF MessageInv
  <2>5. \A t \in Server : ServerInv(t)'
    BY <1>0, <1>f, <1>s, <1>1, <2>2, <2>3, OtherServer DEF ServerInv
  <2> QED
    BY <1>f, <2>3, <2>4, <2>5, OtherServer DEF ShuffleInv
<1>2. CASE ShareCmd
  <2>1. PICK new : new = Message(0, "CMD_SHARE", NoVector)
    OBVIOUS
  <2>2. new.to = 0 /\ new.type = "CMD_SHARE" /\ new.body = NoVector
    BY <2>1 DEF Message
  <2>3. /\ pc' = [pc EXCEPT ![1] = "asked"] /\ net' = (net \ {}) \cup {new}
        /\ pc[1] = "share" /\ pc'[1] = "asked"
    BY <1>2, <2>1 DEF ShareCmd, TypeOK, Server
  <2>4. MessageInv(new)'
    BY <2>2, <2>3 DEF MessageInv
  <2>5. ASSUME NEW m \in net, m.type \in ShareType
        PROVE  MessageInv(m)'
    <3>1. MessageInv(m) /\ ~Shared(1)
      BY <1>s, <2>3 DEF Shared
    <3> QED
      BY <2>3, <2>5, <3>1 DEF MessageInv
  <2>6. \A t \in Server : /\ pc'[t] = "loop" <=> pc[t] = "loop"
                          /\ pc'[t] = "exchange" <=> pc[t] = "exchange"
    BY <2>3 DEF TypeOK
  <2> QED
    BY <1>1, <2>2, <2>3, <2>4, <2>5, <2>6
<1>3. CASE ShareOk
  <2>1. PICK new : new = Message(1, "OK", NoVector)
    OBVIOUS
  <2>2. PICK old : old = Message(0, "CMD_SHARE", NoVector)
    OBVIOUS
  <2>3. /\ new.to = 1 /\ new.type = "OK" /\ new.body = NoVector /\ old.type = "CMD_SHARE"
        /\ new # old
    BY <2>1, <2>2 DEF Message
  <2>4. /\ pc' = [pc EXCEPT ![0] = "masked"] /\ net' = (net \ {old}) \cup {new}
        /\ old \in net /\ pc[0] = "share" /\ pc'[0] = "masked" /\ pc'[1] = pc[1]
    BY <1>3, <2>1, <2>2 DEF ShareOk, Reply, Receive, TypeOK, Server
  <2>5. pc[1] = "asked"
    BY <1>s, <2>3, <2>4 DEF MessageInv
  <2>6. MessageInv(new)'
    BY <2>2, <2>3, <2>4, <2>5 DEF MessageInv
  <2>7. ASSUME NEW m \in net \ {old},
               m.type \in ShareType
        PROVE  MessageInv(m)'
    <3>1. MessageInv(m) /\ m = Message(m.to, m.type, m.body)
      BY <1>s, Received
    <3>2. m.type \notin {"CMD_SHARE", "OK"}
      BY <2>2, <2>4, <2>7, <3>1 DEF MessageInv
    <3> QED
      BY <2>4, <2>5, <2>7, <3>1, <3>2 DEF MessageInv
  <2>8. \A t \in Server : /\ pc'[t] = "loop" <=> pc[t] = "loop"
                          /\ pc'[t] = "exchange" <=> pc[t] = "exchange"
    BY <2>4 DEF TypeOK
  <2> QED
    BY <1>1, <2>3, <2>4, <2>6, <2>7, <2>8
<1>4. CASE SendMasked
  <2>1. PICK new : new = Message(0, "masked", MaskFunc(a[1], vec[1]))
    OBVIOUS
  <2>2. PICK old : old = Message(1, "OK", NoVector)
    OBVIOUS
  <2>3. /\ new.to = 0 /\ new.type = "masked" /\ new.body = MaskFunc(a[1], vec[1])
        /\ old.type = "OK"
    BY <2>1, <2>2 DEF Message
  <2>4. /\ pc' = [pc EXCEPT ![1] = "local"] /\ net' = (net \ {old}) \cup {new}
        /\ old \in net /\ pc[1] = "asked" /\ pc'[1] = "local" /\ pc'[0] = pc[0]
    BY <1>4, <2>1, <2>2 DEF SendMasked, Reply, Receive, TypeOK, Server
  <2>5. pc[0] = "masked" /\ Message(0, "CMD_SHARE", NoVector) \notin net
    BY <1>s, <2>3, <2>4 DEF MessageInv
  <2>6. a[1] = SumA(1)
    BY <1>s, <2>4 DEF ServerInv
  <2>7. SumA(1)' = SumA(1) /\ vec' = vec
    BY <1>0, <1>f, <1>s
  <2>8. MessageInv(new)'
    BY <2>3, <2>4, <2>5, <2>6, <2>7 DEF MessageInv, MaskFunc, XorVector
  <2>9. ASSUME NEW m \in net \ {old},
               m.type \in ShareType
        PROVE  MessageInv(m)'
    <3>1. MessageInv(m) /\ m = Message(m.to, m.type, m.body) /\ ~Shared(1)
      BY <1>s, <2>4, Received DEF Shared
    <3>2. m.type \notin ShareType
      BY <2>2, <2>4, <2>5, <2>9, <3>1 DEF MessageInv
    <3> QED
      BY <2>9, <3>2
  <2>10. \A t \in Server : /\ pc'[t] = "loop" <=> pc[t] = "loop"
                           /\ pc'[t] = "exchange" <=> pc[t] = "exchange"
    BY <2>4 DEF TypeOK
  <2> QED
    BY <1>1, <2>3, <2>4, <2>8, <2>9, <2>10
<1>5. CASE SendLocal
  <2>1. PICK old \in net :
          /\ old.to = 0 /\ old.type = "masked"
          /\ Reply(old, {Message(1, "local",
                   MaskFunc(a[0], LocalFunc(sub_pi[0], delta[0], old.body, vec[0])))})
    BY <1>5 DEF SendLocal
  <2>2. PICK new : new = Message(1, "local",
                   MaskFunc(a[0], LocalFunc(sub_pi[0], delta[0], old.body, vec[0])))
    OBVIOUS
  <2>3. /\ new.to = 1 /\ new.type = "local"
        /\ new.body = MaskFunc(a[0], LocalFunc(sub_pi[0], delta[0], old.body, vec[0]))
    BY <2>2 DEF Message
  <2>4. /\ net' = (net \ {old}) \cup {new} /\ pc[0] = "masked" /\ pc'[0] = "finish"
        /\ pc'[1] = pc[1] /\ pc' = [pc EXCEPT ![0] = "finish"]
    BY <1>5, <2>1, <2>2 DEF SendLocal, Reply, TypeOK, Server
  <2>5. pc[1] = "local" /\ old.body = MaskFunc(SumA(1), vec[1])
    BY <1>s, <2>1 DEF MessageInv
  <2>6. /\ a[0] = SumA(0) /\ delta[0] = DeltaOf(0)
        /\ Share(0) = vec[0] /\ Share(1) = vec[1]
    BY <1>s, <2>4, <2>5 DEF ServerInv, Share
  <2>7. new.body = LocalBody
    <3>1. /\ sub_pi[0] \in Shift /\ vec[0] \in Vector /\ vec[1] \in Vector
          /\ a[0] \in Vector
      BY DEF TypeOK, Permutation, Server
    <3>2. DOMAIN vec[0] = Index /\ DOMAIN SumA(0) = Index /\ DOMAIN SumA(1) = Index
      BY <3>1 DEF Vector, SumA, ColumnSums
    <3>3. \A i \in Index : Xor(vec[0][i], vec[1][i]) = plain[i]
      BY <2>6, <3>2 DEF ShuffleInv, XorVector
    <3>4. ASSUME NEW i \in Index
          PROVE  Xor(SumA(0)[i], LocalFunc(sub_pi[0], delta[0], old.body, vec[0])[i])
                   = Xor(SumA(0)[i], Xor(SumB(1)[i], plain[sub_pi[0][i]]))
      <4> DEFINE k == sub_pi[0][i]
      <4>1. k \in Index
        BY <3>1 DEF Shift
      <4>2. LocalFunc(sub_pi[0], delta[0], old.body, vec[0])[i]
              = Xor(DeltaOf(0)[i], Xor(old.body[k], vec[0][k]))
        BY <2>6 DEF LocalFunc
      <4>3. old.body[k] = Xor(SumA(1)[k], vec[1][k])
        BY <2>5, <3>2, <4>1 DEF MaskFunc, XorVector
      <4>4. DeltaOf(0)[i] = Xor(SumB(1)[i], SumA(1)[k])
        BY OtherServer DEF DeltaOf
      <4>5. Xor(vec[0][k], vec[1][k]) = plain[k]
        BY <3>3, <4>1
      <4> HIDE DEF k
      <4>6. Xor(SumA(0)[i], Xor(Xor(SumB(1)[i], SumA(1)[k]),
                                Xor(Xor(SumA(1)[k], vec[1][k]), vec[0][k])))
              = Xor(SumA(0)[i], Xor(SumB(1)[i], plain[k]))
        BY <4>5, MaskedOnce
      <4> QED
        BY <4>2, <4>3, <4>4, <4>6 DEF k
    <3>5. new.body = [i \in Index |->
                         Xor(SumA(0)[i], LocalFunc(sub_pi[0], delta[0], old.body, vec[0])[i])]
      BY <2>3, <2>6, <3>2 DEF MaskFunc, XorVector
    <3> QED
      BY <3>4, <3>5 DEF LocalBody
  <2>8. MessageInv(new)'
    BY <1>f, <2>3, <2>4, <2>5, <2>7 DEF MessageInv
  <2>9. ASSUME NEW m \in net \ {old}, m.type \in ShareType
        PROVE  MessageInv(m)'
    <3>1. /\ MessageInv(m) /\ m = Message(m.to, m.type, m.body) /\ ~Shared(1)
          /\ old = Message(old.to, old.type, old.body)
      BY <1>s, <2>5, Received DEF Shared
    <3>2. m.type # "masked"
      BY <2>1, <2>5, <2>9, <3>1 DEF MessageInv
    <3>3. m.type \notin ShareType
      BY <2>4, <2>5, <2>9, <3>1, <3>2 DEF MessageInv
    <3> QED
      BY <2>9, <3>3
  <2>10. \A t \in Server : /\ pc'[t] = "loop" <=> pc[t] = "loop"
                           /\ pc'[t] = "exchange" <=> pc[t] = "exchange"
    BY <2>4 DEF TypeOK
  <2> QED
    BY <1>1, <2>1, <2>3, <2>4, <2>8, <2>9, <2>10
<1> QED
  BY <1>2, <1>3, <1>4, <1>5

\* The end of secretShare: a server has its result, and starts the exchange.
LEMMA FinishShareInv ==
    ASSUME TypeOK, ShuffleInv, FinishShare1 \/ FinishShare0
    PROVE  ShuffleInv'
<1>0. /\ UNCHANGED <<chosen, disk, stored, keystream, full, punctured, vec, a, b>>
      /\ UNCHANGED <<delta, received, ct>>
  BY DEF FinishShare1, FinishShare0, disk
<1>f. /\ \A t \in Server : /\ SumA(t)' = SumA(t) /\ SumB(t)' = SumB(t)
                           /\ DeltaOf(t)' = DeltaOf(t) /\ Result(t)' = Result(t)
                           /\ Loaded(t)' = Loaded(t)
      /\ LocalBody' = LocalBody /\ Shuffled' = Shuffled
      /\ newStream' = newStream /\ plain' = plain
      /\ evict_pi' = evict_pi /\ sub_pi' = sub_pi
  BY <1>0, ChosenFixed, OtherServer DEF Loaded
<1>s. /\ \A t \in Server : ServerInv(t)
      /\ \A m \in net : MessageInv(m)
      /\ 0 \in Server /\ 1 \in Server
  BY OtherServer DEF ShuffleInv
<1> DEFINE ShareType == {"CMD_SHARE", "OK", "masked", "local", "finished"}
\* It is enough to look at the result and at the messages of secretShare.
<1>1. ASSUME NEW s \in Server, NEW r, StartExchange(s, r),
             pc[s] \notin {"loop", "exchange"},
             XorVector(r, newStream[s]) = Result(s),
             \A m \in net' \ net : m.type \in ShareType,
             \A m \in net \ net' : m.type \in ShareType,
             \A m \in net' : m.type \in ShareType /\ Shared(s)' => MessageInv(m)'
      PROVE  ShuffleInv'
  <2>1. /\ pc'[s] = "exchange" /\ xored'[s] = Result(s)
        /\ sender'[s] = "send" /\ listener'[s] = "recv"
        /\ \A t \in Server : t # s => /\ pc'[t] = pc[t] /\ xored'[t] = xored[t]
                                      /\ sender'[t] = sender[t] /\ listener'[t] = listener[t]
    BY <1>1 DEF StartExchange, TypeOK
  <2>2. \A t \in Server : Begun(t)' = Begun(t)
    <3>1. ASSUME NEW t PROVE Message(t, "evict", NoVector).type = "evict"
      BY DEF Message
    <3> QED
      BY <1>0, <1>1, <3>1 DEF Begun
  <2>3. /\ Begun(s) /\ ~Shared(s) /\ Shared(s)'
        /\ \A t \in Server : t # s => Shared(t)' = Shared(t)
    BY <1>1, <1>s, <2>1, <2>2 DEF Shared, ServerInv
  <2>4. \A t \in Server : Share(t)' = Share(t)
    BY <1>0, <2>2 DEF Share, ShuffleInput
  <2>5. \A m \in net' : MessageInv(m)'
    <3> SUFFICES ASSUME NEW m \in net', m \in net, m.type \notin ShareType
                 PROVE  MessageInv(m)'
      BY <1>1, <2>3
    <3>1. MessageInv(m) /\ m.to \in Server /\ Other(m.to) \in Server
      BY <1>s, Received, OtherServer
    <3>2. \A v \in net' : v.type = "vector" => v \in net
      BY <1>1
    <3>3. \A t : Message(t, "init", NoVector) \in net' => Message(t, "init", NoVector) \in net
      <4>1. ASSUME NEW t PROVE Message(t, "init", NoVector).type = "init"
        BY DEF Message
      <4> QED
        BY <1>1, <4>1
    <3>4. m.type \in {"evict", "evictOk", "vectorOk"} => m.to # s
      BY <1>1, <1>s, <3>1 DEF MessageInv, ServerInv
    <3>5. m.type = "vector" => Other(m.to) # s
      BY <2>3, <3>1 DEF MessageInv
    <3> QED
      BY <1>0, <1>f, <2>1, <2>2, <2>3, <3>1, <3>2, <3>3, <3>4, <3>5 DEF MessageInv
  <2>6. \A t \in Server : ServerInv(t)'
    BY <1>0, <1>1, <1>f, <1>s, <2>1, <2>2, <2>3, OtherServer DEF ServerInv
  <2> QED
    BY <1>f, <2>4, <2>5, <2>6, OtherServer DEF ShuffleInv
<1>2. CASE FinishShare1
  <2>1. PICK old \in net :
          /\ old.to = 1 /\ old.type = "local"
          /\ Reply(old, {Message(0, "finished", NoVector)})
          /\ StartExchange(1, LocalFunc(sub_pi[1], delta[1], old.body, b[1]))
    BY <1>2 DEF FinishShare1
  <2>2. PICK new : new = Message(0, "finished", NoVector)
    OBVIOUS
  <2>3. new.to = 0 /\ new.type = "finished" /\ new.body = NoVector
    BY <2>2 DEF Message
  <2>4. /\ net' = (net \ {old}) \cup {new} /\ pc[1] = "local" /\ pc'[0] = pc[0]
        /\ pc'[1] = "exchange"
    BY <1>2, <2>1, <2>2 DEF FinishShare1, Reply, StartExchange, TypeOK, Server
  <2>5. pc[0] = "finish" /\ old.body = LocalBody
    BY <1>s, <2>1 DEF MessageInv
  <2>6. b[1] = SumB(1) /\ delta[1] = DeltaOf(1)
    BY <1>s, <2>4 DEF ServerInv
  <2>7. XorVector(LocalFunc(sub_pi[1], delta[1], old.body, b[1]), newStream[1]) = Result(1)
    <3> DEFINE r == LocalFunc(sub_pi[1], delta[1], old.body, b[1])
    <3>1. \A i \in Index : sub_pi[1][i] \in Index
      BY DEF TypeOK, Permutation, Shift, Server
    <3>2. ASSUME NEW i \in Index
          PROVE  r[i] = Xor(SumB(0)[i], plain[evict_pi[i]])
      <4> DEFINE k == sub_pi[1][i]
      <4>1. k \in Index /\ plain[sub_pi[0][k]] = plain[evict_pi[i]]
        BY <3>1 DEF ShuffleInv
      <4>2. r[i] = Xor(DeltaOf(1)[i], Xor(LocalBody[k], SumB(1)[k]))
        BY <2>5, <2>6 DEF LocalFunc
      <4>3. LocalBody[k] = Xor(SumA(0)[k], Xor(SumB(1)[k], plain[evict_pi[i]]))
        BY <4>1 DEF LocalBody
      <4>4. DeltaOf(1)[i] = Xor(SumB(0)[i], SumA(0)[k])
        BY OtherServer DEF DeltaOf
      <4> HIDE DEF k
      <4>5. Xor(Xor(SumB(0)[i], SumA(0)[k]),
                Xor(Xor(SumA(0)[k], Xor(SumB(1)[k], plain[evict_pi[i]])), SumB(1)[k]))
              = Xor(SumB(0)[i], plain[evict_pi[i]])
        BY MaskedTwice
      <4> QED
        BY <4>2, <4>3, <4>4, <4>5
    <3>3. DOMAIN r = Index
      BY DEF LocalFunc
    <3> HIDE DEF r
    <3>4. XorVector(r, newStream[1]) = Result(1)
      BY <3>2, <3>3 DEF XorVector, Result
    <3> QED
      BY <3>4 DEF r
  <2>8. ASSUME NEW m \in net', m.type \in ShareType, Shared(1)'
        PROVE  MessageInv(m)'
    <3>1. CASE m = new
      BY <2>3, <2>4, <2>5, <2>8, <3>1 DEF MessageInv
    <3>2. CASE m \in net \ {old}
      <4>1. /\ MessageInv(m) /\ m = Message(m.to, m.type, m.body) /\ ~Shared(1)
            /\ old = Message(old.to, old.type, old.body)
        BY <1>s, <2>4, <3>2, Received DEF Shared
      <4>2. m.type # "local"
        BY <2>1, <2>5, <3>2, <4>1 DEF MessageInv
      <4>3. m.type \notin ShareType
        BY <2>4, <2>5, <4>1, <4>2 DEF MessageInv
      <4> QED
        BY <2>8, <4>3
    <3> QED
      BY <2>4, <3>1, <3>2
  <2>9. \A m \in net' \ net : m.type \in ShareType
    BY <2>3, <2>4
  <2>10. \A m \in net \ net' : m.type \in ShareType
    BY <2>1, <2>4
  <2> QED
    BY <1>1, <1>s, <2>1, <2>4, <2>7, <2>8, <2>9, <2>10
<1>3. CASE FinishShare0
  <2>1. PICK old : old = Message(0, "finished", NoVector)
    OBVIOUS
  <2>2. old.to = 0 /\ old.type = "finished"
    BY <2>1 DEF Message
  <2>3. /\ net' = net \ {old} /\ old \in net /\ pc[0] = "finish" /\ pc'[1] = pc[1]
        /\ pc'[0] = "exchange" /\ StartExchange(0, b[0])
    BY <1>3, <2>1 DEF FinishShare0, Reply, Receive, StartExchange, TypeOK, Server
  <2>4. b[0] = SumB(0) /\ Shared(1)
    BY <1>s, <2>2, <2>3 DEF ServerInv, MessageInv
  <2>5. XorVector(b[0], newStream[0]) = Result(0)
    BY <2>4 DEF XorVector, Result, SumB, RowSums
  <2>6. ASSUME NEW m \in net', m.type \in ShareType
        PROVE  MessageInv(m)'
    <3>1. /\ MessageInv(m) /\ m = Message(m.to, m.type, m.body) /\ m # old
      BY <1>s, <2>3, Received
    <3>2. pc[1] \in {"exchange", "loop"}
      BY <2>4 DEF Shared
    <3>3. m.type \notin ShareType
      BY <2>1, <2>3, <3>1, <3>2 DEF MessageInv
    <3> QED
      BY <2>6, <3>3
  <2>7. \A m \in net \ net' : m.type \in ShareType
    BY <2>2, <2>3
  <2> QED
    BY <1>1, <1>s, <2>3, <2>5, <2>6, <2>7
<1> QED
  BY <1>2, <1>3

\* The two threads of a server: the vector goes out, the other one comes in.
LEMMA ExchangeInv ==
    ASSUME TypeOK, ShuffleInv, NEW s \in Server,
           SendVector(s) \/ ReceiveVector(s) \/ VectorAck(s)
    PROVE  ShuffleInv'
<1>0. /\ UNCHANGED <<chosen, disk, stored, keystream, full, punctured, vec, a, b>>
      /\ UNCHANGED <<delta, xored, ct, pc>>
  BY DEF SendVector, ReceiveVector, VectorAck, disk, memory
<1>f. /\ \A t \in Server : /\ SumA(t)' = SumA(t) /\ SumB(t)' = SumB(t)
                           /\ DeltaOf(t)' = DeltaOf(t) /\ Result(t)' = Result(t)
                           /\ Loaded(t)' = Loaded(t)
      /\ LocalBody' = LocalBody /\ Shuffled' = Shuffled
      /\ newStream' = newStream /\ plain' = plain
      /\ evict_pi' = evict_pi /\ sub_pi' = sub_pi
  BY <1>0, ChosenFixed, OtherServer DEF Loaded
<1>s. /\ \A t \in Server : ServerInv(t) /\ Other(t) \in Server
      /\ \A m \in net : MessageInv(m) /\ m.to \in Server /\ m = Message(m.to, m.type, m.body)
      /\ 0 \in Server /\ 1 \in Server
  BY Received, OtherServer DEF ShuffleInv
<1> DEFINE ExchangeType == {"vector", "vectorOk"}
\* It is enough to look at the messages of the exchange and at the threads.
<1>1. ASSUME \A m \in net' \ net : m.type \in ExchangeType,
             \A m \in net \ net' : m.type \in ExchangeType,
             \A m \in net' : m.type \in ExchangeType /\ (\A t \in Server : Shared(t)' = Shared(t))
                             => MessageInv(m)',
             \A t \in Server : /\ sender'[t] # "off" => sender[t] # "off"
                               /\ listener'[t] # "off" => listener[t] # "off"
                               /\ listener'[t] = "done" =>
                                     Shared(Other(t)) /\ received'[t] = Result(Other(t))
      PROVE  ShuffleInv'
  <2>2. \A t \in Server : Begun(t)' = Begun(t)
    <3>1. ASSUME NEW t PROVE Message(t, "evict", NoVector).type = "evict"
      BY DEF Message
    <3> QED
      BY <1>0, <1>1, <3>1 DEF Begun
  <2>3. \A t \in Server : Share(t)' = Share(t) /\ Shared(t)' = Shared(t)
    BY <1>0, <1>1, <2>2 DEF Share, Shared, ShuffleInput
  <2>4. \A m \in net' : MessageInv(m)'
    <3> SUFFICES ASSUME NEW m \in net', m \in net, m.type \notin ExchangeType
                 PROVE  MessageInv(m)'
      BY <1>1, <2>3
    <3>1. MessageInv(m) /\ m.to \in Server /\ Other(m.to) \in Server
      BY <1>s
    <3>3. /\ \A t : Message(t, "init", NoVector) \in net' => Message(t, "init", NoVector) \in net
          /\ Message(0, "CMD_SHARE", NoVector) \in net'
                => Message(0, "CMD_SHARE", NoVector) \in net
      <4>1. ASSUME NEW t PROVE /\ Message(t, "init", NoVector).type = "init"
                               /\ Message(t, "CMD_SHARE", NoVector).type = "CMD_SHARE"
        BY DEF Message
      <4> QED
        BY <1>1, <4>1
    <3> QED
      BY <1>0, <1>f, <1>s, <2>2, <2>3, <3>1, <3>3 DEF MessageInv
  <2>5. \A t \in Server : ServerInv(t)'
    BY <1>0, <1>f, <1>s, <1>1, <2>2, <2>3 DEF ServerInv
  <2> QED
    BY <1>f, <1>s, <2>3, <2>4, <2>5 DEF ShuffleInv
<1>2. CASE SendVector(s)
  <2>1. PICK new : new = Message(Other(s), "vector", xored[s])
    OBVIOUS
  <2>2. new.to = Other(s) /\ new.type = "vector" /\ new.body = xored[s]
    BY <2>1 DEF Message
  <2>3. /\ net' = net \cup {new} /\ sender[s] = "send" /\ sender'[s] = "wait"
        /\ \A t \in Server : t # s => sender'[t] = sender[t]
        /\ UNCHANGED <<listener, received>>
    BY <1>2, <2>1 DEF SendVector, SenderReady, TypeOK, memory
  <2>4. Shared(s) /\ xored[s] = Result(s)
    BY <1>s, <2>3 DEF ServerInv, Shared
  <2>5. ASSUME NEW m \in net', m.type \in ExchangeType, \A t \in Server : Shared(t)' = Shared(t)
        PROVE  MessageInv(m)'
    <3>1. CASE m = new
      <4>1. Other(m.to) = s
        BY <2>2, <3>1, OtherServer
      <4> QED
        BY <1>f, <2>2, <2>3, <2>4, <2>5, <3>1, <4>1 DEF MessageInv
    <3>2. CASE m \in net /\ m.type = "vector"
      BY <1>f, <1>s, <2>3, <2>5, <3>2 DEF MessageInv
    <3>3. CASE m \in net /\ m.type = "vectorOk"
      <4>1. MessageInv(m) /\ m.to # s
        BY <1>s, <2>3, <3>3 DEF MessageInv
      <4>2. m.to = Other(s)
        BY <1>s, <3>3, <4>1, OtherServer
      <4> QED
        BY <1>s, <2>2, <2>3, <3>3, <4>1, <4>2 DEF MessageInv
    <3> QED
      BY <2>3, <2>5, <3>1, <3>2, <3>3
  <2>6. \A t \in Server : /\ sender'[t] # "off" => sender[t] # "off"
                          /\ listener'[t] # "off" => listener[t] # "off"
                          /\ listener'[t] = "done" =>
                                Shared(Other(t)) /\ received'[t] = Result(Other(t))
    BY <1>s, <2>3 DEF ServerInv
  <2>7. /\ \A m \in net' \ net : m.type \in ExchangeType
        /\ \A m \in net \ net' : m.type \in ExchangeType
    BY <2>2, <2>3
  <2> QED
    BY <1>1, <2>5, <2>6, <2>7
<1>3. CASE ReceiveVector(s)
  <2>1. PICK old \in net :
          /\ old.to = s /\ old.type = "vector"
          /\ received' = [received EXCEPT ![s] = old.body]
          /\ Reply(old, {Message(Other(s), "vectorOk", NoVector)})
    BY <1>3 DEF ReceiveVector
  <2>2. PICK new : new = Message(Other(s), "vectorOk", NoVector)
    OBVIOUS
  <2>3. new.to = Other(s) /\ new.type = "vectorOk" /\ new.body = NoVector
    BY <2>2 DEF Message
  <2>4. /\ net' = (net \ {old}) \cup {new} /\ listener[s] = "recv" /\ listener'[s] = "done"
        /\ \A t \in Server : t # s => listener'[t] = listener[t] /\ received'[t] = received[t]
        /\ received'[s] = old.body
        /\ UNCHANGED sender
    BY <1>3, <2>1, <2>2 DEF ReceiveVector, Reply, TypeOK
  <2>5. /\ Shared(Other(s)) /\ sender[Other(s)] = "wait" /\ old.body = Result(Other(s))
    BY <1>s, <2>1 DEF MessageInv
  <2>6. \A v \in net' : v.type = "vector" => v \in net /\ v.to = Other(s)
    <3> SUFFICES ASSUME NEW v \in net', v.type = "vector", v.to # Other(s)
                 PROVE  FALSE
      BY <2>3, <2>4
    <3>1. v \in net /\ v # old
      BY <2>3, <2>4
    <3>2. v.to = s
      BY <1>s, <3>1, OtherServer
    <3>3. v.body = Result(Other(s))
      BY <1>s, <3>1, <3>2 DEF MessageInv
    <3>4. v = Message(s, "vector", Result(Other(s))) /\ old = Message(s, "vector", Result(Other(s)))
      BY <1>s, <2>1, <2>5, <3>1, <3>2, <3>3
    <3> QED
      BY <3>1, <3>4
  <2>7. ASSUME NEW m \in net', m.type \in ExchangeType, \A t \in Server : Shared(t)' = Shared(t)
        PROVE  MessageInv(m)'
    <3>1. CASE m = new
      BY <1>s, <2>3, <2>4, <2>5, <2>6, <3>1 DEF MessageInv
    <3>2. CASE m \in net /\ m.type = "vector"
      BY <1>f, <1>s, <2>4, <2>7, <3>2 DEF MessageInv
    <3>3. CASE m \in net /\ m.type = "vectorOk"
      BY <1>s, <2>4, <2>6, <3>3 DEF MessageInv
    <3> QED
      BY <2>4, <2>7, <3>1, <3>2, <3>3
  <2>8. \A t \in Server : /\ sender'[t] # "off" => sender[t] # "off"
                          /\ listener'[t] # "off" => listener[t] # "off"
                          /\ listener'[t] = "done" =>
                                Shared(Other(t)) /\ received'[t] = Result(Other(t))
    BY <1>s, <2>4, <2>5 DEF ServerInv
  <2>9. /\ \A m \in net' \ net : m.type \in ExchangeType
        /\ \A m \in net \ net' : m.type \in ExchangeType
    BY <2>1, <2>3, <2>4
  <2> QED
    BY <1>1, <2>7, <2>8, <2>9
<1>4. CASE VectorAck(s)
  <2>1. PICK old : old = Message(s, "vectorOk", NoVector)
    OBVIOUS
  <2>2. old.to = s /\ old.type = "vectorOk"
    BY <2>1 DEF Message
  <2>3. /\ net' = net \ {old} /\ old \in net /\ sender[s] = "wait" /\ sender'[s] = "done"
        /\ \A t \in Server : t # s => sender'[t] = sender[t]
        /\ UNCHANGED <<listener, received>>
    BY <1>4, <2>1 DEF VectorAck, Reply, Receive, TypeOK, memory
  <2>4. \A v \in net : v.type = "vector" => v.to = s
    BY <1>s, <2>2, <2>3 DEF MessageInv
  <2>5. ASSUME NEW m \in net', m.type \in ExchangeType, \A t \in Server : Shared(t)' = Shared(t)
        PROVE  MessageInv(m)'
    <3>1. MessageInv(m) /\ m \in net /\ m # old
      BY <1>s, <2>3
    <3>2. CASE m.type = "vector"
      <4>1. m.to = s /\ Other(m.to) # s
        BY <2>4, <3>1, <3>2, OtherServer
      <4> QED
        BY <1>f, <1>s, <2>3, <2>5, <3>1, <3>2, <4>1 DEF MessageInv
    <3>3. CASE m.type = "vectorOk"
      <4>1. m = Message(m.to, "vectorOk", NoVector)
        BY <1>s, <3>1, <3>3 DEF MessageInv
      <4>2. m.to # s
        BY <2>1, <3>1, <4>1
      <4> QED
        BY <1>s, <2>3, <3>1, <3>3, <4>2 DEF MessageInv
    <3> QED
      BY <2>5, <3>2, <3>3
  <2>6. \A t \in Server : /\ sender'[t] # "off" => sender[t] # "off"
                          /\ listener'[t] # "off" => listener[t] # "off"
                          /\ listener'[t] = "done" =>
                                Shared(Other(t)) /\ received'[t] = Result(Other(t))
    BY <1>s, <2>3 DEF ServerInv
  <2>7. /\ \A m \in net' \ net : m.type \in ExchangeType
        /\ \A m \in net \ net' : m.type \in ExchangeType
    BY <2>2, <2>3
  <2> QED
    BY <1>1, <2>5, <2>6, <2>7
<1> QED
  BY <1>2, <1>3, <1>4

\* A server that has both results writes the shuffled blocks.
LEMMA WriteBackValue ==
    ASSUME TypeOK, ShuffleInv, NEW s \in Server, WriteBack(s)
    PROVE  /\ stored' = [stored EXCEPT ![s] = Shuffled]
           /\ keystream' = [keystream EXCEPT ![s] = newStream[s]]
<1>1. ServerInv(s) /\ pc[s] = "exchange" /\ listener[s] = "done"
  BY DEF WriteBack, Joined, ShuffleInv
<1>2. xored[s] = Result(s) /\ received[s] = Result(Other(s))
  BY <1>1 DEF ServerInv
<1>3. XorVector(Result(s), Result(Other(s))) = Shuffled
  <2>1. ASSUME NEW i \in Index
        PROVE  Xor(Result(s)[i], Result(Other(s))[i])
                 = Xor(plain[evict_pi[i]], Xor(newStream[0][i], newStream[1][i]))
    <3>1. /\ Result(0)[i] = Xor(SumB(0)[i], newStream[0][i])
          /\ Result(1)[i] = Xor(Xor(SumB(0)[i], plain[evict_pi[i]]), newStream[1][i])
      BY DEF Result
    <3>2. CASE s = 0
      BY <3>1, <3>2, ExchangeCancels, OtherServer
    <3>3. CASE s = 1
      BY <3>1, <3>3, ExchangeCancels, OtherServer
    <3> QED
      BY <3>2, <3>3 DEF Server
  <2>2. DOMAIN Result(s) = Index
    BY DEF Result
  <2> QED
    BY <2>1, <2>2 DEF XorVector, Shuffled
<1> QED
  BY <1>2, <1>3 DEF WriteBack, TypeOK

\* The write of the buckets keeps the inductive invariant: both results
\* together are the shuffled blocks under the new masks.
LEMMA WriteBackInv ==
    ASSUME TypeOK, ShuffleInv, NEW s \in Server, WriteBack(s)
    PROVE  ShuffleInv'
<1>0. UNCHANGED <<chosen, full, punctured, vec, a, b, delta, received, ct>>
  BY DEF WriteBack
<1>f. /\ \A t \in Server : /\ SumA(t)' = SumA(t) /\ SumB(t)' = SumB(t)
                           /\ DeltaOf(t)' = DeltaOf(t) /\ Result(t)' = Result(t)
                           /\ Loaded(t)' = Loaded(t)
      /\ LocalBody' = LocalBody /\ Shuffled' = Shuffled
      /\ newStream' = newStream /\ plain' = plain
      /\ evict_pi' = evict_pi /\ sub_pi' = sub_pi
  BY <1>0, ChosenFixed, OtherServer DEF Loaded
<1>s. /\ \A t \in Server : ServerInv(t) /\ Other(t) \in Server
      /\ \A m \in net : MessageInv(m) /\ m.to \in Server /\ m = Message(m.to, m.type, m.body)
      /\ 0 \in Server /\ 1 \in Server
  BY Received, OtherServer DEF ShuffleInv
<1>1. PICK new : new = Message(s, "evictOk", NoVector)
  OBVIOUS
<1>2. new.to = s /\ new.type = "evictOk" /\ new.body = NoVector
  BY <1>1 DEF Message
<1>3. /\ net' = net \cup {new} /\ pc[s] = "exchange" /\ pc'[s] = "loop"
      /\ sender[s] = "done" /\ listener[s] = "done"
      /\ sender'[s] = "off" /\ listener'[s] = "off"
      /\ \A t \in Server : t # s =>
            /\ pc'[t] = pc[t] /\ sender'[t] = sender[t] /\ listener'[t] = listener[t]
            /\ xored'[t] = xored[t] /\ stored'[t] = stored[t] /\ keystream'[t] = keystream[t]
  BY <1>1 DEF WriteBack, Joined, TypeOK
<1>4. stored'[s] = Shuffled /\ keystream'[s] = newStream[s]
  BY WriteBackValue DEF TypeOK
<1>5. ct[s] = "evictWait" /\ Begun(s)
  BY <1>3, <1>s DEF ServerInv
<1>6. \A t \in Server : Begun(t)' = Begun(t)
  BY <1>0, <1>1, <1>3, MessageParts DEF Begun
<1>7. \A t \in Server : Shared(t)' = Shared(t)
  BY <1>3, <1>6 DEF Shared
<1>8. \A t \in Server : Share(t)' = Share(t)
  BY <1>0, <1>3, <1>5, <1>6, <1>s DEF Share, ShuffleInput, Server
<1>9. \A m \in net' : MessageInv(m)'
  <2> SUFFICES ASSUME NEW m \in net'
               PROVE  MessageInv(m)'
    OBVIOUS
  <2>1. CASE m = new
    BY <1>0, <1>2, <1>3, <1>5, <1>6, <2>1 DEF MessageInv
  <2>2. CASE m \in net
    <3>1. MessageInv(m) /\ m.to \in Server /\ Other(m.to) \in Server
      BY <1>s, <2>2
    <3>2. \A v \in net' : v.type = "vector" => v \in net
      BY <1>2, <1>3
    <3>3. /\ \A t : Message(t, "init", NoVector) \in net' => Message(t, "init", NoVector) \in net
          /\ Message(0, "CMD_SHARE", NoVector) \in net'
                => Message(0, "CMD_SHARE", NoVector) \in net
      BY <1>1, <1>3, MessageParts
    <3> QED
      BY <1>0, <1>f, <1>s, <1>3, <1>6, <1>7, <3>1, <3>2, <3>3 DEF MessageInv
  <2> QED
    BY <1>3, <2>1, <2>2
<1>10. \A t \in Server : ServerInv(t)'
  BY <1>0, <1>f, <1>s, <1>3, <1>4, <1>5, <1>6, <1>7 DEF ServerInv
<1> QED
  BY <1>f, <1>s, <1>8, <1>9, <1>10 DEF ShuffleInv

\* A step that changes nothing keeps the inductive invariant.
LEMMA StutterInv ==
    ASSUME ShuffleInv, UNCHANGED vars
    PROVE  ShuffleInv'
<1>1. UNCHANGED <<chosen, stored, keystream, full, punctured, vec, a, b, delta,
                  xored, received, net, ct, pc, sender, listener>>
  BY DEF vars, disk, memory, threads
<1>f. /\ \A t \in Server : /\ SumA(t)' = SumA(t) /\ SumB(t)' = SumB(t)
                           /\ DeltaOf(t)' = DeltaOf(t) /\ Result(t)' = Result(t)
                           /\ Loaded(t)' = Loaded(t)
      /\ LocalBody' = LocalBody /\ Shuffled' = Shuffled
      /\ newStream' = newStream /\ plain' = plain
      /\ evict_pi' = evict_pi /\ sub_pi' = sub_pi
  BY <1>1, ChosenFixed, OtherServer DEF Loaded
<1>2. \A t : Begun(t)' = Begun(t) /\ Share(t)' = Share(t) /\ Shared(t)' = Shared(t)
             /\ Loaded(t)' = Loaded(t)
             /\ Result(t)' = Result(t)
  BY <1>1 DEF Begun, Share, Shared, ShuffleInput, Loaded, Result, SumB, Rotated, chosen, XorVector,
       Puncture, RowSums, RowSum, Rotate, CircularShift, Other
<1>3. \A m \in net' : MessageInv(m)'
  BY <1>1, <1>f, <1>2, OtherServer DEF MessageInv, ShuffleInv, MaskFunc, XorVector
<1>4. \A t \in Server : ServerInv(t)'
  BY <1>1, <1>f, <1>2, OtherServer DEF ServerInv, ShuffleInv
<1> QED
  BY <1>1, <1>f, <1>2, <1>3, <1>4 DEF ShuffleInv

\* Every step of the client, a server or a thread keeps the inductive invariant.
LEMMA NextShuffleInv == TypeOK /\ ShuffleInv /\ [Next]_vars => ShuffleInv'
BY ClientStepInv, RecvInitInv, RecvEvictInv, ShareMessagesInv, FinishShareInv,
   ExchangeInv, WriteBackInv, StutterInv
   DEF Next, ServerStep, ShareStep, Finished

\* The invariant: every message and every server is where the protocol has
\* it, and the shares of the two servers always add up to the path.
THEOREM ShuffleInvariant == Spec => []ShuffleInv
BY InitTypeOK, NextTypeOK, InitShuffleInv, NextShuffleInv, PTL DEF Spec

-----------------------------------------------------------------------------
\* When both servers have acknowledged, their copies are identical, hold the
\* blocks of the path in the order of evict_pi, and carry the new masks.
THEOREM CopiesCorrect == Spec => []CopiesIdentical
<1>1. ShuffleInv => CopiesIdentical
  <2> SUFFICES ASSUME ShuffleInv, Done
               PROVE  /\ stored[0] = stored[1]
                      /\ \A s \in Server : \A i \in Index :
                             Xor(stored[s][i], Xor(keystream[0][i], keystream[1][i]))
                               = plain[evict_pi[i]]
    BY DEF CopiesIdentical
  <2>1. \A s \in Server : Begun(s) /\ pc[s] = "loop"
    <3>1. ASSUME NEW s \in Server
          PROVE  Message(s, "evict", NoVector) \notin net
      <4>1. Message(s, "evict", NoVector).to = s /\ Message(s, "evict", NoVector).type = "evict"
        BY DEF Message
      <4> QED
        BY <4>1 DEF ShuffleInv, MessageInv, Done
    <3> QED
      BY <3>1 DEF ShuffleInv, ServerInv, Begun, Done
  <2>2. \A s \in Server : stored[s] = Shuffled /\ keystream[s] = newStream[s]
    BY <2>1 DEF ShuffleInv, ServerInv
  <2>3. \A x, y : Xor(Xor(x, y), y) = x
    BY DEF Xor
  <2>4. ASSUME NEW s \in Server, NEW i \in Index
        PROVE  Xor(stored[s][i], Xor(keystream[0][i], keystream[1][i])) = plain[evict_pi[i]]
    <3>1. stored[s][i] = Xor(plain[evict_pi[i]], Xor(newStream[0][i], newStream[1][i]))
      BY <2>2 DEF Shuffled
    <3>2. keystream[0] = newStream[0] /\ keystream[1] = newStream[1]
      BY <2>2, OtherServer
    <3> QED
      BY <3>1, <3>2, <2>3
  <2> QED
    BY <2>2, <2>4, OtherServer
<1> QED
  BY <1>1, ShuffleInvariant, PTL

\* The eviction, step by step, implements ReplacedCopies: each server writes
\* once, nothing but the shuffled blocks, and acknowledges afterwards.
THEOREM ImplementsReplacedCopies ==
    Spec => Replaced!Init /\ [][Replaced!Next]_(Replaced!vars)
<1>1. Init => Replaced!Init
  <2> SUFFICES ASSUME Init
               PROVE  ReplyState = [s \in Server |-> "asked"]
    BY DEF Replaced!Init, Replaced!Server, Server
  <2> QED
    BY DEF Init, ReplyState
<1>2. TypeOK /\ ShuffleInv /\ [Next]_vars => [Replaced!Next]_(Replaced!vars)
  <2> SUFFICES ASSUME TypeOK, ShuffleInv, [Next]_vars
               PROVE  Replaced!Next \/ UNCHANGED <<Shuffled, stored, ReplyState>>
    BY DEF Replaced!vars
  <2> DEFINE Ack(t) == Message(t, "evictOk", NoVector)
  <2>c. UNCHANGED chosen => UNCHANGED Shuffled
    BY ChosenFixed
  <2>1. ASSUME NEW s \in Server, WriteBack(s)
        PROVE  Replaced!Replace(s)
    <3>1. /\ ct[s] = "evictWait" /\ Ack(s) \notin net
      <4>1. Ack(s).to = s /\ Ack(s).type = "evictOk"
        BY DEF Message
      <4>2. pc[s] = "exchange" /\ ServerInv(s)
        BY <2>1 DEF WriteBack, ShuffleInv
      <4> HIDE DEF Ack
      <4> QED
        BY <4>1, <4>2 DEF ServerInv, ShuffleInv, MessageInv
    <3>2. net' = net \cup {Ack(s)} /\ UNCHANGED <<chosen, ct>>
      BY <2>1 DEF WriteBack
    <3>3. \A t \in Server : t # s => (Ack(t) \in net' <=> Ack(t) \in net)
      BY <3>2, MessageParts
    <3> HIDE DEF Ack
    <3>4. /\ ReplyState[s] = "asked" /\ ReplyState'[s] = "replaced"
          /\ \A t \in Server : t # s => ReplyState'[t] = ReplyState[t]
      BY <3>1, <3>2, <3>3 DEF ReplyState, Ack
    <3>5. ReplyState' = [ReplyState EXCEPT ![s] = "replaced"]
      BY <3>4 DEF ReplyState
    <3>6. stored' = [stored EXCEPT ![s] = Shuffled]
      BY <2>1, WriteBackValue
    <3> QED
      BY <2>c, <3>2, <3>4, <3>5, <3>6 DEF Replaced!Replace
  <2>2. ASSUME NEW s \in Server, ClientEvictAck(s)
        PROVE  Replaced!Acknowledge(s)
    <3>1. /\ Ack(s) \in net /\ net' = net \ {Ack(s)} /\ ct[s] = "evictWait"
          /\ ct' = [ct EXCEPT ![s] = "done"] /\ UNCHANGED <<chosen, stored>>
      BY <2>2 DEF ClientEvictAck, Receive, Reply, disk
    <3>2. \A t \in Server : t # s => (Ack(t) \in net' <=> Ack(t) \in net)
      BY <3>1, MessageParts
    <3> HIDE DEF Ack
    <3>3. /\ ReplyState[s] = "replaced" /\ ReplyState'[s] = "acknowledged"
          /\ \A t \in Server : t # s => ReplyState'[t] = ReplyState[t]
      BY <3>1, <3>2 DEF ReplyState, TypeOK, Ack
    <3>4. ReplyState' = [ReplyState EXCEPT ![s] = "acknowledged"]
      BY <3>3 DEF ReplyState
    <3> QED
      BY <2>c, <3>1, <3>3, <3>4 DEF Replaced!Acknowledge
  <2>3. ASSUME UNCHANGED <<chosen, stored>>,
               \A t \in Server : /\ ct'[t] = "done" <=> ct[t] = "done"
                                 /\ Ack(t) \in net' <=> Ack(t) \in net
        PROVE  UNCHANGED <<Shuffled, stored, ReplyState>>
    <3> HIDE DEF Ack
    <3> QED
      BY <2>c, <2>3 DEF ReplyState, Ack
  <2>4. ASSUME NEW s \in Server, ClientSendInit(s) \/ ClientInitAck(s) \/ ClientSendEvict(s)
        PROVE  UNCHANGED <<Shuffled, stored, ReplyState>>
    <3>1. UNCHANGED <<chosen, stored>>
      BY <2>4 DEF ClientSendInit, ClientInitAck, ClientSendEvict, disk
    <3>2. \A t \in Server : ct'[t] = "done" <=> ct[t] = "done"
      BY <2>4 DEF ClientSendInit, ClientInitAck, ClientSendEvict, TypeOK
    <3>3. \A t \in Server : Ack(t) \in net' <=> Ack(t) \in net
      BY <2>4, MessageParts DEF ClientSendInit, ClientInitAck, ClientSendEvict, Reply
    <3> QED
      BY <2>3, <3>1, <3>2, <3>3
  <2>5. ASSUME NEW s \in Server,
               RecvInit(s) \/ RecvEvict(s) \/ SendVector(s) \/ ReceiveVector(s) \/ VectorAck(s)
        PROVE  UNCHANGED <<Shuffled, stored, ReplyState>>
    <3>1. UNCHANGED <<chosen, stored, ct>>
      BY <2>5 DEF RecvInit, RecvEvict, SendVector, ReceiveVector, VectorAck, disk
    <3>2. \A t \in Server : Ack(t) \in net' <=> Ack(t) \in net
      <4>1. CASE ReceiveVector(s)
        <5>1. PICK m \in net : /\ m.type = "vector"
                               /\ net' = (net \ {m}) \cup {Message(Other(s), "vectorOk", NoVector)}
          BY <4>1 DEF ReceiveVector, Reply
        <5>2. \A t : Ack(t).type = "evictOk"
          BY DEF Message
        <5> QED
          BY <5>1, <5>2, MessageParts
      <4>2. CASE ~ReceiveVector(s)
        BY <2>5, <4>2, MessageParts DEF RecvInit, RecvEvict, SendVector, VectorAck, Reply
      <4> QED
        BY <4>1, <4>2
    <3> QED
      BY <2>3, <3>1, <3>2
  <2>6. ASSUME ShareStep
        PROVE  UNCHANGED <<Shuffled, stored, ReplyState>>
    <3>1. UNCHANGED <<chosen, stored, ct>>
      BY <2>6 DEF ShareStep, ShareCmd, ShareOk, SendMasked, SendLocal, FinishShare1,
         FinishShare0, disk
    <3>2. \A t \in Server : Ack(t) \in net' <=> Ack(t) \in net
      <4>1. CASE SendLocal \/ FinishShare1
        <5>1. PICK m \in net : /\ m.type \in {"masked", "local"}
                               /\ \E r : \/ net' = (net \ {m}) \cup {Message(1, "local", r)}
                                        \/ net' = (net \ {m}) \cup {Message(0, "finished", r)}
          BY <4>1 DEF SendLocal, FinishShare1, Reply
        <5>2. \A t : Ack(t).type = "evictOk"
          BY DEF Message
        <5> QED
          BY <5>1, <5>2, MessageParts
      <4>2. CASE ShareCmd \/ ShareOk \/ SendMasked \/ FinishShare0
        BY <4>2, MessageParts DEF ShareCmd, ShareOk, SendMasked, FinishShare0, Reply
      <4> QED
        BY <2>6, <4>1, <4>2 DEF ShareStep
    <3> QED
      BY <2>3, <3>1, <3>2
  <2>7. CASE UNCHANGED vars
    BY <2>c, <2>7 DEF vars, disk, ReplyState
  <2>8. \A s \in Server : s \in Replaced!Server
    BY DEF Server, Replaced!Server
  <2> QED
    BY <2>1, <2>2, <2>4, <2>5, <2>6, <2>7, <2>8
       DEF Next, ClientStep, ServerStep, Finished, Replaced!Next
<1> QED
  BY <1>1, <1>2, TypeCorrect, ShuffleInvariant, PTL DEF Spec

\* The correction a server computes fits the sums of the other server.
THEOREM CorrectionsFit == Spec => []DeltaCorrect
<1>1. ShuffleInv => DeltaCorrect
  <2> SUFFICES ASSUME ShuffleInv, NEW s \in Server, NEW i \in Index,
                      pc[s] # "loop", pc[Other(s)] # "loop"
               PROVE  delta[s][i] = Xor(b[Other(s)][i], a[Other(s)][sub_pi[s][i]])
    BY DEF DeltaCorrect
  <2>1. /\ delta[s] = DeltaOf(s) /\ b[Other(s)] = SumB(Other(s))
        /\ a[Other(s)] = SumA(Other(s))
    BY OtherServer DEF ShuffleInv, ServerInv
  <2> QED
    BY <2>1 DEF DeltaOf
<1> QED
  BY <1>1, ShuffleInvariant, PTL

\* When the eviction is over, no message is left.
THEOREM NetworkEmpty == Spec => []NothingLeftOver
<1>1. TypeOK /\ ShuffleInv => NothingLeftOver
  <2> SUFFICES ASSUME TypeOK, ShuffleInv, Done, NEW m \in net
               PROVE  FALSE
    BY DEF NothingLeftOver
  <2>1. /\ MessageInv(m) /\ m.to \in Server /\ Other(m.to) \in Server
        /\ m.type \in MessageType
    BY OtherServer DEF ShuffleInv, TypeOK
  <2>2. \A s \in Server : ct[s] = "done" /\ pc[s] = "loop" /\ sender[s] = "off"
    BY DEF ShuffleInv, ServerInv, Done
  <2> QED
    BY <2>1, <2>2, OtherServer DEF MessageInv, MessageType
<1> QED
  BY <1>1, TypeCorrect, ShuffleInvariant, PTL
=============================================================================
