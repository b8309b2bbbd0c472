----------------------------- MODULE EvictLoops -----------------------------
(***************************************************************************)
(* The parallel loops of ServerDuetORAM::evict, up to the call of           *)
(* secretShare: what RecvEvict of SecretSharedShuffle does in one step.     *)
(*                                                                          *)
(* Every OpenMP region is forked and joined by the main thread; a loop that *)
(* is not the last one of its region ends in a barrier.  A step of a thread *)
(* is what it does between two accesses to memory that other threads use.   *)
(* AES is computed by the engine of AESNIWrapper.hpp.  The masks have all   *)
(* chunks of a block; of the matrices and their sums, which are computed    *)
(* chunk by chunk in the same way, one chunk is seen.                       *)
(***************************************************************************)
EXTENDS ShuffleMatrices, Kernels, Sequences

CONSTANTS
    DATA_CHUNKS,
    MAX_THREADS,    \* omp_get_max_threads()
    ROUNDS          \* the last round key

ASSUME LoopsAssumption ==
    /\ DATA_CHUNKS \in Nat \ {0} /\ MAX_THREADS \in Nat \ {0} /\ ROUNDS \in Nat

Chunk   == 0 .. DATA_CHUNKS - 1
Thread  == 0 .. MAX_THREADS - 1
Matrices == {"full", "punctured"}

VARIABLES
    \* given, and never changed
    serverNo, numThreads, sub_pi,
    circularShift,  \* circularShift_1 and _2
    drawn,          \* the two matrices as the client's request left them
    aes,            \* what a counter block of an IV encrypts to
    counter,        \* the counter in every IV
    evict_vector,   \* the stored blocks
    \* shared by the threads
    roundKeys,      \* which round keys of the engine are those of mask_key
    keystream,
    vec,            \* evict_vector_for_shuffle
    matrix,         \* fullPermutation and receivedPuncturedPermutation
    a, b, delta,
    colAccum,       \* the column sums of every thread
    tile,           \* the next tile to be handed out
    \* of every thread
    team,           \* the threads of the region
    thread,         \* the loop, the iterations left and the step in the first
    temp,           \* temp_buffer
    rowSum, reg     \* the sum of its row, and a word it has loaded

given  == <<serverNo, numThreads, sub_pi, circularShift, drawn, aes, counter, evict_vector>>
sums   == <<a, b, delta, colAccum>>
shared == <<roundKeys, keystream, vec, matrix, sums, tile>>
vars   == <<given, shared, team, thread, temp, rowSum, reg>>

Order == <<"keystream", "transpose", "combine", "rotate1", "rotate2",
           "rows", "columns", "deltaRows", "deltaColumns">>
Loop  == 0 .. Len(Order) + 1    \* 0 before the first, then after the last

\* The loops that end in the barrier of their region.
Inner == {"rotate1", "rows", "deltaRows"}

Tiles == TilesAlong(SIZE_PI) * TilesAlong(DATA_CHUNKS)
Iterations(l) == IF Order[l] = "combine" THEN DATA_CHUNKS ELSE SIZE_PI

\* Variant a run must reject: the last slice is not cut.
SliceUncut(n, m, t) == LET q == (n + m - 1) \div m IN <<t * q, (t + 1) * q>>

\* schedule(static): n iterations, in one contiguous slice for each of m threads.
Slice(n, m, t) == <<(n * t + m - 1) \div m, (n * (t + 1) + m - 1) \div m>>

\* Thread t of m enters loop l; schedule(dynamic) hands out nothing yet.
Enter(l, m, t) ==
    LET s == IF t >= m \/ Order[l] = "transpose" THEN <<0, 0>>
             ELSE Slice(Iterations(l), m, t)
    IN  [loop |-> IF t < m THEN l ELSE 0, next |-> s[1], end |-> s[2], step |-> 0]

NoVector == [i \in Index |-> {}]

Init ==
    /\ serverNo \in Server
    /\ numThreads \in 1 .. MAX_THREADS
    /\ sub_pi \in Permutation
    /\ circularShift \in [{1, 2} -> Shift]
    /\ drawn \in [Matrices -> Matrix]
    /\ aes \in [Index -> [0 .. CTR_MOD - 1 -> [0 .. HALVES - 1 -> Word]]]
    /\ counter \in [Index -> 0 .. CTR_MOD - 1]
    /\ evict_vector \in [Chunk -> Vector]
    /\ roundKeys = [r \in 0 .. ROUNDS |-> TRUE]
    /\ keystream = [i \in Index |-> [c \in Chunk |-> {}]]
    /\ vec = [c \in Chunk |-> NoVector]
    /\ matrix = drawn
    \* What the last eviction left.
    /\ a \in Vector /\ b \in Vector /\ delta \in Vector
    /\ colAccum = [t \in Thread |-> NoVector]
    /\ tile = 0
    /\ team = {0}
    /\ thread = [t \in Thread |-> [loop |-> 0, next |-> 0, end |-> 0, step |-> 0]]
    /\ temp = [t \in Thread |-> NoVector]
    /\ rowSum = [t \in Thread |-> {}] /\ reg = [t \in Thread |-> {}]

-----------------------------------------------------------------------------
\* Thread t is at step n of an iteration of loop l.
Doing(t, l) ==
    /\ t \in team /\ thread[t].loop \in DOMAIN Order
    /\ Order[thread[t].loop] = l
    /\ thread[t].next < thread[t].end

It(t) == thread[t].next
StepOf(t) == thread[t].step

StepOn(t)   == thread' = [thread EXCEPT ![t].step = @ + 1]
NextItem(t) == thread' = [thread EXCEPT ![t].next = @ + 1, ![t].step = 0]

\* Thread t has no iteration of its loop left.
Finished(t) ==
    /\ thread[t].next = thread[t].end
    /\ thread[t].loop \in DOMAIN Order /\ Order[thread[t].loop] = "transpose" => tile = Tiles

-----------------------------------------------------------------------------
\* Variant a run must reject: the engine forgets its old round keys first.
ExpandedAnew(keys, r) ==
    [q \in DOMAIN keys |-> IF q < r THEN keys[q] ELSE q = r /\ (r = 0 \/ keys[r - 1])]

\* set_encrypt_key: a round key is computed from the one before it.
Expanded(keys, r) == [keys EXCEPT ![r] = r = 0 \/ keys[r - 1]]

\* Every call of generate_keystream_ctr expands the key again, in the engine
\* all threads share, ...
ExpandKey(t) ==
    /\ Doing(t, "keystream") /\ StepOf(t) <= ROUNDS
    /\ roundKeys' = Expanded(roundKeys, StepOf(t))
    /\ StepOn(t)
    /\ UNCHANGED <<given, keystream, vec, matrix, sums, tile, team, temp, rowSum, reg>>

\* ... and encrypts the counter blocks of its IV.
Encrypt(t) ==
    /\ Doing(t, "keystream") /\ StepOf(t) > ROUNDS
    /\ keystream' = [keystream EXCEPT ![It(t)] =
                        IF \A r \in DOMAIN roundKeys : roundKeys[r]
                        THEN Keystream(aes[It(t)], counter[It(t)], DATA_CHUNKS, @)
                        ELSE @]
    /\ NextItem(t)
    /\ UNCHANGED <<given, roundKeys, vec, matrix, sums, tile, team, temp, rowSum, reg>>

\* transpose_parallel: a thread takes a tile, and copies it.
TakeTile(t) ==
    /\ t \in team /\ thread[t].loop \in DOMAIN Order /\ Order[thread[t].loop] = "transpose"
    /\ thread[t].next = thread[t].end /\ tile < Tiles
    /\ thread' = [thread EXCEPT ![t].next = tile, ![t].end = tile + 1]
    /\ tile' = tile + 1
    /\ UNCHANGED <<given, roundKeys, keystream, vec, matrix, sums, team, temp, rowSum, reg>>

TileRow(n)    == n \div TilesAlong(DATA_CHUNKS)
TileColumn(n) == n % TilesAlong(DATA_CHUNKS)

CopyTile(t) ==
    /\ Doing(t, "transpose")
    /\ vec' = TransposeTile(keystream, vec, TileRow(It(t)), TileColumn(It(t)),
                            SIZE_PI, DATA_CHUNKS)
    /\ NextItem(t)
    /\ UNCHANGED <<given, roundKeys, keystream, matrix, sums, tile, team, temp, rowSum, reg>>

\* xor_vectors_optimized, on server 1 only.
Combine(t) ==
    /\ Doing(t, "combine")
    /\ vec' = [vec EXCEPT ![It(t)] = XorRow(@, evict_vector[It(t)], SIZE_PI)]
    /\ NextItem(t)
    /\ UNCHANGED <<given, roundKeys, keystream, matrix, sums, tile, team, temp, rowSum, reg>>

-----------------------------------------------------------------------------
\* efficient_rotate: the loops over arr1 and arr2, and the matrix of each.
Rotation == {"rotate1", "rotate2"}
ShiftOf(l) == circularShift[IF l = "rotate1" THEN 1 ELSE 2]
Arr(l) == IF (l = "rotate1") = (serverNo = 0) THEN "punctured" ELSE "full"

\* Variant a run must reject: the threads share the buffer.
BufferShared(t) == 0

\* temp_buffer is allocated by every thread.
Buffer(t) == t

\* The last entries are saved, the others move to the right, and those that
\* were saved go to the front.
SaveTail(t, l) ==
    /\ Doing(t, l) /\ StepOf(t) = 0
    /\ LET s == ShiftOf(l)[It(t)]
           row == matrix[Arr(l)][It(t)]
       IN  /\ s # 0
           /\ temp' = [temp EXCEPT ![Buffer(t)] =
                          [j \in Index |-> IF j < s THEN row[SIZE_PI - s + j] ELSE @[j]]]
    /\ StepOn(t)
    /\ UNCHANGED <<given, shared, team, rowSum, reg>>

SetRow(l, i, row) == matrix' = [matrix EXCEPT ![Arr(l)][i] = row]

MoveRight(t, l) ==
    /\ Doing(t, l) /\ StepOf(t) = 1
    /\ LET s == ShiftOf(l)[It(t)]
           row == matrix[Arr(l)][It(t)]
       IN  SetRow(l, It(t), [j \in Index |-> IF j >= s THEN row[j - s] ELSE row[j]])
    /\ StepOn(t)
    /\ UNCHANGED <<given, roundKeys, keystream, vec, sums, tile, team, temp, rowSum, reg>>

FillFront(t, l) ==
    /\ Doing(t, l) /\ StepOf(t) = 2
    /\ LET s == ShiftOf(l)[It(t)]
           row == matrix[Arr(l)][It(t)]
       IN  SetRow(l, It(t), [j \in Index |-> IF j < s THEN temp[Buffer(t)][j] ELSE row[j]])
    /\ NextItem(t)
    /\ UNCHANGED <<given, roundKeys, keystream, vec, sums, tile, team, temp, rowSum, reg>>

Unshifted(t, l) ==
    /\ Doing(t, l) /\ ShiftOf(l)[It(t)] = 0
    /\ NextItem(t)
    /\ UNCHANGED <<given, shared, team, temp, rowSum, reg>>

-----------------------------------------------------------------------------
\* The passes over the rows: of the full matrix for a and b, of the punctured
\* one for delta.
Passes == {"rows", "deltaRows"}
Scanned(l) == IF l = "rows" THEN "full" ELSE "punctured"

\* Variant a run must reject: the threads add to the same column sums.
MineShared(t) == 0

\* my_col.
Mine(t) == t

\* Entry j of the row is added to the sum of the row, and that of its column
\* is loaded ...
AddEntry(t, l) ==
    /\ Doing(t, l) /\ StepOf(t) < 2 * SIZE_PI /\ StepOf(t) % 2 = 0
    /\ LET j == StepOf(t) \div 2
       IN  /\ rowSum' = [rowSum EXCEPT ![t] =
                Xor(IF j = 0 THEN {} ELSE @, matrix[Scanned(l)][It(t)][j])]
           /\ reg' = [reg EXCEPT ![t] = colAccum[Mine(t)][j]]
    /\ StepOn(t)
    /\ UNCHANGED <<given, shared, team, temp>>

\* ... and stored.
AddColumn(t, l) ==
    /\ Doing(t, l) /\ StepOf(t) < 2 * SIZE_PI /\ StepOf(t) % 2 = 1
    /\ LET j == StepOf(t) \div 2
       IN  colAccum' = [colAccum EXCEPT ![Mine(t)][j] =
                            Xor(reg[t], matrix[Scanned(l)][It(t)][j])]
    /\ StepOn(t)
    /\ UNCHANGED <<given, roundKeys, keystream, vec, matrix, a, b, delta, tile,
                   team, temp, rowSum, reg>>

StoreRow(t, l) ==
    /\ Doing(t, l) /\ StepOf(t) = 2 * SIZE_PI
    /\ IF l = "rows"
       THEN b' = [b EXCEPT ![It(t)] = rowSum[t]] /\ UNCHANGED delta
       ELSE delta' = [delta EXCEPT ![It(t)] = rowSum[t]] /\ UNCHANGED b
    /\ NextItem(t)
    /\ UNCHANGED <<given, roundKeys, keystream, vec, matrix, a, colAccum, tile,
                   team, temp, rowSum, reg>>

\* The reduce passes add up column j of all threads, for a[j] ...
Merged(j) == XorSum([t \in Thread |-> colAccum[t][j]], Thread)

\* Variant a run must reject: the permutation is not inverted.
inv_sub_pi_same(j) == sub_pi[j]

\* The row whose column sub_pi has in place j.
inv_sub_pi(j) == CHOOSE i \in Index : sub_pi[i] = j

Reduce(t) ==
    /\ Doing(t, "columns")
    /\ a' = [a EXCEPT ![It(t)] = Merged(It(t))]
    /\ NextItem(t)
    /\ UNCHANGED <<given, roundKeys, keystream, vec, matrix, b, delta, colAccum, tile,
                   team, temp, rowSum, reg>>

\* ... and for the entry of delta whose row sub_pi sends to column j.
ReduceDelta(t) ==
    /\ Doing(t, "deltaColumns")
    /\ delta' = [delta EXCEPT ![inv_sub_pi(It(t))] = Xor(@, Merged(It(t)))]
    /\ NextItem(t)
    /\ UNCHANGED <<given, roundKeys, keystream, vec, matrix, a, b, colAccum, tile,
                   team, temp, rowSum, reg>>

-----------------------------------------------------------------------------
\* Variant a run must reject: nobody waits at the end of an inner loop.
ArrivedAlone(l) == TRUE

\* The barrier of loop l: all threads have come to it.
Arrived(l) == \A u \in team : thread[u].loop > l \/ Finished(u)

PassBarrier(t) ==
    /\ t \in team /\ thread[t].loop \in DOMAIN Order /\ Order[thread[t].loop] \in Inner
    /\ Finished(t) /\ Arrived(thread[t].loop)
    /\ thread' = [thread EXCEPT ![t] = Enter(@.loop + 1, Cardinality(team), t)]
    /\ UNCHANGED <<given, shared, team, temp, rowSum, reg>>

\* The main thread, thread 0 of every team, joins its team ...
Joinable ==
    \A t \in team : /\ thread[t].loop = thread[0].loop /\ Finished(t)
                    /\ thread[t].loop \in DOMAIN Order => Order[thread[t].loop] \notin Inner

\* ... and goes on to the next region: server 0 has no blocks to combine.
Following == IF thread[0].loop = 2 /\ serverNo = 0 THEN 4 ELSE thread[0].loop + 1

\* A team has the threads asked for, or fewer if the runtime has no more.
Asked(l) == IF Order[l] \in Rotation THEN numThreads ELSE MAX_THREADS

\* On the way it clears a, b and delta, and allocates column sums of 0.
Fork ==
    /\ Joinable /\ Following \in DOMAIN Order
    /\ \E m \in 1 .. Asked(Following) :
        /\ team' = 0 .. m - 1
        /\ thread' = [t \in Thread |-> Enter(Following, m, t)]
    /\ IF Order[Following] = "rows"
       THEN a' = NoVector /\ b' = NoVector /\ delta' = NoVector
       ELSE UNCHANGED <<a, b, delta>>
    /\ colAccum' = IF Order[Following] \in Passes
                   THEN [t \in Thread |-> NoVector] ELSE colAccum
    /\ UNCHANGED <<given, roundKeys, keystream, vec, matrix, tile, temp, rowSum, reg>>

\* After the last region secretShare is called.
Share ==
    /\ Joinable /\ thread[0].loop = Len(Order)
    /\ thread' = [t \in Thread |-> [loop |-> IF t = 0 THEN Len(Order) + 1 ELSE 0,
                                    next |-> 0, end |-> 0, step |-> 0]]
    /\ team' = {0}
    /\ UNCHANGED <<given, shared, temp, rowSum, reg>>

Ready == thread[0].loop = Len(Order) + 1
Done  == Ready /\ UNCHANGED vars

ThreadStep(t) ==
    \/ ExpandKey(t) \/ Encrypt(t)
    \/ TakeTile(t) \/ CopyTile(t) \/ Combine(t)
    \/ \E l \in Rotation :
          SaveTail(t, l) \/ MoveRight(t, l) \/ FillFront(t, l) \/ Unshifted(t, l)
    \/ \E l \in Passes : AddEntry(t, l) \/ AddColumn(t, l) \/ StoreRow(t, l)
    \/ Reduce(t) \/ ReduceDelta(t)
    \/ PassBarrier(t)

Next ==
    \/ \E t \in Thread : ThreadStep(t)
    \/ Fork \/ Share
    \/ Done

Spec == Init /\ [][Next]_vars
-----------------------------------------------------------------------------
\* Every variable has its type; slices and tiles are iterations of their loop.
TypeOK ==
    /\ roundKeys \in [0 .. ROUNDS -> BOOLEAN]
    /\ keystream \in [Index -> [Chunk -> Word]]
    /\ vec \in [Chunk -> Vector]
    /\ matrix \in [Matrices -> Matrix]
    /\ a \in Vector /\ b \in Vector /\ delta \in Vector
    /\ colAccum \in [Thread -> Vector] /\ temp \in [Thread -> Vector]
    /\ tile \in 0 .. Tiles
    /\ team \in {0 .. m - 1 : m \in 1 .. MAX_THREADS}
    /\ rowSum \in [Thread -> Word] /\ reg \in [Thread -> Word]
    /\ thread \in [Thread -> [loop : Loop, next : Nat, end : Nat, step : Nat]]
    /\ \A t \in Thread :
        LET h == thread[t]
        IN  /\ h.next <= h.end
            /\ h.loop \in DOMAIN Order =>
                 h.end <= IF Order[h.loop] = "transpose" THEN Tiles ELSE Iterations(h.loop)
            /\ h.step \in 0 .. 2 * SIZE_PI \cup 0 .. ROUNDS + 1

\* The cells of memory a thread reads, and those it writes, in its next step.
Accesses(t) ==
    LET i == It(t)
        n == StepOf(t)
        j == n \div 2
        Cells(l, r, w) == IF Doing(t, l) THEN {<<"r", x>> : x \in r} \cup {<<"w", x>> : x \in w}
                          ELSE {}
        Row(l) == {<<Arr(l), i>>}
        Buf == {<<"temp", Buffer(t)>>}
        Rotating(l) ==
            IF ShiftOf(l)[i] = 0 THEN {}
            ELSE Cells(l, IF n = 0 THEN Row(l) ELSE Row(l) \cup Buf, IF n = 0 THEN Buf ELSE Row(l))
        Summing(l, sum) ==
            IF n = 2 * SIZE_PI THEN Cells(l, {}, {<<sum, i>>})
            ELSE Cells(l, {<<Scanned(l), i>>, <<"colAccum", Mine(t), j>>},
                          IF n % 2 = 1 THEN {<<"colAccum", Mine(t), j>>} ELSE {})
        Merging(l, sum) == Cells(l, {<<"colAccum", u, i>> : u \in Thread}, {sum})
        Tile == TileCells(TileRow(i), TileColumn(i), SIZE_PI, DATA_CHUNKS)
        Column == {<<"vec", i, k>> : k \in Index}
        Keys(rounds) == {<<"roundKeys", r>> : r \in rounds}
    IN  UNION {
            Cells("keystream", Keys(IF n > ROUNDS THEN 0 .. ROUNDS ELSE {n - 1} \cap 0 .. ROUNDS),
                               IF n > ROUNDS THEN {<<"keystream", i>>} ELSE Keys({n})),
            Cells("transpose", {<<"keystream", x[1]>> : x \in Tile},
                               {<<"vec", x[2], x[1]>> : x \in Tile}),
            Cells("combine", Column, Column),
            IF Doing(t, "rotate1") THEN Rotating("rotate1") ELSE {},
            IF Doing(t, "rotate2") THEN Rotating("rotate2") ELSE {},
            Summing("rows", "b"), Summing("deltaRows", "delta"),
            Merging("columns", <<"a", i>>),
            IF Doing(t, "deltaColumns")
            THEN Merging("deltaColumns", <<"delta", inv_sub_pi(i)>>) ELSE {}}

\* A round key, which a thread that expands the key again does not change.
KeptKey(cell) == cell[1] = "roundKeys" /\ Expanded(roundKeys, cell[2]) = roundKeys

\* No thread writes what another one is about to read or write: slices, tiles,
\* private buffers and barriers keep them apart (the comments of evict() claim
\* it loop by loop: "no races").  The round keys of the engine are the
\* exception: all threads write and read them at the same time, but what they
\* write is what is there.
RaceFree ==
    \A t, w \in team : t # w =>
        \A x \in Accesses(t), y \in Accesses(w) :
            x[2] = y[2] => (x[1] = "r" /\ y[1] = "r") \/ KeptKey(x[2])

\* Word c of the mask of slot i: what the client computes for the IV.
MaskWord(i, c) == aes[i][(counter[i] + c \div HALVES) % CTR_MOD][c % HALVES]

\* Whatever the threads do to the engine they share, every chunk of every slot
\* goes into the shuffle under its mask, and on server 1 with its block.
VectorExact ==
    thread[0].loop > 3 => \A c \in Chunk, i \in Index :
        vec[c][i] = IF serverNo = 0 THEN MaskWord(i, c)
                    ELSE Xor(MaskWord(i, c), evict_vector[c][i])

\* The matrix of a server after its rotation, as RecvEvict has it.
Rotated(m) ==
    Rotate(drawn[m], circularShift[IF (m = "punctured") = (serverNo = 0) THEN 1 ELSE 2])

\* However many threads there are and however they interleave, the sums are
\* those of the rotated matrices: every entry is counted once in its row and
\* once in its column, and delta takes the column sub_pi sends its row to.
SumsExact ==
    /\ thread[0].loop > 7 => /\ a = ColumnSums(Rotated("full"))
                            /\ b = RowSums(Rotated("full"))
    /\ Ready => delta = [i \in Index |->
                            Xor(RowSum(Rotated("punctured"), i),
                                ColumnSum(Rotated("punctured"), sub_pi[i]))]

\* A pass over the rows begins when no row is on its way any more.
RotatedBeforeSums ==
    \A t \in team, l \in Passes :
        Doing(t, l) => matrix[Scanned(l)] = Rotated(Scanned(l))
-----------------------------------------------------------------------------
(***************************************************************************)
(* Why these properties hold: the inductive invariant.  Loops are named by  *)
(* their place in Order.                                                    *)
(***************************************************************************)
\* The iterations of loop l that thread t of the team has still to do, and
\* those somebody has; of the transposition, the tiles.
SliceOf(l, t) == LET s == Slice(Iterations(l), Cardinality(team), t) IN s[1] .. s[2] - 1
Left(l, t) ==
    IF thread[t].loop < l THEN SliceOf(l, t)
    ELSE IF thread[t].loop = l THEN thread[t].next .. thread[t].end - 1
    ELSE {}
Ahead(l)   == UNION {Left(l, t) : t \in team}
TilesAhead ==
    (tile .. Tiles - 1)
    \cup {k \in 0 .. Tiles - 1 : \E t \in team : Doing(t, "transpose") /\ It(t) = k}

GivenInv ==
    /\ serverNo \in Server /\ numThreads \in 1 .. MAX_THREADS
    /\ sub_pi \in Permutation /\ circularShift \in [{1, 2} -> Shift]
    /\ drawn \in [Matrices -> Matrix]
    /\ aes \in [Index -> [0 .. CTR_MOD - 1 -> [0 .. HALVES - 1 -> Word]]]
    /\ counter \in [Index -> 0 .. CTR_MOD - 1]
    /\ evict_vector \in [Chunk -> Vector]

\* The last step of an iteration.
LastStep(l) ==
    CASE l = 1 -> ROUNDS + 1
      [] l \in {4, 5} -> 2
      [] l \in {6, 8} -> 2 * SIZE_PI
      [] OTHER -> 0

\* A thread is in its slice, or has a tile that was handed out; it is within
\* an iteration only if it has one.
ThreadInv ==
    \A t \in Thread :
        LET h == thread[t]
            l == h.loop
        IN  /\ t \notin team => l = 0
            /\ l \notin DOMAIN Order => h.next = 0 /\ h.end = 0
            /\ l \in DOMAIN Order \ {2} =>
                  LET s == Slice(Iterations(l), Cardinality(team), t)
                  IN  s[1] <= h.next /\ h.end = s[2]
            /\ l = 2 => h.end <= h.next + 1 /\ h.end <= tile
            /\ l = 3 => serverNo = 1
            /\ h.step # 0 => /\ h.next < h.end
                             /\ h.step <= LastStep(l)
                             /\ l \in {4, 5} => ShiftOf(Order[l])[h.next] # 0

\* A team is in one loop, or on the two sides of a barrier, which nobody has
\* passed before the others have come to it.  No two threads have one tile.
TeamInv ==
    /\ \A t, u \in team :
        /\ thread[t].loop < thread[u].loop =>
              /\ thread[t].loop \in {4, 6, 8} /\ thread[u].loop = thread[t].loop + 1
              /\ thread[t].next = thread[t].end
        /\ Doing(t, "transpose") /\ Doing(u, "transpose") /\ It(t) = It(u) => t = u
    /\ thread[0].loop < 2 => tile = 0
    /\ thread[0].loop > 2 => tile = Tiles

\* The round keys are those of mask_key at any moment; what is not ahead any
\* more is masked, and combined.
VectorInv ==
    /\ roundKeys = [r \in 0 .. ROUNDS |-> TRUE]
    /\ \A i \in Index \ Ahead(1), c \in Chunk : keystream[i][c] = MaskWord(i, c)
    /\ \A c \in Chunk, i \in Index :
        (\A k \in TilesAhead :
            <<i, c>> \notin TileCells(TileRow(k), TileColumn(k), SIZE_PI, DATA_CHUNKS))
        => vec[c][i] = IF serverNo = 0 \/ c \in Ahead(3) THEN MaskWord(i, c)
                       ELSE Xor(MaskWord(i, c), evict_vector[c][i])

\* A row with its last entries saved and the others moved.
Moved(l, i) ==
    [j \in Index |-> LET s == ShiftOf(l)[i]
                     IN  drawn[Arr(l)][i][IF j >= s THEN j - s ELSE j]]

\* A row is as it was drawn, in the middle of its rotation, or rotated.
RotationInv ==
    \A l \in {4, 5} :
        LET name == Order[l]
            m    == Arr(name)
        IN  /\ \A i \in Index \ Ahead(l) : matrix[m][i] = Rotated(m)[i]
            /\ \A i \in Ahead(l) :
                  matrix[m][i] = IF \E t \in team : Doing(t, name) /\ It(t) = i /\ StepOf(t) = 2
                                 THEN Moved(name, i) ELSE drawn[m][i]
            /\ \A t \in team : Doing(t, name) /\ StepOf(t) > 0 =>
                  LET s == ShiftOf(name)[It(t)]
                  IN  \A j \in 0 .. s - 1 : temp[t][j] = drawn[m][It(t)][SIZE_PI - s + j]

\* The rows thread t has added to its sum of column j.
Counted(l, t, j) ==
    IF t \notin team THEN {}
    ELSE (SliceOf(l, t) \ Left(l, t))
         \cup {i \in {It(t)} : Doing(t, Order[l]) /\ j < StepOf(t) \div 2}

ColumnOf(m, j) == [i \in Index |-> m[i][j]]

\* In a pass over the rows every thread has the sum of the entries it has
\* seen of its row and of every column.
PassInv(l) ==
    LET M == Rotated(Scanned(Order[l]))
    IN  /\ thread[0].loop \in {l, l + 1} =>
              \A t \in Thread, j \in Index :
                  colAccum[t][j] = XorSum(ColumnOf(M, j), Counted(l, t, j))
        /\ \A t \in team : Doing(t, Order[l]) /\ StepOf(t) > 0 =>
              /\ rowSum[t] = XorSum(M[It(t)], 0 .. ((StepOf(t) + 1) \div 2) - 1)
              /\ StepOf(t) % 2 = 1 => reg[t] = colAccum[t][StepOf(t) \div 2]

SumsInv ==
    /\ PassInv(6) /\ PassInv(8)
    /\ \A i \in Index \ Ahead(6) : b[i] = RowSum(Rotated("full"), i)
    /\ \A j \in Index \ Ahead(7) : a[j] = ColumnSum(Rotated("full"), j)
    /\ \A i \in Index \ Ahead(8) :
        LET sum == RowSum(Rotated("punctured"), i)
        IN  delta[i] = IF sub_pi[i] \in Ahead(9) THEN sum
                       ELSE Xor(sum, ColumnSum(Rotated("punctured"), sub_pi[i]))

LoopsInv ==
    TypeOK /\ GivenInv /\ ThreadInv /\ TeamInv /\ VectorInv /\ RotationInv /\ SumsInv
=============================================================================
