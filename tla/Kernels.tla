------------------------------ MODULE Kernels ------------------------------
(***************************************************************************)
(* The inner loops of a server: they go over a row of n words a few words   *)
(* at a time and finish the rest one by one.  A word that a loop leaves out, *)
(* takes twice or takes from the wrong place garbles one chunk of one block. *)
(***************************************************************************)
EXTENDS XorWords

CONSTANTS
    LANES,      \* words in a vector register
    BATCH,      \* counter blocks encrypted at a time
    HALVES,     \* words in an AES block
    CTR_MOD,    \* values of the counter in an IV
    CACHE_BLOCK_SIZE

ASSUME KernelsAssumption ==
    /\ LANES \in Nat \ {0} /\ BATCH \in Nat \ {0} /\ HALVES \in Nat \ {0}
    /\ CTR_MOD \in Nat \ {0} /\ CACHE_BLOCK_SIZE \in Nat \ {0}

\* Where "for (j = 0; j + w - 1 < n; j += w)" leaves j, the entries it has
\* gone over, and those its remainder loop goes over.
Stop(n, w)  == w * (n \div w)
Whole(n, w) == 0 .. Stop(n, w) - 1
Rest(n, w)  == Stop(n, w) .. n - 1

\* v ^ w on some of the entries, stored over v.
Combined(v, w, entries) ==
    [j \in DOMAIN v |-> IF j \in entries THEN Xor(v[j], w[j]) ELSE v[j]]

\* Variant a run must reject: the remainder loop starts over, at 0.
XorRowRestAgain(v, w, n) ==
    Combined(Combined(v, w, Whole(n, LANES)), w, 0 .. n - 1)

\* xor_vectors_optimized, thread_xorProduct_func and
\* thread_dotProduct_mask_func: the loop over whole registers, then that over
\* the remainder.
XorRow(v, w, n) ==
    Combined(Combined(v, w, Whole(n, LANES)), w, Rest(n, LANES))

-----------------------------------------------------------------------------
\* thread_dotProduct_func: the words whose mask is 1, the others as 0.
Selected(data, mask) == [j \in DOMAIN data |-> IF mask[j] = 1 THEN data[j] ELSE {}]

\* One of the four lanes of "acc", which takes eight words in two halves.
Lane(f, n, l) == XorSum(f, {j \in Whole(n, 8) : j % 4 = l})

\* With AVX2: the halves of acc are added up, then their halves, then the rest.
DotProductVector(data, mask, n) ==
    LET f == Selected(data, mask)
    IN  Xor(Xor(Xor(Lane(f, n, 0), Lane(f, n, 2)), Xor(Lane(f, n, 1), Lane(f, n, 3))),
            XorSum(f, Rest(n, 8)))

\* Without.
DotProductUnrolled(data, mask, n) ==
    LET f == Selected(data, mask)
    IN  Xor(XorSum(f, Whole(n, 4)), XorSum(f, Rest(n, 4)))

-----------------------------------------------------------------------------
\* transpose_parallel: the tiles an R x C matrix is cut into, the rows and
\* columns of tile <<i, j>>, and the cells of it that are written.
Least(x, y)     == IF x < y THEN x ELSE y
TilesAlong(n)   == (n + CACHE_BLOCK_SIZE - 1) \div CACHE_BLOCK_SIZE
TileSide(k, n)  == Least((k + 1) * CACHE_BLOCK_SIZE, n) - k * CACHE_BLOCK_SIZE
InTile(k, part) == {k * CACHE_BLOCK_SIZE + x : x \in part}

TileCells(i, j, R, C) ==
    LET h == TileSide(i, R)
        w == TileSide(j, C)
    IN  \* register by register, and what remains of their rows
        InTile(i, Whole(h, LANES)) \X (InTile(j, Whole(w, LANES)) \cup InTile(j, Rest(w, LANES)))
        \* and the rows that remain
        \cup InTile(i, Rest(h, LANES)) \X InTile(j, 0 .. w - 1)

\* A tile of src, R x C, is copied to its place in dst, C x R.
TransposeTile(src, dst, i, j, R, C) ==
    [q \in DOMAIN dst |->
        [p \in DOMAIN dst[q] |->
            IF <<p, q>> \in TileCells(i, j, R, C) THEN src[p][q] ELSE dst[q][p]]]

-----------------------------------------------------------------------------
\* generate_keystream_ctr: the AES blocks n words take; the loops start at
\* block i and encrypt k of them: BATCH, then one at a time.
NumBlocks(n) == (n + HALVES - 1) \div HALVES
Runs(n) ==
    {<<i, BATCH>> : i \in {x \in Whole(NumBlocks(n), BATCH) : x % BATCH = 0}}
    \cup {<<i, 1>> : i \in Rest(NumBlocks(n), BATCH)}

\* Variant a run must reject: a block that is not needed whole is left out.
CopiedWholeBlocks(i, k, n) ==
    i * HALVES .. i * HALVES + (IF (i + k) * HALVES <= n THEN k * HALVES ELSE 0) - 1

\* The words of the output that a run fills: the last block may be cut.
Copied(i, k, n) ==
    i * HALVES .. i * HALVES
                  + (IF (i + k) * HALVES <= n THEN k * HALVES ELSE n - i * HALVES) - 1

\* Word w of the run that starts at block i: a half of the block with counter
\* counter_base + i + j.
CounterOf(base, i, w) == (base + i + (w - i * HALVES) \div HALVES) % CTR_MOD
HalfOf(i, w)          == (w - i * HALVES) % HALVES

\* The n words of the stream, given what the blocks encrypt to; a word nobody
\* fills keeps what memory holds.
Keystream(aes, base, n, memory) ==
    [w \in 0 .. n - 1 |->
        IF \E r \in Runs(n) : w \in Copied(r[1], r[2], n)
        THEN LET r == CHOOSE r \in Runs(n) : w \in Copied(r[1], r[2], n)
             IN  aes[CounterOf(base, r[1], w)][HalfOf(r[1], w)]
        ELSE memory[w]]
=============================================================================
