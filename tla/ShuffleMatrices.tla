-------------------------- MODULE ShuffleMatrices --------------------------
(***************************************************************************)
(* The vectors, matrices and permutations of an eviction, and the sums a    *)
(* server takes of its matrices.  A matrix is seen after the expansion of   *)
(* its seeds; the chunks of a block go through the same steps, so that a    *)
(* block is one word.                                                       *)
(***************************************************************************)
EXTENDS XorWords

CONSTANTS
    SIZE_PI,    \* entries of the vector
    Bit,        \* the bits of a word
    Zero        \* what zero_block, put in a punctured entry, expands to

ASSUME ShuffleAssumption ==
    /\ SIZE_PI \in Nat \ {0}
    /\ Zero \subseteq Bit

Index  == 0 .. SIZE_PI - 1
Server == {0, 1}
Other(s) == 1 - s
Word   == SUBSET Bit
Vector == [Index -> Word]
Matrix == [Index -> Vector]
Shift  == [Index -> Index]
Permutation == {p \in Shift : \A i, j \in Index : p[i] = p[j] => i = j}

\* Variant a run must reject: the rows are rotated the other way.
RotateLeft(m, c) ==
    [i \in Index |-> [j \in Index |-> m[i][(j + c[i]) % SIZE_PI]]]

\* efficient_rotate(): row i goes c[i] columns to the right.
Rotate(m, c) ==
    [i \in Index |-> [j \in Index |-> m[i][(j - c[i] + SIZE_PI) % SIZE_PI]]]

RowSum(m, i)    == XorSum(m[i], Index)
ColumnSum(m, j) == XorSum([i \in Index |-> m[i][j]], Index)
RowSums(m)      == [i \in Index |-> RowSum(m, i)]
ColumnSums(m)   == [j \in Index |-> ColumnSum(m, j)]
=============================================================================
