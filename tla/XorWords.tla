------------------------------ MODULE XorWords ------------------------------
(***************************************************************************)
(* Words of data under exclusive or.  A word is the set of its one bits.    *)
(***************************************************************************)
EXTENDS Integers, FiniteSets

\* a ^ b.
Xor(a, b) == (a \ b) \cup (b \ a)

\* The words of the family f over S that have bit e set.
With(f, S, e) == {j \in S : e \in f[j]}

\* The exclusive or of the words f[j], j \in S: the bits that are set in an
\* odd number of them.
XorSum(f, S) ==
    {e \in UNION {f[j] : j \in S} : Cardinality(With(f, S, e)) % 2 = 1}

\* The exclusive or of two vectors.
XorVector(f, g) == [j \in DOMAIN f |-> Xor(f[j], g[j])]
=============================================================================
