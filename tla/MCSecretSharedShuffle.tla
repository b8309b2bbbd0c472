----------------------- MODULE MCSecretSharedShuffle -----------------------
(***************************************************************************)
(* The shuffle on independent words: every entry of every matrix, mask and  *)
(* vector is a bit of its own.  All steps are linear in them, so what holds *)
(* for these words holds for all words.                                     *)
(***************************************************************************)
EXTENDS SecretSharedShuffle

CONSTANT Multipliers    \* bound: slopes of the lines of punctured columns

Fresh(kind, s)       == [i \in Index |-> {<<kind, s, i, 0>>}]
FreshMatrix(kind, s) == [i \in Index |-> [j \in Index |-> {<<kind, s, i, j>>}]]

MCBit  == ((1 .. 6) \X Server \X Index \X Index)
MCZero == {<<6, 0, 0, 0>>}

MCInit ==
    /\ random = [s \in Server |-> FreshMatrix(1, s)]
    /\ newStream = [s \in Server |-> Fresh(2, s)]
    /\ plain = Fresh(3, 0)
    /\ keystream = [s \in Server |-> Fresh(4, s)]
    /\ stored = [s \in Server |->
                    IF s = 0 THEN Fresh(5, 0)
                    ELSE XorVector(plain, XorVector(keystream[0], keystream[1]))]
    /\ \E k \in [Server -> Multipliers] :
          u = [s \in Server |-> [i \in Index |-> (k[s] * i + s) % SIZE_PI]]
    /\ Init

MCSpec == MCInit /\ [][Next]_vars /\ Fairness
=============================================================================
