---------------------------- MODULE MCEvictLoops ----------------------------
(***************************************************************************)
(* The loops on independent words: every entry, every half of a block and   *)
(* every stored word is a bit of its own.                                   *)
(***************************************************************************)
EXTENDS EvictLoops

CONSTANT Multipliers    \* bound: slopes of the lines of shifts

MCBit  == (1 .. 5) \X Index \X (0 .. CTR_MOD + SIZE_PI + DATA_CHUNKS) \X (0 .. HALVES - 1)
MCZero == {}

MCInit ==
    /\ drawn = [m \in Matrices |-> [i \in Index |-> [j \in Index |->
                   {<<IF m = "full" THEN 1 ELSE 2, i, j, 0>>}]]]
    /\ aes = [i \in Index |-> [n \in 0 .. CTR_MOD - 1 |-> [h \in 0 .. HALVES - 1 |->
                   {<<3, i, n, h>>}]]]
    /\ evict_vector = [c \in Chunk |-> [i \in Index |-> {<<4, i, c, 0>>}]]
    /\ LET Stale(k) == [i \in Index |-> {<<5, i, k, 0>>}]
       IN  a = Stale(0) /\ b = Stale(1) /\ delta = Stale(2)
    /\ \E k \in Multipliers :
          circularShift = [x \in {1, 2} |-> [i \in Index |-> (k * i + x) % SIZE_PI]]
    \* Also counters that wrap around.
    /\ counter = [i \in Index |-> (CTR_MOD - 1 + i) % CTR_MOD]
    /\ Init

MCSpec == MCInit /\ [][Next]_vars
=============================================================================
