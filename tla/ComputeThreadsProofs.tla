------------------------ MODULE ComputeThreadsProofs ------------------------
(***************************************************************************)
(* For every number of chunks and of threads: the rounds of a job compute   *)
(* every chunk once and in order, the handles fit their array, and only     *)
(* threads are joined if the number of threads is one that is created.  A   *)
(* server that was given no threads computes nothing.                       *)
(***************************************************************************)
EXTENDS ComputeThreads, TLAPS

\* Division and multiplication of natural numbers, as the proofs need them.
LEMMA Division ==
    \A x \in Nat, n \in Nat \ {0} :
        /\ x \div n \in Nat
        /\ n * (x \div n) <= x
        /\ x < n * (x \div n) + n
  BY Z3

\* Multiplication is monotone ...
LEMMA MulMono == \A x, y, z \in Nat : x <= y => x * z <= y * z
  BY Z3

\* ... and strictly so where it makes a difference.
LEMMA MulStrict == \A x, y, z \in Nat : x * z < y * z => x < y
  BY Z3

\* Division rounded up.
LEMMA Ceil ==
    ASSUME NEW c \in Nat \ {0}, NEW n \in Nat \ {0},
           NEW s, s = (c + n - 1) \div n
    PROVE  s \in Nat \ {0} /\ c <= n * s
  BY Division, Z3

-----------------------------------------------------------------------------
(***************************************************************************)
(* How the chunks are dealt out.                                            *)
(***************************************************************************)

\* The prompt lets only 0 to nthreads pass: a negative answer becomes a large
\* unsigned number.
LEMMA PromptFacts == ThreadCounts \subseteq 0 .. nthreads
<1> SUFFICES ASSUME NEW n \in ThreadCounts PROVE n \in 0 .. nthreads
  OBVIOUS
<1>1. /\ INT_MAX \in Nat /\ nthreads \in 1 .. INT_MAX
      /\ n \in -INT_MAX - 1 .. INT_MAX /\ Accepted(n)
  BY ThreadsAssumption DEF ThreadCounts
<1> QED
  BY <1>1 DEF Accepted

\* Every thread gets at least one chunk, and all threads together get them all.
LEMMA StepFacts ==
    ASSUME numThreads \in ThreadCounts \ {0}
    PROVE  /\ step \in Nat \ {0}
           /\ DATA_CHUNKS <= numThreads * step
           /\ numThreads \in Nat \ {0}
           /\ DATA_CHUNKS \in Nat \ {0}
<1>1. numThreads \in Nat \ {0} /\ DATA_CHUNKS \in Nat \ {0}
  BY PromptFacts, ThreadsAssumption
<1> QED
  BY <1>1, Ceil DEF step

\* The ranges of a thread that is created are within the chunks, and the
\* threads that are created are the first ones, at most numThreads.
LEMMA CreatedFacts ==
    ASSUME numThreads \in ThreadCounts \ {0}
    PROVE  /\ \A t \in Nat : startIdx(t) \in Nat /\ endIdx(t) \in Nat
                             /\ endIdx(t) <= DATA_CHUNKS
                             /\ endIdx(t) <= startIdx(t) + step
           /\ \A t \in Created : startIdx(t) < endIdx(t)
           /\ \A t \in Created : t < numThreads
           /\ \A t \in Nat : startIdx(t) < DATA_CHUNKS => t \in Created
           /\ \A t \in Created, w \in Nat : w <= t => w \in Created
           /\ Created \subseteq Nat
           /\ DATA_CHUNKS \notin Created
<1>0. step \in Nat \ {0} /\ DATA_CHUNKS <= numThreads * step
      /\ numThreads \in Nat \ {0} /\ DATA_CHUNKS \in Nat \ {0}
  BY StepFacts
<1> HIDE DEF step
<1>1. Created \subseteq Nat /\ Handle \subseteq Nat
  BY <1>0 DEF Created, Handle
<1>2. \A t \in Nat : startIdx(t) \in Nat /\ t <= startIdx(t)
  <2> SUFFICES ASSUME NEW t \in Nat PROVE t * step \in Nat /\ t <= t * step
    BY DEF startIdx
  <2>1. t * step \in Nat
    BY <1>0, Z3
  <2>2. t * 1 <= t * step
    BY <1>0, Z3
  <2> QED
    BY <2>1, <2>2
<1>3. \A t \in Nat : /\ endIdx(t) \in Nat /\ endIdx(t) <= DATA_CHUNKS
                     /\ endIdx(t) <= startIdx(t) + step
                     /\ startIdx(t) < DATA_CHUNKS => startIdx(t) < endIdx(t)
  BY <1>0, <1>2 DEF endIdx
<1>4. \A t \in Nat : startIdx(t) < DATA_CHUNKS => t \in Created
  BY <1>0, <1>2 DEF Created, Handle
<1>5. \A t \in Created : startIdx(t) < DATA_CHUNKS
  BY DEF Created
<1>6. \A t \in Created : t < numThreads
  <2> SUFFICES ASSUME NEW t \in Created PROVE t < numThreads
    OBVIOUS
  <2>1. t * step < numThreads * step
    BY <1>0, <1>1, <1>2, <1>5, Z3 DEF startIdx
  <2> QED
    BY <2>1, <1>0, <1>1, MulStrict
<1>7. \A t \in Created, w \in Nat : w <= t => w \in Created
  <2> SUFFICES ASSUME NEW t \in Created, NEW w \in Nat, w <= t PROVE w \in Created
    OBVIOUS
  <2>1. w * step <= t * step
    BY <1>0, <1>1, MulMono
  <2>2. startIdx(w) < DATA_CHUNKS
    BY <2>1, <1>0, <1>1, <1>2, <1>5 DEF startIdx
  <2> QED
    BY <2>2, <1>4
<1>8. DATA_CHUNKS \notin Created
  BY <1>0, <1>2, <1>5
<1> QED
  BY <1>1, <1>2, <1>3, <1>4, <1>5, <1>6, <1>7, <1>8

\* Every chunk is in the share of a thread that is created ...
LEMMA SharesCover ==
    ASSUME numThreads \in ThreadCounts \ {0}, NEW c \in Chunk
    PROVE  \E t \in Created : c \in Share(t)
<1>0. step \in Nat \ {0} /\ DATA_CHUNKS \in Nat \ {0} /\ c \in Nat /\ c < DATA_CHUNKS
  BY StepFacts DEF Chunk
<1> HIDE DEF step
<1> DEFINE t == c \div step
<1>1. t \in Nat /\ step * t <= c /\ c < step * t + step
  BY <1>0, Division
<1> HIDE DEF t
<1>2. step * t = t * step /\ t * step \in Nat
  BY <1>0, <1>1, Z3
<1>3. startIdx(t) <= c /\ c < startIdx(t) + step
  BY <1>0, <1>1, <1>2 DEF startIdx
<1>4. t \in Created
  BY <1>0, <1>1, <1>2, <1>3, CreatedFacts DEF startIdx
<1>5. c < endIdx(t)
  BY <1>0, <1>3 DEF endIdx
<1> QED
  BY <1>3, <1>4, <1>5 DEF Share

\* ... and of no other thread.
LEMMA SharesDisjoint ==
    ASSUME numThreads \in ThreadCounts \ {0}, NEW t \in Created, NEW w \in Created,
           t # w
    PROVE  Share(t) \cap Share(w) = {}
<1>0. step \in Nat \ {0} /\ t \in Nat /\ w \in Nat
  BY StepFacts, CreatedFacts
<1> HIDE DEF step
<1>1. \A x, y \in Nat : x < y => x * step + step <= y * step
  <2> SUFFICES ASSUME NEW x \in Nat, NEW y \in Nat, x < y
               PROVE  x * step + step <= y * step
    OBVIOUS
  <2>1. (x + 1) * step <= y * step
    BY <1>0, MulMono
  <2>2. (x + 1) * step = x * step + step
    BY <1>0, Z3
  <2> QED
    BY <2>1, <2>2
<1>2. \A x, y \in Created : x < y => endIdx(x) <= startIdx(y)
  <2> SUFFICES ASSUME NEW x \in Created, NEW y \in Created, x < y
               PROVE  endIdx(x) <= startIdx(y)
    OBVIOUS
  <2>1. x \in Nat /\ y \in Nat
    BY CreatedFacts
  <2>2. startIdx(x) + step <= startIdx(y)
    BY <1>1, <2>1 DEF startIdx
  <2>3. /\ startIdx(x) \in Nat /\ endIdx(x) \in Nat /\ startIdx(y) \in Nat
        /\ endIdx(x) <= startIdx(x) + step
    BY <2>1, CreatedFacts
  <2> HIDE DEF startIdx, endIdx
  <2> QED
    BY <2>2, <2>3, <1>0
<1> QED
  BY <1>0, <1>2, CreatedFacts DEF Share, Chunk

\* Every round joins at least the threads it has created, and no more if all
\* numThreads of them are.
LEMMA JoinBoundFacts ==
    ASSUME numThreads \in ThreadCounts \ {0}
    PROVE  /\ JoinBound \in 0 .. numThreads
           /\ \A t \in Created : t < JoinBound
           /\ job[round] # "numThreads" => \A t \in Nat : t < JoinBound => t \in Created
           /\ job[round] = "numThreads" => JoinBound = numThreads
<1>0. numThreads \in Nat \ {0} /\ DATA_CHUNKS \in Nat \ {0}
  BY StepFacts
<1>1. CASE job[round] = "numThreads"
  BY <1>0, <1>1, CreatedFacts DEF JoinBound
<1>2. CASE job[round] # "numThreads"
  <2> DEFINE First(n) == n \notin Created /\ \A t \in 0 .. n - 1 : t \in Created
  <2>1. \E n \in 0 .. DATA_CHUNKS : First(n)
    <3> SUFFICES ASSUME \A n \in 0 .. DATA_CHUNKS : ~First(n) PROVE FALSE
      OBVIOUS
    <3>1. step \in Nat \ {0}
      BY StepFacts
    <3> DEFINE N == (DATA_CHUNKS + step - 1) \div step
    <3>2. N \in Nat \ {0} /\ DATA_CHUNKS <= step * N
      <4> HIDE DEF step
      <4> QED
        BY <1>0, <3>1, Ceil
    <3>3. step * N <= DATA_CHUNKS + step - 1
      <4> HIDE DEF step
      <4> QED
        BY <1>0, <3>1, Division
    <3> HIDE DEF N, step
    <3>4. N * step = step * N /\ (N - 1) * step = step * N - step
          /\ N - 1 <= (N - 1) * step
      BY <3>1, <3>2, Z3
    <3>5. step * N \in Nat
      BY <3>1, <3>2, Z3
    <3>6. ~ (startIdx(N) < DATA_CHUNKS) /\ startIdx(N - 1) < DATA_CHUNKS
      BY <1>0, <3>1, <3>2, <3>3, <3>4, <3>5 DEF startIdx
    <3>7. N - 1 \in Created /\ N \notin Created
      BY <3>2, <3>6, CreatedFacts DEF Created
    <3>8. N \in 0 .. DATA_CHUNKS
      BY <1>0, <3>1, <3>2, <3>3, <3>4, <3>5
    <3>9. \A t \in 0 .. N - 1 : t \in Created
      BY <3>2, <3>7, CreatedFacts
    <3> QED
      BY <3>7, <3>8, <3>9
  <2>2. JoinBound \in 0 .. DATA_CHUNKS /\ First(JoinBound)
    BY <1>2, <2>1 DEF JoinBound
  <2>3. \A t \in Created : t < JoinBound
    BY <2>2, CreatedFacts
  <2>4. JoinBound <= numThreads
    <3>1. CASE JoinBound = 0
      BY <3>1, <1>0
    <3>2. CASE JoinBound # 0
      <4>1. JoinBound - 1 \in Created
        BY <2>2, <3>2, <1>0
      <4> QED
        BY <4>1, <2>2, <1>0, CreatedFacts
    <3> QED
      BY <3>1, <3>2
  <2> QED
    BY <1>2, <2>2, <2>3, <2>4, <1>0
<1> QED
  BY <1>1, <1>2

-----------------------------------------------------------------------------
(***************************************************************************)
(* The invariant.                                                           *)
(***************************************************************************)
IInv == TypeOK /\ numThreads # 0 /\ Progress

LEMMA InitInv == Init /\ numThreads # 0 => IInv
<1> SUFFICES ASSUME Init, numThreads # 0 PROVE IInv
  OBVIOUS
<1>1. numThreads \in Nat \ {0} /\ DATA_CHUNKS \in Nat \ {0}
  BY StepFacts DEF Init
<1>2. Created \subseteq Handle
  BY DEF Created
<1>3. TypeOK
  BY <1>1, PromptFacts DEF Init, TypeOK
<1>4. Progress
  BY <1>1, <1>2 DEF Init, Progress, Retrieve, Begun, AheadInv
<1> QED
  BY <1>3, <1>4 DEF IInv

\* How chunks are dealt out depends on the number of threads only.
LEMMA SameShares ==
    ASSUME numThreads' = numThreads
    PROVE  /\ step' = step
           /\ Created' = Created
           /\ \A t : startIdx(t)' = startIdx(t)
           /\ \A t : endIdx(t)' = endIdx(t)
           /\ \A t : Share(t)' = Share(t)
<1>1. step' = step
  BY DEF step
<1>2. \A t : startIdx(t)' = startIdx(t)
  BY <1>1 DEF startIdx
<1>3. \A t : endIdx(t)' = endIdx(t)
  BY <1>1, <1>2 DEF endIdx
<1>4. \A t : Share(t)' = Share(t)
  BY <1>2, <1>3 DEF Share
<1>5. Created' = Created
  BY <1>2 DEF Created
<1> QED
  BY <1>1, <1>2, <1>3, <1>4, <1>5

\* The rounds of a job.
LEMMA JobLengths == \A rounds \in {Retrieve, Evict} : Len(rounds) \in {2, 4}
  BY DEF Retrieve, Evict

\* What the types say, without the functions.
LEMMA Types ==
    ASSUME TypeOK, numThreads # 0
    PROVE  /\ numThreads \in ThreadCounts \ {0} /\ numThreads \in Nat \ {0}
           /\ numThreads \in 1 .. nthreads
           /\ DATA_CHUNKS \in Nat \ {0}
           /\ i \in Nat /\ i <= numThreads
           /\ round \in 0 .. 4 /\ round \in Nat
           /\ Len(job) \in {2, 4}
           /\ Handle \subseteq Nat
           /\ Created \subseteq Handle
           /\ \A t : Share(t) \subseteq Chunk
  BY StepFacts, JobLengths DEF TypeOK, Handle, Created, Share

\* A job starts with every chunk in round 0.
LEMMA StartInv ==
    ASSUME IInv, NEW rounds \in {Retrieve, Evict}, Start(rounds)
    PROVE  IInv'
<1> USE DEF Start
<1>1. TypeOK'
  BY Types DEF IInv, TypeOK
<1>2. Progress'
  <2>1. /\ (pc = "loop" <=> round = 0)'
        /\ (round <= Len(job))'
        /\ (pc = "create" => \A t \in Handle : t < i => t \in Created)'
        /\ (pc = "loop" => \A c, d \in Chunk : done[c] = done[d])'
    BY JobLengths, Types DEF IInv
  <2>2. (\A t \in Handle \ Created : thread[t] = "none")'
    BY SameShares DEF IInv, Progress
  <2>3. ASSUME NEW t \in Created
        PROVE  ~Begun(t)' /\ AheadInv(t)'
    <3>1. ~Begun(t) /\ ~Begun(t)'
      BY Types DEF IInv, Begun
    <3>2. (thread[t] \in {"none", "joined"})'
      BY <3>1 DEF IInv, Progress, AheadInv
    <3>3. \A c \in Share(t) : done'[c] = round' - 1
      BY Types DEF IInv
    <3> QED
      BY <3>1, <3>2, <3>3, SameShares DEF AheadInv
  <2> QED
    BY <2>1, <2>2, <2>3, SameShares DEF Progress
<1> QED
  BY <1>1, <1>2 DEF IInv

\* A thread is created with its first chunk before it.
LEMMA CreateInv ==
    ASSUME IInv, Create
    PROVE  IInv'
<1> USE DEF Create
<1>0. i \in Created /\ i < numThreads /\ i \in Handle
  BY Types, CreatedFacts DEF IInv
<1> PICK n \in Created : n = i
  BY <1>0
<1>1. TypeOK'
  <2>1. startIdx(i) \in 0 .. DATA_CHUNKS
    BY Types, CreatedFacts DEF IInv
  <2>2. i' \in 0 .. numThreads
    BY <1>0, Types DEF IInv
  <2>3. (\A t \in Handle : t >= numThreads => thread[t] = "none")'
    BY <1>0, Types DEF IInv, TypeOK
  <2> QED
    BY <2>1, <2>2, <2>3 DEF IInv, TypeOK
<1>2. Progress'
  <2>1. /\ (pc = "loop" <=> round = 0)'
        /\ (round <= Len(job))'
        /\ (pc = "loop" => \A c, d \in Chunk : done[c] = done[d])'
    BY DEF IInv, Progress
  <2>2. (pc = "create" => \A t \in Handle : t < i => t \in Created)'
    BY <1>0, Types, SameShares DEF IInv, Progress
  <2>3. (\A t \in Handle \ Created : thread[t] = "none")'
    BY <1>0, Types, SameShares DEF IInv, Progress, TypeOK
  <2>4. ASSUME NEW t \in Created, t # n
        PROVE  /\ Begun(t)' <=> Begun(t)
               /\ BegunInv(t)' <=> BegunInv(t)
               /\ AheadInv(t)' <=> AheadInv(t)
    <3>1. thread'[t] = thread[t] /\ at'[t] = at[t]
      BY <2>4, Types DEF IInv, TypeOK
    <3>2. Begun(t)' <=> Begun(t)
      BY <1>0, <2>4, Types DEF IInv, Begun
    <3>3. startIdx(t)' = startIdx(t) /\ endIdx(t)' = endIdx(t) /\ Share(t)' = Share(t)
      BY SameShares
    <3> QED
      BY <3>1, <3>2, <3>3 DEF BegunInv, AheadInv
  <2>5. Begun(n)' /\ BegunInv(n)'
    <3>1. Begun(n)'
      BY <1>0, Types DEF IInv, Begun
    <3>2. thread'[n] = "running" /\ at'[n] = startIdx(n)
      BY <1>0 DEF IInv, TypeOK
    <3>3. startIdx(n) \in Nat /\ endIdx(n) \in Nat /\ startIdx(n) <= endIdx(n)
      BY <1>0, Types, CreatedFacts DEF IInv
    <3>4. \A c \in Share(n) : done[c] = round - 1
      BY <1>0, Types DEF IInv, Progress, Begun, AheadInv
    <3>5. \A c \in Share(n) : ~ (c < startIdx(n))
      BY <3>3 DEF Share, Chunk
    <3>6. startIdx(n)' = startIdx(n) /\ endIdx(n)' = endIdx(n) /\ Share(n)' = Share(n)
      BY SameShares
    <3> QED
      BY <3>1, <3>2, <3>3, <3>4, <3>5, <3>6 DEF BegunInv
  <2> QED
    BY <2>1, <2>2, <2>3, <2>4, <2>5, SameShares DEF IInv, Progress
<1> QED
  BY <1>1, <1>2 DEF IInv

\* All threads of the round are there when the creating loop ends.
LEMMA CreatedAllInv ==
    ASSUME IInv, CreatedAll
    PROVE  IInv'
<1> USE DEF CreatedAll
<1>1. TypeOK'
  BY Types DEF IInv, TypeOK
<1>2. Progress'
  <2>1. /\ (pc = "loop" <=> round = 0)'
        /\ (round <= Len(job))'
        /\ (pc = "create" => \A t \in Handle : t < i => t \in Created)'
        /\ (\A t \in Handle \ Created : thread[t] = "none")'
        /\ (pc = "loop" => \A c, d \in Chunk : done[c] = done[d])'
    BY SameShares DEF IInv, Progress
  <2>2. ASSUME NEW t \in Created
        PROVE  Begun(t)' /\ BegunInv(t)'
    <3>1. i \notin Created
      <4>1. startIdx(i) \in Nat /\ DATA_CHUNKS \in Nat
        BY Types, CreatedFacts DEF IInv
      <4> QED
        BY <4>1 DEF Created
    <3>2. t < i
      BY <3>1, Types, CreatedFacts DEF IInv
    <3>3. Begun(t) /\ Begun(t)'
      BY <3>2 DEF Begun
    <3>6. BegunInv(t)
      BY <3>3 DEF IInv, Progress
    <3>4. ~ (t < i')
      BY Types DEF IInv
    <3>5. startIdx(t)' = startIdx(t) /\ endIdx(t)' = endIdx(t) /\ Share(t)' = Share(t)
      BY SameShares
    <3> QED
      BY <3>2, <3>3, <3>4, <3>5, <3>6, Types DEF IInv, BegunInv
  <2> QED
    BY <2>1, <2>2, SameShares DEF Progress
<1> QED
  BY <1>1, <1>2 DEF IInv

\* A thread that runs is one of this round.
LEMMA RunningFacts ==
    ASSUME IInv, NEW t \in Handle, thread[t] = "running"
    PROVE  t \in Created /\ Begun(t) /\ BegunInv(t) /\ pc # "loop"
  BY DEF IInv, Progress, AheadInv, Begun

\* A thread computes a chunk of its own.
LEMMA ComputeInv ==
    ASSUME IInv, NEW t \in Handle, Compute(t)
    PROVE  IInv' /\ at[t] \in Share(t) /\ done[at[t]] = round - 1 /\ round # 0
<1> USE DEF Compute
<1>1. t \in Created /\ Begun(t) /\ BegunInv(t) /\ pc # "loop" /\ t \in Nat
  BY RunningFacts, Types DEF IInv
<1>2. /\ startIdx(t) \in Nat /\ endIdx(t) \in Nat /\ endIdx(t) <= DATA_CHUNKS
      /\ at[t] \in Nat /\ startIdx(t) <= at[t] /\ at[t] + 1 <= endIdx(t)
  BY <1>1, Types, CreatedFacts DEF IInv, BegunInv
<1>3. at[t] \in Share(t) /\ at[t] \in Chunk
  BY <1>2, Types DEF Share, Chunk, IInv
<1>4. done[at[t]] = round - 1
  BY <1>1, <1>2, <1>3 DEF BegunInv
<1>5. TypeOK'
  BY <1>2, <1>3, Types DEF IInv, TypeOK
<1>6. Progress'
  <2>1. /\ (pc = "loop" <=> round = 0)'
        /\ (round <= Len(job))'
        /\ (pc = "create" => \A w \in Handle : w < i => w \in Created)'
        /\ (\A w \in Handle \ Created : thread[w] = "none")'
        /\ (pc = "loop" => \A c, d \in Chunk : done[c] = done[d])'
    BY <1>1, SameShares DEF IInv, Progress
  <2>2. ASSUME NEW w \in Created, w # t
        PROVE  /\ Begun(w)' <=> Begun(w)
               /\ BegunInv(w)' <=> BegunInv(w)
               /\ AheadInv(w)' <=> AheadInv(w)
    <3>1. at'[w] = at[w]
      BY <2>2, Types DEF IInv, TypeOK
    <3>2. \A c \in Share(w) : done'[c] = done[c]
      BY <1>1, <1>3, <2>2, Types, SharesDisjoint DEF IInv, TypeOK
    <3>3. startIdx(w)' = startIdx(w) /\ endIdx(w)' = endIdx(w) /\ Share(w)' = Share(w)
      BY SameShares
    <3> QED
      BY <3>1, <3>2, <3>3 DEF Begun, BegunInv, AheadInv
  <2>3. Begun(t)' /\ BegunInv(t)'
    <3>1. at'[t] = at[t] + 1
      BY DEF IInv, TypeOK
    <3>2. \A c \in Share(t) : done'[c] = IF c < at[t] + 1 THEN round ELSE round - 1
      <4> SUFFICES ASSUME NEW c \in Share(t)
                   PROVE  done'[c] = IF c < at[t] + 1 THEN round ELSE round - 1
        OBVIOUS
      <4>1. c \in Chunk /\ c \in Nat
        BY Types DEF IInv, Chunk
      <4>2. CASE c = at[t]
        BY <4>1, <4>2, <1>2 DEF IInv, TypeOK
      <4>3. CASE c # at[t]
        <5>1. done'[c] = done[c]
          BY <4>1, <4>3 DEF IInv, TypeOK
        <5>2. c < at[t] + 1 <=> c < at[t]
          BY <4>1, <4>3, <1>2
        <5> QED
          BY <5>1, <5>2, <1>1 DEF BegunInv
      <4> QED
        BY <4>2, <4>3
    <3>3. startIdx(t)' = startIdx(t) /\ endIdx(t)' = endIdx(t) /\ Share(t)' = Share(t)
      BY SameShares
    <3>4. at[t] + 1 \in startIdx(t) .. endIdx(t)
      BY <1>2
    <3> QED
      BY <3>1, <3>2, <3>3, <3>4, <1>1 DEF Begun, BegunInv
  <2> QED
    BY <2>1, <2>2, <2>3, SameShares DEF IInv, Progress
<1>7. round # 0
  BY <1>1 DEF IInv, Progress
<1> QED
  BY <1>3, <1>4, <1>5, <1>6, <1>7 DEF IInv

\* It exits after its last one.
LEMMA ExitInv ==
    ASSUME IInv, NEW t \in Handle, Exit(t)
    PROVE  IInv'
<1> USE DEF Exit
<1>1. t \in Created /\ Begun(t) /\ BegunInv(t) /\ pc # "loop" /\ t \in Nat
  BY RunningFacts, Types DEF IInv
<1>2. at[t] = endIdx(t)
  <2>1. startIdx(t) \in Nat /\ endIdx(t) \in Nat
    BY <1>1, Types, CreatedFacts DEF IInv
  <2> QED
    BY <1>1, <2>1 DEF BegunInv
<1>3. TypeOK'
  BY DEF IInv, TypeOK
<1>4. Progress'
  <2>1. /\ (pc = "loop" <=> round = 0)'
        /\ (round <= Len(job))'
        /\ (pc = "create" => \A w \in Handle : w < i => w \in Created)'
        /\ (pc = "loop" => \A c, d \in Chunk : done[c] = done[d])'
    BY SameShares DEF IInv, Progress
  <2>2. (\A w \in Handle \ Created : thread[w] = "none")'
    BY <1>1, SameShares DEF IInv, Progress, TypeOK
  <2>3. ASSUME NEW w \in Created, w # t
        PROVE  /\ Begun(w)' <=> Begun(w)
               /\ BegunInv(w)' <=> BegunInv(w)
               /\ AheadInv(w)' <=> AheadInv(w)
    <3>1. thread'[w] = thread[w]
      BY <2>3, Types DEF IInv, TypeOK
    <3>2. startIdx(w)' = startIdx(w) /\ endIdx(w)' = endIdx(w) /\ Share(w)' = Share(w)
      BY SameShares
    <3> QED
      BY <3>1, <3>2 DEF Begun, BegunInv, AheadInv
  <2>4. Begun(t)' /\ BegunInv(t)'
    <3>1. thread'[t] = "exited"
      BY DEF IInv, TypeOK
    <3>2. startIdx(t)' = startIdx(t) /\ endIdx(t)' = endIdx(t) /\ Share(t)' = Share(t)
      BY SameShares
    <3> QED
      BY <3>1, <3>2, <1>1, <1>2 DEF Begun, BegunInv
  <2> QED
    BY <2>1, <2>2, <2>3, <2>4, SameShares DEF IInv, Progress
<1> QED
  BY <1>3, <1>4 DEF IInv

\* The main thread joins a thread of this round.
LEMMA JoinInv ==
    ASSUME IInv, Join
    PROVE  IInv'
<1> USE DEF Join
<1>1. i \in Created /\ i \in Nat
  BY Types DEF IInv, Progress
<1> PICK n \in Created : n = i
  BY <1>1
<1>2. TypeOK'
  <2>1. i' \in 0 .. numThreads
    BY <1>1, Types, JoinBoundFacts DEF IInv
  <2>2. (\A t \in Handle : t >= numThreads => thread[t] = "none")'
    BY <1>1, Types, CreatedFacts DEF IInv, TypeOK
  <2> QED
    BY <2>1, <2>2 DEF IInv, TypeOK
<1>3. Progress'
  <2>1. /\ (pc = "loop" <=> round = 0)'
        /\ (round <= Len(job))'
        /\ (pc = "create" => \A w \in Handle : w < i => w \in Created)'
        /\ (pc = "loop" => \A c, d \in Chunk : done[c] = done[d])'
    BY DEF IInv, Progress
  <2>2. (\A w \in Handle \ Created : thread[w] = "none")'
    BY <1>1, SameShares DEF IInv, Progress, TypeOK
  <2>3. ASSUME NEW t \in Created
        PROVE  Begun(t)' /\ BegunInv(t)'
    <3>1. Begun(t) /\ BegunInv(t) /\ Begun(t)'
      BY DEF IInv, Progress, Begun
    <3>2. startIdx(t)' = startIdx(t) /\ endIdx(t)' = endIdx(t) /\ Share(t)' = Share(t)
      BY SameShares
    <3>3. t \in Nat /\ t \in Handle
      BY Types DEF IInv
    <3>4. CASE t = n
      <4>1. thread'[t] = "joined" /\ thread[t] = "exited" /\ t < i'
        BY <1>1, <3>3, <3>4 DEF IInv, TypeOK
      <4> QED
        BY <3>1, <3>2, <4>1 DEF BegunInv
    <3>5. CASE t # n
      <4>1. thread'[t] = thread[t] /\ (t < i' <=> t < i)
        BY <1>1, <3>3, <3>5 DEF IInv, TypeOK
      <4> QED
        BY <3>1, <3>2, <4>1 DEF BegunInv
    <3> QED
      BY <3>4, <3>5
  <2> QED
    BY <2>1, <2>2, <2>3, SameShares DEF Progress
<1> QED
  BY <1>2, <1>3 DEF IInv

\* It joins no thread only after it has joined all it created.
LEMMA JoinNoThreadInv ==
    ASSUME IInv, JoinNoThread
    PROVE  IInv' /\ i \notin Created
<1> USE DEF JoinNoThread
<1>1. i \notin Created
  <2> SUFFICES ASSUME i \in Created PROVE FALSE
    OBVIOUS
  <2>1. Begun(i) /\ BegunInv(i) /\ i \in Handle
    BY Types DEF IInv, Progress, Begun
  <2>2. thread[i] = "joined"
    BY <2>1 DEF BegunInv
  <2> QED
    BY <2>1, <2>2, Types DEF IInv, BegunInv
<1>2. TypeOK'
  BY DEF IInv, TypeOK
<1>3. Progress'
  <2>1. /\ (pc = "loop" <=> round = 0)'
        /\ (round <= Len(job))'
        /\ (pc = "create" => \A w \in Handle : w < i => w \in Created)'
        /\ (pc = "loop" => \A c, d \in Chunk : done[c] = done[d])'
        /\ (\A w \in Handle \ Created : thread[w] = "none")'
    BY SameShares DEF IInv, Progress
  <2>2. ASSUME NEW t \in Created
        PROVE  Begun(t)' /\ BegunInv(t)'
    <3>1. Begun(t) /\ BegunInv(t) /\ Begun(t)'
      BY DEF IInv, Progress, Begun
    <3>2. startIdx(t)' = startIdx(t) /\ endIdx(t)' = endIdx(t) /\ Share(t)' = Share(t)
      BY SameShares
    <3> QED
      BY <3>1, <3>2 DEF BegunInv
  <2> QED
    BY <2>1, <2>2, SameShares DEF Progress
<1> QED
  BY <1>1, <1>2, <1>3 DEF IInv

\* When a round is over, every chunk has been computed in it.
LEMMA JoinedAllInv ==
    ASSUME IInv, JoinedAll
    PROVE  IInv' /\ \A t \in Handle : thread[t] # "running"
<1> USE DEF JoinedAll
<1>1. \A t \in Created : /\ thread[t] = "joined"
                          /\ \A c \in Share(t) : done[c] = round
  <2> SUFFICES ASSUME NEW t \in Created
               PROVE  thread[t] = "joined" /\ \A c \in Share(t) : done[c] = round
    OBVIOUS
  <2>1. Begun(t) /\ BegunInv(t)
    BY DEF IInv, Progress, Begun
  <2>2. t < i
    BY Types, CreatedFacts, JoinBoundFacts DEF IInv
  <2>3. thread[t] = "joined" /\ at[t] = endIdx(t)
    BY <2>1, <2>2 DEF BegunInv
  <2>4. \A c \in Share(t) : c < endIdx(t)
    BY DEF Share
  <2> QED
    BY <2>1, <2>3, <2>4 DEF BegunInv
<1>2. \A c \in Chunk : done[c] = round
  BY <1>1, SharesCover, Types DEF IInv
<1>3. round \in Nat /\ round # 0 /\ Len(job) \in {2, 4}
  BY Types DEF IInv, Progress
<1>4. TypeOK'
  <2>1. i' \in 0 .. numThreads
    BY Types DEF IInv
  <2>2. round' \in 0 .. 4
    <3>1. CASE round < Len(job)
      <4>1. round' = round + 1
        BY <3>1
      <4> PICK len \in {2, 4} : len = Len(job)
        BY <1>3
      <4>2. round < 4
        BY <3>1, <1>3
      <4> HIDE DEF JoinedAll
      <4> QED
        BY <4>1, <4>2, <1>3
    <3>2. CASE ~ (round < Len(job))
      BY <3>2
    <3> QED
      BY <3>1, <3>2
  <2>3. pc' \in {"loop", "create", "join", "undefined"}
    OBVIOUS
  <2> QED
    BY <2>1, <2>2, <2>3 DEF IInv, TypeOK
<1>5. Progress'
  <2>1. /\ (pc = "loop" <=> round = 0)'
        /\ (round <= Len(job))'
        /\ (pc = "create" => \A w \in Handle : w < i => w \in Created)'
        /\ (\A w \in Handle \ Created : thread[w] = "none")'
        /\ (pc = "loop" => \A c, d \in Chunk : done[c] = done[d])'
    BY <1>2, <1>3, SameShares, Types DEF IInv, Progress
  <2>2. ASSUME NEW t \in Created
        PROVE  ~Begun(t)' /\ AheadInv(t)'
    <3>1. ~Begun(t)'
      BY Types DEF IInv, Begun
    <3>2. (pc = "create" => \A c \in Share(t) : done[c] = round - 1)'
      BY <1>1, <1>3, SameShares
    <3> QED
      BY <1>1, <3>1, <3>2 DEF AheadInv
  <2> QED
    BY <2>1, <2>2, SameShares DEF Progress
<1>6. \A t \in Handle : thread[t] # "running"
  BY <1>1 DEF IInv, Progress
<1> QED
  BY <1>4, <1>5, <1>6 DEF IInv

\* Every step preserves the invariant.
LEMMA NextInv == IInv /\ [Next]_vars => IInv'
<1> SUFFICES ASSUME IInv, [Next]_vars PROVE IInv'
  OBVIOUS
<1>1. CASE \E rounds \in {Retrieve, Evict} : Start(rounds) \/ StartNone(rounds)
  BY <1>1, StartInv DEF IInv, StartNone
<1>2. CASE Create
  BY <1>2, CreateInv
<1>3. CASE CreatedAll
  BY <1>3, CreatedAllInv
<1>4. CASE Join
  BY <1>4, JoinInv
<1>5. CASE JoinNoThread
  BY <1>5, JoinNoThreadInv
<1>6. CASE JoinedAll
  BY <1>6, JoinedAllInv
<1>7. ASSUME NEW t \in Handle, Compute(t) \/ Exit(t) PROVE IInv'
  BY <1>7, ComputeInv, ExitInv
<1>8. CASE UNCHANGED vars
  BY <1>8, SameShares DEF vars, IInv, TypeOK, Progress, Begun, BegunInv, AheadInv
<1> QED
  BY <1>1, <1>2, <1>3, <1>4, <1>5, <1>6, <1>7, <1>8 DEF Next

\* A server that was given no threads: the answer 0 has passed the prompt.
ZInv == TypeOK /\ numThreads = 0 /\ RoundInv

\* It never gets beyond the division.
LEMMA ZeroInv ==
    /\ Init /\ numThreads = 0 => ZInv
    /\ ZInv /\ [Next]_vars => ZInv' /\ done' = done
<1>1. ASSUME Init, numThreads = 0 PROVE ZInv
  <2>1. numThreads \in 0 .. nthreads /\ DATA_CHUNKS \in Nat \ {0}
    BY <1>1, PromptFacts, ThreadsAssumption DEF Init
  <2>2. TypeOK
    BY <1>1, <2>1 DEF Init, TypeOK
  <2> QED
    BY <1>1, <2>2 DEF Init, ZInv, RoundInv
<1>2. ASSUME ZInv, [Next]_vars PROVE ZInv' /\ done' = done
  <2>1. pc \in {"loop", "undefined"} /\ \A t \in Handle : thread[t] = "none"
    BY <1>2 DEF ZInv, RoundInv
  <2>2. CASE \E rounds \in {Retrieve, Evict} : StartNone(rounds)
    BY <1>2, <2>2 DEF StartNone, ZInv, RoundInv, TypeOK
  <2>3. CASE UNCHANGED vars
    BY <1>2, <2>3 DEF vars, ZInv, RoundInv, TypeOK
  <2>4. CASE \/ \E rounds \in {Retrieve, Evict} : Start(rounds)
             \/ Create \/ CreatedAll \/ Join \/ JoinNoThread \/ JoinedAll
    BY <1>2, <2>1, <2>4 DEF ZInv, Start, Create, CreatedAll, Join, JoinNoThread, JoinedAll
  <2>5. ASSUME NEW t \in Handle, Compute(t) \/ Exit(t) PROVE FALSE
    BY <2>1, <2>5 DEF Compute, Exit
  <2> QED
    BY <1>2, <2>2, <2>3, <2>4, <2>5 DEF Next
<1> QED
  BY <1>1, <1>2

\* One or the other holds from the start and in every step.
LEMMA EveryServer ==
    /\ Init => IInv \/ ZInv
    /\ (IInv \/ ZInv) /\ [Next]_vars => (IInv \/ ZInv)'
  BY InitInv, ZeroInv, NextInv

\* The invariant of the rounds: every thread is where the loops of the main
\* thread have it, and its chunks are as far as it is; a server that was given
\* no threads creates none.
THEOREM RoundInvariant == Spec => [](TypeOK /\ RoundInv)
<1>1. IInv \/ ZInv => TypeOK /\ RoundInv
  BY DEF IInv, ZInv, RoundInv
<1> QED
  BY <1>1, EveryServer, PTL DEF Spec

\* The prompt lets 0 to nthreads pass and nothing else, whatever int the user
\* answers, and the handles of the threads that are created fit thread_compute.
THEOREM HandlesFit == Spec => []TypeOK
  BY RoundInvariant, PTL

\* No chunk is skipped, computed twice, or computed from stale data, whatever
\* the number of threads.
THEOREM ChunksInOrder == Spec => RoundsInOrder
<1> DEFINE InOrder == \A c \in Chunk : done'[c] # done[c] =>
                          done'[c] = IF round = 0 THEN 0 ELSE done[c] + 1
<1>1. IInv /\ [Next]_vars => [InOrder]_vars
  <2> SUFFICES ASSUME IInv, Next PROVE InOrder
    OBVIOUS
  <2>1. CASE \E rounds \in {Retrieve, Evict} : Start(rounds) \/ StartNone(rounds)
    BY <2>1 DEF Start, StartNone, IInv, Progress
  <2>2. CASE Create \/ CreatedAll \/ Join \/ JoinNoThread \/ JoinedAll
    BY <2>2 DEF Create, CreatedAll, Join, JoinNoThread, JoinedAll
  <2>3. ASSUME NEW t \in Handle, Compute(t) PROVE InOrder
    <3>1. done[at[t]] = round - 1 /\ round # 0 /\ round \in Nat
      BY <2>3, ComputeInv, Types DEF IInv
    <3>2. \A c \in Chunk : done'[c] # done[c] => c = at[t] /\ done'[c] = round
      BY <2>3 DEF Compute, IInv, TypeOK
    <3> QED
      BY <3>1, <3>2
  <2>4. ASSUME NEW t \in Handle, Exit(t) PROVE InOrder
    BY <2>4 DEF Exit
  <2> QED
    BY <2>1, <2>2, <2>3, <2>4 DEF Next
<1>3. ZInv /\ [Next]_vars => [InOrder]_vars
  BY ZeroInv
<1>2. Spec => [][InOrder]_vars
  BY <1>1, <1>3, EveryServer, PTL DEF Spec
<1> QED
  BY <1>2 DEF RoundsInOrder

\* When retrieve() or evict() returns, no thread is left that could write to
\* its vectors, and all chunks are equally far.
THEOREM JobsComplete == Spec => []JobComplete
<1>1. IInv => JobComplete
  BY DEF IInv, Progress, JobComplete, Begun, AheadInv
<1>2. ZInv => JobComplete
  BY DEF ZInv, RoundInv, JobComplete
<1> QED
  BY <1>1, <1>2, EveryServer, PTL DEF Spec

\* What the prompt for the number of threads would have to check: that there
\* is one, and that the last of them gets a chunk.
EveryThreadWorks ==
    \A n \in ThreadCounts :
        n # 0 /\ (n - 1) * ((DATA_CHUNKS + n - 1) \div n) < DATA_CHUNKS

\* With such a number of threads nothing is divided by 0 and retrieve() and
\* evict() join threads only, although they count numThreads and not the
\* threads they have created.
THEOREM OnlyThreadsJoined ==
    ASSUME EveryThreadWorks
    PROVE  Spec => []JoinsThreads
<1>1. Init => IInv /\ JoinsThreads
  BY InitInv DEF Init, JoinsThreads, EveryThreadWorks
<1>2. IInv /\ JoinsThreads /\ [Next]_vars => JoinsThreads'
  <2>0. \A rounds \in {Retrieve, Evict} : IInv => ~ StartNone(rounds)
    BY DEF IInv, StartNone
  <2> SUFFICES ASSUME IInv, JoinNoThread PROVE FALSE
    BY <2>0 DEF Next, JoinsThreads, Start, Create, CreatedAll, Join, JoinedAll,
       Compute, Exit, vars
  <2>1. numThreads \in ThreadCounts \ {0} /\ i \notin Created /\ i \in Nat /\ i < JoinBound
    BY JoinNoThreadInv, Types DEF IInv, JoinNoThread
  <2>2. startIdx(numThreads - 1) < DATA_CHUNKS
    BY <2>1 DEF EveryThreadWorks, startIdx, step
  <2>3. numThreads - 1 \in Created /\ numThreads \in Nat \ {0}
    BY <2>1, <2>2, CreatedFacts, StepFacts
  <2>4. i <= numThreads - 1
    BY <2>1, <2>3, JoinBoundFacts
  <2> QED
    BY <2>1, <2>3, <2>4, CreatedFacts
<1> QED
  BY <1>1, <1>2, NextInv, PTL DEF Spec
=============================================================================
