--------------------------- MODULE ComputeThreads ---------------------------
(***************************************************************************)
(* The compute threads of a server.  A job (retrieve, evict) is a sequence  *)
(* of rounds; in a round the main thread deals the DATA_CHUNKS chunks of    *)
(* the blocks out to threads, a contiguous run each, and joins them.  The   *)
(* thread of a chunk in one round reads what the round before wrote for it. *)
(*                                                                          *)
(* Loading and the dot product of retrieve, and loading in evict, join      *)
(* numThreads threads; the rounds of secretShare and the last of evict join *)
(* the threads they have created.                                           *)
(***************************************************************************)
EXTENDS Integers, Sequences

CONSTANTS
    DATA_CHUNKS,
    nthreads,   \* hardware_concurrency()
    INT_MAX,
    Answers     \* the answers to "How many computation threads to use?"

\* The answers are ints.
ASSUME ThreadsAssumption ==
    /\ DATA_CHUNKS \in Nat \ {0}
    /\ INT_MAX \in Nat /\ nthreads \in 1 .. INT_MAX
    /\ Answers \subseteq -INT_MAX - 1 .. INT_MAX

VARIABLES
    numThreads,
    job,        \* the rounds of the job: how many threads each joins
    round,      \* the round of the job, 0 between two jobs
    pc,         \* the main thread: "loop", "create", "join", or "undefined"
                \* after a join of no thread or a division by no threads
    i,          \* its loop variable
    thread,     \* thread_compute: what is known of every handle
    at,         \* the next chunk of every thread
    done        \* the last round that has been computed, for every chunk

vars == <<numThreads, job, round, pc, i, thread, at, done>>

Chunk  == 0 .. DATA_CHUNKS - 1
Handle == 0 .. DATA_CHUNKS      \* more than any round uses

\* Variant a run must reject: the answer is compared as an int.
AcceptedAsInt(n) == ~(n > nthreads)

\* The prompt asks again "while(selectedThreads>nthreads)", where nthreads is
\* unsigned and the answer is converted.
Accepted(n) == ~((IF n < 0 THEN n + 2 * (INT_MAX + 1) ELSE n) > nthreads)

\* What a server is constructed with.
ThreadCounts == {n \in Answers : Accepted(n)}

Retrieve == <<"numThreads", "numThreads">>
Evict    == <<"numThreads", "created", "created", "created">>

\* Variant a run must reject: the share is rounded down.
StepRoundedDown == IF numThreads > DATA_CHUNKS THEN 1 ELSE DATA_CHUNKS \div numThreads

\* ceil(DATA_CHUNKS / numThreads), the chunks of one thread.
step == (DATA_CHUNKS + numThreads - 1) \div numThreads

startIdx(t) == t * step

\* Variant a run must reject: the last thread is cut short.
EndIdxShort(t) ==
    IF startIdx(t) + step > DATA_CHUNKS THEN DATA_CHUNKS - 1 ELSE startIdx(t) + step

endIdx(t) == IF startIdx(t) + step > DATA_CHUNKS THEN DATA_CHUNKS ELSE startIdx(t) + step

\* The threads the creating loop makes: its condition is "i < numThreads ,
\* startIdx < DATA_CHUNKS", of which only the second part counts.
Created == {t \in Handle : startIdx(t) < DATA_CHUNKS}

\* Variant a run must reject: the last thread is not joined.
JoinBoundShort == numThreads - 1

\* How many threads the joining loop of the round joins.
JoinBound ==
    IF job[round] = "numThreads"
    THEN numThreads
    ELSE CHOOSE n \in 0 .. DATA_CHUNKS : n \notin Created /\ \A t \in 0 .. n - 1 : t \in Created

Init ==
    /\ numThreads \in ThreadCounts
    /\ job = Retrieve
    /\ round = 0
    /\ pc = "loop"
    /\ i = 0
    /\ thread = [t \in Handle |-> "none"]
    /\ at = [t \in Handle |-> 0]
    /\ done = [c \in Chunk |-> 0]

\* The command loop calls retrieve() or evict().
Start(rounds) ==
    /\ pc = "loop" /\ numThreads # 0
    /\ job' = rounds
    /\ round' = 1
    /\ pc' = "create"
    /\ i' = 0
    /\ done' = [c \in Chunk |-> 0]
    /\ UNCHANGED <<numThreads, thread, at>>

\* The same with no threads: the chunks are divided by 0, and the result is
\* converted to an int, which cannot hold it.
StartNone(rounds) ==
    /\ pc = "loop" /\ numThreads = 0
    /\ job' = rounds
    /\ round' = 1
    /\ pc' = "undefined"
    /\ UNCHANGED <<numThreads, i, thread, at, done>>

Create ==
    /\ pc = "create" /\ startIdx(i) < DATA_CHUNKS
    /\ thread' = [thread EXCEPT ![i] = "running"]
    /\ at' = [at EXCEPT ![i] = startIdx(i)]
    /\ i' = i + 1
    /\ UNCHANGED <<numThreads, job, round, pc, done>>

CreatedAll ==
    /\ pc = "create" /\ startIdx(i) >= DATA_CHUNKS
    /\ pc' = "join"
    /\ i' = 0
    /\ UNCHANGED <<numThreads, job, round, thread, at, done>>

\* A thread computes a chunk; it exits after its last one.
Compute(t) ==
    /\ thread[t] = "running" /\ at[t] < endIdx(t)
    /\ done' = [done EXCEPT ![at[t]] = round]
    /\ at' = [at EXCEPT ![t] = @ + 1]
    /\ UNCHANGED <<numThreads, job, round, pc, i, thread>>

Exit(t) ==
    /\ thread[t] = "running" /\ at[t] >= endIdx(t)
    /\ thread' = [thread EXCEPT ![t] = "exited"]
    /\ UNCHANGED <<numThreads, job, round, pc, i, at, done>>

Join ==
    /\ pc = "join" /\ i < JoinBound
    /\ i \in Handle /\ thread[i] = "exited"
    /\ thread' = [thread EXCEPT ![i] = "joined"]
    /\ i' = i + 1
    /\ UNCHANGED <<numThreads, job, round, pc, at, done>>

\* pthread_join of a handle that was never set or has been joined before.
JoinNoThread ==
    /\ pc = "join" /\ i < JoinBound
    /\ i \in Handle => thread[i] \in {"none", "joined"}
    /\ pc' = "undefined"
    /\ UNCHANGED <<numThreads, job, round, i, thread, at, done>>

JoinedAll ==
    /\ pc = "join" /\ i >= JoinBound
    /\ IF round < Len(job)
       THEN round' = round + 1 /\ pc' = "create"
       ELSE round' = 0 /\ pc' = "loop"
    /\ i' = 0
    /\ UNCHANGED <<numThreads, job, thread, at, done>>

Next ==
    \/ \E rounds \in {Retrieve, Evict} : Start(rounds) \/ StartNone(rounds)
    \/ Create \/ CreatedAll
    \/ Join \/ JoinNoThread \/ JoinedAll
    \/ \E t \in Handle : Compute(t) \/ Exit(t)

Spec == Init /\ [][Next]_vars
-----------------------------------------------------------------------------
\* Every variable has its type; in particular no answer below 0 or above nthreads
\* passes the prompt (0 does), and the handles of the threads that are created
\* fit the array thread_compute, which has numThreads of them.
TypeOK ==
    /\ numThreads \in ThreadCounts /\ numThreads \in 0 .. nthreads
    /\ job \in {Retrieve, Evict}
    /\ round \in 0 .. 4
    /\ pc \in {"loop", "create", "join", "undefined"}
    /\ i \in 0 .. numThreads
    /\ thread \in [Handle -> {"none", "running", "exited", "joined"}]
    /\ \A t \in Handle : t >= numThreads => thread[t] = "none"
    /\ at \in [Handle -> 0 .. DATA_CHUNKS]
    /\ done \in [Chunk -> 0 .. 4]

\* The chunks of a thread, and whether it has been created in this round.
Share(t) == {c \in Chunk : startIdx(t) <= c /\ c < endIdx(t)}
Begun(t) == pc \in {"join", "undefined"} \/ (pc = "create" /\ t < i)

\* How far a thread that was created is: its chunks up to the next one have
\* been computed in this round, the others in the round before.
BegunInv(t) ==
    /\ at[t] \in startIdx(t) .. endIdx(t)
    /\ thread[t] \in {"running", "exited", "joined"}
    /\ thread[t] # "running" => at[t] = endIdx(t)
    /\ thread[t] = "joined" <=> pc # "create" /\ t < i
    /\ \A c \in Share(t) : done[c] = IF c < at[t] THEN round ELSE round - 1

\* One that is still to be created in this round.
AheadInv(t) ==
    /\ thread[t] \in {"none", "joined"}
    /\ pc = "create" => \A c \in Share(t) : done[c] = round - 1

\* How far a server with threads is in a job.
Progress ==
    /\ pc = "loop" <=> round = 0
    /\ round <= Len(job)
    /\ pc = "create" => \A t \in Handle : t < i => t \in Created
    /\ \A t \in Handle \ Created : thread[t] = "none"
    /\ \A t \in Created : IF Begun(t) THEN BegunInv(t) ELSE AheadInv(t)
    /\ pc = "loop" => \A c, d \in Chunk : done[c] = done[d]

\* The progress of a job, an inductive invariant: every thread is where the
\* loops of the main thread have it, and its chunks are as far as it is.  A
\* server that was given no threads never creates one and computes nothing.
RoundInv ==
    IF numThreads = 0
    THEN /\ pc \in {"loop", "undefined"}
         /\ \A t \in Handle : thread[t] = "none"
         /\ \A c \in Chunk : done[c] = 0
    ELSE Progress

\* No chunk is skipped, computed twice, or computed from the data of an
\* earlier round or job: every round of a chunk follows the one before.
RoundsInOrder ==
    [][\A c \in Chunk : done'[c] # done[c] => done'[c] = IF round = 0 THEN 0 ELSE done[c] + 1]_vars

\* When a job is over, no thread runs that could still write its (freed)
\* vectors, and the answer is complete.
JobComplete ==
    pc = "loop" => /\ \A t \in Handle : thread[t] # "running"
                   /\ \A c, d \in Chunk : done[c] = done[d]

\* Whatever number of threads the user may choose, the chunks are divided by a
\* number of threads and only threads are joined.
JoinsThreads == pc # "undefined"
=============================================================================
