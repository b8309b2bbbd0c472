# DuetORAM in TLA+

TLA+ modules, TLC runs and TLAPS proofs for DuetORAM, an oblivious RAM of one
client and two servers. Paths below are relative to the repository root.
`PROJECT.json` maps every definition that models code to its lines.

## 1. The system

The client keeps `NUM_BLOCK` blocks in a binary tree of buckets that both
servers store in two identical copies. Every block is the exclusive or of its
contents and two keystreams, one under the key of each server; no server knows
both keys. To read a block the client sends the servers two shares of a vector
that selects its slot on a path; their answers add up to the masked block. The
block is then given a new leaf and fresh IVs and is written to the next slot of
the root. After `EVICT_RATE` accesses the root is full and one path is
*evicted*: the client hands out shares of a permutation, and the servers permute
the blocks of the path, and the sibling of its leaf, without learning it.

| Component | Code | State | Operations |
|---|---|---|---|
| Tree geometry | `src/DuetORAM.cpp`, `include/config.h` | none | `build`, `getFullPathIdx`, `getEvictLeafID`, `getSharedVector` |
| Client | `src/ClientDuetORAM.cpp` | `pos_map`, `metaData`, `numRead`, `numEvict`, keys, the file `local_data` | `init`, `load`, `access`, `sendNrecv` |
| Eviction planning | `SecretSharedShuffle::generateShuffle`, `readBucket`, `readSiblingBucket` | (of the client) | |
| Servers (two) | `src/ServerDuetORAM.cpp` | bucket files, IV files, `mask_key`, buffers | the command loop `start`: `recvORAMTree`, `recvORAMKey`, `retrieve`, `recvBlock`, `recvInitialPermutation`, `evict` |
| Shuffle | `src/SecretSharedShuffle.cpp` | matrices, `a`, `b`, `delta` | `initialize`, `secretShare` |
| Compute threads | `retrieve`, `evict`, `secretShare` | `thread_compute` | rounds of `pthread_create` and `pthread_join` |
| Parallel loops | `evict`, `transpose_parallel`, `xor_vectors_optimized`, `efficient_rotate` | matrices, `a`, `b`, `delta`, per-thread buffers | OpenMP regions, vector loops |
| Menus | `src/main.cpp` | none | load or create, transmit, access, number of threads |
| AES-CTR masks | `include/AESNIWrapper.hpp`, `include/CPUFeatures.hpp` | round keys | keystream of a key and an IV |
| Utilities, logs | `src/Utils.cpp` | none | random numbers, files |

How they interact: the client talks to every server over a ZeroMQ
request/reply socket, mostly from one thread per server; an exchange is a command
(answered `OK`) and a payload (answered when it has been handled). The servers
talk to each other in `secretShare`, over one request/reply socket with server 1
asking, and to exchange their results, with a sending and a listening thread on
each. Within a server, rounds of compute threads share arrays and are joined;
in between, the loops of an eviction run in OpenMP regions.

What is hard about it:

- four maps of the same tree (`pos_map`, `metaData`, the file, and the buckets
  under the IVs) are updated at different places and times;
- a wrong entry shows only when its block is accessed, perhaps hundreds of
  accesses later, as a failed assertion or not at all;
- an eviction overwrites buckets it has not read, and relies on the order of
  earlier evictions for that;
- the two copies must stay identical although they are written by separate
  exchanges, and client and servers may die between these;
- a server tells neither who sent a message nor what it was meant for: after a
  death the next message is taken for what it waits for;
- the shuffle is correct only if rotations, punctured columns, shares and
  corrections fit modulo the size of the vector, on two servers that each see
  a part.

What makes each part correct: *geometry*: a permutation of the leaves that
spreads evictions over every subtree; *client*: its maps agree, every block is
readable, uploads go to free slots; *retrieval*: the answers add up to the block
asked for; *upload*: identical copies under the IVs the client has; *shuffle*:
identical copies of the permuted blocks, whatever the interleaving, no deadlock,
nothing left on the network; *threads*: no chunk skipped or read too early, only
threads joined; *command loop*: a failure of one process leaves disks, keys and
protocol as a later client expects them; *parallel loops*: no race, and the
words and sums a sequential program would have.

## 2. The modules

What extends what (`MC...` modules extend the module they are named after; a
`...Proofs` module extends its module and what is in brackets):

```
DuetORAM                       DuetORAMProofs
  +- GenerateShuffle
  |    +- ClientDuetORAM       ClientDuetORAMProofs [DuetORAMProofs]
  +- CommandLoop               CommandLoopProofs [DuetORAMProofs]
  +- AccessSession (XorWords)  AccessSessionProofs [DuetORAMProofs, XorWordsProofs]
XorWords                       XorWordsProofs
  +- ShuffleMatrices
  |    +- SecretSharedShuffle  SecretSharedShuffleProofs [XorWordsProofs]
  |         (an INSTANCE of ReplacedCopies)
  +- Kernels
       +- EvictLoops           EvictLoopsProofs [XorWordsProofs]
          (ShuffleMatrices)
ComputeThreads                 ComputeThreadsProofs
```

- **DuetORAM**: numbering of nodes, paths, the order of evictions, `build()`.
  Recursive walks are recursive functions, so that the modules above it can
  be proved about.
- **GenerateShuffle**: what one eviction does to the client's maps:
  `readSiblingBucket` and `readBucket` (`Listed`), the layers with their
  counters and the early return (`Overflows`, `Started`), the rows (`Sent`),
  the new maps.
- **ClientDuetORAM**: the client's life: `Access` (the whole of `access()` up
  to the eviction), `AccessFails` (its assertion), `Evict` and `EvictOverflow`
  (step 9, with `generateShuffle`, both servers' `evict`, and the counter),
  `OpenFile` and `Save` (step 11: the file is opened with `wb+`, which cuts it to
  nothing, and then written; in between `saved.complete` is false), `Stop`, `Crash`,
  `CrashAfterEvict` and `CrashInWrite` (which `cut` records), `Load` and
  `LoadShort` (`load()` of a file that is too short). The servers'
  contents are seen through the client's IVs: `tree[n][s] = b` when the slot,
  unmasked with the IVs the client has for `b`, is `b`; `savedTree` is the same
  for the IVs in the file. Both change in one step with what changes IVs or
  slots.
- **AccessSession**: the messages of retrieval, upload and key transfer
  between a client that can die between any two of them and two servers with
  their command loop, which can restart, or exit because what they took for a
  path does not exist. The client's file is opened and written in two steps
  here too. Words are sets of independent tokens under exclusive or,
  so that "the answers add up to the block" is computed and not assumed. It
  covers one epoch, up to the eviction.
- **CommandLoop**: the other half of the protocol: the whole command loop, from
  the transfer of the initial tree over keys, requests and the material of an
  eviction to the eviction and the write of the client's file, with failures at
  every point. A file is a version, the number of the build or eviction that
  wrote it, and 0 when it is torn, cut or garbled. `Take...` are the handlers
  of the servers; `m.part` and `m.kind` say what a message is, `phase` what the
  server takes it for. `retrieve` answers whatever begins with a leaf, the payload
  of an eviction too (`TakeRequest`); what it or `evict` cannot use ends the
  server (`TakeUnusable`). `Computed` is the version an eviction produces: its own
  number if both servers run it on the right files with the right keys and
  material, else 0. `stray` is the request of a dead client that is still on
  its way. Two variables are history: `fatal`, the failures the program does not
  survive, and `misled`, the servers that may have taken a message for another
  one.
- **ShuffleMatrices**: permutations, rotations and sums of rows and columns.
- **SecretSharedShuffle**: one eviction on the two servers as messages: the
  client's two phases, `evict`, `secretShare`, the exchange by two threads on
  each server, and the write-back. Matrices, masks and blocks are words of
  arbitrary bits; the permutation, its shares, and the punctured columns are
  arbitrary.
- **ReplacedCopies**: what an eviction promises the client. Each server
  replaces its copy once and acknowledges afterwards.
- **ComputeThreads**: the prompt for the number of threads, and the rounds of
  threads of `retrieve`, `evict` and `secretShare`, with the two joining rules
  the code has.
- **Kernels**: the loops over words as operators: registers and remainders of the
  exclusive or and of the dot product, the tiles of `transpose_parallel`, the
  batches of `generate_keystream_ctr`.
- **EvictLoops**: what `RecvEvict` of `SecretSharedShuffle` does in one step,
  as the nine parallel loops of `evict`: teams of any size, static and dynamic
  schedules, barriers, the engine all threads share, the buffer every thread
  has. A step of a thread is what it does between two accesses to shared memory.
- **XorWords**, **XorWordsProofs**, **SecretSharedShuffleProofs**: exclusive or,
  its laws, the algebra of rotated and punctured matrices, the invariance and
  refinement proofs.
- **EvictLoopsProofs**: that the loops over words of `Kernels` are their sequential
  counterparts; then the invariant `LoopsInv`, which stands at the end of
  `EvictLoops`, and what follows from it, from these loops and from the sums of
  `XorWordsProofs`.
- **DuetORAMProofs**, **ComputeThreadsProofs**: the theorems about the tree and
  the threads.
- **ClientDuetORAMProofs**, **AccessSessionProofs**: the invariants `BookInv`
  and `SessionInv`, which stand at the end of `ClientDuetORAM` and
  `AccessSession`, and what follows from them. Both use the tree of
  `DuetORAMProofs`; the second one also uses the sums of `XorWordsProofs`.
- **CommandLoopProofs**: the invariant `CommandInv`, which stands at the end of
  `CommandLoop`, and what follows from it.

The names of variables are those of the code, but for the control state: `pc`
stands for where a thread is, `net` and `thread` for sockets.

### What is abstracted

- A block is one word. Its chunks go through the same steps; how chunks are
  dealt out to threads is `ComputeThreads`.
- AES: what a counter block encrypts to is a word of its own for every key and IV.
  IVs are drawn at random from 128 bits and never equal. A seed is its expansion.
- Matrices and their sums in `EvictLoops` have one chunk: the loops over
  chunks inside a step are sequential and the same for every chunk. The masks
  and stored blocks have all chunks, which the transposition and the batches
  need.
- `CommandLoop` has one retrieval in the place of the accesses of an epoch and
  no upload: those are `AccessSession`, with the write of the file each access
  ends with. Servers do not share a disk with the
  client.
- In `ClientDuetORAM` what both servers compute is one step, which
  `SecretSharedShuffle` justifies; in `SecretSharedShuffle` and `AccessSession` a
  command and its `OK` are the first half of its request where nothing can
  happen in between.
- Random choices (new leaf, shares, permutation, order of the blocks) are
  arbitrary choices: the models say nothing about what a server can learn.
- A socket does not lose, duplicate or reorder messages (ZeroMQ over TCP); a
  process may die.

## 3. The runs

| Run | Module | Bounds | Shows |
|---|---|---|---|
| `client_epochs` | ClientDuetORAM, `CrashSpec` | 2 levels, 3 blocks, 2 slots, 2 accesses per eviction, every crash | `MetaDataExact`, `Recoverable`, `FileRecoverable`, `UploadSlotFree`, `BookInv`, `EvictionDescends`, `LoadRestores`, `ReadableStays` |
| `client_deep` | MCClientDuetORAM | 3 levels, an eviction after every access, 2 of 3 blocks accessed | `SiblingsEmpty`, `EvictionDescends` |
| `client_crash_late` | ClientDuetORAM, `CrashSpec` | the tree of `client_epochs` with 3 slots | `AssertHolds` is violated |
| `client_garbage` | ClientDuetORAM | one entry of unwritten memory | `AssertHolds` is violated |
| `shuffle` | MCSecretSharedShuffle | 3 entries, all permutations and shares, 9 families of columns | `ShuffleInv`, `CopiesIdentical`, `DeltaCorrect`, `NothingLeftOver`, `CopiesReplaced`, `EvictionCompletes` |
| `access_session` | AccessSession, `CrashSpec` | 1 level, 2 slots, 3 uploads, all shares of a position, every crash and restart | `SessionInv`, `AnswersAddUp`, `CopiesAgree`, `MemoryFits`, `FileFits`, `KeysKept`, `Resynchronised`, `DamageConfined` |
| `access_crash_upload` | AccessSession, `CrashSpec` | the same | `AssertHolds` is violated |
| `access_keys` | AccessSession | the tree transmitted or not | `KeysKnown` is violated |
| `commands` | CommandLoop | 1 level, 3 builds and evictions, 2 failures | `CommandInv`, `Survives`, `SameEviction`, `FileNotAhead`, `EvictionFinishes`, `ClientServed` |
| `evict_loops` | MCEvictLoops | 3 slots, 5 chunks, teams of 1 to 3, tiles, registers and batches of 2 | `RaceFree`, `VectorExact`, `RotatedBeforeSums`, `SumsExact`, `LoopsInv` |
| `threads` | MCComputeThreads | 5 chunks, answers from -16 to 9, 0 included | `TypeOK`, `RoundInv`, `RoundsInOrder`, `JobComplete` |
| `threads_join` | ComputeThreads | 8 chunks, 5 threads among others | `JoinsThreads` is violated |

Why the bounds are enough to be interesting:

- *client*: two levels are the least with an inner node whose sibling is
  overwritten unread, a leaf, its sibling and a bucket that is not on the path.
  No counter is cut off: `numRead` and `numEvict` are modular, so the state
  space is finite and complete, over any number of epochs. Two slots per bucket
  make buckets exactly full (`EvictOverflow`), three leave room beside them.
  `client_deep` adds a second inner level, on which the reverse lexicographic
  order of evictions and the order from left to right differ.
- *shuffle*: three entries are the least with permutations that are not their
  own inverses and do not commute, and with a rotation to the right that is not
  one to the left. Every entry of every matrix, mask and vector is an
  independent token and every step is linear, so that a wrong sum cannot cancel
  by chance. The columns are restricted to lines to keep the run small; the
  proofs have them all.
- *access*: an epoch has two uploads; the third (`MaxUploads`) is one that a
  reload repeats under another IV. What an exchange or a write of the file
  that was cut, or a server that restarted under a client, does later is excused
  by `cut`, which these set, and bounded by `DamageConfined`.
- *commands*: three builds and evictions give a tree with two evictions, or a
  tree that is built again over an old one. With two failures a client can die
  and leave a late request, or a client and a server fail, or both servers:
  enough to mislead both servers, which `FileNotAhead` excuses. For late requests at
  both servers it takes three, and so it does for the payload of an eviction to
  reach `retrieve` (a death, its late request, and a restart); the proofs have any
  number. `drawn` and `failures` are
  the only bounds.
- *evict_loops*: 3 slots and 5 chunks are no multiples of the tiles, registers and
  batches of 2, with a full one before the remainder; `a`, `b` and `delta` start
  with tokens an earlier eviction left; the last AES block is cut and the counter of one slot wraps around (5 values). A round key stands for
  itself (2 rounds). Every entry of every matrix is its own token. All
  permutations, both servers and every team up to three are tried: a
  slice may be empty, one, or several iterations.
- *threads*: 5 chunks over 1 to 6 threads has every case: a share that divides,
  one that does not, fewer threads than asked for, more threads than chunks; the
  answers are on both sides of the bounds of the prompt and of an int.

Deadlock is checked in `client_deep`, `shuffle` and `evict_loops`. The other runs
may stop: after an assertion, after undefined behaviour, at `evict` in
`AccessSession`, when a bound is used up, or in `CommandLoop` where processes
wait for one that is dead.

**Fairness** is assumed where a run checks liveness. In `SecretSharedShuffle`, for
`EvictionCompletes`: weak fairness of the client's thread of each server, of each
server, and of the steps of `secretShare`. In `CommandLoop`: weak fairness of
`Client` (the steps of the program between two inputs of its user), of `Meet`,
and of `Handle(s)` and `Evicting(s)` of each server. Each of these is a thread of
its own that is blocked in a socket operation or can run; sockets deliver
between processes that stay up. Users, deaths and restarts are not fair:
`EvictionFinishes` and `ClientServed` say what happens unless one more failure
comes (`failures > n`), which is what the code, without a timeout, can promise.

## 4. Observations about the code

- `access()` writes `local_data` only after both servers have evicted
  (`src/ClientDuetORAM.cpp:664`). A client that dies in between comes back to
  positions and IVs the servers have replaced: `client_crash_late`.
- Every access ends with a write of `local_data`, and opening it with `wb+`
  (`src/ClientDuetORAM.cpp:665`) cuts the old file to nothing first. A client that
  dies before the writes after it (670-675) are on the disk leaves an empty or a partial
  file, and the positions and keys of all blocks are lost. `load()` compares what it
  has read with the length of the file only, and copies the missing bytes from
  beyond its buffer (`LoadShort`). `FileRecoverable` and `FileFits` say that the
  file is good but for this window and the failures named here; writing a new file
  and renaming it would close it.
- The rows of `metaData` are allocated and not cleared
  (`src/ClientDuetORAM.cpp:14`), but evictions read every slot:
  `client_garbage`. With memory that reads as 0 (`Garbage = {0}`) the
  bookkeeping is right, which is what the other runs assume.
- A client that dies between its two uploads leaves copies that differ, and
  a server that waits for a payload takes the next command for it
  (`src/ClientDuetORAM.cpp:516`): `access_crash_upload`. Every access whose
  shares select the slot fails then, not only those of that block.
  `access_session` shows how far the damage goes: `load()` brings the protocol
  back in step, and a copy is spoilt only where a command was taken for a block.
  What is taken for a path has no file, and the server exits
  (`src/ServerDuetORAM.cpp:439`), which harms the client that runs and no disk.
- `mask_key` reaches a server only with `sendORAMTree` or from `load()`; a
  client that is told not to transmit the tree evicts with keys that were never
  set: `access_keys`.
- `retrieve()` and the loading round of `evict()` join `numThreads` threads
  and create `ceil(DATA_CHUNKS / step)`: `threads_join`.
- What a failure costs, from `commands`. `Survives` holds for every failure but
  those in `Fatal`: a death in the transfer of the tree, between an eviction and
  the write of the file, or while a server waits for its key or its material; a
  request of a dead client that comes late; and a server that is restarted
  while a client runs. `SameEviction` and `FileNotAhead` hold for most of these
  too. In particular:
  - a client that dies after it has told one server of an eviction leaves
    that server in `secretShare`; the disks are good, but a later client hangs
    there until that server is restarted (`ClientServed` starts from idle
    servers);
  - a client that dies in the transfer of the tree leaves a server that takes
    the next messages for files, whatever they are: a client that then creates
    a tree believes it has sent it;
  - a client that dies while a server waits for the material of an eviction is
    harmless to a client that loads, but one that creates a tree is answered
    by a server that has swallowed the start of the transfer;
  - a server that is restarted between the material and the eviction has
    neither key nor material, and both servers write garbled buckets; the
    client counts the eviction as done;
  - `FileNotAhead` says that worse does not happen (the file names no eviction
    that is not on the disks, garbled or not), unless *both* servers take a
    message for another one. If both restart after the command of the eviction and
    before its payload, or if a dead client leaves a late request at both that
    comes in between, they take the payload for a command, answer `OK` all the
    same (`src/ServerDuetORAM.cpp:149`), and the client counts and saves an eviction
    nobody has run. One server that is in step is enough: it waits in
    `secretShare` for the other one, and the client for it;
  - the payload of an eviction that a dead client leaves may reach a server
    when the other one has the payload of the next client: they run two
    different evictions together. `SameEviction` excludes an eviction that comes
    late, and nothing else.
- All threads of the first loop of `evict` call `set_encrypt_key` on the engine
  they share (`src/ServerDuetORAM.cpp:772`). This is a data race on the
  round keys, but a thread writes what is there already, since the main thread
  expanded the same key before: `VectorExact` holds, and fails if the engine
  cleared its keys first (`ExpandedAnew`). It is the exception `RaceFree` makes
  (`KeptKey`), and the only one.
- `CPUFeatures` detects features lazily without a lock. `main` prints them before
  any thread exists (`src/main.cpp:11`), so this does not race.
- An answer of 0 to the prompt "(1-nthreads)" for the number of threads passes
  (`src/main.cpp:145`); the first retrieval or eviction then divides by it
  (`src/ServerDuetORAM.cpp:351`), and the result fits no int (`StartNone`).
  Negative answers are rejected by the conversion to unsigned (`threads`,
  `PromptFacts`).
- `generateShuffle` gives up when a bucket is exactly full and any block is
  still to be looked at, even one for another layer
  (`src/SecretSharedShuffle.cpp:38`), and its caller goes on with entries of
  `pi` that are still -1. `client_epochs` reaches this (`EvictOverflow`) and
  shows that the file is good up to there; what follows is undefined behaviour
  and is not modelled.

## 5. The proofs

**The shuffle.** For every `SIZE_PI` and every set of bits, under
`ShuffleAssumption` (at least one entry; what a punctured entry expands to is a
word), `SecretSharedShuffleProofs` has:

- `TypeCorrect`: `Spec => []TypeOK`. It needs that the second share of a
  permutation is one, that is, that an injection of a finite index set is onto.
- `ShuffleInvariant`: `Spec => []ShuffleInv`. `ShuffleInv` is the
  inductive invariant, with `TypeOK` as its first part. It says of every
  message in flight where its sender and receiver are and what it carries
  (`MessageInv`), of every server what it holds at each point (`ServerInv`), that
  the two shares of the vector add up to the blocks of the path, and that the
  shares of the permutation compose to it. The properties below are not
  inductive: that the copies agree at the end depends on what was on the
  network long before.
- `CorrectionsFit`: `Spec => []DeltaCorrect`. The punctured entry of row
  `i`, after its rotation, is the one column that both sums of the correction
  contain, so it cancels: the correction a server computes without knowing it
  is the right one.
- `CopiesCorrect`: `Spec => []CopiesIdentical`, and `NetworkEmpty`:
  `Spec => []NothingLeftOver`.
- `ImplementsReplacedCopies`: every behaviour satisfies the safety part of
  `ReplacedCopies` under the mapping `target <- Shuffled`,
  `copy <- stored`, `state <- ReplyState`.

The argument: after `RecvEvict` a server holds the column sums `a` and row sums
`b` of the matrix it knows, and `delta`. Server 0 computes
`a[0] + P0(a[1] + v) + delta[0]`, which by `CorrectionsFit` is
`a[0] + b[1] + P0(plain)`; server 1 applies its share and gets
`b[0] + P(plain)`, and server 0 keeps `b[0]`. The lemmas on
matrices are in the same module (a rotation permutes a row, a puncture changes one
entry); `XorWordsProofs` has the laws of exclusive or and of sums over finite sets.

**The threads.** For every number of chunks and every set of answers to the prompt,
under `ThreadsAssumption` (ints, 0 and negative ones among them), `ComputeThreadsProofs` has:

- `RoundInvariant`: `Spec => [](TypeOK /\ RoundInv)`, the inductive
  invariant. With 0 threads no thread is ever created; else (`Progress`) a thread that has been created has computed its chunks up to `at`
  in this round and none after it; one still ahead has them all from the round
  before. It rests on the arithmetic of the division of the chunks:
  the shares of the threads that are created cover the chunks (`SharesCover`),
  do not overlap (`SharesDisjoint`), and are at most `numThreads`
  (`CreatedFacts`); every joining loop reaches all of them (`JoinBoundFacts`).
- `PromptFacts`: what passes the prompt is between 0 and `nthreads`.
- `HandlesFit` (`TypeOK`), `ChunksInOrder` (`RoundsInOrder`) and
  `JobsComplete` (`JobComplete`) follow from it.
- `OnlyThreadsJoined`: `Spec => []JoinsThreads` under `EveryThreadWorks`, that
  every number of threads `n` is not 0 and satisfies
  `(n - 1) * ceil(DATA_CHUNKS / n) < DATA_CHUNKS`. `threads_join` shows that it fails
  without this condition; it is what the prompt would have to check.

**The loops over words.** For every length, and every width of register, tile and
batch under `KernelsAssumption` (all positive), `EvictLoopsProofs` has:

- `XorRowExact`: the loop over registers and that over the remainder, one after
  the other on the same row, combine every word, and none twice: a second exclusive or
  would undo the first.
- `DotProductExact`: with AVX2 (eight words at a time in four lanes, which are
  then added up in two steps) and without, the sum is that of the selected words.
  Lanes and remainder are a partition of the row, and sums over disjoint sets add up.
- `TilesPartition`: every cell belongs to exactly one tile, so that the tiles
  may be copied in any order by any thread.
- `KeystreamExact`: word `w` is half `w % HALVES` of the block with counter
  `base + w \div HALVES`, whether a batch or the remainder loop computed it and
  whether the last block is cut; none is left as memory had it. Since the value does
  not depend on `BATCH`, it is that of the software path, which has no batches.

**The parallel loops.** For every number of slots, chunks, threads and round keys,
every size of register, tile and batch, every team the runtime may hand out and
every interleaving, under `LoopsAssumption`, `ShuffleAssumption` and
`KernelsAssumption`, `EvictLoopsProofs` has:

- `LoopsInvariant`: `Spec => []LoopsInv`, the inductive invariant, with `TypeOK`
  as its first part (`LoopsTypes`).
- `LoopsRaceFree` (`RaceFree`), `LoopsVectorExact` (`VectorExact`),
  `LoopsRotatedBeforeSums` (`RotatedBeforeSums`) and `LoopsSumsExact`
  (`SumsExact`) follow from it. The last two and `VectorExact` are what
  `RecvEvict` of `SecretSharedShuffle` takes for granted when it computes `a`, `b`,
  `delta` and the vector in one step.

None of these is inductive: `RaceFree` looks at the next accesses only, and
the sums are right at the end because of what every thread added before. `LoopsInv`
says it of every moment in between:

- `ThreadInv` and `TeamInv`, where everybody is: in one loop, or on the two
  sides of the barrier in the middle of a region, with those behind it finished
  (`PassBarrierFacts`, `ForkFacts`). The slices of a static schedule are a partition
  of the iterations, whatever the number of threads (`SliceFacts`, from the rounding in
  `RoundedUp`), and no two threads hold one tile;
- `VectorInv`, `RotationInv` and `SumsInv`, what the arrays hold, in terms of the
  iterations still ahead (`Ahead`, `TilesAhead`): those not ahead are done, the
  others untouched, but for the row a thread is in. `Moved` is a row in the middle of
  its rotation, of which `temp` holds the end;
- `PassInv`, the sums of a thread in the middle of a row: those of the rows of its
  slice that are done, and of the row it is in up to its column (`Counted`).

A barrier turns the second kind into the first: at the end of a pass what all threads
have counted is a partition of the rows, so their sums add up to the column
(`MergedExact`, by induction over the threads in `XorSumParts`). That `roundKeys`
never changes is part of `VectorInv`: the threads race for them, but write what
is there (`KeysKept`), which is the exception in `RaceFree`. For `RaceFree`, `AccessesMean` lists what a thread may touch in each
loop; two iterations touch the same word only if they are the same, and tiles
do not overlap (`TilesPartition`, `TileOfCell`).

**The tree.** For every height, bucket size and eviction rate under
`ConfigAssumption`, `DuetORAMProofs` has:

- `FullPathFacts`: `getFullPathIdx` returns `HEIGHT + 1` nodes of the tree, from
  the root to the leaf it was given. By induction over the levels: the node on level
  `l` lies between `2^l - 1` and `2^(l+1) - 2`.
- `EvictionsApart`: `pow2[l-1]` evictions in a row, from any of them on, run through
  different nodes of level `l-1`, and so through all of them once.
- `EvictionsAlternate`: the next eviction after these runs through the same node of
  level `l-1` as the first one, and then through the other child of it.
- `BuildPositionInjective`: `build()` puts no two blocks in one slot. It rests on
  `BlocksFit`, what the assertion of `build()` checks, which follows from
  `EVICT_RATE <= BUCKET_SIZE`.

`PathAt` gives the node of a path on a level as the leaf divided by a power of
two, and `Reversal` the same for `getEvictLeafID`: the first `l` bits of the leaf
of eviction `n` are the last `l` bits of `n`, in reverse. The recursive functions
of `DuetORAM` are unfolded from lemmas that show that they exist (`Iteration`,
`PowerRecursion`, `FullPathIsPath`), and the inductions go over sets of naturals
(`SetInduction`).

**The client's bookkeeping.** For every height, bucket size, eviction rate and
number of evictions, and with every crash, under `ConfigAssumption` and
`Garbage = {0}` (fresh memory reads as 0; `client_garbage` shows that nothing
holds without it), `ClientDuetORAMProofs` has:

- `BookInvariant`: `CrashSpec => []BookInv`, the inductive invariant: `TypeOK`,
  `MemoryInv` and `FileInv`. From it follow `BookTypes` (`TypeOK`), `MapsAgree`
  (`MetaDataExact`), `BlocksRecoverable` (`Recoverable`), `FileServes`
  (`FileRecoverable`), `UploadsFit` (`UploadSlotFree`), `SiblingsAreEmpty`
  (`SiblingsEmpty`), and the action properties `DamageDoesNotSpread`
  (`ReadableStays`), `LoadRebuilds` (`LoadRestores`) and `BlocksDescend`
  (`EvictionDescends`).
- `NeverAborts`: `Spec => []AssertHolds`. The assertion of `access()` never
  fails unless a client dies between an eviction and the write of its file, which is
  what `client_crash_late` finds.

None of these properties is inductive. `SiblingsEmpty` speaks of the eviction
that is about to run; whether it holds was decided by evictions long ago. `Vacant`
says it of all evictions to come: of the two children of a node above the leaves, the
one the next eviction through the node does *not* run through holds no block. An
eviction keeps that. The nodes of its own path are the ones it fills, and for
them the next one through the node above is `pow2[l-1]` evictions later and runs
through the other child (`EvictionsAlternate`); for every other node the next
eviction is still the same one (`EvictionsApart`), and the bucket is untouched.
`Placed` (no two blocks in a slot), `Sound` (nothing is readable but where the
maps name it) and `RootFree` (the next slots of the root are free) are what the
accesses and the evictions preserve; `FileInv` says the same of the file, which a
client that dies comes back to.

The argument for an eviction: it finds every block of the buckets it reads (`AllFound`),
once (`FoundOnce`, `SentOnce`); a block goes to a bucket of its own path and
of the evicted one (`MeetFacts`, `NewPositions`), into a row no other block has
(`RowsApart`); a bucket that is cleared held only blocks that are sent, because the
siblings it does not read are empty (`ClearedFacts`, from `Vacant`). For an
upload, `Upload`: the slot is free in the maps and on the servers, in memory and in the
file. Of a file nothing is claimed while it is written, nor after a client has died in
that write (`FileRecoverable`, `FileFits`); of all other times these theorems say that
it is complete and fits.

**The session.** For every tree, number of blocks and uploads, every choice of shares,
and every crash and restart, `AccessSessionProofs` has:

- `SessionInvariant`: `CrashSpec => []SessionInv`, the inductive invariant:
  `TypeOK`; `PhaseInv`, where a server is in its command loop when the client is
  at a given point of its exchange; `ClientInv`, that the client is at most one
  access ahead of its file, and that this access took a slot of the root in which the
  file has no block; `CopyInv`, that unless something was cut off the copies fit
  the file, and differ at most in the upload that is on its way.
- `SessionTypes` (`TypeOK`), `LoadResynchronises` (`Resynchronised`),
  `RetrievalCorrect` (`AnswersAddUp`), `CopiesStayEqual` (`CopiesAgree`),
  `MemoryMatchesDisk` (`MemoryFits`), `FileMatchesDisk` (`FileFits`) and
  the action property `DamageIsConfined` (`DamageConfined`) follow from it.
- `KeysStay`: `KeysKept`, if every tree is transmitted (`Transmit \subseteq {TRUE}`);
  `access_keys` shows what happens otherwise. It has an invariant of its own,
  `KeyInv`.

That `AnswersAddUp` holds is not local to the retrieval: the shares differ in
one place (`PathVector`), so the sum of the answers is the word of that slot
only if the two copies agree on the *whole* path, which depends on all earlier
uploads. This is what `CopyInv` carries, in the slots of every node and not
only in those of a block.

**The command loop.** For every tree, every bound on builds, evictions and failures,
under `LoopAssumption` and `ConfigAssumption`, `CommandLoopProofs` has:

- `CommandInvariant`: `Spec => []CommandInv`, the inductive invariant, with `TypeOK`
  as its first part (`CommandTypes`).
- `SameEvictionHolds` (`SameEviction`), `FileStaysBehind` (`FileNotAhead`) and
  `ClientsSurvive` (`Survives`) follow from it.

No server compares identifiers, so each of these depends on who can have sent what a
server holds, after any number of deaths:

- `JobInv`, for `SameEviction`: an eviction a server works on is the client's own, or
  that of a client that died; and as long as it is there, no later client gets past
  this server, whose loop does not answer. So no other eviction can be
  drawn that the second server could hold;
- `FileInv`, for `FileNotAhead`: when one server has answered `evict`, its disk has
  the eviction. This needs to know that the answer was to the eviction and not to
  a payload taken for a command, which `InStep` says of a server that is not
  misled, and that the *other* server has met it by then. Versions on the
  disks only grow or are garbled, but for a file of an old tree that comes late:
  `StrayInv` says that it can find a server that takes files only where
  the file of the client names no eviction yet;
- `CalmInv`, for `Survives`: as long as nothing fatal has happened, servers are where
  the client is (`CalmServer`), and what a client that died left half received
  (`Leftover`) costs the next one no file: its first command is taken
  for a path and the server exits, or the server is in `secretShare` and does not
  answer; either way this client gets no further. While the copies
  are exchanged and written, `Written` says file by file what is on the disk, and
  `Met` that both servers begin to write if one does;
- `ServerInv`: what a server has written up to `cursor` is what it computed;
  `ClientInv`: the client serves one server after the other, or both at a time.

Not proved, only model-checked: liveness (`EvictionCompletes`, `EvictionFinishes`,
`ClientServed`; fairness and `ENABLED` are beyond the proof system), and that the
parallel loops, the shuffle and the client do not deadlock (`ENABLED` as well). Every
invariant the runs check is a theorem.

## 6. Not modelled

- What follows an early return of `generateShuffle` or the joining of a handle
  that is no thread: undefined behaviour; the models stop there.
- AES and its key schedule as computations; that the hardware instructions and
  the library compute the same function. Random numbers, logs, and prompts but
  for the choices that matter.
- The loop for the keystreams of the exchange (`src/ServerDuetORAM.cpp:1102`) and the
  one after it: the first has the shape of the first loop of `EvictLoops`,
  the second writes one row per iteration.
- Servers that read the client's disk (the tree not transmitted), beyond
  `access_keys`.
- A host where `hardware_concurrency()` is 0, which leaves 0 as the only answer the
  prompt accepts.
- Secrecy: that a share, a path or a matrix tells a server nothing is a
  statement about probabilities.

## 7. Plan

1. *Done*: geometry, client bookkeeping, shuffle and threads with their proofs,
   session; then the command loop with failures, the transfer of the tree, the
   parallel loops of an eviction, and the loops over words with their proofs.
2. *Done*: proofs about the client (`BookInv`), the session (`SessionInv`), the
   parallel loops (`LoopsInv`) and the command loop (`CommandInv`).
3. *Left*: the uploads of `AccessSession` in `CommandLoop`, so that one module has the
   whole protocol; servers that read the client's disk.
